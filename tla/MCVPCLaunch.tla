----------------------------- MODULE MCVPCLaunch ----------------------------
(* Instances of VPCLaunch for TLC. *)
EXTENDS VPCLaunch

\* Accounts are only ever compared: it does not matter which one comes first.
FirstAccount == CHOOSE a \in Accounts : TRUE

MCInit == Init /\ account = FirstAccount
MCSpec == MCInit /\ [][Next]_vars /\ Fairness
=============================================================================
