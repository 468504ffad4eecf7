----------------------------- MODULE MCOrphans -----------------------------
(***************************************************************************)
(* One controller runs in a behaviour, beside the other's effects: what    *)
(* orphan cleanup does to an instance the cloud does too, and what garbage *)
(* collection does to a Node a user does too.                              *)
(***************************************************************************)
EXTENDS Orphans, TLC
CONSTANTS c1, i1, i2, a1, a2

\* Two instances of one claim, which one Node name stands for in turn.
OneOwner == i1 :> c1 @@ i2 :> c1

\* The accounts are alike, so that the process may begin with the first.
MCInit == Init /\ account = a1 /\ Cardinality(enabled) = 1

MCSpec == MCInit /\ [][Next]_vars /\ Fairness
=============================================================================
