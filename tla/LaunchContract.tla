-------------------------- MODULE LaunchContract --------------------------
(***************************************************************************)
(* What the launch journal promises about one NodeClaim and the cloud:     *)
(* an instance (a VPC instance, an IKS worker pool) is asked for only by a *)
(* claim that is there, only one at a time, and the claim object goes away *)
(* only when there is nothing left that it owns.                           *)
(***************************************************************************)
CONSTANT
    Launchable  \* the phases of a claim in which an instance may be asked for

VARIABLES
    phase,   \* the NodeClaim: "live", "deleting" or "gone"
    inst     \* its instance: "absent", "requested" or "present"

contractVars == <<phase, inst>>

ContractInit == phase = "live" /\ inst = "absent"

\* A launch is submitted for a claim that owns nothing.
Request ==
    /\ phase \in Launchable
    /\ inst = "absent"
    /\ inst' = "requested"
    /\ UNCHANGED phase

\* The request takes effect, or is found to have had none.
Resolve ==
    /\ inst = "requested"
    /\ inst' \in {"present", "absent"}
    /\ UNCHANGED phase

\* The instance is gone from the cloud.
Vanish ==
    /\ inst = "present"
    /\ inst' = "absent"
    /\ UNCHANGED phase

\* The claim is deleted; with an instance it only starts to go.
Delete ==
    /\ phase = "live"
    /\ phase' = "deleting"
    /\ UNCHANGED inst

\* The claim object disappears.
Collect ==
    /\ phase = "deleting"
    /\ inst = "absent"
    /\ phase' = "gone"
    /\ UNCHANGED inst

ContractNext == Request \/ Resolve \/ Vanish \/ Delete \/ Collect

ContractSpec == ContractInit /\ [][ContractNext]_contractVars
=============================================================================
