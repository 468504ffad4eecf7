---------------------------- MODULE Interruption ----------------------------
(***************************************************************************)
(* The interruption controller.                                            *)
(*                                                                         *)
(* It lists the Nodes, and for each one that carries an IBM Cloud signal   *)
(* marks its offering as unavailable, cordons it, deletes it (in VPC mode, *)
(* and in IKS mode unless the signal is about capacity) and records that   *)
(* the interruption was handled.  Its reads come from an informer cache    *)
(* that lags behind the API server; its writes carry the resourceVersion   *)
(* that was read.  Signals come and go, and a Node may be replaced under   *)
(* its name, between any two of these steps.                               *)
(***************************************************************************)
EXTENDS Naturals

CONSTANTS Names, None, MaxSignals, MaxUID

ASSUME InterruptionAssumption ==
    None \notin Names /\ MaxSignals \in Nat /\ MaxUID \in Nat

VARIABLES
    node,         \* the Node objects in the API server
    cache,        \* the informer's copy of them
    unavailable,  \* the Nodes whose offering was marked unavailable
    ctl,          \* the reconcile in progress
    signals       \* how many signals have been set or cleared

vars == <<node, cache, unavailable, ctl, signals>>

NoNode == [uid |-> 0, rev |-> 0, status |-> "none", maintenance |-> FALSE, completed |-> FALSE, cordoned |-> FALSE,
           deleting |-> FALSE, exists |-> FALSE, ever |-> FALSE, mode |-> "vpc"]

\* A reconcile holds the objects it listed, the one it handles as listed (seen),
\* and the same one as read or written last (cur).
Idle == [pc |-> "idle", listed |-> [n \in Names |-> NoNode], name |-> None, seen |-> NoNode,
         cur |-> NoNode]

Reasons == {"none", "capacity", "infrastructure"}

Nodes == [uid : 0..MaxUID, rev : Nat,
          status : Reasons,       \* the kind of reason in the status or error annotation
          maintenance : BOOLEAN,  \* the maintenance annotation
          completed : BOOLEAN, cordoned : BOOLEAN, deleting : BOOLEAN, exists : BOOLEAN,
          mode : {"vpc", "iks"},  \* what inferModeFromNode reads from the Node
          ever : BOOLEAN]         \* whether this object ever carried a signal

\* The type invariant.
TypeOK ==
    /\ \A n \in Names : node[n] \in Nodes /\ cache[n] \in Nodes
    /\ unavailable \subseteq Names /\ signals \in 0..MaxSignals
    /\ ctl.pc \in {"idle", "loop", "cordon", "patch", "delete", "mark", "record"}
    /\ ctl.seen \in Nodes /\ ctl.cur \in Nodes /\ \A n \in Names : ctl.listed[n] \in Nodes
    /\ ctl.pc \in {"cordon", "patch", "delete", "mark", "record"} =>
          ctl.name \in Names /\ ctl.seen.ever

-----------------------------------------------------------------------------
(* The reconcile *)

Frame == UNCHANGED <<cache, signals>>

\* The maintenance annotation counts only when no other one gives a reason.
checkCapacitySignals(o) == IF o.status = "none" /\ o.maintenance THEN "infrastructure" ELSE o.status

isNodeInterrupted(o) == ~o.completed /\ checkCapacitySignals(o) # "none"

isCapacityRelated(reason) == reason = "capacity"

\* The object that a write or deletion with preconditions is meant for.
Same(n, o) == node[n].exists /\ node[n].uid = o.uid /\ node[n].rev = o.rev

List ==
    /\ ctl.pc = "idle"
    /\ ctl' = [Idle EXCEPT !.pc = "loop", !.listed = cache]
    /\ UNCHANGED <<node, unavailable>> /\ Frame

handleInterruption(n) ==
    LET o == ctl.listed[n] IN
    /\ ctl.pc = "loop" /\ isNodeInterrupted(o)
    /\ ctl' = [ctl EXCEPT !.pc = "cordon", !.listed[n] = NoNode, !.name = n, !.seen = o]
    /\ unavailable' = IF isCapacityRelated(checkCapacitySignals(o)) THEN unavailable \cup {n}
                      ELSE unavailable
    /\ UNCHANGED node /\ Frame

\* Mutant: a capacity signal is left to the worker pool in VPC mode too.
FollowsAnyMode == IF isCapacityRelated(checkCapacitySignals(ctl.seen)) THEN "mark" ELSE "delete"

\* What follows the cordon.
Follows == IF ctl.seen.mode = "iks" /\ isCapacityRelated(checkCapacitySignals(ctl.seen)) THEN "mark"
           ELSE "delete"

\* cordon reads the Node; one that is gone counts as handled.
cordon ==
    /\ ctl.pc = "cordon"
    /\ LET o == cache[ctl.name] IN
       ctl' = IF ~o.exists THEN [ctl EXCEPT !.pc = "mark"]
              ELSE IF o.uid # ctl.seen.uid THEN [ctl EXCEPT !.pc = "loop"]
              ELSE [ctl EXCEPT !.cur = o, !.pc = IF o.cordoned THEN Follows ELSE "patch"]
    /\ UNCHANGED <<node, unavailable>> /\ Frame

\* A conflict is retried from a new read, up to a number of times.
cordonPatch ==
    /\ ctl.pc = "patch"
    /\ LET o == [ctl.cur EXCEPT !.cordoned = TRUE, !.rev = @ + 1] IN
       IF Same(ctl.name, ctl.cur)
       THEN /\ node' = [node EXCEPT ![ctl.name] = o]
            /\ ctl' = [ctl EXCEPT !.cur = o, !.pc = Follows]
       ELSE /\ \E pc \in {"cordon", "loop"} : ctl' = [ctl EXCEPT !.pc = pc]
            /\ UNCHANGED node
    /\ UNCHANGED unavailable /\ Frame

\* Mutant: the deletion has no preconditions.
deleteByName ==
    /\ ctl.pc = "delete"
    /\ node' = [node EXCEPT ![ctl.name].deleting = node[ctl.name].exists]
    /\ ctl' = [ctl EXCEPT !.pc = "mark"]
    /\ UNCHANGED unavailable /\ Frame

\* The deletion is for the exact version on which the signal was seen again; one
\* of an object that is being deleted already changes nothing.
deleteIfStillInterrupted ==
    /\ ctl.pc = "delete"
    /\ IF ~isNodeInterrupted(ctl.cur)
       THEN ctl' = [ctl EXCEPT !.pc = "loop"] /\ UNCHANGED node
       ELSE \/ /\ Same(ctl.name, ctl.cur)
               /\ node' = IF node[ctl.name].deleting THEN node
                          ELSE [node EXCEPT ![ctl.name].deleting = TRUE, ![ctl.name].rev = @ + 1]
               /\ ctl' = [ctl EXCEPT !.pc = "mark"]
            \/ /\ ~Same(ctl.name, ctl.cur)
               /\ ctl' = [ctl EXCEPT !.pc = IF node[ctl.name].exists THEN "loop" ELSE "mark"]
               /\ UNCHANGED node
    /\ UNCHANGED unavailable /\ Frame

markNodeAsInterrupted ==
    /\ ctl.pc = "mark"
    /\ LET o == cache[ctl.name] IN
       ctl' = IF ~o.exists \/ o.uid # ctl.seen.uid THEN [ctl EXCEPT !.pc = "loop"]
              ELSE [ctl EXCEPT !.cur = o, !.pc = "record"]
    /\ UNCHANGED <<node, unavailable>> /\ Frame

markPatch ==
    /\ ctl.pc = "record"
    /\ IF Same(ctl.name, ctl.cur)
       THEN /\ node' = [node EXCEPT ![ctl.name] = [ctl.cur EXCEPT !.completed = TRUE, !.rev = @ + 1]]
            /\ ctl' = [ctl EXCEPT !.pc = "loop"]
       ELSE /\ \E pc \in {"mark", "loop"} : ctl' = [ctl EXCEPT !.pc = pc]
            /\ UNCHANGED node
    /\ UNCHANGED unavailable /\ Frame

Done ==
    /\ ctl.pc = "loop" /\ \A n \in Names : ~isNodeInterrupted(ctl.listed[n])
    /\ ctl' = Idle
    /\ UNCHANGED <<node, unavailable>> /\ Frame

ControllerNext ==
    \/ List \/ cordon \/ cordonPatch \/ deleteIfStillInterrupted \/ markNodeAsInterrupted
    \/ markPatch \/ Done
    \/ \E n \in Names : handleInterruption(n)

-----------------------------------------------------------------------------
(* The cloud, the kubelet and the informer *)

EnvFrame == UNCHANGED <<unavailable, ctl>>

\* IBM Cloud sets or clears the annotations of a Node.
Signal(n, status, maintenance) ==
    LET o == [node[n] EXCEPT !.status = status, !.maintenance = maintenance] IN
    /\ node[n].exists /\ o # node[n] /\ signals < MaxSignals
    /\ node' = [node EXCEPT ![n] = [o EXCEPT !.rev = @ + 1, !.ever = @ \/ isNodeInterrupted(o)]]
    /\ signals' = signals + 1
    /\ UNCHANGED cache /\ EnvFrame

Register(n) ==
    /\ ~node[n].exists /\ node[n].uid < MaxUID
    /\ \E m \in {"vpc", "iks"} :
          node' = [node EXCEPT ![n] = [NoNode EXCEPT !.uid = node[n].uid + 1, !.exists = TRUE, !.mode = m]]
    /\ UNCHANGED <<cache, signals>> /\ EnvFrame

\* A Node goes when core has drained it; it may also be removed by hand.
NodeGone(n) ==
    /\ node[n].exists
    /\ node' = [node EXCEPT ![n] = [NoNode EXCEPT !.uid = node[n].uid]]
    /\ UNCHANGED <<cache, signals>> /\ EnvFrame

Sync(n) ==
    /\ cache[n] # node[n]
    /\ cache' = [cache EXCEPT ![n] = node[n]]
    /\ UNCHANGED <<node, signals>> /\ EnvFrame

-----------------------------------------------------------------------------
(* The specification *)

Init ==
    /\ node = [n \in Names |-> NoNode] /\ cache = [n \in Names |-> NoNode]
    /\ unavailable = {} /\ ctl = Idle /\ signals = 0

Next ==
    \/ ControllerNext
    \/ \E n \in Names : \/ Register(n) \/ NodeGone(n) \/ Sync(n)
                        \/ \E s \in Reasons, maint \in BOOLEAN : Signal(n, s, maint)

Spec == Init /\ [][Next]_vars

\* The manager reruns the controller, and the informer catches up.
FairSpec == Spec /\ WF_vars(ControllerNext) /\ \A n \in Names : WF_vars(Sync(n))

-----------------------------------------------------------------------------
(* Properties *)

\* deleteIfStillInterrupted deletes a Node only while the Node carries a
\* signal that was not handled before, however stale the cache: a signal that
\* was cleared, or a Node that was replaced, aborts the deletion.
DeletesInterrupted ==
    [][\A n \in Names : node'[n].deleting /\ ~node[n].deleting => isNodeInterrupted(node[n])]_vars

\* cordon and markNodeAsInterrupted touch only an object that carried a signal
\* itself, never the one that replaced it under its name; and what is marked as
\* handled was cordoned, and in VPC mode deleted.
HandledWasInterrupted ==
    \A n \in Names :
        /\ node[n].cordoned => node[n].ever
        /\ node[n].completed => node[n].cordoned /\ (node[n].mode = "vpc" => node[n].deleting)

\* A signal that persists is acted upon: the Node is deleted in VPC mode, and at
\* least cordoned in IKS mode.
InterruptedIsHandled ==
    \A n \in Names : ~<>[](/\ node[n].exists /\ checkCapacitySignals(node[n]) # "none"
                           /\ IF node[n].mode = "vpc" THEN ~node[n].deleting ELSE ~node[n].cordoned)

\* Only interrupted Nodes are cordoned, marked or deleted.
OnlyInterruptedGo == [](TypeOK /\ HandledWasInterrupted) /\ DeletesInterrupted
=============================================================================
