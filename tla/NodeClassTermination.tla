------------------------ MODULE NodeClassTermination ------------------------
(***************************************************************************)
(* The end of an IBMNodeClass: the termination controller, composed with   *)
(* the claim that was created from it, its Node, and the load balancer     *)
(* controller, which needs the class to finish a deleted claim.            *)
(*                                                                         *)
(* The termination controller lists Nodes by label from the informer       *)
(* cache, twice; the claim is launched and its Node joins meanwhile.       *)
(***************************************************************************)
EXTENDS LoadBalancer

VARIABLES
    class,    \* the finalizer of the class, and whether it is being deleted
    seen,     \* the Node is in the informer cache
    term,     \* the reconcile in progress: its step and whether it listed the Node
    queued,   \* the class is in the queue of the controller
    early     \* the Node was in the cache when the deletion was requested

classVars == <<class, seen, term, queued, early>>
allVars == <<vars, classVars>>

TermIdle == [pc |-> "idle", listed |-> FALSE]

InCluster == node \in {"up", "terminating"}

\* What is left alone by a step that changes no more than the Node.
TermFrame == UNCHANGED <<claim, cache, nodeClass, members, ctl, edits>>

-----------------------------------------------------------------------------
(* The termination controller *)

AddClassFinalizer ==
    /\ queued /\ term = TermIdle
    /\ nodeClass.exists /\ ~class.deleting /\ ~class.finalizer
    /\ class' = [class EXCEPT !.finalizer = TRUE]
    /\ queued' = FALSE
    /\ UNCHANGED <<seen, term, early, vars>>

\* List the Nodes of a class that is being deleted.
ListNodes ==
    /\ queued /\ term = TermIdle
    /\ nodeClass.exists /\ class.deleting
    /\ term' = [pc |-> "delete", listed |-> seen]
    /\ queued' = FALSE
    /\ UNCHANGED <<class, seen, early, vars>>

\* Delete them; their finalizers make core drain them.  A failure, other than
\* that there is no such Node, ends the reconcile.
DeleteNode ==
    /\ term.pc = "delete" /\ term.listed
    /\ \/ /\ node' = IF node = "up" THEN "terminating" ELSE node
          /\ term' = [term EXCEPT !.listed = FALSE]
          /\ UNCHANGED <<queued, failures>>
       \/ /\ failures < MaxFailures /\ failures' = failures + 1
          /\ term' = TermIdle /\ queued' = TRUE
          /\ UNCHANGED node
    /\ UNCHANGED <<class, seen, early>> /\ TermFrame

\* Mutant: the second listing is left out.
skipRelist ==
    /\ term.pc = "delete" /\ ~term.listed
    /\ term' = [TermIdle EXCEPT !.pc = "release"]
    /\ UNCHANGED <<class, seen, queued, early, vars>>

\* List again; come back after five seconds while there are Nodes.
Relist ==
    /\ term.pc = "delete" /\ ~term.listed
    /\ IF seen
       THEN term' = TermIdle /\ queued' = TRUE
       ELSE term' = [TermIdle EXCEPT !.pc = "release"] /\ UNCHANGED queued
    /\ UNCHANGED <<class, seen, early, vars>>

\* The last finalizer goes, and the class with it.
RemoveClassFinalizer ==
    /\ term.pc = "release"
    /\ class' = [class EXCEPT !.finalizer = FALSE]
    /\ nodeClass' = [nodeClass EXCEPT !.exists = FALSE]
    /\ term' = TermIdle
    /\ UNCHANGED <<seen, queued, early, claim, cache, node, members, ctl, failures, edits>>

-----------------------------------------------------------------------------
(* User and informer *)

\* Once the class has its finalizer.
DeleteClass ==
    /\ nodeClass.exists /\ class.finalizer /\ ~class.deleting
    /\ class' = [class EXCEPT !.deleting = TRUE]
    /\ queued' = TRUE /\ early' = seen
    /\ UNCHANGED <<seen, term, vars>>

SyncNode ==
    /\ seen # InCluster
    /\ seen' = InCluster
    /\ UNCHANGED <<class, term, queued, early, vars>>

-----------------------------------------------------------------------------
(* The specification *)

Init ==
    /\ LBInit
    /\ class = [finalizer |-> FALSE, deleting |-> FALSE]
    /\ seen = FALSE /\ term = TermIdle /\ queued = TRUE /\ early = FALSE

Next ==
    \/ LBNext /\ UNCHANGED classVars
    \/ AddClassFinalizer \/ ListNodes \/ DeleteNode \/ Relist \/ RemoveClassFinalizer
    \/ DeleteClass \/ SyncNode

Spec == Init /\ [][Next]_allVars

Terminates == AddClassFinalizer \/ ListNodes \/ DeleteNode \/ Relist \/ RemoveClassFinalizer

\* Both controllers go on once begun, and failures are requeued; the informer
\* catches up; core deletes the claim of a deleted Node, drains and finalizes.
\* Users, launches and the boot of an instance are not owed.
FairSpec ==
    /\ Spec
    /\ WF_allVars(ControllerNext /\ UNCHANGED classVars) /\ WF_allVars(Terminates)
    /\ WF_allVars(Sync /\ UNCHANGED classVars) /\ WF_allVars(SyncNode)
    /\ WF_allVars(node = "terminating" /\ DeleteClaim /\ UNCHANGED classVars)
    /\ WF_allVars(CoreDrains /\ UNCHANGED classVars)
    /\ WF_allVars(CoreFinalize /\ UNCHANGED classVars)

-----------------------------------------------------------------------------
(* Properties *)

\* A Node that the informer had shown when the deletion of the class was
\* requested is gone before the class is: the controller deletes it, waits for
\* its own finalizers and only then removes the finalizer of the class.
EarlyNodesGoFirst == ~nodeClass.exists /\ early => node = "gone"

\* The deletion of a class completes, although the controller watches no Node
\* and the claim is drained, deregistered and finalized in between.
ClassDeletionCompletes == class.deleting ~> ~nodeClass.exists

\* While the class is deleted, its Nodes go first; and the members in the pools
\* of its load balancers are those of claims that are registered and protected
\* by the finalizer.
NodesAreProtected ==
    TypeOK /\ RegisteredEverywhere /\ MembersAreProtected /\ EarlyNodesGoFirst

\* The claim is registered, its deletion completes, and that of the class.
DeletionsComplete == EventuallyRegistered /\ DeletionCompletes /\ ClassDeletionCompletes
=============================================================================
