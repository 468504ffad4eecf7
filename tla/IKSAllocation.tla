--------------------------- MODULE IKSAllocation ---------------------------
(***************************************************************************)
(* The allocation protocol of IKS mode: how one NodeClaim is turned into   *)
(* one isolated worker pool with one worker, and how the pool is found     *)
(* again and removed after lost replies, conflicts and restarts.           *)
(*                                                                         *)
(* Two objects carry the state: an annotation on the NodeClaim (the        *)
(* Allocation, guarded by AllocationFinalizer), and a ConfigMap (the       *)
(* reservation) that says whether a pool creation may be outstanding.      *)
(* The pool's name is a function of the cluster and the claim, so the      *)
(* allocations of different claims never meet and one claim is modelled.   *)
(*                                                                         *)
(* One process runs the controllers at a time (leader election).  In it    *)
(* the lifecycle controller ("core") runs Create or Delete for the claim   *)
(* and the allocation controller ("alloc") runs Cleanup or ConfirmGone.    *)
(* Every call to the Kubernetes API or to IKS is a step of its own;        *)
(* lockPool, a mutex of the process, keeps the two from interleaving       *)
(* between their first and their last call.                                *)
(*                                                                         *)
(* An object stands for its version: a patch under an optimistic lock      *)
(* succeeds if the object still equals the copy that was read.             *)
(***************************************************************************)
EXTENDS Naturals, FiniteSets

CONSTANTS
    Accounts,     \* IBM Cloud accounts a process may hold credentials of
    PoolIDs,      \* identities IKS may give to worker pools, never twice
    WorkerIDs,    \* identities IKS may give to workers, never twice
    None,         \* no account, no pool, no worker
    Window,       \* poolCreationWindow, in ticks
    MaxLatency,   \* ticks from creationStarted to the verdict of IKS, at most
    MaxLookup,    \* ticks from an empty lookup to the decision on it, at most
    MaxTime,      \* bound: no creation starts within Window of this time
    MaxFaults     \* bound: restarts, failed calls and outside interventions

ASSUME AllocationAssumption ==
    /\ None \notin Accounts
    /\ None \notin PoolIDs
    /\ None \notin WorkerIDs
    /\ Accounts # {}
    /\ Window \in Nat
    /\ MaxLatency \in Nat
    /\ MaxLookup \in Nat
    /\ MaxTime \in Nat
    /\ MaxFaults \in Nat

VARIABLES
    now,          \* the clock
    claim,        \* the NodeClaim object
    reservation,  \* the ConfigMap of ReservationKey
    node,         \* the Node object of the worker that joined last
    pools,        \* the worker pools of the allocation's name in IKS
    workers,      \* the workers of those pools
    requests,     \* CreateWorkerPool requests IKS has not decided yet
    account,      \* account of the running process's credentials
    threads,      \* the calls in progress of the two controllers
    faults        \* faults so far

vars == <<now, claim, reservation, node, pools, workers, requests, account, threads, faults>>

cloudVars == <<pools, workers, requests>>

-----------------------------------------------------------------------------
(* State *)

\* The immutable snapshot is represented by the birth account.
Allocation == [account: Accounts \cup {None}, pool: PoolIDs \cup {None},
               worker: WorkerIDs \cup {None}]

NoAllocation == [account |-> None, pool |-> None, worker |-> None]

ReservationPhases == {"none", "reserved", "creating", "active", "rejected", "deleting"}

\* "none": the ConfigMap does not exist.
Reservation == [phase: ReservationPhases, pending: BOOLEAN, started: Nat, alloc: Allocation]

NoReservation == [phase |-> "none", pending |-> FALSE, started |-> 0, alloc |-> NoAllocation]

\* Each controller holds the finalizer it is named after.
Controllers == {"core", "alloc"}

NodeClaim == [phase: {"live", "deleting", "gone"}, finalizers: SUBSET Controllers,
              alloc: Allocation, providerID: WorkerIDs \cup {None}]

NoClaim == [phase |-> "gone", finalizers |-> {}, alloc |-> NoAllocation, providerID |-> None]

Node == [state: {"none", "bare", "managed", "terminating"}, worker: WorkerIDs \cup {None}]

Pool == [status: {"unborn", "normal", "deleting", "gone"}, account: Accounts \cup {None}]

Worker == [status: {"unborn", "alive", "gone"}, pool: PoolIDs \cup {None}]

Request == [account: Accounts \cup {None}, started: Nat]

\* Steps between lockPool and its release.  In "reserve" and in ConfirmGone the
\* reservation has not been read; "find" to "confirm" belong to Create, the
\* others to cleanup.
ReservedPCs == {"find", "decide", "send", "sent", "reject", "activate", "record", "verify",
                "workers", "bind", "confirm",
                "mark", "look", "judge", "worker", "free", "note", "list", "delete"}

LockedPCs == ReservedPCs \cup {"reserve", "goneWorker", "goneFree"}

\* Steps without the lock: "start", "cleanup" and "gone" wait for it.
FreePCs == {"idle", "start", "publish", "nodes", "cleanup", "gone", "release"}

\* A call in progress: the claim it read, its Allocation, the reservation as it
\* last read or wrote it, and the time of its empty lookup.
Thread == [pc: LockedPCs \cup FreePCs, seen: NodeClaim, alloc: Allocation,
           res: Reservation, since: Nat]

Idle == [pc |-> "idle", seen |-> NoClaim, alloc |-> NoAllocation, res |-> NoReservation,
         since |-> 0]

TypeOK ==
    /\ now \in Nat
    /\ claim \in NodeClaim
    /\ reservation \in Reservation
    /\ node \in Node
    /\ pools \in [PoolIDs -> Pool]
    /\ workers \in [WorkerIDs -> Worker]
    /\ requests \subseteq Request
    /\ account \in Accounts
    /\ threads \in [Controllers -> Thread]
    /\ faults \in Nat

Init ==
    /\ now = 0
    /\ claim = [phase |-> "live", finalizers |-> {"core"}, alloc |-> NoAllocation,
                providerID |-> None]
    /\ reservation = NoReservation
    /\ node = [state |-> "none", worker |-> None]
    /\ pools = [p \in PoolIDs |-> [status |-> "unborn", account |-> None]]
    /\ workers = [w \in WorkerIDs |-> [status |-> "unborn", pool |-> None]]
    /\ requests = {}
    /\ account \in Accounts
    /\ threads = [t \in Controllers |-> Idle]
    /\ faults = 0

-----------------------------------------------------------------------------
(* Helpers *)

\* A call failed although it may have taken effect.
Fault == faults < MaxFaults /\ faults' = faults + 1

NoFault == faults' = faults

\* The API server: a deleted object disappears with its last finalizer.
Settle(c) == IF c.phase = "deleting" /\ c.finalizers = {} THEN [c EXCEPT !.phase = "gone"]
             ELSE c

Goto(t, call) == threads' = [threads EXCEPT ![t] = call]

\* The call returns; its controller will be called again.
Return(t) == Goto(t, Idle)

\* A write was made: the call goes on, or does not learn of it and returns.
GotoOrFail(t, call) == \/ Goto(t, call) /\ NoFault
                       \/ Return(t) /\ Fault

\* Mutant: the mutex is not taken.
lockNothing(t) == TRUE

\* lockPool: no other call of the process is between Lock and Unlock.
lockPool(t) == \A u \in Controllers \ {t} : threads[u].pc \notin LockedPCs

\* validateTarget: the process holds credentials of the birth account.
validateTarget(alloc) == alloc.account = account

Exists(p) == pools[p].status \in {"normal", "deleting"}

\* The pools GetWorkerPool finds with the credentials of the running process.
Visible == {p \in PoolIDs : Exists(p) /\ pools[p].account = account}

Alive(w) == w # None /\ workers[w].status = "alive"

\* ListWorkers, restricted to one pool and to workers that are not deleted.
WorkersOf(p) == {w \in WorkerIDs : Alive(w) /\ workers[w].pool = p}

\* validatePool: the pool is the one that was recorded, if one was.
validatePool(p, alloc) == alloc.pool \in {None, p}

\* Mutant: the window ends one tick early.
uncertainEarly(res) == res.pending /\ now < res.started + Window

\* Mutant: a creation that was started stays uncertain.
uncertainForever(res) == res.pending

\* creationUncertain: an absent pool may still appear.
creationUncertain(res) == res.pending /\ now <= res.started + Window

\* restoreReservation: the two records must not contradict each other ...
Consistent(alloc, rec) ==
    /\ alloc.account = rec.account
    /\ None \in {alloc.pool, rec.pool} \/ alloc.pool = rec.pool
    /\ None \in {alloc.worker, rec.worker} \/ alloc.worker = rec.worker

\* ... and each identity is taken from the one that has it.
Restore(alloc, rec) ==
    [alloc EXCEPT !.pool = IF alloc.pool = None THEN rec.pool ELSE alloc.pool,
                  !.worker = IF alloc.worker = None THEN rec.worker ELSE alloc.worker]

\* reserve: the ConfigMap is read, or created if there is none.
Reserved(alloc) ==
    IF reservation.phase # "none" THEN reservation
    ELSE [phase |-> "reserved", pending |-> FALSE, started |-> 0, alloc |-> alloc]

\* Mutant: the phase "deleting" ends a creation.
UpdatedDeletingSettles(res, alloc, phase) ==
    [phase |-> phase, alloc |-> alloc,
     pending |-> phase = "creating",
     started |-> IF phase = "creating" THEN now ELSE res.started]

\* What updateReservation writes.
Updated(res, alloc, phase) ==
    [phase |-> phase, alloc |-> alloc,
     pending |-> /\ res.pending \/ phase = "creating"
                 /\ phase \notin {"active", "rejected"}
                 /\ alloc.pool = None,
     started |-> IF phase = "creating" THEN now ELSE res.started]

\* updateReservation, a patch under an optimistic lock; then the call goes to pc.
updateReservation(t, alloc, phase, pc) ==
    LET call == threads[t]
        new  == Updated(call.res, alloc, phase)
    IN  IF reservation = call.res
        THEN /\ reservation' = new
             /\ GotoOrFail(t, IF pc = "idle" THEN Idle
                              ELSE [call EXCEPT !.pc = pc, !.alloc = alloc, !.res = new])
        ELSE Return(t) /\ UNCHANGED <<reservation, faults>>

-----------------------------------------------------------------------------
(* createAllocation, which the lifecycle reconcile calls until a provider   *)
(* ID is published.                                                         *)

core == threads["core"]

\* newAllocation: the request, labels and resources are chosen once, and bound
\* to the account of the credentials.
newAllocation == [NoAllocation EXCEPT !.account = account]

\* The claim is read: its Allocation is decoded, or a new one is made.
CreateStart ==
    /\ core.pc = "idle"
    /\ claim.phase = "live"
    /\ claim.providerID = None
    /\ Goto("core", [Idle EXCEPT !.pc = "start",
                                 !.alloc = IF claim.alloc # NoAllocation THEN claim.alloc
                                           ELSE newAllocation])
    /\ UNCHANGED <<now, claim, reservation, node, cloudVars, account, faults>>

AfterCheckpoint == [start |-> "reserve", record |-> "verify", confirm |-> "publish"]

\* checkpoint: re-reads the claim, refuses one that is deleted, and writes the
\* Allocation and the finalizer.  The first one follows lockPool.
CreateCheckpoint ==
    /\ core.pc \in {"start", "record", "confirm"}
    /\ core.pc = "start" => lockPool("core")
    /\ IF claim.phase = "live"
       THEN /\ claim' = [claim EXCEPT !.alloc = core.alloc, !.finalizers = @ \cup {"alloc"}]
            /\ GotoOrFail("core", [core EXCEPT !.pc = AfterCheckpoint[core.pc]])
       ELSE Return("core") /\ UNCHANGED <<claim, faults>>
    /\ UNCHANGED <<now, reservation, node, cloudVars, account>>

\* reserve and restoreReservation; a reservation that is being deleted, or of
\* another account, ends the call.
CreateReserve ==
    /\ core.pc = "reserve"
    /\ LET res == Reserved(core.alloc)
       IN  /\ reservation' = res
           /\ IF Consistent(core.alloc, res.alloc) /\ res.phase # "deleting"
                 /\ validateTarget(core.alloc)
              THEN GotoOrFail("core", [core EXCEPT !.pc = "find", !.res = res,
                                                   !.alloc = Restore(core.alloc, res.alloc)])
              ELSE Return("core") /\ NoFault
    /\ UNCHANGED <<now, claim, node, cloudVars, account>>

\* GetWorkerPool by name: a pool of the allocation is adopted.
CreateFind ==
    /\ core.pc = "find"
    /\ \/ /\ Visible = {}
          /\ Goto("core", [core EXCEPT !.pc = "decide", !.since = now])
       \/ \E p \in Visible :
             IF validatePool(p, core.alloc)
             THEN Goto("core", [core EXCEPT !.pc = "workers", !.alloc.pool = p])
             ELSE Return("core")
    /\ UNCHANGED <<now, claim, reservation, node, cloudVars, account, faults>>

\* Bound: no creation starts so late that its window would not end in time.
TimeLeft == now + Window < MaxTime

\* There is no pool: unless one may still appear, or one was recorded before,
\* the creation is recorded as pending, then CreateWorkerPool is called.
CreateDecide ==
    /\ core.pc = "decide"
    /\ IF ~creationUncertain(core.res) /\ core.alloc.pool = None /\ TimeLeft
       THEN updateReservation("core", core.alloc, "creating", "send")
       ELSE Return("core") /\ UNCHANGED <<reservation, faults>>
    /\ UNCHANGED <<now, claim, node, cloudVars, account>>

\* The CreateWorkerPool request leaves.
CreateSend ==
    /\ core.pc = "send"
    /\ requests' = requests \cup {[account |-> core.alloc.account,
                                   started |-> core.res.started]}
    /\ Goto("core", [core EXCEPT !.pc = "sent"])
    /\ UNCHANGED <<now, claim, reservation, node, pools, workers, account, faults>>

\* Mutant: a request without a reply is sent again.
CreateTimeoutResends ==
    /\ core.pc = "sent"
    /\ Goto("core", [core EXCEPT !.pc = "send"])
    /\ Fault
    /\ UNCHANGED <<now, claim, reservation, node, cloudVars, account>>

\* The reply is lost or ambiguous: the request may still be decided either way.
CreateTimeout ==
    /\ core.pc = "sent"
    /\ Return("core")
    /\ Fault
    /\ UNCHANGED <<now, claim, reservation, node, cloudVars, account>>

\* A definite rejection is recorded; Create returns the error.
CreateReject ==
    /\ core.pc = "reject"
    /\ updateReservation("core", core.alloc, "rejected", "idle")
    /\ UNCHANGED <<now, claim, node, cloudVars, account>>

\* The pool's identity is recorded in the reservation, then (CreateCheckpoint)
\* in the claim.
CreateActivate ==
    /\ core.pc = "activate"
    /\ updateReservation("core", core.alloc, "active", "record")
    /\ UNCHANGED <<now, claim, node, cloudVars, account>>

\* GetWorkerPool by identity must find the pool just created.
CreateVerify ==
    /\ core.pc = "verify"
    /\ IF core.alloc.pool \in Visible
       THEN Goto("core", [core EXCEPT !.pc = "workers"])
       ELSE Return("core")
    /\ UNCHANGED <<now, claim, reservation, node, cloudVars, account, faults>>

\* ListWorkers: exactly one worker, and the one that was recorded, if one was.
CreateWorkers ==
    /\ core.pc = "workers"
    /\ \/ \E w \in WorkerIDs :
             /\ WorkersOf(core.alloc.pool) = {w}
             /\ core.alloc.worker \in {None, w}
             /\ Goto("core", [core EXCEPT !.pc = "bind", !.alloc.worker = w])
       \/ /\ \A w \in WorkerIDs : ~(/\ WorkersOf(core.alloc.pool) = {w}
                                    /\ core.alloc.worker \in {None, w})
          /\ Return("core")
    /\ UNCHANGED <<now, claim, reservation, node, cloudVars, account, faults>>

\* The worker's identity is recorded in the reservation, then in the claim.
CreateBind ==
    /\ core.pc = "bind"
    /\ updateReservation("core", core.alloc, "active", "confirm")
    /\ UNCHANGED <<now, claim, node, cloudVars, account>>

\* Create returned the node, and the lock: the lifecycle reconcile publishes
\* its provider ID.
CreatePublish ==
    /\ core.pc = "publish"
    /\ claim' = IF claim.phase = "gone" THEN claim
                ELSE [claim EXCEPT !.providerID = core.alloc.worker]
    /\ Return("core")
    /\ UNCHANGED <<now, reservation, node, cloudVars, account, faults>>

-----------------------------------------------------------------------------
(* The callers of cleanup and ConfirmGone for a deleted claim.              *)

\* The Reconcile of the allocation controller reads the claim; without a
\* provider ID it calls Cleanup, with the recorded one ConfirmGone.
CleanRead ==
    /\ threads["alloc"].pc = "idle"
    /\ claim.phase = "deleting"
    /\ "alloc" \in claim.finalizers
    /\ claim.providerID \in {None, claim.alloc.worker}
    /\ Goto("alloc", [Idle EXCEPT !.pc = IF claim.providerID = None THEN "nodes" ELSE "gone",
                                  !.seen = claim, !.alloc = claim.alloc])
    /\ UNCHANGED <<now, claim, reservation, node, cloudVars, account, faults>>

\* Cleanup: a Node of the claim is deleted first; one that would not be
\* drained is an error.
CleanNodes ==
    /\ threads["alloc"].pc = "nodes"
    /\ \/ /\ node.state # "none"
          /\ node' = [node EXCEPT !.state = IF @ = "managed" THEN "terminating" ELSE @]
          /\ Return("alloc")
       \/ /\ node.state = "none"
          /\ Goto("alloc", [threads["alloc"] EXCEPT !.pc = "cleanup"])
          /\ UNCHANGED node
    /\ UNCHANGED <<now, claim, reservation, cloudVars, account, faults>>

NodeGoneFor(w) == node.state = "none" \/ node.worker # w

\* The lifecycle controller finalizes the claim: CloudProvider.Delete of the
\* published worker, once its Node is gone, calls deleteAllocation.
CoreDelete ==
    /\ core.pc = "idle"
    /\ claim.phase = "deleting"
    /\ "core" \in claim.finalizers
    /\ claim.providerID # None
    /\ claim.providerID = claim.alloc.worker
    /\ NodeGoneFor(claim.providerID)
    /\ Goto("core", [Idle EXCEPT !.pc = "cleanup", !.seen = claim, !.alloc = claim.alloc])
    /\ UNCHANGED <<now, claim, reservation, node, cloudVars, account, faults>>

\* A claim without a provider ID gives the lifecycle controller nothing to delete.
CoreFinalize ==
    /\ core.pc = "idle"
    /\ claim.phase = "deleting"
    /\ "core" \in claim.finalizers
    /\ claim.providerID = None
    /\ claim' = Settle([claim EXCEPT !.finalizers = @ \ {"core"}])
    /\ UNCHANGED <<now, reservation, node, cloudVars, account, threads, faults>>

\* The lifecycle controller deletes the claim's Node before its worker.
CoreDrain ==
    /\ core.pc = "idle"
    /\ claim.phase = "deleting"
    /\ claim.providerID # None
    /\ ~NodeGoneFor(claim.providerID)
    /\ node.state \in {"bare", "managed"}
    /\ node' = [node EXCEPT !.state = IF @ = "managed" THEN "terminating" ELSE "none"]
    /\ UNCHANGED <<now, claim, reservation, cloudVars, account, threads, faults>>

\* The call answered that nothing is left, and its controller removes its
\* finalizer, under an optimistic lock on the claim that was read.
Release(t) ==
    /\ threads[t].pc = "release"
    /\ claim' = IF claim = threads[t].seen THEN Settle([claim EXCEPT !.finalizers = @ \ {t}])
                ELSE claim
    /\ Return(t)
    /\ UNCHANGED <<now, reservation, node, cloudVars, account, faults>>

-----------------------------------------------------------------------------
(* cleanup, called by either controller.                                    *)

\* lockPool, reserve and restoreReservation.
CleanReserve(t) ==
    /\ threads[t].pc = "cleanup"
    /\ lockPool(t)
    /\ LET alloc == threads[t].alloc
           res   == Reserved(alloc)
       IN  /\ reservation' = res
           /\ IF Consistent(alloc, res.alloc)
              THEN GotoOrFail(t, [threads[t] EXCEPT !.pc = "mark", !.res = res,
                                                    !.alloc = Restore(alloc, res.alloc)])
              ELSE Return(t) /\ NoFault
    /\ UNCHANGED <<now, claim, node, cloudVars, account>>

\* The reservation is marked: no Create will use it again.
CleanMark(t) ==
    /\ threads[t].pc = "mark"
    /\ updateReservation(t, threads[t].alloc, "deleting", "look")
    /\ UNCHANGED <<now, claim, node, cloudVars, account>>

\* GetWorkerPool by name with credentials of the birth account.
CleanLook(t) ==
    /\ threads[t].pc = "look"
    /\ \/ ~validateTarget(threads[t].alloc) /\ Return(t)
       \/ /\ validateTarget(threads[t].alloc)
          /\ Visible = {}
          /\ Goto(t, [threads[t] EXCEPT !.pc = "judge", !.since = now])
       \/ /\ validateTarget(threads[t].alloc)
          /\ \E p \in Visible :
                IF validatePool(p, threads[t].alloc)
                THEN Goto(t, [threads[t] EXCEPT !.pc = "note", !.alloc.pool = p])
                ELSE Return(t)
    /\ UNCHANGED <<now, claim, reservation, node, cloudVars, account, faults>>

\* There is no pool: the reservation is kept while one may still appear.
CleanJudge(t) ==
    /\ threads[t].pc = "judge"
    /\ IF creationUncertain(threads[t].res) /\ threads[t].alloc.pool = None THEN Return(t)
       ELSE Goto(t, [threads[t] EXCEPT !.pc = "worker"])
    /\ UNCHANGED <<now, claim, reservation, node, cloudVars, account, faults>>

\* GetWorkerDetails: a recorded worker that outlives its pool is an error.
CleanWorker(t) ==
    /\ threads[t].pc = "worker"
    /\ IF Alive(threads[t].alloc.worker) THEN Return(t)
       ELSE Goto(t, [threads[t] EXCEPT !.pc = "free"])
    /\ UNCHANGED <<now, claim, reservation, node, cloudVars, account, faults>>

\* Mutant: the reservation is left behind.
CleanFreeNothing(t) ==
    /\ threads[t].pc = "free"
    /\ Goto(t, [threads[t] EXCEPT !.pc = "release"])
    /\ UNCHANGED <<now, claim, reservation, node, cloudVars, account, faults>>

\* The reservation is deleted, with its version as a precondition; the call
\* answers that nothing is left.
CleanFree(t) ==
    /\ threads[t].pc = "free"
    /\ IF reservation \in {threads[t].res, NoReservation}
       THEN /\ reservation' = NoReservation
            /\ GotoOrFail(t, [threads[t] EXCEPT !.pc = "release", !.res = NoReservation])
       ELSE Return(t) /\ UNCHANGED <<reservation, faults>>
    /\ UNCHANGED <<now, claim, node, cloudVars, account>>

\* The identity of the pool that was found is recorded.
CleanNote(t) ==
    /\ threads[t].pc = "note"
    /\ updateReservation(t, threads[t].alloc, "deleting", "list")
    /\ UNCHANGED <<now, claim, node, cloudVars, account>>

\* ListWorkers: a worker outside the allocation, or a second one, is an error.
CleanList(t) ==
    /\ threads[t].pc = "list"
    /\ LET found == WorkersOf(threads[t].alloc.pool)
           known == threads[t].alloc.worker
       IN  IF Cardinality(found) > 1 \/ (known # None /\ ~(found \subseteq {known})) THEN Return(t)
           ELSE Goto(t, [threads[t] EXCEPT !.pc = "delete"])
    /\ UNCHANGED <<now, claim, reservation, node, cloudVars, account, faults>>

\* DeleteWorkerPool; the call returns, and a later one sees the pool gone.
CleanDelete(t) ==
    /\ threads[t].pc = "delete"
    /\ pools' = [pools EXCEPT ![threads[t].alloc.pool].status =
                    IF threads[t].alloc.pool \in Visible THEN "deleting" ELSE @]
    /\ Return(t)
    /\ UNCHANGED <<now, claim, reservation, node, workers, requests, account, faults>>

-----------------------------------------------------------------------------
(* ConfirmGone: the lifecycle controller deletes a published worker, this    *)
(* only waits for the pool and the worker to be gone.                        *)

\* lockPool, validateTarget and GetWorkerPool by name.
GoneFind ==
    /\ threads["alloc"].pc = "gone"
    /\ lockPool("alloc")
    /\ IF validateTarget(threads["alloc"].alloc) /\ Visible = {}
       THEN Goto("alloc", [threads["alloc"] EXCEPT !.pc = "goneWorker"])
       ELSE Return("alloc")
    /\ UNCHANGED <<now, claim, reservation, node, cloudVars, account, faults>>

\* GetWorkerDetails of the published worker.
GoneWorker ==
    /\ threads["alloc"].pc = "goneWorker"
    /\ IF Alive(threads["alloc"].alloc.worker) THEN Return("alloc")
       ELSE Goto("alloc", [threads["alloc"] EXCEPT !.pc = "goneFree"])
    /\ UNCHANGED <<now, claim, reservation, node, cloudVars, account, faults>>

\* The reservation is read and, if there is one, deleted.
GoneFree ==
    /\ threads["alloc"].pc = "goneFree"
    /\ reservation' = NoReservation
    /\ GotoOrFail("alloc", [threads["alloc"] EXCEPT !.pc = "release"])
    /\ UNCHANGED <<now, claim, node, cloudVars, account>>

-----------------------------------------------------------------------------
(* IKS, the kubelet, the user and the operator *)

\* Create still waits for the reply to the request r.
Waiting(r) == core.pc = "sent" /\ core.res.started = r.started

\* CreateWorkerPool is accepted: the pool is listed at once.  The reply may be
\* lost, or lack the identity.
CloudAccept(r, p) ==
    /\ pools[p].status = "unborn"
    /\ requests' = requests \ {r}
    /\ pools' = [pools EXCEPT ![p] = [status |-> "normal", account |-> r.account]]
    /\ IF Waiting(r)
       THEN GotoOrFail("core", [core EXCEPT !.pc = "activate", !.alloc.pool = p])
       ELSE UNCHANGED <<threads, faults>>
    /\ UNCHANGED <<now, claim, reservation, node, workers, account>>

\* A definite rejection (rejectedCreate): no pool was or will be created.
CloudReject(r) ==
    /\ requests' = requests \ {r}
    /\ IF Waiting(r) THEN Goto("core", [core EXCEPT !.pc = "reject"]) ELSE UNCHANGED threads
    /\ UNCHANGED <<now, claim, reservation, node, pools, workers, account, faults>>

\* The request fails with an ambiguous error, or is lost: no pool was created.
CloudDrop(r) ==
    /\ requests' = requests \ {r}
    /\ IF Waiting(r) THEN Return("core") ELSE UNCHANGED threads
    /\ Fault
    /\ UNCHANGED <<now, claim, reservation, node, pools, workers, account>>

\* A deletion completes, perhaps before the worker is gone; or somebody else
\* removes the pool.
PoolGone(p) ==
    /\ \/ pools[p].status = "deleting" /\ NoFault
       \/ pools[p].status = "normal" /\ Fault
    /\ pools' = [pools EXCEPT ![p].status = "gone"]
    /\ UNCHANGED <<now, claim, reservation, node, workers, requests, account, threads>>

\* IKS keeps one worker in a pool.
WorkerStart(w, p) ==
    /\ workers[w].status = "unborn"
    /\ pools[p].status = "normal"
    /\ WorkersOf(p) = {}
    /\ workers' = [workers EXCEPT ![w] = [status |-> "alive", pool |-> p]]
    /\ UNCHANGED <<now, claim, reservation, node, pools, requests, account, threads, faults>>

\* The worker of a deleted pool goes; or a worker is removed or replaced.
WorkerGone(w) ==
    /\ workers[w].status = "alive"
    /\ \/ pools[workers[w].pool].status # "normal" /\ NoFault
       \/ pools[workers[w].pool].status = "normal" /\ Fault
    /\ workers' = [workers EXCEPT ![w].status = "gone"]
    /\ UNCHANGED <<now, claim, reservation, node, pools, requests, account, threads>>

\* The kubelet of a worker registers its Node when it starts, and again if it
\* restarts.
NodeRegister(w) ==
    /\ Alive(w)
    /\ node.state = "none"
    /\ \/ node.worker # w /\ NoFault
       \/ node.worker = w /\ Fault
    /\ node' = [state |-> "bare", worker |-> w]
    /\ UNCHANGED <<now, claim, reservation, cloudVars, account, threads>>

\* Registration gives the Node of a published claim its termination finalizer.
CoreRegister ==
    /\ node.state = "bare"
    /\ claim.phase = "live"
    /\ claim.providerID = node.worker
    /\ node' = [node EXCEPT !.state = "managed"]
    /\ UNCHANGED <<now, claim, reservation, cloudVars, account, threads, faults>>

\* The Node of a deleted Node object has been drained.
NodeGone ==
    /\ node.state = "terminating"
    /\ node' = [node EXCEPT !.state = "none"]
    /\ UNCHANGED <<now, claim, reservation, cloudVars, account, threads, faults>>

\* Somebody deletes the NodeClaim.
DeleteClaim ==
    /\ claim.phase = "live"
    /\ claim' = Settle([claim EXCEPT !.phase = "deleting"])
    /\ UNCHANGED <<now, reservation, node, cloudVars, account, threads, faults>>

\* A call failed before it took effect, or met a conflict: the error is returned.
CallFails(t) ==
    /\ threads[t].pc \notin {"idle", "sent"}
    /\ Return(t)
    /\ Fault
    /\ UNCHANGED <<now, claim, reservation, node, cloudVars, account>>

\* The process stops at any point and another takes over, perhaps with other
\* credentials.  What it sent to IKS is still in flight.
Restart ==
    /\ Fault
    /\ threads' = [t \in Controllers |-> Idle]
    /\ account' \in Accounts
    /\ UNCHANGED <<now, claim, reservation, node, cloudVars>>

\* Time passes, within the latencies assumed of the calls in progress.
Tick ==
    /\ now < MaxTime
    /\ \A r \in requests : now < r.started + MaxLatency
    /\ core.pc = "send" => now < core.res.started + MaxLatency
    /\ \A t \in Controllers :
          threads[t].pc \in {"decide", "judge"} => now < threads[t].since + MaxLookup
    /\ now' = now + 1
    /\ UNCHANGED <<claim, reservation, node, cloudVars, account, threads, faults>>

-----------------------------------------------------------------------------
CreateNext ==
    \/ CreateStart \/ CreateCheckpoint \/ CreateReserve \/ CreateFind \/ CreateDecide
    \/ CreateSend \/ CreateReject \/ CreateActivate \/ CreateVerify \/ CreateWorkers
    \/ CreateBind \/ CreatePublish

CleanNext(t) ==
    \/ CleanReserve(t) \/ CleanMark(t) \/ CleanLook(t) \/ CleanJudge(t) \/ CleanWorker(t)
    \/ CleanFree(t) \/ CleanNote(t) \/ CleanList(t) \/ CleanDelete(t) \/ Release(t)

\* The steps of the lifecycle controller, and of the allocation controller.
CoreNext == CreateNext \/ CoreDelete \/ CoreFinalize \/ CoreDrain \/ CleanNext("core")

AllocNext == CleanRead \/ CleanNodes \/ GoneFind \/ GoneWorker \/ GoneFree \/ CleanNext("alloc")

CloudDecides == \E r \in requests :
    CloudReject(r) \/ CloudDrop(r) \/ \E p \in PoolIDs : CloudAccept(r, p)

Next ==
    \/ CoreNext \/ AllocNext
    \/ CreateTimeout
    \/ \E t \in Controllers : CallFails(t)
    \/ CloudDecides
    \/ \E p \in PoolIDs : PoolGone(p)
    \/ \E w \in WorkerIDs, p \in PoolIDs : WorkerStart(w, p)
    \/ \E w \in WorkerIDs : WorkerGone(w) \/ NodeRegister(w)
    \/ CoreRegister \/ NodeGone
    \/ DeleteClaim \/ Restart \/ Tick

Spec == Init /\ [][Next]_vars

\* The process keeps taking steps and retrying, IKS decides requests and
\* completes deletions, Nodes drain, and time passes.
Fairness ==
    /\ WF_vars(CoreNext)
    /\ WF_vars(AllocNext)
    /\ WF_vars(CloudDecides)
    /\ WF_vars(\E p \in PoolIDs : pools[p].status = "deleting" /\ PoolGone(p))
    /\ WF_vars(\E w \in WorkerIDs : WorkerGone(w) /\ NoFault)
    /\ WF_vars(NodeGone)
    /\ WF_vars(Tick)

FairSpec == Spec /\ Fairness

-----------------------------------------------------------------------------
(* Properties *)

\* A pool that exists, or may still come to exist, is owned: the claim that
\* asked for it is there with the finalizer and the account of the pool, and
\* so is the reservation.  Neither a lost reply, a conflict, a restart nor a
\* deletion of the claim leaks a pool.
Owned(acct) ==
    /\ claim.phase # "gone"
    /\ "alloc" \in claim.finalizers
    /\ claim.alloc.account = acct
    /\ reservation.phase \in {"creating", "active", "deleting"}

NoLeak ==
    /\ \A p \in PoolIDs : Exists(p) => Owned(pools[p].account)
    /\ \A r \in requests : Owned(r.account)

\* However often Create is retried, the claim has at most one pool, and none
\* can still appear beside it.
AtMostOne ==
    \A p \in PoolIDs : Exists(p) =>
        /\ requests = {}
        /\ core.pc # "send"
        /\ \A q \in PoolIDs : Exists(q) => p = q

\* No record contradicts another or the pool that exists: restoreReservation
\* and validatePool, which would wedge the claim for good, never refuse.
RecordsAgree ==
    /\ reservation.phase # "none" /\ claim.phase # "gone" =>
          Consistent(claim.alloc, reservation.alloc)
    /\ \A p \in PoolIDs : Exists(p) =>
          claim.alloc.pool \in {None, p} /\ reservation.alloc.pool \in {None, p}

\* Under lockPool a call's copy of the reservation is the current one, so its
\* optimistic lock never fails against the other controller.
CopyIsCurrent ==
    \A t \in Controllers : threads[t].pc \in ReservedPCs => threads[t].res = reservation

\* The records of an allocation hold together, in the API server and in the
\* calls that work on them.
RecordsHold == TypeOK /\ RecordsAgree /\ CopyIsCurrent

\* When the claim is gone, so are its reservation, and the worker it published
\* even if the worker outlived its pool.
NothingLeft ==
    claim.phase = "gone" => reservation.phase = "none" /\ ~Alive(claim.providerID)

\* The process holds credentials of an account other than the allocation's.
OtherAccount == claim.alloc.account \notin {None, account}

\* A deleted claim goes away, and with NoLeak its pool, unless a worker joined
\* the cluster and was never published, the pool holds a worker that is not the
\* recorded one (those are kept for the operator), or the process holds
\* credentials of another account.
DeletedIsReleased ==
    (claim.phase = "deleting")
        ~> \/ claim.phase = "gone"
           \/ node.state = "bare" /\ claim.providerID = None
           \/ /\ reservation.alloc.worker # None
              /\ \E w \in WorkerIDs \ {reservation.alloc.worker} : Alive(w)
           \/ OtherAccount

\* A worker that was provisioned for a live claim is published, whatever was
\* lost on the way: the pool is found by its name and adopted.  A worker that
\* replaced the recorded one is not, and neither is one of another account.
WorkerIsPublished ==
    (claim.phase = "live" /\ \E w \in WorkerIDs : Alive(w))
        ~> \/ claim.providerID # None
           \/ claim.phase # "live"
           \/ \A w \in WorkerIDs : Alive(w) =>
                 \/ pools[workers[w].pool].status = "gone"
                 \/ reservation.alloc.worker \notin {None, w}
           \/ OtherAccount

\* A claim comes to its end: live it is published, deleted it is released.
ClaimsSettle == WorkerIsPublished /\ DeletedIsReleased

-----------------------------------------------------------------------------
(* The protocol implements the contract of the launch journal, except that *)
(* a creation may still start while the claim is being deleted.            *)

instOf ==
    IF \E p \in PoolIDs : Exists(p) THEN "present"
    ELSE IF requests # {} \/ core.pc = "send" THEN "requested"
    ELSE "absent"

Contract == INSTANCE LaunchContract WITH phase <- claim.phase, inst <- instOf,
                                         Launchable <- {"live", "deleting"}

\* Every step of the two controllers and of their environment is a step of the
\* contract: a pool is asked for only by a claim that is still there and owns
\* nothing, and the claim goes away only when nothing is left.
ImplementsContract == Contract!ContractSpec

=============================================================================
