----------------------- MODULE IKSAllocationProofs -----------------------
(***************************************************************************)
(* The theorems about IKSAllocation, for every set of accounts, pools and  *)
(* workers and every value of the bounds: no pool leaks, a claim has at    *)
(* most one, the records never contradict each other, nothing is left      *)
(* behind, and the protocol implements LaunchContract.                     *)
(*                                                                         *)
(* The properties of IKSAllocation are not inductive: whether a step may   *)
(* free the reservation, release the claim or ask for a pool depends on    *)
(* what the call has read before.  The invariant adds what each call knows *)
(* at each of its steps (View), that everybody who knows a pool or a       *)
(* worker knows the same one (Identities), and that while a request is in  *)
(* flight nobody knows a pool and the reservation says so (Requested).     *)
(*                                                                         *)
(* After the invariant come the steps of Create and of the cleanups, those *)
(* that only read and those that write the reservation; then the steps of  *)
(* IKS, of the request, of the claim and of time; and last what follows    *)
(* from the invariant.                                                     *)
(***************************************************************************)
EXTENDS IKSAllocation, TLAPS

\* Zenon proves most leaves; one that needs arithmetic or record types names SMT.
USE ZenonT(90)

-----------------------------------------------------------------------------
(* The inductive invariant *)

\* What the poolCreationWindow has to cover: the time a request may take to be
\* decided and the time from an empty lookup to the decision on it.
Timely == MaxLatency + MaxLookup <= Window

\* The steps of Create that hold the lock.
CreatePCs == {"reserve", "find", "decide", "send", "sent", "reject", "activate", "record",
              "verify", "workers", "bind", "confirm"}

\* The steps of Cleanup, deleteAllocation and ConfirmGone.
CleanPCs == {"nodes", "cleanup", "gone", "release", "mark", "look", "judge", "worker", "free",
             "note", "list", "delete", "goneWorker", "goneFree"}

\* No pool exists and none can appear ...
Quiet ==
    /\ \A p \in PoolIDs : ~Exists(p)
    /\ requests = {}
    /\ core.pc # "send"

\* ... and none will be asked for.
Over == Quiet /\ claim.phase # "live" /\ core.pc \notin CreatePCs

\* The Allocation b has what a has.
Below(a, b) ==
    /\ a.account = b.account
    /\ a.pool \in {None, b.pool}
    /\ a.worker \in {None, b.worker}

\* A worker is recorded with its pool, and that with its account.
Whole(a) ==
    /\ a.worker # None => a.pool # None
    /\ a.pool # None => a.account # None

\* The pool exists, or a record or a call names it.
Known(p) ==
    \/ Exists(p)
    \/ claim.alloc.pool = p
    \/ reservation.alloc.pool = p
    \/ \E t \in Controllers : threads[t].alloc.pool = p

\* A record or a call names the worker.
KnownWorker(w) ==
    \/ claim.alloc.worker = w
    \/ reservation.alloc.worker = w
    \/ \E t \in Controllers : threads[t].alloc.worker = w

Mutex == \A t, u \in Controllers :
    threads[t].pc \in LockedPCs /\ threads[u].pc \in LockedPCs => t = u

\* All who know a pool or a worker know the same one, and the worker was there.
Identities ==
    /\ \A p, q \in PoolIDs : Known(p) /\ Known(q) => p = q
    /\ \A v, w \in WorkerIDs : KnownWorker(v) /\ KnownWorker(w) => v = w
    /\ \A w \in WorkerIDs : KnownWorker(w) => workers[w].status # "unborn"
    /\ Whole(claim.alloc) /\ Whole(reservation.alloc)
    /\ \A t \in Controllers : Whole(threads[t].alloc)

\* The claim, and what it says about the reservation and the pools.
ClaimState ==
    /\ claim.phase = "live" => "core" \in claim.finalizers
    /\ claim.phase = "gone" <=> claim.finalizers = {}
    /\ claim.alloc.account = None => claim.alloc = NoAllocation
    /\ "alloc" \in claim.finalizers => claim.alloc.account # None
    /\ claim.providerID \in {None, claim.alloc.worker}
    /\ reservation.phase # "none" => reservation.alloc.account = claim.alloc.account
    /\ \A p \in PoolIDs : Exists(p) => pools[p].account = claim.alloc.account
    /\ ~Quiet => reservation.phase \in {"creating", "active", "deleting"}

\* A controller that has removed its finalizer, or is about to, leaves nothing
\* that it has to watch over.
Released ==
    /\ "core" \notin claim.finalizers => core.pc = "idle"
    /\ "alloc" \notin claim.finalizers =>
          /\ Quiet /\ core.pc \notin CreatePCs /\ threads["alloc"].pc = "idle"
          /\ claim.providerID = None \/ claim.phase = "gone" => reservation.phase = "none"
    /\ \A t \in Controllers :
          /\ threads[t].pc = "release"
          /\ claim = threads[t].seen
          /\ claim.finalizers = {t} \/ (t = "alloc" /\ claim.providerID = None)
          => reservation.phase = "none"
    /\ claim.phase = "gone" => ~Alive(claim.providerID)

\* While a request is in flight or about to leave, the reservation says that a
\* pool may appear, and nobody knows of one.
Requested ==
    /\ requests # {} \/ core.pc = "send" =>
          /\ reservation.pending
          /\ now <= reservation.started + MaxLatency
          /\ \A p \in PoolIDs : ~Known(p)
    /\ \A r \in requests : r = [account |-> claim.alloc.account, started |-> reservation.started]
    /\ core.pc = "send" => requests = {}

\* A call that is not in progress knows nothing, and Create is core's.
Idles(t) ==
    /\ threads[t].pc = "idle" => threads[t] = Idle
    /\ t = "alloc" => threads[t].pc \in CleanPCs \cup {"idle"}

\* A call that has reserved has the reservation and what is recorded there.
Copied(t) ==
    threads[t].pc \in ReservedPCs =>
        /\ threads[t].res = reservation /\ reservation.phase # "none"
        /\ Below(reservation.alloc, threads[t].alloc)

\* After an empty lookup nothing exists, unless a request was in flight, and then
\* the reservation is still uncertain.
Looked(t) ==
    threads[t].pc \in {"decide", "judge"} =>
        /\ now <= threads[t].since + MaxLookup
        /\ \/ Quiet
           \/ /\ reservation.pending
              /\ threads[t].since <= reservation.started + MaxLatency
              /\ threads[t].alloc.pool = None

\* What Create knows.
Creates ==
    /\ core.pc = "start" =>
          /\ core.alloc.account # None
          /\ claim.alloc \in {NoAllocation, core.alloc}
    /\ core.pc \in CreatePCs => Below(claim.alloc, core.alloc)
    /\ core.pc \in CreatePCs \ {"reserve"} => core.alloc.account = account
    /\ core.pc = "sent" => requests # {}
    /\ core.pc = "reject" => Quiet
    /\ core.pc \in {"activate", "record", "verify", "workers", "bind", "confirm"} =>
          core.alloc.pool # None
    /\ core.pc \in {"bind", "confirm", "publish"} => core.alloc.worker # None
    /\ core.pc = "publish" => claim.alloc = core.alloc

\* What a cleanup knows.
Cleans(t) ==
    threads[t].pc \in CleanPCs =>
        /\ claim.phase # "live" /\ t \in claim.finalizers
        /\ claim.finalizers \subseteq threads[t].seen.finalizers
        /\ threads[t].seen.phase = "deleting" /\ threads[t].seen.alloc = claim.alloc
        /\ threads[t].seen.providerID \in {None, claim.providerID}
        /\ claim.alloc.account # None
        /\ Below(claim.alloc, threads[t].alloc)
        /\ t = "core" \/ threads[t].pc \in {"gone", "goneWorker", "goneFree"} =>
              threads[t].seen.providerID # None
        /\ threads[t].pc \in {"nodes", "gone", "goneWorker", "goneFree"} => t = "alloc"
        /\ threads[t].pc \in {"nodes", "cleanup", "gone", "goneWorker", "goneFree"} =>
              threads[t].alloc = claim.alloc
        /\ threads[t].pc \in {"worker", "free", "release", "goneWorker", "goneFree"} => Over
        /\ threads[t].pc \in {"free", "release", "goneFree"} => ~Alive(threads[t].alloc.worker)
        /\ threads[t].pc \in {"note", "list", "delete"} => threads[t].alloc.pool # None

View(t) ==
    /\ Idles(t) /\ Copied(t) /\ Looked(t) /\ Cleans(t)
    /\ t = "core" => Creates

IInv ==
    /\ TypeOK /\ Mutex /\ Identities /\ ClaimState /\ Released /\ Requested
    /\ \A t \in Controllers : View(t)

-----------------------------------------------------------------------------
(* Steps of a call that change only the call *)

\* Allocations and reservations as the actions write them.
LEMMA Types ==
    /\ NoAllocation \in Allocation /\ NoReservation \in Reservation /\ NoClaim \in NodeClaim
    /\ Idle \in Thread /\ Idle.pc = "idle" /\ Idle.alloc = NoAllocation
    /\ NoAllocation.pool = None /\ NoAllocation.worker = None /\ NoAllocation.account = None
    /\ NoReservation.phase = "none" /\ NoReservation.alloc = NoAllocation
  BY DEF NoAllocation, Allocation, NoReservation, Reservation, ReservationPhases, NoClaim,
     NodeClaim, Idle, Thread, FreePCs

\* A call moves on and nothing else changes that the calls know of.
Moves(t) ==
    /\ threads' \in [Controllers -> Thread]
    /\ \A u \in Controllers \ {t} : threads'[u] = threads[u]
    /\ node' \in Node /\ faults' \in Nat
    /\ UNCHANGED <<now, claim, pools, workers, requests, account>>

LEMMA Moving ==
  ASSUME TypeOK, NEW t \in Controllers, NEW call \in Thread, Goto(t, call),
         node' \in Node, faults' \in Nat,
         UNCHANGED <<now, claim, pools, workers, requests, account>>
  PROVE  Moves(t) /\ threads'[t] = call
  BY DEF TypeOK, Goto, Moves

\* What the other call knows stays true, if it does not lose the lock.
LEMMA OtherView ==
  ASSUME IInv, NEW t \in Controllers, NEW u \in Controllers \ {t}, Moves(t),
         threads'[t].pc \in LockedPCs \/ reservation' # reservation => lockPool(t),
         t = "core" /\ threads'[t].pc \in CreatePCs => threads[t].pc \in CreatePCs
  PROVE  View(u)'
  <1>1. threads'[u] = threads[u] /\ View(u) /\ u \in Controllers
    BY DEF Moves, IInv
  <1>2. u # t
    OBVIOUS
  <1>3. Over => Over'
    BY DEF Over, Quiet, Moves, core, Exists, Controllers, CreatePCs
  <1>4. threads[u].pc \in LockedPCs => reservation' = reservation /\ threads'[t].pc \notin LockedPCs
    BY <1>1, <1>2 DEF lockPool
  <1>5. Idles(u)'
    BY <1>1 DEF View, Idles
  <1>6. Copied(u)'
    BY <1>1, <1>4 DEF View, Copied, LockedPCs
  <1>7. Looked(u)'
    <2>1. SUFFICES ASSUME threads[u].pc \in {"decide", "judge"} PROVE Looked(u)'
      BY <1>1 DEF Looked
    <2>2. threads[u].pc \in LockedPCs
      BY <2>1 DEF LockedPCs, ReservedPCs
    <2>3. Quiet => Quiet'
      BY <1>1, <1>2, <1>4, <2>1, <2>2 DEF Quiet, Moves, core, Exists, Controllers, LockedPCs, ReservedPCs
    <2> QED BY <1>1, <1>4, <2>2, <2>3 DEF View, Looked, Moves
  <1>8. Cleans(u)'
    BY <1>1, <1>3 DEF View, Cleans, Moves, Alive
  <1>9. u = "core" => Creates'
    <2>1. SUFFICES ASSUME u = "core" PROVE Creates'
      OBVIOUS
    <2>2. core' = core /\ Creates
      BY <1>1, <2>1 DEF core, View
    <2>3. Quiet => Quiet'
      BY <2>2 DEF Quiet, Moves, Exists
    <2> QED BY <2>2, <2>3 DEF Creates, Moves
  <1> QED BY <1>5, <1>6, <1>7, <1>8, <1>9 DEF View


\* No new pool or worker becomes known.
LEMMA StillIdentities ==
  ASSUME IInv, NEW t \in Controllers, Moves(t),
         Whole(threads'[t].alloc), Whole(reservation'.alloc),
         \A p \in PoolIDs :
            threads'[t].alloc.pool = p \/ reservation'.alloc.pool = p => Known(p),
         \A w \in WorkerIDs :
            threads'[t].alloc.worker = w \/ reservation'.alloc.worker = w => KnownWorker(w)
  PROVE  Identities' /\ \A p \in PoolIDs : Known(p)' => Known(p)
  <1>1. \A p \in PoolIDs : Known(p)' => Known(p)
    BY DEF Known, Moves, Exists
  <1>2. \A w \in WorkerIDs : KnownWorker(w)' => KnownWorker(w)
    BY DEF KnownWorker, Moves
  <1>3. \A u \in Controllers : Whole(threads'[u].alloc)
    BY DEF IInv, Identities, Moves
  <1> QED BY <1>1, <1>2, <1>3 DEF IInv, Identities, Moves, Whole

\* No finalizer is removed, and no reservation is made.
LEMMA StillReleased ==
  ASSUME IInv, NEW t \in Controllers, Moves(t),
         t = "core" /\ threads'[t].pc \in CreatePCs => threads[t].pc \in CreatePCs,
         threads'[t].pc # "idle" => t \in claim.finalizers,
         threads'[t].pc = "release" => reservation'.phase = "none",
         reservation'.phase # "none" => reservation.phase # "none"
  PROVE  Released'
  <1>1. "core" \notin claim.finalizers => threads'["core"].pc = "idle"
    BY DEF IInv, Released, Moves, core, Controllers
  <1>2. threads'["core"].pc \in CreatePCs => core.pc \in CreatePCs
    BY DEF Moves, core, Controllers
  <1>3. "alloc" \notin claim.finalizers => threads'["alloc"].pc = "idle"
    BY DEF IInv, Released, Moves, Controllers
  <1>4. "alloc" \notin claim.finalizers => Quiet'
    BY <1>2 DEF IInv, Released, Quiet, Moves, Exists, core, CreatePCs
  <1>5. ASSUME NEW u \in Controllers, threads'[u].pc = "release", claim = threads'[u].seen,
               claim.finalizers = {u} \/ (u = "alloc" /\ claim.providerID = None)
        PROVE  reservation'.phase = "none"
    BY <1>5 DEF IInv, Released, Moves
  <1> QED BY <1>1, <1>2, <1>3, <1>4, <1>5 DEF IInv, Released, Moves, core, Alive

\* The reservation says of a request what it said before.
LEMMA StillRequested ==
  ASSUME IInv, NEW t \in Controllers, Moves(t),
         t = "core" => threads'[t].pc # "send",
         \A p \in PoolIDs : Known(p)' => Known(p),
         requests # {} \/ core.pc = "send" =>
            reservation'.pending /\ reservation'.started = reservation.started
  PROVE  Requested'
  <1>1. core'.pc = "send" => core.pc = "send"
    BY DEF core, Moves, Controllers
  <1> QED BY <1>1 DEF IInv, Requested, Moves

\* A call moves on, and the claim and the cloud stay as they are.
LEMMA MoveInv ==
  ASSUME IInv, NEW t \in Controllers, Moves(t), reservation' \in Reservation,
         threads'[t].pc \in LockedPCs \/ reservation' # reservation => lockPool(t),
         t = "core" /\ threads'[t].pc \in CreatePCs => threads[t].pc \in CreatePCs,
         reservation'.phase # "none" => reservation'.alloc.account = claim.alloc.account,
         ~Quiet' => reservation'.phase \in {"creating", "active", "deleting"},
         Identities', Released', Requested', View(t)'
  PROVE  IInv'
  <1>1. TypeOK'
    BY DEF IInv, TypeOK, Moves
  <1>2. Mutex'
    BY DEF IInv, Mutex, Moves, lockPool
  <1>3. ClaimState'
    BY DEF IInv, ClaimState, Moves, Exists
  <1>4. \A u \in Controllers : View(u)'
    <2> TAKE u \in Controllers
    <2>1. CASE u = t
      BY <2>1
    <2>2. CASE u # t
      BY <2>2, OtherView
    <2> QED BY <2>1, <2>2
  <1> QED BY <1>1, <1>2, <1>3, <1>4 DEF IInv

\* A call moves on without a write.
LEMMA ReadInv ==
  ASSUME IInv, NEW t \in Controllers, Moves(t), UNCHANGED reservation,
         threads'[t].pc \in LockedPCs => lockPool(t),
         t = "core" => threads'[t].pc # "send",
         t = "core" /\ threads'[t].pc \in CreatePCs => threads[t].pc \in CreatePCs,
         threads'[t].pc # "idle" => t \in claim.finalizers,
         threads'[t].pc = "release" => reservation.phase = "none",
         Whole(threads'[t].alloc),
         \A p \in PoolIDs : threads'[t].alloc.pool = p => Known(p),
         \A w \in WorkerIDs : threads'[t].alloc.worker = w => KnownWorker(w),
         View(t)'
  PROVE  IInv'
  <1>1. Identities' /\ \A p \in PoolIDs : Known(p)' => Known(p)
    <2>1. Whole(reservation'.alloc)
      BY DEF IInv, Identities
    <2>2. \A p \in PoolIDs : reservation'.alloc.pool = p => Known(p)
      BY DEF Known
    <2>3. \A w \in WorkerIDs : reservation'.alloc.worker = w => KnownWorker(w)
      BY DEF KnownWorker
    <2> QED BY <2>1, <2>2, <2>3, StillIdentities
  <1>2. Released'
    BY StillReleased
  <1>3. Requested'
    BY <1>1, StillRequested DEF IInv, Requested
  <1>4. ~Quiet' => ~Quiet
    BY DEF Quiet, Moves, Exists, core, Controllers
  <1> QED BY <1>1, <1>2, <1>3, <1>4, MoveInv DEF IInv, TypeOK, ClaimState

\* A call returns.
LEMMA ReturnInv ==
  ASSUME IInv, NEW t \in Controllers, Return(t), node' \in Node, faults' \in Nat,
         UNCHANGED <<now, claim, reservation, pools, workers, requests, account>>
  PROVE  IInv'
  <1>1. Moves(t) /\ threads'[t] = Idle
    BY Types, Moving DEF IInv, Return
  <1>2. View(t)'
    BY <1>1, Types DEF View, Idles, Copied, Looked, Cleans, Creates, core, ReservedPCs,
       CleanPCs, CreatePCs
  <1>3. None \notin PoolIDs /\ None \notin WorkerIDs
    BY AllocationAssumption
  <1> QED BY <1>1, <1>2, <1>3, Types, ReadInv DEF LockedPCs, ReservedPCs, CreatePCs, Whole

-----------------------------------------------------------------------------
(* The steps of Create that read *)

\* d is the call c at step x with the Allocation a and the reservation r.
Follows(d, c, x, a, r) ==
    /\ d \in Thread /\ d.pc = x /\ d.seen = c.seen /\ d.alloc = a /\ d.res = r

\* The fields of a call that moves on.
LEMMA Steps ==
  ASSUME NEW c \in Thread, NEW x \in LockedPCs \cup FreePCs
  PROVE  Follows([c EXCEPT !.pc = x], c, x, c.alloc, c.res)
  BY DEF Thread, Follows

LEMMA StepsWith ==
  ASSUME NEW c \in Thread, NEW x \in LockedPCs \cup FreePCs, NEW a \in Allocation,
         NEW r \in Reservation
  PROVE  /\ Follows([c EXCEPT !.pc = x, !.alloc = a, !.res = r], c, x, a, r)
         /\ Follows([c EXCEPT !.pc = x, !.res = r, !.alloc = a], c, x, a, r)
         /\ Follows([c EXCEPT !.pc = x, !.res = r], c, x, c.alloc, r)
  BY DEF Thread, Follows

\* The fields of a call that learns of a pool.
LEMMA LearnsPool ==
  ASSUME NEW c \in Thread, NEW x \in LockedPCs \cup FreePCs, NEW p \in PoolIDs
  PROVE  \E a \in Allocation :
            /\ a.account = c.alloc.account /\ a.pool = p /\ a.worker = c.alloc.worker
            /\ Follows([c EXCEPT !.pc = x, !.alloc.pool = p], c, x, a, c.res)
  <1>1. c.alloc \in Allocation
    BY DEF Thread
  <1>2. PICK a \in Allocation : a = [c.alloc EXCEPT !.pool = p]
    BY <1>1 DEF Allocation
  <1>3. a.account = c.alloc.account /\ a.pool = p /\ a.worker = c.alloc.worker
    BY <1>1, <1>2 DEF Allocation
  <1>4. [c EXCEPT !.pc = x, !.alloc.pool = p] = [c EXCEPT !.pc = x, !.alloc = a]
    BY <1>2 DEF Thread
  <1> QED BY <1>3, <1>4 DEF Thread, Follows

\* The fields of a call that learns of a worker.
LEMMA LearnsWorker ==
  ASSUME NEW c \in Thread, NEW x \in LockedPCs \cup FreePCs, NEW w \in WorkerIDs
  PROVE  \E a \in Allocation :
            /\ a.account = c.alloc.account /\ a.pool = c.alloc.pool /\ a.worker = w
            /\ Follows([c EXCEPT !.pc = x, !.alloc.worker = w], c, x, a, c.res)
  <1>1. c.alloc \in Allocation
    BY DEF Thread
  <1>2. PICK a \in Allocation : a = [c.alloc EXCEPT !.worker = w]
    BY <1>1 DEF Allocation
  <1>3. a.account = c.alloc.account /\ a.pool = c.alloc.pool /\ a.worker = w
    BY <1>1, <1>2 DEF Allocation
  <1>4. [c EXCEPT !.pc = x, !.alloc.worker = w] = [c EXCEPT !.pc = x, !.alloc = a]
    BY <1>2 DEF Thread
  <1> QED BY <1>3, <1>4 DEF Thread, Follows


\* A call in progress has its finalizer, and one that holds the lock holds it alone.
LEMMA InProgress ==
  ASSUME IInv, NEW t \in Controllers, threads[t].pc # "idle"
  PROVE  /\ t \in claim.finalizers
         /\ threads[t].pc \in LockedPCs => lockPool(t)
  <1>1. t \in claim.finalizers
    BY DEF IInv, Released, core, Controllers
  <1> QED BY <1>1 DEF IInv, Mutex, lockPool

\* A call in progress goes on to step x with the Allocation a, whose pool and
\* worker are known.
LEMMA ProceedInv ==
  ASSUME IInv, NEW t \in Controllers, NEW d, NEW x \in LockedPCs \cup FreePCs,
         NEW a \in Allocation, Goto(t, d), Follows(d, threads[t], x, a, threads[t].res),
         threads[t].pc # "idle", x \notin {"idle", "send", "release"},
         threads[t].pc \in LockedPCs \/ lockPool(t) \/ x \notin LockedPCs,
         t = "core" /\ x \in CreatePCs => threads[t].pc \in CreatePCs,
         Whole(a), a.pool # None => Known(a.pool), a.worker # None => KnownWorker(a.worker),
         node' \in Node,
         UNCHANGED <<now, claim, reservation, pools, workers, requests, account, faults>>,
         View(t)'
  PROVE  IInv'
  <1>1. Moves(t) /\ threads'[t] = d
    BY Moving DEF Follows, IInv, TypeOK
  <1>2. None \notin PoolIDs /\ None \notin WorkerIDs
    BY AllocationAssumption
  <1> QED BY <1>1, <1>2, InProgress, ReadInv DEF Follows

\* What a call knows of its own Allocation is known.
LEMMA OwnAlloc ==
  ASSUME IInv, NEW t \in Controllers
  PROVE  /\ threads[t] \in Thread /\ threads[t].alloc \in Allocation /\ Whole(threads[t].alloc)
         /\ threads[t].res \in Reservation /\ threads[t].since \in Nat
         /\ Known(threads[t].alloc.pool) /\ KnownWorker(threads[t].alloc.worker)
  BY DEF IInv, TypeOK, Identities, Thread, Known, KnownWorker

\* A call that keeps its Allocation, or drops it, and writes no other makes nothing known.
LEMMA KeepsIdentities ==
  ASSUME IInv, NEW t \in Controllers, Moves(t),
         threads'[t].alloc \in {NoAllocation, threads[t].alloc},
         reservation'.alloc \in {NoAllocation, threads[t].alloc}
  PROVE  Identities' /\ \A p \in PoolIDs : Known(p)' => Known(p)
  <1>1. Whole(NoAllocation) /\ Whole(threads[t].alloc)
    BY Types, OwnAlloc DEF Whole
  <1>2. Whole(threads'[t].alloc) /\ Whole(reservation'.alloc)
    BY <1>1
  <1>3. /\ \A p \in PoolIDs : NoAllocation.pool # p
        /\ \A w \in WorkerIDs : NoAllocation.worker # w
    BY Types, AllocationAssumption
  <1>4. \A p \in PoolIDs : threads[t].alloc.pool = p => Known(p)
    BY OwnAlloc
  <1>5. \A w \in WorkerIDs : threads[t].alloc.worker = w => KnownWorker(w)
    BY OwnAlloc
  <1>6. \A p \in PoolIDs :
           threads'[t].alloc.pool = p \/ reservation'.alloc.pool = p => Known(p)
    BY <1>3, <1>4
  <1>7. \A w \in WorkerIDs :
           threads'[t].alloc.worker = w \/ reservation'.alloc.worker = w => KnownWorker(w)
    BY <1>3, <1>5
  <1> QED BY <1>2, <1>6, <1>7, StillIdentities

\* The claim is read.
LEMMA CreateStartInv ==
  ASSUME IInv, CreateStart
  PROVE  IInv'
  <1> DEFINE a == IF claim.alloc # NoAllocation THEN claim.alloc ELSE newAllocation
  <1>1. /\ core.pc = "idle" /\ claim.phase = "live" /\ claim.alloc \in Allocation
        /\ account \in Accounts /\ account # None
        /\ UNCHANGED <<now, claim, reservation, node, pools, workers, requests, account, faults>>
    BY AllocationAssumption DEF CreateStart, IInv, TypeOK, cloudVars, NodeClaim
  <1>2. newAllocation \in Allocation /\ newAllocation.account = account
        /\ newAllocation.pool = None /\ newAllocation.worker = None
    BY <1>1 DEF newAllocation, NoAllocation, Allocation
  <1>3. a \in Allocation /\ Whole(a) /\ a.account # None /\ claim.alloc \in {NoAllocation, a}
    BY <1>1, <1>2 DEF IInv, Identities, ClaimState, Whole
  <1>4. (a.pool # None => Known(a.pool)) /\ (a.worker # None => KnownWorker(a.worker))
    BY <1>2 DEF Known, KnownWorker
  <1> HIDE DEF a
  <1>5. Goto("core", [Idle EXCEPT !.pc = "start", !.alloc = a])
    BY DEF CreateStart, a
  <1>6. [Idle EXCEPT !.pc = "start", !.alloc = a] \in Thread
        /\ [Idle EXCEPT !.pc = "start", !.alloc = a].pc = "start"
        /\ [Idle EXCEPT !.pc = "start", !.alloc = a].alloc = a
    BY <1>3, Types DEF Idle, Thread, FreePCs
  <1>7. Moves("core") /\ core'.pc = "start" /\ core'.alloc = a
    BY <1>1, <1>5, <1>6, Moving DEF IInv, TypeOK, Controllers, core
  <1>8. View("core")'
    BY <1>1, <1>3, <1>7 DEF View, Idles, Copied, Looked, Cleans, Creates, core, ReservedPCs,
       CleanPCs, CreatePCs
  <1>9. "core" \in claim.finalizers
    BY <1>1 DEF IInv, ClaimState
  <1> QED BY <1>1, <1>3, <1>4, <1>7, <1>8, <1>9, ReadInv, AllocationAssumption
          DEF Controllers, core, LockedPCs, ReservedPCs, CreatePCs

\* Which steps hold the lock.
LEMMA Kinds ==
    /\ CreatePCs \subseteq LockedPCs /\ CreatePCs \ {"reserve"} \subseteq ReservedPCs
    /\ CreatePCs \cap CleanPCs = {} /\ CleanPCs \subseteq LockedPCs \cup FreePCs
    /\ "idle" \notin CreatePCs /\ "idle" \notin CleanPCs /\ "release" \notin CreatePCs
    /\ ReservedPCs \subseteq LockedPCs
  BY DEF CreatePCs, CleanPCs, LockedPCs, ReservedPCs, FreePCs

\* What Create has at hand once it has reserved.
LEMMA Creating ==
  ASSUME IInv, core.pc \in CreatePCs
  PROVE  /\ "core" \in Controllers /\ core = threads["core"]
         /\ core \in Thread /\ core.alloc \in Allocation /\ core.res \in Reservation
         /\ Whole(core.alloc) /\ Known(core.alloc.pool) /\ KnownWorker(core.alloc.worker)
         /\ Below(claim.alloc, core.alloc) /\ claim.alloc.account # None
         /\ "alloc" \in claim.finalizers /\ claim.phase # "gone"
         /\ core.pc # "reserve" => /\ core.res = reservation /\ reservation.phase # "none"
                                   /\ Below(reservation.alloc, core.alloc)
                                   /\ core.alloc.account = account
  BY OwnAlloc, Kinds DEF IInv, View, Creates, Copied, Released, ClaimState, core, Controllers

\* Create goes on to step x with the Allocation a.
LEMMA CreateReads ==
  ASSUME IInv, NEW d, NEW x \in CreatePCs \ {"reserve", "send", "sent", "reject"},
         NEW a \in Allocation, Goto("core", d), Follows(d, core, x, a, core.res),
         core.pc \in CreatePCs \ {"reserve"},
         Below(core.alloc, a), Whole(a), a.pool # None => Known(a.pool),
         a.worker # None => KnownWorker(a.worker),
         x \in {"decide", "find"} \/ a.pool # None,
         x \in {"bind", "confirm"} => a.worker # None,
         UNCHANGED <<now, claim, reservation, node, pools, workers, requests, account, faults>>,
         Looked("core")'
  PROVE  IInv'
  <1>1. core'.pc = x /\ core'.alloc = a /\ core'.res = core.res
    BY Creating, Moving DEF Follows, IInv, TypeOK, core
  <1>2. \A b : Below(b, core.alloc) => Below(b, a)
    BY DEF Below
  <1>3. Below(claim.alloc, core.alloc) /\ core.res = reservation /\ reservation.phase # "none"
        /\ Below(reservation.alloc, core.alloc) /\ core.alloc.account = account
    BY Creating
  <1>4. Creates'
    BY <1>1, <1>2, <1>3 DEF Creates, Below, CreatePCs
  <1>5. Copied("core")'
    BY <1>1, <1>2, <1>3 DEF Copied, core, Below
  <1>6. View("core")'
    BY <1>1, <1>4, <1>5, Kinds DEF View, Idles, Cleans, core
  <1>7. x \in LockedPCs \cup FreePCs /\ x \notin {"idle", "send", "release"}
        /\ core.pc \in LockedPCs /\ core.pc # "idle"
    BY Kinds
  <1> QED BY <1>6, <1>7, Creating, ProceedInv DEF IInv, TypeOK

\* The pool is looked up by its name, and adopted.
LEMMA CreateFindInv ==
  ASSUME IInv, CreateFind
  PROVE  IInv'
  <1>1. /\ core.pc = "find" /\ core.pc \in CreatePCs \ {"reserve"}
        /\ now \in Nat /\ faults \in Nat /\ node \in Node
        /\ UNCHANGED <<now, claim, reservation, node, pools, workers, requests, account, faults>>
    BY DEF CreateFind, IInv, TypeOK, cloudVars, CreatePCs
  <1>2. "decide" \in CreatePCs /\ "workers" \in CreatePCs
    BY DEF CreatePCs
  <1>3. CASE Visible = {} /\ Goto("core", [core EXCEPT !.pc = "decide", !.since = now])
    <2>1. \A p \in PoolIDs : ~Exists(p)
      BY <1>1, <1>3, Creating DEF IInv, ClaimState, Visible, Below
    <2>2. Follows([core EXCEPT !.pc = "decide", !.since = now], core, "decide", core.alloc, core.res)
          /\ [core EXCEPT !.pc = "decide", !.since = now].since = now
      <3>1. core \in Thread /\ "decide" \in LockedPCs \cup FreePCs
        BY <1>1, <1>2, Kinds, Creating
      <3> QED BY <1>1, <3>1 DEF Thread, Follows
    <2>3. core'.pc = "decide" /\ core'.alloc = core.alloc /\ core'.since = now
      BY <1>1, <1>3, <2>2, Creating, Moving DEF Follows, IInv, core
    <2>4. Looked("core")'
      <3>1. CASE requests = {}
        BY SMTT(90), <1>1, <2>1, <2>3, <3>1, AllocationAssumption DEF Looked, Quiet, Exists, core
      <3>2. CASE requests # {}
        <4>1. core.alloc.pool = None
          BY <1>1, <3>2, Creating DEF IInv, Requested, Allocation
        <4> QED BY SMTT(90), <1>1, <2>3, <3>2, <4>1, AllocationAssumption DEF Looked, core, IInv, Requested
      <3> QED BY <3>1, <3>2
    <2>5. Below(core.alloc, core.alloc)
      BY DEF Below
    <2> QED BY SMTT(90), <1>1, <1>2, <1>3, <2>2, <2>4, <2>5, Creating, CreateReads
  <1>4. ASSUME NEW p \in Visible, validatePool(p, core.alloc),
               Goto("core", [core EXCEPT !.pc = "workers", !.alloc.pool = p])
        PROVE  IInv'
    <2>1. p \in PoolIDs /\ p # None /\ Known(p)
      BY <1>4, AllocationAssumption DEF Visible, Known
    <2>2. PICK a \in Allocation :
            /\ a.account = core.alloc.account /\ a.pool = p /\ a.worker = core.alloc.worker
            /\ Follows([core EXCEPT !.pc = "workers", !.alloc.pool = p], core, "workers", a, core.res)
      BY <1>1, <1>2, <2>1, Kinds, Creating, LearnsPool
    <2>3. Below(core.alloc, a)
      BY <1>4, <2>2 DEF Below, validatePool
    <2>4. Looked("core")'
      BY <1>1, <1>4, <2>2, Creating, Moving DEF Looked, core, Follows, IInv
    <2>5. Whole(a)
      BY <1>1, <2>1, <2>2, Creating, AllocationAssumption DEF Whole, IInv, TypeOK
    <2> QED BY <1>1, <1>2, <1>4, <2>1, <2>2, <2>3, <2>4, <2>5, Creating, CreateReads
  <1>5. CASE Return("core")
    BY <1>1, <1>5, Creating, ReturnInv
  <1> QED BY <1>3, <1>4, <1>5 DEF CreateFind


\* The pool that was created is looked up by its identity.
LEMMA CreateVerifyInv ==
  ASSUME IInv, CreateVerify
  PROVE  IInv'
  <1>1. /\ core.pc = "verify" /\ core.pc \in CreatePCs \ {"reserve"}
        /\ faults \in Nat /\ node \in Node
        /\ UNCHANGED <<now, claim, reservation, node, pools, workers, requests, account, faults>>
    BY DEF CreateVerify, IInv, TypeOK, cloudVars, CreatePCs
  <1>2. CASE Goto("core", [core EXCEPT !.pc = "workers"])
    <2>1. core \in Thread /\ "workers" \in LockedPCs \cup FreePCs
      BY <1>1, Creating DEF LockedPCs, ReservedPCs
    <2>2. Follows([core EXCEPT !.pc = "workers"], core, "workers", core.alloc, core.res)
      BY <2>1, Steps
    <2>3. Below(core.alloc, core.alloc) /\ core.alloc.pool # None /\ "workers" \in CreatePCs
      BY <1>1, Creating DEF Below, IInv, View, Creates, CreatePCs
    <2>4. Looked("core")'
      BY <1>1, <1>2, <2>2, Creating, Moving DEF Looked, core, Follows, IInv
    <2> QED BY <1>1, <1>2, <2>2, <2>3, <2>4, Creating, CreateReads
  <1>3. CASE Return("core")
    BY <1>1, <1>3, Creating, ReturnInv
  <1> QED BY <1>2, <1>3 DEF CreateVerify

\* Create knows every worker that is known.
LEMMA CreateKnowsWorker ==
  ASSUME IInv, core.pc \in CreatePCs \ {"reserve"}, NEW w \in WorkerIDs, KnownWorker(w)
  PROVE  core.alloc.worker = w
  <1>1. w # None /\ core.pc \in LockedPCs
    BY AllocationAssumption, Kinds
  <1>2. CASE claim.alloc.worker = w \/ reservation.alloc.worker = w \/ core.alloc.worker = w
    BY <1>1, <1>2, Creating DEF Below
  <1>3. CASE threads["alloc"].alloc.worker = w
    <2>1. threads["alloc"].pc \notin LockedPCs /\ View("alloc") /\ "alloc" \in Controllers
      BY <1>1, Creating DEF IInv, Mutex, Controllers, core
    <2>2. threads["alloc"].pc # "idle"
      BY <1>1, <1>3, <2>1, Types DEF View, Idles
    <2>3. threads["alloc"].alloc = claim.alloc
      BY <2>1, <2>2 DEF View, Idles, Cleans, CleanPCs, Over, LockedPCs, ReservedPCs
    <2> QED BY <1>2, <1>3, <2>3
  <1> QED BY SMTT(90), <1>2, <1>3 DEF KnownWorker, Controllers, core

\* The worker of the pool is found, and bound.
LEMMA CreateWorkersInv ==
  ASSUME IInv, CreateWorkers
  PROVE  IInv'
  <1>1. /\ core.pc = "workers" /\ core.pc \in CreatePCs \ {"reserve"}
        /\ faults \in Nat /\ node \in Node /\ core.alloc.pool # None
        /\ UNCHANGED <<now, claim, reservation, node, pools, workers, requests, account, faults>>
    BY DEF CreateWorkers, IInv, TypeOK, cloudVars, CreatePCs, View, Creates, Controllers
  <1>2. CASE Return("core")
    BY <1>1, <1>2, Creating, ReturnInv
  <1>3. ASSUME NEW w \in WorkerIDs, WorkersOf(core.alloc.pool) = {w}, core.alloc.worker \in {None, w},
               Goto("core", [core EXCEPT !.pc = "bind", !.alloc.worker = w])
        PROVE  IInv'
    <2>1. core \in Thread /\ "bind" \in LockedPCs \cup FreePCs /\ "bind" \in CreatePCs
          /\ "bind" \in ReservedPCs
      BY <1>1, Creating DEF LockedPCs, ReservedPCs, CreatePCs
    <2>2. PICK a \in Allocation :
            /\ a.account = core.alloc.account /\ a.pool = core.alloc.pool /\ a.worker = w
            /\ Follows([core EXCEPT !.pc = "bind", !.alloc.worker = w], core, "bind", a, core.res)
      BY <1>1, <2>1, LearnsWorker
    <2>3. Moves("core") /\ core'.pc = "bind" /\ core'.alloc = a /\ core'.res = core.res
      BY <1>1, <1>3, <2>2, Creating, Moving DEF Follows, IInv, core, TypeOK
    <2>4. w # None /\ workers[w].status # "unborn"
      BY <1>3, AllocationAssumption DEF WorkersOf, Alive
    <2>5. \A b : Below(b, core.alloc) => Below(b, a)
      BY <1>3, <2>2 DEF Below
    <2>6. View("core")'
      <3>1. Copied("core")' /\ Looked("core")'
        BY <1>1, <2>1, <2>3, <2>5, Creating DEF Copied, Looked, core, Below
      <3>2. Creates'
        BY <1>1, <2>1, <2>2, <2>3, <2>4, <2>5, Creating DEF Creates, Below
      <3> QED BY <2>3, <3>1, <3>2, Kinds DEF View, Idles, Cleans, core, CreatePCs
    <2>7. \A p \in PoolIDs : Known(p)' => Known(p)
      BY <1>1, <2>2, <2>3 DEF Known, Moves, Exists, core
    <2>8. \A v \in WorkerIDs : KnownWorker(v)' => v = w
      <3> TAKE v \in WorkerIDs
      <3>1. KnownWorker(v)' => KnownWorker(v) \/ v = w
        BY <1>1, <2>2, <2>3 DEF KnownWorker, Moves, core
      <3> QED BY <1>1, <1>3, <3>1, CreateKnowsWorker, AllocationAssumption
    <2>9. Identities'
      <3>1. Whole(a) /\ \A u \in Controllers : Whole(threads'[u].alloc)
        BY SMTT(90), <1>1, <2>2, <2>3, Creating DEF Whole, IInv, Identities, Moves, core, TypeOK
      <3> QED BY <1>1, <2>4, <2>7, <2>8, <3>1 DEF IInv, Identities, Whole
    <2>10. Released' /\ Requested'
      BY <1>1, <2>1, <2>3, <2>7, Creating, InProgress, StillReleased, StillRequested
         DEF core, IInv, Requested
    <2>11. ~Quiet' => ~Quiet
      BY <1>1, <2>3 DEF Quiet, Exists
    <2>12. lockPool("core")
      BY <1>1, Creating, InProgress, Kinds
    <2> QED BY <1>1, <2>1, <2>3, <2>6, <2>9, <2>10, <2>11, <2>12, Creating, MoveInv
            DEF IInv, TypeOK, ClaimState, core
  <1> QED BY <1>2, <1>3 DEF CreateWorkers

-----------------------------------------------------------------------------
(* The steps that write the reservation *)

\* What updateReservation writes, and that it is never refused.
LEMMA Updating ==
  ASSUME IInv, NEW t \in Controllers, NEW ph \in ReservationPhases \ {"none"},
         NEW x \in LockedPCs \cup FreePCs,
         threads[t].pc \in ReservedPCs, updateReservation(t, threads[t].alloc, ph, x),
         UNCHANGED <<now, claim, node, pools, workers, requests, account>>
  PROVE  /\ reservation' = Updated(reservation, threads[t].alloc, ph)
         /\ reservation' \in Reservation /\ reservation'.phase = ph
         /\ reservation'.alloc = threads[t].alloc
         /\ Moves(t)
         /\ \/ threads'[t] = Idle
            \/ x # "idle" /\ Follows(threads'[t], threads[t], x, threads[t].alloc, reservation')
  <1>1. threads[t].res = reservation /\ threads[t] \in Thread /\ threads[t].alloc \in Allocation
        /\ now \in Nat /\ reservation \in Reservation /\ faults \in Nat /\ node \in Node
    BY OwnAlloc DEF IInv, View, Copied, TypeOK
  <1> DEFINE new == Updated(reservation, threads[t].alloc, ph)
  <1>2. new \in Reservation /\ new.phase = ph /\ new.alloc = threads[t].alloc
    BY <1>1 DEF Updated, Reservation
  <1> HIDE DEF new
  <1>3. /\ reservation' = new
        /\ GotoOrFail(t, IF x = "idle" THEN Idle
                         ELSE [threads[t] EXCEPT !.pc = x, !.alloc = threads[t].alloc, !.res = new])
    BY <1>1 DEF updateReservation, new
  <1>4. Follows([threads[t] EXCEPT !.pc = x, !.alloc = threads[t].alloc, !.res = new],
                threads[t], x, threads[t].alloc, new)
    BY <1>1, <1>2 DEF Follows, Thread
  <1>5. faults' \in Nat
    BY SMTT(90), <1>1, <1>3 DEF GotoOrFail, NoFault, Fault
  <1>6. CASE Return(t)
    BY <1>1, <1>2, <1>3, <1>5, <1>6, Types, Moving DEF Return, IInv, new
  <1>7. CASE Goto(t, IF x = "idle" THEN Idle
                     ELSE [threads[t] EXCEPT !.pc = x, !.alloc = threads[t].alloc, !.res = new])
    <2>1. CASE x = "idle"
      BY <1>1, <1>2, <1>3, <1>5, <1>7, <2>1, Types, Moving DEF IInv, new
    <2>2. CASE x # "idle"
      BY <1>1, <1>2, <1>3, <1>4, <1>5, <1>7, <2>2, Moving DEF IInv, new, Follows
    <2> QED BY <2>1, <2>2
  <1> QED BY <1>3, <1>6, <1>7 DEF GotoOrFail

\* A known pool rules out requests.
LEMMA KnownSettles ==
  ASSUME IInv, NEW p, p # None, p \in PoolIDs \cup {None}, Known(p)
  PROVE  requests = {} /\ core.pc # "send"
  BY DEF IInv, Requested

\* The reservation is written: a phase other than "creating".
LEMMA UpdateInv ==
  ASSUME IInv, NEW t \in Controllers, NEW ph \in {"active", "rejected", "deleting"},
         NEW x \in {"idle", "record", "confirm", "look", "list"},
         threads[t].pc \in ReservedPCs, updateReservation(t, threads[t].alloc, ph, x),
         UNCHANGED <<now, claim, node, pools, workers, requests, account>>,
         ph = "rejected" => Quiet,
         ph = "active" => threads[t].alloc.pool # None,
         x \in {"record", "confirm"} => t = "core" /\ core.pc \in CreatePCs /\ core.alloc.pool # None,
         x = "confirm" => core.alloc.worker # None,
         x \in {"look", "list"} => threads[t].pc \in CleanPCs \ {"release"},
         x = "list" => threads[t].alloc.pool # None
  PROVE  IInv'
  <1>1. /\ reservation' = Updated(reservation, threads[t].alloc, ph)
        /\ reservation' \in Reservation /\ reservation'.phase = ph
        /\ reservation'.alloc = threads[t].alloc
        /\ Moves(t)
        /\ \/ threads'[t] = Idle
           \/ x # "idle" /\ Follows(threads'[t], threads[t], x, threads[t].alloc, reservation')
    <2>1. ph \in ReservationPhases \ {"none"} /\ x \in LockedPCs \cup FreePCs
      BY DEF ReservationPhases, LockedPCs, ReservedPCs, FreePCs
    <2> QED BY <2>1, Updating
  <1>2. threads[t].pc \in LockedPCs /\ threads[t].pc # "idle" /\ t \in claim.finalizers
        /\ lockPool(t) /\ View(t) /\ threads[t].alloc \in Allocation
        /\ reservation.phase # "none" /\ Below(reservation.alloc, threads[t].alloc)
        /\ reservation \in Reservation
    <2>1. threads[t].pc \in LockedPCs /\ threads[t].pc # "idle"
      BY DEF LockedPCs, ReservedPCs
    <2> QED BY <2>1, InProgress, OwnAlloc DEF IInv, View, Copied, TypeOK
  <1>3. requests # {} \/ core.pc = "send" =>
           reservation'.pending /\ reservation'.started = reservation.started
    <2>1. SUFFICES ASSUME requests # {} \/ core.pc = "send"
                   PROVE  reservation'.pending /\ reservation'.started = reservation.started
      OBVIOUS
    <2>2. threads[t].alloc.pool = None /\ reservation.pending
      BY <1>2, <2>1, OwnAlloc, KnownSettles DEF IInv, Requested, Allocation
    <2>3. ph = "deleting"
      BY <2>1, <2>2 DEF Quiet
    <2> QED BY <1>1, <2>2, <2>3 DEF Updated
  <1>4. CASE threads'[t] = Idle
    <2>1. View(t)'
      BY <1>4, Types DEF View, Idles, Copied, Looked, Cleans, Creates, core, ReservedPCs,
         CleanPCs, CreatePCs
    <2>2. Identities' /\ \A p \in PoolIDs : Known(p)' => Known(p)
      <3>1. reservation'.alloc = threads[t].alloc /\ threads'[t].alloc = NoAllocation
        BY <1>1, <1>4, Types DEF Updated
      <3> QED BY <1>1, <3>1, KeepsIdentities
    <2>3. Released'
      BY <1>1, <1>2, <1>4, Types, StillReleased DEF CreatePCs
    <2>4. Requested'
      BY <1>1, <1>3, <1>4, <2>2, Types, StillRequested
    <2>5. ~Quiet' => ~Quiet
      BY <1>1, <1>4, Types DEF Quiet, Moves, Exists, core, Controllers
    <2> QED BY <1>1, <1>2, <1>4, <2>1, <2>2, <2>3, <2>4, <2>5, Types, MoveInv
            DEF LockedPCs, ReservedPCs, CreatePCs, Below, IInv, ClaimState
  <1>5. CASE x # "idle" /\ Follows(threads'[t], threads[t], x, threads[t].alloc, reservation')
    <2>1. x \in ReservedPCs /\ x \notin {"idle", "send", "release", "decide", "judge"}
      BY <1>5 DEF ReservedPCs
    <2>2. x \in CreatePCs => t = "core" /\ core.pc \in CreatePCs \ {"reserve"}
      BY DEF CreatePCs, ReservedPCs, core
    <2>3. Idles(t)' /\ Looked(t)' /\ Copied(t)'
      BY <1>1, <1>2, <1>5, <2>1, OwnAlloc DEF Idles, Looked, Copied, Follows, View, CleanPCs, Below
    <2>4. Cleans(t)'
      BY <1>1, <1>2, <1>5, <2>1 DEF Cleans, Follows, View, CleanPCs, Moves
    <2>5. t = "core" => Creates'
      <3>1. SUFFICES ASSUME t = "core" PROVE Creates'
        OBVIOUS
      <3>2. core' = threads'[t] /\ core = threads[t] /\ Creates
        BY <1>2, <3>1 DEF core, View
      <3> QED BY <1>1, <1>5, <2>1, <2>2, <3>1, <3>2 DEF Creates, Follows, CreatePCs, Moves
    <2>6. View(t)'
      BY <2>3, <2>4, <2>5 DEF View
    <2>7. Identities' /\ \A p \in PoolIDs : Known(p)' => Known(p)
      <3>1. reservation'.alloc = threads[t].alloc /\ threads'[t].alloc = threads[t].alloc
        BY <1>1, <1>5 DEF Updated, Follows
      <3> QED BY <1>1, <3>1, KeepsIdentities
    <2>8. Released'
      BY <1>1, <1>2, <1>5, <2>1, <2>2, StillReleased DEF Follows, core
    <2>9. Requested'
      BY <1>1, <1>3, <1>5, <2>1, <2>7, StillRequested DEF Follows
    <2>10. ~Quiet' => ~Quiet
      BY <1>1, <1>5, <2>1 DEF Quiet, Moves, Exists, core, Controllers, Follows
    <2> QED BY <1>1, <1>2, <1>5, <2>1, <2>2, <2>6, <2>7, <2>8, <2>9, <2>10, MoveInv
            DEF Follows, Below, IInv, ClaimState, core
  <1> QED BY <1>1, <1>4, <1>5


\* Create records a rejection, the pool or the worker.
LEMMA CreateWritesInv ==
  ASSUME IInv, CreateReject \/ CreateActivate \/ CreateBind
  PROVE  IInv'
  <1>1. /\ "core" \in Controllers /\ core = threads["core"] /\ Creates
        /\ UNCHANGED <<now, claim, node, pools, workers, requests, account>>
    BY DEF CreateReject, CreateActivate, CreateBind, cloudVars, core, Controllers, IInv, View
  <1>2. CASE CreateReject
    <2>1. core.pc = "reject" /\ core.pc \in ReservedPCs /\ Quiet
      BY <1>1, <1>2 DEF CreateReject, ReservedPCs, Creates
    <2> QED BY <1>1, <1>2, <2>1, UpdateInv DEF CreateReject
  <1>3. CASE CreateActivate
    <2>1. core.pc \in ReservedPCs /\ core.pc \in CreatePCs /\ core.alloc.pool # None
      BY <1>1, <1>3 DEF CreateActivate, ReservedPCs, CreatePCs, Creates
    <2> QED BY <1>1, <1>3, <2>1, UpdateInv DEF CreateActivate
  <1>4. CASE CreateBind
    <2>1. /\ core.pc \in ReservedPCs /\ core.pc \in CreatePCs /\ core.alloc.pool # None
          /\ core.alloc.worker # None
      BY <1>1, <1>4 DEF CreateBind, ReservedPCs, CreatePCs, Creates
    <2> QED BY <1>1, <1>4, <2>1, UpdateInv DEF CreateBind
  <1> QED BY <1>2, <1>3, <1>4

\* A cleanup marks the reservation, or notes the pool it found.
LEMMA CleanWritesInv ==
  ASSUME IInv, NEW t \in Controllers, CleanMark(t) \/ CleanNote(t)
  PROVE  IInv'
  <1>1. UNCHANGED <<now, claim, node, pools, workers, requests, account>>
    BY DEF CleanMark, CleanNote, cloudVars
  <1>2. CASE CleanMark(t)
    <2>1. threads[t].pc \in ReservedPCs /\ threads[t].pc \in CleanPCs \ {"release"}
      BY <1>2 DEF CleanMark, ReservedPCs, CleanPCs
    <2> QED BY <1>1, <1>2, <2>1, UpdateInv DEF CleanMark
  <1>3. CASE CleanNote(t)
    <2>1. /\ threads[t].pc \in ReservedPCs /\ threads[t].pc \in CleanPCs \ {"release"}
          /\ threads[t].alloc.pool # None
      BY <1>3 DEF CleanNote, ReservedPCs, CleanPCs, IInv, View, Cleans
    <2> QED BY <1>1, <1>3, <2>1, UpdateInv DEF CleanNote
  <1> QED BY <1>2, <1>3

\* Create knows every pool that a record or a call knows.
LEMMA CreateKnowsPool ==
  ASSUME IInv, core.pc \in CreatePCs \ {"reserve"}, NEW p \in PoolIDs, Known(p), ~Exists(p)
  PROVE  core.alloc.pool = p
  <1>1. p # None /\ core.pc \in LockedPCs
    BY AllocationAssumption, Kinds
  <1>2. CASE claim.alloc.pool = p \/ reservation.alloc.pool = p \/ core.alloc.pool = p
    BY <1>1, <1>2, Creating DEF Below
  <1>3. CASE threads["alloc"].alloc.pool = p
    <2>1. threads["alloc"].pc \notin LockedPCs /\ View("alloc") /\ "alloc" \in Controllers
      BY <1>1, Creating DEF IInv, Mutex, Controllers, core
    <2>2. threads["alloc"].pc # "idle"
      BY <1>1, <1>3, <2>1, Types DEF View, Idles
    <2>3. threads["alloc"].alloc = claim.alloc
      BY <2>1, <2>2 DEF View, Idles, Cleans, CleanPCs, Over, LockedPCs, ReservedPCs
    <2> QED BY <1>2, <1>3, <2>3
  <1> QED BY SMTT(90), <1>2, <1>3 DEF Known, Controllers, core

\* When the window covers the latencies, an empty lookup that is no longer
\* uncertain was right.
LEMMA LookedRight ==
  ASSUME Timely, IInv, NEW t \in Controllers, threads[t].pc \in {"decide", "judge"},
         ~creationUncertain(threads[t].res) \/ threads[t].alloc.pool # None
  PROVE  Quiet
  <1>1. threads[t].res = reservation /\ Looked(t)
    BY DEF IInv, View, Copied, ReservedPCs
  <1>2. /\ now \in Nat /\ threads[t].since \in Nat /\ reservation.started \in Nat
        /\ Window \in Nat /\ MaxLatency \in Nat /\ MaxLookup \in Nat
    BY OwnAlloc, AllocationAssumption DEF IInv, TypeOK, Reservation
  <1> QED BY SMTT(90), <1>1, <1>2 DEF Looked, Timely, creationUncertain

\* The creation is recorded, only when nothing exists and nothing can appear.
LEMMA CreateDecideInv ==
  ASSUME Timely, IInv, CreateDecide
  PROVE  IInv'
  <1>1. /\ core.pc = "decide" /\ core.pc \in CreatePCs \ {"reserve"} /\ core.pc \in ReservedPCs
        /\ UNCHANGED <<now, claim, node, pools, workers, requests, account>>
        /\ now \in Nat /\ node \in Node /\ faults \in Nat
    BY DEF CreateDecide, cloudVars, CreatePCs, ReservedPCs, IInv, TypeOK
  <1>2. CASE Return("core") /\ UNCHANGED <<reservation, faults>>
    BY <1>1, <1>2, Creating, ReturnInv
  <1>3. CASE /\ ~creationUncertain(core.res) /\ core.alloc.pool = None
             /\ updateReservation("core", core.alloc, "creating", "send")
    <2>1. Quiet
      BY <1>1, <1>3, Creating, LookedRight
    <2>2. /\ reservation' = Updated(reservation, core.alloc, "creating")
          /\ reservation' \in Reservation /\ reservation'.phase = "creating"
          /\ reservation'.alloc = core.alloc
          /\ Moves("core")
          /\ \/ core' = Idle
             \/ Follows(core', core, "send", core.alloc, reservation')
      <3>1. "creating" \in ReservationPhases \ {"none"} /\ "send" \in LockedPCs \cup FreePCs
        BY DEF ReservationPhases, LockedPCs, ReservedPCs
      <3> QED BY <1>1, <1>3, <3>1, Creating, Updating DEF core
    <2>3. reservation'.pending /\ reservation'.started = now
      BY <1>3, <2>2 DEF Updated
    <2>4. lockPool("core") /\ "core" \in claim.finalizers
      BY <1>1, Creating, InProgress, Kinds
    <2>5. (core'.pc = "idle" \/ core'.pc = "send") /\ core'.alloc \in {NoAllocation, core.alloc}
      BY <2>2, Types DEF Follows
    <2>6. View("core")'
      <3>1. CASE core' = Idle
        BY <3>1, Types DEF View, Idles, Copied, Looked, Cleans, Creates, core, ReservedPCs,
           CleanPCs, CreatePCs
      <3>2. CASE Follows(core', core, "send", core.alloc, reservation')
        <4>1. Idles("core")' /\ Looked("core")' /\ Cleans("core")'
          BY <3>2 DEF Idles, Looked, Cleans, core, Follows, CleanPCs
        <4>2. Copied("core")'
          BY <2>2, <3>2 DEF Copied, core, Follows, Below
        <4>3. Creates'
          BY <1>1, <3>2, Creating DEF Creates, Follows, CreatePCs, Below
        <4> QED BY <4>1, <4>2, <4>3 DEF View
      <3> QED BY <2>2, <3>1, <3>2
    <2>7. Identities' /\ \A p \in PoolIDs : Known(p)' => Known(p)
      <3>1. reservation'.alloc = core.alloc
        BY <2>2
      <3>2. "core" \in Controllers /\ core'.alloc = threads'["core"].alloc
        BY DEF Controllers, core
      <3> QED BY <2>2, <2>5, <3>1, <3>2, KeepsIdentities DEF core
    <2>8. Released'
      BY <1>1, <2>2, <2>4, <2>5, Creating, StillReleased DEF core
    <2>9. Requested'
      <3>1. \A p \in PoolIDs : ~Known(p)
        BY <1>1, <1>3, <2>1, CreateKnowsPool, AllocationAssumption DEF Quiet
      <3>2. requests' = {} /\ \A p \in PoolIDs : ~Known(p)'
        BY <1>1, <2>1, <2>7, <3>1 DEF Quiet
      <3>3. now' <= reservation'.started + MaxLatency
        BY SMTT(90), <1>1, <2>3, AllocationAssumption
      <3> QED BY <2>3, <3>2, <3>3 DEF Requested
    <2> QED BY <1>1, <2>2, <2>4, <2>5, <2>6, <2>7, <2>8, <2>9, Creating, MoveInv
            DEF core, Below
  <1> QED BY <1>2, <1>3 DEF CreateDecide

\* Restoring an Allocation from a record that is consistent with it.
LEMMA Restoring ==
  ASSUME NEW a \in Allocation, NEW r \in Allocation, Whole(a), Whole(r), Consistent(a, r)
  PROVE  \E b \in Allocation :
            /\ b = Restore(a, r) /\ Whole(b) /\ Below(a, b) /\ Below(r, b)
            /\ b.pool \in {a.pool, r.pool} /\ b.worker \in {a.worker, r.worker}
  <1>1. /\ Restore(a, r) \in Allocation /\ Restore(a, r).account = a.account
        /\ Restore(a, r).pool = IF a.pool = None THEN r.pool ELSE a.pool
        /\ Restore(a, r).worker = IF a.worker = None THEN r.worker ELSE a.worker
    BY DEF Restore, Allocation
  <1> QED BY <1>1 DEF Whole, Consistent, Below

\* Who reserves: the reservation may be made anew, for no one has been promised
\* that it is gone.
LEMMA Reserving ==
  ASSUME IInv, NEW t \in Controllers, NEW x \in {"find", "mark"},
         lockPool(t), Moves(t), UNCHANGED node,
         (t = "core" /\ threads[t].pc = "reserve") \/ threads[t].pc = "cleanup",
         x = "find" => threads[t].pc = "reserve",
         x = "mark" => threads[t].pc = "cleanup",
         reservation' = Reserved(threads[t].alloc),
         \/ threads'[t] = Idle
         \/ /\ Consistent(threads[t].alloc, reservation'.alloc)
            /\ x = "find" => threads[t].alloc.account = account
            /\ Follows(threads'[t], threads[t], x,
                       Restore(threads[t].alloc, reservation'.alloc), reservation')
  PROVE  IInv'
  <1>1. /\ threads[t] \in Thread /\ threads[t].alloc \in Allocation /\ Whole(threads[t].alloc)
        /\ Known(threads[t].alloc.pool) /\ KnownWorker(threads[t].alloc.worker)
        /\ t \in claim.finalizers /\ View(t) /\ reservation \in Reservation
        /\ reservation.alloc \in Allocation /\ Whole(reservation.alloc)
    BY OwnAlloc, InProgress DEF IInv, TypeOK, Reservation, Identities
  <1>2. Below(claim.alloc, threads[t].alloc) /\ claim.phase # "gone"
        /\ (t = "core" /\ threads[t].pc = "cleanup" => claim.providerID # None)
        /\ ("alloc" \notin claim.finalizers => claim.providerID # None)
    <2>1. CASE threads[t].pc = "reserve"
      <3>1. t = "core" /\ core.pc \in CreatePCs /\ core = threads[t]
        BY <2>1 DEF CreatePCs, core
      <3> QED BY <2>1, <3>1, Creating
    <2>2. CASE threads[t].pc = "cleanup"
      <3>1. Cleans(t) /\ threads[t].pc \in CleanPCs
        BY <1>1, <2>2 DEF View, CleanPCs
      <3> QED BY <1>1, <2>2, <3>1 DEF Cleans, IInv, ClaimState, Controllers
    <2> QED BY <2>1, <2>2
  <1>3. /\ reservation' \in Reservation /\ reservation'.phase # "none"
        /\ reservation'.alloc \in Allocation /\ Whole(reservation'.alloc)
        /\ reservation'.alloc \in {reservation.alloc, threads[t].alloc}
        /\ reservation'.alloc.account = claim.alloc.account
        /\ reservation.phase # "none" => reservation' = reservation
    <2>1. CASE reservation.phase # "none"
      BY <1>1, <2>1 DEF Reserved, IInv, ClaimState
    <2>2. CASE reservation.phase = "none"
      <3>1. reservation' = [phase |-> "reserved", pending |-> FALSE, started |-> 0,
                            alloc |-> threads[t].alloc]
        BY <2>2 DEF Reserved
      <3>2. reservation' \in Reservation
        BY SMTT(90), <1>1, <3>1 DEF Reservation, ReservationPhases
      <3>3. reservation'.phase = "reserved" /\ reservation'.alloc = threads[t].alloc
        BY SMTT(90), <3>1
      <3> QED BY <1>1, <1>2, <2>2, <3>2, <3>3 DEF Below
    <2> QED BY <2>1, <2>2
  <1>4. /\ threads'[t].pc \in {"idle", x}
        /\ \A p \in PoolIDs : threads'[t].alloc.pool = p => Known(p)
        /\ \A w \in WorkerIDs : threads'[t].alloc.worker = w => KnownWorker(w)
        /\ Whole(threads'[t].alloc) /\ View(t)'
    <2>1. CASE threads'[t] = Idle
      <3>1. View(t)'
        BY <2>1, Types DEF View, Idles, Copied, Looked, Cleans, Creates, core, ReservedPCs,
           CleanPCs, CreatePCs
      <3> QED BY <2>1, <3>1, Types, AllocationAssumption DEF Whole
    <2>2. CASE /\ Consistent(threads[t].alloc, reservation'.alloc)
               /\ x = "find" => threads[t].alloc.account = account
               /\ Follows(threads'[t], threads[t], x,
                          Restore(threads[t].alloc, reservation'.alloc), reservation')
      <3>1. PICK b \in Allocation :
               /\ b = Restore(threads[t].alloc, reservation'.alloc) /\ Whole(b)
               /\ Below(threads[t].alloc, b) /\ Below(reservation'.alloc, b)
               /\ b.pool \in {threads[t].alloc.pool, reservation'.alloc.pool}
               /\ b.worker \in {threads[t].alloc.worker, reservation'.alloc.worker}
        BY <1>1, <1>3, <2>2, Restoring
      <3>2. threads'[t].pc = x /\ threads'[t].alloc = b /\ threads'[t].res = reservation'
            /\ threads'[t].seen = threads[t].seen
        BY <2>2, <3>1 DEF Follows
      <3>3. Below(claim.alloc, b)
        BY <1>2, <3>1 DEF Below
      <3>4. Copied(t)' /\ Looked(t)' /\ Idles(t)'
        BY <1>1, <1>3, <3>1, <3>2 DEF Copied, Looked, Idles, View, CleanPCs, Below
      <3>5. Cleans(t)'
        <4>1. SUFFICES ASSUME x = "mark" PROVE Cleans(t)'
          BY <3>2 DEF Cleans, CleanPCs
        <4>2. Cleans(t) /\ threads[t].pc = "cleanup" /\ threads[t].pc \in CleanPCs
          BY <1>1, <4>1 DEF View, CleanPCs
        <4> QED BY <3>2, <3>3, <4>1, <4>2 DEF Cleans, Moves, Below
      <3>6. t = "core" => Creates'
        BY <2>2, <3>1, <3>2, <3>3 DEF Creates, core, CreatePCs, Moves, Below
      <3>7. View(t)'
        BY <3>4, <3>5, <3>6 DEF View
      <3> QED BY <1>1, <1>3, <3>1, <3>2, <3>7 DEF Known, KnownWorker
    <2> QED BY <2>1, <2>2
  <1>5. Identities' /\ \A p \in PoolIDs : Known(p)' => Known(p)
    <2>1. /\ \A p \in PoolIDs : reservation'.alloc.pool = p => Known(p)
          /\ \A w \in WorkerIDs : reservation'.alloc.worker = w => KnownWorker(w)
      BY <1>3 DEF Known, KnownWorker
    <2> QED BY <1>3, <1>4, <2>1, StillIdentities
  <1>6. Quiet \/ reservation' = reservation
    BY <1>3 DEF IInv, ClaimState
  <1>7. Requested'
    BY <1>4, <1>5, <1>6, StillRequested DEF Quiet, IInv, Requested
  <1>8. ~Quiet' => ~Quiet
    BY <1>4 DEF Quiet, Moves, Exists, core, Controllers
  <1>9. t = "core" /\ threads'[t].pc \in CreatePCs => threads[t].pc \in CreatePCs
    BY <1>4 DEF CreatePCs
  <1>10. Released'
    <2>1. threads'["core"].pc \in CreatePCs => core.pc \in CreatePCs
      BY <1>9 DEF Moves, core, Controllers
    <2>2. ASSUME NEW u \in Controllers, threads'[u].pc = "release", claim = threads'[u].seen,
                 claim.finalizers = {u} \/ (u = "alloc" /\ claim.providerID = None)
          PROVE  FALSE
      <3>1. u # t /\ threads[u].pc = "release" /\ Cleans(u)
        BY <1>4, <2>2 DEF Moves, IInv, View
      <3>2. Over
        BY <3>1 DEF Cleans, CleanPCs
      <3>3. core.pc \notin CreatePCs
        BY <3>2 DEF Over
      <3> QED BY <1>1, <1>2, <2>2, <3>1, <3>3 DEF Controllers, core, CreatePCs
    <2>3. "alloc" \notin claim.finalizers => Quiet' /\ threads'["alloc"].pc = "idle"
      BY <1>1, <1>8 DEF IInv, Released, Moves, Controllers
    <2>4. "core" \notin claim.finalizers => threads'["core"].pc = "idle"
      BY <1>1 DEF IInv, Released, Moves, Controllers, core
    <2> QED BY <1>2, <2>1, <2>2, <2>3, <2>4 DEF IInv, Released, Moves, core, Alive
  <1> QED BY <1>3, <1>4, <1>5, <1>6, <1>7, <1>8, <1>9, <1>10, MoveInv DEF IInv, ClaimState

\* What GotoOrFail does to the call.
LEMMA GoingOrFailing ==
  ASSUME IInv, NEW t \in Controllers, NEW d \in Thread, GotoOrFail(t, d), UNCHANGED node,
         UNCHANGED <<now, claim, pools, workers, requests, account>>
  PROVE  Moves(t) /\ threads'[t] \in {d, Idle}
  <1>1. faults' \in Nat /\ node' \in Node /\ TypeOK
    BY SMTT(90) DEF IInv, TypeOK, GotoOrFail, NoFault, Fault
  <1> QED BY <1>1, Types, Moving DEF GotoOrFail, Return

\* Create reserves.
LEMMA CreateReserveInv ==
  ASSUME IInv, CreateReserve
  PROVE  IInv'
  <1> DEFINE res == Reserved(core.alloc)
             d   == [core EXCEPT !.pc = "find", !.res = res, !.alloc = Restore(core.alloc, res.alloc)]
  <1>1. /\ core.pc = "reserve" /\ core.pc \in CreatePCs /\ reservation' = res
        /\ UNCHANGED <<now, claim, node, pools, workers, requests, account>>
        /\ lockPool("core") /\ "find" \in LockedPCs \cup FreePCs
        /\ reservation \in Reservation /\ reservation.alloc \in Allocation
        /\ Whole(reservation.alloc)
    <2>1. core.pc = "reserve" /\ core.pc \in CreatePCs /\ core.pc \in LockedPCs
      BY DEF CreateReserve, CreatePCs, LockedPCs
    <2> QED BY <2>1, Creating, InProgress
            DEF CreateReserve, cloudVars, LockedPCs, ReservedPCs, IInv, TypeOK, Reservation, Identities
  <1>2. res \in Reservation /\ res.alloc \in Allocation /\ Whole(res.alloc)
    <2>1. core.alloc \in Allocation /\ Whole(core.alloc)
      BY <1>1, Creating
    <2> QED BY <1>1, <2>1 DEF Reserved, Reservation, ReservationPhases
  <1> HIDE DEF res
  <1>3. CASE Consistent(core.alloc, res.alloc) /\ validateTarget(core.alloc) /\ GotoOrFail("core", d)
    <2>1. PICK b \in Allocation : b = Restore(core.alloc, res.alloc)
      BY <1>1, <1>2, <1>3, Creating, Restoring
    <2>2. Follows(d, core, "find", b, res)
      <3>1. core \in Thread
        BY <1>1, Creating
      <3>2. Follows([core EXCEPT !.pc = "find", !.res = res, !.alloc = b], core, "find", b, res)
        BY <1>1, <1>2, <2>1, <3>1, StepsWith
      <3> QED BY <2>1, <3>2
    <2>3. Moves("core") /\ core' \in {d, Idle}
      BY <1>1, <1>3, <2>2, Creating, GoingOrFailing DEF Follows, core
    <2>4. core' = Idle \/ Follows(core', core, "find", Restore(core.alloc, res.alloc), res)
      BY <2>1, <2>2, <2>3
    <2> HIDE DEF d
    <2> QED BY <1>1, <1>3, <2>3, <2>4, Creating, Reserving DEF core, validateTarget, res
  <1>4. CASE Return("core") /\ NoFault
    <2>1. Moves("core") /\ core' = Idle
      BY <1>1, <1>4, Types, Creating, Moving DEF IInv, TypeOK, NoFault, Return, core
    <2> QED BY <1>1, <2>1, Creating, Reserving DEF core, res
  <1> QED BY <1>3, <1>4 DEF CreateReserve, res

\* A cleanup reserves.
LEMMA CleanReserveInv ==
  ASSUME IInv, NEW t \in Controllers, CleanReserve(t)
  PROVE  IInv'
  <1> DEFINE a   == threads[t].alloc
             res == Reserved(a)
             d   == [threads[t] EXCEPT !.pc = "mark", !.res = res, !.alloc = Restore(a, res.alloc)]
  <1>1. /\ threads[t].pc = "cleanup" /\ lockPool(t) /\ reservation' = res
        /\ UNCHANGED <<now, claim, node, pools, workers, requests, account>>
        /\ "mark" \in LockedPCs \cup FreePCs
        /\ reservation \in Reservation /\ reservation.alloc \in Allocation
        /\ Whole(reservation.alloc) /\ a \in Allocation /\ Whole(a) /\ threads[t] \in Thread
    BY OwnAlloc DEF CleanReserve, cloudVars, LockedPCs, ReservedPCs, IInv, TypeOK, Reservation,
       Identities
  <1>2. res \in Reservation /\ res.alloc \in Allocation /\ Whole(res.alloc)
    BY <1>1 DEF Reserved, Reservation, ReservationPhases
  <1>3. \/ Consistent(a, res.alloc) /\ GotoOrFail(t, d)
        \/ Return(t) /\ NoFault
    BY DEF CleanReserve
  <1> HIDE DEF res
  <1>4. CASE Consistent(a, res.alloc) /\ GotoOrFail(t, d)
    <2>1. PICK b \in Allocation : b = Restore(a, res.alloc)
      BY <1>1, <1>2, <1>4, Restoring
    <2>2. Follows(d, threads[t], "mark", b, res)
      <3>1. Follows([threads[t] EXCEPT !.pc = "mark", !.res = res, !.alloc = b],
                    threads[t], "mark", b, res)
        BY <1>1, <1>2, <2>1, StepsWith
      <3> QED BY <2>1, <3>1
    <2>3. Moves(t) /\ threads'[t] \in {d, Idle}
      BY <1>1, <1>4, <2>2, GoingOrFailing DEF Follows
    <2>4. threads'[t] = Idle \/ Follows(threads'[t], threads[t], "mark", Restore(a, res.alloc), res)
      BY <2>1, <2>2, <2>3
    <2> HIDE DEF d
    <2> QED BY <1>1, <1>4, <2>3, <2>4, Reserving DEF res
  <1>5. CASE Return(t) /\ NoFault
    <2>1. Moves(t) /\ threads'[t] = Idle
      BY <1>1, <1>5, Types, Moving DEF IInv, TypeOK, NoFault, Return
    <2> HIDE DEF d
    <2> QED BY <1>1, <2>1, Reserving DEF res
  <1> QED BY <1>3, <1>4, <1>5

\* The reservation is deleted, when nothing exists and nothing will be asked for.
LEMMA Freeing ==
  ASSUME IInv, NEW t \in Controllers, threads[t].pc \in {"free", "goneFree"},
         Moves(t), reservation' = NoReservation,
         \/ threads'[t] = Idle
         \/ /\ threads'[t].pc = "release" /\ threads'[t].seen = threads[t].seen
            /\ threads'[t].alloc = threads[t].alloc
  PROVE  IInv'
  <1>1. /\ threads[t].pc \in LockedPCs /\ threads[t].pc \in CleanPCs /\ threads[t].pc # "idle"
        /\ Cleans(t) /\ View(t)
    BY DEF LockedPCs, ReservedPCs, CleanPCs, IInv, View
  <1>2. t \in claim.finalizers /\ lockPool(t) /\ Over /\ ~Alive(threads[t].alloc.worker)
    BY <1>1, InProgress DEF Cleans
  <1>3. threads'[t].pc \in {"idle", "release"} /\ threads'[t].alloc \in {NoAllocation, threads[t].alloc}
    BY Types
  <1>4. Over'
    BY <1>2, <1>3 DEF Over, Quiet, Moves, Exists, core, Controllers, CreatePCs
  <1>5. View(t)'
    <2>1. CASE threads'[t] = Idle
      BY <2>1, Types DEF View, Idles, Copied, Looked, Cleans, Creates, core, ReservedPCs,
         CleanPCs, CreatePCs
    <2>2. CASE /\ threads'[t].pc = "release" /\ threads'[t].seen = threads[t].seen
               /\ threads'[t].alloc = threads[t].alloc
      <3>1. Cleans(t)'
        BY <1>1, <1>2, <1>4, <2>2 DEF Cleans, Moves, Alive
      <3> QED BY <2>2, <3>1 DEF View, Idles, Copied, Looked, Creates, core, ReservedPCs, CleanPCs,
              CreatePCs
    <2> QED BY <2>1, <2>2
  <1>6. Identities' /\ \A p \in PoolIDs : Known(p)' => Known(p)
    <2>1. reservation'.alloc = NoAllocation
      BY Types
    <2> QED BY <1>3, <2>1, KeepsIdentities
  <1>7. Released'
    BY <1>2, <1>3, Types, StillReleased DEF CreatePCs
  <1>8. Requested'
    BY <1>2, <1>3, <1>6, StillRequested DEF Over, Quiet
  <1> QED BY <1>2, <1>3, <1>4, <1>5, <1>6, <1>7, <1>8, Types, MoveInv
          DEF Over, LockedPCs, ReservedPCs, CreatePCs

LEMMA FreeInv ==
  ASSUME IInv, NEW t \in Controllers, CleanFree(t) \/ (t = "alloc" /\ GoneFree)
  PROVE  IInv'
  <1>1. /\ threads[t] \in Thread /\ threads[t].pc \in {"free", "goneFree"}
        /\ UNCHANGED <<now, claim, node, pools, workers, requests, account>>
        /\ "release" \in LockedPCs \cup FreePCs /\ NoReservation \in Reservation
    BY OwnAlloc, Types DEF CleanFree, GoneFree, cloudVars, FreePCs
  <1>2. ASSUME NEW d, d \in {[threads[t] EXCEPT !.pc = "release", !.res = NoReservation],
                             [threads[t] EXCEPT !.pc = "release"]},
               GotoOrFail(t, d), reservation' = NoReservation
        PROVE  IInv'
    <2>1. /\ d \in Thread /\ d.pc = "release" /\ d.seen = threads[t].seen
          /\ d.alloc = threads[t].alloc
      BY <1>1, <1>2 DEF Thread
    <2>2. Moves(t) /\ threads'[t] \in {d, Idle}
      BY <1>1, <1>2, <2>1, GoingOrFailing
    <2> QED BY <1>1, <1>2, <2>1, <2>2, Freeing
  <1>3. CASE Return(t) /\ UNCHANGED <<reservation, faults>>
    BY <1>1, <1>3, ReturnInv DEF IInv, TypeOK
  <1> QED BY <1>2, <1>3 DEF CleanFree, GoneFree

-----------------------------------------------------------------------------
(* The steps of a cleanup that read *)

\* What a cleanup has at hand.
LEMMA Cleaning ==
  ASSUME IInv, NEW t \in Controllers, threads[t].pc \in CleanPCs
  PROVE  /\ Cleans(t) /\ View(t) /\ threads[t].pc # "idle" /\ claim.phase = "deleting"
         /\ t \in claim.finalizers
         /\ threads[t] \in Thread /\ threads[t].alloc \in Allocation /\ Whole(threads[t].alloc)
         /\ Known(threads[t].alloc.pool) /\ KnownWorker(threads[t].alloc.worker)
         /\ Below(claim.alloc, threads[t].alloc)
         /\ now \in Nat /\ node \in Node /\ faults \in Nat /\ claim \in NodeClaim
  <1>1. Cleans(t) /\ View(t) /\ threads[t].pc # "idle"
    BY DEF IInv, View, CleanPCs
  <1> QED BY <1>1, OwnAlloc DEF Cleans, IInv, TypeOK, ClaimState, NodeClaim

\* A cleanup goes on to step x with the Allocation a.
LEMMA CleanReads ==
  ASSUME IInv, NEW t \in Controllers, NEW d, NEW x \in CleanPCs \ {"release"}, NEW a \in Allocation,
         Goto(t, d), Follows(d, threads[t], x, a, threads[t].res),
         threads[t].pc \in CleanPCs,
         threads[t].pc \in LockedPCs \/ lockPool(t) \/ x \notin LockedPCs,
         x \in ReservedPCs => threads[t].pc \in ReservedPCs,
         Below(threads[t].alloc, a), Whole(a), a.pool # None => Known(a.pool),
         a.worker # None => KnownWorker(a.worker),
         x \in {"nodes", "gone", "goneWorker", "goneFree"} => t = "alloc",
         x \in {"gone", "goneWorker", "goneFree"} => threads[t].seen.providerID # None,
         x \in {"nodes", "cleanup", "gone", "goneWorker", "goneFree"} => a = claim.alloc,
         x \in {"worker", "free", "goneWorker", "goneFree"} => Over,
         x \in {"free", "goneFree"} => ~Alive(a.worker),
         x \in {"note", "list", "delete"} => a.pool # None,
         node' \in Node,
         UNCHANGED <<now, claim, reservation, pools, workers, requests, account, faults>>,
         Looked(t)'
  PROVE  IInv'
  <1>1. /\ Moves(t) /\ threads'[t].pc = x /\ threads'[t].alloc = a
        /\ threads'[t].res = threads[t].res /\ threads'[t].seen = threads[t].seen
    BY Cleaning, Moving DEF Follows, IInv
  <1>2. x \notin CreatePCs /\ x \notin {"idle", "send", "release", "start", "publish"}
        /\ x \in LockedPCs \cup FreePCs
    BY Kinds DEF CleanPCs, CreatePCs
  <1>3. Over => Over'
    BY <1>1, <1>2 DEF Over, Quiet, Moves, Exists, core, Controllers
  <1>4. Below(claim.alloc, a)
    BY Cleaning DEF Below
  <1>5. Copied(t)'
    BY <1>1, Cleaning DEF Copied, View, Below
  <1>6. Cleans(t)'
    BY <1>1, <1>3, <1>4, Cleaning DEF Cleans, Moves, Alive, Below
  <1>7. Idles(t)' /\ (t = "core" => Creates')
    BY <1>1, <1>2 DEF Idles, Creates, core, CreatePCs
  <1>8. View(t)'
    BY <1>5, <1>6, <1>7 DEF View
  <1> QED BY <1>2, <1>8, Cleaning, ProceedInv

\* The claim is read: the call has what the claim has.
LEMMA CleanStarts ==
  ASSUME IInv, NEW t \in Controllers, NEW x \in {"nodes", "cleanup", "gone"},
         Goto(t, [Idle EXCEPT !.pc = x, !.seen = claim, !.alloc = claim.alloc]),
         claim.phase = "deleting", t \in claim.finalizers, claim.alloc.account # None,
         x \in {"nodes", "gone"} => t = "alloc",
         t = "core" \/ x = "gone" => claim.providerID # None,
         UNCHANGED <<now, claim, reservation, node, pools, workers, requests, account, faults>>
  PROVE  IInv'
  <1>1. claim \in NodeClaim /\ claim.alloc \in Allocation /\ x \in FreePCs /\ x \in CleanPCs
        /\ node \in Node /\ faults \in Nat /\ x \notin LockedPCs
    BY DEF IInv, TypeOK, NodeClaim, FreePCs, CleanPCs, LockedPCs, ReservedPCs
  <1>2. [Idle EXCEPT !.pc = x, !.seen = claim, !.alloc = claim.alloc] \in Thread
        /\ [Idle EXCEPT !.pc = x, !.seen = claim, !.alloc = claim.alloc].pc = x
        /\ [Idle EXCEPT !.pc = x, !.seen = claim, !.alloc = claim.alloc].seen = claim
        /\ [Idle EXCEPT !.pc = x, !.seen = claim, !.alloc = claim.alloc].alloc = claim.alloc
    BY <1>1, Types DEF Idle, Thread
  <1>3. Moves(t) /\ threads'[t].pc = x /\ threads'[t].seen = claim /\ threads'[t].alloc = claim.alloc
    BY <1>1, <1>2, Moving DEF IInv
  <1>4. Cleans(t)'
    BY <1>3 DEF Cleans, Moves, Below
  <1>5. View(t)'
    BY <1>3, <1>4 DEF View, Idles, Copied, Looked, Creates, core, ReservedPCs, CleanPCs, CreatePCs
  <1> QED BY <1>1, <1>3, <1>5, ReadInv DEF CreatePCs, IInv, Identities, Known, KnownWorker

LEMMA CleanStartInv ==
  ASSUME IInv, CleanRead \/ CoreDelete
  PROVE  IInv'
  <1>1. CASE CleanRead
    <2>1. claim.alloc.account # None
      BY <1>1 DEF CleanRead, IInv, ClaimState
    <2> QED BY <1>1, <2>1, CleanStarts DEF CleanRead, cloudVars, Controllers
  <1>2. CASE CoreDelete
    <2>1. claim.alloc.account # None
      BY <1>2 DEF CoreDelete, IInv, Identities, Whole
    <2> QED BY <1>2, <2>1, CleanStarts DEF CoreDelete, cloudVars, Controllers
  <1> QED BY <1>1, <1>2

\* A step that is not an empty lookup.
LEMMA NotLooked ==
  ASSUME IInv, NEW t \in Controllers, NEW d, NEW x, x \notin {"decide", "judge"}, NEW a, NEW r,
         Goto(t, d), Follows(d, threads[t], x, a, r)
  PROVE  Looked(t)'
  BY DEF IInv, TypeOK, Goto, Follows, Looked

\* A cleanup goes on to step x with what it has.
LEMMA CleanSteps ==
  ASSUME IInv, NEW t \in Controllers, NEW x \in CleanPCs \ {"release", "judge"},
         Goto(t, [threads[t] EXCEPT !.pc = x]),
         threads[t].pc \in CleanPCs,
         threads[t].pc \in LockedPCs \/ lockPool(t) \/ x \notin LockedPCs,
         x \in ReservedPCs => threads[t].pc \in ReservedPCs,
         x \in {"nodes", "gone", "goneWorker", "goneFree"} => t = "alloc",
         x \in {"gone", "goneWorker", "goneFree"} => threads[t].seen.providerID # None,
         x \in {"nodes", "cleanup", "gone", "goneWorker", "goneFree"} => threads[t].alloc = claim.alloc,
         x \in {"worker", "free", "goneWorker", "goneFree"} => Over,
         x \in {"free", "goneFree"} => ~Alive(threads[t].alloc.worker),
         x \in {"note", "list", "delete"} => threads[t].alloc.pool # None,
         UNCHANGED <<now, claim, reservation, node, pools, workers, requests, account, faults>>
  PROVE  IInv'
  <1>1. x \in LockedPCs \cup FreePCs /\ x \notin {"decide", "judge"}
    BY Kinds DEF CleanPCs
  <1>2. Follows([threads[t] EXCEPT !.pc = x], threads[t], x, threads[t].alloc, threads[t].res)
    BY <1>1, Cleaning, Steps
  <1>3. Looked(t)'
    BY <1>1, <1>2, NotLooked
  <1>4. Below(threads[t].alloc, threads[t].alloc)
    BY DEF Below
  <1> QED BY <1>2, <1>3, <1>4, Cleaning, CleanReads

\* The Nodes of the claim are gone, or one is deleted first.
LEMMA CleanNodesInv ==
  ASSUME IInv, CleanNodes
  PROVE  IInv'
  <1>1. /\ "alloc" \in Controllers /\ threads["alloc"].pc = "nodes"
        /\ threads["alloc"].pc \in CleanPCs
        /\ UNCHANGED <<now, claim, reservation, pools, workers, requests, account, faults>>
    BY DEF CleanNodes, cloudVars, Controllers, CleanPCs
  <1>2. CASE /\ node' = [node EXCEPT !.state = IF @ = "managed" THEN "terminating" ELSE @]
             /\ Return("alloc")
    <2>1. node \in Node /\ faults \in Nat
      BY DEF IInv, TypeOK
    <2>2. node' \in Node
      BY <1>2, <2>1 DEF Node
    <2> QED BY <1>1, <1>2, <2>1, <2>2, ReturnInv
  <1>3. CASE Goto("alloc", [threads["alloc"] EXCEPT !.pc = "cleanup"]) /\ UNCHANGED node
    <2>1. /\ "cleanup" \in CleanPCs \ {"release", "judge"} /\ "cleanup" \notin LockedPCs
          /\ "cleanup" \notin ReservedPCs
      BY DEF CleanPCs, LockedPCs, ReservedPCs
    <2>2. threads["alloc"].alloc = claim.alloc
      BY <1>1, Cleaning DEF Cleans
    <2> QED BY <1>1, <1>3, <2>1, <2>2, CleanSteps
  <1> QED BY <1>2, <1>3 DEF CleanNodes

\* With the credentials of the birth account an empty list means that no pool exists.
LEMMA NoneVisible ==
  ASSUME IInv, NEW t \in Controllers, threads[t].pc \in CleanPCs,
         validateTarget(threads[t].alloc), Visible = {}
  PROVE  \A p \in PoolIDs : ~Exists(p)
  BY Cleaning DEF IInv, ClaimState, Visible, validateTarget, Below

\* The pool is looked up by its name.
LEMMA CleanLookInv ==
  ASSUME IInv, NEW t \in Controllers, CleanLook(t)
  PROVE  IInv'
  <1>1. /\ threads[t].pc = "look" /\ threads[t].pc \in CleanPCs /\ threads[t].pc \in ReservedPCs
        /\ threads[t].pc \in LockedPCs
        /\ UNCHANGED <<now, claim, reservation, node, pools, workers, requests, account, faults>>
    BY DEF CleanLook, cloudVars, CleanPCs, LockedPCs, ReservedPCs
  <1>2. CASE Return(t)
    BY <1>1, <1>2, ReturnInv DEF IInv, TypeOK
  <1>3. CASE /\ validateTarget(threads[t].alloc) /\ Visible = {}
             /\ Goto(t, [threads[t] EXCEPT !.pc = "judge", !.since = now])
    <2> DEFINE d == [threads[t] EXCEPT !.pc = "judge", !.since = now]
    <2>1. "judge" \in CleanPCs \ {"release"} /\ "judge" \in LockedPCs
      BY DEF CleanPCs, LockedPCs, ReservedPCs
    <2>2. Follows(d, threads[t], "judge", threads[t].alloc, threads[t].res) /\ d.since = now
      BY <1>1, <2>1, Cleaning DEF Thread, Follows
    <2>3. /\ threads'[t].pc = "judge" /\ threads'[t].alloc = threads[t].alloc
          /\ threads'[t].since = now /\ Moves(t)
      BY <1>1, <1>3, <2>2, Moving DEF Follows, IInv, TypeOK
    <2> HIDE DEF d
    <2>4. Looked(t)'
      <3>1. MaxLatency \in Nat /\ MaxLookup \in Nat /\ now \in Nat
        BY AllocationAssumption DEF IInv, TypeOK
      <3>2. core.pc # "send"
        <4>1. "send" \in LockedPCs /\ lockPool(t)
          BY <1>1, Cleaning, InProgress DEF LockedPCs, ReservedPCs
        <4> QED BY <1>1, <4>1 DEF lockPool, core, Controllers
      <3>3. CASE requests = {}
        <4>1. Quiet'
          BY <1>1, <1>3, <2>3, <3>2, <3>3, NoneVisible DEF Quiet, Exists, core, Moves, Controllers
        <4> QED BY SMTT(90), <1>1, <2>3, <3>1, <4>1 DEF Looked
      <3>4. CASE requests # {}
        <4>1. threads[t].alloc.pool = None
          BY <1>1, <3>4, Cleaning DEF IInv, Requested, Allocation
        <4> QED BY SMTT(90), <1>1, <2>3, <3>1, <3>4, <4>1 DEF Looked, IInv, Requested
      <3> QED BY <3>3, <3>4
    <2>5. Below(threads[t].alloc, threads[t].alloc)
      BY DEF Below
    <2> QED BY <1>1, <1>3, <2>1, <2>2, <2>4, <2>5, Cleaning, CleanReads DEF d
  <1>4. ASSUME NEW p \in Visible, validatePool(p, threads[t].alloc),
               Goto(t, [threads[t] EXCEPT !.pc = "note", !.alloc.pool = p])
        PROVE  IInv'
    <2>1. p \in PoolIDs /\ p # None /\ Known(p)
      BY <1>4, AllocationAssumption DEF Visible, Known
    <2>2. "note" \in CleanPCs \ {"release"} /\ "note" \in LockedPCs \cup FreePCs
      BY DEF CleanPCs, LockedPCs, ReservedPCs
    <2>3. PICK a \in Allocation :
            /\ a.account = threads[t].alloc.account /\ a.pool = p /\ a.worker = threads[t].alloc.worker
            /\ Follows([threads[t] EXCEPT !.pc = "note", !.alloc.pool = p],
                       threads[t], "note", a, threads[t].res)
      BY <1>1, <2>1, <2>2, Cleaning, LearnsPool
    <2>4. Below(threads[t].alloc, a)
      BY <1>4, <2>3 DEF Below, validatePool
    <2>5. Whole(a)
      <3>1. a.account # None
        BY <1>1, <2>3, Cleaning DEF Cleans, Below
      <3> QED BY <2>1, <2>3, <3>1 DEF Whole
    <2>6. Looked(t)'
      BY <1>4, <2>3, NotLooked
    <2> QED BY <1>1, <1>4, <2>1, <2>2, <2>3, <2>4, <2>5, <2>6, Cleaning, CleanReads
  <1> QED BY <1>2, <1>3, <1>4 DEF CleanLook

\* No Create is under way beside a cleanup that holds the lock.
LEMMA CleansAlone ==
  ASSUME IInv, NEW t \in Controllers, threads[t].pc \in CleanPCs, lockPool(t)
  PROVE  core.pc \notin CreatePCs
  BY Kinds DEF lockPool, core, Controllers

\* The empty lookup is judged, and the recorded worker looked up.
LEMMA CleanJudgeInv ==
  ASSUME Timely, IInv, NEW t \in Controllers, CleanJudge(t)
  PROVE  IInv'
  <1>1. /\ threads[t].pc = "judge" /\ threads[t].pc \in CleanPCs /\ threads[t].pc \in ReservedPCs
        /\ threads[t].pc \in LockedPCs /\ "worker" \in CleanPCs
        /\ UNCHANGED <<now, claim, reservation, node, pools, workers, requests, account, faults>>
    BY DEF CleanJudge, cloudVars, CleanPCs, LockedPCs, ReservedPCs
  <1>2. CASE Return(t)
    BY <1>1, <1>2, ReturnInv DEF IInv, TypeOK
  <1>3. CASE /\ ~(creationUncertain(threads[t].res) /\ threads[t].alloc.pool = None)
             /\ Goto(t, [threads[t] EXCEPT !.pc = "worker"])
    <2>1. Quiet
      BY <1>1, <1>3, LookedRight
    <2>2. Over
      BY <1>1, <2>1, Cleaning, InProgress, CleansAlone DEF Over
    <2> QED BY <1>1, <1>3, <2>2, CleanSteps
  <1> QED BY <1>2, <1>3 DEF CleanJudge

LEMMA CleanWorkerInv ==
  ASSUME IInv, NEW t \in Controllers, CleanWorker(t)
  PROVE  IInv'
  <1>1. /\ threads[t].pc = "worker" /\ threads[t].pc \in CleanPCs /\ threads[t].pc \in ReservedPCs
        /\ threads[t].pc \in LockedPCs /\ "free" \in CleanPCs
        /\ UNCHANGED <<now, claim, reservation, node, pools, workers, requests, account, faults>>
    BY DEF CleanWorker, cloudVars, CleanPCs, LockedPCs, ReservedPCs
  <1>2. CASE Return(t)
    BY <1>1, <1>2, ReturnInv DEF IInv, TypeOK
  <1>3. CASE ~Alive(threads[t].alloc.worker) /\ Goto(t, [threads[t] EXCEPT !.pc = "free"])
    <2>1. Over
      BY <1>1, Cleaning DEF Cleans
    <2> QED BY <1>1, <1>3, <2>1, CleanSteps
  <1> QED BY <1>2, <1>3 DEF CleanWorker

LEMMA CleanListInv ==
  ASSUME IInv, NEW t \in Controllers, CleanList(t)
  PROVE  IInv'
  <1>1. /\ threads[t].pc = "list" /\ threads[t].pc \in CleanPCs /\ threads[t].pc \in ReservedPCs
        /\ threads[t].pc \in LockedPCs /\ "delete" \in CleanPCs
        /\ UNCHANGED <<now, claim, reservation, node, pools, workers, requests, account, faults>>
    BY DEF CleanList, cloudVars, CleanPCs, LockedPCs, ReservedPCs
  <1>2. CASE Return(t)
    BY <1>1, <1>2, ReturnInv DEF IInv, TypeOK
  <1>3. CASE Goto(t, [threads[t] EXCEPT !.pc = "delete"])
    <2>1. threads[t].alloc.pool # None
      BY <1>1, Cleaning DEF Cleans
    <2> QED BY <1>1, <1>3, <2>1, CleanSteps
  <1> QED BY <1>2, <1>3 DEF CleanList

\* ConfirmGone sees neither the pool nor the worker.
LEMMA GoneFindInv ==
  ASSUME IInv, GoneFind
  PROVE  IInv'
  <1> DEFINE t == "alloc"
  <1>1. /\ t \in Controllers /\ threads[t].pc = "gone" /\ threads[t].pc \in CleanPCs /\ lockPool(t)
        /\ "goneWorker" \in CleanPCs /\ "goneWorker" \notin ReservedPCs
        /\ UNCHANGED <<now, claim, reservation, node, pools, workers, requests, account, faults>>
    BY DEF GoneFind, cloudVars, CleanPCs, ReservedPCs, Controllers
  <1>2. CASE Return(t)
    BY <1>1, <1>2, ReturnInv DEF IInv, TypeOK
  <1>3. CASE /\ validateTarget(threads[t].alloc) /\ Visible = {}
             /\ Goto(t, [threads[t] EXCEPT !.pc = "goneWorker"])
    <2>1. threads[t].seen.providerID # None /\ threads[t].alloc = claim.alloc
      BY <1>1, Cleaning DEF Cleans
    <2>2. claim.alloc.pool # None
      BY SMTT(90), <1>1, <2>1, Cleaning DEF Cleans, IInv, ClaimState, Identities, Whole
    <2>3. requests = {} /\ core.pc # "send"
      <3>1. Known(claim.alloc.pool) /\ claim.alloc.pool \in PoolIDs \cup {None}
        BY DEF Known, IInv, TypeOK, NodeClaim, Allocation
      <3> QED BY <2>2, <3>1, KnownSettles
    <2>4. Over
      BY <1>1, <1>3, <2>3, Cleaning, CleansAlone, NoneVisible DEF Over, Quiet
    <2> QED BY SMTT(90), <1>1, <1>3, <2>1, <2>4, CleanSteps
  <1> QED BY <1>2, <1>3 DEF GoneFind

LEMMA GoneWorkerInv ==
  ASSUME IInv, GoneWorker
  PROVE  IInv'
  <1> DEFINE t == "alloc"
  <1>1. /\ t \in Controllers /\ threads[t].pc = "goneWorker" /\ threads[t].pc \in CleanPCs
        /\ threads[t].pc \in LockedPCs /\ "goneFree" \in CleanPCs /\ "goneFree" \notin ReservedPCs
        /\ UNCHANGED <<now, claim, reservation, node, pools, workers, requests, account, faults>>
    BY DEF GoneWorker, cloudVars, CleanPCs, LockedPCs, ReservedPCs, Controllers
  <1>2. CASE Return(t)
    BY <1>1, <1>2, ReturnInv DEF IInv, TypeOK
  <1>3. CASE ~Alive(threads[t].alloc.worker) /\ Goto(t, [threads[t] EXCEPT !.pc = "goneFree"])
    <2>1. /\ threads[t].seen.providerID # None /\ threads[t].alloc = claim.alloc /\ Over
      BY <1>1, Cleaning DEF Cleans
    <2> QED BY SMTT(90), <1>1, <1>3, <2>1, CleanSteps
  <1> QED BY <1>2, <1>3 DEF GoneWorker

-----------------------------------------------------------------------------
(* Steps of IKS, the kubelet and the process that only take away *)

\* Calls return, requests and pools go, workers come or go.
Fades ==
    /\ UNCHANGED <<now, claim, reservation>>
    /\ threads' \in [Controllers -> Thread]
    /\ \A t \in Controllers : threads'[t] \in {threads[t], Idle}
    /\ account' = account \/ core' = Idle
    /\ requests' \subseteq requests
    /\ requests' # requests => core'.pc # "sent"
    /\ \A p \in PoolIDs : Exists(p)' => Exists(p) /\ pools'[p].account = pools[p].account
    /\ \A w \in WorkerIDs : workers[w].status # "unborn" =>
          /\ workers'[w].status # "unborn"
          /\ workers'[w].status = "alive" => workers[w].status = "alive"

LEMMA FadesInv ==
  ASSUME IInv, Fades, TypeOK'
  PROVE  IInv'
  <1>1. core' \in {core, Idle} /\ (core'.pc \in CreatePCs => core' = core)
    BY Types DEF Fades, core, Controllers, CreatePCs
  <1>2. Quiet => Quiet'
    BY <1>1, Types DEF Quiet, Fades
  <1>3. Over => Over'
    BY <1>1, <1>2 DEF Over, Fades
  <1>4. /\ \A p \in PoolIDs : Known(p)' => Known(p)
        /\ \A w \in WorkerIDs : KnownWorker(w)' => KnownWorker(w)
    BY Types, AllocationAssumption DEF Known, KnownWorker, Fades
  <1>5. Identities'
    BY <1>4, Types DEF IInv, Identities, Fades, Whole
  <1>6. \A w \in WorkerIDs : KnownWorker(w) /\ ~Alive(w) => ~Alive(w)'
    BY DEF IInv, Identities, Alive, Fades
  <1>7. Mutex'
    BY Types DEF IInv, Mutex, Fades, LockedPCs, ReservedPCs
  <1>8. ClaimState'
    BY <1>2 DEF IInv, ClaimState, Fades
  <1>9. claim.providerID \in WorkerIDs \cup {None} /\ KnownWorker(claim.alloc.worker)
    BY DEF IInv, TypeOK, NodeClaim, KnownWorker
  <1>10. Released'
    <2>1. claim.phase = "gone" => ~Alive(claim.providerID)'
      <3>1. CASE claim.providerID = None
        BY <3>1 DEF Alive, Fades
      <3>2. CASE claim.providerID # None
        BY <1>6, <1>9, <3>2 DEF IInv, ClaimState, Released, Fades
      <3> QED BY <3>1, <3>2
    <2>2. ASSUME NEW t \in Controllers, threads'[t].pc = "release" PROVE threads'[t] = threads[t]
      BY <2>2, Types DEF Fades
    <2>3. "alloc" \in Controllers
      BY DEF Controllers
    <2>4. "alloc" \notin claim.finalizers => Quiet' /\ core'.pc \notin CreatePCs
                                            /\ threads'["alloc"].pc = "idle"
      BY <1>1, <1>2, <2>3, Types DEF IInv, Released, Fades
    <2>5. "core" \notin claim.finalizers => core'.pc = "idle"
      BY <1>1, Types DEF IInv, Released
    <2> QED BY <2>1, <2>2, <2>4, <2>5 DEF IInv, Released, Fades
  <1>11. Requested'
    <2>1. core'.pc = "send" => core' = core
      BY <1>1, Types
    <2> QED BY <1>4, <2>1 DEF IInv, Requested, Fades
  <1>12. ASSUME NEW t \in Controllers PROVE View(t)'
    <2>1. CASE threads'[t] = Idle
      BY <2>1, Types DEF View, Idles, Copied, Looked, Cleans, Creates, core, ReservedPCs,
         CleanPCs, CreatePCs
    <2>2. CASE threads'[t] = threads[t]
      <3>1. View(t) /\ KnownWorker(threads[t].alloc.worker) /\ threads[t].alloc \in Allocation
        BY OwnAlloc DEF IInv
      <3>2. ~Alive(threads[t].alloc.worker) => ~Alive(threads[t].alloc.worker)'
        BY <1>6, <2>2, <3>1 DEF Alive, Allocation
      <3>3. Idles(t)' /\ Copied(t)'
        BY <2>2, <3>1 DEF View, Idles, Copied, Fades
      <3>4. Looked(t)'
        BY <1>2, <2>2, <3>1 DEF View, Looked, Fades
      <3>5. Cleans(t)'
        BY <1>3, <2>2, <3>1, <3>2 DEF View, Cleans, Fades
      <3>6. t = "core" => Creates'
        <4>1. SUFFICES ASSUME t = "core" PROVE Creates'
          OBVIOUS
        <4>2. core' = core /\ Creates
          BY <2>2, <3>1, <4>1 DEF core, View
        <4>3. core.pc \in CreatePCs => account' = account
          BY <4>2, Types DEF Fades, CreatePCs
        <4> QED BY <1>2, <4>2, <4>3 DEF Creates, Fades
      <3> QED BY <3>3, <3>4, <3>5, <3>6 DEF View
    <2> QED BY <2>1, <2>2 DEF Fades
  <1> QED BY <1>5, <1>7, <1>8, <1>10, <1>11, <1>12 DEF IInv

\* What has returned, or is where it was.
LEMMA Returning ==
  ASSUME IInv, NEW t \in Controllers, Return(t)
  PROVE  /\ threads' \in [Controllers -> Thread] /\ threads'[t] = Idle
         /\ \A u \in Controllers : threads'[u] \in {threads[u], Idle}
  BY Types DEF IInv, TypeOK, Return, Goto

\* The pool is deleted, and the call returns.
LEMMA CleanDeleteInv ==
  ASSUME IInv, NEW t \in Controllers, CleanDelete(t)
  PROVE  IInv'
  <1> DEFINE p == threads[t].alloc.pool
  <1>1. p \in PoolIDs /\ pools \in [PoolIDs -> Pool]
    <2>1. threads[t].pc \in CleanPCs /\ threads[t].pc = "delete"
      BY DEF CleanDelete, CleanPCs
    <2> QED BY <2>1, Cleaning DEF Cleans, Allocation, IInv, TypeOK
  <1>2. /\ pools' \in [PoolIDs -> Pool] /\ \A q \in PoolIDs : pools'[q].account = pools[q].account
        /\ \A q \in PoolIDs : Exists(q)' => Exists(q)
    <2>1. pools'[p] = [pools[p] EXCEPT !.status = IF p \in Visible THEN "deleting" ELSE @]
          /\ pools[p] \in Pool /\ \A q \in PoolIDs \ {p} : pools'[q] = pools[q]
      BY <1>1 DEF CleanDelete
    <2>2. pools'[p] \in Pool /\ pools'[p].account = pools[p].account
          /\ pools'[p].status = IF p \in Visible THEN "deleting" ELSE pools[p].status
      BY <2>1 DEF Pool
    <2>3. pools' \in [PoolIDs -> Pool]
      BY <1>1, <2>2 DEF CleanDelete
    <2> QED BY <2>1, <2>2, <2>3 DEF Exists, Visible
  <1> HIDE DEF p
  <1>3. TypeOK'
    BY <1>2, Returning DEF CleanDelete, IInv, TypeOK
  <1>4. Fades
    BY <1>2, Returning DEF CleanDelete, Fades
  <1> QED BY <1>3, <1>4, FadesInv

\* A call fails or its reply is lost.
LEMMA FailInv ==
  ASSUME IInv, CreateTimeout \/ \E t \in Controllers : CallFails(t)
  PROVE  IInv'
  <1>1. PICK t \in Controllers : /\ Return(t) /\ Fault
           /\ UNCHANGED <<now, claim, reservation, node, pools, workers, requests, account>>
    BY DEF CreateTimeout, CallFails, cloudVars, Controllers
  <1>2. faults' \in Nat /\ node' \in Node
    BY SMTT(90), <1>1 DEF IInv, TypeOK, Fault
  <1> QED BY <1>1, <1>2, ReturnInv

\* The process is replaced, perhaps with other credentials.
LEMMA RestartInv ==
  ASSUME IInv, Restart
  PROVE  IInv'
  <1>1. threads' \in [Controllers -> Thread] /\ \A t \in Controllers : threads'[t] = Idle
    BY Types DEF Restart
  <1>2. TypeOK'
    BY SMTT(90), <1>1 DEF Restart, IInv, TypeOK, Fault, cloudVars
  <1>3. Fades
    BY <1>1 DEF Restart, Fades, cloudVars, core, Controllers, Exists
  <1> QED BY <1>2, <1>3, FadesInv

\* A pool goes.
LEMMA PoolGoneInv ==
  ASSUME IInv, NEW p \in PoolIDs, PoolGone(p)
  PROVE  IInv'
  <1>1. pools \in [PoolIDs -> Pool] /\ pools[p] \in Pool
    BY DEF IInv, TypeOK
  <1>2. /\ pools'[p] \in Pool /\ pools'[p].status = "gone" /\ pools' \in [PoolIDs -> Pool]
        /\ \A q \in PoolIDs \ {p} : pools'[q] = pools[q]
    BY <1>1 DEF PoolGone, Pool
  <1>3. TypeOK'
    BY SMTT(90), <1>2 DEF PoolGone, IInv, TypeOK, Fault, NoFault
  <1>4. Fades
    BY <1>2, <1>3 DEF PoolGone, Fades, Exists, TypeOK
  <1> QED BY <1>3, <1>4, FadesInv

\* A worker comes or goes.
LEMMA WorkerInv ==
  ASSUME IInv, NEW w \in WorkerIDs, WorkerGone(w) \/ \E p \in PoolIDs : WorkerStart(w, p)
  PROVE  IInv'
  <1>1. workers \in [WorkerIDs -> Worker] /\ workers[w] \in Worker
    BY DEF IInv, TypeOK
  <1>2. /\ workers'[w] \in Worker /\ workers' \in [WorkerIDs -> Worker]
        /\ (workers[w].status = "alive" /\ workers'[w].status = "gone") \/ workers[w].status = "unborn"
        /\ \A v \in WorkerIDs \ {w} : workers'[v] = workers[v]
    BY SMTT(90), <1>1 DEF WorkerGone, WorkerStart, Worker
  <1>3. /\ TypeOK' /\ UNCHANGED <<now, claim, reservation, node, pools, requests, account, threads>>
    BY SMTT(90), <1>2 DEF WorkerGone, WorkerStart, IInv, TypeOK, Fault, NoFault
  <1>4. Fades
    BY <1>2, <1>3 DEF Fades, Exists, TypeOK
  <1> QED BY <1>3, <1>4, FadesInv

\* The Node comes, is managed, is drained or goes.
LEMMA NodeInv ==
  ASSUME IInv, CoreRegister \/ NodeGone \/ CoreDrain \/ \E w \in WorkerIDs : NodeRegister(w)
  PROVE  IInv'
  <1>1. node \in Node
    BY DEF IInv, TypeOK
  <1>2. /\ node' \in Node /\ faults' \in Nat
        /\ UNCHANGED <<now, claim, reservation, pools, workers, requests, account, threads>>
    BY SMTT(90), <1>1 DEF CoreRegister, NodeGone, CoreDrain, NodeRegister, cloudVars, Node, Fault, NoFault,
       IInv, TypeOK
  <1>3. TypeOK'
    BY <1>2 DEF IInv, TypeOK
  <1>4. Fades
    BY <1>2, <1>3 DEF Fades, Exists, TypeOK
  <1> QED BY <1>3, <1>4, FadesInv

-----------------------------------------------------------------------------
(* The request *)

\* While a request is in flight or about to leave.
LEMMA Outstanding ==
  ASSUME IInv, requests # {} \/ core.pc = "send"
  PROVE  /\ ~Quiet /\ ~Over /\ \A p \in PoolIDs : ~Known(p)
         /\ "alloc" \in claim.finalizers /\ claim.phase # "gone"
         /\ reservation.pending /\ reservation.phase \in {"creating", "active", "deleting"}
         /\ \A t \in Controllers : threads[t].pc # "release"
         /\ claim.alloc.pool = None /\ reservation.alloc.pool = None
         /\ \A t \in Controllers : threads[t].alloc.pool = None
  <1>1. ~Quiet /\ ~Over
    BY DEF Quiet, Over
  <1>2. \A p \in PoolIDs : ~Known(p)
    BY DEF IInv, Requested
  <1>3. "alloc" \in claim.finalizers /\ claim.phase # "gone"
        /\ reservation.pending /\ reservation.phase \in {"creating", "active", "deleting"}
    BY <1>1 DEF IInv, Released, ClaimState, Requested
  <1>4. \A t \in Controllers : threads[t].pc # "release"
    BY <1>1 DEF IInv, View, Cleans, CleanPCs
  <1>5. claim.alloc.pool = None /\ reservation.alloc.pool = None
    BY <1>2 DEF Known, IInv, TypeOK, NodeClaim, Reservation, Allocation
  <1>6. \A t \in Controllers : threads[t].alloc.pool = None
    BY <1>2, OwnAlloc DEF Known, Allocation
  <1> QED BY <1>1, <1>2, <1>3, <1>4, <1>5, <1>6

\* What the calls know does not depend on the request, but for the one that sent it.
LEMMA OutstandingView ==
  ASSUME IInv, requests # {} \/ core.pc = "send", NEW t \in Controllers,
         threads'[t] = threads[t], t = "core" => core.pc \notin {"send", "sent"},
         UNCHANGED <<now, claim, reservation, workers, account>>
  PROVE  View(t)'
  <1>1. View(t) /\ ~Quiet /\ ~Over
    BY Outstanding DEF IInv
  <1>2. Idles(t)' /\ Copied(t)' /\ Looked(t)' /\ Cleans(t)'
    BY <1>1 DEF View, Idles, Copied, Looked, Cleans, Alive
  <1>3. t = "core" => Creates'
    <2>1. SUFFICES ASSUME t = "core" PROVE Creates'
      OBVIOUS
    <2>2. core' = core /\ Creates
      BY <1>1, <2>1 DEF core, View
    <2> QED BY <1>1, <2>1, <2>2 DEF Creates
  <1> QED BY <1>2, <1>3 DEF View

\* What all steps of a request leave alone.
LEMMA OutstandingInv ==
  ASSUME IInv, requests # {} \/ core.pc = "send", TypeOK',
         UNCHANGED <<now, claim, reservation, workers, account>>,
         threads'["alloc"] = threads["alloc"],
         core'.pc \in LockedPCs => core.pc \in LockedPCs, core'.pc # "release",
         core'.pc # "idle" => core.pc # "idle",
         \A p \in PoolIDs : Exists(p)' => pools'[p].account = claim.alloc.account,
         Identities', Requested', View("core")'
  PROVE  IInv'
  <1>1. "alloc" \in Controllers /\ "core" \in Controllers
    BY DEF Controllers
  <1>2. View("alloc")'
    BY <1>1, OutstandingView
  <1>3. Mutex'
    BY DEF IInv, Mutex, Controllers, core
  <1>4. ClaimState'
    BY Outstanding DEF IInv, ClaimState
  <1>5. Released'
    BY <1>1, Outstanding DEF IInv, Released, Controllers, core
  <1>6. \A t \in Controllers : View(t)'
    BY <1>2 DEF Controllers
  <1> QED BY <1>3, <1>4, <1>5, <1>6 DEF IInv

\* The request leaves.
LEMMA CreateSendInv ==
  ASSUME IInv, CreateSend
  PROVE  IInv'
  <1> DEFINE r == [account |-> core.alloc.account, started |-> core.res.started]
  <1>1. /\ core.pc = "send" /\ core.pc \in CreatePCs /\ core.pc \in LockedPCs
        /\ UNCHANGED <<now, claim, reservation, node, pools, workers, account, faults>>
        /\ "sent" \in LockedPCs \cup FreePCs
    BY DEF CreateSend, CreatePCs, LockedPCs, ReservedPCs
  <1>2. core \in Thread /\ core.res = reservation /\ core.alloc.account = claim.alloc.account
        /\ core.alloc \in Allocation /\ reservation \in Reservation
    BY <1>1, Creating DEF Below, IInv, TypeOK
  <1>3. /\ Follows(core', core, "sent", core.alloc, core.res)
        /\ threads' \in [Controllers -> Thread] /\ threads'["alloc"] = threads["alloc"]
    <2>1. Follows([core EXCEPT !.pc = "sent"], core, "sent", core.alloc, core.res)
      BY <1>1, <1>2, Steps
    <2> QED BY <2>1 DEF CreateSend, Goto, Follows, IInv, TypeOK, Controllers, core
  <1>4. requests' = {r} /\ r \in Request
        /\ r = [account |-> claim.alloc.account, started |-> reservation.started]
    BY <1>1, <1>2 DEF CreateSend, Request, Allocation, Reservation, IInv, Requested
  <1> HIDE DEF r
  <1>5. TypeOK'
    BY <1>1, <1>3, <1>4 DEF IInv, TypeOK
  <1>6. /\ \A p \in PoolIDs : Known(p)' => Known(p)
        /\ \A w \in WorkerIDs : KnownWorker(w)' => KnownWorker(w)
    BY <1>1, <1>3 DEF Known, KnownWorker, Exists, Follows, Controllers, core
  <1>7. Identities'
    BY <1>1, <1>3, <1>6 DEF IInv, Identities, Follows, Controllers, core, Whole
  <1>8. Requested'
    BY <1>1, <1>3, <1>4, <1>6, Outstanding DEF Requested, Follows, IInv
  <1>9. View("core")'
    <2>1. Copied("core")' /\ Idles("core")' /\ Looked("core")' /\ Cleans("core")'
      BY <1>1, <1>2, <1>3, Creating DEF Copied, Idles, Looked, Cleans, Follows, core, CleanPCs, Below
    <2>2. Creates'
      BY <1>1, <1>3, <1>4, Creating DEF Creates, Follows, CreatePCs, Below
    <2> QED BY <2>1, <2>2 DEF View
  <1>10. \A p \in PoolIDs : Exists(p)' => pools'[p].account = claim.alloc.account
    BY <1>1 DEF IInv, ClaimState, Exists
  <1> QED BY <1>1, <1>3, <1>5, <1>7, <1>8, <1>9, <1>10, OutstandingInv DEF Follows

\* There is one request, and Create waits for its reply if it waits at all.
LEMMA TheRequest ==
  ASSUME IInv, NEW r \in requests
  PROVE  /\ requests \ {r} = {} /\ r.account = claim.alloc.account /\ core.pc # "send"
         /\ core.pc = "sent" => Waiting(r)
  <1>1. /\ \A q \in requests : q = [account |-> claim.alloc.account, started |-> reservation.started]
        /\ core.pc # "send"
    BY DEF IInv, Requested
  <1>2. core.pc = "sent" => core.res = reservation
    BY DEF IInv, View, Copied, ReservedPCs, core, Controllers
  <1>3. r = [account |-> claim.alloc.account, started |-> reservation.started]
    BY <1>1
  <1> QED BY <1>1, <1>2, <1>3 DEF Waiting

\* The request is lost, or rejected and nobody waits for the reply.
LEMMA LostInv ==
  ASSUME IInv, NEW r \in requests, CloudDrop(r) \/ (CloudReject(r) /\ ~Waiting(r))
  PROVE  IInv'
  <1>1. /\ requests' = requests \ {r} /\ faults' \in Nat
        /\ UNCHANGED <<now, claim, reservation, node, pools, workers, account>>
    BY SMTT(90) DEF CloudDrop, CloudReject, Fault, IInv, TypeOK
  <1>2. /\ threads' \in [Controllers -> Thread] /\ core'.pc # "sent"
        /\ \A t \in Controllers : threads'[t] \in {threads[t], Idle}
    <2>1. CASE Return("core")
      BY <2>1, Returning, Types DEF core, Controllers
    <2>2. CASE UNCHANGED threads /\ ~Waiting(r)
      BY <2>2, TheRequest DEF core, IInv, TypeOK
    <2> QED BY <2>1, <2>2 DEF CloudDrop, CloudReject
  <1>3. TypeOK'
    BY <1>1, <1>2 DEF IInv, TypeOK
  <1>4. Fades
    BY <1>1, <1>2 DEF Fades, Exists
  <1> QED BY <1>3, <1>4, FadesInv

\* The request is rejected, and Create learns of it.
LEMMA RejectedInv ==
  ASSUME IInv, NEW r \in requests, CloudReject(r), Waiting(r)
  PROVE  IInv'
  <1>1. /\ core.pc = "sent" /\ core.pc \in CreatePCs /\ core.pc \in LockedPCs
        /\ UNCHANGED <<now, claim, reservation, node, pools, workers, account, faults>>
        /\ "reject" \in LockedPCs \cup FreePCs /\ requests' = {}
    BY TheRequest DEF CloudReject, Waiting, CreatePCs, LockedPCs, ReservedPCs
  <1>2. /\ Follows(core', core, "reject", core.alloc, core.res)
        /\ threads' \in [Controllers -> Thread] /\ threads'["alloc"] = threads["alloc"]
    <2>1. core \in Thread
      BY <1>1, Creating
    <2>2. Follows([core EXCEPT !.pc = "reject"], core, "reject", core.alloc, core.res)
      BY <1>1, <2>1, Steps
    <2> QED BY <2>2 DEF CloudReject, Goto, Follows, IInv, TypeOK, Controllers, core
  <1>3. TypeOK'
    BY <1>1, <1>2 DEF IInv, TypeOK
  <1>4. /\ \A p \in PoolIDs : Known(p)' => Known(p)
        /\ \A w \in WorkerIDs : KnownWorker(w)' => KnownWorker(w)
    BY <1>1, <1>2 DEF Known, KnownWorker, Exists, Follows, Controllers, core
  <1>5. Identities'
    BY <1>1, <1>2, <1>4 DEF IInv, Identities, Follows, Controllers, core, Whole
  <1>6. Requested'
    BY <1>1, <1>2 DEF Requested, Follows
  <1>7. Quiet'
    BY <1>1, <1>2, Outstanding DEF Quiet, Known, Exists, Follows
  <1>8. View("core")'
    <2>1. Copied("core")' /\ Idles("core")' /\ Looked("core")' /\ Cleans("core")'
      BY <1>1, <1>2, Creating DEF Copied, Idles, Looked, Cleans, Follows, core, CleanPCs, Below
    <2>2. Creates'
      BY <1>1, <1>2, <1>7, Creating DEF Creates, Follows, CreatePCs, Below
    <2> QED BY <2>1, <2>2 DEF View
  <1>9. \A p \in PoolIDs : Exists(p)' => pools'[p].account = claim.alloc.account
    BY <1>1 DEF IInv, ClaimState, Exists
  <1> QED BY <1>1, <1>2, <1>3, <1>5, <1>6, <1>8, <1>9, OutstandingInv DEF Follows

\* The pool is created: it is the only one that anybody knows.
LEMMA AcceptInv ==
  ASSUME IInv, NEW r \in requests, NEW p \in PoolIDs, CloudAccept(r, p)
  PROVE  IInv'
  <1>1. /\ UNCHANGED <<now, claim, reservation, node, workers, account>> /\ requests' = {}
        /\ faults' \in Nat /\ p # None /\ r \in Request /\ core.pc # "send"
        /\ r.account = claim.alloc.account
    BY SMTT(90), TheRequest, AllocationAssumption
       DEF CloudAccept, GotoOrFail, Fault, NoFault, IInv, TypeOK
  <1>2. /\ pools' \in [PoolIDs -> Pool] /\ pools'[p].account = claim.alloc.account /\ Exists(p)'
        /\ \A q \in PoolIDs \ {p} : pools'[q] = pools[q] /\ ~Exists(q)
    <2>1. [status |-> "normal", account |-> r.account] \in Pool
      BY <1>1 DEF Pool, Request
    <2>2. pools' = [pools EXCEPT ![p] = [status |-> "normal", account |-> r.account]]
          /\ pools \in [PoolIDs -> Pool]
      BY DEF CloudAccept, IInv, TypeOK
    <2>3. \A q \in PoolIDs : ~Exists(q)
      BY Outstanding DEF Known
    <2> QED BY <1>1, <2>1, <2>2, <2>3 DEF Exists
  <1>3. /\ threads' \in [Controllers -> Thread] /\ threads'["alloc"] = threads["alloc"]
        /\ \/ core' = core /\ core.pc # "sent"
           \/ core' = Idle /\ core.pc = "sent"
           \/ /\ core.pc = "sent"
              /\ \E a \in Allocation :
                    /\ a.account = core.alloc.account /\ a.pool = p /\ a.worker = core.alloc.worker
                    /\ Follows(core', core, "activate", a, core.res)
    <2>1. CASE UNCHANGED threads /\ ~Waiting(r)
      BY <2>1, TheRequest DEF core, IInv, TypeOK
    <2>2. CASE Return("core") /\ Waiting(r)
      BY <2>2, Types DEF Return, Goto, Waiting, core, IInv, TypeOK, Controllers
    <2>3. CASE Goto("core", [core EXCEPT !.pc = "activate", !.alloc.pool = p]) /\ Waiting(r)
      <3>1. core.pc = "sent" /\ core.pc \in CreatePCs /\ "activate" \in LockedPCs \cup FreePCs
        BY <2>3 DEF Waiting, CreatePCs, LockedPCs, ReservedPCs
      <3>2. \E a \in Allocation :
               /\ a.account = core.alloc.account /\ a.pool = p /\ a.worker = core.alloc.worker
               /\ Follows([core EXCEPT !.pc = "activate", !.alloc.pool = p], core, "activate", a, core.res)
        BY <3>1, Creating, LearnsPool
      <3> QED BY <2>3, <3>1, <3>2 DEF Goto, Follows, IInv, TypeOK, Controllers, core
    <2> QED BY <2>1, <2>2, <2>3 DEF CloudAccept, GotoOrFail
  <1>4. TypeOK'
    BY <1>1, <1>2, <1>3 DEF IInv, TypeOK
  <1>5. /\ core'.pc \in {core.pc, "idle", "activate"} /\ core'.alloc.pool \in {None, p}
        /\ core'.alloc.worker \in {None, core.alloc.worker}
    BY <1>3, Types, Outstanding DEF Follows, core, Controllers
  <1>6. \A q \in PoolIDs : Known(q)' => q = p
    BY SMTT(90), <1>1, <1>2, <1>3, <1>5, Outstanding, AllocationAssumption
       DEF Known, Exists, core, Controllers
  <1>7. \A w \in WorkerIDs : KnownWorker(w)' => KnownWorker(w)
    BY <1>1, <1>3, <1>5, AllocationAssumption DEF KnownWorker, core, Controllers
  <1>8. Whole(core'.alloc)
    <2>1. core.pc = "sent" => core.alloc.account # None /\ core.alloc.worker = None
      <3>1. SUFFICES ASSUME core.pc = "sent" PROVE core.alloc.account # None /\ core.alloc.worker = None
        OBVIOUS
      <3>2. core.pc \in CreatePCs
        BY <3>1 DEF CreatePCs
      <3> QED BY <3>2, Creating, Outstanding DEF Below, Whole
    <2>2. Whole(core.alloc)
      BY DEF IInv, Identities, core, Controllers
    <2> QED BY <1>1, <1>3, <2>1, <2>2, Types DEF Whole, Follows
  <1>9. Identities'
    BY <1>1, <1>3, <1>6, <1>7, <1>8 DEF IInv, Identities, Controllers, core, Whole
  <1>10. Requested'
    BY <1>1, <1>3, Types DEF Requested, Follows
  <1>11. View("core")'
    <2>1. CASE core' = core /\ core.pc # "sent"
      BY <1>1, <2>1, OutstandingView DEF core, Controllers
    <2>2. CASE core' = Idle
      BY <2>2, Types DEF View, Idles, Copied, Looked, Cleans, Creates, core, ReservedPCs,
         CleanPCs, CreatePCs
    <2>3. ASSUME core.pc = "sent", NEW a \in Allocation,
                 a.account = core.alloc.account, a.pool = p, a.worker = core.alloc.worker,
                 Follows(core', core, "activate", a, core.res)
          PROVE  View("core")'
      <3>1. core.pc \in CreatePCs
        BY <2>3 DEF CreatePCs
      <3>2. Below(core.alloc, a)
        BY <2>3, <3>1, Creating, Outstanding DEF Below
      <3>3. \A b : Below(b, core.alloc) => Below(b, a)
        BY <2>3, <3>1, <3>2, Creating, Outstanding DEF Below
      <3>4. Copied("core")' /\ Idles("core")' /\ Looked("core")' /\ Cleans("core")'
        BY <1>1, <2>3, <3>1, <3>3, Creating
           DEF Copied, Idles, Looked, Cleans, Follows, core, CleanPCs, Below
      <3>5. Creates'
        BY <1>1, <2>3, <3>1, <3>3, Creating DEF Creates, Follows, CreatePCs, Below
      <3> QED BY <3>4, <3>5 DEF View
    <2> QED BY <1>3, <2>1, <2>2, <2>3
  <1>12. core'.pc # "release" /\ (core'.pc \in LockedPCs => core.pc \in LockedPCs)
         /\ (core'.pc # "idle" => core.pc # "idle")
    BY <1>3, Outstanding, Types DEF Follows, LockedPCs, ReservedPCs, core, Controllers
  <1>13. \A q \in PoolIDs : Exists(q)' => pools'[q].account = claim.alloc.account
    BY <1>2 DEF Exists
  <1> QED BY <1>1, <1>3, <1>4, <1>9, <1>10, <1>11, <1>12, <1>13, OutstandingInv

-----------------------------------------------------------------------------
(* The steps that write the claim, and time *)

\* The Allocation and the finalizer are written to a claim that is not deleted.
LEMMA CheckpointWrites ==
  ASSUME IInv, CreateCheckpoint, claim.phase = "live"
  PROVE  IInv'
  <1> DEFINE d == [core EXCEPT !.pc = AfterCheckpoint[core.pc]]
  <1>1. /\ core.pc \in {"start", "record", "confirm"} /\ "core" \in Controllers
        /\ core = threads["core"] /\ core.pc # "idle"
        /\ claim' = [claim EXCEPT !.alloc = core.alloc, !.finalizers = @ \cup {"alloc"}]
        /\ GotoOrFail("core", d)
        /\ UNCHANGED <<now, reservation, node, pools, workers, requests, account>>
    BY DEF CreateCheckpoint, cloudVars, Controllers, core
  <1>2. /\ core \in Thread /\ core.alloc \in Allocation /\ Whole(core.alloc)
        /\ Known(core.alloc.pool) /\ KnownWorker(core.alloc.worker) /\ claim \in NodeClaim
        /\ Creates /\ Copied("core") /\ claim.alloc \in Allocation
    BY <1>1, OwnAlloc DEF IInv, TypeOK, View, NodeClaim
  <1>3. /\ claim' \in NodeClaim /\ claim'.phase = "live" /\ claim'.alloc = core.alloc
        /\ claim'.finalizers = claim.finalizers \cup {"alloc"}
        /\ claim'.providerID = claim.providerID
    BY <1>1, <1>2 DEF NodeClaim, Controllers
  <1>4. /\ AfterCheckpoint[core.pc] \in {"reserve", "verify", "publish"}
        /\ AfterCheckpoint[core.pc] = "reserve" <=> core.pc = "start"
        /\ AfterCheckpoint[core.pc] = "verify" <=> core.pc = "record"
        /\ AfterCheckpoint[core.pc] = "publish" <=> core.pc = "confirm"
    BY SMTT(90), <1>1 DEF AfterCheckpoint
  <1>5. Follows(d, core, AfterCheckpoint[core.pc], core.alloc, core.res)
    <2>1. AfterCheckpoint[core.pc] \in LockedPCs \cup FreePCs
      BY <1>4 DEF LockedPCs, ReservedPCs, FreePCs
    <2> QED BY <1>2, <2>1, Steps
  <1> HIDE DEF d
  <1>6. /\ threads' \in [Controllers -> Thread] /\ threads'["alloc"] = threads["alloc"]
        /\ core' \in {d, Idle} /\ faults' \in Nat
    BY SMTT(90), <1>1, <1>5, Types DEF GotoOrFail, Return, Goto, Follows, NoFault, Fault, IInv, TypeOK,
       Controllers, core
  <1>7. threads["alloc"] = Idle /\ "core" \in claim.finalizers
    <2>1. View("alloc")
      BY DEF IInv, Controllers
    <2> QED BY <2>1 DEF View, Idles, Cleans, IInv, ClaimState
  <1>8. lockPool("core")
    <2>1. CASE core.pc = "start"
      BY <2>1 DEF CreateCheckpoint
    <2>2. CASE core.pc \in {"record", "confirm"}
      BY <1>1, <2>2, InProgress DEF LockedPCs, ReservedPCs
    <2> QED BY <1>1, <2>1, <2>2
  <1>9. /\ core.alloc.account # None
        /\ claim.providerID \in {None, core.alloc.worker}
        /\ reservation.phase # "none" => reservation.alloc.account = core.alloc.account
        /\ \A p \in PoolIDs : Exists(p) => pools[p].account = core.alloc.account
    <2>1. CASE core.pc # "start" \/ claim.alloc # NoAllocation
      <3>1. Below(claim.alloc, core.alloc) /\ core.alloc.account # None
        <4>1. CASE core.pc = "start"
          BY <1>2, <2>1, <4>1 DEF Creates, Below
        <4>2. CASE core.pc # "start"
          <5>1. core.pc \in CreatePCs
            BY <1>1, <4>2 DEF CreatePCs
          <5> QED BY <5>1, Creating DEF Below
        <4> QED BY <4>1, <4>2
      <3> QED BY <3>1 DEF Below, IInv, ClaimState
    <2>2. CASE core.pc = "start" /\ claim.alloc = NoAllocation
      <3>1. claim.providerID = None /\ "alloc" \notin claim.finalizers
        BY <2>2, Types DEF IInv, ClaimState
      <3> QED BY <1>2, <2>2, <3>1 DEF IInv, Released, Quiet, Creates
    <2> QED BY <2>1, <2>2
  <1>10. /\ core'.pc \in {"idle", "reserve", "verify", "publish"}
         /\ core'.alloc \in {NoAllocation, core.alloc}
    BY <1>4, <1>5, <1>6, Types DEF Follows
  <1>11. TypeOK'
    BY <1>1, <1>3, <1>6 DEF IInv, TypeOK
  <1>12. Mutex'
    BY <1>6, <1>7, Types DEF Mutex, LockedPCs, ReservedPCs, Controllers
  <1>13. /\ \A p \in PoolIDs : Known(p)' => Known(p)
         /\ \A w \in WorkerIDs : KnownWorker(w)' => KnownWorker(w)
    BY SMTT(90), <1>1, <1>2, <1>3, <1>6, <1>10, Types, AllocationAssumption
       DEF Known, KnownWorker, Exists, Controllers, core
  <1>14. Identities'
    BY SMTT(90), <1>1, <1>2, <1>3, <1>6, <1>10, <1>13, Types DEF IInv, Identities, Whole, Controllers, core
  <1>15. Quiet' <=> Quiet
    BY <1>1, <1>10 DEF Quiet, Exists
  <1>16. ClaimState'
    BY <1>1, <1>3, <1>7, <1>9, <1>15, Types DEF IInv, ClaimState, Exists
  <1>17. Released'
    BY <1>1, <1>3, <1>6, <1>7, <1>10, Types DEF IInv, Released, Controllers, core
  <1>18. Requested'
    <2>1. (requests # {} => claim.alloc.account = core.alloc.account) /\ core.pc # "send"
      <3>1. requests # {} => "alloc" \in claim.finalizers /\ claim.alloc # NoAllocation
        BY Outstanding, Types DEF IInv, ClaimState
      <3>2. core.pc # "start" => core.pc \in CreatePCs
        BY <1>1 DEF CreatePCs
      <3> QED BY <1>1, <1>2, <3>1, <3>2 DEF Creates, Below
    <2> QED BY <1>1, <1>3, <1>10, <1>13, <2>1 DEF IInv, Requested
  <1>19. View("core")'
    <2>1. CASE core' = Idle
      BY <2>1, Types DEF View, Idles, Copied, Looked, Cleans, Creates, core, ReservedPCs,
         CleanPCs, CreatePCs
    <2>2. CASE Follows(core', core, AfterCheckpoint[core.pc], core.alloc, core.res)
      <3>1. Idles("core")' /\ Looked("core")' /\ Cleans("core")'
        BY <1>4, <2>2 DEF Idles, Looked, Cleans, Follows, core, CleanPCs
      <3>2. Copied("core")'
        BY <1>1, <1>2, <1>4, <2>2 DEF Copied, Follows, core, ReservedPCs, Below
      <3>3. core.pc # "start" => core.alloc.pool # None /\ core.alloc.account = account
        BY <1>1, <1>2 DEF Creates, CreatePCs
      <3>4. Creates'
        BY <1>1, <1>2, <1>3, <1>4, <2>2, <3>3 DEF Creates, Follows, CreatePCs, Below
      <3> QED BY <3>1, <3>2, <3>4 DEF View
    <2> QED BY <1>5, <1>6, <2>1, <2>2
  <1>20. View("alloc")'
    BY <1>6, <1>7, Types DEF View, Idles, Copied, Looked, Cleans, ReservedPCs, CleanPCs
  <1> QED BY <1>11, <1>12, <1>14, <1>16, <1>17, <1>18, <1>19, <1>20 DEF IInv, Controllers

LEMMA CreateCheckpointInv ==
  ASSUME IInv, CreateCheckpoint
  PROVE  IInv'
  <1>1. CASE claim.phase # "live"
    BY <1>1, ReturnInv DEF CreateCheckpoint, cloudVars, Controllers, IInv, TypeOK
  <1> QED BY <1>1, CheckpointWrites

\* Time passes, but not beyond the latencies.
LEMMA TickInv ==
  ASSUME IInv, Tick
  PROVE  IInv'
  <1>1. /\ UNCHANGED <<claim, reservation, node, pools, workers, requests, account, threads, faults>>
        /\ now \in Nat /\ now' = now + 1 /\ MaxLatency \in Nat /\ MaxLookup \in Nat
        /\ reservation.started \in Nat /\ core' = core
        /\ \A t \in Controllers : threads[t].since \in Nat
    BY OwnAlloc, AllocationAssumption DEF Tick, cloudVars, IInv, TypeOK, Reservation, core
  <1>2. TypeOK' /\ Mutex' /\ Identities' /\ ClaimState' /\ Released'
    <2>1. TypeOK' /\ Mutex'
      BY SMTT(90), <1>1 DEF IInv, TypeOK, Mutex
    <2>2. Identities'
      BY <1>1 DEF IInv, Identities, Known, KnownWorker, Exists, Whole
    <2>3. ClaimState' /\ Released'
      BY <1>1 DEF IInv, ClaimState, Released, Quiet, Exists, Alive
    <2> QED BY <2>1, <2>2, <2>3
  <1>3. Requested'
    <2>1. core.pc = "send" => core.res = reservation
      BY DEF IInv, View, Copied, ReservedPCs, core, Controllers
    <2>2. \A r \in requests : r.started = reservation.started
      BY SMTT(90) DEF IInv, Requested
    <2> QED BY SMTT(90), <1>1, <2>1, <2>2 DEF IInv, Requested, Known, Exists, Tick
  <1>4. ASSUME NEW t \in Controllers PROVE View(t)'
    <2>1. View(t) /\ (Quiet' <=> Quiet) /\ (Over' <=> Over)
      BY <1>1 DEF IInv, Quiet, Over, Exists
    <2>2. Looked(t)'
      BY SMTT(90), <1>1, <2>1 DEF View, Looked, Tick
    <2>3. Idles(t)' /\ Copied(t)'
      BY <1>1, <2>1 DEF View, Idles, Copied
    <2>4. Cleans(t)'
      BY <1>1, <2>1 DEF View, Cleans, Alive
    <2>5. t = "core" => Creates'
      BY <1>1, <2>1 DEF View, Creates, core
    <2> QED BY <2>2, <2>3, <2>4, <2>5 DEF View
  <1> QED BY <1>2, <1>3, <1>4 DEF IInv


\* A write of the claim that leaves the Allocation, and removes no finalizer of
\* a call in progress.
LEMMA ClaimInv ==
  ASSUME IInv, claim' \in NodeClaim, claim'.alloc = claim.alloc,
         UNCHANGED <<now, reservation, node, pools, workers, requests, account, faults>>,
         threads' \in [Controllers -> Thread],
         \A t \in Controllers : threads'[t] \in {threads[t], Idle},
         \A t \in Controllers : threads'[t].pc # "idle" => t \in claim'.finalizers,
         claim'.finalizers \subseteq claim.finalizers,
         claim'.phase = "live" => claim.phase = "live" /\ "core" \in claim'.finalizers,
         claim'.phase = "gone" <=> claim'.finalizers = {},
         claim'.providerID \in {None, claim.alloc.worker},
         claim.providerID # None => claim'.providerID = claim.providerID,
         core'.pc # "sent" \/ core' = core,
         Released'
  PROVE  IInv'
  <1>1. core' \in {core, Idle} /\ (core'.pc \in CreatePCs => core' = core)
    BY Types DEF core, Controllers, CreatePCs
  <1>2. (Quiet => Quiet') /\ (Over => Over')
    BY <1>1, Types DEF Quiet, Over, Exists
  <1>3. TypeOK' /\ Mutex'
    BY Types DEF IInv, TypeOK, Mutex, LockedPCs, ReservedPCs
  <1>4. /\ \A p \in PoolIDs : Known(p)' => Known(p)
        /\ \A w \in WorkerIDs : KnownWorker(w)' => KnownWorker(w)
    BY Types, AllocationAssumption DEF Known, KnownWorker, Exists
  <1>5. Identities'
    BY <1>4, Types DEF IInv, Identities, Whole
  <1>6. ClaimState'
    BY <1>2 DEF IInv, ClaimState, Exists
  <1>7. Requested'
    BY <1>1, <1>4, Types DEF IInv, Requested
  <1>8. ASSUME NEW t \in Controllers PROVE View(t)'
    <2>1. CASE threads'[t] = Idle
      BY <2>1, Types DEF View, Idles, Copied, Looked, Cleans, Creates, core, ReservedPCs,
         CleanPCs, CreatePCs
    <2>2. CASE threads'[t] = threads[t]
      <3>1. View(t)
        BY DEF IInv
      <3>2. Idles(t)' /\ Copied(t)' /\ Looked(t)'
        BY <1>2, <2>2, <3>1 DEF View, Idles, Copied, Looked
      <3>3. Cleans(t)'
        <4>1. SUFFICES ASSUME threads[t].pc \in CleanPCs PROVE Cleans(t)'
          BY <2>2 DEF Cleans
        <4>2. Cleans(t) /\ threads[t].pc # "idle"
          BY <3>1, <4>1, Kinds DEF View
        <4>3. t \in claim'.finalizers /\ claim'.phase # "live"
          BY <2>2, <4>1, <4>2 DEF Cleans
        <4> QED BY <1>2, <2>2, <4>1, <4>2, <4>3 DEF Cleans, Alive
      <3>4. t = "core" => Creates'
        BY <1>2, <2>2, <3>1 DEF View, Creates, core
      <3> QED BY <3>2, <3>3, <3>4 DEF View
    <2> QED BY <2>1, <2>2
  <1> QED BY <1>3, <1>5, <1>6, <1>7, <1>8 DEF IInv

\* The provider ID is published.
LEMMA CreatePublishInv ==
  ASSUME IInv, CreatePublish
  PROVE  IInv'
  <1>1. /\ core.pc = "publish" /\ "core" \in Controllers /\ core = threads["core"]
        /\ Return("core") /\ claim \in NodeClaim
        /\ UNCHANGED <<now, reservation, node, pools, workers, requests, account, faults>>
    BY DEF CreatePublish, cloudVars, Controllers, core, IInv, TypeOK
  <1>2. /\ claim.alloc = core.alloc /\ core.alloc.worker # None /\ core.alloc \in Allocation
        /\ "core" \in claim.finalizers /\ claim.phase # "gone"
    BY <1>1, OwnAlloc, InProgress DEF IInv, View, Creates, ClaimState
  <1>3. /\ claim' \in NodeClaim /\ claim'.alloc = claim.alloc /\ claim'.phase = claim.phase
        /\ claim'.finalizers = claim.finalizers /\ claim'.providerID = claim.alloc.worker
    BY <1>1, <1>2 DEF CreatePublish, NodeClaim, Allocation
  <1>4. /\ threads' \in [Controllers -> Thread] /\ core' = Idle
        /\ \A t \in Controllers : threads'[t] \in {threads[t], Idle}
    BY <1>1, Returning DEF core
  <1>5. Quiet'  <=> Quiet
    BY <1>1, <1>4, Types DEF Quiet, Exists
  <1>6. ASSUME NEW t \in Controllers, threads'[t].pc # "idle" PROVE t \in claim'.finalizers
    BY <1>3, <1>4, <1>6, Types, InProgress
  <1>7. Released'
    <2>1. ASSUME NEW t \in Controllers, threads'[t].pc = "release" PROVE t = "alloc"
      BY <1>4, <2>1, Types DEF Controllers, core
    <2>2. "alloc" \notin claim.finalizers => threads'["alloc"].pc = "idle"
      BY <1>4, Types DEF IInv, Released, Controllers
    <2> QED BY <1>1, <1>2, <1>3, <1>4, <1>5, <2>1, <2>2, Types
            DEF IInv, Released, CreatePCs
  <1> QED BY <1>1, <1>2, <1>3, <1>4, <1>6, <1>7, Types, ClaimInv DEF IInv, ClaimState

\* What a removed finalizer leaves.
LEMMA Settling ==
  ASSUME IInv, NEW t \in claim.finalizers, claim.phase = "deleting",
         claim' = Settle([claim EXCEPT !.finalizers = @ \ {t}])
  PROVE  /\ claim' \in NodeClaim /\ claim'.alloc = claim.alloc
         /\ claim'.finalizers = claim.finalizers \ {t} /\ claim'.providerID = claim.providerID
         /\ claim'.phase = IF claim.finalizers = {t} THEN "gone" ELSE "deleting"
  <1>1. claim \in NodeClaim
    BY DEF IInv, TypeOK
  <1> DEFINE c == [claim EXCEPT !.finalizers = @ \ {t}]
  <1>2. /\ c \in NodeClaim /\ c.alloc = claim.alloc /\ c.finalizers = claim.finalizers \ {t}
        /\ c.providerID = claim.providerID /\ c.phase = "deleting"
    BY <1>1 DEF NodeClaim
  <1>3. claim' = Settle(c)
    OBVIOUS
  <1> HIDE DEF c
  <1> QED BY <1>2, <1>3 DEF Settle, NodeClaim

\* A call that has read the claim before a finalizer went does not take the
\* claim for the one it has read.
LEMMA StaleRelease ==
  ASSUME IInv, NEW t \in Controllers, NEW u \in Controllers, threads[u].pc = "release",
         t \in claim.finalizers, claim'.finalizers = claim.finalizers \ {t}
  PROVE  claim' # threads[u].seen
  BY DEF IInv, View, Cleans, CleanPCs

\* The lifecycle controller removes its finalizer from a claim without a provider ID.
LEMMA CoreFinalizeInv ==
  ASSUME IInv, CoreFinalize
  PROVE  IInv'
  <1>1. /\ core.pc = "idle" /\ claim.phase = "deleting" /\ "core" \in claim.finalizers
        /\ claim.providerID = None /\ "core" \in Controllers /\ core = threads["core"]
        /\ UNCHANGED <<now, reservation, node, pools, workers, requests, account, threads, faults>>
    BY DEF CoreFinalize, cloudVars, Controllers, core
  <1>2. /\ claim' \in NodeClaim /\ claim'.alloc = claim.alloc
        /\ claim'.finalizers = claim.finalizers \ {"core"} /\ claim'.providerID = claim.providerID
        /\ claim'.phase = IF claim.finalizers = {"core"} THEN "gone" ELSE "deleting"
    BY <1>1, Settling DEF CoreFinalize
  <1>3. core' = core /\ threads \in [Controllers -> Thread]
    BY <1>1 DEF core, IInv, TypeOK
  <1>4. ASSUME NEW t \in Controllers, threads[t].pc # "idle" PROVE t \in claim'.finalizers
    BY <1>1, <1>2, <1>4, InProgress
  <1>5. Released'
    <2>1. ASSUME NEW t \in Controllers, threads[t].pc = "release" PROVE claim' # threads[t].seen
      BY <1>1, <1>2, <2>1, StaleRelease
    <2>2. (Quiet' <=> Quiet) /\ ~Alive(claim.providerID)
      BY <1>1 DEF Quiet, Exists, core, Alive
    <2> QED BY <1>1, <1>2, <1>3, <2>1, <2>2 DEF IInv, Released, Alive
  <1> QED BY <1>1, <1>2, <1>3, <1>4, <1>5, ClaimInv DEF IInv, ClaimState

\* A controller that has been told that nothing is left removes its finalizer.
LEMMA ReleaseInv ==
  ASSUME IInv, NEW t \in Controllers, Release(t)
  PROVE  IInv'
  <1>1. /\ threads[t].pc = "release" /\ threads[t].pc \in CleanPCs /\ Return(t)
        /\ UNCHANGED <<now, reservation, node, pools, workers, requests, account, faults>>
    BY DEF Release, cloudVars, CleanPCs
  <1>2. CASE claim # threads[t].seen
    BY <1>1, <1>2, ReturnInv DEF Release, IInv, TypeOK
  <1>3. CASE claim = threads[t].seen
    <2>1. /\ Over /\ ~Alive(threads[t].alloc.worker) /\ Below(claim.alloc, threads[t].alloc)
          /\ t \in claim.finalizers /\ claim.phase = "deleting"
          /\ claim.finalizers \subseteq Controllers
      BY <1>1, Cleaning DEF Cleans, NodeClaim
    <2>2. /\ claim' \in NodeClaim /\ claim'.alloc = claim.alloc
          /\ claim'.finalizers = claim.finalizers \ {t} /\ claim'.providerID = claim.providerID
          /\ claim'.phase = IF claim.finalizers = {t} THEN "gone" ELSE "deleting"
      BY <1>3, <2>1, Settling DEF Release
    <2>3. /\ threads' \in [Controllers -> Thread] /\ threads'[t] = Idle
          /\ \A u \in Controllers : threads'[u] \in {threads[u], Idle}
      BY <1>1, Returning
    <2>4. ASSUME NEW u \in Controllers, threads'[u].pc # "idle" PROVE u \in claim'.finalizers
      <3>1. u # t /\ threads[u].pc # "idle"
        BY <2>3, <2>4, Types
      <3> QED BY <2>2, <3>1, InProgress
    <2>5. ~Alive(claim.providerID)
      BY <2>1 DEF IInv, ClaimState, Below, Alive
    <2>6. core' \in {core, Idle}
      BY <2>3 DEF core, Controllers
    <2>7. Quiet' /\ core'.pc \notin CreatePCs /\ core'.pc # "sent"
      <3>1. core.pc # "sent"
        BY <2>1 DEF Over, CreatePCs
      <3> QED BY <1>1, <2>1, <2>6, <3>1, Types DEF Over, Quiet, Exists, CreatePCs
    <2>8. Released'
      <3>1. ASSUME NEW u \in Controllers, threads'[u].pc = "release" PROVE claim' # threads'[u].seen
        <4>1. threads'[u] = threads[u]
          BY <2>3, <3>1, Types
        <4> QED BY <2>1, <2>2, <3>1, <4>1, StaleRelease
      <3>2. claim'.finalizers = {} => reservation.phase = "none"
        BY <1>1, <1>3, <2>1, <2>2 DEF IInv, Released
      <3>3. "core" \notin claim'.finalizers => core'.pc = "idle"
        BY <2>4 DEF core, Controllers
      <3>4. "alloc" \notin claim'.finalizers =>
               /\ threads'["alloc"].pc = "idle"
               /\ claim'.providerID = None \/ claim'.phase = "gone" => reservation.phase = "none"
        <4>1. SUFFICES ASSUME "alloc" \notin claim'.finalizers
                       PROVE  /\ threads'["alloc"].pc = "idle"
                              /\ claim'.providerID = None \/ claim'.phase = "gone" =>
                                    reservation.phase = "none"
          OBVIOUS
        <4>2. threads'["alloc"].pc = "idle"
          BY <2>4, <4>1 DEF Controllers
        <4>3. CASE t = "alloc"
          BY <1>1, <1>3, <2>2, <3>2, <4>2, <4>3 DEF IInv, Released
        <4>4. CASE t # "alloc"
          BY <2>2, <3>2, <4>1, <4>2, <4>4 DEF IInv, Released
        <4> QED BY <4>3, <4>4
      <3>5. ~Alive(claim.providerID)'
        BY <1>1, <2>2, <2>5 DEF Alive
      <3> QED BY <1>1, <2>7, <3>1, <3>3, <3>4, <3>5 DEF Released
    <2> QED BY <1>1, <2>1, <2>2, <2>3, <2>4, <2>7, <2>8, ClaimInv DEF IInv, ClaimState
  <1> QED BY <1>2, <1>3

\* The claim is deleted: it has a finalizer.
LEMMA DeleteClaimInv ==
  ASSUME IInv, DeleteClaim
  PROVE  IInv'
  <1>1. /\ claim.phase = "live" /\ claim \in NodeClaim /\ "core" \in claim.finalizers
        /\ UNCHANGED <<now, reservation, node, pools, workers, requests, account, threads, faults>>
        /\ threads \in [Controllers -> Thread] /\ core' = core
    BY DEF DeleteClaim, cloudVars, IInv, TypeOK, ClaimState, core
  <1>2. /\ claim' \in NodeClaim /\ claim'.alloc = claim.alloc /\ claim'.phase = "deleting"
        /\ claim'.finalizers = claim.finalizers /\ claim'.providerID = claim.providerID
    <2>1. claim' = [claim EXCEPT !.phase = "deleting"]
      BY <1>1 DEF DeleteClaim, Settle, NodeClaim
    <2> QED BY <1>1, <2>1 DEF NodeClaim
  <1>3. ASSUME NEW t \in Controllers, threads[t].pc # "idle" PROVE t \in claim'.finalizers
    BY <1>2, <1>3, InProgress
  <1>4. Released'
    <2>1. \A t \in Controllers : threads[t].pc # "release"
      BY <1>1 DEF IInv, View, Cleans, CleanPCs
    <2>2. Quiet' <=> Quiet
      BY <1>1 DEF Quiet, Exists
    <2> QED BY <1>1, <1>2, <2>1, <2>2 DEF IInv, Released
  <1> QED BY <1>1, <1>2, <1>3, <1>4, ClaimInv DEF IInv, ClaimState

-----------------------------------------------------------------------------
(* The invariant *)

LEMMA InitInv ==
  ASSUME Init
  PROVE  IInv
  <1>1. /\ TypeOK /\ \A t \in Controllers : threads[t] = Idle
        /\ core = Idle /\ claim.phase = "live" /\ claim.alloc = NoAllocation
        /\ claim.providerID = None /\ claim.finalizers = {"core"}
        /\ \A p \in PoolIDs : ~Exists(p)
    <2>1. claim \in NodeClaim /\ node \in Node
      BY Types DEF Init, NodeClaim, Controllers, Node
    <2>2. pools \in [PoolIDs -> Pool] /\ workers \in [WorkerIDs -> Worker]
      BY DEF Init, Pool, Worker
    <2> QED BY <2>1, <2>2, Types DEF Init, TypeOK, Exists, core, Controllers
  <1>2. Mutex /\ Identities
    BY <1>1, Types, AllocationAssumption
       DEF Init, Mutex, Identities, Known, KnownWorker, Whole, LockedPCs, ReservedPCs
  <1>3. Quiet
    BY <1>1, Types DEF Init, Quiet
  <1>4. ClaimState /\ Released /\ Requested
    BY <1>1, <1>3, Types DEF Init, ClaimState, Released, Requested, CreatePCs, Controllers
  <1>5. \A t \in Controllers : View(t)
    BY <1>1, Types DEF View, Idles, Copied, Looked, Cleans, Creates, ReservedPCs, CleanPCs, CreatePCs
  <1> QED BY <1>1, <1>2, <1>4, <1>5 DEF IInv

\* The steps of either controller, and of Create.
LEMMA ControllersInv ==
  ASSUME Timely, IInv, CoreNext \/ AllocNext
  PROVE  IInv'
  <1>1. ASSUME NEW t \in Controllers, CleanNext(t) PROVE IInv'
    BY <1>1, CleanReserveInv, CleanWritesInv, CleanLookInv, CleanJudgeInv, CleanWorkerInv, FreeInv,
       CleanListInv, CleanDeleteInv, ReleaseInv DEF CleanNext
  <1>2. CASE CreateNext
    BY <1>2, CreateStartInv, CreateCheckpointInv, CreateReserveInv, CreateFindInv, CreateDecideInv,
       CreateSendInv, CreateWritesInv, CreateVerifyInv, CreateWorkersInv, CreatePublishInv
       DEF CreateNext
  <1>3. CASE CleanRead \/ CoreDelete \/ CoreFinalize \/ CoreDrain \/ CleanNodes
    BY <1>3, CleanStartInv, CoreFinalizeInv, NodeInv, CleanNodesInv
  <1>4. CASE GoneFind \/ GoneWorker \/ GoneFree
    BY <1>4, GoneFindInv, GoneWorkerInv, FreeInv DEF Controllers
  <1> QED BY <1>1, <1>2, <1>3, <1>4 DEF CoreNext, AllocNext, Controllers

LEMMA NextInv ==
  ASSUME Timely, IInv, [Next]_vars
  PROVE  IInv'
  <1>1. CASE UNCHANGED vars
    <2>1. TypeOK' /\ Fades
      BY <1>1 DEF vars, IInv, TypeOK, Fades, Exists, core
    <2> QED BY <2>1, FadesInv
  <1>2. CASE CloudDecides
    <2>1. PICK r \in requests : CloudReject(r) \/ CloudDrop(r) \/ \E p \in PoolIDs : CloudAccept(r, p)
      BY <1>2 DEF CloudDecides
    <2> QED BY <2>1, LostInv, RejectedInv, AcceptInv
  <1>3. CASE Next /\ ~CloudDecides
    BY <1>3, ControllersInv, FailInv, PoolGoneInv, WorkerInv, NodeInv, DeleteClaimInv, RestartInv,
       TickInv DEF Next
  <1> QED BY <1>1, <1>2, <1>3

LEMMA Invariance ==
  ASSUME Timely
  PROVE  Spec => []IInv
  <1>1. IInv /\ [Next]_vars => IInv'
    BY NextInv
  <1> QED BY <1>1, InitInv, PTL DEF Spec


-----------------------------------------------------------------------------
(* The theorems *)

\* What exists or may still appear is owned.
LEMMA InvOwned ==
  ASSUME IInv
  PROVE  NoLeak /\ AtMostOne
  <1>1. ~Quiet => /\ "alloc" \in claim.finalizers /\ claim.phase # "gone"
                  /\ reservation.phase \in {"creating", "active", "deleting"}
    BY DEF IInv, Released, ClaimState
  <1>2. NoLeak
    <2>1. ASSUME NEW p \in PoolIDs, Exists(p) PROVE Owned(pools[p].account)
      BY <1>1, <2>1 DEF Owned, Quiet, IInv, ClaimState
    <2>2. ASSUME NEW r \in requests PROVE Owned(r.account)
      BY SMTT(90), <1>1, <2>2 DEF Owned, Quiet, IInv, Requested
    <2> QED BY <2>1, <2>2 DEF NoLeak
  <1>3. AtMostOne
    BY DEF AtMostOne, IInv, Requested, Identities, Known
  <1> QED BY <1>2, <1>3

\* The records agree with each other, with the pool and with the calls' copies.
LEMMA InvRecords ==
  ASSUME IInv
  PROVE  RecordsHold /\ NothingLeft
  <1>1. reservation.phase # "none" => Consistent(claim.alloc, reservation.alloc)
    <2>1. claim.alloc \in Allocation /\ reservation.alloc \in Allocation
      BY DEF IInv, TypeOK, NodeClaim, Reservation
    <2>2. None \in {claim.alloc.pool, reservation.alloc.pool} \/ claim.alloc.pool = reservation.alloc.pool
      BY <2>1 DEF IInv, Identities, Known, Allocation
    <2>3. \/ None \in {claim.alloc.worker, reservation.alloc.worker}
          \/ claim.alloc.worker = reservation.alloc.worker
      BY <2>1 DEF IInv, Identities, KnownWorker, Allocation
    <2> QED BY <2>2, <2>3 DEF Consistent, IInv, ClaimState
  <1>2. ASSUME NEW p \in PoolIDs, Exists(p)
        PROVE  claim.alloc.pool \in {None, p} /\ reservation.alloc.pool \in {None, p}
    <2>1. claim.alloc.pool \in PoolIDs \cup {None} /\ reservation.alloc.pool \in PoolIDs \cup {None}
      BY DEF IInv, TypeOK, NodeClaim, Reservation, Allocation
    <2> QED BY <1>2, <2>1 DEF IInv, Identities, Known
  <1>3. CopyIsCurrent
    BY DEF CopyIsCurrent, IInv, View, Copied
  <1>4. NothingLeft
    BY DEF NothingLeft, IInv, Released, ClaimState
  <1> QED BY <1>1, <1>2, <1>3, <1>4 DEF RecordsHold, RecordsAgree, IInv

\* For all sets of accounts, pools and workers and any number of faults, when
\* the creation window covers the latencies: no lost reply, conflict, crash or
\* deletion makes a pool exist, or lets one appear, that no claim owns.
THEOREM NoPoolLeaks ==
  ASSUME Timely
  PROVE  Spec => []NoLeak
  <1>1. IInv => NoLeak
    BY InvOwned
  <1> QED BY <1>1, Invariance, PTL

\* However often createAllocation is retried or restarted, there is at most one
\* pool, and no request is in flight beside it.
THEOREM NeverTwoPools ==
  ASSUME Timely
  PROVE  Spec => []AtMostOne
  <1>1. IInv => AtMostOne
    BY InvOwned
  <1> QED BY <1>1, Invariance, PTL

\* The state is well typed, the claim's annotation, the reservation and the pool
\* never contradict each other, so restoreReservation and validatePool never
\* refuse, and the copy of the reservation a call writes back is current.
THEOREM RecordsNeverContradict ==
  ASSUME Timely
  PROVE  Spec => []RecordsHold
  <1>1. IInv => RecordsHold
    BY InvRecords
  <1> QED BY <1>1, Invariance, PTL

\* A claim that is gone has left neither its reservation nor its worker behind.
THEOREM NothingIsLeft ==
  ASSUME Timely
  PROVE  Spec => []NothingLeft
  <1>1. IInv => NothingLeft
    BY InvRecords
  <1> QED BY <1>1, Invariance, PTL

-----------------------------------------------------------------------------
(* The refinement of LaunchContract *)

\* A pool appears only from a request, no step both removes a pool and asks for
\* one, and the phase of the claim changes alone.
Orderly ==
    /\ requests # {} \/ \A p \in PoolIDs : Exists(p)' => Exists(p)
    /\ \/ UNCHANGED pools
       \/ requests' \subseteq requests /\ (core'.pc = "send" => core.pc = "send")
    /\ \/ claim'.phase = claim.phase
       \/ /\ <<claim.phase, claim'.phase>> \in {<<"live", "deleting">>, <<"deleting", "gone">>}
          /\ UNCHANGED <<pools, requests>>
          /\ core'.pc = "send" <=> core.pc = "send"

LEMMA OrderlyClaim ==
  ASSUME IInv, CreateCheckpoint \/ CreatePublish \/ CoreFinalize \/ DeleteClaim
               \/ \E t \in Controllers : Release(t)
  PROVE  Orderly
  <1>1. UNCHANGED <<pools, requests>> /\ claim \in NodeClaim
    BY DEF CreateCheckpoint, CreatePublish, CoreFinalize, DeleteClaim, Release, cloudVars, IInv, TypeOK
  <1>2. \A p \in PoolIDs : Exists(p)' <=> Exists(p)
    BY <1>1 DEF Exists
  <1>3. CASE CreateCheckpoint \/ CreatePublish
    <2>1. claim'.phase = claim.phase
      BY <1>1, <1>3 DEF CreateCheckpoint, CreatePublish, NodeClaim
    <2> QED BY <1>1, <1>2, <2>1 DEF Orderly
  <1>4. CASE CoreFinalize \/ DeleteClaim
    <2>1. core' = core
      BY <1>4 DEF CoreFinalize, DeleteClaim, core
    <2>2. <<claim.phase, claim'.phase>> \in
             {<<"live", "deleting">>, <<"live", "gone">>, <<"deleting", "gone">>}
          \/ claim'.phase = claim.phase
      BY <1>1, <1>4, Settling DEF CoreFinalize, DeleteClaim, Settle, NodeClaim
    <2>3. claim.phase = "live" => claim'.phase # "gone"
      BY <1>1, <1>4 DEF CoreFinalize, DeleteClaim, Settle, NodeClaim, IInv, ClaimState
    <2> QED BY <1>1, <1>2, <2>1, <2>2, <2>3 DEF Orderly
  <1>5. ASSUME NEW t \in Controllers, Release(t) PROVE Orderly
    <2>1. threads[t].pc = "release" /\ threads[t].pc \in CleanPCs /\ Return(t)
      BY <1>5 DEF Release, CleanPCs
    <2>2. claim.phase = "deleting" /\ t \in claim.finalizers
      BY <2>1, Cleaning
    <2>3. claim'.phase \in {"deleting", "gone"}
      BY <1>5, <2>2, Settling DEF Release
    <2>4. core'.pc = "send" <=> core.pc = "send"
      BY <2>1, Types DEF Return, Goto, core, IInv, TypeOK, Controllers
    <2> QED BY <1>1, <1>2, <2>2, <2>3, <2>4 DEF Orderly
  <1> QED BY <1>3, <1>4, <1>5

LEMMA OrderlyPools ==
  ASSUME IInv, \/ \E t \in Controllers : CleanDelete(t)
               \/ \E p \in PoolIDs : PoolGone(p)
               \/ \E r \in requests, p \in PoolIDs : CloudAccept(r, p)
  PROVE  Orderly
  <1>1. UNCHANGED claim /\ requests' \subseteq requests
    BY DEF CleanDelete, PoolGone, CloudAccept
  <1>2. core'.pc = "send" => core.pc = "send"
    <2>1. ASSUME NEW t \in Controllers, CleanDelete(t) PROVE core'.pc = "send" => core.pc = "send"
      BY <2>1, Types DEF CleanDelete, Return, Goto, core, IInv, TypeOK, Controllers
    <2>2. ASSUME NEW p \in PoolIDs, PoolGone(p) PROVE core' = core
      BY <2>2 DEF PoolGone, core
    <2>3. ASSUME NEW r \in requests, NEW p \in PoolIDs, CloudAccept(r, p) PROVE core'.pc # "send"
      <3>1. core.pc # "send" /\ core \in Thread
        BY TheRequest, OwnAlloc DEF core, Controllers
      <3>2. [core EXCEPT !.pc = "activate", !.alloc.pool = p].pc = "activate"
        BY <3>1 DEF Thread
      <3>3. \A d : Goto("core", d) => core' = d
        BY DEF Goto, core, IInv, TypeOK, Controllers
      <3>4. \/ UNCHANGED threads \/ Goto("core", Idle)
            \/ Goto("core", [core EXCEPT !.pc = "activate", !.alloc.pool = p])
        BY <2>3 DEF CloudAccept, GotoOrFail, Return
      <3> QED BY <3>1, <3>2, <3>3, <3>4, Types DEF core
    <2> QED BY <2>1, <2>2, <2>3
  <1>3. requests # {} \/ \A p \in PoolIDs : Exists(p)' => Exists(p)
    <2>1. ASSUME NEW t \in Controllers, CleanDelete(t) PROVE \A p \in PoolIDs : Exists(p)' => Exists(p)
      BY <2>1 DEF CleanDelete, Exists, Visible, IInv, TypeOK, Pool
    <2>2. ASSUME NEW q \in PoolIDs, PoolGone(q) PROVE \A p \in PoolIDs : Exists(p)' => Exists(p)
      BY <2>2 DEF PoolGone, Exists, IInv, TypeOK, Pool
    <2> QED BY <2>1, <2>2
  <1> QED BY <1>1, <1>2, <1>3 DEF Orderly


LEMMA OrderlyNext ==
  ASSUME IInv, [Next]_vars
  PROVE  Orderly
  <1>1. UNCHANGED <<claim, pools>> => Orderly
    BY DEF Orderly, Exists
  <1>2. CASE CreateNext /\ ~(CreateCheckpoint \/ CreatePublish)
    <2>1. UNCHANGED <<claim, pools>>
      BY <1>2 DEF CreateNext, CreateStart, CreateReserve, CreateFind, CreateDecide, CreateSend,
         CreateReject, CreateActivate, CreateVerify, CreateWorkers, CreateBind, cloudVars
    <2> QED BY <1>1, <2>1
  <1>3. ASSUME NEW t \in Controllers, CleanNext(t), ~(CleanDelete(t) \/ Release(t)) PROVE Orderly
    <2>1. UNCHANGED <<claim, pools>>
      BY <1>3 DEF CleanNext, CleanReserve, CleanMark, CleanLook, CleanJudge, CleanWorker,
         CleanFree, CleanNote, CleanList, cloudVars
    <2> QED BY <1>1, <2>1
  <1>4. CASE CleanRead \/ CleanNodes \/ GoneFind \/ GoneWorker \/ GoneFree \/ CoreDelete \/ CoreDrain
    <2>1. UNCHANGED <<claim, pools>>
      BY <1>4 DEF CleanRead, CleanNodes, GoneFind, GoneWorker, GoneFree, CoreDelete, CoreDrain, cloudVars
    <2> QED BY <1>1, <2>1
  <1>5. CASE \/ CreateTimeout \/ \E t \in Controllers : CallFails(t)
             \/ \E r \in requests : CloudReject(r) \/ CloudDrop(r)
             \/ \E w \in WorkerIDs, p \in PoolIDs : WorkerStart(w, p)
             \/ \E w \in WorkerIDs : WorkerGone(w) \/ NodeRegister(w)
    <2>1. UNCHANGED <<claim, pools>>
      BY <1>5 DEF CreateTimeout, CallFails, CloudReject, CloudDrop, WorkerStart, WorkerGone,
         NodeRegister, cloudVars
    <2> QED BY <1>1, <2>1
  <1>6. CASE CoreRegister \/ NodeGone \/ Restart \/ Tick \/ UNCHANGED vars
    <2>1. UNCHANGED <<claim, pools>>
      BY <1>6 DEF CoreRegister, NodeGone, Restart, Tick, vars, cloudVars
    <2> QED BY <1>1, <2>1
  <1>7. CASE CoreNext \/ AllocNext
    BY <1>2, <1>3, <1>4, <1>7, OrderlyClaim, OrderlyPools DEF CoreNext, AllocNext, CreateNext, Controllers
  <1> QED BY <1>5, <1>6, <1>7, OrderlyClaim, OrderlyPools DEF Next, CloudDecides

LEMMA ContractStep ==
  ASSUME IInv, IInv', [Next]_vars
  PROVE  [Contract!ContractNext]_(Contract!contractVars)
  <1>1. Orderly
    BY OrderlyNext
  <1>2. /\ ~Quiet => claim.phase # "gone" /\ "alloc" \in claim.finalizers
        /\ ~Quiet' => claim'.phase # "gone"
    BY DEF IInv, Released, ClaimState
  <1>3. /\ (\E p \in PoolIDs : Exists(p)) => requests = {} /\ core.pc # "send"
        /\ (\E p \in PoolIDs : Exists(p)') => requests' = {} /\ core'.pc # "send"
    BY DEF IInv, Requested, Known
  <1>4. CASE claim'.phase # claim.phase
    <2>1. /\ <<claim.phase, claim'.phase>> \in {<<"live", "deleting">>, <<"deleting", "gone">>}
          /\ UNCHANGED <<pools, requests>>
          /\ core'.pc = "send" <=> core.pc = "send"
      BY <1>1, <1>4 DEF Orderly
    <2>2. instOf' = instOf /\ (Quiet' <=> Quiet)
      BY <2>1 DEF instOf, Quiet, Exists
    <2>3. claim'.phase = "gone" => instOf = "absent"
      BY <1>2, <2>2 DEF instOf, Quiet
    <2> QED BY <2>1, <2>2, <2>3 DEF Contract!ContractNext, Contract!Delete, Contract!Collect
  <1>5. CASE claim'.phase = claim.phase
    <2>1. instOf = "absent" => instOf' # "present"
      BY <1>1 DEF Orderly, instOf
    <2>2. instOf = "present" => instOf' # "requested"
      BY <1>1, <1>3 DEF Orderly, instOf, Exists
    <2>3. instOf' = "requested" => claim.phase \in {"live", "deleting"}
      BY <1>2, <1>5 DEF instOf, Quiet, IInv, TypeOK, NodeClaim
    <2>4. instOf \in {"absent", "requested", "present"} /\ instOf' \in {"absent", "requested", "present"}
      BY DEF instOf
    <2> QED BY <1>5, <2>1, <2>2, <2>3, <2>4
            DEF Contract!ContractNext, Contract!Request, Contract!Resolve, Contract!Vanish,
                Contract!contractVars
  <1> QED BY <1>4, <1>5

\* For all sets of accounts, pools and workers and any number of faults, when
\* the creation window covers the latencies: createAllocation, Cleanup, Delete
\* and ConfirmGone together implement the launch contract.  A pool is asked for
\* only by a claim that is there and owns nothing, and the claim disappears only
\* when no pool exists and none can appear.
THEOREM AllocationRefinesContract ==
  ASSUME Timely
  PROVE  Spec => ImplementsContract
  <1>1. Init => Contract!ContractInit
    BY SMTT(90), Types DEF Init, Contract!ContractInit, instOf, Exists, core, Controllers
  <1>2. IInv /\ IInv' /\ [Next]_vars => [Contract!ContractNext]_(Contract!contractVars)
    BY ContractStep
  <1> QED BY <1>1, <1>2, Invariance, PTL DEF Spec, ImplementsContract, Contract!ContractSpec
=============================================================================
