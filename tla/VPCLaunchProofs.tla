-------------------------- MODULE VPCLaunchProofs ---------------------------
(***************************************************************************)
(* The theorems about VPCLaunch, for every set of accounts, choices and    *)
(* instance identities and every value of the bounds: types, that the      *)
(* provider publishes and deletes only its own instances, that nothing     *)
(* leaks, that no claim has two instances, and that the launch implements  *)
(* LaunchContract.                                                         *)
(*                                                                         *)
(* First come type correctness, what the operators that write records      *)
(* return, and the two properties that need no more.  Then the inductive   *)
(* invariant and that every step preserves it: the steps of Create and the *)
(* writes of others to the claim, the steps of the allocation controller,  *)
(* of the lifecycle controller, of the cloud and of time.  The refinement  *)
(* is at the end.                                                          *)
(***************************************************************************)
EXTENDS VPCLaunch, TLAPS

\* Zenon proves most leaves; one that needs arithmetic or record types names SMT.
USE ZenonT(90)

-----------------------------------------------------------------------------
(* Facts about the records the actions write *)

\* A claim may be written with a new resourceVersion and phase.
LEMMA WithPhase ==
  ASSUME NEW c \in NodeClaims, NEW r \in Nat, NEW p \in {"live", "deleting", "gone"}
  PROVE  [c EXCEPT !.rv = r, !.phase = p] \in NodeClaims
  BY DEF NodeClaims

\* What a write to the claim does.
LEMMA WriteClaimFacts ==
  ASSUME NEW c \in NodeClaims, WriteClaim(c)
  PROVE  /\ claim' \in NodeClaims
         /\ claim'.rv = c.rv + 1
         /\ claim'.launch = c.launch
         /\ claim'.finalizers = c.finalizers
         /\ claim'.providerID = c.providerID
         /\ claim'.phase = Settle(c)
  <1>1. Settle(c) \in {"live", "deleting", "gone"} /\ c.rv + 1 \in Nat
    BY SMTT(90) DEF NodeClaims, Settle
  <1>2. claim' = [c EXCEPT !.rv = c.rv + 1, !.phase = Settle(c)]
    BY DEF WriteClaim
  <1>3. claim' \in NodeClaims
    BY <1>1, <1>2, WithPhase
  <1>4. QED
    BY <1>2, <1>3 DEF NodeClaims

\* A journal's state and time may be replaced.
LEMMA LaunchFacts ==
  ASSUME NEW l \in launchConfig, NEW s \in LaunchStates, NEW t \in Nat
  PROVE  /\ [l EXCEPT !.state = s] \in launchConfig
         /\ [l EXCEPT !.state = s, !.at = t] \in launchConfig
  BY DEF launchConfig

\* A claim without the launch annotation has a journal of the right type.
LEMMA NoLaunchType == NoLaunch \in launchConfig
  BY DEF launchConfig, NoLaunch, LaunchStates

\* A thread between two calls has the type of either thread.
LEMMA IdleType == Idle \in Threads(CreatorPCs) /\ Idle \in Threads(CleanerPCs)
  BY NoLaunchType DEF Idle, Threads, CreatorPCs, CleanerPCs

-----------------------------------------------------------------------------
(* Type correctness *)

\* The first state is well typed.
LEMMA TypeInit == Init => TypeOK
  BY SMTT(90), ConstantsAssumption, NoLaunchType, IdleType
     DEF Init, TypeOK, NodeClaims, Nodes, Instances

\* Every step of Create keeps the types.
LEMMA TypeCreate == TypeOK /\ (CreateNext \/ CreateTimeout \/ CreateError) => TypeOK'
  <1> SUFFICES ASSUME TypeOK, CreateNext \/ CreateTimeout \/ CreateError PROVE TypeOK'
    OBVIOUS
  <1> USE IdleType, NoLaunchType, ConstantsAssumption
  <1>a. /\ claim.launch \in launchConfig /\ claim.rv \in Nat
        /\ claim.finalizers \in SUBSET {"launch", "core"}
        /\ creator.launch \in launchConfig /\ creator.rv \in Nat
        /\ creator.inst \in InstanceIDs \cup {None} /\ now \in Nat
    BY DEF TypeOK, NodeClaims, Threads
  <1>b. claim.rv + 1 \in Nat
    BY SMTT(90), <1>a
  <1>1. CASE CreateStart
    <2>1. ASSUME NEW cfg \in Configs
          PROVE  [state |-> "prepared", cfg |-> cfg, account |-> account, at |-> 0]
                    \in launchConfig
      BY DEF TypeOK, launchConfig, LaunchStates
    <2>2. \A l \in launchConfig :
             [Idle EXCEPT !.pc = "prepare", !.launch = l] \in Threads(CreatorPCs)
      BY DEF Threads, CreatorPCs
    <2>3. \A pc \in {"resume", "reset"} :
             [Idle EXCEPT !.pc = pc, !.rv = claim.rv, !.launch = claim.launch]
                \in Threads(CreatorPCs)
      BY <1>a DEF Threads, CreatorPCs
    <2>4. creator' \in Threads(CreatorPCs)
      BY <1>1, <2>1, <2>2, <2>3 DEF CreateStart, newLaunch
    <2>5. QED
      BY <1>1, <2>4 DEF CreateStart, newLaunch, TypeOK
  <1>2. CASE CreateCheckpoint
    <2> DEFINE c == [claim EXCEPT !.launch = creator.launch,
                                  !.finalizers = @ \cup {"launch"}]
    <2>1. c \in NodeClaims
      BY <1>a DEF TypeOK, NodeClaims
    <2>2. \A r \in Nat : [creator EXCEPT !.pc = "lookup", !.rv = r] \in Threads(CreatorPCs)
      BY DEF TypeOK, Threads, CreatorPCs
    <2>2a. [creator EXCEPT !.pc = "lookup", !.rv = claim.rv + 1] \in Threads(CreatorPCs)
      BY <1>b, <2>2
    <2>3. claim' \in NodeClaims
      BY <1>2, <2>1, WriteClaimFacts DEF CreateCheckpoint, TypeOK
    <2>4. QED
      BY SMTT(90), <1>2, <2>2a, <2>3 DEF CreateCheckpoint, TypeOK, Fault, NoFault
  <1>3. CASE CreateLookup
    BY <1>3 DEF CreateLookup, TypeOK, Threads, CreatorPCs
  <1>4. CASE CreateSubmit
    <2> DEFINE l == [creator.launch EXCEPT !.state = "submitted", !.at = now]
    <2>1. l \in launchConfig
      BY <1>a, LaunchFacts DEF LaunchStates
    <2> HIDE DEF l
    <2>2. [claim EXCEPT !.launch = l] \in NodeClaims
      BY <2>1 DEF TypeOK, NodeClaims
    <2>3. \A r \in Nat : [creator EXCEPT !.pc = "send", !.rv = r, !.launch = l]
             \in Threads(CreatorPCs)
      BY <2>1 DEF TypeOK, Threads, CreatorPCs
    <2>3a. [creator EXCEPT !.pc = "send", !.rv = claim.rv + 1, !.launch = l]
             \in Threads(CreatorPCs)
      BY <1>b, <2>3
    <2>4. claim' \in NodeClaims
      BY <1>4, <2>2, WriteClaimFacts DEF CreateSubmit, TypeOK, l
    <2>5. creator' \in Threads(CreatorPCs)
      BY <1>4, <2>3a DEF CreateSubmit, l
    <2>6. QED
      BY SMTT(90), <1>4, <2>4, <2>5 DEF CreateSubmit, TypeOK, Fault, NoFault
  <1>5. CASE CreateSend
    <2>1. [rv |-> creator.rv, account |-> creator.launch.account,
           cfg |-> creator.launch.cfg, at |-> creator.launch.at] \in Requests
      BY <1>a DEF Requests, launchConfig
    <2>2. \A pc \in CreatorPCs : [creator EXCEPT !.pc = pc] \in Threads(CreatorPCs)
      BY DEF TypeOK, Threads
    <2>3. creator' \in Threads(CreatorPCs) /\ requests' \subseteq Requests
      BY <1>5, <2>1, <2>2 DEF CreateSend, TypeOK, CreatorPCs
    <2>4. QED
      BY SMTT(90), <1>5, <2>3 DEF CreateSend, TypeOK, Fault, NoFault
  <1>6. CASE CreateReject
    <2> DEFINE l == [creator.launch EXCEPT !.state = "rejected"]
    <2>1. l \in launchConfig
      BY <1>a, LaunchFacts DEF LaunchStates
    <2> HIDE DEF l
    <2>2. [claim EXCEPT !.launch = l, !.finalizers = @ \cup {"launch"}] \in NodeClaims
      BY <2>1 DEF TypeOK, NodeClaims
    <2>3. \A r \in Nat : [creator EXCEPT !.pc = "recover", !.launch = l, !.rv = r]
             \in Threads(CreatorPCs)
      BY <2>1 DEF TypeOK, Threads, CreatorPCs
    <2>3a. [creator EXCEPT !.pc = "recover", !.launch = l, !.rv = claim.rv + 1]
             \in Threads(CreatorPCs)
      BY <1>b, <2>3
    <2>4. claim' \in NodeClaims
      BY <1>6, <2>2, WriteClaimFacts DEF CreateReject, TypeOK, l
    <2>5. creator' \in Threads(CreatorPCs)
      BY <1>6, <2>3a DEF CreateReject, l
    <2>6. QED
      BY SMTT(90), <1>6, <2>4, <2>5 DEF CreateReject, TypeOK, Fault, NoFault
  <1>7. CASE CreateResume \/ CreateRecover
    <2>1. /\ [creator EXCEPT !.pc = "decide", !.since = now] \in Threads(CreatorPCs)
          /\ \A i \in InstanceIDs :
                [creator EXCEPT !.pc = "tag", !.inst = i] \in Threads(CreatorPCs)
      BY <1>a DEF TypeOK, Threads, CreatorPCs
    <2>2. creator' \in Threads(CreatorPCs)
      BY <1>7, <2>1 DEF CreateResume, CreateRecover
    <2>3. QED
      BY <1>7, <2>2 DEF CreateResume, CreateRecover, TypeOK
  <1>8. CASE CreateDecide \/ CreateTag \/ CreateTimeout \/ CreateError
    <2>1. \A pc \in CreatorPCs : [creator EXCEPT !.pc = pc] \in Threads(CreatorPCs)
      BY DEF TypeOK, Threads
    <2>2. creator' \in Threads(CreatorPCs)
      BY <1>8, <2>1 DEF CreateDecide, CreateTag, CreateTimeout, CreateError, CreatorPCs
    <2>3. QED
      BY SMTT(90), <1>8, <2>2 DEF CreateDecide, CreateTag, CreateTimeout, CreateError, TypeOK, Fault
  <1>9. CASE CreateReset
    <2>1. [claim EXCEPT !.launch = NoLaunch, !.finalizers = @ \ {"launch"}] \in NodeClaims
      BY DEF TypeOK, NodeClaims
    <2>2. claim' \in NodeClaims
      BY <1>9, <2>1, WriteClaimFacts DEF CreateReset, TypeOK
    <2>3. QED
      BY <1>9, <2>2 DEF CreateReset, TypeOK
  <1>10. CASE CreatePublish
    <2>1. [claim EXCEPT !.providerID = creator.inst] \in NodeClaims
      BY <1>a DEF TypeOK, NodeClaims
    <2>2. claim' \in NodeClaims
      BY <1>10, <2>1, WriteClaimFacts DEF CreatePublish, TypeOK
    <2>3. QED
      BY <1>10, <2>2 DEF CreatePublish, TypeOK
  <1>11. QED
    BY <1>1, <1>2, <1>3, <1>4, <1>5, <1>6, <1>7, <1>8, <1>9, <1>10 DEF CreateNext

\* Every step of CleanupPending keeps the types.
LEMMA TypeClean == TypeOK /\ (CleanNext \/ CleanError) => TypeOK'
  <1> SUFFICES ASSUME TypeOK, CleanNext \/ CleanError PROVE TypeOK'
    OBVIOUS
  <1> USE IdleType
  <1>a. /\ claim.launch \in launchConfig /\ claim.rv \in Nat
        /\ claim.providerID \in InstanceIDs \cup {None} /\ now \in Nat
    BY DEF TypeOK, NodeClaims
  <1>b. \A pc \in CleanerPCs : [cleaner EXCEPT !.pc = pc] \in Threads(CleanerPCs)
    BY DEF TypeOK, Threads
  <1>1. CASE CleanRead
    <2>1. \A pc \in {"confirm", "find"} :
             [Idle EXCEPT !.pc = pc, !.rv = claim.rv, !.launch = claim.launch,
                          !.inst = claim.providerID] \in Threads(CleanerPCs)
      BY <1>a DEF Threads, CleanerPCs
    <2>2. cleaner' \in Threads(CleanerPCs)
      BY <1>1, <2>1 DEF CleanRead
    <2>3. QED
      BY <1>1, <2>2 DEF CleanRead, TypeOK
  <1>2. CASE CleanFind
    <2>1. /\ [cleaner EXCEPT !.pc = "decide", !.since = now] \in Threads(CleanerPCs)
          /\ \A i \in InstanceIDs :
                [cleaner EXCEPT !.pc = "nodes", !.inst = i] \in Threads(CleanerPCs)
      BY <1>a DEF TypeOK, Threads, CleanerPCs
    <2>2. cleaner' \in Threads(CleanerPCs)
      BY <1>2, <2>1 DEF CleanFind
    <2>3. QED
      BY <1>2, <2>2 DEF CleanFind, TypeOK
  <1>3. CASE CleanConfirm \/ CleanDecide \/ CleanVerify \/ CleanError
    <2>1. cleaner' \in Threads(CleanerPCs)
      BY <1>3, <1>b DEF CleanConfirm, CleanDecide, CleanVerify, CleanError, CleanerPCs
    <2>2. QED
      BY SMTT(90), <1>3, <2>1 DEF CleanConfirm, CleanDecide, CleanVerify, CleanError, TypeOK, Fault
  <1>4. CASE CleanNodes
    <2>1. cleaner' \in Threads(CleanerPCs)
      BY <1>4, <1>b DEF CleanNodes, CleanerPCs
    <2>2. node' \in Nodes
      BY <1>4 DEF CleanNodes, TypeOK, Nodes
    <2>3. QED
      BY <1>4, <2>1, <2>2 DEF CleanNodes, TypeOK
  <1>5. CASE CleanDelete
    <2>1. cleaner' \in Threads(CleanerPCs)
      BY <1>5, <1>b DEF CleanDelete, CleanerPCs
    <2>2. \A s \in {"unborn", "running", "deleting", "gone"} :
             [instances EXCEPT ![cleaner.inst].status = s] \in [InstanceIDs -> Instances]
      BY DEF TypeOK, Instances
    <2>3. instances' \in [InstanceIDs -> Instances]
      <3>1. CASE cleaner.inst \in Visible
        BY <1>5, <2>2, <3>1 DEF CleanDelete
      <3>2. CASE cleaner.inst \notin Visible /\ cleaner.inst \in InstanceIDs
        <4>1. instances[cleaner.inst].status \in {"unborn", "running", "deleting", "gone"}
          BY <3>2 DEF TypeOK, Instances
        <4>2. QED
          BY <1>5, <2>2, <3>2, <4>1 DEF CleanDelete
      <3>3. CASE cleaner.inst \notin InstanceIDs
        BY <1>5, <3>3 DEF CleanDelete, TypeOK
      <3>4. QED
        BY <3>1, <3>2, <3>3
    <2>4. QED
      BY <1>5, <2>1, <2>3 DEF CleanDelete, TypeOK
  <1>6. CASE CleanRelease
    <2>1. [claim EXCEPT !.finalizers = @ \ {"launch"}] \in NodeClaims
      BY DEF TypeOK, NodeClaims
    <2>2. claim' \in NodeClaims
      BY <1>6, <2>1, WriteClaimFacts DEF CleanRelease, TypeOK
    <2>3. QED
      BY <1>6, <2>2 DEF CleanRelease, TypeOK
  <1>7. QED
    BY <1>1, <1>2, <1>3, <1>4, <1>5, <1>6 DEF CleanNext

\* Every step of Karpenter core keeps the types.
LEMMA TypeCore == TypeOK /\ CoreNext => TypeOK'
  <1> SUFFICES ASSUME TypeOK, CoreNext PROVE TypeOK'
    OBVIOUS
  <1>a. [claim EXCEPT !.finalizers = @ \ {"core"}] \in NodeClaims
    BY DEF TypeOK, NodeClaims
  <1>1. CASE ProviderDelete
    <2>1. claim' \in NodeClaims
      BY <1>1, <1>a, WriteClaimFacts DEF ProviderDelete, TypeOK
    <2>2. [instances EXCEPT ![claim.providerID].status = "deleting"]
             \in [InstanceIDs -> Instances]
      BY DEF TypeOK, Instances
    <2>3. QED
      BY <1>1, <2>1, <2>2 DEF ProviderDelete, TypeOK
  <1>2. CASE CoreFinalize
    <2>1. claim' \in NodeClaims
      BY <1>2, <1>a, WriteClaimFacts DEF CoreFinalize
    <2>2. QED
      BY <1>2, <2>1 DEF CoreFinalize, TypeOK
  <1>3. CASE CoreDrain
    BY <1>3 DEF CoreDrain, TypeOK, Nodes
  <1>4. QED
    BY <1>1, <1>2, <1>3 DEF CoreNext

\* Accepting a create request keeps the types.
LEMMA TypeCloud ==
  ASSUME TypeOK, NEW r \in requests, NEW i \in InstanceIDs, CloudAccept(r, i)
  PROVE  TypeOK'
  <1>1. \A pc \in CreatorPCs :
           /\ [creator EXCEPT !.pc = pc] \in Threads(CreatorPCs)
           /\ [creator EXCEPT !.pc = pc, !.inst = i] \in Threads(CreatorPCs)
    BY DEF TypeOK, Threads
  <1>2. creator' \in Threads(CreatorPCs)
    BY <1>1 DEF CloudAccept, TypeOK, CreatorPCs
  <1>3. [status |-> "running", account |-> r.account, cfg |-> r.cfg] \in Instances
    BY DEF TypeOK, Requests, Instances
  <1>4. instances' \in [InstanceIDs -> Instances]
    BY <1>3 DEF CloudAccept, TypeOK
  <1>5. QED
    BY SMTT(90), <1>2, <1>4 DEF CloudAccept, TypeOK, Fault, NoFault

\* The steps of the cloud, the kubelet, other writers and the clock keep the types.
LEMMA TypeEnv ==
  ASSUME TypeOK,
         \/ \E i \in InstanceIDs : CloudGone(i) \/ NodeRegister(i)
         \/ CoreRegister \/ NodeGone \/ DeleteClaim \/ OtherWrite \/ Restart \/ Tick
  PROVE  TypeOK'
  <1>1. ASSUME NEW i \in InstanceIDs, CloudGone(i) PROVE TypeOK'
    <2>1. [instances EXCEPT ![i].status = "gone"] \in [InstanceIDs -> Instances]
      BY DEF TypeOK, Instances
    <2>2. QED
      BY SMTT(90), <1>1, <2>1 DEF CloudGone, TypeOK, Fault, NoFault
  <1>2. ASSUME NEW i \in InstanceIDs, NodeRegister(i) PROVE TypeOK'
    BY SMTT(90), <1>2 DEF NodeRegister, TypeOK, Nodes, Fault, NoFault
  <1>3. CASE CoreRegister \/ NodeGone
    BY <1>3 DEF CoreRegister, NodeGone, TypeOK, Nodes
  <1>4. CASE DeleteClaim
    <2>1. [claim EXCEPT !.phase = "deleting"] \in NodeClaims
      BY DEF TypeOK, NodeClaims
    <2>2. claim' \in NodeClaims
      BY <1>4, <2>1, WriteClaimFacts DEF DeleteClaim
    <2>3. QED
      BY <1>4, <2>2 DEF DeleteClaim, TypeOK
  <1>5. CASE OtherWrite
    <2>1. claim' \in NodeClaims
      BY <1>5, WriteClaimFacts DEF OtherWrite, TypeOK
    <2>2. QED
      BY <1>5, <2>1 DEF OtherWrite, TypeOK
  <1>6. CASE Restart \/ Tick
    BY SMTT(90), <1>6, IdleType DEF Restart, Tick, TypeOK, Fault
  <1>7. QED
    BY <1>1, <1>2, <1>3, <1>4, <1>5, <1>6

\* Every step keeps the types.
LEMMA TypeNext == TypeOK /\ [Next]_vars => TypeOK'
  <1> SUFFICES ASSUME TypeOK, [Next]_vars PROVE TypeOK'
    OBVIOUS
  <1>1. CASE UNCHANGED vars
    BY <1>1 DEF vars, TypeOK
  <1>2. CASE CloudDecides
    <2>1. PICK r \in requests :
             CloudReject(r) \/ CloudDrop(r) \/ \E i \in InstanceIDs : CloudAccept(r, i)
      BY <1>2 DEF CloudDecides
    <2>2. CASE \E i \in InstanceIDs : CloudAccept(r, i)
      BY <2>2, TypeCloud
    <2>3. CASE CloudReject(r) \/ CloudDrop(r)
      <3>1. \A pc \in CreatorPCs : [creator EXCEPT !.pc = pc] \in Threads(CreatorPCs)
        BY DEF TypeOK, Threads
      <3>2. creator' \in Threads(CreatorPCs)
        BY <2>3, <3>1 DEF CloudReject, CloudDrop, TypeOK, CreatorPCs
      <3>3. QED
        BY SMTT(90), <2>3, <3>2 DEF CloudReject, CloudDrop, TypeOK, Fault
    <2>4. QED
      BY <2>1, <2>2, <2>3
  <1>3. QED
    BY <1>1, <1>2, TypeCreate, TypeClean, TypeCore, TypeEnv DEF Next

\* The variables keep their types.
THEOREM TypeCorrect == Spec => []TypeOK
  BY TypeInit, TypeNext, PTL DEF Spec

-----------------------------------------------------------------------------
(* Own instances.  That Create publishes, and the cleanup deletes, only     *)
(* what the journal describes rests on versions and on comparisons with the *)
(* journal, and needs no assumption on how fast the cloud is.               *)

\* Two records describe the same launch.
Same(l, m) == l.cfg = m.cfg /\ l.account = m.account

\* The instance i was born as the journal l describes it.
Matches(i, l) ==
    i \in InstanceIDs /\ instances[i].status # "unborn" /\ Same(instances[i], l)

\* Create works on the launch that the claim's journal describes, and a version
\* of the claim that it read and is still current is of a live claim.
OwnJournal ==
    /\ creator.pc \notin {"idle", "prepare"} => Same(creator.launch, claim.launch)
    /\ creator.pc \in {"lookup", "submit", "resume", "decide", "reset", "send", "sent"} =>
          creator.rv <= claim.rv
    /\ creator.pc \in {"lookup", "submit", "resume", "decide", "reset"} /\ creator.rv = claim.rv =>
          claim.phase = "live"

\* A request is told from those of earlier calls by the version it was
\* submitted at.
OwnRequest ==
    /\ \A r \in requests : r.rv <= claim.rv
    /\ creator.pc = "send" => \A r \in requests : r.rv < creator.rv
    /\ creator.pc = "sent" => \A r \in requests : r.rv = creator.rv => Same(r, creator.launch)

\* What Create is about to return, and what was published, is as described.
OwnInstance ==
    /\ creator.pc \in {"tag", "publish"} => Matches(creator.inst, creator.launch)
    /\ claim.providerID # None => creator.pc = "idle" /\ Matches(claim.providerID, claim.launch)

\* The cleanup runs while the claim is deleted and holds its finalizer, on the
\* launch that the claim's journal describes.
OwnCleanup ==
    /\ cleaner.pc # "idle" =>
          /\ claim.phase = "deleting" /\ "launch" \in claim.finalizers
          /\ Same(cleaner.launch, claim.launch)
    /\ cleaner.pc \in {"nodes", "delete", "verify"} => Matches(cleaner.inst, cleaner.launch)

\* The inductive invariant behind PublishesOwn and DeletesOwn.
OwnInv == TypeOK /\ OwnJournal /\ OwnRequest /\ OwnInstance /\ OwnCleanup

\* The numbers that are compared.
LEMMA Versions ==
  ASSUME TypeOK
  PROVE  claim.rv \in Nat /\ creator.rv \in Nat /\ \A r \in requests : r.rv \in Nat
  BY DEF TypeOK, NodeClaims, Threads, Requests

\* A step of Create that writes nothing, and does not send.
LEMMA OwnCreatorStep ==
  ASSUME OwnInv, TypeOK', OwnJournal', UNCHANGED <<claim, instances, cleaner>>,
         requests' \subseteq requests,
         creator'.pc \notin {"send", "sent"} \/ creator' = creator,
         creator'.pc = "idle" \/ claim.providerID = None,
         creator'.pc \in {"tag", "publish"} => Matches(creator.inst, creator.launch)'
  PROVE  OwnInv'
  <1>1. OwnRequest'
    BY DEF OwnInv, OwnRequest
  <1>2. OwnInstance'
    BY DEF OwnInv, OwnInstance, Matches
  <1>3. OwnCleanup'
    BY DEF OwnInv, OwnCleanup, Matches
  <1>4. QED
    BY <1>1, <1>2, <1>3 DEF OwnInv

\* Create returns: nothing of it is left.
LEMMA OwnCreatorReturns ==
  ASSUME OwnInv, TypeOK', creator'.pc = "idle", UNCHANGED <<claim, instances, cleaner>>,
         requests' \subseteq requests
  PROVE  OwnInv'
  BY OwnCreatorStep DEF OwnJournal

\* A write to the claim that keeps what it says of the launch; Create and the
\* cleanup go on as they were, or return.
LEMMA OwnWrite ==
  ASSUME OwnInv, TypeOK', NEW c \in NodeClaims, WriteClaim(c), c.rv = claim.rv,
         Same(c.launch, claim.launch), c.providerID = claim.providerID,
         cleaner'.pc # "idle" => Settle(c) = "deleting" /\ "launch" \in c.finalizers,
         UNCHANGED <<instances, requests>>,
         creator' = creator \/ creator'.pc = "idle",
         cleaner' = cleaner \/ cleaner'.pc = "idle"
  PROVE  OwnInv'
  <1>1. /\ claim'.rv = claim.rv + 1 /\ claim'.launch = c.launch
        /\ claim'.finalizers = c.finalizers
        /\ claim'.providerID = c.providerID /\ claim'.phase = Settle(c)
    BY WriteClaimFacts
  <1>2. claim.rv \in Nat /\ creator.rv \in Nat /\ \A r \in requests : r.rv \in Nat
    BY Versions DEF OwnInv
  <1>3. OwnJournal'
    BY SMTT(90), <1>1, <1>2 DEF OwnInv, OwnJournal, Same
  <1>4. OwnRequest'
    BY SMTT(90), <1>1, <1>2 DEF OwnInv, OwnRequest
  <1>5. OwnInstance'
    BY <1>1 DEF OwnInv, OwnInstance, Matches, Same
  <1>6. OwnCleanup'
    BY <1>1 DEF OwnInv, OwnCleanup, Matches, Same
  <1>7. QED
    BY <1>3, <1>4, <1>5, <1>6 DEF OwnInv

\* The journal of a claim is written by Create, on a claim that is live or
\* while the cleanup does not run.
LEMMA OwnJournalWrite ==
  ASSUME OwnInv, TypeOK', NEW c \in NodeClaims, WriteClaim(c), c.rv = claim.rv,
         creator.pc # "idle", cleaner.pc = "idle",
         c.providerID = claim.providerID,
         UNCHANGED <<instances, requests, cleaner>>,
         \/ creator'.pc = "idle"
         \/ /\ creator'.pc \in {"lookup", "send"}
            /\ creator'.rv = claim.rv + 1 /\ Same(creator'.launch, c.launch)
            /\ Settle(c) = "live"
  PROVE  OwnInv'
  <1>1. /\ claim'.rv = claim.rv + 1 /\ claim'.launch = c.launch
        /\ claim'.providerID = c.providerID /\ claim'.phase = Settle(c)
    BY WriteClaimFacts
  <1>2. claim.rv \in Nat /\ creator.rv \in Nat /\ \A r \in requests : r.rv \in Nat
    BY Versions DEF OwnInv
  <1>3. OwnJournal'
    BY SMTT(90), <1>1, <1>2 DEF OwnJournal, Same
  <1>4. OwnRequest'
    BY SMTT(90), <1>1, <1>2 DEF OwnInv, OwnRequest
  <1>5. OwnInstance'
    BY <1>1 DEF OwnInv, OwnInstance
  <1>6. OwnCleanup'
    BY DEF OwnCleanup
  <1>7. QED
    BY <1>3, <1>4, <1>5, <1>6 DEF OwnInv

\* The steps of Create that write the journal or the provider ID.
LEMMA OwnCreateWrites ==
  ASSUME OwnInv, TypeOK',
         \/ CreateCheckpoint \/ CreateSubmit \/ CreateReject \/ CreateReset \/ CreatePublish
  PROVE  OwnInv'
  <1>a. /\ claim \in NodeClaims /\ creator.launch \in launchConfig /\ now \in Nat
        /\ claim.rv \in Nat
    BY DEF OwnInv, TypeOK, Threads, NodeClaims
  <1>b. claim.providerID = None \/ creator.pc = "idle"
    BY DEF OwnInv, OwnInstance
  <1>1. CASE CreateCheckpoint
    <2> DEFINE c == [claim EXCEPT !.launch = creator.launch,
                                  !.finalizers = @ \cup {"launch"}]
    <2>1. CASE claim.phase = "live" /\ claim.launch.state = "none"
      <3>1. /\ c \in NodeClaims /\ c.rv = claim.rv /\ c.launch = creator.launch
            /\ c.providerID = claim.providerID /\ c.phase = "live"
        BY <1>a, <2>1 DEF NodeClaims
      <3>2. WriteClaim(c) /\ creator.pc # "idle" /\ UNCHANGED <<instances, requests, cleaner>>
        BY <1>1, <2>1 DEF CreateCheckpoint
      <3>3. \/ creator'.pc = "idle"
            \/ /\ creator'.pc = "lookup" /\ creator'.rv = claim.rv + 1
               /\ creator'.launch = creator.launch
        <4>1. \/ creator' = Idle
              \/ creator' = [creator EXCEPT !.pc = "lookup", !.rv = claim.rv + 1]
          BY <1>1, <2>1 DEF CreateCheckpoint
        <4>2. creator \in Threads(CreatorPCs)
          BY DEF OwnInv, TypeOK
        <4>3. CASE creator' = Idle
          BY <4>3 DEF Idle
        <4>4. CASE creator' = [creator EXCEPT !.pc = "lookup", !.rv = claim.rv + 1]
          BY <4>2, <4>4 DEF Threads
        <4>5. QED
          BY <4>1, <4>3, <4>4
      <3>4. cleaner.pc = "idle"
        BY <2>1 DEF OwnInv, OwnCleanup
      <3> HIDE DEF c
      <3>5. QED
        BY <3>1, <3>2, <3>3, <3>4, OwnJournalWrite DEF Same, Settle
    <2>2. CASE ~(claim.phase = "live" /\ claim.launch.state = "none")
      BY SMTT(90), <1>1, <2>2, OwnCreatorReturns DEF CreateCheckpoint, Idle
    <2>3. QED
      BY <2>1, <2>2
  <1>2. CASE CreateSubmit
    <2> DEFINE l == [creator.launch EXCEPT !.state = "submitted", !.at = now]
               c == [claim EXCEPT !.launch = l]
    <2>1. CASE Fresh(creator.rv)
      <3>1. claim.phase = "live" /\ cleaner.pc = "idle"
        BY <1>2, <2>1 DEF CreateSubmit, Fresh, OwnInv, OwnJournal, OwnCleanup
      <3>2. l \in launchConfig /\ Same(l, creator.launch)
        BY <1>a, LaunchFacts DEF LaunchStates, launchConfig, Same
      <3>3. /\ c \in NodeClaims /\ c.rv = claim.rv /\ c.launch = l
            /\ c.providerID = claim.providerID /\ c.phase = "live"
        BY <1>a, <3>1, <3>2 DEF NodeClaims
      <3>4. WriteClaim(c) /\ creator.pc # "idle" /\ UNCHANGED <<instances, requests, cleaner>>
        BY <1>2, <2>1 DEF CreateSubmit
      <3>5. \/ creator'.pc = "idle"
            \/ creator'.pc = "send" /\ creator'.rv = claim.rv + 1 /\ creator'.launch = l
        <4>1. \/ creator' = Idle
              \/ creator' = [creator EXCEPT !.pc = "send", !.rv = claim.rv + 1, !.launch = l]
          BY <1>2, <2>1 DEF CreateSubmit
        <4>2. creator \in Threads(CreatorPCs)
          BY DEF OwnInv, TypeOK
        <4> HIDE DEF l
        <4>3. CASE creator' = Idle
          BY <4>3 DEF Idle
        <4>4. CASE creator' = [creator EXCEPT !.pc = "send", !.rv = claim.rv + 1, !.launch = l]
          BY <4>2, <4>4 DEF Threads
        <4>5. QED
          BY <4>1, <4>3, <4>4
      <3> HIDE DEF c, l
      <3>6. QED
        BY <3>1, <3>3, <3>4, <3>5, OwnJournalWrite DEF Same, Settle
    <2>2. CASE ~Fresh(creator.rv)
      BY SMTT(90), <1>2, <2>2, OwnCreatorReturns DEF CreateSubmit, Idle
    <2>3. QED
      BY <2>1, <2>2
  <1>3. CASE CreateReject
    <2> DEFINE l == [creator.launch EXCEPT !.state = "rejected"]
               c == [claim EXCEPT !.launch = l, !.finalizers = @ \cup {"launch"}]
    <2>1. CASE UNCHANGED claim /\ creator' = Idle
      BY <1>3, <2>1, OwnCreatorReturns DEF CreateReject, Idle
    <2>2. CASE ~(UNCHANGED claim /\ creator' = Idle)
      <3>1. /\ claim.launch = creator.launch /\ WriteClaim(c) /\ claim.phase # "gone"
            /\ UNCHANGED <<instances, requests, cleaner>> /\ creator.pc = "reject"
            /\ \/ creator' = Idle
               \/ creator' = [creator EXCEPT !.pc = "recover", !.launch = l, !.rv = claim.rv + 1]
        BY <1>3, <2>2 DEF CreateReject
      <3>2. l \in launchConfig /\ Same(l, creator.launch)
        BY <1>a, LaunchFacts DEF LaunchStates, launchConfig, Same
      <3>3. /\ c \in NodeClaims /\ c.rv = claim.rv /\ c.launch = l /\ c.phase = claim.phase
            /\ c.providerID = claim.providerID /\ "launch" \in c.finalizers
        BY <1>a, <3>2 DEF NodeClaims
      <3>4. \/ creator'.pc = "idle"
            \/ creator'.pc = "recover" /\ creator'.launch = l
        <4>1. creator \in Threads(CreatorPCs)
          BY DEF OwnInv, TypeOK
        <4> HIDE DEF l
        <4>2. CASE creator' = Idle
          BY <4>2 DEF Idle
        <4>3. CASE creator' = [creator EXCEPT !.pc = "recover", !.launch = l, !.rv = claim.rv + 1]
          BY <4>1, <4>3 DEF Threads
        <4>4. QED
          BY <3>1, <4>2, <4>3
      <3>5. /\ claim'.rv = claim.rv + 1 /\ claim'.launch = l
            /\ claim'.finalizers = c.finalizers
            /\ claim'.providerID = claim.providerID /\ claim'.phase = claim.phase
        BY <3>1, <3>3, WriteClaimFacts DEF Settle
      <3> HIDE DEF c, l
      <3>6. OwnJournal' /\ OwnRequest'
        BY SMTT(90), <3>1, <3>4, <3>5, Versions DEF OwnInv, OwnJournal, OwnRequest, Same
      <3>7. OwnInstance'
        BY <1>b, <3>1, <3>4, <3>5 DEF OwnInstance
      <3>8. OwnCleanup'
        BY <3>1, <3>2, <3>3, <3>5 DEF OwnInv, OwnCleanup, Matches, Same
      <3>9. QED
        BY <3>6, <3>7, <3>8 DEF OwnInv
    <2>3. QED
      BY <2>1, <2>2
  <1>4. CASE CreateReset
    <2> DEFINE c == [claim EXCEPT !.launch = NoLaunch, !.finalizers = @ \ {"launch"}]
    <2>1. CASE Fresh(creator.rv)
      <3>1. cleaner.pc = "idle"
        BY <1>4, <2>1 DEF CreateReset, Fresh, OwnInv, OwnJournal, OwnCleanup
      <3>2. c \in NodeClaims /\ c.rv = claim.rv /\ c.providerID = claim.providerID
        BY <1>a, NoLaunchType DEF NodeClaims
      <3>3. /\ WriteClaim(c) /\ creator.pc # "idle" /\ creator'.pc = "idle"
            /\ UNCHANGED <<instances, requests, cleaner>>
        BY <1>4, <2>1 DEF CreateReset, Idle
      <3> HIDE DEF c
      <3>4. QED
        BY <3>1, <3>2, <3>3, OwnJournalWrite
    <2>2. CASE ~Fresh(creator.rv)
      BY <1>4, <2>2, OwnCreatorReturns DEF CreateReset, Idle
    <2>3. QED
      BY <2>1, <2>2
  <1>5. CASE CreatePublish
    <2> DEFINE c == [claim EXCEPT !.providerID = creator.inst]
    <2>1. CASE claim.phase # "gone"
      <3>1. Matches(creator.inst, creator.launch) /\ Same(creator.launch, claim.launch)
        BY <1>5 DEF CreatePublish, OwnInv, OwnInstance, OwnJournal
      <3>2. /\ c \in NodeClaims /\ c.rv = claim.rv /\ c.launch = claim.launch
            /\ c.providerID = creator.inst /\ c.finalizers = claim.finalizers
            /\ c.phase = claim.phase
        BY <1>a, <3>1 DEF NodeClaims, Matches
      <3>3. WriteClaim(c) /\ creator'.pc = "idle" /\ UNCHANGED <<instances, requests, cleaner>>
        BY <1>5, <2>1 DEF CreatePublish, Idle
      <3>4. /\ claim'.rv = claim.rv + 1 /\ claim'.launch = claim.launch
            /\ claim'.finalizers = claim.finalizers
            /\ claim'.providerID = creator.inst
            /\ "launch" \in claim.finalizers => claim'.phase = claim.phase
        BY <3>2, <3>3, WriteClaimFacts DEF Settle
      <3> HIDE DEF c
      <3>5. OwnJournal' /\ OwnRequest'
        BY SMTT(90), <3>3, <3>4, Versions DEF OwnInv, OwnJournal, OwnRequest
      <3>6. OwnInstance'
        BY <3>1, <3>3, <3>4 DEF OwnInstance, Matches, Same
      <3>7. OwnCleanup'
        BY <3>3, <3>4 DEF OwnInv, OwnCleanup, Matches
      <3>8. QED
        BY <3>5, <3>6, <3>7 DEF OwnInv
    <2>2. CASE claim.phase = "gone"
      BY <1>5, <2>2, OwnCreatorReturns DEF CreatePublish, Idle
    <2>3. QED
      BY <2>1, <2>2
  <1>6. QED
    BY <1>1, <1>2, <1>3, <1>4, <1>5

\* The steps of Create that write nothing.
LEMMA OwnCreateReads ==
  ASSUME OwnInv, TypeOK',
         \/ CreateStart \/ CreateLookup \/ CreateSend \/ CreateTimeout \/ CreateResume
         \/ CreateDecide \/ CreateRecover \/ CreateTag \/ CreateError
  PROVE  OwnInv'
  <1>a. /\ creator \in Threads(CreatorPCs) /\ claim.rv \in Nat /\ creator.rv \in Nat
        /\ \A r \in requests : r.rv \in Nat
    BY Versions DEF OwnInv, TypeOK
  <1>b. claim.providerID = None \/ creator.pc = "idle"
    BY DEF OwnInv, OwnInstance
  <1>1. CASE creator'.pc = "idle" /\ UNCHANGED <<claim, instances, cleaner, requests>>
    BY <1>1, OwnCreatorReturns
  <1>2. CASE CreateStart
    <2>1. /\ creator'.pc \in {"prepare", "resume", "reset"}
          /\ creator'.pc # "prepare" => creator'.rv = claim.rv /\ creator'.launch = claim.launch
          /\ claim.phase = "live" /\ claim.providerID = None
          /\ UNCHANGED <<claim, instances, cleaner, requests>>
      BY <1>2 DEF CreateStart, Idle
    <2>2. OwnJournal'
      BY SMTT(90), <1>a, <2>1 DEF OwnJournal, Same
    <2>3. QED
      BY <2>1, <2>2, OwnCreatorStep
  <1>3. CASE /\ creator.pc # "idle" /\ creator'.pc \in {"submit", "recover", "decide", "reset"}
             /\ creator'.launch = creator.launch /\ creator'.rv = creator.rv
             /\ UNCHANGED <<claim, instances, cleaner, requests>>
             /\ creator.pc \in {"lookup", "sent", "resume", "decide"}
             /\ creator.pc = "sent" => creator'.pc = "recover"
    <2>1. OwnJournal'
      BY <1>3 DEF OwnInv, OwnJournal, Same
    <2>2. QED
      BY <1>3, <1>b, <2>1, OwnCreatorStep
  <1>4. CASE CreateSend
    <2>1. CASE UNCHANGED requests
      <3>1. /\ creator' = [creator EXCEPT !.pc = "reject"] \/ creator' = [creator EXCEPT !.pc = "sent"]
            /\ creator.pc = "send" /\ UNCHANGED <<claim, instances, cleaner>>
        BY <1>4 DEF CreateSend
      <3>2. /\ creator'.pc \in {"reject", "sent"} /\ creator'.launch = creator.launch
            /\ creator'.rv = creator.rv
        BY <1>a, <3>1 DEF Threads
      <3>3. OwnJournal' /\ OwnRequest'
        BY SMTT(90), <1>a, <2>1, <3>1, <3>2 DEF OwnInv, OwnJournal, OwnRequest, Same
      <3>4. OwnInstance' /\ OwnCleanup'
        BY <1>b, <3>1, <3>2 DEF OwnInv, OwnInstance, OwnCleanup, Matches
      <3>5. QED
        BY <3>3, <3>4 DEF OwnInv
    <2>2. CASE ~UNCHANGED requests
      <3> DEFINE q == [rv |-> creator.rv, account |-> creator.launch.account,
                       cfg |-> creator.launch.cfg, at |-> creator.launch.at]
      <3>1. /\ creator' = [creator EXCEPT !.pc = "sent"] /\ requests' = requests \cup {q}
            /\ creator.pc = "send" /\ UNCHANGED <<claim, instances, cleaner>>
        BY <1>4, <2>2 DEF CreateSend
      <3>2. creator'.pc = "sent" /\ creator'.launch = creator.launch /\ creator'.rv = creator.rv
        BY <1>a, <3>1 DEF Threads
      <3>3. q.rv = creator.rv /\ Same(q, creator.launch)
        BY DEF Same
      <3> HIDE DEF q
      <3>4. OwnJournal'
        BY <3>1, <3>2 DEF OwnInv, OwnJournal, Same
      <3>5. OwnRequest'
        BY SMTT(90), <1>a, <3>1, <3>2, <3>3 DEF OwnInv, OwnJournal, OwnRequest
      <3>6. OwnInstance' /\ OwnCleanup'
        BY <1>b, <3>1, <3>2 DEF OwnInv, OwnInstance, OwnCleanup, Matches
      <3>7. QED
        BY <3>4, <3>5, <3>6 DEF OwnInv
    <2>3. QED
      BY <2>1, <2>2
  <1>5. CASE /\ creator.pc \in {"resume", "recover"}
             /\ UNCHANGED <<claim, instances, cleaner, requests>>
             /\ \E i \in InstanceIDs : /\ Found(i, creator.launch)
                                       /\ creator' = [creator EXCEPT !.pc = "tag", !.inst = i]
    <2>1. PICK i \in InstanceIDs : /\ Found(i, creator.launch)
                                   /\ creator' = [creator EXCEPT !.pc = "tag", !.inst = i]
      BY <1>5
    <2>2. creator'.pc = "tag" /\ creator'.inst = i /\ creator'.launch = creator.launch
      BY <1>a, <2>1 DEF Threads
    <2>3. Matches(i, creator.launch)
      BY <2>1 DEF Found, Visible, Exists, Matches, Same
    <2>4. Matches(creator.inst, creator.launch)'
      BY <1>5, <2>2, <2>3 DEF Matches, Same
    <2>5. OwnJournal'
      BY <1>5, <2>2 DEF OwnInv, OwnJournal, Same
    <2>6. QED
      BY <1>5, <1>b, <2>2, <2>4, <2>5, OwnCreatorStep
  <1>6. CASE /\ creator.pc = "tag" /\ creator' = [creator EXCEPT !.pc = "publish"]
             /\ UNCHANGED <<claim, instances, cleaner, requests>>
    <2>1. creator'.pc = "publish" /\ creator'.inst = creator.inst /\ creator'.launch = creator.launch
      BY <1>6, <1>a DEF Threads
    <2>2. OwnJournal' /\ Matches(creator.inst, creator.launch)'
      BY <1>6, <2>1 DEF OwnInv, OwnJournal, OwnInstance, Matches, Same
    <2>3. QED
      BY <1>6, <1>b, <2>1, <2>2, OwnCreatorStep
  <1>7. CASE CreateLookup
    <2>1. \/ creator' = Idle
          \/ creator' = [creator EXCEPT !.pc = "submit"]
          \/ creator' = [creator EXCEPT !.pc = "recover"]
      BY <1>7 DEF CreateLookup
    <2>2. creator.pc = "lookup" /\ UNCHANGED <<claim, instances, cleaner, requests>>
      BY <1>7 DEF CreateLookup
    <2>3. QED
      BY SMTT(90), <1>1, <1>3, <1>a, <2>1, <2>2 DEF Threads, Idle
  <1>8. CASE CreateTimeout
    BY <1>3, <1>8, <1>a DEF CreateTimeout, Threads
  <1>9. CASE CreateResume
    <2>1. \/ creator' = Idle
          \/ creator' = [creator EXCEPT !.pc = "decide", !.since = now]
          \/ \E i \in InstanceIDs : /\ Found(i, creator.launch)
                                    /\ creator' = [creator EXCEPT !.pc = "tag", !.inst = i]
      BY <1>9 DEF CreateResume
    <2>2. creator.pc = "resume" /\ UNCHANGED <<claim, instances, cleaner, requests>>
      BY <1>9 DEF CreateResume
    <2>3. CASE creator' = [creator EXCEPT !.pc = "decide", !.since = now]
      BY <1>3, <1>a, <2>2, <2>3 DEF Threads
    <2>4. CASE creator' = Idle
      BY <1>1, <2>2, <2>4 DEF Idle
    <2>5. QED
      BY <1>5, <2>1, <2>2, <2>3, <2>4
  <1>10. CASE CreateDecide
    <2>1. \/ creator' = Idle
          \/ creator' = [creator EXCEPT !.pc = "reset"]
      BY <1>10 DEF CreateDecide
    <2>2. creator.pc = "decide" /\ UNCHANGED <<claim, instances, cleaner, requests>>
      BY <1>10 DEF CreateDecide
    <2>3. QED
      BY SMTT(90), <1>1, <1>3, <1>a, <2>1, <2>2 DEF Threads, Idle
  <1>11. CASE CreateRecover
    <2>1. \/ creator' = Idle
          \/ \E i \in InstanceIDs : /\ Found(i, creator.launch)
                                    /\ creator' = [creator EXCEPT !.pc = "tag", !.inst = i]
      BY <1>11 DEF CreateRecover
    <2>2. creator.pc = "recover" /\ UNCHANGED <<claim, instances, cleaner, requests>>
      BY <1>11 DEF CreateRecover
    <2>3. CASE creator' = Idle
      BY <1>1, <2>2, <2>3 DEF Idle
    <2>4. QED
      BY <1>5, <2>1, <2>2, <2>3
  <1>12. CASE CreateTag
    BY <1>1, <1>6, <1>12 DEF CreateTag, Idle
  <1>13. CASE CreateError
    BY <1>1, <1>13 DEF CreateError, Idle
  <1>14. QED
    BY <1>2, <1>4, <1>7, <1>8, <1>9, <1>10, <1>11, <1>12, <1>13

\* A step of the cleanup that writes nothing: it returns, goes on with what it
\* holds, or has found the instance.
LEMMA OwnCleanerStep ==
  ASSUME OwnInv, TypeOK', UNCHANGED <<claim, instances, requests, creator>>,
         \/ cleaner'.pc = "idle"
         \/ /\ cleaner.pc # "idle" /\ cleaner'.launch = cleaner.launch
            /\ cleaner'.pc \in {"nodes", "delete", "verify"} =>
                  Matches(cleaner'.inst, cleaner.launch)
  PROVE  OwnInv'
  <1>1. OwnJournal' /\ OwnRequest' /\ OwnInstance'
    BY DEF OwnInv, OwnJournal, OwnRequest, OwnInstance, Matches
  <1>2. OwnCleanup'
    BY DEF OwnInv, OwnCleanup, Matches
  <1>3. QED
    BY <1>1, <1>2 DEF OwnInv

\* Every instance keeps what it was born with, and stays born.
LEMMA OwnInstancesChange ==
  ASSUME OwnInv, TypeOK', UNCHANGED <<claim, requests, creator>>,
         \A i \in InstanceIDs :
            /\ instances[i].status # "unborn" => instances'[i].status # "unborn"
            /\ Same(instances'[i], instances[i]),
         cleaner'.launch = cleaner.launch /\ cleaner'.inst = cleaner.inst,
         \/ cleaner'.pc = cleaner.pc
         \/ cleaner.pc = "delete" /\ cleaner'.pc = "verify"
  PROVE  OwnInv'
  <1>1. \A i, l : Matches(i, l) =>
           /\ i \in InstanceIDs /\ instances'[i].status # "unborn" /\ Same(instances'[i], l)
    BY DEF Matches, Same
  <1>2. OwnJournal' /\ OwnRequest'
    BY DEF OwnInv, OwnJournal, OwnRequest
  <1>3. OwnInstance'
    BY <1>1 DEF OwnInv, OwnInstance, Matches
  <1>4. OwnCleanup'
    BY <1>1 DEF OwnInv, OwnCleanup, Matches
  <1>5. QED
    BY <1>2, <1>3, <1>4 DEF OwnInv

\* The status of one instance is replaced.
LEMMA StatusFacts ==
  ASSUME TypeOK, NEW i \in InstanceIDs, NEW s, s # "unborn",
         instances' = [instances EXCEPT ![i].status = s]
  PROVE  \A j \in InstanceIDs :
            /\ instances[j].status # "unborn" => instances'[j].status # "unborn"
            /\ Same(instances'[j], instances[j])
  BY DEF TypeOK, Instances, Same

\* Every step of the allocation controller keeps the invariant.
LEMMA OwnClean ==
  ASSUME OwnInv, TypeOK', CleanNext \/ CleanError
  PROVE  OwnInv'
  <1>a. cleaner \in Threads(CleanerPCs) /\ claim \in NodeClaims /\ TypeOK
    BY DEF OwnInv, TypeOK
  <1>1. CASE CleanRead
    <2>1. /\ cleaner'.pc \in {"confirm", "find"} /\ cleaner'.launch = claim.launch
          /\ claim.phase = "deleting" /\ "launch" \in claim.finalizers
          /\ UNCHANGED <<claim, instances, requests, creator>>
      BY <1>1 DEF CleanRead, Idle
    <2>2. OwnJournal' /\ OwnRequest' /\ OwnInstance'
      BY <2>1 DEF OwnInv, OwnJournal, OwnRequest, OwnInstance, Matches
    <2>3. OwnCleanup'
      BY <2>1 DEF OwnCleanup, Same
    <2>4. QED
      BY <2>2, <2>3 DEF OwnInv
  <1>2. CASE CleanConfirm \/ CleanVerify
    <2>1. /\ cleaner' = Idle \/ cleaner' = [cleaner EXCEPT !.pc = "release"]
          /\ cleaner.pc # "idle" /\ UNCHANGED <<claim, instances, requests, creator>>
      BY <1>2 DEF CleanConfirm, CleanVerify
    <2>2. QED
      BY SMTT(90), <1>a, <2>1, OwnCleanerStep DEF Threads, Idle
  <1>3. CASE CleanFind
    <2>1. /\ \/ cleaner' = Idle
             \/ cleaner' = [cleaner EXCEPT !.pc = "decide", !.since = now]
             \/ \E i \in InstanceIDs : /\ Found(i, cleaner.launch)
                                       /\ cleaner' = [cleaner EXCEPT !.pc = "nodes", !.inst = i]
          /\ cleaner.pc # "idle" /\ UNCHANGED <<claim, instances, requests, creator>>
      BY <1>3 DEF CleanFind
    <2>2. CASE cleaner' = Idle
      BY <2>1, <2>2, OwnCleanerStep DEF Idle
    <2>3. CASE cleaner' = [cleaner EXCEPT !.pc = "decide", !.since = now]
      <3>1. cleaner'.pc = "decide" /\ cleaner'.launch = cleaner.launch
        BY <1>a, <2>3 DEF Threads
      <3>2. QED
        BY <2>1, <3>1, OwnCleanerStep
    <2>4. ASSUME NEW i \in InstanceIDs, Found(i, cleaner.launch),
                 cleaner' = [cleaner EXCEPT !.pc = "nodes", !.inst = i]
          PROVE  OwnInv'
      <3>1. cleaner'.launch = cleaner.launch /\ cleaner'.inst = i
        BY <1>a, <2>4 DEF Threads
      <3>2. Matches(i, cleaner.launch)
        BY <2>4 DEF Found, Visible, Exists, Matches, Same
      <3>3. QED
        BY <2>1, <3>1, <3>2, OwnCleanerStep
    <2>5. QED
      BY <2>1, <2>2, <2>3, <2>4
  <1>4. CASE CleanDecide
    <2>1. /\ cleaner' = Idle \/ cleaner' = [cleaner EXCEPT !.pc = "release"]
          /\ cleaner.pc # "idle" /\ UNCHANGED <<claim, instances, requests, creator>>
      BY <1>4 DEF CleanDecide
    <2>2. QED
      BY SMTT(90), <1>a, <2>1, OwnCleanerStep DEF Threads, Idle
  <1>5. CASE CleanNodes
    <2>1. /\ cleaner' = Idle \/ cleaner' = [cleaner EXCEPT !.pc = "delete"]
          /\ cleaner.pc = "nodes" /\ UNCHANGED <<claim, instances, requests, creator>>
      BY <1>5 DEF CleanNodes
    <2>2. Matches(cleaner.inst, cleaner.launch)
      BY <2>1 DEF OwnInv, OwnCleanup
    <2>3. CASE cleaner' = Idle
      BY <2>1, <2>3, OwnCleanerStep DEF Idle
    <2>4. CASE cleaner' = [cleaner EXCEPT !.pc = "delete"]
      <3>1. cleaner'.launch = cleaner.launch /\ cleaner'.inst = cleaner.inst
        BY <1>a, <2>4 DEF Threads
      <3>2. QED
        BY <2>1, <2>2, <3>1, OwnCleanerStep
    <2>5. QED
      BY <2>1, <2>3, <2>4
  <1>6. CASE CleanDelete
    <2>1. /\ cleaner.inst \in InstanceIDs /\ instances[cleaner.inst].status # "unborn"
          /\ cleaner.pc = "delete"
      BY <1>6 DEF CleanDelete, OwnInv, OwnCleanup, Matches
    <2>2. PICK t : /\ t # "unborn"
                   /\ instances' = [instances EXCEPT ![cleaner.inst].status = t]
      BY <1>6, <2>1 DEF CleanDelete
    <2>3. /\ cleaner'.pc = "verify" /\ cleaner'.launch = cleaner.launch
          /\ cleaner'.inst = cleaner.inst /\ UNCHANGED <<claim, requests, creator>>
      BY <1>6, <1>a DEF CleanDelete, Threads
    <2>4. QED
      BY <1>a, <2>1, <2>2, <2>3, StatusFacts, OwnInstancesChange
  <1>7. CASE CleanRelease
    <2> DEFINE c == [claim EXCEPT !.finalizers = @ \ {"launch"}]
    <2>1. cleaner'.pc = "idle" /\ UNCHANGED <<instances, requests, creator>>
      BY <1>7 DEF CleanRelease, Idle
    <2>2. CASE UNCHANGED claim
      BY <2>1, <2>2, OwnCleanerStep
    <2>3. CASE WriteClaim(c)
      <3>1. /\ c \in NodeClaims /\ c.rv = claim.rv /\ c.launch = claim.launch
            /\ c.providerID = claim.providerID
        BY <1>a DEF NodeClaims
      <3> HIDE DEF c
      <3>2. QED
        BY <2>1, <2>3, <3>1, OwnWrite DEF Same
    <2>4. QED
      BY <1>7, <2>2, <2>3 DEF CleanRelease
  <1>8. CASE CleanError
    BY <1>8, OwnCleanerStep DEF CleanError, Idle
  <1>9. QED
    BY <1>1, <1>2, <1>3, <1>4, <1>5, <1>6, <1>7, <1>8 DEF CleanNext

\* A step that leaves the claim, the cloud and both calls alone.
LEMMA OwnClaimKept ==
  ASSUME OwnInv, TypeOK', UNCHANGED <<claim, instances, requests, creator, cleaner>>
  PROVE  OwnInv'
  BY DEF OwnInv, OwnJournal, OwnRequest, OwnInstance, OwnCleanup, Matches

\* The steps of Karpenter core and of other writers keep the invariant.
LEMMA OwnCore ==
  ASSUME OwnInv, TypeOK', CoreNext \/ DeleteClaim \/ OtherWrite
  PROVE  OwnInv'
  <1>a. claim \in NodeClaims /\ TypeOK
    BY DEF OwnInv, TypeOK
  <1>b. cleaner.pc # "idle" => claim.phase = "deleting" /\ "launch" \in claim.finalizers
    BY DEF OwnInv, OwnCleanup
  <1>1. ASSUME WriteClaim([claim EXCEPT !.finalizers = @ \ {"core"}]),
               UNCHANGED <<instances, requests, creator, cleaner>>
        PROVE  OwnInv'
    <2> DEFINE c == [claim EXCEPT !.finalizers = @ \ {"core"}]
    <2>1. /\ c \in NodeClaims /\ c.rv = claim.rv /\ c.launch = claim.launch
          /\ c.providerID = claim.providerID /\ c.phase = claim.phase
          /\ c.finalizers = claim.finalizers \ {"core"}
      BY <1>a DEF NodeClaims
    <2> HIDE DEF c
    <2>2. cleaner.pc # "idle" => Settle(c) = "deleting" /\ "launch" \in c.finalizers
      BY <1>b, <2>1 DEF Settle
    <2>3. WriteClaim(c)
      BY <1>1 DEF c
    <2>4. QED
      BY <1>1, <2>1, <2>2, <2>3, OwnWrite DEF Same
  <1>2. CASE ProviderDelete
    <2>1. /\ claim.providerID \in InstanceIDs
          /\ UNCHANGED <<requests, creator, cleaner>>
      BY <1>2, <1>a DEF ProviderDelete, NodeClaims
    <2>2. CASE UNCHANGED instances
      BY <1>1, <1>2, <2>1, <2>2, OwnClaimKept DEF ProviderDelete
    <2>3. CASE /\ instances' = [instances EXCEPT ![claim.providerID].status = "deleting"]
               /\ UNCHANGED claim
      BY <1>a, <2>1, <2>3, StatusFacts, OwnInstancesChange
    <2>4. QED
      BY <1>2, <2>2, <2>3 DEF ProviderDelete
  <1>3. CASE CoreFinalize
    BY <1>1, <1>3 DEF CoreFinalize
  <1>4. CASE CoreDrain
    BY <1>4, OwnClaimKept DEF CoreDrain
  <1>5. CASE DeleteClaim
    <2> DEFINE c == [claim EXCEPT !.phase = "deleting"]
    <2>1. /\ c \in NodeClaims /\ c.rv = claim.rv /\ c.launch = claim.launch
          /\ c.providerID = claim.providerID
      BY <1>a DEF NodeClaims
    <2>2. WriteClaim(c) /\ UNCHANGED <<instances, requests, creator, cleaner>> /\ cleaner.pc = "idle"
      BY <1>5, <1>b DEF DeleteClaim
    <2> HIDE DEF c
    <2>3. QED
      BY <2>1, <2>2, OwnWrite DEF Same
  <1>6. CASE OtherWrite
    <2>1. WriteClaim(claim) /\ UNCHANGED <<instances, requests, creator, cleaner>>
      BY <1>6 DEF OtherWrite
    <2>2. cleaner.pc # "idle" => Settle(claim) = "deleting"
      BY <1>b DEF Settle
    <2>3. QED
      BY <1>a, <1>b, <2>1, <2>2, OwnWrite DEF Same
  <1>7. QED
    BY <1>2, <1>3, <1>4, <1>5, <1>6 DEF CoreNext

\* The cloud's decision on a request keeps the invariant: the instance has the
\* request's description, and only the call that sent this request takes it.
LEMMA OwnCloud ==
  ASSUME OwnInv, TypeOK', NEW r \in requests,
         CloudReject(r) \/ CloudDrop(r) \/ \E i \in InstanceIDs : CloudAccept(r, i)
  PROVE  OwnInv'
  <1>a. creator \in Threads(CreatorPCs) /\ TypeOK
    BY DEF OwnInv, TypeOK
  <1>b. claim.providerID = None \/ creator.pc = "idle"
    BY DEF OwnInv, OwnInstance
  <1>1. CASE CloudReject(r) \/ CloudDrop(r)
    <2>1. /\ \/ creator' = creator
             \/ /\ creator.pc = "sent"
                /\ \E pc \in {"reject", "recover"} : creator' = [creator EXCEPT !.pc = pc]
          /\ requests' \subseteq requests /\ UNCHANGED <<claim, instances, cleaner>>
      BY <1>1 DEF CloudReject, CloudDrop, Waiting
    <2>2. CASE creator' = creator
      <3>1. OwnJournal'
        BY <2>1, <2>2 DEF OwnInv, OwnJournal
      <3>2. Matches(creator.inst, creator.launch)' <=> Matches(creator.inst, creator.launch)
        BY <2>1, <2>2 DEF Matches, Same
      <3>3. QED
        BY <1>b, <2>1, <2>2, <3>1, <3>2, OwnCreatorStep DEF OwnInv, OwnInstance
    <2>3. CASE creator' # creator
      <3>1. creator.pc = "sent" /\ creator'.pc \in {"reject", "recover"} /\ creator'.launch = creator.launch
        BY <1>a, <2>1, <2>3 DEF Threads
      <3>2. OwnJournal'
        BY <2>1, <3>1 DEF OwnInv, OwnJournal, Same
      <3>3. QED
        BY <1>b, <2>1, <3>1, <3>2, OwnCreatorStep
    <2>4. QED
      BY <2>2, <2>3
  <1>2. ASSUME NEW i \in InstanceIDs, CloudAccept(r, i) PROVE OwnInv'
    <2>1. /\ instances[i].status = "unborn" /\ requests' \subseteq requests
          /\ UNCHANGED <<claim, cleaner>>
      BY <1>2 DEF CloudAccept
    <2>2. /\ instances'[i].status # "unborn" /\ Same(instances'[i], r)
          /\ \A j \in InstanceIDs : j # i => instances'[j] = instances[j]
      BY <1>2, <1>a DEF CloudAccept, TypeOK, Same
    <2>3. \A j, l : Matches(j, l) =>
             j \in InstanceIDs /\ instances'[j].status # "unborn" /\ Same(instances'[j], l)
      BY <2>1, <2>2 DEF Matches
    <2>4. OwnCleanup'
      BY <2>1, <2>3 DEF OwnInv, OwnCleanup, Matches
    <2>5. CASE creator' = creator
      <3>1. OwnJournal' /\ OwnRequest'
        BY <2>1, <2>5 DEF OwnInv, OwnJournal, OwnRequest
      <3>2. OwnInstance'
        BY <2>1, <2>3, <2>5 DEF OwnInv, OwnInstance, Matches
      <3>3. QED
        BY <2>4, <3>1, <3>2 DEF OwnInv
    <2>6. CASE creator' # creator
      <3>1. /\ creator.pc = "sent" /\ creator.rv = r.rv
            /\ \/ creator' = [creator EXCEPT !.pc = "tag", !.inst = i]
               \/ creator' = [creator EXCEPT !.pc = "recover"]
        BY <1>2, <2>6 DEF CloudAccept, Waiting
      <3>2. Same(r, creator.launch)
        BY <3>1 DEF OwnInv, OwnRequest
      <3>3. /\ creator'.launch = creator.launch /\ creator'.pc \in {"tag", "recover"}
            /\ creator'.pc = "tag" => creator'.inst = i
        <4>1. CASE creator' = [creator EXCEPT !.pc = "tag", !.inst = i]
          BY <1>a, <4>1 DEF Threads
        <4>2. CASE creator' = [creator EXCEPT !.pc = "recover"]
          BY <1>a, <4>2 DEF Threads
        <4>3. QED
          BY <3>1, <4>1, <4>2
      <3>4. OwnJournal' /\ OwnRequest'
        BY <2>1, <3>1, <3>3 DEF OwnInv, OwnJournal, OwnRequest, Same
      <3>5. OwnInstance'
        BY <1>b, <2>1, <2>2, <3>1, <3>2, <3>3 DEF OwnInstance, Matches, Same
      <3>6. QED
        BY <2>4, <3>4, <3>5 DEF OwnInv
    <2>7. QED
      BY <2>5, <2>6
  <1>3. QED
    BY <1>1, <1>2

\* The invariant is inductive.
LEMMA OwnNext == OwnInv /\ [Next]_vars => OwnInv'
  <1> SUFFICES ASSUME OwnInv, [Next]_vars PROVE OwnInv'
    OBVIOUS
  <1>a. TypeOK /\ TypeOK'
    BY TypeNext DEF OwnInv
  <1>1. CASE CreateNext \/ CreateTimeout \/ CreateError
    BY <1>1, <1>a, OwnCreateWrites, OwnCreateReads DEF CreateNext
  <1>2. CASE CleanNext \/ CleanError
    BY <1>2, <1>a, OwnClean
  <1>3. CASE CoreNext \/ DeleteClaim \/ OtherWrite
    BY <1>3, <1>a, OwnCore
  <1>4. CASE CloudDecides
    BY <1>4, <1>a, OwnCloud DEF CloudDecides
  <1>5. ASSUME NEW i \in InstanceIDs, CloudGone(i) PROVE OwnInv'
    <2>1. /\ instances' = [instances EXCEPT ![i].status = "gone"]
          /\ UNCHANGED <<claim, requests, creator, cleaner>>
      BY <1>5 DEF CloudGone
    <2>2. QED
      BY <1>a, <2>1, StatusFacts, OwnInstancesChange
  <1>6. CASE (\E i \in InstanceIDs : NodeRegister(i)) \/ CoreRegister \/ NodeGone \/ Tick
             \/ UNCHANGED vars
    BY <1>6, <1>a, OwnClaimKept DEF NodeRegister, CoreRegister, NodeGone, Tick, vars
  <1>7. CASE Restart
    <2>1. creator'.pc = "idle" /\ cleaner'.pc = "idle" /\ UNCHANGED <<claim, instances, requests>>
      BY <1>7 DEF Restart, Idle
    <2>2. QED
      BY <1>a, <2>1 DEF OwnInv, OwnJournal, OwnRequest, OwnInstance, OwnCleanup, Matches
  <1>8. QED
    BY <1>1, <1>2, <1>3, <1>4, <1>5, <1>6, <1>7 DEF Next

\* The invariant holds of every behaviour: the claim starts without a provider
\* ID, and with no call in progress.
LEMMA OwnAlways == Spec => []OwnInv
  <1>1. Init => OwnInv
    <2> SUFFICES ASSUME Init PROVE OwnInv
      OBVIOUS
    <2>1. creator.pc = "idle" /\ cleaner.pc = "idle" /\ requests = {} /\ claim.providerID = None
      BY DEF Init, Idle
    <2>2. QED
      BY <2>1, TypeInit DEF OwnInv, OwnJournal, OwnRequest, OwnInstance, OwnCleanup
  <1>2. QED
    BY <1>1, OwnNext, PTL DEF Spec

\* Create returns, and the claim publishes, only an instance that has the
\* configuration and account journalled on the claim, however late the cloud
\* decides a request and however often the process restarts.
THEOREM PublishesOnlyOwn == Spec => []PublishesOwn
  <1>1. OwnInv => PublishesOwn
    BY DEF OwnInv, OwnJournal, OwnInstance, Matches, Same, PublishesOwn
  <1>2. QED
    BY <1>1, OwnAlways, PTL

\* The provider deletes an instance only for a deleted claim, and only the one
\* its journal describes: this too needs no assumption on the cloud's latency.
THEOREM DeletesOnlyOwn == Spec => DeletesOwn
  <1> DEFINE Mine(i) == claim.phase = "deleting" /\ claim.launch.cfg = instances[i].cfg
             Turned(i) == instances[i].status = "running" /\ instances'[i].status = "deleting"
  <1>1. ASSUME OwnInv, Next, NEW i \in InstanceIDs, Turned(i) PROVE Mine(i)
    <2>a. TypeOK
      BY <1>1 DEF OwnInv
    <2>1. CASE CleanDelete
      <3>1. /\ claim.phase = "deleting" /\ Same(cleaner.launch, claim.launch)
            /\ Matches(cleaner.inst, cleaner.launch)
        BY <1>1, <2>1 DEF CleanDelete, OwnInv, OwnCleanup
      <3>2. i = cleaner.inst
        BY <1>1, <2>1, <2>a DEF CleanDelete, TypeOK
      <3>3. QED
        BY <3>1, <3>2 DEF Matches, Same
    <2>2. CASE ProviderDelete
      <3>1. claim.phase = "deleting" /\ Matches(claim.providerID, claim.launch)
        BY <1>1, <2>2 DEF ProviderDelete, OwnInv, OwnInstance
      <3>2. i = claim.providerID
        BY <1>1, <2>2, <2>a DEF ProviderDelete, TypeOK
      <3>3. QED
        BY <3>1, <3>2 DEF Matches, Same
    <2>3. ASSUME NEW j \in InstanceIDs, CloudGone(j) PROVE FALSE
      BY <1>1, <2>3, <2>a DEF CloudGone, TypeOK, Instances
    <2>4. ASSUME NEW r \in requests, NEW j \in InstanceIDs, CloudAccept(r, j) PROVE FALSE
      BY <1>1, <2>4, <2>a DEF CloudAccept, TypeOK, Instances
    <2>5. CASE UNCHANGED instances
      BY <1>1, <2>5
    <2>6. CASE CreateNext \/ CreateTimeout \/ CreateError
      BY <2>5, <2>6
         DEF CreateNext, CreateTimeout, CreateError, CreateStart, CreateCheckpoint,
             CreateLookup, CreateSubmit, CreateSend, CreateReject, CreateResume,
             CreateDecide, CreateReset, CreateRecover, CreateTag, CreatePublish
    <2>7. CASE CleanNext \/ CleanError
      BY <2>1, <2>5, <2>7
         DEF CleanNext, CleanError, CleanRead, CleanConfirm, CleanFind, CleanDecide,
             CleanNodes, CleanVerify, CleanRelease
    <2>8. CASE CoreNext
      BY <2>2, <2>5, <2>8 DEF CoreNext, CoreFinalize, CoreDrain
    <2>9. CASE CloudDecides
      BY <2>4, <2>5, <2>9 DEF CloudDecides, CloudReject, CloudDrop
    <2>10. QED
      BY <1>1, <2>3, <2>5, <2>6, <2>7, <2>8, <2>9
         DEF Next, NodeRegister, CoreRegister, NodeGone, DeleteClaim, OtherWrite,
             Restart, Tick
  <1>2. OwnInv /\ [Next]_vars =>
           [\A i \in InstanceIDs :
               instances[i].status = "running" /\ instances'[i].status = "deleting" =>
                  /\ claim.phase = "deleting"
                  /\ claim.launch.cfg = instances[i].cfg]_vars
    BY <1>1
  <1>3. QED
    BY <1>2, OwnAlways, PTL DEF Spec, DeletesOwn

\* What the launchResolutionWindow has to cover: the time a request may take
\* to be decided and the time from an empty lookup to the decision on it.
Timely == MaxLatency + MaxLookup <= Window

\* No instance exists and none can appear.
Quiet ==
    /\ \A i \in InstanceIDs : ~Exists(i)
    /\ requests = {}
    /\ creator.pc # "send"

\* No instance but i exists and none can appear.
Sole(i) ==
    /\ \A j \in InstanceIDs : Exists(j) => j = i
    /\ requests = {}
    /\ creator.pc # "send"

\* A request in flight, and one about to be sent, is the journalled one, and is
\* within the latency assumed of it.  A live claim with a journal holds its
\* finalizer.
Journalled ==
    /\ \A r \in requests : claim.launch.at = r.at /\ now <= r.at + MaxLatency
    /\ creator.pc = "send" =>
          /\ claim.launch = creator.launch
          /\ Owned(creator.launch.cfg, creator.launch.account)
          /\ now <= creator.launch.at + MaxLatency
    /\ claim.phase = "live" /\ claim.launch.state # "none" => "launch" \in claim.finalizers

\* At most one request is in flight.
OneRequest ==
    /\ \A r, s \in requests : r = s
    /\ creator.pc = "send" => requests = {}

\* What Create knows of the claim it read.
CreatorView ==
    /\ creator.pc \in {"prepare", "lookup", "submit"} => creator.launch.state = "prepared"
    /\ creator.pc \in {"lookup", "submit", "resume", "decide", "reset"} =>
          /\ creator.rv <= claim.rv
          /\ creator.rv = claim.rv => claim.phase = "live" /\ claim.launch = creator.launch
    /\ creator.pc \in {"resume", "decide"} => creator.launch.state = "submitted"
    /\ creator.pc = "decide" =>
          /\ creator.since <= now
          /\ now <= creator.since + MaxLookup
          /\ creator.rv = claim.rv =>
                Quiet \/ creator.since <= creator.launch.at + MaxLatency
    /\ creator.pc = "reset" /\ creator.rv = claim.rv => Quiet
    /\ creator.pc = "reject" => Quiet
    /\ creator.pc \in {"tag", "publish"} => creator.inst \in InstanceIDs /\ Sole(creator.inst)
    /\ claim.providerID # None => creator.pc = "idle" /\ Sole(claim.providerID)

\* What the allocation controller knows of the claim it read.
CleanerView ==
    /\ cleaner.pc # "idle" =>
          /\ cleaner.rv <= claim.rv
          /\ cleaner.launch.account = account
          /\ cleaner.rv = claim.rv => claim.phase = "deleting" /\ claim.launch = cleaner.launch
    /\ cleaner.pc \in {"confirm", "nodes", "delete", "verify"} => cleaner.inst \in InstanceIDs
    /\ cleaner.pc \in {"confirm", "nodes", "delete", "verify"} /\ cleaner.rv = claim.rv =>
          Sole(cleaner.inst)
    /\ cleaner.pc = "decide" =>
          /\ cleaner.since <= now
          /\ now <= cleaner.since + MaxLookup
          /\ cleaner.rv = claim.rv =>
                \/ Quiet
                \/ /\ cleaner.launch.state = "submitted"
                   /\ cleaner.since <= cleaner.launch.at + MaxLatency
    /\ cleaner.pc = "release" /\ cleaner.rv = claim.rv => Quiet

\* The inductive invariant.
IInv ==
    /\ TypeOK
    /\ NoLeak
    /\ AtMostOne
    /\ Journalled
    /\ OneRequest
    /\ CreatorView
    /\ CleanerView

-----------------------------------------------------------------------------
(* Ownership: the steps of one thread leave the other's view alone *)

\* The numbers that the arithmetic of the proofs is about.
LEMMA FieldTypes ==
  ASSUME TypeOK
  PROVE  /\ now \in Nat /\ claim.rv \in Nat /\ claim.launch.at \in Nat
         /\ creator.rv \in Nat /\ creator.since \in Nat /\ creator.launch.at \in Nat
         /\ cleaner.rv \in Nat /\ cleaner.since \in Nat /\ cleaner.launch.at \in Nat
         /\ \A r \in requests : r.at \in Nat
         /\ MaxLatency \in Nat /\ MaxLookup \in Nat /\ Window \in Nat
  BY ConstantsAssumption DEF TypeOK, NodeClaims, Threads, launchConfig, Requests

\* Only Create moved, and it is not about to send.
LEMMA CreatorFrame ==
  ASSUME IInv, UNCHANGED <<now, claim, instances, requests, account, cleaner>>,
         creator'.pc # "send"
  PROVE  NoLeak' /\ AtMostOne' /\ Journalled' /\ OneRequest' /\ CleanerView'
  <1>1. NoLeak'
    BY DEF IInv, NoLeak, Owned, Exists
  <1>2. AtMostOne'
    BY DEF IInv, AtMostOne, Exists
  <1>3. Journalled'
    BY DEF IInv, Journalled
  <1>4. OneRequest'
    BY DEF IInv, OneRequest
  <1>5. Quiet => Quiet'
    BY DEF Quiet, Exists
  <1>6. \A i : Sole(i) => Sole(i)'
    BY DEF Sole, Exists
  <1>7. CleanerView'
    BY <1>5, <1>6 DEF IInv, CleanerView
  <1>8. QED
    BY <1>1, <1>2, <1>3, <1>4, <1>7

\* Only the allocation controller moved.
LEMMA CleanerFrame ==
  ASSUME IInv, UNCHANGED <<now, claim, instances, requests, account, creator>>
  PROVE  NoLeak' /\ AtMostOne' /\ Journalled' /\ OneRequest' /\ CreatorView'
  <1>1. NoLeak'
    BY DEF IInv, NoLeak, Owned, Exists
  <1>2. AtMostOne'
    BY DEF IInv, AtMostOne, Exists
  <1>3. Journalled'
    BY DEF IInv, Journalled, Owned
  <1>4. OneRequest'
    BY DEF IInv, OneRequest
  <1>5. Quiet => Quiet'
    BY DEF Quiet, Exists
  <1>6. \A i : Sole(i) => Sole(i)'
    BY DEF Sole, Exists
  <1>7. CreatorView'
    BY <1>5, <1>6 DEF IInv, CreatorView
  <1>8. QED
    BY <1>1, <1>2, <1>3, <1>4, <1>7

\* An instance or a request keeps the journal submitted and the claim in place.
LEMMA NotQuiet ==
  ASSUME IInv, ~Quiet
  PROVE  /\ claim.launch.state = "submitted"
         /\ claim.phase # "gone"
         /\ "launch" \in claim.finalizers
  BY DEF IInv, NoLeak, Journalled, Owned, Quiet

\* A lookup that returns an instance has found the only one.
LEMMA FoundSole ==
  ASSUME IInv, NEW i \in InstanceIDs, NEW l, Found(i, l)
  PROVE  Exists(i) /\ Sole(i)
  <1>1. Exists(i)
    BY DEF Found, Visible
  <1>2. QED
    BY <1>1 DEF IInv, AtMostOne, Sole

\* An empty lookup for the journal on the claim, in its account.
LEMMA FoundNoneFacts ==
  ASSUME IInv, FoundNone, claim.launch.account = account
  PROVE  \A i \in InstanceIDs : ~Exists(i)
  BY DEF IInv, NoLeak, Owned, FoundNone, Visible

\* Reading the claim at the start of Create keeps the invariant: what it read is
\* current or will fail its next write.
LEMMA CreateStartInv == IInv /\ CreateStart => IInv'
  <1> SUFFICES ASSUME IInv, CreateStart PROVE IInv'
    OBVIOUS
  <1>1. TypeOK'
    BY TypeCreate DEF IInv, CreateNext
  <1>2. claim.providerID = None /\ claim.phase = "live" /\ creator.pc = "idle"
        /\ UNCHANGED <<now, claim, instances, requests, account, cleaner>>
    BY DEF CreateStart, newLaunch
  <1>3. CASE claim.launch.state = "none"
    <2>a. PICK cfg : creator' = [Idle EXCEPT !.pc = "prepare",
                                    !.launch = [state |-> "prepared", cfg |-> cfg,
                                                account |-> account, at |-> 0]]
      BY <1>3 DEF CreateStart, newLaunch
    <2>1. creator'.pc = "prepare" /\ creator'.launch.state = "prepared"
      BY <2>a DEF Idle
    <2>2. CreatorView'
      BY <1>2, <2>1 DEF CreatorView
    <2>3. QED
      BY <1>1, <1>2, <2>1, <2>2, CreatorFrame DEF IInv
  <1>4. CASE claim.launch.state = "submitted"
    <2>1. creator'.pc = "resume" /\ creator'.rv = claim.rv /\ creator'.launch = claim.launch
      BY <1>4 DEF CreateStart, newLaunch, Idle
    <2>2. CreatorView'
      BY SMTT(90), <1>2, <1>4, <2>1, FieldTypes DEF CreatorView, IInv
    <2>3. QED
      BY <1>1, <1>2, <2>1, <2>2, CreatorFrame DEF IInv
  <1>5. CASE claim.launch.state \notin {"none", "submitted"}
    <2>1. creator'.pc = "reset" /\ creator'.rv = claim.rv /\ creator'.launch = claim.launch
      BY <1>5 DEF CreateStart, newLaunch, Idle
    <2>2. Quiet'
      BY <1>2, <1>5, <2>1, NotQuiet DEF Quiet, Exists
    <2>3. CreatorView'
      BY SMTT(90), <1>2, <2>1, <2>2, FieldTypes DEF CreatorView, IInv
    <2>4. QED
      BY <1>1, <1>2, <2>1, <2>3, CreatorFrame DEF IInv
  <1>6. QED
    BY <1>3, <1>4, <1>5

\* Create returned, or went on to a step that relies on nothing it read.
LEMMA CreateReturns ==
  ASSUME IInv, TypeOK', creator.pc # "idle",
         UNCHANGED <<now, claim, instances, requests, account, cleaner>>,
         creator'.pc \in {"idle", "recover"}
  PROVE  IInv'
  <1>1. CASE creator.pc # "idle" /\ claim.providerID = None
    <2>1. CreatorView'
      BY <1>1 DEF CreatorView
    <2>2. QED
      BY <2>1, CreatorFrame DEF IInv
  <1>2. QED
    BY <1>1 DEF IInv, CreatorView

\* The lookup before submission keeps the invariant.
LEMMA CreateLookupInv == IInv /\ CreateLookup => IInv'
  <1> SUFFICES ASSUME IInv, CreateLookup PROVE IInv'
    OBVIOUS
  <1>1. TypeOK'
    BY TypeCreate DEF IInv, CreateNext
  <1>2. creator.pc = "lookup" /\ UNCHANGED <<now, claim, instances, requests, account, cleaner>>
    BY DEF CreateLookup
  <1>3. CASE creator' = [creator EXCEPT !.pc = "submit"]
    <2>1. creator'.pc = "submit" /\ creator'.rv = creator.rv /\ creator'.launch = creator.launch
      BY <1>3 DEF IInv, TypeOK, Threads
    <2>2. CreatorView'
      BY <1>2, <2>1 DEF CreatorView, IInv
    <2>3. QED
      BY <1>1, <1>2, <2>1, <2>2, CreatorFrame DEF IInv
  <1>4. CASE creator' = [creator EXCEPT !.pc = "recover"] \/ creator' = Idle
    <2>1. creator'.pc \in {"idle", "recover"}
      BY SMTT(90), <1>4 DEF IInv, TypeOK, Threads, Idle
    <2>2. QED
      BY <1>1, <1>2, <2>1, CreateReturns
  <1>5. QED
    BY <1>3, <1>4 DEF CreateLookup

\* The lookup for a submitted journal, and adopting what it found, keep the invariant.
LEMMA CreateResumeInv == IInv /\ (CreateResume \/ CreateRecover) => IInv'
  <1> SUFFICES ASSUME IInv, CreateResume \/ CreateRecover PROVE IInv'
    OBVIOUS
  <1>1. TypeOK'
    BY TypeCreate DEF IInv, CreateNext
  <1>2. /\ creator.pc \in {"resume", "recover"}
        /\ UNCHANGED <<now, claim, instances, requests, account, cleaner>>
    BY DEF CreateResume, CreateRecover
  <1>3. ASSUME NEW i \in InstanceIDs, Found(i, creator.launch),
               creator' = [creator EXCEPT !.pc = "tag", !.inst = i]
        PROVE  IInv'
    <2>1. creator'.pc = "tag" /\ creator'.inst = i
      BY <1>3 DEF IInv, TypeOK, Threads
    <2>2. Sole(i)
      BY <1>3, FoundSole
    <2>3. Sole(creator.inst)'
      BY <1>2, <2>1, <2>2 DEF Sole, Exists
    <2>4. claim.providerID = None
      BY <1>2 DEF IInv, CreatorView
    <2>5. CreatorView'
      BY <1>2, <2>1, <2>3, <2>4 DEF CreatorView
    <2>6. QED
      BY <1>1, <1>2, <2>1, <2>5, CreatorFrame DEF IInv
  <1>4. CASE creator' = Idle
    BY <1>1, <1>2, <1>4, CreateReturns DEF Idle
  <1>5. CASE /\ creator.pc = "resume"
             /\ validateLaunchTarget(creator.launch) /\ FoundNone
             /\ creator' = [creator EXCEPT !.pc = "decide", !.since = now]
    <2>1. /\ creator'.pc = "decide" /\ creator'.since = now /\ creator'.rv = creator.rv
          /\ creator'.launch = creator.launch
      BY <1>5 DEF IInv, TypeOK, Threads
    <2>2. creator.rv = claim.rv => Quiet' \/ now <= creator.launch.at + MaxLatency
      <3> SUFFICES ASSUME creator.rv = claim.rv, requests # {}
                   PROVE  now <= creator.launch.at + MaxLatency
        BY <1>2, <1>5, <2>1, FoundNoneFacts
           DEF Quiet, Exists, validateLaunchTarget, IInv, CreatorView
      <3>1. claim.launch = creator.launch
        BY <1>5 DEF IInv, CreatorView
      <3>2. QED
        BY <3>1 DEF IInv, Journalled
    <2>3. now <= now + MaxLookup
      BY SMTT(90), FieldTypes DEF IInv
    <2>4. now <= now
      BY SMTT(90), FieldTypes DEF IInv
    <2>5. claim.providerID = None
      BY <1>2 DEF IInv, CreatorView
    <2>6. CreatorView'
      BY <1>2, <1>5, <2>1, <2>2, <2>3, <2>4, <2>5 DEF CreatorView, IInv
    <2>7. QED
      BY <1>1, <1>2, <2>1, <2>6, CreatorFrame DEF IInv
  <1>6. QED
    BY <1>3, <1>4, <1>5 DEF CreateResume, CreateRecover

\* Resetting after an empty lookup keeps the invariant: when Create finds the window
\* past, no request of the journal is in flight.
LEMMA CreateDecideInv == Timely /\ IInv /\ CreateDecide => IInv'
  <1> SUFFICES ASSUME Timely, IInv, CreateDecide PROVE IInv'
    OBVIOUS
  <1>1. TypeOK'
    BY TypeCreate DEF IInv, CreateNext
  <1>2. creator.pc = "decide" /\ UNCHANGED <<now, claim, instances, requests, account, cleaner>>
    BY DEF CreateDecide
  <1>3. CASE creator' = Idle
    BY <1>1, <1>2, <1>3, CreateReturns DEF Idle
  <1>4. CASE abandoned(creator.launch) /\ creator' = [creator EXCEPT !.pc = "reset"]
    <2>1. /\ creator'.pc = "reset" /\ creator'.rv = creator.rv
          /\ creator'.launch = creator.launch
      BY <1>4 DEF IInv, TypeOK, Threads
    <2>2. creator.launch.state = "submitted"
      BY <1>2 DEF IInv, CreatorView
    <2>3. now > creator.launch.at + Window
      BY <1>4, <2>2 DEF abandoned
    <2>4. now <= creator.since + MaxLookup
      BY <1>2 DEF IInv, CreatorView
    <2>5. ~(creator.since <= creator.launch.at + MaxLatency)
      BY SMTT(90), <2>3, <2>4, FieldTypes DEF Timely, IInv
    <2>6. creator.rv = claim.rv => Quiet
      BY <1>2, <2>5 DEF IInv, CreatorView
    <2>7. Quiet => Quiet'
      BY <1>2, <2>1 DEF Quiet, Exists
    <2>8. claim.providerID = None
      BY <1>2 DEF IInv, CreatorView
    <2>9. CreatorView'
      BY <1>2, <2>1, <2>6, <2>7, <2>8 DEF CreatorView, IInv
    <2>10. QED
      BY <1>1, <1>2, <2>1, <2>9, CreatorFrame DEF IInv
  <1>5. QED
    BY <1>3, <1>4 DEF CreateDecide

\* Tagging the instance keeps the invariant.
LEMMA CreateTagInv == IInv /\ CreateTag => IInv'
  <1> SUFFICES ASSUME IInv, CreateTag PROVE IInv'
    OBVIOUS
  <1>1. TypeOK'
    BY TypeCreate DEF IInv, CreateNext
  <1>2. creator.pc = "tag" /\ UNCHANGED <<now, claim, instances, requests, account, cleaner>>
    BY DEF CreateTag
  <1>3. CASE creator' = Idle
    BY <1>1, <1>2, <1>3, CreateReturns DEF Idle
  <1>4. CASE creator' = [creator EXCEPT !.pc = "publish"]
    <2>1. creator'.pc = "publish" /\ creator'.inst = creator.inst
      BY <1>4 DEF IInv, TypeOK, Threads
    <2>2. Sole(creator.inst)'
      BY <1>2, <2>1 DEF Sole, Exists, IInv, CreatorView
    <2>3. CreatorView'
      BY <1>2, <2>1, <2>2 DEF CreatorView, IInv
    <2>4. QED
      BY <1>1, <1>2, <2>1, <2>3, CreatorFrame DEF IInv
  <1>5. QED
    BY <1>3, <1>4 DEF CreateTag

\* A reply that never comes, and any error return of Create, keep the invariant:
\* the journal stays submitted.
LEMMA CreateFailsInv == IInv /\ (CreateTimeout \/ CreateError) => IInv'
  <1> SUFFICES ASSUME IInv, CreateTimeout \/ CreateError PROVE IInv'
    OBVIOUS
  <1>1. TypeOK'
    BY TypeCreate DEF IInv
  <1>2. creator.pc # "idle" /\ UNCHANGED <<now, claim, instances, requests, account, cleaner>>
    BY DEF CreateTimeout, CreateError
  <1>3. creator'.pc \in {"idle", "recover"}
    BY SMTT(90) DEF CreateTimeout, CreateError, Idle, IInv, TypeOK, Threads
  <1>4. QED
    BY <1>1, <1>2, <1>3, CreateReturns

-----------------------------------------------------------------------------
(* Ownership: writes to the claim *)

\* A write that touches neither the journal nor its finalizer ends both views.
LEMMA OtherWriteFrame ==
  ASSUME IInv, TypeOK', UNCHANGED <<now, instances, requests, account, creator, cleaner>>,
         claim'.rv = claim.rv + 1,
         claim'.launch = claim.launch,
         claim'.providerID = claim.providerID,
         "launch" \in claim.finalizers => "launch" \in claim'.finalizers,
         claim'.phase = "live" => claim.phase = "live",
         claim'.phase = "gone" => claim.phase = "gone" \/ claim'.finalizers = {}
  PROVE  IInv'
  <1>1. \A cfg, acct : Owned(cfg, acct) => Owned(cfg, acct)'
    BY DEF Owned
  <1>2. NoLeak'
    BY <1>1 DEF IInv, NoLeak, Exists
  <1>3. AtMostOne' /\ OneRequest'
    BY DEF IInv, AtMostOne, OneRequest, Exists
  <1>4. Journalled'
    BY <1>1 DEF IInv, Journalled
  <1>5. Quiet => Quiet'
    BY DEF Quiet, Exists
  <1>6. \A i : Sole(i) => Sole(i)'
    BY DEF Sole, Exists
  <1>7. /\ creator.rv <= claim.rv => creator.rv <= claim'.rv /\ creator.rv # claim'.rv
        /\ cleaner.rv <= claim.rv => cleaner.rv <= claim'.rv /\ cleaner.rv # claim'.rv
    BY SMTT(90), FieldTypes DEF IInv
  <1>8. CreatorView'
    BY <1>5, <1>6, <1>7 DEF IInv, CreatorView
  <1>9. CleanerView'
    BY <1>5, <1>6, <1>7 DEF IInv, CleanerView
  <1>10. QED
    BY <1>2, <1>3, <1>4, <1>8, <1>9 DEF IInv

\* Writes of others to the claim keep the invariant, since they keep the journal.
LEMMA OtherWritesInv == IInv /\ (DeleteClaim \/ OtherWrite \/ CoreFinalize) => IInv'
  <1> SUFFICES ASSUME IInv, DeleteClaim \/ OtherWrite \/ CoreFinalize PROVE IInv'
    OBVIOUS
  <1>1. TypeOK'
    BY TypeEnv, TypeCore DEF IInv, CoreNext
  <1>2. claim \in NodeClaims
    BY DEF IInv, TypeOK
  <1>3. ASSUME NEW c \in NodeClaims, WriteClaim(c), c.rv = claim.rv, c.launch = claim.launch,
               c.providerID = claim.providerID,
               "launch" \in claim.finalizers => "launch" \in c.finalizers,
               c.phase = "live" => claim.phase = "live",
               c.phase = "gone" => claim.phase = "gone",
               UNCHANGED <<now, instances, requests, account, creator, cleaner>>
        PROVE  IInv'
    <2>1. /\ claim'.rv = claim.rv + 1
          /\ claim'.launch = claim.launch
          /\ claim'.providerID = claim.providerID
          /\ claim'.finalizers = c.finalizers
          /\ claim'.phase = Settle(c)
      BY <1>3, WriteClaimFacts
    <2>2. /\ claim'.phase = "live" => claim.phase = "live"
          /\ claim'.phase = "gone" => claim.phase = "gone" \/ claim'.finalizers = {}
      BY <1>3, <2>1 DEF Settle
    <2>3. QED
      BY <1>1, <1>3, <2>1, <2>2, OtherWriteFrame
  <1>4. CASE DeleteClaim
    <2> DEFINE c == [claim EXCEPT !.phase = "deleting"]
    <2>1. /\ c \in NodeClaims /\ c.rv = claim.rv /\ c.launch = claim.launch
          /\ c.providerID = claim.providerID /\ c.finalizers = claim.finalizers
          /\ c.phase = "deleting"
      BY <1>2 DEF NodeClaims
    <2>2. WriteClaim(c) /\ UNCHANGED <<now, instances, requests, account, creator, cleaner>>
      BY <1>4 DEF DeleteClaim
    <2> HIDE DEF c
    <2>3. QED
      BY <1>3, <2>1, <2>2
  <1>5. CASE OtherWrite
    BY <1>2, <1>3, <1>5 DEF OtherWrite
  <1>6. CASE CoreFinalize
    <2> DEFINE c == [claim EXCEPT !.finalizers = @ \ {"core"}]
    <2>1. /\ c \in NodeClaims /\ c.rv = claim.rv /\ c.launch = claim.launch
          /\ c.providerID = claim.providerID /\ c.phase = claim.phase
          /\ "launch" \in claim.finalizers => "launch" \in c.finalizers
      BY <1>2 DEF NodeClaims
    <2>2. WriteClaim(c) /\ UNCHANGED <<now, instances, requests, account, creator, cleaner>>
      BY <1>6 DEF CoreFinalize
    <2> HIDE DEF c
    <2>3. QED
      BY <1>3, <2>1, <2>2
  <1>7. QED
    BY <1>4, <1>5, <1>6

\* A write of Create, when nothing exists and nothing is in flight.
LEMMA QuietWrite ==
  ASSUME IInv, TypeOK', UNCHANGED <<now, instances, requests, account, cleaner>>,
         Quiet, creator'.pc # "send",
         claim'.rv = claim.rv + 1,
         claim'.phase = "live" /\ claim'.launch.state # "none" => "launch" \in claim'.finalizers
  PROVE  NoLeak' /\ AtMostOne' /\ Journalled' /\ OneRequest' /\ CleanerView' /\ Quiet'
  <1>1. Quiet'
    BY DEF Quiet, Exists
  <1>2. NoLeak' /\ AtMostOne' /\ Journalled' /\ OneRequest'
    BY <1>1 DEF Quiet, NoLeak, AtMostOne, Journalled, OneRequest
  <1>3. cleaner.rv <= claim.rv => cleaner.rv <= claim'.rv /\ cleaner.rv # claim'.rv
    BY SMTT(90), FieldTypes DEF IInv
  <1>4. CleanerView'
    BY <1>1, <1>3 DEF IInv, CleanerView
  <1>5. QED
    BY <1>1, <1>2, <1>4

\* Writing the prepared journal keeps the invariant.
LEMMA CreateCheckpointInv == IInv /\ CreateCheckpoint => IInv'
  <1> SUFFICES ASSUME IInv, CreateCheckpoint PROVE IInv'
    OBVIOUS
  <1>1. TypeOK'
    BY TypeCreate DEF IInv, CreateNext
  <1>2. /\ creator.pc = "prepare" /\ claim.providerID = None
        /\ UNCHANGED <<now, instances, requests, account, cleaner>>
    BY DEF CreateCheckpoint, IInv, CreatorView
  <1>3. CASE claim.phase # "live" \/ claim.launch.state # "none"
    BY SMTT(90), <1>1, <1>2, <1>3, CreateReturns DEF CreateCheckpoint, Idle
  <1>4. CASE claim.phase = "live" /\ claim.launch.state = "none"
    <2> DEFINE c == [claim EXCEPT !.launch = creator.launch,
                                  !.finalizers = @ \cup {"launch"}]
    <2>1. /\ c \in NodeClaims /\ c.rv = claim.rv /\ c.launch = creator.launch
          /\ c.providerID = claim.providerID /\ c.phase = claim.phase
          /\ "launch" \in c.finalizers
      BY DEF IInv, TypeOK, NodeClaims, Threads
    <2>2. WriteClaim(c)
      BY <1>4 DEF CreateCheckpoint
    <2> HIDE DEF c
    <2>3. /\ claim'.rv = claim.rv + 1 /\ claim'.launch = creator.launch
          /\ claim'.providerID = None /\ claim'.phase = "live"
          /\ "launch" \in claim'.finalizers
      BY <1>2, <1>4, <2>1, <2>2, WriteClaimFacts DEF Settle
    <2>4. Quiet
      BY <1>4, NotQuiet
    <2>5. creator.launch.state = "prepared"
      BY <1>2 DEF IInv, CreatorView
    <2>6. CASE creator' = Idle
      BY <1>1, <1>2, <2>3, <2>4, <2>6, QuietWrite DEF IInv, CreatorView, Idle
    <2>7. CASE creator' = [creator EXCEPT !.pc = "lookup", !.rv = claim.rv + 1]
      <3>1. /\ creator'.pc = "lookup" /\ creator'.rv = claim'.rv
            /\ creator'.launch = creator.launch
        BY <2>3, <2>7 DEF IInv, TypeOK, Threads
      <3>2. creator'.rv <= claim'.rv
        BY SMTT(90), <3>1, <2>3, FieldTypes DEF IInv
      <3>3. CreatorView'
        BY <2>3, <2>5, <3>1, <3>2 DEF CreatorView
      <3>4. QED
        BY <1>1, <1>2, <2>3, <2>4, <3>1, <3>3, QuietWrite DEF IInv
    <2>8. QED
      BY <1>4, <2>6, <2>7 DEF CreateCheckpoint
  <1>5. QED
    BY <1>3, <1>4

\* Writing the submitted journal keeps the invariant and makes Create the only one
\* about to send.
LEMMA CreateSubmitInv == IInv /\ CreateSubmit => IInv'
  <1> SUFFICES ASSUME IInv, CreateSubmit PROVE IInv'
    OBVIOUS
  <1>1. TypeOK'
    BY TypeCreate DEF IInv, CreateNext
  <1>2. /\ creator.pc = "submit" /\ claim.providerID = None
        /\ UNCHANGED <<now, instances, requests, account, cleaner>>
    BY DEF CreateSubmit, IInv, CreatorView
  <1>3. CASE ~Fresh(creator.rv)
    BY SMTT(90), <1>1, <1>2, <1>3, CreateReturns DEF CreateSubmit, Idle
  <1>4. CASE Fresh(creator.rv)
    <2> DEFINE l == [creator.launch EXCEPT !.state = "submitted", !.at = now]
               c == [claim EXCEPT !.launch = l]
    <2>1. /\ l \in launchConfig /\ l.state = "submitted" /\ l.at = now
          /\ l.cfg = creator.launch.cfg /\ l.account = creator.launch.account
      BY DEF IInv, TypeOK, Threads, launchConfig, LaunchStates
    <2>2. creator' = Idle \/ creator' = [creator EXCEPT !.pc = "send", !.rv = claim.rv + 1,
                                                        !.launch = l]
      BY <1>4 DEF CreateSubmit
    <2>3. WriteClaim(c)
      BY <1>4 DEF CreateSubmit
    <2> HIDE DEF l
    <2>4. /\ c \in NodeClaims /\ c.rv = claim.rv /\ c.launch = l
          /\ c.providerID = claim.providerID /\ c.phase = claim.phase
          /\ c.finalizers = claim.finalizers
      BY <2>1 DEF IInv, TypeOK, NodeClaims
    <2> HIDE DEF c
    <2>5. claim.phase = "live" /\ claim.launch = creator.launch
      BY <1>2, <1>4 DEF IInv, CreatorView, Fresh
    <2>6. claim.launch.state = "prepared"
      BY <1>2, <2>5 DEF IInv, CreatorView
    <2>7. Quiet /\ "launch" \in claim.finalizers
      BY <2>5, <2>6, NotQuiet DEF IInv, Journalled
    <2>8. /\ claim'.rv = claim.rv + 1 /\ claim'.launch = l
          /\ claim'.providerID = None /\ claim'.phase = "live"
          /\ "launch" \in claim'.finalizers
      BY <1>2, <2>3, <2>4, <2>5, <2>7, WriteClaimFacts DEF Settle
    <2>9. CASE creator' = Idle
      BY <1>1, <1>2, <2>7, <2>8, <2>9, QuietWrite DEF IInv, CreatorView, Idle
    <2>10. CASE creator' = [creator EXCEPT !.pc = "send", !.rv = claim.rv + 1, !.launch = l]
      <3>1. creator'.pc = "send" /\ creator'.launch = l
        BY <2>10 DEF IInv, TypeOK, Threads
      <3>2. now <= now + MaxLatency
        BY SMTT(90), FieldTypes DEF IInv
      <3>3. NoLeak' /\ AtMostOne' /\ OneRequest'
        BY <1>2, <2>7 DEF NoLeak, AtMostOne, OneRequest, Quiet, Exists
      <3>4. Journalled'
        BY <1>2, <2>1, <2>7, <2>8, <3>1, <3>2 DEF Journalled, Owned, Quiet
      <3>5. CreatorView'
        BY <2>8, <3>1 DEF CreatorView
      <3>6. cleaner.rv <= claim.rv => cleaner.rv <= claim'.rv /\ cleaner.rv # claim'.rv
        BY SMTT(90), <2>8, FieldTypes DEF IInv
      <3>7. CleanerView'
        BY <1>2, <2>8, <3>6 DEF IInv, CleanerView
      <3>8. QED
        BY <1>1, <3>3, <3>4, <3>5, <3>7 DEF IInv
    <2>11. QED
      BY <2>2, <2>9, <2>10
  <1>5. QED
    BY <1>3, <1>4

\* Sending the request keeps the invariant: the journal is submitted and nothing exists.
LEMMA CreateSendInv == IInv /\ CreateSend => IInv'
  <1> SUFFICES ASSUME IInv, CreateSend PROVE IInv'
    OBVIOUS
  <1>1. TypeOK'
    BY TypeCreate DEF IInv, CreateNext
  <1>2. /\ creator.pc = "send" /\ requests = {} /\ claim.providerID = None
        /\ UNCHANGED <<now, claim, instances, account, cleaner>>
    BY DEF CreateSend, IInv, CreatorView, OneRequest
  <1>3. \A i \in InstanceIDs : ~Exists(i)
    BY <1>2 DEF IInv, AtMostOne
  <1>4. ~Quiet /\ \A i : ~Sole(i)
    BY <1>2 DEF Quiet, Sole
  <1>5. CASE creator' = [creator EXCEPT !.pc = "sent"]
    <2> DEFINE r == [rv |-> creator.rv, account |-> creator.launch.account,
                     cfg |-> creator.launch.cfg, at |-> creator.launch.at]
    <2>1. creator'.pc = "sent"
      BY <1>5 DEF IInv, TypeOK, Threads
    <2>2. requests' = {r}
      BY <1>2, <1>5, <2>1 DEF CreateSend, IInv, TypeOK, Threads
    <2>3. NoLeak'
      BY SMTT(90), <1>2, <1>3, <2>2 DEF IInv, NoLeak, Journalled, Owned, Exists
    <2>4. AtMostOne' /\ OneRequest'
      BY <1>2, <1>3, <2>1, <2>2 DEF AtMostOne, OneRequest, Exists
    <2>5. Journalled'
      BY SMTT(90), <1>2, <2>1, <2>2 DEF IInv, Journalled
    <2>6. CreatorView'
      BY <1>2, <2>1 DEF CreatorView
    <2>7. CleanerView'
      BY <1>2, <1>4 DEF IInv, CleanerView
    <2>8. QED
      BY <1>1, <2>3, <2>4, <2>5, <2>6, <2>7 DEF IInv
  <1>6. CASE creator' = [creator EXCEPT !.pc = "reject"] /\ UNCHANGED requests
    <2>1. creator'.pc = "reject"
      BY <1>6 DEF IInv, TypeOK, Threads
    <2>2. Quiet'
      BY <1>2, <1>3, <1>6, <2>1 DEF Quiet, Exists
    <2>3. CreatorView'
      BY <1>2, <2>1, <2>2 DEF CreatorView
    <2>4. QED
      BY <1>1, <1>2, <1>6, <2>1, <2>3, CreatorFrame DEF IInv
  <1>7. QED
    BY <1>5, <1>6 DEF CreateSend

\* Marking the launch rejected keeps the invariant: its request has been decided.
LEMMA CreateRejectInv == IInv /\ CreateReject => IInv'
  <1> SUFFICES ASSUME IInv, CreateReject PROVE IInv'
    OBVIOUS
  <1>1. TypeOK'
    BY TypeCreate DEF IInv, CreateNext
  <1>2. /\ creator.pc = "reject" /\ claim.providerID = None /\ Quiet
        /\ UNCHANGED <<now, instances, requests, account, cleaner>>
    BY DEF CreateReject, IInv, CreatorView
  <1>3. CASE UNCHANGED claim /\ creator' = Idle
    BY <1>1, <1>2, <1>3, CreateReturns DEF Idle
  <1> DEFINE l == [creator.launch EXCEPT !.state = "rejected"]
             c == [claim EXCEPT !.launch = l, !.finalizers = @ \cup {"launch"}]
  <1>4. CASE WriteClaim(c) /\ creator'.pc \in {"idle", "recover"}
    <2>1. l \in launchConfig
      BY LaunchFacts DEF IInv, TypeOK, Threads, LaunchStates
    <2> HIDE DEF l
    <2>2. /\ c \in NodeClaims /\ c.rv = claim.rv /\ c.providerID = claim.providerID
          /\ "launch" \in c.finalizers
      BY <2>1 DEF IInv, TypeOK, NodeClaims
    <2> HIDE DEF c
    <2>3. /\ claim'.rv = claim.rv + 1 /\ claim'.providerID = None
          /\ "launch" \in claim'.finalizers
      BY <1>2, <1>4, <2>2, WriteClaimFacts
    <2>4. CreatorView'
      BY <1>4, <2>3 DEF CreatorView
    <2>5. QED
      BY <1>1, <1>2, <1>4, <2>3, <2>4, QuietWrite DEF IInv
  <1>5. creator' = Idle => creator'.pc = "idle"
    BY SMTT(90) DEF Idle
  <1>6. creator' = [creator EXCEPT !.pc = "recover", !.launch = l, !.rv = claim.rv + 1]
           => creator'.pc = "recover"
    BY DEF IInv, TypeOK, Threads
  <1>7. QED
    BY <1>3, <1>4, <1>5, <1>6 DEF CreateReject

\* Replacing a journal that names nothing keeps the invariant.
LEMMA CreateResetInv == IInv /\ CreateReset => IInv'
  <1> SUFFICES ASSUME IInv, CreateReset PROVE IInv'
    OBVIOUS
  <1>1. TypeOK'
    BY TypeCreate DEF IInv, CreateNext
  <1>2. /\ creator.pc = "reset" /\ claim.providerID = None /\ creator'.pc = "idle"
        /\ UNCHANGED <<now, instances, requests, account, cleaner>>
    BY DEF CreateReset, IInv, CreatorView, Idle
  <1>3. CASE ~Fresh(creator.rv)
    BY <1>1, <1>2, <1>3, CreateReturns DEF CreateReset
  <1>4. CASE Fresh(creator.rv)
    <2> DEFINE c == [claim EXCEPT !.launch = NoLaunch, !.finalizers = @ \ {"launch"}]
    <2>1. /\ c \in NodeClaims /\ c.rv = claim.rv /\ c.providerID = claim.providerID
          /\ c.launch.state = "none"
      BY NoLaunchType DEF IInv, TypeOK, NodeClaims, NoLaunch
    <2>2. WriteClaim(c)
      BY <1>4 DEF CreateReset
    <2> HIDE DEF c
    <2>3. /\ claim'.rv = claim.rv + 1 /\ claim'.providerID = None
          /\ claim'.launch.state = "none"
      BY <1>2, <2>1, <2>2, WriteClaimFacts
    <2>4. Quiet
      BY <1>2, <1>4 DEF IInv, CreatorView, Fresh
    <2>5. CreatorView'
      BY <1>2, <2>3 DEF CreatorView
    <2>6. QED
      BY <1>1, <1>2, <2>3, <2>4, <2>5, QuietWrite DEF IInv
  <1>5. QED
    BY <1>3, <1>4

\* Publishing the provider ID keeps the invariant.
LEMMA CreatePublishInv == IInv /\ CreatePublish => IInv'
  <1> SUFFICES ASSUME IInv, CreatePublish PROVE IInv'
    OBVIOUS
  <1>1. TypeOK'
    BY TypeCreate DEF IInv, CreateNext
  <1>2. /\ creator.pc = "publish" /\ creator'.pc = "idle"
        /\ Sole(creator.inst) /\ creator.inst \in InstanceIDs
        /\ UNCHANGED <<now, instances, requests, account, cleaner>>
    BY DEF CreatePublish, IInv, CreatorView, Idle
  <1>3. CASE UNCHANGED claim
    BY <1>1, <1>2, <1>3, CreateReturns
  <1>4. CASE WriteClaim([claim EXCEPT !.providerID = creator.inst])
    <2> DEFINE c == [claim EXCEPT !.providerID = creator.inst]
    <2>1. /\ c \in NodeClaims /\ c.rv = claim.rv /\ c.launch = claim.launch
          /\ c.providerID = creator.inst /\ c.finalizers = claim.finalizers
          /\ c.phase = claim.phase
      BY <1>2 DEF IInv, TypeOK, NodeClaims
    <2>2. WriteClaim(c)
      BY <1>4
    <2> HIDE DEF c
    <2>3. /\ claim'.rv = claim.rv + 1 /\ claim'.launch = claim.launch
          /\ claim'.providerID = creator.inst /\ claim'.finalizers = claim.finalizers
          /\ claim'.phase = Settle(c)
      BY <2>1, <2>2, WriteClaimFacts
    <2>4. /\ claim'.phase = "live" => claim.phase = "live"
          /\ claim'.phase = "gone" => claim.phase = "gone" \/ claim'.finalizers = {}
      BY <2>1, <2>3 DEF Settle
    <2>5. \A cfg, acct : Owned(cfg, acct) => Owned(cfg, acct)'
      BY <2>3, <2>4 DEF Owned
    <2>6. NoLeak'
      BY <1>2, <2>5 DEF IInv, NoLeak, Exists
    <2>7. AtMostOne' /\ OneRequest'
      BY <1>2 DEF IInv, AtMostOne, OneRequest, Exists
    <2>8. Journalled'
      BY <1>2, <2>3, <2>4 DEF IInv, Journalled
    <2>9. Sole(claim.providerID)'
      BY <1>2, <2>3 DEF Sole, Exists
    <2>10. CreatorView'
      BY <1>2, <2>9 DEF CreatorView
    <2>11. cleaner.rv <= claim.rv => cleaner.rv <= claim'.rv /\ cleaner.rv # claim'.rv
      BY SMTT(90), <2>3, FieldTypes DEF IInv
    <2>12. CleanerView'
      BY <1>2, <2>11 DEF IInv, CleanerView
    <2>13. QED
      BY <1>1, <2>6, <2>7, <2>8, <2>10, <2>12 DEF IInv
  <1>5. QED
    BY <1>3, <1>4 DEF CreatePublish



-----------------------------------------------------------------------------
(* Ownership: the allocation controller *)

\* The reconcile returned.
LEMMA CleanReturns ==
  ASSUME IInv, TypeOK', cleaner'.pc = "idle",
         UNCHANGED <<now, claim, instances, requests, account, creator>>
  PROVE  IInv'
  BY CleanerFrame DEF IInv, CleanerView

\* Reading the deleted claim keeps the invariant.
LEMMA CleanReadInv == IInv /\ CleanRead => IInv'
  <1> SUFFICES ASSUME IInv, CleanRead PROVE IInv'
    OBVIOUS
  <1>1. TypeOK'
    BY TypeClean DEF IInv, CleanNext
  <1>2. /\ claim.phase = "deleting" /\ claim.launch.account = account
        /\ UNCHANGED <<now, claim, instances, requests, account, creator>>
    BY DEF CleanRead, validateLaunchTarget
  <1>3. /\ cleaner'.rv = claim.rv /\ cleaner'.launch = claim.launch
        /\ cleaner'.inst = claim.providerID
        /\ cleaner'.pc = IF claim.providerID # None THEN "confirm" ELSE "find"
    BY DEF CleanRead, Idle
  <1>4. claim.rv <= claim.rv
    BY SMTT(90), FieldTypes DEF IInv
  <1>5. cleaner'.pc = "confirm" => claim.providerID \in InstanceIDs /\ Sole(claim.providerID)
    BY <1>3 DEF IInv, CreatorView, TypeOK, NodeClaims
  <1>6. Sole(claim.providerID) => Sole(cleaner.inst)'
    BY <1>2, <1>3 DEF Sole, Exists
  <1>7. CleanerView'
    BY <1>2, <1>3, <1>4, <1>5, <1>6 DEF CleanerView
  <1>8. QED
    BY <1>1, <1>2, <1>7, CleanerFrame DEF IInv

\* If the claim has not changed, a cleaner that sees no instance where only its
\* own could be knows that there is none.
LEMMA GoneIsQuiet ==
  ASSUME IInv, cleaner.pc \in {"confirm", "verify"}, cleaner.inst \notin Visible,
         cleaner.rv = claim.rv
  PROVE  Quiet
  <1>1. /\ Sole(cleaner.inst) /\ cleaner.inst \in InstanceIDs
        /\ claim.launch.account = account
    BY DEF IInv, CleanerView
  <1>2. ~Exists(cleaner.inst)
    BY <1>1 DEF IInv, NoLeak, Owned, Visible
  <1>3. QED
    BY <1>1, <1>2 DEF Sole, Quiet

\* The decisions of CleanupPending that write nothing keep the invariant.
LEMMA CleanStepsInv == Timely /\ IInv /\ (CleanConfirm \/ CleanVerify \/ CleanDecide) => IInv'
  <1> SUFFICES ASSUME Timely, IInv, CleanConfirm \/ CleanVerify \/ CleanDecide PROVE IInv'
    OBVIOUS
  <1>1. TypeOK'
    BY TypeClean DEF IInv, CleanNext
  <1>2. UNCHANGED <<now, claim, instances, requests, account, creator>>
    BY DEF CleanConfirm, CleanVerify, CleanDecide
  <1>3. CASE cleaner' = Idle
    BY <1>1, <1>2, <1>3, CleanReturns DEF Idle
  <1>4. CASE /\ cleaner' = [cleaner EXCEPT !.pc = "release"]
             /\ cleaner.pc \in {"confirm", "verify", "decide"}
             /\ cleaner.rv = claim.rv => Quiet
    <2>1. /\ cleaner'.pc = "release" /\ cleaner'.rv = cleaner.rv
          /\ cleaner'.launch = cleaner.launch
      BY <1>4 DEF IInv, TypeOK, Threads
    <2>2. Quiet => Quiet'
      BY <1>2 DEF Quiet, Exists
    <2>3. CleanerView'
      BY <1>2, <1>4, <2>1, <2>2 DEF IInv, CleanerView
    <2>4. QED
      BY <1>1, <1>2, <2>3, CleanerFrame DEF IInv
  <1>5. CASE cleaner.pc = "decide" /\ abandoned(cleaner.launch)
    <2>1. /\ now <= cleaner.since + MaxLookup
          /\ cleaner.launch.state = "submitted" => now > cleaner.launch.at + Window
      BY <1>5 DEF IInv, CleanerView, abandoned
    <2>2. cleaner.launch.state = "submitted" =>
             ~(cleaner.since <= cleaner.launch.at + MaxLatency)
      BY SMTT(90), <2>1, FieldTypes DEF Timely, IInv
    <2>3. cleaner.rv = claim.rv => Quiet
      BY <1>5, <2>2 DEF IInv, CleanerView
    <2>4. QED
      BY <1>3, <1>4, <1>5, <2>3 DEF CleanConfirm, CleanVerify, CleanDecide
  <1>6. QED
    BY <1>3, <1>4, <1>5, GoneIsQuiet DEF CleanConfirm, CleanVerify, CleanDecide

\* The lookup of CleanupPending keeps the invariant.
LEMMA CleanFindInv == IInv /\ CleanFind => IInv'
  <1> SUFFICES ASSUME IInv, CleanFind PROVE IInv'
    OBVIOUS
  <1>1. TypeOK'
    BY TypeClean DEF IInv, CleanNext
  <1>2. /\ cleaner.pc = "find"
        /\ UNCHANGED <<now, claim, instances, requests, account, creator>>
    BY DEF CleanFind
  <1>3. CASE cleaner' = Idle
    BY <1>1, <1>2, <1>3, CleanReturns DEF Idle
  <1>4. ASSUME NEW i \in InstanceIDs, Found(i, cleaner.launch),
               cleaner' = [cleaner EXCEPT !.pc = "nodes", !.inst = i]
        PROVE  IInv'
    <2>1. /\ cleaner'.pc = "nodes" /\ cleaner'.inst = i /\ cleaner'.rv = cleaner.rv
          /\ cleaner'.launch = cleaner.launch
      BY <1>4 DEF IInv, TypeOK, Threads
    <2>2. Sole(i)
      BY <1>4, FoundSole
    <2>3. Sole(cleaner.inst)'
      BY <1>2, <2>1, <2>2 DEF Sole, Exists
    <2>4. CleanerView'
      BY <1>2, <2>1, <2>3 DEF IInv, CleanerView
    <2>5. QED
      BY <1>1, <1>2, <2>4, CleanerFrame DEF IInv
  <1>5. CASE FoundNone /\ cleaner' = [cleaner EXCEPT !.pc = "decide", !.since = now]
    <2>1. /\ cleaner'.pc = "decide" /\ cleaner'.since = now /\ cleaner'.rv = cleaner.rv
          /\ cleaner'.launch = cleaner.launch
      BY <1>5 DEF IInv, TypeOK, Threads
    <2>2. ASSUME cleaner.rv = claim.rv, ~Quiet
          PROVE  /\ cleaner.launch.state = "submitted"
                 /\ now <= cleaner.launch.at + MaxLatency
      <3>1. claim.launch = cleaner.launch /\ claim.launch.account = account
        BY <1>2, <2>2 DEF IInv, CleanerView
      <3>2. requests # {} \/ creator.pc = "send"
        BY <1>5, <2>2, <3>1, FoundNoneFacts DEF Quiet
      <3>3. QED
        BY <2>2, <3>1, <3>2, NotQuiet DEF IInv, Journalled
    <2>3. now <= now /\ now <= now + MaxLookup
      BY SMTT(90), FieldTypes DEF IInv
    <2>4. Quiet => Quiet'
      BY <1>2 DEF Quiet, Exists
    <2>5. CleanerView'
      BY <1>2, <2>1, <2>2, <2>3, <2>4 DEF IInv, CleanerView
    <2>6. QED
      BY <1>1, <1>2, <2>5, CleanerFrame DEF IInv
  <1>6. QED
    BY <1>3, <1>4, <1>5 DEF CleanFind

\* Checking the nodes of the instance, and any error return, keep the invariant.
LEMMA CleanNodesInv == IInv /\ (CleanNodes \/ CleanError) => IInv'
  <1> SUFFICES ASSUME IInv, CleanNodes \/ CleanError PROVE IInv'
    OBVIOUS
  <1>1. TypeOK'
    BY TypeClean DEF IInv, CleanNext
  <1>2. UNCHANGED <<now, claim, instances, requests, account, creator>>
    BY DEF CleanNodes, CleanError
  <1>3. CASE cleaner' = Idle
    BY <1>1, <1>2, <1>3, CleanReturns DEF Idle
  <1>4. CASE cleaner.pc = "nodes" /\ cleaner' = [cleaner EXCEPT !.pc = "delete"]
    <2>1. /\ cleaner'.pc = "delete" /\ cleaner'.inst = cleaner.inst
          /\ cleaner'.rv = cleaner.rv /\ cleaner'.launch = cleaner.launch
      BY <1>4 DEF IInv, TypeOK, Threads
    <2>2. Sole(cleaner.inst) => Sole(cleaner.inst)'
      BY <1>2, <2>1 DEF Sole, Exists
    <2>3. CleanerView'
      BY <1>2, <1>4, <2>1, <2>2 DEF IInv, CleanerView
    <2>4. QED
      BY <1>1, <1>2, <2>3, CleanerFrame DEF IInv
  <1>5. QED
    BY <1>3, <1>4 DEF CleanNodes, CleanError

\* Instances only stop existing.
LEMMA ShrinkFrame ==
  ASSUME IInv, TypeOK', UNCHANGED <<now, claim, requests, account, creator>>,
         \A i \in InstanceIDs : Exists(i)' => /\ Exists(i)
                                              /\ instances'[i].cfg = instances[i].cfg
                                              /\ instances'[i].account = instances[i].account
  PROVE  /\ NoLeak' /\ AtMostOne' /\ Journalled' /\ OneRequest' /\ CreatorView'
         /\ Quiet => Quiet'
         /\ \A i : Sole(i) => Sole(i)'
  <1>1. NoLeak'
    BY DEF IInv, NoLeak, Owned
  <1>2. AtMostOne' /\ OneRequest'
    BY DEF IInv, AtMostOne, OneRequest
  <1>3. Journalled'
    BY DEF IInv, Journalled, Owned
  <1>4. Quiet => Quiet'
    BY DEF Quiet
  <1>5. \A i : Sole(i) => Sole(i)'
    BY DEF Sole
  <1>6. CreatorView'
    BY <1>4, <1>5 DEF IInv, CreatorView
  <1>7. QED
    BY <1>1, <1>2, <1>3, <1>4, <1>5, <1>6

\* Deleting the instance that was found keeps the invariant.
LEMMA CleanDeleteInv == IInv /\ CleanDelete => IInv'
  <1> SUFFICES ASSUME IInv, CleanDelete PROVE IInv'
    OBVIOUS
  <1>1. TypeOK'
    BY TypeClean DEF IInv, CleanNext
  <1>2. /\ cleaner.pc = "delete" /\ cleaner.inst \in InstanceIDs
        /\ UNCHANGED <<now, claim, requests, account, creator>>
    BY DEF CleanDelete, IInv, CleanerView
  <1>3. \A i \in InstanceIDs : Exists(i)' => /\ Exists(i)
                                             /\ instances'[i].cfg = instances[i].cfg
                                             /\ instances'[i].account = instances[i].account
    BY <1>2 DEF CleanDelete, Exists, Visible, IInv, TypeOK, Instances
  <1>4. /\ cleaner'.pc = "verify" /\ cleaner'.inst = cleaner.inst
        /\ cleaner'.rv = cleaner.rv /\ cleaner'.launch = cleaner.launch
    BY DEF CleanDelete, IInv, TypeOK, Threads
  <1>5. Sole(cleaner.inst) => Sole(cleaner.inst)'
    BY <1>2, <1>3, <1>4 DEF Sole
  <1>6. CleanerView'
    BY <1>2, <1>4, <1>5 DEF IInv, CleanerView
  <1>7. QED
    BY <1>1, <1>2, <1>3, <1>6, ShrinkFrame DEF IInv

\* Removing the finalizer keeps the invariant: nothing exists and nothing is in flight.
LEMMA CleanReleaseInv == IInv /\ CleanRelease => IInv'
  <1> SUFFICES ASSUME IInv, CleanRelease PROVE IInv'
    OBVIOUS
  <1>1. TypeOK'
    BY TypeClean DEF IInv, CleanNext
  <1>2. /\ cleaner.pc = "release" /\ cleaner'.pc = "idle"
        /\ UNCHANGED <<now, instances, requests, account, creator>>
    BY DEF CleanRelease, Idle
  <1>3. CASE ~Fresh(cleaner.rv)
    BY <1>1, <1>2, <1>3, CleanReturns DEF CleanRelease
  <1>4. CASE Fresh(cleaner.rv)
    <2> DEFINE c == [claim EXCEPT !.finalizers = @ \ {"launch"}]
    <2>1. /\ c \in NodeClaims /\ c.rv = claim.rv /\ c.launch = claim.launch
          /\ c.providerID = claim.providerID /\ c.phase = claim.phase
      BY DEF IInv, TypeOK, NodeClaims
    <2>2. WriteClaim(c)
      BY <1>4 DEF CleanRelease
    <2> HIDE DEF c
    <2>3. /\ claim'.rv = claim.rv + 1 /\ claim'.launch = claim.launch
          /\ claim'.providerID = claim.providerID /\ claim'.phase = Settle(c)
      BY <2>1, <2>2, WriteClaimFacts
    <2>4. Quiet /\ claim.phase = "deleting"
      BY <1>2, <1>4 DEF IInv, CleanerView, Fresh
    <2>5. claim'.phase # "live"
      BY <2>1, <2>3, <2>4 DEF Settle
    <2>6. Quiet'
      BY <1>2, <2>4 DEF Quiet, Exists
    <2>7. NoLeak' /\ AtMostOne' /\ OneRequest' /\ Journalled'
      BY <2>5, <2>6 DEF Quiet, NoLeak, AtMostOne, OneRequest, Journalled
    <2>8. creator.rv <= claim.rv => creator.rv <= claim'.rv /\ creator.rv # claim'.rv
      BY SMTT(90), <2>3, FieldTypes DEF IInv
    <2>9. \A i : Sole(i) => Sole(i)'
      BY <1>2 DEF Sole, Exists
    <2>10. CreatorView'
      BY <1>2, <2>3, <2>6, <2>8, <2>9 DEF IInv, CreatorView
    <2>11. CleanerView'
      BY <1>2 DEF CleanerView
    <2>12. QED
      BY <1>1, <2>7, <2>10, <2>11 DEF IInv
  <1>5. QED
    BY <1>3, <1>4

-----------------------------------------------------------------------------
(* Ownership: the lifecycle controller, the cloud and time *)

\* Instances only stop existing, and neither thread moves.
LEMMA ShrinkInv ==
  ASSUME IInv, TypeOK', UNCHANGED <<now, claim, requests, account, creator, cleaner>>,
         \A i \in InstanceIDs : Exists(i)' => /\ Exists(i)
                                              /\ instances'[i].cfg = instances[i].cfg
                                              /\ instances'[i].account = instances[i].account
  PROVE  IInv'
  <1>1. /\ NoLeak' /\ AtMostOne' /\ Journalled' /\ OneRequest' /\ CreatorView'
        /\ Quiet => Quiet'
        /\ \A i : Sole(i) => Sole(i)'
    BY ShrinkFrame
  <1>2. CleanerView'
    BY <1>1 DEF IInv, CleanerView
  <1>3. QED
    BY <1>1, <1>2 DEF IInv

\* Deleting the instance of a published provider ID keeps the invariant.
LEMMA ProviderDeleteInv == IInv /\ ProviderDelete => IInv'
  <1> SUFFICES ASSUME IInv, ProviderDelete PROVE IInv'
    OBVIOUS
  <1>1. TypeOK'
    BY TypeCore DEF IInv, CoreNext
  <1>2. UNCHANGED <<now, requests, account, creator, cleaner>>
    BY DEF ProviderDelete
  <1>3. CASE claim.providerID \in Visible
    <2>1. \A i \in InstanceIDs : Exists(i)' => /\ Exists(i)
                                               /\ instances'[i].cfg = instances[i].cfg
                                               /\ instances'[i].account = instances[i].account
      BY SMTT(90), <1>3 DEF ProviderDelete, Exists, Visible, IInv, TypeOK, Instances
    <2>2. UNCHANGED claim
      BY <1>3 DEF ProviderDelete
    <2>3. QED
      BY <1>1, <1>2, <2>1, <2>2, ShrinkInv
  <1>4. CASE claim.providerID \notin Visible
    <2> DEFINE c == [claim EXCEPT !.finalizers = @ \ {"core"}]
    <2>1. /\ c \in NodeClaims /\ c.rv = claim.rv /\ c.launch = claim.launch
          /\ c.providerID = claim.providerID /\ c.phase = claim.phase
          /\ "launch" \in claim.finalizers => "launch" \in c.finalizers
      BY DEF IInv, TypeOK, NodeClaims
    <2>2. WriteClaim(c) /\ UNCHANGED instances
      BY <1>4 DEF ProviderDelete
    <2> HIDE DEF c
    <2>3. /\ claim'.rv = claim.rv + 1 /\ claim'.launch = claim.launch
          /\ claim'.providerID = claim.providerID /\ claim'.phase = Settle(c)
          /\ claim'.finalizers = c.finalizers
      BY <2>1, <2>2, WriteClaimFacts
    <2>4. /\ claim'.phase = "live" => claim.phase = "live"
          /\ claim'.phase = "gone" => claim.phase = "gone" \/ claim'.finalizers = {}
      BY <2>1, <2>3 DEF Settle
    <2>5. QED
      BY <1>1, <1>2, <2>1, <2>2, <2>3, <2>4, OtherWriteFrame
  <1>5. QED
    BY <1>3, <1>4

\* The end of an instance keeps the invariant.
LEMMA CloudGoneInv ==
  ASSUME IInv, NEW i \in InstanceIDs, CloudGone(i)
  PROVE  IInv'
  <1>1. TypeOK'
    BY TypeEnv DEF IInv
  <1>2. \A j \in InstanceIDs : Exists(j)' => /\ Exists(j)
                                             /\ instances'[j].cfg = instances[j].cfg
                                             /\ instances'[j].account = instances[j].account
    BY DEF CloudGone, Exists, IInv, TypeOK, Instances
  <1>3. QED
    BY <1>1, <1>2, ShrinkInv DEF CloudGone

\* Steps that move only the Node object, or nothing at all.
LEMMA NodeStepsInv ==
  ASSUME IInv, TypeOK', UNCHANGED <<now, claim, instances, requests, account, creator, cleaner>>
  PROVE  IInv'
  BY ShrinkInv DEF Exists

\* The cloud's decision on the one request keeps the invariant.
LEMMA CloudDecidesInv ==
  ASSUME IInv, TypeOK', NEW r \in requests,
         CloudReject(r) \/ CloudDrop(r) \/ \E i \in InstanceIDs : CloudAccept(r, i)
  PROVE  IInv'
  <1>1. requests = {r} /\ creator.pc # "send" /\ \A i \in InstanceIDs : ~Exists(i)
    BY DEF IInv, OneRequest, AtMostOne
  <1>2. /\ requests' = {} /\ UNCHANGED <<now, claim, account, cleaner>>
    BY <1>1 DEF CloudAccept, CloudReject, CloudDrop
  <1>3. ~Quiet /\ \A i : ~Sole(i)
    BY <1>1 DEF Quiet, Sole
  <1>4. claim.providerID = None /\ creator.pc \notin {"reject", "tag", "publish"}
    BY <1>3 DEF IInv, CreatorView
  <1>5. CleanerView'
    BY <1>2, <1>3 DEF IInv, CleanerView
  <1>6. creator'.pc # "send"
    BY <1>1 DEF CloudAccept, CloudReject, CloudDrop, IInv, TypeOK, Threads
  <1>7. CASE (CloudReject(r) \/ CloudDrop(r))
    <2>1. /\ UNCHANGED instances
          /\ creator' = creator \/ creator'.pc \in {"reject", "recover"}
      BY <1>7 DEF CloudReject, CloudDrop, IInv, TypeOK, Threads
    <2>2. Quiet'
      BY <1>1, <1>2, <1>6, <2>1 DEF Quiet, Exists
    <2>3. NoLeak' /\ AtMostOne' /\ OneRequest'
      BY <2>2 DEF Quiet, NoLeak, AtMostOne, OneRequest
    <2>4. Journalled'
      BY <1>2, <1>6 DEF IInv, Journalled
    <2>5. CreatorView'
      BY <1>2, <1>4, <2>1, <2>2 DEF IInv, CreatorView
    <2>6. QED
      BY <1>5, <2>3, <2>4, <2>5 DEF IInv
  <1>8. ASSUME NEW i \in InstanceIDs, CloudAccept(r, i) PROVE IInv'
    <2>1. /\ \A j \in InstanceIDs : Exists(j)' => j = i
          /\ instances'[i].cfg = r.cfg /\ instances'[i].account = r.account
      BY <1>1, <1>8 DEF CloudAccept, Exists, IInv, TypeOK
    <2>2. \/ creator' = creator
          \/ creator'.pc = "recover"
          \/ creator'.pc = "tag" /\ creator'.inst = i
      BY <1>8 DEF CloudAccept, IInv, TypeOK, Threads
    <2>3. Sole(i)'
      BY <1>2, <1>6, <2>1 DEF Sole
    <2>4. NoLeak'
      BY <1>2, <2>1 DEF IInv, NoLeak, Owned
    <2>5. AtMostOne' /\ OneRequest'
      BY <1>2, <1>6, <2>1 DEF AtMostOne, OneRequest
    <2>6. Journalled'
      BY <1>2, <1>6 DEF IInv, Journalled
    <2>7. creator'.pc = "tag" => Sole(creator.inst)' /\ creator'.inst \in InstanceIDs
      BY <1>4, <2>2, <2>3 DEF Sole
    <2>8. CreatorView'
      BY <1>2, <1>3, <1>4, <2>2, <2>7 DEF IInv, CreatorView
    <2>9. QED
      BY <1>5, <2>4, <2>5, <2>6, <2>8 DEF IInv
  <1>9. QED
    BY <1>7, <1>8

\* A restart, in whatever account, keeps the invariant.
LEMMA RestartInv == IInv /\ Restart => IInv'
  <1> SUFFICES ASSUME IInv, Restart PROVE IInv'
    OBVIOUS
  <1>1. TypeOK'
    BY TypeEnv DEF IInv
  <1>2. /\ creator'.pc = "idle" /\ cleaner'.pc = "idle"
        /\ UNCHANGED <<now, claim, instances, requests>>
    BY DEF Restart, Idle
  <1>3. NoLeak' /\ AtMostOne' /\ OneRequest'
    BY <1>2 DEF IInv, NoLeak, AtMostOne, OneRequest, Owned, Exists
  <1>4. Journalled'
    BY <1>2 DEF IInv, Journalled
  <1>5. Sole(claim.providerID) => Sole(claim.providerID)'
    BY <1>2 DEF Sole, Exists
  <1>6. CreatorView' /\ CleanerView'
    BY <1>2, <1>5 DEF IInv, CreatorView, CleanerView
  <1>7. QED
    BY <1>1, <1>3, <1>4, <1>6 DEF IInv

\* Time keeps the invariant.
LEMMA TickInv == IInv /\ Tick => IInv'
  <1> SUFFICES ASSUME IInv, Tick PROVE IInv'
    OBVIOUS
  <1>1. TypeOK'
    BY TypeEnv DEF IInv
  <1>2. now' = now + 1 /\ UNCHANGED <<claim, instances, requests, account, creator, cleaner>>
    BY DEF Tick
  <1>3. NoLeak' /\ AtMostOne' /\ OneRequest'
    BY <1>2 DEF IInv, NoLeak, AtMostOne, OneRequest, Owned, Exists
  <1>4. /\ \A r \in requests : now' <= r.at + MaxLatency
        /\ creator.pc = "send" => now' <= creator.launch.at + MaxLatency
        /\ creator.pc = "decide" => now' <= creator.since + MaxLookup
        /\ cleaner.pc = "decide" => now' <= cleaner.since + MaxLookup
        /\ creator.since <= now => creator.since <= now'
        /\ cleaner.since <= now => cleaner.since <= now'
    <2>1. /\ now \in Nat /\ creator.since \in Nat /\ cleaner.since \in Nat
          /\ creator.launch.at \in Nat /\ MaxLatency \in Nat /\ MaxLookup \in Nat
          /\ \A r \in requests : r.at \in Nat
      BY FieldTypes DEF IInv
    <2>2. \A t \in Nat : now < t => now' <= t
      <3>1. now \in Nat /\ now' = now + 1
        BY <1>2, <2>1
      <3>2. QED
        BY ONLY <3>1
    <2>3. /\ \A r \in requests : now < r.at + MaxLatency
          /\ creator.pc = "send" => now < creator.launch.at + MaxLatency
          /\ creator.pc = "decide" => now < creator.since + MaxLookup
          /\ cleaner.pc = "decide" => now < cleaner.since + MaxLookup
      BY DEF Tick
    <2>4. /\ \A r \in requests : r.at + MaxLatency \in Nat
          /\ creator.launch.at + MaxLatency \in Nat
          /\ creator.since + MaxLookup \in Nat /\ cleaner.since + MaxLookup \in Nat
      BY SMTT(90), <2>1
    <2>5. \A r \in requests : now' <= r.at + MaxLatency
      BY <2>2, <2>3, <2>4
    <2>6. creator.pc = "send" => now' <= creator.launch.at + MaxLatency
      BY <2>2, <2>3, <2>4
    <2>7. /\ creator.pc = "decide" => now' <= creator.since + MaxLookup
          /\ cleaner.pc = "decide" => now' <= cleaner.since + MaxLookup
      BY <2>2, <2>3, <2>4
    <2>8. /\ creator.since <= now => creator.since <= now'
          /\ cleaner.since <= now => cleaner.since <= now'
      BY SMTT(90), <1>2, <2>1
    <2>9. QED
      BY <2>5, <2>6, <2>7, <2>8
  <1>5. Journalled'
    BY <1>2, <1>4 DEF IInv, Journalled, Owned
  <1>6. (Quiet => Quiet') /\ \A i : Sole(i) => Sole(i)'
    BY <1>2 DEF Quiet, Sole, Exists
  <1>7. CreatorView'
    BY <1>2, <1>4, <1>6 DEF IInv, CreatorView
  <1>8. CleanerView'
    BY <1>2, <1>4, <1>6 DEF IInv, CleanerView
  <1>9. QED
    BY <1>1, <1>3, <1>5, <1>7, <1>8 DEF IInv

-----------------------------------------------------------------------------
(* The theorems *)

\* The first state satisfies the inductive invariant.
LEMMA InvInit == Init => IInv
  <1> SUFFICES ASSUME Init PROVE IInv
    OBVIOUS
  <1>1. TypeOK
    BY TypeInit
  <1>2. /\ creator.pc = "idle" /\ cleaner.pc = "idle" /\ requests = {}
        /\ claim.providerID = None /\ claim.launch.state = "none"
        /\ \A i \in InstanceIDs : ~Exists(i)
    BY DEF Init, Idle, NoLaunch, Exists
  <1>3. NoLeak /\ AtMostOne /\ Journalled /\ OneRequest /\ CreatorView /\ CleanerView
    BY <1>2 DEF NoLeak, AtMostOne, Journalled, OneRequest, CreatorView, CleanerView
  <1>4. QED
    BY <1>1, <1>3 DEF IInv

\* Every step keeps the inductive invariant.
LEMMA InvNext == Timely /\ IInv /\ [Next]_vars => IInv'
  <1> SUFFICES ASSUME Timely, IInv, [Next]_vars PROVE IInv'
    OBVIOUS
  <1>1. TypeOK'
    BY TypeNext DEF IInv
  <1>2. CASE CreateNext \/ CreateTimeout \/ CreateError
    BY <1>2, CreateStartInv, CreateCheckpointInv, CreateLookupInv, CreateSubmitInv,
       CreateSendInv, CreateRejectInv, CreateResumeInv, CreateDecideInv, CreateResetInv,
       CreateTagInv, CreatePublishInv, CreateFailsInv DEF CreateNext
  <1>3. CASE CleanNext \/ CleanError
    BY <1>3, CleanReadInv, CleanStepsInv, CleanFindInv, CleanNodesInv, CleanDeleteInv,
       CleanReleaseInv DEF CleanNext
  <1>4. CASE CloudDecides
    BY <1>1, <1>4, CloudDecidesInv DEF CloudDecides
  <1>5. CASE CoreDrain \/ CoreRegister \/ NodeGone \/ UNCHANGED vars
    BY <1>1, <1>5, NodeStepsInv DEF CoreDrain, CoreRegister, NodeGone, vars
  <1>6. ASSUME NEW i \in InstanceIDs, NodeRegister(i) PROVE IInv'
    BY <1>1, <1>6, NodeStepsInv DEF NodeRegister
  <1>7. QED
    BY <1>2, <1>3, <1>4, <1>5, <1>6, ProviderDeleteInv, OtherWritesInv, CloudGoneInv,
       RestartInv, TickInv DEF Next, CoreNext

\* The inductive invariant holds in every reachable state.
LEMMA Invariance ==
  ASSUME Timely
  PROVE  Spec => []IInv
  <1>1. IInv /\ [Next]_vars => IInv'
    BY InvNext
  <1>2. QED
    BY <1>1, InvInit, PTL DEF Spec

\* No lost reply, conflict, restart, change of credentials or deletion of the
\* claim leaks an instance: one that exists or may still appear is always held
\* by the claim's journal and finalizer.
THEOREM NeverLeaks ==
  ASSUME Timely
  PROVE  Spec => []NoLeak
  <1>1. IInv => NoLeak
    BY DEF IInv
  <1>2. QED
    BY <1>1, Invariance, PTL

\* Create never leaves two instances of a claim, nor one instance and a
\* request that could add another.
THEOREM NeverTwo ==
  ASSUME Timely
  PROVE  Spec => []AtMostOne
  <1>1. IInv => AtMostOne
    BY DEF IInv
  <1>2. QED
    BY <1>1, Invariance, PTL

-----------------------------------------------------------------------------
(* Refinement of the contract *)

\* A live claim has the lifecycle controller's finalizer, so that its deletion
\* is never immediate.
LiveCore == claim.phase = "live" => "core" \in claim.finalizers

\* No step takes core's finalizer from a live claim.
LEMMA LiveCoreNext == TypeOK /\ LiveCore /\ [Next]_vars => LiveCore'
  <1> SUFFICES ASSUME TypeOK, LiveCore, [Next]_vars PROVE LiveCore'
    OBVIOUS
  <1>1. CASE UNCHANGED claim
    BY <1>1 DEF LiveCore
  <1>2. ASSUME NEW c \in NodeClaims, WriteClaim(c),
               c.phase = "live" => claim.phase = "live",
               c.phase = "live" => ("core" \in claim.finalizers => "core" \in c.finalizers)
        PROVE  LiveCore'
    BY <1>2, WriteClaimFacts DEF LiveCore, Settle
  <1>3. ASSUME NEW l \in launchConfig
        PROVE  LET c == [claim EXCEPT !.launch = l, !.finalizers = @ \cup {"launch"}]
                   d == [claim EXCEPT !.launch = l]
                   e == [claim EXCEPT !.launch = l, !.finalizers = @ \ {"launch"}]
               IN  /\ c \in NodeClaims /\ c.phase = claim.phase
                   /\ "core" \in claim.finalizers => "core" \in c.finalizers
                   /\ d \in NodeClaims /\ d.phase = claim.phase
                   /\ d.finalizers = claim.finalizers
                   /\ e \in NodeClaims /\ e.phase = claim.phase
                   /\ "core" \in claim.finalizers => "core" \in e.finalizers
    BY DEF TypeOK, NodeClaims
  <1>4. creator.launch \in launchConfig
    BY DEF TypeOK, Threads
  <1>5. CASE CreateCheckpoint
    BY <1>1, <1>2, <1>3, <1>4, <1>5 DEF CreateCheckpoint
  <1>6. CASE CreateSubmit
    <2>1. [creator.launch EXCEPT !.state = "submitted", !.at = now] \in launchConfig
      BY <1>4, LaunchFacts DEF TypeOK, LaunchStates
    <2>2. QED
      BY <1>1, <1>2, <1>3, <1>6, <2>1 DEF CreateSubmit
  <1>7. CASE CreateReject
    <2>1. [creator.launch EXCEPT !.state = "rejected"] \in launchConfig
      BY <1>4, LaunchFacts DEF TypeOK, LaunchStates
    <2>2. QED
      BY <1>1, <1>2, <1>3, <1>7, <2>1 DEF CreateReject
  <1>8. CASE CreateReset
    BY <1>1, <1>2, <1>3, <1>8, NoLaunchType DEF CreateReset
  <1>9. CASE CreatePublish
    <2>1. /\ [claim EXCEPT !.providerID = creator.inst] \in NodeClaims
          /\ [claim EXCEPT !.providerID = creator.inst].phase = claim.phase
          /\ [claim EXCEPT !.providerID = creator.inst].finalizers = claim.finalizers
      BY DEF TypeOK, NodeClaims, Threads
    <2>2. QED
      BY <1>1, <1>2, <1>9, <2>1 DEF CreatePublish
  <1>10. CASE CleanRelease
    <2>1. LET c == [claim EXCEPT !.finalizers = @ \ {"launch"}]
          IN  /\ c \in NodeClaims /\ c.phase = claim.phase
              /\ "core" \in claim.finalizers => "core" \in c.finalizers
      BY DEF TypeOK, NodeClaims
    <2>2. QED
      BY <1>1, <1>2, <1>10, <2>1 DEF CleanRelease
  <1>11. CASE ProviderDelete \/ CoreFinalize
    <2>1. LET c == [claim EXCEPT !.finalizers = @ \ {"core"}]
          IN  c \in NodeClaims /\ c.phase = claim.phase
      BY DEF TypeOK, NodeClaims
    <2>2. claim.phase = "deleting"
      BY <1>11 DEF ProviderDelete, CoreFinalize
    <2>3. QED
      BY <1>1, <1>2, <1>11, <2>1, <2>2 DEF ProviderDelete, CoreFinalize
  <1>12. CASE DeleteClaim
    <2>1. LET c == [claim EXCEPT !.phase = "deleting"]
          IN  c \in NodeClaims /\ c.phase = "deleting"
      BY DEF TypeOK, NodeClaims
    <2>2. QED
      BY <1>2, <1>12, <2>1 DEF DeleteClaim
  <1>13. CASE OtherWrite
    BY <1>2, <1>13 DEF OtherWrite, TypeOK
  <1>14. QED
    BY <1>1, <1>5, <1>6, <1>7, <1>8, <1>9, <1>10, <1>11, <1>12, <1>13
       DEF Next, CreateNext, CleanNext, CoreNext, CloudDecides, vars, CreateStart, newLaunch,
           CreateLookup, CreateSend, CreateResume, CreateDecide, CreateRecover, CreateTag,
           CreateTimeout, CreateError, CleanRead, CleanConfirm, CleanFind, CleanDecide,
           CleanNodes, CleanDelete, CleanVerify, CleanError, CoreDrain, CloudAccept,
           CloudReject, CloudDrop, CloudGone, NodeRegister, CoreRegister, NodeGone,
           Restart, Tick


\* Only the claim, or nothing, moved.
LEMMA PhaseStep ==
  ASSUME IInv', UNCHANGED requests,
         \A j \in InstanceIDs : Exists(j)' <=> Exists(j),
         (creator.pc = "send") <=> (creator'.pc = "send"),
         \/ claim'.phase = claim.phase
         \/ claim.phase = "live" /\ claim'.phase = "deleting"
         \/ claim.phase = "deleting" /\ claim'.phase = "gone"
  PROVE  [Contract!ContractNext]_(Contract!contractVars)
  <1>1. instOf' = instOf
    BY DEF instOf
  <1>2. claim'.phase = "gone" => instOf' = "absent"
    BY DEF IInv, NoLeak, Journalled, Owned, instOf
  <1>3. QED
    BY <1>1, <1>2 DEF Contract!ContractNext, Contract!Delete, Contract!Collect,
                      Contract!contractVars

\* The phase a write leaves, by the phase of the object written.
LEMMA WriteStep ==
  ASSUME NEW c \in NodeClaims, WriteClaim(c), c.phase = claim.phase
  PROVE  \/ claim'.phase = claim.phase
         \/ claim.phase = "deleting" /\ claim'.phase = "gone"
  BY WriteClaimFacts DEF Settle

\* The actions that change what may exist in the cloud.
LEMMA CloudStep ==
  ASSUME IInv, IInv',
         \/ CreateSend \/ CloudDecides \/ Restart
         \/ \E i \in InstanceIDs : CloudGone(i)
  PROVE  [Contract!ContractNext]_(Contract!contractVars)
  <1>1. UNCHANGED claim
    BY DEF CreateSend, CloudDecides, Restart, CloudGone, CloudAccept, CloudReject, CloudDrop
  <1>2. ASSUME instOf = "requested", instOf' \in {"present", "absent"}
        PROVE  [Contract!ContractNext]_(Contract!contractVars)
    BY <1>1, <1>2 DEF Contract!ContractNext, Contract!Resolve
  <1>3. creator.pc = "send" \/ requests # {} => instOf = "requested"
    BY DEF IInv, AtMostOne, instOf
  <1>4. CASE CreateSend
    <2>1. /\ creator.pc = "send" /\ requests = {} /\ UNCHANGED instances
          /\ \A j \in InstanceIDs : ~Exists(j)
      BY <1>4 DEF CreateSend, IInv, OneRequest, AtMostOne
    <2>2. CASE requests' # {}
      <3>1. instOf' = "requested"
        BY <2>1, <2>2 DEF instOf, Exists
      <3>2. QED
        BY <1>1, <1>3, <2>1, <3>1 DEF Contract!contractVars
    <2>3. CASE requests' = {}
      <3>1. creator'.pc # "send"
        BY <1>4 DEF CreateSend, IInv, TypeOK, Threads
      <3>2. instOf' = "absent"
        BY <2>1, <2>3, <3>1 DEF instOf, Exists
      <3>3. QED
        BY <1>2, <1>3, <2>1, <3>2
    <2>4. QED
      BY <2>2, <2>3
  <1>5. ASSUME NEW r \in requests, CloudReject(r) \/ CloudDrop(r)
        PROVE  [Contract!ContractNext]_(Contract!contractVars)
    <2>1. /\ requests' = {} /\ UNCHANGED instances /\ creator.pc # "send"
          /\ \A j \in InstanceIDs : ~Exists(j)
      BY <1>5 DEF CloudReject, CloudDrop, IInv, OneRequest, AtMostOne
    <2>2. creator'.pc # "send"
      BY <1>5, <2>1 DEF CloudReject, CloudDrop, IInv, TypeOK, Threads
    <2>3. instOf' = "absent"
      BY <2>1, <2>2 DEF instOf, Exists
    <2>4. QED
      BY <1>2, <1>3, <1>5, <2>3
  <1>6. ASSUME NEW r \in requests, NEW i \in InstanceIDs, CloudAccept(r, i)
        PROVE  [Contract!ContractNext]_(Contract!contractVars)
    <2>1. Exists(i)'
      BY <1>6 DEF CloudAccept, Exists, IInv, TypeOK
    <2>2. instOf' = "present"
      BY <2>1 DEF instOf
    <2>3. QED
      BY <1>2, <1>3, <1>6, <2>2
  <1>7. ASSUME NEW i \in InstanceIDs, CloudGone(i)
        PROVE  [Contract!ContractNext]_(Contract!contractVars)
    <2>1. /\ Exists(i) /\ requests' = {} /\ creator'.pc # "send"
      BY <1>7 DEF CloudGone, Exists, IInv, AtMostOne
    <2>2. \A j \in InstanceIDs : ~Exists(j)'
      BY SMTT(90), <1>7 DEF CloudGone, Exists, IInv, AtMostOne, TypeOK, Instances
    <2>3. instOf = "present" /\ instOf' = "absent"
      BY <2>1, <2>2 DEF instOf
    <2>4. QED
      BY <1>1, <2>3 DEF Contract!ContractNext, Contract!Vanish
  <1>8. CASE Restart
    <2>1. UNCHANGED <<instances, requests>> /\ creator'.pc # "send"
      BY <1>8 DEF Restart, Idle
    <2>2. CASE creator.pc = "send"
      <3>1. instOf' = "absent"
        BY <2>1, <2>2 DEF IInv, OneRequest, AtMostOne, instOf, Exists
      <3>2. QED
        BY <1>2, <1>3, <2>2, <3>1
    <2>3. CASE creator.pc # "send"
      <3>1. \A j \in InstanceIDs : Exists(j)' <=> Exists(j)
        BY <2>1 DEF Exists
      <3>2. QED
        BY <1>1, <2>1, <2>3, <3>1, PhaseStep
    <2>4. QED
      BY <2>2, <2>3
  <1>9. QED
    BY <1>4, <1>5, <1>6, <1>7, <1>8 DEF CloudDecides


\* Recording the submission is the contract's step of that name, or none.
LEMMA SubmitStep ==
  ASSUME IInv, IInv', CreateSubmit
  PROVE  [Contract!ContractNext]_(Contract!contractVars)
  <1>1. creator.pc = "submit" /\ UNCHANGED <<instances, requests>>
    BY DEF CreateSubmit
  <1>2. \A j \in InstanceIDs : Exists(j)' <=> Exists(j)
    BY <1>1 DEF Exists
  <1>3. \/ UNCHANGED claim
        \/ Fresh(creator.rv) /\ claim.phase = "live" /\ claim'.phase = "live"
    <2> DEFINE l == [creator.launch EXCEPT !.state = "submitted", !.at = now]
    <2>1. creator.launch \in launchConfig /\ "submitted" \in LaunchStates /\ now \in Nat
      BY DEF IInv, TypeOK, Threads, LaunchStates
    <2>2. l \in launchConfig
      BY <2>1, LaunchFacts
    <2> HIDE DEF l
    <2>3. [claim EXCEPT !.launch = l] \in NodeClaims
          /\ [claim EXCEPT !.launch = l].phase = claim.phase
      BY <2>2 DEF IInv, TypeOK, NodeClaims
    <2>4. Fresh(creator.rv) => claim.phase = "live"
      BY <1>1 DEF Fresh, IInv, CreatorView
    <2>5. CASE WriteClaim([claim EXCEPT !.launch = l]) /\ Fresh(creator.rv)
      <3>1. claim'.phase = claim.phase \/ claim.phase = "deleting"
        BY <2>3, <2>5, WriteStep
      <3>2. QED
        BY <2>4, <2>5, <3>1
    <2>6. ~Fresh(creator.rv) => UNCHANGED claim
      BY DEF CreateSubmit
    <2>7. Fresh(creator.rv) => WriteClaim([claim EXCEPT !.launch = l])
      BY DEF CreateSubmit, l
    <2>8. QED
      BY <2>5, <2>6, <2>7
  <1>4. CASE creator'.pc = "send"
    <2>1. requests' = {} /\ \A j \in InstanceIDs : ~Exists(j)'
      BY <1>4 DEF IInv, OneRequest, AtMostOne
    <2>2. instOf = "absent"
      BY <1>1, <1>2, <2>1 DEF instOf
    <2>3. instOf' = "requested"
      BY <1>4, <2>1 DEF instOf
    <2>4. creator' # Idle /\ Fresh(creator.rv)
      BY SMTT(90), <1>4 DEF CreateSubmit, Idle
    <2>5. claim.phase = "live" /\ claim'.phase = "live"
      BY <1>1, <1>3, <2>4 DEF Fresh, IInv, CreatorView
    <2>6. QED
      BY <2>2, <2>3, <2>5 DEF Contract!ContractNext, Contract!Request
  <1>5. CASE creator'.pc # "send"
    BY <1>1, <1>2, <1>3, <1>5, PhaseStep
  <1>6. QED
    BY <1>4, <1>5

\* Every other write keeps the phase, or lets a deleted claim go.
LEMMA ClaimStep ==
  ASSUME IInv, LiveCore,
         \/ CreateCheckpoint \/ CreateReject \/ CreateReset \/ CreatePublish \/ CleanRelease
         \/ ProviderDelete \/ CoreFinalize \/ DeleteClaim \/ OtherWrite
  PROVE  \/ claim'.phase = claim.phase
         \/ claim.phase = "live" /\ claim'.phase = "deleting"
         \/ claim.phase = "deleting" /\ claim'.phase = "gone"
  <1> DEFINE Goal == \/ claim'.phase = claim.phase
                     \/ claim.phase = "live" /\ claim'.phase = "deleting"
                     \/ claim.phase = "deleting" /\ claim'.phase = "gone"
  <1>1. ASSUME UNCHANGED claim PROVE Goal
    BY <1>1
  <1>2. ASSUME NEW l \in launchConfig
        PROVE  /\ WriteClaim([claim EXCEPT !.launch = l, !.finalizers = @ \cup {"launch"}]) => Goal
               /\ WriteClaim([claim EXCEPT !.launch = l, !.finalizers = @ \ {"launch"}]) => Goal
    <2>1. /\ [claim EXCEPT !.launch = l, !.finalizers = @ \cup {"launch"}] \in NodeClaims
          /\ [claim EXCEPT !.launch = l, !.finalizers = @ \cup {"launch"}].phase = claim.phase
          /\ [claim EXCEPT !.launch = l, !.finalizers = @ \ {"launch"}] \in NodeClaims
          /\ [claim EXCEPT !.launch = l, !.finalizers = @ \ {"launch"}].phase = claim.phase
      BY DEF IInv, TypeOK, NodeClaims
    <2>2. QED
      BY <2>1, WriteStep
  <1>3. creator.launch \in launchConfig
    BY DEF IInv, TypeOK, Threads
  <1>4. CASE CreateCheckpoint
    BY <1>1, <1>2, <1>3, <1>4 DEF CreateCheckpoint
  <1>5. CASE CreateReject
    <2>1. [creator.launch EXCEPT !.state = "rejected"] \in launchConfig
      BY <1>3, LaunchFacts DEF LaunchStates
    <2>2. QED
      BY <1>1, <1>2, <1>5, <2>1 DEF CreateReject
  <1>6. CASE CreateReset
    BY <1>1, <1>2, <1>6, NoLaunchType DEF CreateReset
  <1>7. CASE CreatePublish
    <2>1. /\ [claim EXCEPT !.providerID = creator.inst] \in NodeClaims
          /\ [claim EXCEPT !.providerID = creator.inst].phase = claim.phase
      BY DEF IInv, TypeOK, NodeClaims, Threads
    <2>2. QED
      BY <1>1, <1>7, <2>1, WriteStep DEF CreatePublish
  <1>8. CASE CleanRelease \/ ProviderDelete \/ CoreFinalize
    <2>1. /\ [claim EXCEPT !.finalizers = @ \ {"launch"}] \in NodeClaims
          /\ [claim EXCEPT !.finalizers = @ \ {"launch"}].phase = claim.phase
          /\ [claim EXCEPT !.finalizers = @ \ {"core"}] \in NodeClaims
          /\ [claim EXCEPT !.finalizers = @ \ {"core"}].phase = claim.phase
      BY DEF IInv, TypeOK, NodeClaims
    <2>2. QED
      BY <1>1, <1>8, <2>1, WriteStep DEF CleanRelease, ProviderDelete, CoreFinalize
  <1>9. CASE DeleteClaim
    <2>1. LET c == [claim EXCEPT !.phase = "deleting"]
          IN  c \in NodeClaims /\ Settle(c) = "deleting"
      BY <1>9 DEF IInv, TypeOK, NodeClaims, LiveCore, DeleteClaim, Settle
    <2>2. QED
      BY <1>9, <2>1, WriteClaimFacts DEF DeleteClaim
  <1>10. CASE OtherWrite
    BY <1>10, WriteStep DEF OtherWrite, IInv, TypeOK
  <1>11. QED
    BY <1>4, <1>5, <1>6, <1>7, <1>8, <1>9, <1>10


\* Every step of the journal is a step of the contract or none.
LEMMA ContractStep ==
  ASSUME IInv, IInv', LiveCore, [Next]_vars
  PROVE  [Contract!ContractNext]_(Contract!contractVars)
  <1>1. ASSUME UNCHANGED <<instances, requests>>,
               (creator.pc = "send") <=> (creator'.pc = "send"),
               \/ claim'.phase = claim.phase
               \/ claim.phase = "live" /\ claim'.phase = "deleting"
               \/ claim.phase = "deleting" /\ claim'.phase = "gone"
        PROVE  [Contract!ContractNext]_(Contract!contractVars)
    BY <1>1, PhaseStep DEF Exists
  <1>0. creator \in Threads(CreatorPCs)
    BY DEF IInv, TypeOK
  <1>2. CASE \/ CreateStart \/ CreateLookup \/ CreateResume \/ CreateDecide \/ CreateRecover
             \/ CreateTag \/ CreateTimeout \/ CreateError
    <2>1. UNCHANGED <<claim, instances, requests>> /\ creator.pc # "send"
      BY <1>2 DEF CreateStart, newLaunch, CreateLookup, CreateResume, CreateDecide, CreateRecover,
                  CreateTag, CreateTimeout, CreateError
    <2>2. creator'.pc # "send"
      <3>1. CASE CreateStart
        BY <1>0, <3>1 DEF CreateStart, newLaunch, Idle, Threads
      <3>2. CASE CreateLookup
        BY SMTT(90), <1>0, <3>2 DEF CreateLookup, Idle, Threads
      <3>3. CASE CreateResume
        <4>1. \/ creator' = Idle
              \/ creator' = [creator EXCEPT !.pc = "decide", !.since = now]
              \/ \E i : creator' = [creator EXCEPT !.pc = "tag", !.inst = i]
          BY <3>3 DEF CreateResume
        <4>2. CASE creator' = Idle
          BY <4>2 DEF Idle
        <4>3. CASE creator' = [creator EXCEPT !.pc = "decide", !.since = now]
          BY <1>0, <4>3 DEF Threads
        <4>4. ASSUME NEW i, creator' = [creator EXCEPT !.pc = "tag", !.inst = i]
              PROVE  creator'.pc # "send"
          BY <1>0, <4>4 DEF Threads
        <4>5. QED
          BY <4>1, <4>2, <4>3, <4>4
      <3>4. CASE CreateDecide
        BY <1>0, <3>4 DEF CreateDecide, Idle, Threads
      <3>5. CASE CreateRecover
        <4>1. \/ creator' = Idle
              \/ \E i : creator' = [creator EXCEPT !.pc = "tag", !.inst = i]
          BY <3>5 DEF CreateRecover
        <4>2. CASE creator' = Idle
          BY <4>2 DEF Idle
        <4>3. ASSUME NEW i, creator' = [creator EXCEPT !.pc = "tag", !.inst = i]
              PROVE  creator'.pc # "send"
          BY <1>0, <4>3 DEF Threads
        <4>4. QED
          BY <4>1, <4>2, <4>3
      <3>6. CASE CreateTag
        BY <1>0, <3>6 DEF CreateTag, Idle, Threads
      <3>7. CASE CreateTimeout
        BY <1>0, <3>7 DEF CreateTimeout, Idle, Threads
      <3>8. CASE CreateError
        BY <1>0, <3>8 DEF CreateError, Idle, Threads
      <3>9. QED
        BY <1>2, <3>1, <3>2, <3>3, <3>4, <3>5, <3>6, <3>7, <3>8
    <2>3. QED
      BY <1>1, <2>1, <2>2
  <1>3. CASE CreateCheckpoint \/ CreateReject \/ CreateReset \/ CreatePublish
    <2>1. UNCHANGED <<instances, requests>> /\ creator.pc # "send"
      BY <1>3 DEF CreateCheckpoint, CreateReject, CreateReset, CreatePublish
    <2>2. creator'.pc # "send"
      <3>1. CASE CreateCheckpoint
        <4>1. \/ creator' = Idle
              \/ creator' = [creator EXCEPT !.pc = "lookup", !.rv = claim.rv + 1]
          BY <3>1 DEF CreateCheckpoint
        <4>2. CASE creator' = Idle
          BY <4>2 DEF Idle
        <4>3. CASE creator' = [creator EXCEPT !.pc = "lookup", !.rv = claim.rv + 1]
          BY <1>0, <4>3 DEF Threads
        <4>4. QED
          BY <4>1, <4>2, <4>3
      <3>2. CASE CreateReject
        <4>1. \/ creator' = Idle
              \/ \E l : creator' = [creator EXCEPT !.pc = "recover", !.launch = l,
                                                        !.rv = claim.rv + 1]
          BY <3>2 DEF CreateReject
        <4>2. CASE creator' = Idle
          BY <4>2 DEF Idle
        <4>3. ASSUME NEW l, creator' = [creator EXCEPT !.pc = "recover", !.launch = l,
                                                           !.rv = claim.rv + 1]
              PROVE  creator'.pc # "send"
          BY <1>0, <4>3 DEF Threads
        <4>4. QED
          BY <4>1, <4>2, <4>3
      <3>3. CASE CreateReset
        BY <1>0, <3>3 DEF CreateReset, Idle, Threads
      <3>4. CASE CreatePublish
        BY <1>0, <3>4 DEF CreatePublish, Idle, Threads
      <3>5. QED
        BY <1>3, <3>1, <3>2, <3>3, <3>4
    <2>3. QED
      BY <1>1, <1>3, <2>1, <2>2, ClaimStep
  <1>4. CASE \/ CleanRelease \/ CoreFinalize \/ DeleteClaim \/ OtherWrite
    <2>1. UNCHANGED <<instances, requests, creator>>
      BY <1>4 DEF CleanRelease, CoreFinalize, DeleteClaim, OtherWrite
    <2>2. QED
      BY <1>1, <1>4, <2>1, ClaimStep
  <1>5. CASE ProviderDelete \/ CleanDelete
    <2>1. UNCHANGED <<requests, creator>>
      BY <1>5 DEF ProviderDelete, CleanDelete
    <2>2. \A j \in InstanceIDs : Exists(j)' <=> Exists(j)
      BY SMTT(90), <1>5 DEF ProviderDelete, CleanDelete, Exists, Visible, IInv, TypeOK, Instances
    <2>3. CleanDelete => UNCHANGED claim
      BY DEF CleanDelete
    <2>4. QED
      BY <1>5, <2>1, <2>2, <2>3, ClaimStep, PhaseStep
  <1>6. CASE \/ CleanRead \/ CleanConfirm \/ CleanFind \/ CleanDecide \/ CleanNodes
             \/ CleanVerify \/ CleanError \/ CoreDrain \/ CoreRegister \/ NodeGone \/ Tick
             \/ \E i \in InstanceIDs : NodeRegister(i)
             \/ UNCHANGED vars
    <2>1. UNCHANGED <<claim, instances, requests, creator>>
      BY <1>6 DEF CleanRead, CleanConfirm, CleanFind, CleanDecide, CleanNodes, CleanVerify,
                  CleanError, CoreDrain, CoreRegister, NodeGone, Tick, NodeRegister, vars
    <2>2. QED
      BY <1>1, <2>1
  <1>7. QED
    BY <1>2, <1>3, <1>4, <1>5, <1>6, CloudStep, SubmitStep
       DEF Next, CreateNext, CleanNext, CoreNext

\* For every set of instances, configurations and accounts, and every number of
\* faults: if a request is decided, and an empty lookup acted on, within the
\* launch resolution window, then Create, the allocation controller and Delete
\* together implement the launch contract.  A launch is submitted only for a
\* live claim that owns nothing, and the claim disappears only when no instance
\* exists and none can still appear.
THEOREM LaunchRefinesContract ==
  ASSUME Timely
  PROVE  Spec => ImplementsContract
  <1>1. Init => Contract!ContractInit
    BY SMTT(90) DEF Init, Contract!ContractInit, instOf, Exists, Idle, Threads
  <1>2. Init => LiveCore
    BY SMTT(90) DEF Init, LiveCore
  <1>3. TypeOK /\ LiveCore /\ [Next]_vars => LiveCore'
    BY LiveCoreNext
  <1>4. IInv /\ IInv' /\ LiveCore /\ [Next]_vars => [Contract!ContractNext]_(Contract!contractVars)
    BY ContractStep
  <1>5. Spec => []IInv
    BY Invariance
  <1>6. IInv => TypeOK
    BY DEF IInv
  <1>7. QED
    BY <1>1, <1>2, <1>3, <1>4, <1>5, <1>6, PTL DEF Spec, ImplementsContract, Contract!ContractSpec

=============================================================================
