----------------------------- MODULE VPCLaunch -----------------------------
(***************************************************************************)
(* The launch journal of VPC mode: how one NodeClaim is turned into at     *)
(* most one VPC instance, and how the instance is found again, or proved   *)
(* never to have existed, after lost replies, conflicts and restarts.      *)
(*                                                                         *)
(* The journal is an annotation on the NodeClaim (launchConfig) guarded by *)
(* a finalizer.  VPCInstanceProvider.Create writes it before it submits    *)
(* CreateInstance and reads it back on every retry; the allocation         *)
(* controller resolves it when the NodeClaim is deleted.  Instance names   *)
(* are a function of the cluster UID and the claim UID, so the launches of *)
(* different claims never meet and one claim is modelled.                  *)
(*                                                                         *)
(* One process runs the controllers at a time (leader election).  It runs  *)
(* one Create for the claim (creator) and one reconcile of the allocation  *)
(* controller (cleaner); every call to the Kubernetes API or to IBM Cloud  *)
(* is a step of its own.  A CreateInstance request outlives the process    *)
(* that sent it.                                                           *)
(***************************************************************************)
EXTENDS Naturals, FiniteSets

CONSTANTS
    Accounts,     \* IBM Cloud accounts a process may hold credentials of
    Configs,      \* the launch choices: profile, zone, subnet, image, VPC
    InstanceIDs,  \* identities the cloud may hand out, never twice
    None,         \* no provider ID, no instance
    Window,       \* launchResolutionWindow, in ticks
    MaxLatency,   \* ticks from SubmittedAt to the cloud's verdict, at most
    MaxLookup,    \* ticks from an empty lookup to the decision on it, at most
    MaxTime,      \* bound: no launch is submitted within Window of this time
    MaxWrites,    \* bound: no new launch starts past this resourceVersion
    MaxFaults     \* bound: restarts and failed calls

ASSUME ConstantsAssumption ==
    /\ None \notin InstanceIDs
    /\ None \notin Configs
    /\ None \notin Accounts
    /\ Accounts # {}
    /\ Configs # {}
    /\ Window \in Nat
    /\ MaxLatency \in Nat
    /\ MaxLookup \in Nat
    /\ MaxTime \in Nat
    /\ MaxWrites \in Nat
    /\ MaxFaults \in Nat

VARIABLES
    now,        \* the clock
    claim,      \* the NodeClaim object in the API server
    node,       \* the Node object of the instance that joined last
    instances,  \* the instances of this launch identity in IBM Cloud
    requests,   \* CreateInstance requests the cloud has not decided yet
    account,    \* account of the running process's credentials
    creator,    \* the Create call in progress
    cleaner,    \* the allocation reconcile in progress
    faults      \* restarts and failed calls so far

vars == <<now, claim, node, instances, requests, account, creator, cleaner, faults>>

-----------------------------------------------------------------------------
(* The journal record.  Submitted and Rejected are folded into one state.  *)

LaunchStates == {"none", "prepared", "submitted", "rejected"}

launchConfig == [state: LaunchStates, cfg: Configs \cup {None},
                 account: Accounts \cup {None}, at: Nat]

NoLaunch == [state |-> "none", cfg |-> None, account |-> None, at |-> 0]

CreatorPCs == {"idle", "prepare", "lookup", "submit", "send", "sent", "reject",
               "resume", "decide", "recover", "tag", "publish", "reset"}

CleanerPCs == {"idle", "confirm", "find", "decide", "nodes", "delete",
               "verify", "release"}

Idle == [pc |-> "idle", rv |-> 0, launch |-> NoLaunch, inst |-> None, since |-> 0]

NodeClaims == [phase: {"live", "deleting", "gone"},
               finalizers: SUBSET {"launch", "core"},
               launch: launchConfig,
               providerID: InstanceIDs \cup {None},
               rv: Nat]

Nodes == [state: {"none", "bare", "managed", "terminating"},
          inst: InstanceIDs \cup {None}]

Instances == [status: {"unborn", "running", "deleting", "gone"},
              account: Accounts \cup {None}, cfg: Configs \cup {None}]

Requests == [rv: Nat, account: Accounts \cup {None}, cfg: Configs \cup {None}, at: Nat]

\* A call in progress: the claim's version and journal it read, the instance it
\* found, and the time of its empty lookup.
Threads(pcs) == [pc: pcs, rv: Nat, launch: launchConfig,
                 inst: InstanceIDs \cup {None}, since: Nat]

TypeOK ==
    /\ now \in Nat
    /\ claim \in NodeClaims
    /\ node \in Nodes
    /\ instances \in [InstanceIDs -> Instances]
    /\ requests \subseteq Requests
    /\ account \in Accounts
    /\ creator \in Threads(CreatorPCs)
    /\ cleaner \in Threads(CleanerPCs)
    /\ faults \in Nat

Init ==
    /\ now = 0
    /\ claim = [phase |-> "live", finalizers |-> {"core"}, launch |-> NoLaunch,
                providerID |-> None, rv |-> 0]
    /\ node = [state |-> "none", inst |-> None]
    /\ instances = [i \in InstanceIDs |->
                       [status |-> "unborn", account |-> None, cfg |-> None]]
    /\ requests = {}
    /\ account \in Accounts
    /\ creator = Idle
    /\ cleaner = Idle
    /\ faults = 0

-----------------------------------------------------------------------------
(* Helpers *)

\* The API server: a deleted object disappears with its last finalizer.
Settle(c) == IF c.phase = "deleting" /\ c.finalizers = {} THEN "gone" ELSE c.phase

\* The API server: every write gets a new resourceVersion.
WriteClaim(c) == claim' = [c EXCEPT !.rv = c.rv + 1, !.phase = Settle(c)]

\* A call failed although it may have taken effect.
Fault == faults < MaxFaults /\ faults' = faults + 1

NoFault == faults' = faults

Exists(i) == instances[i].status \in {"running", "deleting"}

\* ListInstancesByName with the credentials of the running process.
Visible == {i \in InstanceIDs : Exists(i) /\ instances[i].account = account}

\* findLaunch returned the instance i: one match by name, equal to the record.
Found(i, launch) ==
    /\ Visible = {i}
    /\ instances[i].cfg = launch.cfg
    /\ instances[i].account = launch.account

FoundNone == Visible = {}

\* findLaunch failed: several matches, or one that differs from the record.
FoundOther(launch) == ~FoundNone /\ \A i \in InstanceIDs : ~Found(i, launch)

\* validateLaunchTarget: the process holds credentials of the birth account.
validateLaunchTarget(launch) == launch.account = account

\* Mutant: the window ends one tick early.
abandonedEarly(launch) ==
    launch.state \in {"rejected", "prepared"} \/ now >= launch.at + Window

\* Mutant: only a journal that was never submitted is abandoned.
abandonedUnsent(launch) == launch.state \in {"rejected", "prepared"}

\* launchConfig.abandoned
abandoned(launch) ==
    launch.state \in {"rejected", "prepared"} \/ now > launch.at + Window

\* An optimistic-lock patch succeeds on an object not written since it was read.
Fresh(rv) == claim.phase # "gone" /\ claim.rv = rv

-----------------------------------------------------------------------------
(* Create, as the claim's lifecycle reconcile calls it until a provider ID  *)
(* is published.                                                            *)

\* The journal of a launch that is about to be checkpointed: the prototype was
\* built from one choice, and the account is that of the credentials.
newLaunch(cfg) == [state |-> "prepared", cfg |-> cfg, account |-> account, at |-> 0]

\* Mutant: Create is called for a claim that has a provider ID.
CreateStartAgain ==
    /\ creator.pc = "idle"
    /\ claim.phase = "live"
    /\ \/ /\ claim.launch.state = "none"
          /\ now + Window < MaxTime
          /\ claim.rv < MaxWrites
          /\ \E cfg \in Configs :
                creator' = [Idle EXCEPT !.pc = "prepare",
                                        !.launch = newLaunch(cfg)]
       \/ /\ claim.launch.state # "none"
          /\ creator' = [Idle EXCEPT !.pc = IF claim.launch.state = "submitted"
                                            THEN "resume" ELSE "reset",
                                     !.rv = claim.rv,
                                     !.launch = claim.launch]
    /\ UNCHANGED <<now, claim, node, instances, requests, account, cleaner, faults>>

\* The claim is read once.  Without a journal the launch choices are made; a
\* submitted journal is resumed; any other is discarded.
CreateStart ==
    /\ creator.pc = "idle"
    /\ claim.phase = "live"
    /\ claim.providerID = None
    /\ \/ /\ claim.launch.state = "none"
          /\ now + Window < MaxTime
          /\ claim.rv < MaxWrites
          /\ \E cfg \in Configs :
                creator' = [Idle EXCEPT !.pc = "prepare",
                                        !.launch = newLaunch(cfg)]
       \/ /\ claim.launch.state # "none"
          /\ creator' = [Idle EXCEPT !.pc = IF claim.launch.state = "submitted"
                                            THEN "resume" ELSE "reset",
                                     !.rv = claim.rv,
                                     !.launch = claim.launch]
    /\ UNCHANGED <<now, claim, node, instances, requests, account, cleaner, faults>>

\* checkpointLaunch: re-reads the claim, refuses one that is deleting or has a
\* journal, and writes the prepared journal and the finalizer.
CreateCheckpoint ==
    /\ creator.pc = "prepare"
    /\ \/ /\ claim.phase = "live"
          /\ claim.launch.state = "none"
          /\ WriteClaim([claim EXCEPT !.launch = creator.launch,
                                      !.finalizers = @ \cup {"launch"}])
          /\ \/ /\ creator' = [creator EXCEPT !.pc = "lookup", !.rv = claim.rv + 1]
                /\ NoFault
             \/ creator' = Idle /\ Fault
       \/ /\ claim.phase # "live" \/ claim.launch.state # "none"
          /\ creator' = Idle
          /\ UNCHANGED <<claim, faults>>
    /\ UNCHANGED <<now, node, instances, requests, account, cleaner>>

\* An instance of this name may already exist: it is adopted, not duplicated.
CreateLookup ==
    /\ creator.pc = "lookup"
    /\ \/ FoundNone /\ creator' = [creator EXCEPT !.pc = "submit"]
       \/ /\ \E i \in InstanceIDs : Found(i, creator.launch)
          /\ creator' = [creator EXCEPT !.pc = "recover"]
       \/ FoundOther(creator.launch) /\ creator' = Idle
    /\ UNCHANGED <<now, claim, node, instances, requests, account, cleaner, faults>>

\* updateLaunch with Submitted and SubmittedAt, before CreateInstance is called.
CreateSubmit ==
    /\ creator.pc = "submit"
    /\ LET submitted == [creator.launch EXCEPT !.state = "submitted", !.at = now]
       IN  \/ /\ Fresh(creator.rv)
              /\ WriteClaim([claim EXCEPT !.launch = submitted])
              /\ \/ /\ creator' = [creator EXCEPT !.pc = "send", !.rv = claim.rv + 1,
                                                  !.launch = submitted]
                    /\ NoFault
                 \/ creator' = Idle /\ Fault
           \/ /\ ~Fresh(creator.rv)
              /\ creator' = Idle
              /\ UNCHANGED <<claim, faults>>
    /\ UNCHANGED <<now, node, instances, requests, account, cleaner>>

\* CreateInstance is called: the request leaves, or is known not to have been sent.
CreateSend ==
    /\ creator.pc = "send"
    /\ \/ /\ requests' = requests \cup {[rv |-> creator.rv,
                                         account |-> creator.launch.account,
                                         cfg |-> creator.launch.cfg,
                                         at |-> creator.launch.at]}
          /\ creator' = [creator EXCEPT !.pc = "sent"]
          /\ NoFault
       \/ /\ creator' = [creator EXCEPT !.pc = "reject"]
          /\ Fault
          /\ UNCHANGED requests
    /\ UNCHANGED <<now, claim, node, instances, account, cleaner>>

\* Mutant: a request without a reply is sent again.
CreateTimeoutResends ==
    /\ creator.pc = "sent"
    /\ creator' = [creator EXCEPT !.pc = "send"]
    /\ Fault
    /\ UNCHANGED <<now, claim, node, instances, requests, account, cleaner>>

\* The reply is lost or ambiguous: the request may still be decided either way.
CreateTimeout ==
    /\ creator.pc = "sent"
    /\ creator' = [creator EXCEPT !.pc = "recover"]
    /\ Fault
    /\ UNCHANGED <<now, claim, node, instances, requests, account, cleaner>>

\* markLaunchRejected: re-reads on conflict, so only the journal has to match.
\* The API server refuses a new finalizer on a deleted object.
CreateReject ==
    /\ creator.pc = "reject"
    /\ LET rejected == [creator.launch EXCEPT !.state = "rejected"]
       IN  \/ /\ claim.phase # "gone"
              /\ claim.launch = creator.launch
              /\ claim.phase = "live" \/ "launch" \in claim.finalizers
              /\ WriteClaim([claim EXCEPT !.launch = rejected,
                                          !.finalizers = @ \cup {"launch"}])
              /\ \/ /\ creator' = [creator EXCEPT !.pc = "recover", !.launch = rejected,
                                                  !.rv = claim.rv + 1]
                    /\ NoFault
                 \/ creator' = Idle /\ Fault
           \/ /\ \/ claim.phase = "gone"
                 \/ claim.launch # creator.launch
                 \/ claim.phase # "live" /\ "launch" \notin claim.finalizers
              /\ creator' = Idle
              /\ UNCHANGED <<claim, faults>>
    /\ UNCHANGED <<now, node, instances, requests, account, cleaner>>

\* recoverLaunch for a submitted journal that Create found on the claim.
CreateResume ==
    /\ creator.pc = "resume"
    /\ \/ /\ validateLaunchTarget(creator.launch)
          /\ FoundNone
          /\ creator' = [creator EXCEPT !.pc = "decide", !.since = now]
       \/ /\ validateLaunchTarget(creator.launch)
          /\ \E i \in InstanceIDs :
                /\ Found(i, creator.launch)
                /\ creator' = IF instances[i].status = "deleting" THEN Idle
                              ELSE [creator EXCEPT !.pc = "tag", !.inst = i]
       \/ /\ ~validateLaunchTarget(creator.launch) \/ FoundOther(creator.launch)
          /\ creator' = Idle
    /\ UNCHANGED <<now, claim, node, instances, requests, account, cleaner, faults>>

\* Mutant: an unresolved launch is only reported.
CreateDecideReports ==
    /\ creator.pc = "decide"
    /\ creator' = Idle
    /\ UNCHANGED <<now, claim, node, instances, requests, account, cleaner, faults>>

\* Nothing was found: the journal is discarded only if that proves that
\* nothing was created.
CreateDecide ==
    /\ creator.pc = "decide"
    /\ creator' = IF abandoned(creator.launch)
                  THEN [creator EXCEPT !.pc = "reset"] ELSE Idle
    /\ UNCHANGED <<now, claim, node, instances, requests, account, cleaner, faults>>

\* resetPreparedLaunch: the journal and its finalizer go; Create returns an error.
CreateReset ==
    /\ creator.pc = "reset"
    /\ \/ /\ Fresh(creator.rv)
          /\ WriteClaim([claim EXCEPT !.launch = NoLaunch,
                                      !.finalizers = @ \ {"launch"}])
       \/ ~Fresh(creator.rv) /\ UNCHANGED claim
    /\ creator' = Idle
    /\ UNCHANGED <<now, node, instances, requests, account, cleaner, faults>>

\* recoverLaunch after a failed CreateInstance, or to adopt: a failure is returned.
CreateRecover ==
    /\ creator.pc = "recover"
    /\ \/ \E i \in InstanceIDs :
             /\ Found(i, creator.launch)
             /\ creator' = IF instances[i].status = "deleting" THEN Idle
                           ELSE [creator EXCEPT !.pc = "tag", !.inst = i]
       \/ /\ FoundNone \/ FoundOther(creator.launch)
          /\ creator' = Idle
    /\ UNCHANGED <<now, claim, node, instances, requests, account, cleaner, faults>>

\* UpdateInstanceTags: the ownership tags, which need the instance to exist.
CreateTag ==
    /\ creator.pc = "tag"
    /\ creator' = IF creator.inst \in Visible
                  THEN [creator EXCEPT !.pc = "publish"] ELSE Idle
    /\ UNCHANGED <<now, claim, node, instances, requests, account, cleaner, faults>>

\* Create returned the node: the lifecycle reconcile publishes its provider ID.
CreatePublish ==
    /\ creator.pc = "publish"
    /\ \/ /\ claim.phase # "gone"
          /\ WriteClaim([claim EXCEPT !.providerID = creator.inst])
       \/ claim.phase = "gone" /\ UNCHANGED claim
    /\ creator' = Idle
    /\ UNCHANGED <<now, node, instances, requests, account, cleaner, faults>>

\* A call of Create failed before it took effect: Create returns the error.
CreateError ==
    /\ creator.pc \notin {"idle", "send", "sent"}
    /\ creator' = Idle
    /\ Fault
    /\ UNCHANGED <<now, claim, node, instances, requests, account, cleaner>>

-----------------------------------------------------------------------------
(* The allocation controller: resolves the journal of a deleted claim.      *)

\* Mutant: a claim that is not deleted is cleaned up too.
CleanReadLive ==
    /\ cleaner.pc = "idle"
    /\ "launch" \in claim.finalizers
    /\ validateLaunchTarget(claim.launch)
    /\ cleaner' = [Idle EXCEPT !.pc = IF claim.providerID # None THEN "confirm" ELSE "find",
                               !.rv = claim.rv, !.launch = claim.launch,
                               !.inst = claim.providerID]
    /\ UNCHANGED <<now, claim, node, instances, requests, account, creator, faults>>

\* Reconcile: reads the claim, checks its account and chooses the path.
CleanRead ==
    /\ cleaner.pc = "idle"
    /\ claim.phase = "deleting"
    /\ "launch" \in claim.finalizers
    /\ validateLaunchTarget(claim.launch)
    /\ cleaner' = [Idle EXCEPT !.pc = IF claim.providerID # None THEN "confirm" ELSE "find",
                               !.rv = claim.rv, !.launch = claim.launch,
                               !.inst = claim.providerID]
    /\ UNCHANGED <<now, claim, node, instances, requests, account, creator, faults>>

\* GetFresh of a published provider ID: only its absence completes the cleanup.
CleanConfirm ==
    /\ cleaner.pc = "confirm"
    /\ cleaner' = IF cleaner.inst \in Visible THEN Idle
                  ELSE [cleaner EXCEPT !.pc = "release"]
    /\ UNCHANGED <<now, claim, node, instances, requests, account, creator, faults>>

\* CleanupPending looks the launch up.
CleanFind ==
    /\ cleaner.pc = "find"
    /\ \/ FoundNone /\ cleaner' = [cleaner EXCEPT !.pc = "decide", !.since = now]
       \/ \E i \in InstanceIDs :
             /\ Found(i, cleaner.launch)
             /\ cleaner' = [cleaner EXCEPT !.pc = "nodes", !.inst = i]
       \/ FoundOther(cleaner.launch) /\ cleaner' = Idle
    /\ UNCHANGED <<now, claim, node, instances, requests, account, creator, faults>>

\* Nothing was found: return config.abandoned(time.Now()).
CleanDecide ==
    /\ cleaner.pc = "decide"
    /\ cleaner' = IF abandoned(cleaner.launch)
                  THEN [cleaner EXCEPT !.pc = "release"] ELSE Idle
    /\ UNCHANGED <<now, claim, node, instances, requests, account, creator, faults>>

\* The instance's Node, if any, is deleted first; one that would not be drained
\* is an error.
CleanNodes ==
    /\ cleaner.pc = "nodes"
    /\ \/ /\ node.state # "none" /\ node.inst = cleaner.inst
          /\ node' = [node EXCEPT !.state = IF @ = "managed" THEN "terminating" ELSE @]
          /\ cleaner' = Idle
       \/ /\ ~(node.state # "none" /\ node.inst = cleaner.inst)
          /\ cleaner' = [cleaner EXCEPT !.pc = "delete"]
          /\ UNCHANGED node
    /\ UNCHANGED <<now, claim, instances, requests, account, creator, faults>>

\* DeleteInstance; an instance that is already gone is not an error.
CleanDelete ==
    /\ cleaner.pc = "delete"
    /\ instances' = [instances EXCEPT ![cleaner.inst].status =
                        IF cleaner.inst \in Visible THEN "deleting" ELSE @]
    /\ cleaner' = [cleaner EXCEPT !.pc = "verify"]
    /\ UNCHANGED <<now, claim, node, requests, account, creator, faults>>

\* Mutant: an accepted deletion counts as a completed one.
CleanVerifyTrusts ==
    /\ cleaner.pc = "verify"
    /\ cleaner' = [cleaner EXCEPT !.pc = "release"]
    /\ UNCHANGED <<now, claim, node, instances, requests, account, creator, faults>>

\* GetInstance must say that the instance is not found.
CleanVerify ==
    /\ cleaner.pc = "verify"
    /\ cleaner' = IF cleaner.inst \in Visible THEN Idle
                  ELSE [cleaner EXCEPT !.pc = "release"]
    /\ UNCHANGED <<now, claim, node, instances, requests, account, creator, faults>>

\* The finalizer is removed under an optimistic lock on the claim that was read.
CleanRelease ==
    /\ cleaner.pc = "release"
    /\ \/ /\ Fresh(cleaner.rv)
          /\ WriteClaim([claim EXCEPT !.finalizers = @ \ {"launch"}])
       \/ ~Fresh(cleaner.rv) /\ UNCHANGED claim
    /\ cleaner' = Idle
    /\ UNCHANGED <<now, node, instances, requests, account, creator, faults>>

\* A call of the reconcile failed: it returns the error and is retried.
CleanError ==
    /\ cleaner.pc # "idle"
    /\ cleaner' = Idle
    /\ Fault
    /\ UNCHANGED <<now, claim, node, instances, requests, account, creator>>

-----------------------------------------------------------------------------
(* The lifecycle controller finalizes a deleted claim: CloudProvider.Delete *)
(* once its Nodes are gone.  The same controller calls Create, and never    *)
(* reconciles one object twice at a time.                                   *)

NodeGoneFor(i) == node.state = "none" \/ node.inst # i

\* Delete of a published instance: DeleteInstance, then GetInstance.
ProviderDelete ==
    /\ creator.pc = "idle"
    /\ claim.phase = "deleting"
    /\ "core" \in claim.finalizers
    /\ claim.providerID # None
    /\ NodeGoneFor(claim.providerID)
    /\ validateLaunchTarget(claim.launch)
    /\ \/ /\ claim.providerID \in Visible
          /\ instances' = [instances EXCEPT ![claim.providerID].status = "deleting"]
          /\ UNCHANGED claim
       \/ /\ claim.providerID \notin Visible
          /\ WriteClaim([claim EXCEPT !.finalizers = @ \ {"core"}])
          /\ UNCHANGED instances
    /\ UNCHANGED <<now, node, requests, account, creator, cleaner, faults>>

\* A claim without a provider ID gives the lifecycle controller nothing to delete.
CoreFinalize ==
    /\ creator.pc = "idle"
    /\ claim.phase = "deleting"
    /\ "core" \in claim.finalizers
    /\ claim.providerID = None
    /\ WriteClaim([claim EXCEPT !.finalizers = @ \ {"core"}])
    /\ UNCHANGED <<now, node, instances, requests, account, creator, cleaner, faults>>

\* The lifecycle controller deletes the claim's Nodes before the instance.
CoreDrain ==
    /\ creator.pc = "idle"
    /\ claim.phase = "deleting"
    /\ claim.providerID # None
    /\ ~NodeGoneFor(claim.providerID)
    /\ node.state \in {"bare", "managed"}
    /\ node' = [node EXCEPT !.state = IF @ = "managed" THEN "terminating" ELSE "none"]
    /\ UNCHANGED <<now, claim, instances, requests, account, creator, cleaner, faults>>

-----------------------------------------------------------------------------
(* IBM Cloud, the kubelet, the user and the operator *)

\* Create still waits for the reply to the request r.
Waiting(r) == creator.pc = "sent" /\ creator.rv = r.rv

\* CreateInstance is accepted: the instance is listed at once.  The reply may
\* be lost.
CloudAccept(r, i) ==
    /\ instances[i].status = "unborn"
    /\ requests' = requests \ {r}
    /\ instances' = [instances EXCEPT ![i] = [status |-> "running",
                                              account |-> r.account, cfg |-> r.cfg]]
    /\ \/ /\ Waiting(r)
          /\ creator' = [creator EXCEPT !.pc = "tag", !.inst = i]
          /\ NoFault
       \/ /\ Waiting(r)
          /\ creator' = [creator EXCEPT !.pc = "recover"]
          /\ Fault
       \/ ~Waiting(r) /\ UNCHANGED <<creator, faults>>
    /\ UNCHANGED <<now, claim, node, account, cleaner>>

\* A definite rejection (rejectedCreate): nothing was and nothing will be created.
CloudReject(r) ==
    /\ requests' = requests \ {r}
    /\ creator' = IF Waiting(r) THEN [creator EXCEPT !.pc = "reject"] ELSE creator
    /\ UNCHANGED <<now, claim, node, instances, account, cleaner, faults>>

\* The request fails with an ambiguous error, or is lost: nothing was created.
CloudDrop(r) ==
    /\ requests' = requests \ {r}
    /\ creator' = IF Waiting(r) THEN [creator EXCEPT !.pc = "recover"] ELSE creator
    /\ Fault
    /\ UNCHANGED <<now, claim, node, instances, account, cleaner>>

\* A deletion completes; or an instance disappears (preemption, an operator).
CloudGone(i) ==
    /\ \/ instances[i].status = "deleting" /\ NoFault
       \/ instances[i].status = "running" /\ Fault
    /\ instances' = [instances EXCEPT ![i].status = "gone"]
    /\ UNCHANGED <<now, claim, node, requests, account, creator, cleaner>>

\* The kubelet of a running instance registers its Node when it starts, and
\* again if it restarts.
NodeRegister(i) ==
    /\ instances[i].status = "running"
    /\ node.state = "none"
    /\ \/ node.inst # i /\ NoFault
       \/ node.inst = i /\ Fault
    /\ node' = [state |-> "bare", inst |-> i]
    /\ UNCHANGED <<now, claim, instances, requests, account, creator, cleaner>>

\* Registration gives the Node of a published claim its termination finalizer.
CoreRegister ==
    /\ node.state = "bare"
    /\ claim.phase = "live"
    /\ claim.providerID = node.inst
    /\ node' = [node EXCEPT !.state = "managed"]
    /\ UNCHANGED <<now, claim, instances, requests, account, creator, cleaner, faults>>

\* The Node of a deleted Node object has been drained.
NodeGone ==
    /\ node.state = "terminating"
    /\ node' = [node EXCEPT !.state = "none"]
    /\ UNCHANGED <<now, claim, instances, requests, account, creator, cleaner, faults>>

\* Somebody deletes the NodeClaim.
DeleteClaim ==
    /\ claim.phase = "live"
    /\ WriteClaim([claim EXCEPT !.phase = "deleting"])
    /\ UNCHANGED <<now, node, instances, requests, account, creator, cleaner, faults>>

\* Another controller writes an unrelated field of the claim.
OtherWrite ==
    /\ claim.phase # "gone"
    /\ claim.rv < MaxWrites
    /\ WriteClaim(claim)
    /\ UNCHANGED <<now, node, instances, requests, account, creator, cleaner, faults>>

\* The process stops at any point and another takes over, perhaps with other
\* credentials.  What it sent to the cloud is still in flight.
Restart ==
    /\ Fault
    /\ creator' = Idle
    /\ cleaner' = Idle
    /\ account' \in Accounts
    /\ UNCHANGED <<now, claim, node, instances, requests>>

\* Time passes, within the latencies assumed of the calls in progress.  The
\* bound on time leaves every submitted launch its window.
Tick ==
    /\ now < MaxTime
    /\ creator.pc \in {"prepare", "lookup", "submit"} => now + 1 + Window < MaxTime
    /\ \A r \in requests : now < r.at + MaxLatency
    /\ creator.pc = "send" => now < creator.launch.at + MaxLatency
    /\ creator.pc = "decide" => now < creator.since + MaxLookup
    /\ cleaner.pc = "decide" => now < cleaner.since + MaxLookup
    /\ now' = now + 1
    /\ UNCHANGED <<claim, node, instances, requests, account, creator, cleaner, faults>>

-----------------------------------------------------------------------------
CreateNext ==
    \/ CreateStart \/ CreateCheckpoint \/ CreateLookup \/ CreateSubmit
    \/ CreateSend \/ CreateReject \/ CreateResume \/ CreateDecide
    \/ CreateReset \/ CreateRecover \/ CreateTag \/ CreatePublish

CleanNext ==
    \/ CleanRead \/ CleanConfirm \/ CleanFind \/ CleanDecide \/ CleanNodes
    \/ CleanDelete \/ CleanVerify \/ CleanRelease

CoreNext == ProviderDelete \/ CoreFinalize \/ CoreDrain

CloudDecides == \E r \in requests :
    CloudReject(r) \/ CloudDrop(r) \/ \E i \in InstanceIDs : CloudAccept(r, i)

Next ==
    \/ CreateNext \/ CreateTimeout \/ CreateError
    \/ CleanNext \/ CleanError
    \/ CoreNext
    \/ CloudDecides
    \/ \E i \in InstanceIDs : CloudGone(i) \/ NodeRegister(i)
    \/ CoreRegister \/ NodeGone
    \/ DeleteClaim \/ OtherWrite \/ Restart \/ Tick

Spec == Init /\ [][Next]_vars

\* The process keeps taking steps and retrying, the cloud decides requests and
\* completes deletions, Nodes drain, and time passes.
Fairness ==
    /\ WF_vars(CreateNext)
    /\ WF_vars(CleanNext)
    /\ WF_vars(CoreNext)
    /\ WF_vars(CloudDecides)
    /\ WF_vars(\E i \in InstanceIDs : instances[i].status = "deleting" /\ CloudGone(i))
    /\ WF_vars(NodeGone)
    /\ WF_vars(Tick)

FairSpec == Spec /\ Fairness

-----------------------------------------------------------------------------
(* Properties *)

\* An instance that exists, or may still come to exist, is owned: the claim
\* that asked for it is there, its finalizer holds it, and its journal
\* describes the instance.  So neither a lost reply, a conflict, a restart nor
\* a deletion of the claim leaks an instance.
Owned(cfg, acct) ==
    /\ claim.phase # "gone"
    /\ "launch" \in claim.finalizers
    /\ claim.launch.state = "submitted"
    /\ claim.launch.cfg = cfg
    /\ claim.launch.account = acct

NoLeak ==
    /\ \A i \in InstanceIDs : Exists(i) => Owned(instances[i].cfg, instances[i].account)
    /\ \A r \in requests : Owned(r.cfg, r.account)

\* However often Create is retried, the claim has at most one instance, and
\* none can still appear beside it.
AtMostOne ==
    \A i \in InstanceIDs : Exists(i) =>
        /\ requests = {}
        /\ creator.pc # "send"
        /\ \A j \in InstanceIDs : Exists(j) => i = j

\* Create returns, and the claim publishes, only an instance that matches the
\* journal on the claim.
PublishesOwn ==
    /\ creator.pc = "publish" => instances[creator.inst].cfg = creator.launch.cfg
    /\ claim.providerID # None =>
         /\ instances[claim.providerID].cfg = claim.launch.cfg
         /\ instances[claim.providerID].account = claim.launch.account

\* An instance is deleted only for a deleted claim, and only if it is the one
\* the claim's journal describes.
DeletesOwn ==
    [][\A i \in InstanceIDs :
          instances[i].status = "running" /\ instances'[i].status = "deleting" =>
             /\ claim.phase = "deleting"
             /\ claim.launch.cfg = instances[i].cfg]_vars

\* The process holds credentials of an account other than the launch's.
OtherAccount == claim.launch.state # "none" /\ claim.launch.account # account

\* A deleted claim goes away, and with NoLeak its instance, unless the instance
\* joined the cluster and its provider ID was never published, or the process
\* holds credentials of another account.
DeletedIsReleased ==
    (claim.phase = "deleting")
        ~> \/ claim.phase = "gone"
           \/ node.state = "bare" /\ claim.providerID = None
           \/ OtherAccount

\* A submitted launch is resolved: published, discarded or rejected, or the
\* claim is deleted, unless the process holds credentials of another account.
LaunchResolves ==
    (claim.launch.state = "submitted")
        ~> (claim.providerID # None \/ claim.launch.state # "submitted"
            \/ claim.phase # "live" \/ OtherAccount)

-----------------------------------------------------------------------------
(* The journal implements the contract.                                     *)

\* A launch is requested from the moment it is journalled as submitted by a
\* Create that goes on to send it, until the cloud has decided.
instOf ==
    IF \E i \in InstanceIDs : Exists(i) THEN "present"
    ELSE IF requests # {} \/ creator.pc = "send" THEN "requested"
    ELSE "absent"

Contract == INSTANCE LaunchContract WITH phase <- claim.phase, inst <- instOf,
                                         Launchable <- {"live"}

\* Every step of Create, of the allocation controller and of their environment
\* is a step of the contract: a launch is submitted only for a live claim that
\* owns nothing, and the claim goes away only when nothing is left.
ImplementsContract == Contract!ContractSpec

=============================================================================
