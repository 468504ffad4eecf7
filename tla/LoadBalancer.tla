---------------------------- MODULE LoadBalancer ----------------------------
(***************************************************************************)
(* The load balancer controller, for one NodeClaim.                        *)
(*                                                                         *)
(* A reconcile reads the claim from the informer cache and its NodeClass,  *)
(* and then adds its finalizer, registers the instance with every target   *)
(* group, deregisters it, or removes the finalizer.  Each call to the load *)
(* balancer API may fail, and each write of the claim is an update of the  *)
(* whole object that fails if the object has changed since it was read.    *)
(* The members of each target group that point at the instance are counted *)
(* (two stands for two or more).  NodeClassTermination adds the end of the *)
(* NodeClass, without which a reconcile does nothing.                      *)
(***************************************************************************)
EXTENDS Naturals

CONSTANTS
    Targets,          \* the target groups a NodeClass can name
    Integrations,     \* the load balancer integrations a user may change to
    DeregisterFails,  \* whether a deregistration may fail
    MaxFailures,      \* how often a registration fails
    MaxEdits          \* how often the NodeClass is edited

VARIABLES
    claim,      \* the NodeClaim in the API server
    cache,      \* the informer's copy of it
    nodeClass,  \* the load balancer integration of the NodeClass
    node,       \* the Node of the claim
    members,    \* the members of each target group that are the instance
    ctl,        \* the reconcile in progress
    failures, edits

vars == <<claim, cache, nodeClass, node, members, ctl, failures, edits>>

NewClaim == [exists |-> TRUE, deleting |-> FALSE, lb |-> FALSE, core |-> TRUE, pid |-> FALSE,
             registered |-> FALSE, rev |-> 0]

Gone(rev) == [NewClaim EXCEPT !.exists = FALSE, !.deleting = TRUE, !.core = FALSE, !.rev = rev]

Claims == [exists : BOOLEAN, deleting : BOOLEAN, registered : BOOLEAN, rev : Nat,
           lb : BOOLEAN,    \* LoadBalancerFinalizer
           core : BOOLEAN,  \* the termination finalizer of Karpenter core
           pid : BOOLEAN]   \* status.providerID is set

NodeClasses == [exists : BOOLEAN, enabled : BOOLEAN, autoDeregister : BOOLEAN, targets : SUBSET Targets]

Nodes == {"none", "up", "terminating", "gone"}

Idle == [pc |-> "idle", obj |-> NewClaim, todo |-> {}, failed |-> FALSE]

ASSUME LoadBalancerAssumption ==
    /\ Integrations \subseteq {n \in NodeClasses : n.exists}
    /\ DeregisterFails \in BOOLEAN /\ MaxFailures \in Nat /\ MaxEdits \in Nat

\* The type invariant.
TypeOK ==
    /\ claim \in Claims /\ cache \in Claims /\ nodeClass \in NodeClasses /\ node \in Nodes
    /\ members \in [Targets -> 0..2] /\ edits \in 0..MaxEdits /\ failures \in 0..MaxFailures
    /\ ctl.pc \in {"idle", "register", "deregister", "update"} /\ ctl.obj \in Claims
    /\ ctl.todo \subseteq Targets /\ ctl.failed \in BOOLEAN
    /\ ctl.pc = "register" => ctl.obj.lb /\ ctl.obj.pid /\ ~ctl.obj.deleting

-----------------------------------------------------------------------------
(* The reconcile *)

\* The reconcile found the claim and its NodeClass.
Found == ctl.pc = "idle" /\ cache.exists /\ nodeClass.exists

\* There is an instance to register: getNode, getNodeInternalIP, extractInstanceID
\* and isAlreadyRegistered.
Registrable == cache.pid /\ node \in {"up", "terminating"} /\ ~cache.registered

\* The target groups RegisterInstance and DeregisterInstance go through.
RegisterInstance == nodeClass.targets

DeregisterInstance == IF nodeClass.autoDeregister THEN nodeClass.targets ELSE {}

\* Each registration creates a member, whether or not there is one already.
CreateMember(t) == members' = [members EXCEPT ![t] = IF @ = 2 THEN 2 ELSE @ + 1]

\* The first member that is the instance is deleted, if there is one.
DeleteMember(t) ==
    \/ members' = [members EXCEPT ![t] = IF @ = 0 THEN 0 ELSE @ - 1]
    \/ members[t] = 2 /\ UNCHANGED members

Frame == UNCHANGED <<cache, nodeClass, node, failures, edits>>

\* The reconcile goes on to write the claim.
Write(obj) == ctl' = [Idle EXCEPT !.pc = "update", !.obj = obj]

\* The integration is off: the finalizer is removed.
Disabled ==
    /\ Found /\ ~nodeClass.enabled /\ cache.lb
    /\ Write([cache EXCEPT !.lb = FALSE])
    /\ UNCHANGED <<claim, members>> /\ Frame

AddFinalizer ==
    /\ Found /\ nodeClass.enabled /\ ~cache.deleting /\ ~cache.lb
    /\ Write([cache EXCEPT !.lb = TRUE])
    /\ UNCHANGED <<claim, members>> /\ Frame

\* handleRegistration, up to the calls to the load balancers.
handleRegistration ==
    /\ Found /\ nodeClass.enabled /\ ~cache.deleting /\ cache.lb
    /\ Registrable
    /\ ctl' = [Idle EXCEPT !.pc = "register", !.obj = cache, !.todo = RegisterInstance]
    /\ UNCHANGED <<claim, members>> /\ Frame

\* One target group: the pool is looked up and a member is created.
registerInstanceInTarget(t) ==
    /\ ctl.pc = "register" /\ t \in ctl.todo
    /\ \/ /\ CreateMember(t)
          /\ ctl' = [ctl EXCEPT !.todo = @ \ {t}]
          /\ UNCHANGED failures
       \/ /\ failures < MaxFailures /\ failures' = failures + 1
          /\ ctl' = [ctl EXCEPT !.todo = @ \ {t}, !.failed = TRUE]
          /\ UNCHANGED members
    /\ UNCHANGED <<claim, cache, nodeClass, node, edits>>

\* The claim is marked only if every target group succeeded.
markAsRegistered ==
    /\ ctl.pc = "register" /\ ctl.todo = {}
    /\ IF ctl.failed THEN ctl' = Idle ELSE Write([ctl.obj EXCEPT !.registered = TRUE])
    /\ UNCHANGED <<claim, members>> /\ Frame

\* handleDeletion, up to the calls to the load balancers.
handleDeletion ==
    /\ Found /\ nodeClass.enabled /\ cache.deleting /\ cache.lb
    /\ ctl' = [Idle EXCEPT !.pc = "deregister", !.obj = cache,
                  !.todo = IF cache.pid THEN DeregisterInstance ELSE {}]
    /\ UNCHANGED <<claim, members>> /\ Frame

\* One target group: the first member that is the instance is deleted.
deregisterInstanceFromTarget(t) ==
    /\ ctl.pc = "deregister" /\ t \in ctl.todo
    /\ ctl' = [ctl EXCEPT !.todo = @ \ {t}]
    /\ \/ DeleteMember(t)
       \/ DeregisterFails /\ UNCHANGED members
    /\ UNCHANGED claim /\ Frame

\* Mutant: a failure keeps the finalizer, and nothing retries.
keepFinalizer ==
    /\ ctl.pc = "deregister" /\ ctl.todo = {}
    /\ IF \E t \in nodeClass.targets : members[t] > 0 THEN ctl' = Idle
       ELSE Write([ctl.obj EXCEPT !.lb = FALSE])
    /\ UNCHANGED <<claim, members>> /\ Frame

\* Whatever came of it, the finalizer is removed.
RemoveFinalizer ==
    /\ ctl.pc = "deregister" /\ ctl.todo = {}
    /\ Write([ctl.obj EXCEPT !.lb = FALSE])
    /\ UNCHANGED <<claim, members>> /\ Frame

\* The API server removes an object that is being deleted with its last finalizer.
Stored(obj) ==
    IF obj.deleting /\ ~obj.lb /\ ~obj.core THEN Gone(obj.rev + 1) ELSE [obj EXCEPT !.rev = @ + 1]

\* The write fails if the claim has changed since it was read.
Update ==
    /\ ctl.pc = "update"
    /\ claim' = IF claim.exists /\ claim.rev = ctl.obj.rev THEN Stored(ctl.obj) ELSE claim
    /\ ctl' = Idle
    /\ UNCHANGED members /\ Frame

ControllerNext ==
    \/ Disabled \/ AddFinalizer \/ handleRegistration \/ markAsRegistered \/ handleDeletion
    \/ RemoveFinalizer \/ Update
    \/ \E t \in Targets : registerInstanceInTarget(t) \/ deregisterInstanceFromTarget(t)

-----------------------------------------------------------------------------
(* Karpenter core, the kubelet, users and the informer *)

EnvFrame == UNCHANGED <<members, ctl, failures>>

Launch ==
    /\ claim.exists /\ ~claim.deleting /\ ~claim.pid /\ nodeClass.exists
    /\ claim' = [claim EXCEPT !.pid = TRUE, !.rev = @ + 1]
    /\ UNCHANGED <<cache, nodeClass, node, edits>> /\ EnvFrame

NodeJoins ==
    /\ claim.exists /\ claim.pid /\ node = "none"
    /\ node' = "up"
    /\ UNCHANGED <<claim, cache, nodeClass, edits>> /\ EnvFrame

\* Core disrupts a claim at any time, and has to when its Node is deleted.
DeleteClaim ==
    /\ claim.exists /\ ~claim.deleting
    /\ claim' = [claim EXCEPT !.deleting = TRUE, !.rev = @ + 1]
    /\ UNCHANGED <<cache, nodeClass, node, edits>> /\ EnvFrame

\* The Node of a deleted claim is deleted, drained and goes.
CoreDrains ==
    /\ claim.deleting /\ node \in {"up", "terminating"}
    /\ node' = IF node = "up" THEN "terminating" ELSE "gone"
    /\ UNCHANGED <<claim, cache, nodeClass, edits>> /\ EnvFrame

\* Core has deleted the instance and removes its finalizer.
CoreFinalize ==
    /\ claim.exists /\ claim.deleting /\ claim.core /\ node \in {"none", "gone"}
    /\ claim' = Stored([claim EXCEPT !.core = FALSE])
    /\ UNCHANGED <<cache, nodeClass, node, edits>> /\ EnvFrame

EditNodeClass ==
    /\ edits < MaxEdits /\ nodeClass.exists
    /\ nodeClass' \in Integrations
    /\ edits' = edits + 1
    /\ UNCHANGED <<claim, cache, node>> /\ EnvFrame

Sync ==
    /\ cache # claim
    /\ cache' = claim
    /\ UNCHANGED <<claim, nodeClass, node, edits>> /\ EnvFrame

-----------------------------------------------------------------------------
(* The specification *)

LBInit ==
    /\ claim = NewClaim /\ cache = NewClaim /\ node = "none"
    /\ nodeClass = [exists |-> TRUE, enabled |-> TRUE, autoDeregister |-> TRUE, targets |-> Targets]
    /\ members = [t \in Targets |-> 0] /\ ctl = Idle /\ failures = 0 /\ edits = 0

LBNext ==
    \/ ControllerNext \/ Launch \/ NodeJoins \/ DeleteClaim \/ CoreDrains \/ CoreFinalize
    \/ EditNodeClass \/ Sync

-----------------------------------------------------------------------------
(* Properties *)

\* A claim that is marked as registered has a member in every target group: the
\* failure of one target group among several, or a conflicting write, never
\* leaves a marked claim that is missing from one, while the targets stay.
RegisteredEverywhere ==
    edits = 0 /\ claim.registered /\ ~claim.deleting => \A t \in Targets : members[t] > 0

\* While the instance is in a target group and the NodeClass is left alone, the
\* claim keeps the finalizer that has it deregistered.
MembersAreProtected ==
    edits = 0 /\ (\E t \in Targets : members[t] > 0) /\ claim.exists /\ ~claim.deleting => claim.lb

\* A claim that is being deleted goes, even if no deregistration ever succeeds,
\* as long as its NodeClass is there.
DeletionCompletes == claim.deleting ~> ~claim.exists \/ ~nodeClass.exists

\* A claim whose Node has joined is registered, unless it is deleted, or the
\* integration is turned off or the NodeClass gone first: failed target groups
\* are tried again.
EventuallyRegistered ==
    [](claim.pid /\ node = "up"
       => <>(claim.registered \/ claim.deleting \/ ~nodeClass.enabled \/ ~nodeClass.exists))

=============================================================================
