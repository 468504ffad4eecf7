------------------------------ MODULE Orphans ------------------------------
(***************************************************************************)
(* The two controllers that remove what is left over.                      *)
(*                                                                         *)
(* Garbage collection deletes the Node of an instance that is gone;        *)
(* orphan cleanup deletes the instance of a NodeClaim that is gone.  Both  *)
(* decide on listings taken by separate remote calls while claims are      *)
(* launched, published and deleted, kubelets register, credentials change  *)
(* account over a restart, and the cloud loses instances.                  *)
(*                                                                         *)
(* An instance is named after the claim it was made for, so a claim that   *)
(* is launched again may have a second instance under the same Node name.  *)
(***************************************************************************)
EXTENDS Naturals, FiniteSets

CONSTANTS Claims, Instances, Accounts, None,
          Owner,          \* the claim whose UID an instance's tags carry
          OrphanTimeout,  \* KARPENTER_ORPHAN_TIMEOUT_MINUTES
          MaxTime, MaxWrites, MaxForced,
          MaxFaults       \* failed calls and restarts

ASSUME OrphansAssumption ==
    /\ Owner \in [Instances -> Claims] /\ \A c \in Claims : \E i \in Instances : Owner[i] = c
    /\ None \notin Claims \cup Instances \cup Accounts
    /\ {OrphanTimeout, MaxTime, MaxWrites, MaxForced, MaxFaults} \subseteq Nat

VARIABLES
    now,
    account,    \* the account of the credentials in use
    claims,     \* NodeClaims: published provider ID, recorded birth account
    instances,  \* VPC instances with their account, age and ownership tags
    node,       \* Node objects, by name
    gc,         \* the garbage collection reconcile in progress
    oc,         \* the orphan cleanup reconcile in progress
    used,       \* how much of each bound has been used
    enabled     \* the controllers that run, of "gc" and "oc"

vars == <<now, account, claims, instances, node, gc, oc, used, enabled>>

Maybe(S) == S \cup {None}

NoNode == [inst |-> None, uid |-> 0, rev |-> 0, ready |-> FALSE, deleting |-> FALSE]

GCIdle == [pc |-> "idle", view |-> [n \in Claims |-> NoNode], owned |-> {}, left |-> {},
           present |-> {}, candidates |-> {}, failed |-> FALSE, cur |-> None]

OCIdle == [pc |-> "idle", listed |-> {}, expected |-> {}, left |-> {}, cur |-> None]

Registered(n) == node[n].inst # None

\* The type invariant.
TypeOK ==
    /\ now \in 0..MaxTime /\ account \in Accounts
    /\ claims \in [Claims -> [exists : BOOLEAN, providerID : Maybe(Instances),
                              account : Maybe(Accounts)]]
    /\ instances \in [Instances -> [state : {"none", "up", "gone"}, account : Maybe(Accounts),
                                    created : 0..MaxTime, tag : {"none", "own", "foreign"}]]
    /\ \A n \in Claims : /\ node[n].inst \in Maybe(Instances)
                         /\ node[n].uid \in Nat /\ node[n].rev \in Nat
                         /\ {node[n].ready, node[n].deleting} \subseteq BOOLEAN
    /\ gc.pc \in {"idle", "claims", "inventory", "confirm", "recheck", "verify", "delete"}
    /\ gc.left \cup gc.owned \cup gc.candidates \subseteq Claims
    /\ gc.present \subseteq Instances /\ gc.cur \in Maybe(Claims)
    /\ oc.pc \in {"idle", "nodes", "claims", "loop", "confirm", "reclaim", "renode", "delete"}
    /\ oc.listed \cup oc.left \subseteq Instances /\ oc.cur \in Maybe(Instances)
    /\ gc.pc \in {"verify", "delete"} => gc.cur \in Claims
    /\ oc.pc \in {"confirm", "reclaim", "renode", "delete"} => oc.cur \in Instances

-----------------------------------------------------------------------------
(* CloudProvider.Get and List *)

Visible(i) == instances[i].state = "up" /\ instances[i].account = account

\* The account on record for a claim after ensureBirthTarget: a claim of an
\* earlier release gets the account its instance is found in.
BirthAccount(c) ==
    IF claims[c].account # None THEN claims[c].account
    ELSE IF claims[c].exists /\ Visible(claims[c].providerID) THEN account ELSE None

validateBirthTarget(c) == BirthAccount(c) = account

ClaimsFor(i) == {c \in Claims : claims[c].exists /\ claims[c].providerID = i}

\* The effect of ensureBirthTarget on a set of claims.
Ensured(C) == [c \in Claims |-> IF c \in C THEN [claims[c] EXCEPT !.account = BirthAccount(c)]
                                ELSE claims[c]]

\* What CloudProvider.Get answers: the absence of an instance counts only
\* under the account of a claim that names it.
Get(i) ==
    IF \E c \in ClaimsFor(i) : ~validateBirthTarget(c) THEN "error"
    ELSE IF Visible(i) THEN "found"
    ELSE IF ClaimsFor(i) # {} THEN "notfound"
    ELSE "error"

-----------------------------------------------------------------------------
(* Garbage collection *)

GCFrame == UNCHANGED <<now, account, instances, oc, enabled>>

\* CloudProvider.List reads the Nodes, then the claims.
GCList ==
    /\ gc.pc = "idle" /\ "gc" \in enabled
    /\ gc' = [GCIdle EXCEPT !.pc = "claims", !.view = node, !.left = {n \in Claims : Registered(n)}]
    /\ UNCHANGED <<claims, node, used>> /\ GCFrame

GCListClaims ==
    /\ gc.pc = "claims"
    /\ gc' = [gc EXCEPT !.pc = "inventory",
                        !.owned = {c \in Claims : claims[c].exists /\ claims[c].providerID # None}]
    /\ UNCHANGED <<claims, node, used>> /\ GCFrame

\* Mutant: a Node counts as the presence of its instance.
GCInventoryOfNodes(n) ==
    /\ gc.pc = "inventory" /\ n \in gc.left
    /\ gc' = [gc EXCEPT !.left = @ \ {n}, !.present = @ \cup {gc.view[n].inst}]
    /\ UNCHANGED <<claims, node, used>> /\ GCFrame

\* It then looks up the instance of every Node.
GCInventory(n) ==
    /\ gc.pc = "inventory" /\ n \in gc.left
    /\ LET i == gc.view[n].inst
           C == {c \in gc.owned : claims[c].providerID = i}
       IN /\ claims' = Ensured(C)
          /\ gc' = IF \E c \in C : ~validateBirthTarget(c) THEN GCIdle
                   ELSE [gc EXCEPT !.left = @ \ {n},
                                   !.present = IF Visible(i) THEN @ \cup {i} ELSE @]
    /\ UNCHANGED <<node, used>> /\ GCFrame

\* The reconcile lists the Nodes once more and keeps the suspects.
GCListNodes ==
    /\ gc.pc = "inventory" /\ gc.left = {}
    /\ gc' = [gc EXCEPT !.pc = "confirm", !.view = node,
                        !.left = {n \in Claims : /\ Registered(n) /\ ~node[n].ready
                                                 /\ node[n].inst \notin gc.present}]
    /\ UNCHANGED <<claims, node, used>> /\ GCFrame

GCConfirm(n) ==
    /\ gc.pc = "confirm" /\ n \in gc.left
    /\ LET i == gc.view[n].inst IN
       /\ claims' = Ensured(ClaimsFor(i))
       /\ gc' = [gc EXCEPT !.left = @ \ {n},
                           !.candidates = IF Get(i) = "notfound" THEN @ \cup {n} ELSE @,
                           !.failed = @ \/ Get(i) = "error"]
    /\ UNCHANGED <<node, used>> /\ GCFrame

\* One lookup that fails spares every candidate.
GCConfirmed ==
    /\ gc.pc = "confirm" /\ gc.left = {}
    /\ gc' = IF gc.failed THEN GCIdle
             ELSE [gc EXCEPT !.pc = "recheck", !.left = gc.candidates]
    /\ UNCHANGED <<claims, node, used>> /\ GCFrame

\* Every candidate is read again ...
GCRecheck(n) ==
    /\ gc.pc = "recheck" /\ n \in gc.left
    /\ gc' = IF \/ node[n].inst # gc.view[n].inst \/ node[n].uid # gc.view[n].uid
                \/ node[n].ready \/ node[n].deleting
             THEN [gc EXCEPT !.left = @ \ {n}]
             ELSE [gc EXCEPT !.left = @ \ {n}, !.pc = "verify", !.cur = n, !.view[n] = node[n]]
    /\ UNCHANGED <<claims, node, used>> /\ GCFrame

\* ... and its instance looked up again.
GCVerify ==
    /\ gc.pc = "verify"
    /\ LET i == gc.view[gc.cur].inst IN
       /\ claims' = Ensured(ClaimsFor(i))
       /\ gc' = [gc EXCEPT !.pc = IF Get(i) = "notfound" THEN "delete" ELSE "recheck"]
    /\ UNCHANGED <<node, used>> /\ GCFrame

\* The preconditions of the deletion: the object as it was read.
deletePreconditions(n) == node[n].uid = gc.view[n].uid /\ node[n].rev = gc.view[n].rev

GCDelete ==
    /\ gc.pc = "delete"
    /\ node' = IF Registered(gc.cur) /\ deletePreconditions(gc.cur)
               THEN [node EXCEPT ![gc.cur].deleting = TRUE, ![gc.cur].rev = @ + 1]
               ELSE node
    /\ gc' = [gc EXCEPT !.pc = "recheck", !.cur = None]
    /\ UNCHANGED <<claims, used>> /\ GCFrame

GCDone ==
    /\ gc.pc = "recheck" /\ gc.left = {}
    /\ gc' = GCIdle
    /\ UNCHANGED <<claims, node, used>> /\ GCFrame

\* A remote call fails.  A failed listing ends the reconcile; a failed lookup
\* is held against all candidates; a failed recheck spares one.
GCError ==
    /\ used.faults < MaxFaults
    /\ \/ /\ gc.pc \in {"claims", "inventory"}
          /\ gc' = GCIdle
       \/ /\ gc.pc = "confirm"
          /\ \E n \in gc.left : gc' = [gc EXCEPT !.left = @ \ {n}, !.failed = TRUE]
       \/ /\ gc.pc = "recheck"
          /\ \E n \in gc.left : gc' = [gc EXCEPT !.left = @ \ {n}]
       \/ /\ gc.pc \in {"verify", "delete"}
          /\ gc' = [gc EXCEPT !.pc = "recheck", !.cur = None]
    /\ used' = [used EXCEPT !.faults = @ + 1]
    /\ UNCHANGED <<claims, node>> /\ GCFrame

GCNext ==
    \/ GCList \/ GCListClaims \/ GCListNodes \/ GCConfirmed \/ GCVerify \/ GCDelete \/ GCDone
    \/ \E n \in Claims : GCInventory(n) \/ GCConfirm(n) \/ GCRecheck(n)

-----------------------------------------------------------------------------
(* Orphan cleanup *)

OCFrame == UNCHANGED <<now, account, claims, node, gc, enabled>>

\* The three listings of a reconcile, and what they say is expected to exist.
getAllVPCInstances ==
    /\ oc.pc = "idle" /\ "oc" \in enabled
    /\ oc' = [OCIdle EXCEPT !.pc = "nodes", !.listed = {i \in Instances : Visible(i)}]
    /\ UNCHANGED <<instances, used>> /\ OCFrame

OCListNodes ==
    /\ oc.pc = "nodes"
    /\ oc' = [oc EXCEPT !.pc = "claims", !.expected = {node[n].inst : n \in Claims}]
    /\ UNCHANGED <<instances, used>> /\ OCFrame

OCListClaims ==
    /\ oc.pc = "claims"
    /\ LET published == {claims[c].providerID : c \in {d \in Claims : claims[d].exists}}
       IN oc' = [oc EXCEPT !.pc = "loop", !.expected = @ \cup published,
                           !.left = oc.listed \ (oc.expected \cup published)]
    /\ UNCHANGED <<instances, used>> /\ OCFrame

OldEnough(i) == now - instances[i].created >= OrphanTimeout

ownsTags(i) == instances[i].tag = "own"

\* The tags of one unexpected instance are read.
OCPick(i) ==
    /\ oc.pc = "loop" /\ i \in oc.left
    /\ oc' = IF OldEnough(i) /\ ownsTags(i)
             THEN [oc EXCEPT !.left = @ \ {i}, !.cur = i, !.pc = "confirm"]
             ELSE [oc EXCEPT !.left = @ \ {i}]
    /\ UNCHANGED <<instances, used>> /\ OCFrame

\* processOrphanedInstance: the instance and its tags are read again ...
OCConfirm ==
    /\ oc.pc = "confirm"
    /\ oc' = [oc EXCEPT !.pc = IF Visible(oc.cur) /\ OldEnough(oc.cur) /\ ownsTags(oc.cur)
                               THEN "reclaim" ELSE "loop"]
    /\ UNCHANGED <<instances, used>> /\ OCFrame

\* Mutant: only a published provider ID shows that a claim needs an instance.
Unpublished(i) == ClaimsFor(i) = {}

\* A claim needs an instance if it has the UID of the tags or names the instance.
Unclaimed(i) == ~claims[Owner[i]].exists /\ ClaimsFor(i) = {}

\* ... then the claims ...
OCReclaim ==
    /\ oc.pc = "reclaim"
    /\ oc' = [oc EXCEPT !.pc = IF Unclaimed(oc.cur) THEN "renode" ELSE "loop"]
    /\ UNCHANGED <<instances, used>> /\ OCFrame

HasNode(i) == \E n \in Claims : node[n].inst = i

\* ... then the Nodes ...
OCRenode ==
    /\ oc.pc = "renode"
    /\ oc' = [oc EXCEPT !.pc = IF HasNode(oc.cur) THEN "loop" ELSE "delete"]
    /\ UNCHANGED <<instances, used>> /\ OCFrame

\* ... and the instance is deleted.
OCDelete ==
    /\ oc.pc = "delete"
    /\ instances' = IF Visible(oc.cur) THEN [instances EXCEPT ![oc.cur].state = "gone"] ELSE instances
    /\ oc' = [oc EXCEPT !.pc = "loop", !.cur = None]
    /\ UNCHANGED used /\ OCFrame

OCDone ==
    /\ oc.pc = "loop" /\ oc.left = {}
    /\ oc' = OCIdle
    /\ UNCHANGED <<instances, used>> /\ OCFrame

\* A failed listing ends the reconcile, a failure over one instance spares it.
OCError ==
    /\ oc.pc # "idle" /\ used.faults < MaxFaults
    /\ \/ oc.pc \in {"nodes", "claims"} /\ oc' = OCIdle
       \/ oc.pc = "loop" /\ \E i \in oc.left : oc' = [oc EXCEPT !.left = @ \ {i}]
       \/ /\ oc.pc \in {"confirm", "reclaim", "renode", "delete"}
          /\ oc' = [oc EXCEPT !.pc = "loop", !.cur = None]
    /\ used' = [used EXCEPT !.faults = @ + 1]
    /\ UNCHANGED instances /\ OCFrame

OCNext ==
    \/ getAllVPCInstances \/ OCListNodes \/ OCListClaims \/ OCConfirm \/ OCReclaim \/ OCRenode
    \/ OCDelete \/ OCDone \/ \E i \in Instances : OCPick(i)

-----------------------------------------------------------------------------
(* The launch journal, core, kubelets, users and the cloud *)

EnvFrame == UNCHANGED <<now, account, gc, oc, enabled>>

\* A launch: the journal records the account, and a claim never has two
\* instances (VPCLaunch).
Launch(i) ==
    LET c == Owner[i] IN
    /\ claims[c].exists /\ claims[c].providerID = None
    /\ claims[c].account \in {None, account}
    /\ \A j \in Instances : Owner[j] = c => instances[j].state # "up"
    /\ instances[i].state = "none" /\ now + OrphanTimeout <= MaxTime
    /\ instances' = [instances EXCEPT ![i] = [state |-> "up", account |-> account,
                                              created |-> now, tag |-> "none"]]
    /\ claims' = [claims EXCEPT ![c].account = account]
    /\ UNCHANGED <<node, used>> /\ EnvFrame

\* Create attaches the tags and returns, and core publishes the provider ID.
Tag(i) ==
    /\ Visible(i) /\ instances[i].tag = "none" /\ claims[Owner[i]].exists
    /\ claims[Owner[i]].providerID = None
    /\ instances' = [instances EXCEPT ![i].tag = "own"]
    /\ UNCHANGED <<claims, node, used>> /\ EnvFrame

Publish(i) ==
    /\ instances[i].tag = "own" /\ claims[Owner[i]].exists
    /\ claims[Owner[i]].providerID = None
    /\ \A j \in Instances : Owner[j] = Owner[i] /\ instances[j].state = "up" => j = i
    /\ claims' = [claims EXCEPT ![Owner[i]].providerID = i]
    /\ UNCHANGED <<instances, node, used>> /\ EnvFrame

\* Core lets a deleted claim go when its instance and its Node are gone.
ClaimGone(c) ==
    /\ claims[c].exists /\ claims[c].providerID # None
    /\ instances[claims[c].providerID].state = "gone" /\ ~Registered(c)
    /\ claims' = [claims EXCEPT ![c].exists = FALSE]
    /\ UNCHANGED <<instances, node, used>> /\ EnvFrame

\* Somebody strips the finalizers of a claim.
ForceDelete(c) ==
    /\ claims[c].exists /\ used.forced < MaxForced
    /\ claims' = [claims EXCEPT ![c].exists = FALSE]
    /\ used' = [used EXCEPT !.forced = @ + 1]
    /\ UNCHANGED <<instances, node>> /\ EnvFrame

\* The kubelet of a running instance registers its Node.
Register(i) ==
    LET n == Owner[i] IN
    /\ instances[i].state = "up" /\ ~Registered(n) /\ used.writes < MaxWrites
    /\ node' = [node EXCEPT ![n] = [NoNode EXCEPT !.inst = i, !.uid = node[n].uid + 1, !.ready = TRUE]]
    /\ used' = [used EXCEPT !.writes = @ + 1]
    /\ UNCHANGED <<claims, instances>> /\ EnvFrame

\* A Node loses its readiness, at any time, and regains it while its instance runs.
Unready(n) ==
    /\ Registered(n) /\ node[n].ready
    /\ node' = [node EXCEPT ![n].ready = FALSE, ![n].rev = @ + 1]
    /\ UNCHANGED <<claims, instances, used>> /\ EnvFrame

Ready(n) ==
    /\ Registered(n) /\ ~node[n].ready /\ instances[node[n].inst].state = "up"
    /\ used.writes < MaxWrites
    /\ node' = [node EXCEPT ![n].ready = TRUE, ![n].rev = @ + 1]
    /\ used' = [used EXCEPT !.writes = @ + 1]
    /\ UNCHANGED <<claims, instances>> /\ EnvFrame

\* Core or a user deletes a Node.
DeleteNode(n) ==
    /\ Registered(n) /\ ~node[n].deleting /\ used.forced < MaxForced
    /\ node' = [node EXCEPT ![n].deleting = TRUE, ![n].rev = @ + 1]
    /\ used' = [used EXCEPT !.forced = @ + 1]
    /\ UNCHANGED <<claims, instances>> /\ EnvFrame

\* A deleted Node goes when its finalizers are gone; its name keeps the count
\* of the UIDs it has had.
NodeGone(n) ==
    /\ Registered(n) /\ node[n].deleting
    /\ node' = [node EXCEPT ![n] = [NoNode EXCEPT !.uid = node[n].uid]]
    /\ UNCHANGED <<claims, instances, used>> /\ EnvFrame

\* The instance is deleted by its claim's own controllers, or the cloud loses it.
CloudGone(i) ==
    /\ instances[i].state = "up"
    /\ instances' = [instances EXCEPT ![i].state = "gone"]
    /\ UNCHANGED <<claims, node, used>> /\ EnvFrame

\* A restart, with credentials of any account.
Restart(a) ==
    /\ used.faults < MaxFaults
    /\ account' = a /\ gc' = GCIdle /\ oc' = OCIdle
    /\ used' = [used EXCEPT !.faults = @ + 1]
    /\ UNCHANGED <<now, claims, instances, node, enabled>>

\* Only orphan cleanup looks at the clock.
Tick ==
    /\ now < MaxTime /\ "oc" \in enabled
    /\ now' = now + 1
    /\ UNCHANGED <<account, claims, instances, node, gc, oc, used, enabled>>

-----------------------------------------------------------------------------
(* The specification *)

First(c) == CHOOSE i \in Instances : Owner[i] = c

\* A claim is new, or was launched by an earlier release that recorded no
\* account and attached no tags, or belongs to another cluster.
Init ==
    /\ now = 0 /\ account \in Accounts
    /\ \E kind \in [Claims -> {"new", "legacy", "foreign"}], a \in Accounts :
          /\ claims = [c \in Claims |-> [exists |-> kind[c] # "foreign",
                                         providerID |-> IF kind[c] = "legacy" THEN First(c) ELSE None,
                                         account |-> None]]
          /\ instances = [i \in Instances |->
                IF kind[Owner[i]] # "new" /\ i = First(Owner[i])
                THEN [state |-> "up", account |-> a, created |-> 0,
                      tag |-> IF kind[Owner[i]] = "foreign" THEN "foreign" ELSE "none"]
                ELSE [state |-> "none", account |-> None, created |-> 0, tag |-> "none"]]
    /\ node = [n \in Claims |-> NoNode]
    /\ gc = GCIdle /\ oc = OCIdle
    /\ used = [writes |-> 0, forced |-> 0, faults |-> 0]
    /\ enabled \in SUBSET {"gc", "oc"}

EnvNext ==
    \/ Tick
    \/ \E i \in Instances : Launch(i) \/ Tag(i) \/ Publish(i) \/ Register(i) \/ CloudGone(i)
    \/ \E c \in Claims : \/ ClaimGone(c) \/ ForceDelete(c)
                         \/ Unready(c) \/ Ready(c) \/ DeleteNode(c) \/ NodeGone(c)
    \/ \E a \in Accounts : Restart(a)

Next == GCNext \/ GCError \/ OCNext \/ OCError \/ EnvNext

Spec == Init /\ [][Next]_vars

\* The manager reruns the controllers, and a reconcile gets to every item of
\* its listing; time passes; the kubelet of a lost instance stops reporting and
\* core removes the finalizers of a deleted Node.
Fairness ==
    /\ WF_vars(GCNext) /\ WF_vars(OCNext) /\ WF_vars(Tick)
    /\ \A n \in Claims : /\ WF_vars(NodeGone(n))
                         /\ WF_vars(Unready(n) /\ instances[node[n].inst].state = "gone")

FairSpec == Spec /\ Fairness

-----------------------------------------------------------------------------
(* Properties *)

\* handleOrphanedNodes never deletes the Node of an instance that still
\* exists: not when the Node was replaced under its name, not when its kubelet
\* came back, and not when other credentials make the instance invisible.
LiveNodeIsKept ==
    [][\A n \in Claims :
          node'[n].deleting /\ ~node[n].deleting /\ gc' # gc
          => instances[node[n].inst].state # "up"]_vars

\* processOrphanedInstance deletes an instance only if it carries this
\* cluster's tags, is older than the timeout and the claim it was made for is
\* gone, whatever was published, registered or deleted between its listings.
OnlyOrphansDeleted ==
    [][\A i \in Instances :
          oc.pc = "delete" /\ oc.cur = i /\ instances[i].state = "up" /\ instances'[i].state = "gone"
             /\ oc' # oc
          => ~claims[Owner[i]].exists /\ ownsTags(i) /\ OldEnough(i)]_vars

Orphan(i) == Visible(i) /\ ownsTags(i) /\ ~claims[Owner[i]].exists

\* An instance whose claim is gone does not stay once its Node is gone, if the
\* credentials are of its account.
OrphanIsDeleted ==
    "oc" \in enabled =>
        \A i \in Instances : ~<>[](Orphan(i) /\ \A n \in Claims : node[n].inst # i)

\* The Node of an instance that is gone is deleted, if every Node is claimed.
DeadNodeIsDeleted ==
    "gc" \in enabled =>
        \A n \in Claims : ~<>[](/\ Registered(n) /\ instances[node[n].inst].state = "gone"
                                /\ \A m \in Claims : Registered(m) =>
                                     \E c \in ClaimsFor(node[m].inst) : claims[c].account = account)

\* Neither controller deletes what is not orphaned.
OnlyOrphansGo == []TypeOK /\ LiveNodeIsKept /\ OnlyOrphansDeleted

\* Each controller deletes what is orphaned.
OrphansGo == OrphanIsDeleted /\ DeadNodeIsDeleted
=============================================================================
