----------------------------- MODULE LegacyNodes -----------------------------
(***************************************************************************)
(* What earlier releases left on a NodeClaim and its Node (finalizers and  *)
(* labels, a Registered condition that core did not set), and the          *)
(* controllers that migrate it while core registers and terminates: the    *)
(* registration controller of claims ("reg"), the one of Nodes             *)
(* ("nodefin"), the startup taint controller ("taint"), and core ("core"). *)
(* The tagging controller reads the same two objects.                      *)
(*                                                                         *)
(* The controllers read from the API server and patch with an optimistic   *)
(* lock.  A Node may be replaced by one of the same name that belongs to   *)
(* another instance.                                                       *)
(***************************************************************************)
EXTENDS Integers, FiniteSets

CONSTANTS
  MaxNodes,   \* bound: Nodes that have the name, one after the other
  MaxTouches  \* bound: status writes of others to the claim or the Node

VARIABLES
  claim,    \* the stored NodeClaim
  node,     \* the stored Node under its name
  work,     \* per controller: step, copies of claim and Node, copies current
  queue,    \* controllers with an event to handle
  mode,     \* backend that the NodeClass describes
  written,  \* tag keys attached to the instance of each Node, by uid
  touches

vars == <<claim, node, work, queue, mode, written, touches>>

Controllers == {"reg", "nodefin", "taint", "core"}
Uids == 1..MaxNodes
TagKeys == {"user", "reserved"}

ClaimType ==
  [exists : BOOLEAN, deleting : BOOLEAN, registered : BOOLEAN, named : BOOLEAN,
   regFin : BOOLEAN, taintFin : BOOLEAN, coreFin : BOOLEAN, labels : BOOLEAN,
   backend : {"", "vpc", "iks"}, tags : SUBSET TagKeys]
\* own: its provider ID is the claim's
NodeType ==
  [exists : BOOLEAN, uid : Uids, own : BOOLEAN, deleting : BOOLEAN,
   regFin : BOOLEAN, labels : BOOLEAN, termFin : BOOLEAN, owner : BOOLEAN]

TypeOK ==
  /\ claim \in ClaimType /\ node \in NodeType
  /\ \A k \in Controllers :
       work[k].claim \in ClaimType /\ work[k].node \in NodeType /\ work[k].fresh \in SUBSET {"claim", "node"}
  /\ queue \subseteq Controllers
  /\ written \in [Uids -> SUBSET TagKeys] /\ touches \in 0..MaxTouches
  /\ claim.exists => (claim.deleting => claim.regFin \/ claim.taintFin \/ claim.coreFin)
  /\ node.exists => (node.deleting => node.regFin \/ node.termFin) /\ (node.termFin => node.owner)

-----------------------------------------------------------------------------
(* The API server.                                                          *)

NoClaim ==
  [exists |-> FALSE, deleting |-> FALSE, registered |-> FALSE, named |-> FALSE, regFin |-> FALSE,
   taintFin |-> FALSE, coreFin |-> FALSE, labels |-> FALSE, backend |-> "", tags |-> {}]
NoNode ==
  [exists |-> FALSE, uid |-> 1, own |-> FALSE, deleting |-> FALSE,
   regFin |-> FALSE, labels |-> FALSE, termFin |-> FALSE, owner |-> FALSE]
Idle == [pc |-> "idle", claim |-> NoClaim, node |-> NoNode, fresh |-> {}]

At(k, pc) == work[k].pc = pc

\* The stored objects after a write: what is being deleted goes with its last
\* finalizer.
Kept(c) ==
  IF c.deleting => c.regFin \/ c.taintFin \/ c.coreFin
  THEN c ELSE [NoClaim EXCEPT !.deleting = TRUE, !.backend = c.backend]
KeptNode(n) == IF n.deleting => n.regFin \/ n.termFin THEN n ELSE [NoNode EXCEPT !.uid = n.uid]

\* w with every copy of the object ("claim" or "node") out of date, except the
\* writer's.
Outdated(w, object, writers) ==
  [k \in Controllers |-> IF k \in writers THEN w[k] ELSE [w[k] EXCEPT !.fresh = @ \ {object}]]

\* A write of the claim by k, which goes on with w.
StoreClaim(c, w, writers) ==
  /\ claim' = Kept(c)
  /\ work' = Outdated(w, "claim", writers)
  /\ UNCHANGED node

StoreNode(n, w, writers) ==
  /\ node' = KeptNode(n)
  /\ work' = Outdated(w, "node", writers)
  /\ UNCHANGED claim

\* The controllers that hear of a write: claims are watched as a whole, Nodes
\* while they have the legacy finalizer.
ClaimHeard == {"reg", "taint"}
NodeHeard(n) == IF n.regFin THEN {"nodefin"} ELSE {}

Goto(k, pc) == [work EXCEPT ![k].pc = pc]
Done(k) == [work EXCEPT ![k] = Idle]

\* k is finished, without and with another attempt.
Finish(k) == work' = Done(k) /\ UNCHANGED <<claim, node, queue>>
Again(k) == work' = Done(k) /\ queue' = queue \cup {k} /\ UNCHANGED <<claim, node>>

\* Of a copy of the claim only what its controller goes on to use is kept.
Copy(k, c) ==
  CASE k = "reg"   -> [NoClaim EXCEPT !.deleting = c.deleting, !.registered = c.registered, !.named = c.named]
    [] k = "taint" -> [NoClaim EXCEPT !.named = c.named, !.taintFin = c.taintFin, !.labels = c.labels]
    [] k = "core"  -> [NoClaim EXCEPT !.labels = c.labels]

Start(k, pc) ==
  /\ k \in queue /\ At(k, "idle")
  /\ queue' = queue \ {k}
  /\ work' = IF claim.exists
             THEN [work EXCEPT ![k] = [Idle EXCEPT !.pc = pc, !.claim = Copy(k, claim), !.fresh = {"claim"}]]
             ELSE work
  /\ UNCHANGED <<claim, node>>

Others == UNCHANGED <<mode, written, touches>>

-----------------------------------------------------------------------------
(* Registration controller.                                                 *)

RegReconcile == Start("reg", IF claim.regFin THEN "unfin" ELSE "find") /\ Others

RegPatchClaim ==
  /\ At("reg", "unfin")
  /\ \/ claim.exists /\ "claim" \in work["reg"].fresh
        /\ LET c == [claim EXCEPT !.regFin = FALSE]
           IN  StoreClaim(c, [work EXCEPT !["reg"].pc = "find"], {"reg"})
        /\ queue' = queue \cup ClaimHeard
     \/ claim.exists /\ "claim" \notin work["reg"].fresh /\ Again("reg")
     \/ ~claim.exists /\ Finish("reg")
  /\ Others

\* The Node that the claim names, if its provider ID is the claim's.
findNodeForNodeClaim ==
  /\ At("reg", "find")
  /\ IF work["reg"].claim.named /\ node.exists /\ node.own
     THEN /\ work' = [work EXCEPT !["reg"].node = node, !["reg"].fresh = @ \cup {"node"},
                                  !["reg"].pc = IF node.regFin THEN "reread" ELSE "adopt"]
          /\ UNCHANGED <<claim, node, queue>>
     ELSE Finish("reg")
  /\ Others

\* Mutant: the Node read again is not compared with the one read first.
rereadAny(k, next) ==
  /\ At(k, "reread")
  /\ IF ~node.exists
     THEN Finish(k)
     ELSE /\ work' = IF ~node.regFin /\ next = "idle" THEN Done(k)
                     ELSE [work EXCEPT ![k].node = node, ![k].fresh = @ \cup {"node"},
                                       ![k].pc = IF node.regFin THEN "unfinNode" ELSE next]
          /\ UNCHANGED <<claim, node, queue>>
  /\ Others

\* removeLegacyNodeFinalizer, for either controller: next is where it goes on.
\* An error makes the queue call again.
RereadNode(k, next) ==
  /\ At(k, "reread")
  /\ IF node.exists /\ (node.uid # work[k].node.uid \/ node.own # work[k].node.own)
     THEN Again(k)
     ELSE IF ~node.exists
     THEN Finish(k)
     ELSE /\ work' = IF ~node.regFin /\ next = "idle" THEN Done(k)
                     ELSE [work EXCEPT ![k].node = node, ![k].fresh = @ \cup {"node"},
                                       ![k].pc = IF node.regFin THEN "unfinNode" ELSE next]
          /\ UNCHANGED <<claim, node, queue>>
  /\ Others

removeLegacyNodeFinalizer(k, next) ==
  /\ At(k, "unfinNode")
  /\ \/ node.exists /\ "node" \in work[k].fresh
        /\ LET n == [node EXCEPT !.regFin = FALSE]
           IN  StoreNode(n, IF next = "idle" THEN Done(k)
                            ELSE [work EXCEPT ![k].pc = next, ![k].node = n], {k})
        /\ UNCHANGED queue
     \/ node.exists /\ "node" \notin work[k].fresh /\ Again(k)
     \/ ~node.exists /\ Finish(k)
  /\ Others

\* What core's registration would have put on the Node, had it run.
RegAdopt ==
  /\ At("reg", "adopt")
  /\ LET c == work["reg"].claim
         n == work["reg"].node
     IN  \/ /\ c.deleting \/ n.deleting \/ ~c.registered \/ (n.termFin /\ n.owner) \/ ~node.exists
            /\ Finish("reg")
         \/ /\ ~(c.deleting \/ n.deleting) /\ c.registered /\ ~(n.termFin /\ n.owner) /\ node.exists
            /\ IF "node" \in work["reg"].fresh
               THEN /\ StoreNode([node EXCEPT !.termFin = TRUE, !.owner = TRUE], Done("reg"), {})
                    /\ queue' = queue \cup NodeHeard(node)
               ELSE Again("reg")
  /\ Others

\* The Node controller, for any Node that still has the finalizer.
reconcileNode ==
  /\ "nodefin" \in queue /\ At("nodefin", "idle")
  /\ queue' = queue \ {"nodefin"}
  /\ work' = IF node.exists /\ node.regFin
             THEN [work EXCEPT !["nodefin"].pc = "reread", !["nodefin"].node = node]
             ELSE work
  /\ UNCHANGED <<claim, node>> /\ Others

-----------------------------------------------------------------------------
(* Startup taint controller.                                                *)

TaintReconcile == Start("taint", "labels") /\ Others

\* The labels of the Node go first, then the claim's.
removeNodeLabels ==
  /\ At("taint", "labels")
  /\ LET c == work["taint"].claim IN
     IF c.named /\ node.exists /\ node.own /\ node.labels
     THEN work' = [work EXCEPT !["taint"].pc = "patchNode", !["taint"].fresh = @ \cup {"node"}]
     ELSE work' = Goto("taint", "claim")
  /\ UNCHANGED <<claim, node, queue>> /\ Others

PatchNodeLabels ==
  /\ At("taint", "patchNode")
  /\ \/ node.exists /\ "node" \in work["taint"].fresh
        /\ StoreNode([node EXCEPT !.labels = FALSE], Goto("taint", "claim"), {})
        /\ queue' = queue \cup NodeHeard(node)
     \/ node.exists /\ "node" \notin work["taint"].fresh /\ Again("taint")
     \/ ~node.exists /\ work' = Goto("taint", "claim") /\ UNCHANGED <<claim, node, queue>>
  /\ Others

\* Mutant: the claim loses its labels and keeps the finalizer.
patchLabelsOnly ==
  /\ At("taint", "claim")
  /\ LET c == work["taint"].claim IN
     IF ~(c.taintFin \/ c.labels) \/ ~claim.exists THEN Finish("taint")
     ELSE IF "claim" \notin work["taint"].fresh THEN Again("taint")
     ELSE /\ StoreClaim([claim EXCEPT !.labels = FALSE], Done("taint"), {})
          /\ queue' = queue \cup ClaimHeard
  /\ Others

\* The labels and the finalizer of the claim go in one patch.
TaintPatchClaim ==
  /\ At("taint", "claim")
  /\ LET c == work["taint"].claim IN
     IF ~(c.taintFin \/ c.labels) \/ ~claim.exists THEN Finish("taint")
     ELSE IF "claim" \notin work["taint"].fresh THEN Again("taint")
     ELSE /\ StoreClaim([claim EXCEPT !.taintFin = FALSE, !.labels = FALSE], Done("taint"), {})
          /\ queue' = queue \cup ClaimHeard
  /\ Others

-----------------------------------------------------------------------------
(* Tagging controller: one claim of its loop over all of them.              *)

isVPCMode == mode = "vpc"

tagsVPCInstance(c) ==
  CASE c.backend = "iks" -> FALSE
    [] c.backend = ""    -> isVPCMode
    [] OTHER             -> TRUE

requirementTags(c) == c.tags \ {"reserved"}

\* Attach tags to an instance, or fail; nothing is asked of the cloud for none.
UpdateInstanceTags(uid, tags) ==
  \/ written' = [written EXCEPT ![uid] = @ \cup tags]
  \/ tags # {} /\ UNCHANGED written

\* The instance is that of the Node, whichever has the name now: the controller
\* does not compare its provider ID with the claim's.
updateVPCInstanceTags(n, tags) == UpdateInstanceTags(n.uid, tags)

TagClaim ==
  /\ claim.exists /\ claim.named /\ node.exists
  /\ tagsVPCInstance(claim)
  /\ updateVPCInstanceTags(node, requirementTags(claim))
  /\ UNCHANGED <<claim, node, work, queue, mode, touches>>

-----------------------------------------------------------------------------
(* Karpenter core, users and kubelet.                                       *)

\* Registration of a claim that is not Registered: the Node of its instance
\* gets the labels of the copy, finalizer and owner reference ...
CoreReconcile ==
  /\ At("core", "idle")
  /\ claim.exists /\ ~claim.registered /\ ~claim.deleting /\ node.exists /\ node.own /\ ~node.deleting
  /\ work' = [work EXCEPT !["core"] = [Idle EXCEPT !.pc = "sync", !.claim = Copy("core", claim), !.fresh = {"claim"}]]
  /\ UNCHANGED <<claim, node, queue>> /\ Others

CoreSync ==
  /\ At("core", "sync")
  /\ LET c == work["core"].claim IN
     IF node.exists /\ node.own /\ ~node.deleting
     THEN /\ StoreNode([node EXCEPT !.labels = @ \/ c.labels, !.termFin = TRUE, !.owner = TRUE],
                       Goto("core", "status"), {})
          /\ queue' = queue \cup NodeHeard(node)
     ELSE Finish("core")
  /\ Others

\* ... and then the status of the claim names it.
CoreStatus ==
  /\ At("core", "status")
  /\ IF ~claim.exists THEN Finish("core")
     ELSE IF "claim" \notin work["core"].fresh THEN Finish("core")
     ELSE /\ StoreClaim([claim EXCEPT !.registered = TRUE, !.named = TRUE], Done("core"), {})
          /\ queue' = queue \cup ClaimHeard
  /\ Others

DeleteClaim ==
  /\ claim.exists /\ ~claim.deleting
  /\ StoreClaim([claim EXCEPT !.deleting = TRUE], work, {})
  /\ queue' = queue \cup ClaimHeard /\ Others

DeleteNode ==
  /\ node.exists /\ ~node.deleting
  /\ StoreNode([node EXCEPT !.deleting = TRUE], work, {})
  /\ queue' = queue \cup NodeHeard(node) /\ Others

\* Termination: the Node of a deleted claim is deleted, a deleted Node is
\* drained, and the claim's own finalizer goes after its Node.
CoreTerminates ==
  \/ /\ claim.exists /\ claim.deleting /\ node.exists /\ node.own /\ ~node.deleting
     /\ StoreNode([node EXCEPT !.deleting = TRUE], work, {})
     /\ queue' = queue \cup NodeHeard(node) /\ Others
  \/ /\ node.exists /\ node.deleting /\ node.termFin
     /\ StoreNode([node EXCEPT !.termFin = FALSE], work, {})
     /\ queue' = queue \cup NodeHeard(node) /\ Others
  \/ /\ claim.exists /\ claim.deleting /\ claim.coreFin /\ ~(node.exists /\ node.own)
     /\ StoreClaim([claim EXCEPT !.coreFin = FALSE], work, {})
     /\ queue' = queue \cup ClaimHeard /\ Others

\* A Node of another instance takes the name of one that is gone.
ReplaceNode ==
  /\ ~node.exists /\ node.uid < MaxNodes
  /\ \E legacy \in BOOLEAN :
       /\ node' = [exists |-> TRUE, uid |-> node.uid + 1, own |-> FALSE, deleting |-> FALSE, regFin |-> legacy,
                   labels |-> FALSE, termFin |-> FALSE, owner |-> FALSE]
       /\ queue' = queue \cup (IF legacy THEN {"nodefin"} ELSE {})
  /\ work' = Outdated(work, "node", {})
  /\ UNCHANGED claim /\ Others

\* Others write the status of the claim or of the Node.
Touch ==
  /\ touches < MaxTouches /\ touches' = touches + 1
  /\ \/ claim.exists /\ StoreClaim(claim, work, {}) /\ queue' = queue \cup ClaimHeard
     \/ node.exists /\ StoreNode(node, work, {}) /\ queue' = queue \cup NodeHeard(node)
  /\ UNCHANGED <<mode, written>>

EditClass ==
  /\ mode' \in {"vpc", "iks"} \ {mode}
  /\ UNCHANGED <<claim, node, work, queue, written, touches>>

-----------------------------------------------------------------------------
\* A claim of an earlier release, registered by it or not yet registered.
LegacyClaims ==
  {c \in ClaimType :
     /\ c.exists /\ ~c.deleting /\ c.coreFin /\ c.named = c.registered
     /\ c.backend = "" \/ ~c.regFin}
LegacyNode(c) ==
  {n \in NodeType :
     /\ n.exists /\ n.uid = 1 /\ n.own /\ ~n.deleting /\ ~(n.owner # n.termFin)
     /\ ~c.registered => ~n.labels /\ ~n.termFin}

Init ==
  /\ claim \in LegacyClaims
  /\ node \in LegacyNode(claim)
  /\ work = [k \in Controllers |-> Idle]
  /\ queue = ClaimHeard \cup NodeHeard(node)
  /\ mode = IF claim.backend = "" THEN "vpc" ELSE claim.backend
  /\ written = [u \in Uids |-> {}]
  /\ touches = 0

Reg ==
  \/ RegReconcile \/ RegPatchClaim \/ findNodeForNodeClaim \/ RereadNode("reg", "adopt")
  \/ removeLegacyNodeFinalizer("reg", "adopt") \/ RegAdopt
NodeFin ==
  reconcileNode \/ RereadNode("nodefin", "idle") \/ removeLegacyNodeFinalizer("nodefin", "idle")
Taint == TaintReconcile \/ removeNodeLabels \/ PatchNodeLabels \/ TaintPatchClaim
Core == CoreReconcile \/ CoreSync \/ CoreStatus

Next ==
  \/ Reg \/ NodeFin \/ Taint \/ Core \/ CoreTerminates
  \/ DeleteClaim \/ DeleteNode \/ ReplaceNode \/ Touch \/ TagClaim \/ EditClass

Spec == Init /\ [][Next]_vars
\* The tagging loop goes over all claims again and again, and a call to the cloud
\* that is repeated for ever succeeds in the end.
Fairness ==
  /\ WF_vars(Reg) /\ WF_vars(NodeFin) /\ WF_vars(Taint) /\ WF_vars(Core) /\ WF_vars(CoreTerminates)
  /\ SF_vars(TagClaim /\ written' # written)
FairSpec == Spec /\ Fairness

-----------------------------------------------------------------------------
\* Only the Node of the claim's own instance is adopted: a Node that took the
\* name later never gets the owner reference or the termination finalizer.
OwnerIsOwn == node.exists /\ (node.owner \/ node.termFin) => node.own

\* The migration leaves the Node of another instance alone, also one that took
\* the name after the claim's own Node was read: of such a Node it changes
\* nothing but the legacy finalizer, which the Node controller removes.
ForeignNodeIsLeft ==
  [][(Reg \/ NodeFin \/ Taint) /\ node' # node /\ ~node.own
       => NodeFin /\ node.regFin /\ node' = KeptNode([node EXCEPT !.regFin = FALSE])]_vars

\* A Node whose deletion has begun gets no new finalizer, although the migration
\* decides by what it read before: termination would start over.
DeletionIsNotHeldUp == [][node.exists /\ node.deleting /\ node'.termFin => node.termFin]_vars

\* In the end nothing of an earlier release is left: no legacy finalizer or
\* label on the claim, no finalizer on any Node, and no label on the Node of
\* the claim, although core copies labels from older copies of the claim.
Migrated ==
  <>[](/\ claim.exists => ~(claim.regFin \/ claim.taintFin \/ claim.labels)
       /\ node.exists => ~node.regFin /\ (node.own /\ claim.exists => ~node.labels))

\* A Node of a registered claim gets termination finalizer and owner
\* reference, by core or by the migration, unless one of the two goes.
RegisteredIsAdopted ==
  claim.registered /\ node.exists /\ node.own
    ~> (node.owner /\ node.termFin) \/ claim.deleting \/ node.deleting \/ ~node.exists

\* A deletion completes: legacy finalizers block neither claims nor Nodes (the
\* next Node of the name is not being deleted).
DeletionsComplete ==
  /\ claim.deleting ~> ~claim.exists
  /\ node.deleting ~> ~node.deleting

\* The user tags of a claim reach its instance if claim and Node stay: once the
\* claim says that it is backed by VPC, a NodeClass that is edited to describe
\* IKS does not keep them away.
TagsArrive ==
  "user" \in claim.tags /\ claim.backend = "vpc" /\ claim.named /\ node.exists /\ node.own
    ~> "user" \in written[1] \/ ~claim.exists \/ ~node.exists

\* On the way, the migration adopts, cleans and holds up no Node but the claim's
\* own.
MigrationIsSafe == [](TypeOK /\ OwnerIsOwn) /\ ForeignNodeIsLeft /\ DeletionIsNotHeldUp

\* The migration comes to its end and blocks no adoption and no deletion; tags
\* arrive.
MigrationSettles == Migrated /\ RegisteredIsAdopted /\ DeletionsComplete /\ TagsArrive
=============================================================================
