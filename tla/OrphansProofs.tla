--------------------------- MODULE OrphansProofs ---------------------------
(***************************************************************************)
(* The theorem about Orphans, for any claims, instances, accounts and      *)
(* bounds: garbage collection deletes no Node of an instance that exists,  *)
(* and orphan cleanup no instance that is not an orphan.                   *)
(*                                                                         *)
(* Both controllers act on what they read several calls ago.  What makes   *)
(* this safe is that the facts they rely on do not go away: an instance    *)
(* that is gone stays gone, a claim that is gone is not made again, and an *)
(* instance keeps its tags and grows older (Lasting).  The invariant says  *)
(* which of these facts each controller has seen at each step.  Lemma XInv *)
(* says that the step X preserves it.                                      *)
(***************************************************************************)
EXTENDS Orphans, Integers, TLAPS

\* Zenon proves most leaves; one that needs arithmetic or record types names SMT.
USE ZenonT(90)

-----------------------------------------------------------------------------
(* The inductive invariant *)

NodeClaim == [exists : BOOLEAN, providerID : Maybe(Instances), account : Maybe(Accounts)]

Instance == [state : {"none", "up", "gone"}, account : Maybe(Accounts),
             created : 0..MaxTime, tag : {"none", "own", "foreign"}]

Node == [inst : Maybe(Instances), uid : Nat, rev : Nat, ready : BOOLEAN, deleting : BOOLEAN]

GCPass == [pc : {"idle", "claims", "inventory", "confirm", "recheck", "verify", "delete"},
           view : [Claims -> Node], owned : SUBSET Claims, left : SUBSET Claims,
           present : SUBSET Instances, candidates : SUBSET Claims, failed : BOOLEAN,
           cur : Maybe(Claims)]

OCPass == [pc : {"idle", "nodes", "claims", "loop", "confirm", "reclaim", "renode", "delete"},
           listed : SUBSET Instances, expected : SUBSET Maybe(Instances),
           left : SUBSET Instances, cur : Maybe(Instances)]

\* The types of TypeOK, as sets of records.
Types ==
    /\ now \in 0..MaxTime /\ account \in Accounts
    /\ claims \in [Claims -> NodeClaim] /\ instances \in [Instances -> Instance]
    /\ node \in [Claims -> Node]
    /\ gc \in GCPass /\ oc \in OCPass

\* A claim names an instance that was made for it, and the account on record is
\* the account of its instances.  None is on record for a claim of an earlier
\* release, which has no other instance than the one it names.  Only an instance
\* that was made has tags.
Recorded ==
    /\ \A c \in Claims : claims[c].providerID # None =>
          /\ Owner[claims[c].providerID] = c
          /\ instances[claims[c].providerID].state # "none"
    /\ \A i \in Instances : instances[i].state # "none" =>
          LET c == claims[Owner[i]] IN
          /\ c.account # None => instances[i].account = c.account
          /\ c.account = None /\ c.exists => c.providerID = i
    /\ \A i \in Instances : instances[i].tag = "own" => instances[i].state # "none"

\* The object b is a, at the same time or later, or another one of the name.
Follows(a, b) ==
    /\ a.uid <= b.uid
    /\ a.uid = b.uid /\ b.inst # None => b.inst = a.inst

\* What garbage collection has read of the Nodes.
Copied ==
    \A n \in Claims : /\ Follows(gc.view[n], node[n])
                      /\ node[n].uid = 0 => node[n].inst = None

\* It is about Nodes that belong to an instance, and before the deletion the
\* instance was seen to be gone.
Suspected ==
    /\ gc.pc \in {"idle", "claims", "inventory"} => gc.candidates = {}
    /\ \A n \in gc.left \cup gc.candidates : gc.view[n].inst # None
    /\ gc.pc \in {"verify", "delete"} => gc.cur \in Claims /\ gc.view[gc.cur].inst # None
    /\ gc.pc = "delete" => instances[gc.view[gc.cur].inst].state = "gone"

\* Orphan cleanup has seen the age and the tags of the instance, and then that
\* the claim it was made for is gone.
Orphaned ==
    /\ oc.pc \in {"confirm", "reclaim", "renode", "delete"} => oc.cur \in Instances
    /\ oc.pc \in {"reclaim", "renode", "delete"} =>
          instances[oc.cur].state # "none" /\ ownsTags(oc.cur) /\ OldEnough(oc.cur)
    /\ oc.pc \in {"renode", "delete"} => ~claims[Owner[oc.cur]].exists

IInv == Types /\ Recorded /\ Copied /\ Suspected /\ Orphaned

-----------------------------------------------------------------------------
(* What does not go away *)

\* An instance that exists or existed keeps its tags and its age and is never
\* made again, one that is gone stays gone, and so does a claim.
Lasting ==
    /\ now <= now'
    /\ \A i \in Instances : instances[i].state # "none" =>
          /\ instances'[i].state # "none" /\ instances'[i].created = instances[i].created
          /\ instances[i].state = "gone" => instances'[i].state = "gone"
          /\ instances[i].tag = "own" => instances'[i].tag = "own"
    /\ \A c \in Claims : claims'[c].exists => claims[c].exists

\* Nodes of a name follow each other.
NodesFollow ==
    \A n \in Claims : /\ Follows(node[n], node'[n])
                      /\ node'[n].uid = 0 => node[n].uid = 0 /\ node'[n].inst \in {None, node[n].inst}

LEMMA Constants ==
    /\ None \notin Claims /\ None \notin Instances /\ None \notin Accounts
    /\ Owner \in [Instances -> Claims] /\ OrphanTimeout \in Nat /\ MaxTime \in Nat
  BY OrphansAssumption

\* What ensureBirthTarget writes is the account of the instance.
LEMMA EnsuredIsRecorded ==
  ASSUME Types, Recorded, NEW C \in SUBSET Claims, claims' = Ensured(C),
         \A c \in C : claims[c].providerID # None,
         UNCHANGED <<now, account, instances>>
  PROVE  /\ claims' \in [Claims -> NodeClaim] /\ Recorded' /\ Lasting
  <1>1. ASSUME NEW c \in Claims
        PROVE  /\ claims'[c] \in NodeClaim
               /\ claims'[c].exists = claims[c].exists
               /\ claims'[c].providerID = claims[c].providerID
               /\ claims'[c].account # claims[c].account =>
                     /\ claims[c].account = None /\ claims[c].exists
                     /\ claims[c].providerID \in Instances
                     /\ claims'[c].account = account
                     /\ instances[claims[c].providerID].account = account
    <2>1. claims[c] \in NodeClaim
      BY DEF Types
    <2>2. BirthAccount(c) \in Maybe(Accounts)
      BY <2>1 DEF BirthAccount, Types, NodeClaim, Maybe
    <2>3. claims'[c] = IF c \in C THEN [claims[c] EXCEPT !.account = BirthAccount(c)] ELSE claims[c]
      BY DEF Ensured
    <2>4. CASE c \in C
      <3>1. /\ claims'[c] \in NodeClaim /\ claims'[c].exists = claims[c].exists
            /\ claims'[c].providerID = claims[c].providerID
            /\ claims'[c].account = BirthAccount(c)
        BY <2>1, <2>2, <2>3, <2>4 DEF NodeClaim
      <3>2. claims[c].providerID \in Instances
        BY <2>1, <2>4 DEF NodeClaim, Maybe
      <3> QED BY <3>1, <3>2 DEF BirthAccount, Visible
    <2> QED BY <2>1, <2>3, <2>4
  <1>2. claims' \in [Claims -> NodeClaim]
    BY <1>1 DEF Ensured
  <1>3. Recorded'
    <2>1. ASSUME NEW c \in Claims, claims'[c].providerID # None
          PROVE  /\ Owner[claims'[c].providerID] = c
                 /\ instances'[claims'[c].providerID].state # "none"
      BY SMTT(90), <1>1, <2>1 DEF Recorded
    <2>2. ASSUME NEW i \in Instances, instances'[i].state # "none"
          PROVE  LET c == claims'[Owner[i]] IN
                 /\ c.account # None => instances'[i].account = c.account
                 /\ c.account = None /\ c.exists => c.providerID = i
      <3>1. Owner[i] \in Claims /\ account \in Accounts /\ None \notin Accounts
        BY Constants DEF Types
      <3> QED BY SMTT(90), <1>1, <2>2, <3>1 DEF Recorded
    <2>3. \A i \in Instances : instances'[i].tag = "own" => instances'[i].state # "none"
      BY DEF Recorded
    <2> QED BY <2>1, <2>2, <2>3 DEF Recorded
  <1>4. Lasting
    BY SMTT(90), <1>1 DEF Lasting, Types
  <1> QED BY <1>2, <1>3, <1>4

\* What orphan cleanup has seen stays true.
LEMMA OrphanedStays ==
  ASSUME IInv, Types', Lasting, UNCHANGED oc
  PROVE  Orphaned'
  <1>1. oc.pc \in {"confirm", "reclaim", "renode", "delete"} => oc.cur \in Instances
    BY DEF IInv, Orphaned
  <1>2. ASSUME oc.pc \in {"reclaim", "renode", "delete"}
        PROVE  instances'[oc.cur].state # "none" /\ ownsTags(oc.cur)' /\ OldEnough(oc.cur)'
    <2>1. /\ oc.cur \in Instances /\ instances[oc.cur].state # "none" /\ ownsTags(oc.cur)
          /\ OldEnough(oc.cur)
      BY <1>1, <1>2 DEF IInv, Orphaned
    <2>2. /\ now \in Int /\ now' \in Int /\ now <= now' /\ OrphanTimeout \in Int
          /\ instances[oc.cur].created \in Int /\ instances'[oc.cur].created = instances[oc.cur].created
      BY SMTT(90), <2>1, Constants DEF IInv, Types, Instance, Lasting
    <2> QED BY SMTT(90), <2>1, <2>2 DEF Lasting, ownsTags, OldEnough
  <1>3. oc.pc \in {"renode", "delete"} => ~claims'[Owner[oc.cur]].exists
    BY <1>1, Constants DEF IInv, Orphaned, Lasting
  <1> QED BY <1>1, <1>2, <1>3 DEF Orphaned

\* So does what garbage collection has read of the Nodes, and has seen.
LEMMA CopiedStays ==
  ASSUME IInv, Types', NodesFollow, gc'.view = gc.view
  PROVE  Copied'
  <1>1. ASSUME NEW n \in Claims
        PROVE  Follows(gc.view[n], node'[n]) /\ (node'[n].uid = 0 => node'[n].inst = None)
    <2>1. /\ Follows(gc.view[n], node[n]) /\ Follows(node[n], node'[n])
          /\ node[n].uid = 0 => node[n].inst = None
          /\ node'[n].uid = 0 => node[n].uid = 0 /\ node'[n].inst \in {None, node[n].inst}
      BY DEF IInv, Copied, NodesFollow
    <2>2. gc.view[n].uid \in Nat /\ node[n].uid \in Nat /\ node'[n].uid \in Nat
      BY DEF IInv, Types, Node, GCPass
    <2>3. CASE gc.view[n].uid = node'[n].uid /\ node'[n].inst # None
      BY SMTT(90), <2>1, <2>2, <2>3 DEF Follows
    <2> QED BY SMTT(90), <2>1, <2>2, <2>3 DEF Follows
  <1> QED BY <1>1 DEF Copied

LEMMA SuspectedStays ==
  ASSUME IInv, Lasting, UNCHANGED gc
  PROVE  Suspected'
  <1>1. ASSUME gc.pc = "delete"
        PROVE  instances'[gc.view[gc.cur].inst].state = "gone"
    <2>1. /\ gc.cur \in Claims /\ gc.view[gc.cur].inst # None
          /\ instances[gc.view[gc.cur].inst].state = "gone"
      BY <1>1 DEF IInv, Suspected
    <2>2. gc.view[gc.cur].inst \in Instances
      BY <2>1 DEF IInv, Types, GCPass, Node, Maybe
    <2> QED BY <2>1, <2>2 DEF Lasting
  <1> QED BY <1>1 DEF IInv, Suspected

-----------------------------------------------------------------------------
(* Garbage collection *)

\* A step of garbage collection that leaves the records as they should be.
LEMMA GCKeeps ==
  ASSUME IInv, UNCHANGED <<now, account, instances, node, oc>>, gc' \in GCPass,
         claims' \in [Claims -> NodeClaim], Recorded', Lasting,
         \A n \in Claims : gc'.view[n] \in {gc.view[n], node[n], NoNode},
         Suspected'
  PROVE  IInv'
  <1>1. Types'
    BY DEF IInv, Types
  <1>2. Copied'
    <2>1. ASSUME NEW n \in Claims PROVE Follows(gc'.view[n], node[n])
      <3>1. node[n].uid \in Nat /\ Follows(gc.view[n], node[n]) /\ (node[n].uid = 0 => node[n].inst = None)
        BY DEF IInv, Types, Node, Copied
      <3>2. NoNode.uid = 0 /\ NoNode.inst = None
        BY DEF NoNode
      <3> QED BY SMTT(90), <3>1, <3>2 DEF Follows
    <2> QED BY <2>1 DEF IInv, Copied
  <1> QED BY <1>1, <1>2, OrphanedStays DEF IInv

\* The same, for a step that writes nothing.
LEMMA GCReads ==
  ASSUME IInv, GCFrame, UNCHANGED <<claims, node>>, gc' \in GCPass,
         \A n \in Claims : gc'.view[n] \in {gc.view[n], node[n], NoNode}, Suspected'
  PROVE  IInv'
  <1>1. claims' \in [Claims -> NodeClaim] /\ Recorded' /\ Lasting
    BY SMTT(90) DEF IInv, Types, Recorded, Lasting, GCFrame
  <1> QED BY <1>1, GCKeeps DEF GCFrame

LEMMA IdlePasses ==
    /\ NoNode \in Node
    /\ GCIdle \in GCPass /\ GCIdle.pc = "idle" /\ GCIdle.left = {} /\ GCIdle.candidates = {}
    /\ \A n \in Claims : GCIdle.view[n] = NoNode
    /\ OCIdle \in OCPass /\ OCIdle.pc = "idle"
  BY DEF NoNode, Node, Maybe, GCIdle, GCPass, OCIdle, OCPass

\* A reconcile ends.
LEMMA GCStops ==
  ASSUME IInv, GCFrame, UNCHANGED node, gc' = GCIdle,
         claims' \in [Claims -> NodeClaim], Recorded', Lasting
  PROVE  IInv'
  <1>1. Suspected'
    BY IdlePasses DEF Suspected
  <1> QED BY <1>1, IdlePasses, GCKeeps DEF GCFrame

LEMMA GCListInv ==
  ASSUME IInv, GCList \/ GCListClaims
  PROVE  IInv'
  <1>1. CASE GCList
    <2>1. /\ gc' \in GCPass /\ gc'.view = node /\ gc'.pc = "claims" /\ gc'.candidates = {}
          /\ gc'.left = {n \in Claims : Registered(n)}
      BY <1>1, IdlePasses DEF GCList, GCIdle, GCPass, IInv, Types
    <2>2. Suspected'
      BY <2>1 DEF Suspected, Registered
    <2> QED BY <1>1, <2>1, <2>2, GCReads DEF GCList
  <1>2. CASE GCListClaims
    <2>1. gc \in GCPass
      BY DEF IInv, Types
    <2>2. /\ gc' \in GCPass /\ gc'.view = gc.view /\ gc'.pc = "inventory"
          /\ gc'.candidates = gc.candidates /\ gc'.left = gc.left
      BY <1>2, <2>1 DEF GCListClaims, GCPass
    <2>3. Suspected'
      BY <1>2, <2>2 DEF Suspected, IInv, GCListClaims
    <2> QED BY <1>2, <2>2, <2>3, GCReads DEF GCListClaims
  <1> QED BY <1>1, <1>2

\* The instance of one Node is looked up, and the account of the claims that name it.
LEMMA GCLooks ==
  ASSUME IInv, NEW n \in Claims, gc.view[n].inst # None
  PROVE  /\ gc \in GCPass /\ gc.view[n].inst \in Instances
         /\ \A c \in Claims : claims[c].providerID = gc.view[n].inst => claims[c].providerID # None
         /\ ClaimsFor(gc.view[n].inst) \in SUBSET Claims
         /\ \A c \in ClaimsFor(gc.view[n].inst) : claims[c].providerID # None
  <1>1. gc \in GCPass /\ gc.view[n] \in Node
    BY DEF IInv, Types, GCPass
  <1>2. gc.view[n].inst \in Instances
    BY <1>1 DEF Node, Maybe
  <1> QED BY <1>1, <1>2 DEF ClaimsFor

LEMMA GCInventoryInv ==
  ASSUME IInv, NEW n \in Claims, GCInventory(n)
  PROVE  IInv'
  <1> DEFINE i == gc.view[n].inst
             C == {c \in gc.owned : claims[c].providerID = i}
  <1>1. gc.pc = "inventory" /\ n \in gc.left /\ i # None
    BY DEF GCInventory, IInv, Suspected
  <1>2. gc \in GCPass /\ i \in Instances /\ C \in SUBSET Claims
        /\ \A c \in C : claims[c].providerID # None
    BY <1>1, GCLooks DEF GCPass
  <1>3. claims' = Ensured(C) /\ UNCHANGED node /\ GCFrame
    BY DEF GCInventory
  <1>4. claims' \in [Claims -> NodeClaim] /\ Recorded' /\ Lasting
    BY <1>2, <1>3, EnsuredIsRecorded DEF IInv, GCFrame
  <1>5. CASE gc' = GCIdle
    BY <1>3, <1>4, <1>5, GCStops
  <1>6. CASE gc' = [gc EXCEPT !.left = @ \ {n}, !.present = IF Visible(i) THEN @ \cup {i} ELSE @]
    <2>1. /\ gc' \in GCPass /\ gc'.view = gc.view /\ gc'.pc = "inventory"
          /\ gc'.candidates = gc.candidates /\ gc'.left = gc.left \ {n}
      BY <1>1, <1>2, <1>6 DEF GCPass
    <2>2. Suspected'
      BY <1>1, <2>1 DEF Suspected, IInv
    <2> QED BY <1>3, <1>4, <2>1, <2>2, GCKeeps DEF GCFrame
  <1> QED BY <1>5, <1>6 DEF GCInventory

LEMMA GCListNodesInv ==
  ASSUME IInv, GCListNodes
  PROVE  IInv'
  <1>1. gc \in GCPass /\ gc.candidates = {} /\ node \in [Claims -> Node]
    BY DEF IInv, Types, Suspected, GCListNodes
  <1>2. /\ gc' \in GCPass /\ gc'.view = node /\ gc'.pc = "confirm" /\ gc'.candidates = {}
        /\ gc'.left \subseteq {n \in Claims : Registered(n)}
    BY <1>1 DEF GCListNodes, GCPass
  <1>3. Suspected'
    BY <1>2 DEF Suspected, Registered
  <1> QED BY <1>2, <1>3, GCReads DEF GCListNodes

LEMMA GCConfirmInv ==
  ASSUME IInv, NEW n \in Claims, GCConfirm(n)
  PROVE  IInv'
  <1> DEFINE i == gc.view[n].inst
  <1>1. gc.pc = "confirm" /\ n \in gc.left /\ i # None
    BY DEF GCConfirm, IInv, Suspected
  <1>2. gc \in GCPass /\ claims' = Ensured(ClaimsFor(i)) /\ UNCHANGED node /\ GCFrame
    BY <1>1, GCLooks DEF GCConfirm
  <1>3. claims' \in [Claims -> NodeClaim] /\ Recorded' /\ Lasting
    BY <1>1, <1>2, GCLooks, EnsuredIsRecorded DEF IInv, GCFrame
  <1>4. /\ gc' \in GCPass /\ gc'.view = gc.view /\ gc'.pc = "confirm"
        /\ gc'.candidates \subseteq gc.candidates \cup {n} /\ gc'.left \subseteq gc.left
    BY <1>1, <1>2 DEF GCConfirm, GCPass
  <1>5. Suspected'
    BY <1>1, <1>4 DEF Suspected, IInv
  <1> QED BY <1>2, <1>3, <1>4, <1>5, GCKeeps DEF GCFrame

LEMMA GCConfirmedInv ==
  ASSUME IInv, GCConfirmed \/ GCDone
  PROVE  IInv'
  <1>1. gc \in GCPass
    BY DEF IInv, Types
  <1>2. UNCHANGED <<claims, node>> /\ GCFrame
    BY DEF GCConfirmed, GCDone
  <1>3. CASE gc' = GCIdle
    <2>1. claims' \in [Claims -> NodeClaim] /\ Recorded' /\ Lasting
      BY SMTT(90), <1>2 DEF IInv, Types, Recorded, Lasting, GCFrame
    <2> QED BY <1>2, <1>3, <2>1, GCStops
  <1>4. CASE gc' = [gc EXCEPT !.pc = "recheck", !.left = gc.candidates]
    <2>1. /\ gc' \in GCPass /\ gc'.view = gc.view /\ gc'.pc = "recheck"
          /\ gc'.candidates = gc.candidates /\ gc'.left = gc.candidates
      BY <1>1, <1>4 DEF GCPass
    <2>2. Suspected'
      BY <2>1 DEF Suspected, IInv
    <2> QED BY <1>2, <2>1, <2>2, GCReads
  <1> QED BY <1>3, <1>4 DEF GCConfirmed, GCDone

LEMMA GCRecheckInv ==
  ASSUME IInv, NEW n \in Claims, GCRecheck(n)
  PROVE  IInv'
  <1>1. /\ gc \in GCPass /\ gc.pc = "recheck" /\ n \in gc.left /\ gc.view[n].inst # None
        /\ node \in [Claims -> Node] /\ UNCHANGED <<claims, node>> /\ GCFrame
    BY DEF IInv, Types, Suspected, GCRecheck
  <1>2. CASE gc' = [gc EXCEPT !.left = @ \ {n}]
    <2>1. /\ gc' \in GCPass /\ gc'.view = gc.view /\ gc'.pc = "recheck"
          /\ gc'.candidates = gc.candidates /\ gc'.left \subseteq gc.left
      BY <1>1, <1>2 DEF GCPass
    <2>2. Suspected'
      BY <2>1 DEF Suspected, IInv
    <2> QED BY <1>1, <2>1, <2>2, GCReads
  <1>3. CASE /\ node[n].inst = gc.view[n].inst
             /\ gc' = [gc EXCEPT !.left = @ \ {n}, !.pc = "verify", !.cur = n, !.view[n] = node[n]]
    <2>1. /\ gc' \in GCPass /\ gc'.view = [gc.view EXCEPT ![n] = node[n]] /\ gc'.pc = "verify"
          /\ gc'.candidates = gc.candidates /\ gc'.left \subseteq gc.left /\ gc'.cur = n
      BY <1>1, <1>3 DEF GCPass, Maybe
    <2>2. \A m \in Claims : /\ gc'.view[m] \in {gc.view[m], node[m]}
                            /\ gc'.view[m].inst = gc.view[m].inst
      BY <1>1, <1>3, <2>1 DEF GCPass
    <2>3. gc.left \subseteq Claims /\ gc.candidates \subseteq Claims
      BY <1>1 DEF GCPass
    <2>4. Suspected'
      BY <1>1, <2>1, <2>2, <2>3 DEF Suspected, IInv
    <2> QED BY <1>1, <2>1, <2>2, <2>4, GCReads
  <1> QED BY <1>2, <1>3 DEF GCRecheck

\* CloudProvider.Get answers "not found" only for an instance that is gone: a
\* claim names it, under the account of the credentials in use, which is the
\* account of the instance.
LEMMA NotFoundIsGone ==
  ASSUME IInv, NEW i \in Instances, Get(i) = "notfound"
  PROVE  instances[i].state = "gone"
  <1>1. /\ \A c \in ClaimsFor(i) : validateBirthTarget(c)
        /\ ~Visible(i) /\ ClaimsFor(i) # {}
    BY DEF Get
  <1>2. PICK c \in Claims : claims[c].exists /\ claims[c].providerID = i /\ validateBirthTarget(c)
    BY <1>1 DEF ClaimsFor
  <1>3. claims[c].account = account /\ account # None
    BY <1>1, <1>2, Constants DEF validateBirthTarget, BirthAccount, IInv, Types
  <1>4. instances[i].state # "none" /\ instances[i].account = account
    BY <1>2, <1>3, Constants DEF IInv, Recorded
  <1>5. instances[i].state \in {"none", "up", "gone"}
    BY DEF IInv, Types, Instance
  <1> QED BY <1>1, <1>4, <1>5 DEF Visible

LEMMA GCVerifyInv ==
  ASSUME IInv, GCVerify
  PROVE  IInv'
  <1> DEFINE i == gc.view[gc.cur].inst
  <1>1. gc.pc = "verify" /\ gc.cur \in Claims /\ i # None
    BY DEF GCVerify, IInv, Suspected
  <1>2. /\ gc \in GCPass /\ i \in Instances /\ claims' = Ensured(ClaimsFor(i)) /\ UNCHANGED node
        /\ GCFrame
    BY <1>1, GCLooks DEF GCVerify
  <1>3. claims' \in [Claims -> NodeClaim] /\ Recorded' /\ Lasting
    BY <1>1, <1>2, GCLooks, EnsuredIsRecorded DEF IInv, GCFrame
  <1>4. /\ gc' \in GCPass /\ gc'.view = gc.view /\ gc'.cur = gc.cur
        /\ gc'.candidates = gc.candidates /\ gc'.left = gc.left
        /\ gc'.pc \in {"delete", "recheck"} /\ (gc'.pc = "delete" => Get(i) = "notfound")
    BY <1>1, <1>2 DEF GCVerify, GCPass
  <1>5. gc'.pc = "delete" => instances[i].state = "gone"
    BY <1>2, <1>4, NotFoundIsGone
  <1>6. Suspected'
    BY <1>1, <1>2, <1>4, <1>5 DEF Suspected, IInv, GCFrame
  <1> QED BY <1>2, <1>3, <1>4, <1>6, GCKeeps DEF GCFrame

LEMMA GCDeleteInv ==
  ASSUME IInv, GCDelete
  PROVE  IInv'
  <1>1. /\ gc \in GCPass /\ gc.pc = "delete" /\ gc.cur \in Claims /\ node \in [Claims -> Node]
        /\ UNCHANGED claims /\ GCFrame
    BY DEF GCDelete, IInv, Types, Suspected
  <1>2. /\ gc' \in GCPass /\ gc'.view = gc.view /\ gc'.pc = "recheck"
        /\ gc'.candidates = gc.candidates /\ gc'.left = gc.left
    BY <1>1 DEF GCDelete, GCPass, Maybe
  <1>3. /\ node' \in [Claims -> Node]
        /\ \A n \in Claims : node'[n].uid = node[n].uid /\ node'[n].inst = node[n].inst
    <2>1. node[gc.cur].rev + 1 \in Nat
      BY SMTT(90), <1>1 DEF Node
    <2> QED BY <1>1, <2>1 DEF GCDelete, Node
  <1>4. NodesFollow
    <2>1. \A n \in Claims : node[n].uid \in Nat
      BY <1>1 DEF Node
    <2> QED BY SMTT(90), <1>3, <2>1 DEF NodesFollow, Follows
  <1>5. Types' /\ Recorded' /\ Lasting
    BY SMTT(90), <1>1, <1>2, <1>3 DEF IInv, Types, Recorded, Lasting, GCFrame
  <1>6. Suspected'
    BY <1>2 DEF Suspected, IInv
  <1>7. UNCHANGED oc
    BY <1>1 DEF GCFrame
  <1> QED BY <1>2, <1>4, <1>5, <1>6, <1>7, CopiedStays, OrphanedStays DEF IInv

LEMMA GCErrorInv ==
  ASSUME IInv, GCError
  PROVE  IInv'
  <1>1. gc \in GCPass /\ UNCHANGED <<claims, node>> /\ GCFrame
    BY DEF GCError, IInv, Types
  <1>2. CASE gc' = GCIdle
    <2>1. claims' \in [Claims -> NodeClaim] /\ Recorded' /\ Lasting
      BY SMTT(90), <1>1 DEF IInv, Types, Recorded, Lasting, GCFrame
    <2> QED BY <1>1, <1>2, <2>1, GCStops
  <1>3. ASSUME gc.pc = "confirm",
               \E n \in gc.left : gc' = [gc EXCEPT !.left = @ \ {n}, !.failed = TRUE]
        PROVE  IInv'
    <2>1. /\ gc' \in GCPass /\ gc'.view = gc.view /\ gc'.pc = "confirm"
          /\ gc'.candidates = gc.candidates /\ gc'.left \subseteq gc.left
      BY <1>1, <1>3 DEF GCPass
    <2>2. Suspected'
      BY <2>1 DEF Suspected, IInv
    <2> QED BY <1>1, <2>1, <2>2, GCReads
  <1>4. ASSUME gc.pc = "recheck", \E n \in gc.left : gc' = [gc EXCEPT !.left = @ \ {n}]
        PROVE  IInv'
    <2>1. /\ gc' \in GCPass /\ gc'.view = gc.view /\ gc'.pc = "recheck"
          /\ gc'.candidates = gc.candidates /\ gc'.left \subseteq gc.left
      BY <1>1, <1>4 DEF GCPass
    <2>2. Suspected'
      BY <2>1 DEF Suspected, IInv
    <2> QED BY <1>1, <2>1, <2>2, GCReads
  <1>5. CASE gc' = [gc EXCEPT !.pc = "recheck", !.cur = None]
    <2>1. /\ gc' \in GCPass /\ gc'.view = gc.view /\ gc'.pc = "recheck"
          /\ gc'.candidates = gc.candidates /\ gc'.left \subseteq gc.left
      BY <1>1, <1>5 DEF GCPass, Maybe
    <2>2. Suspected'
      BY <2>1 DEF Suspected, IInv
    <2> QED BY <1>1, <2>1, <2>2, GCReads
  <1> QED BY <1>2, <1>3, <1>4, <1>5 DEF GCError

-----------------------------------------------------------------------------
(* Orphan cleanup *)

\* A step of orphan cleanup that only reads.
LEMMA OCReads ==
  ASSUME IInv, OCFrame, UNCHANGED instances, oc' \in OCPass, Orphaned'
  PROVE  IInv'
  <1>1. Types' /\ Recorded' /\ Lasting
    BY SMTT(90) DEF IInv, Types, Recorded, Lasting, OCFrame
  <1>2. Copied' /\ UNCHANGED gc
    BY DEF IInv, Copied, OCFrame
  <1> QED BY <1>1, <1>2, SuspectedStays DEF IInv

\* The same, at a place where nothing has been seen yet.
LEMMA OCRestarts ==
  ASSUME IInv, OCFrame, UNCHANGED instances, oc' \in OCPass,
         oc'.pc \in {"idle", "nodes", "claims", "loop"}
  PROVE  IInv'
  <1>1. Orphaned'
    BY DEF Orphaned
  <1> QED BY <1>1, OCReads

LEMMA OCListsInv ==
  ASSUME IInv, getAllVPCInstances \/ OCListNodes \/ OCListClaims \/ OCDone
  PROVE  IInv'
  <1>1. oc \in OCPass /\ OCFrame /\ UNCHANGED instances
    BY DEF IInv, Types, getAllVPCInstances, OCListNodes, OCListClaims, OCDone
  <1>2. CASE getAllVPCInstances
    <2>1. oc' \in OCPass /\ oc'.pc = "nodes"
      BY <1>2 DEF getAllVPCInstances, OCIdle, OCPass, Maybe
    <2> QED BY <1>1, <2>1, OCRestarts
  <1>3. CASE OCListNodes
    <2>1. {node[n].inst : n \in Claims} \in SUBSET Maybe(Instances)
      BY DEF IInv, Types, Node
    <2>2. oc' \in OCPass /\ oc'.pc = "claims"
      BY <1>1, <1>3, <2>1 DEF OCListNodes, OCPass
    <2> QED BY <1>1, <2>2, OCRestarts
  <1>4. CASE OCListClaims
    <2> DEFINE published == {claims[c].providerID : c \in {d \in Claims : claims[d].exists}}
    <2>1. published \in SUBSET Maybe(Instances)
      BY DEF IInv, Types, NodeClaim
    <2>2. oc' = [oc EXCEPT !.pc = "loop", !.expected = @ \cup published,
                           !.left = oc.listed \ (oc.expected \cup published)]
      BY <1>4 DEF OCListClaims
    <2> HIDE DEF published
    <2>3. oc' \in OCPass /\ oc'.pc = "loop"
      BY <1>1, <2>1, <2>2 DEF OCPass
    <2> QED BY <1>1, <2>3, OCRestarts
  <1>5. CASE OCDone
    BY <1>1, <1>5, IdlePasses, OCRestarts DEF OCDone
  <1> QED BY <1>2, <1>3, <1>4, <1>5

LEMMA OCPickInv ==
  ASSUME IInv, NEW i \in Instances, OCPick(i)
  PROVE  IInv'
  <1>1. oc \in OCPass /\ oc.pc = "loop" /\ OCFrame /\ UNCHANGED instances
    BY DEF IInv, Types, OCPick
  <1>2. oc' \in OCPass /\ oc'.pc \in {"loop", "confirm"} /\ (oc'.pc = "confirm" => oc'.cur = i)
    BY <1>1 DEF OCPick, OCPass, Maybe
  <1>3. Orphaned'
    BY <1>2 DEF Orphaned
  <1> QED BY <1>1, <1>2, <1>3, OCReads

LEMMA OCConfirmInv ==
  ASSUME IInv, OCConfirm \/ OCReclaim \/ OCRenode
  PROVE  IInv'
  <1>1. /\ oc \in OCPass /\ oc.cur \in Instances /\ OCFrame /\ UNCHANGED <<instances, claims, now>>
    BY DEF IInv, Types, Orphaned, OCConfirm, OCReclaim, OCRenode, OCFrame
  <1>2. CASE OCConfirm
    <2>1. /\ oc' \in OCPass /\ oc'.cur = oc.cur /\ oc'.pc \in {"reclaim", "loop"}
          /\ oc'.pc = "reclaim" => Visible(oc.cur) /\ OldEnough(oc.cur) /\ ownsTags(oc.cur)
      BY <1>1, <1>2 DEF OCConfirm, OCPass
    <2>2. Orphaned'
      BY <1>1, <2>1 DEF Orphaned, Visible, OldEnough, ownsTags
    <2> QED BY <1>1, <2>1, <2>2, OCReads
  <1>3. CASE OCReclaim
    <2>1. /\ oc' \in OCPass /\ oc'.cur = oc.cur /\ oc'.pc \in {"renode", "loop"}
          /\ oc'.pc = "renode" => ~claims[Owner[oc.cur]].exists
      BY <1>1, <1>3 DEF OCReclaim, OCPass, Unclaimed
    <2>2. instances[oc.cur].state # "none" /\ ownsTags(oc.cur) /\ OldEnough(oc.cur)
      BY <1>3 DEF OCReclaim, IInv, Orphaned
    <2>3. Orphaned'
      BY <1>1, <2>1, <2>2 DEF Orphaned, OldEnough, ownsTags
    <2> QED BY <1>1, <2>1, <2>3, OCReads
  <1>4. CASE OCRenode
    <2>1. oc' \in OCPass /\ oc'.cur = oc.cur /\ oc'.pc \in {"delete", "loop"}
      BY <1>1, <1>4 DEF OCRenode, OCPass
    <2>2. /\ instances[oc.cur].state # "none" /\ ownsTags(oc.cur) /\ OldEnough(oc.cur)
          /\ ~claims[Owner[oc.cur]].exists
      BY <1>4 DEF OCRenode, IInv, Orphaned
    <2>3. Orphaned'
      BY <1>1, <2>1, <2>2 DEF Orphaned, OldEnough, ownsTags
    <2> QED BY <1>1, <2>1, <2>3, OCReads
  <1> QED BY <1>2, <1>3, <1>4

\* An instance goes.
LEMMA InstanceGoes ==
  ASSUME IInv, NEW i \in Instances, instances[i].state = "up",
         instances' = [instances EXCEPT ![i].state = "gone"],
         UNCHANGED <<now, claims>>
  PROVE  instances' \in [Instances -> Instance] /\ Recorded' /\ Lasting
  <1>1. instances \in [Instances -> Instance]
    BY DEF IInv, Types
  <1>2. /\ instances' \in [Instances -> Instance]
        /\ \A j \in Instances : /\ instances'[j].account = instances[j].account
                                /\ instances'[j].created = instances[j].created
                                /\ instances'[j].tag = instances[j].tag
                                /\ instances'[j].state = IF j = i THEN "gone" ELSE instances[j].state
    BY <1>1 DEF Instance
  <1>3. Lasting
    BY SMTT(90), <1>2 DEF Lasting, IInv, Types
  <1>4. \A c \in Claims : claims[c].providerID # None => claims[c].providerID \in Instances
    BY DEF IInv, Types, NodeClaim, Maybe
  <1>5. Recorded'
    BY SMTT(90), <1>2, <1>4 DEF IInv, Recorded
  <1> QED BY <1>2, <1>3, <1>5

LEMMA OCDeleteInv ==
  ASSUME IInv, OCDelete
  PROVE  IInv'
  <1>1. /\ oc \in OCPass /\ oc.cur \in Instances /\ OCFrame /\ UNCHANGED <<now, claims, gc>>
    BY DEF IInv, Types, Orphaned, OCDelete, OCFrame
  <1>2. oc' \in OCPass /\ oc'.pc = "loop"
    BY <1>1 DEF OCDelete, OCPass, Maybe
  <1>3. CASE UNCHANGED instances
    BY <1>1, <1>2, <1>3, OCRestarts
  <1>4. CASE Visible(oc.cur) /\ instances' = [instances EXCEPT ![oc.cur].state = "gone"]
    <2>1. instances' \in [Instances -> Instance] /\ Recorded' /\ Lasting
      BY <1>1, <1>4, InstanceGoes DEF Visible
    <2>2. Types' /\ Copied' /\ Orphaned'
      BY <1>1, <1>2, <2>1 DEF IInv, Types, Copied, Orphaned, OCFrame
    <2> QED BY <1>1, <2>1, <2>2, SuspectedStays DEF IInv
  <1> QED BY <1>3, <1>4 DEF OCDelete

LEMMA OCErrorInv ==
  ASSUME IInv, OCError
  PROVE  IInv'
  <1>1. oc \in OCPass /\ OCFrame /\ UNCHANGED instances
    BY DEF IInv, Types, OCError
  <1>2. oc' \in OCPass /\ oc'.pc \in {"idle", "loop"}
    <2>1. CASE oc' = OCIdle
      BY <2>1, IdlePasses
    <2>2. ASSUME oc.pc = "loop", NEW i \in oc.left, oc' = [oc EXCEPT !.left = @ \ {i}]
          PROVE  oc' \in OCPass /\ oc'.pc = "loop"
      BY <1>1, <2>2 DEF OCPass
    <2>3. CASE oc' = [oc EXCEPT !.pc = "loop", !.cur = None]
      BY <1>1, <2>3 DEF OCPass, Maybe
    <2> QED BY <2>1, <2>2, <2>3 DEF OCError
  <1> QED BY <1>1, <1>2, OCRestarts

-----------------------------------------------------------------------------
(* The launch journal, core, kubelets, users and the cloud *)

\* A step of another actor keeps what the controllers have seen.
LEMMA EnvKeeps ==
  ASSUME IInv, EnvFrame, claims' \in [Claims -> NodeClaim], instances' \in [Instances -> Instance],
         node' \in [Claims -> Node], Recorded', Lasting, NodesFollow
  PROVE  IInv'
  <1>1. Types' /\ UNCHANGED <<gc, oc>> /\ gc'.view = gc.view
    BY DEF IInv, Types, EnvFrame
  <1> QED BY <1>1, CopiedStays, SuspectedStays, OrphanedStays DEF IInv

LEMMA NodesStay ==
  ASSUME IInv, UNCHANGED node
  PROVE  node' \in [Claims -> Node] /\ NodesFollow
  <1>1. \A n \in Claims : node[n].uid \in Nat
    BY DEF IInv, Types, Node
  <1> QED BY SMTT(90), <1>1 DEF IInv, Types, NodesFollow, Follows

LEMMA LaunchInv ==
  ASSUME IInv, NEW i \in Instances, Launch(i)
  PROVE  IInv'
  <1> DEFINE c == Owner[i]
             I == [state |-> "up", account |-> account, created |-> now, tag |-> "none"]
  <1>1. /\ c \in Claims /\ claims[c].exists /\ claims[c].providerID = None
        /\ claims[c].account \in {None, account} /\ account \in Accounts /\ None \notin Accounts
        /\ instances[i].state = "none"
        /\ instances' = [instances EXCEPT ![i] = I]
        /\ claims' = [claims EXCEPT ![c].account = account]
        /\ UNCHANGED node /\ EnvFrame
    BY Constants DEF Launch, IInv, Types
  <1>2. claims \in [Claims -> NodeClaim] /\ instances \in [Instances -> Instance]
    BY DEF IInv, Types
  <1>3. /\ claims' \in [Claims -> NodeClaim]
        /\ \A d \in Claims : /\ claims'[d].exists = claims[d].exists
                             /\ claims'[d].providerID = claims[d].providerID
                             /\ claims'[d].account = IF d = c THEN account ELSE claims[d].account
    BY <1>1, <1>2 DEF NodeClaim, Maybe
  <1>4. I \in Instance /\ I.state = "up" /\ I.account = account
    BY DEF Instance, IInv, Types, Maybe
  <1>5. /\ instances' \in [Instances -> Instance] /\ instances'[i] = I
        /\ \A j \in Instances : j # i => instances'[j] = instances[j]
    BY <1>1, <1>2, <1>4
  <1>6. Lasting
    <2>1. now <= now'
      BY SMTT(90), <1>1 DEF EnvFrame, IInv, Types
    <2> QED BY <1>1, <1>3, <1>5, <2>1 DEF Lasting
  <1>7. Recorded'
    <2>1. ASSUME NEW d \in Claims, claims'[d].providerID # None
          PROVE  /\ Owner[claims'[d].providerID] = d
                 /\ instances'[claims'[d].providerID].state # "none"
      <3>1. claims[d].providerID \in Instances
        BY <1>2, <1>3, <2>1 DEF NodeClaim, Maybe
      <3> QED BY SMTT(90), <1>3, <1>4, <1>5, <2>1, <3>1 DEF IInv, Recorded
    <2>2. ASSUME NEW j \in Instances, instances'[j].state # "none"
          PROVE  LET d == claims'[Owner[j]] IN
                 /\ d.account # None => instances'[j].account = d.account
                 /\ d.account = None /\ d.exists => d.providerID = j
      <3>1. CASE j = i
        BY SMTT(90), <1>1, <1>3, <1>4, <1>5, <3>1
      <3>2. CASE j # i
        <4>1. /\ instances'[j] = instances[j] /\ instances[j].state # "none" /\ Owner[j] \in Claims
          BY <1>5, <2>2, <3>2, Constants
        <4>2. /\ claims[Owner[j]].account # None => instances[j].account = claims[Owner[j]].account
              /\ claims[Owner[j]].account = None /\ claims[Owner[j]].exists
                 => claims[Owner[j]].providerID = j
          BY <4>1 DEF IInv, Recorded
        <4>3. j # None
          BY Constants
        <4>4. CASE Owner[j] = c
          BY SMTT(90), <1>1, <1>3, <4>1, <4>2, <4>3, <4>4
        <4> QED BY <1>3, <4>1, <4>2, <4>4
      <3> QED BY <3>1, <3>2
    <2>3. \A j \in Instances : instances'[j].tag = "own" => instances'[j].state # "none"
      BY <1>4, <1>5 DEF IInv, Recorded
    <2> QED BY <2>1, <2>2, <2>3 DEF Recorded
  <1> QED BY <1>1, <1>3, <1>5, <1>6, <1>7, NodesStay, EnvKeeps

LEMMA TagInv ==
  ASSUME IInv, NEW i \in Instances, Tag(i)
  PROVE  IInv'
  <1>1. /\ instances[i].state = "up" /\ instances' = [instances EXCEPT ![i].tag = "own"]
        /\ UNCHANGED <<claims, node>> /\ EnvFrame
    BY DEF Tag, Visible
  <1>2. instances \in [Instances -> Instance]
    BY DEF IInv, Types
  <1>3. /\ instances' \in [Instances -> Instance]
        /\ \A j \in Instances : /\ instances'[j].account = instances[j].account
                                /\ instances'[j].created = instances[j].created
                                /\ instances'[j].state = instances[j].state
                                /\ instances'[j].tag = IF j = i THEN "own" ELSE instances[j].tag
    BY <1>1, <1>2 DEF Instance
  <1>4. Lasting
    <2>1. now <= now'
      BY SMTT(90), <1>1 DEF EnvFrame, IInv, Types
    <2> QED BY <1>1, <1>3, <2>1 DEF Lasting
  <1>5. \A c \in Claims : claims[c].providerID # None => claims[c].providerID \in Instances
    BY DEF IInv, Types, NodeClaim, Maybe
  <1>6. Recorded'
    BY <1>1, <1>3, <1>5 DEF IInv, Recorded
  <1>7. claims' \in [Claims -> NodeClaim]
    BY <1>1 DEF IInv, Types
  <1> QED BY <1>1, <1>3, <1>4, <1>6, <1>7, NodesStay, EnvKeeps

LEMMA PublishInv ==
  ASSUME IInv, NEW i \in Instances, Publish(i)
  PROVE  IInv'
  <1> DEFINE c == Owner[i]
  <1>1. /\ c \in Claims /\ claims[c].exists /\ claims[c].providerID = None
        /\ instances[i].state # "none"
        /\ claims' = [claims EXCEPT ![c].providerID = i]
        /\ UNCHANGED <<instances, node>> /\ EnvFrame
    BY Constants DEF Publish, IInv, Recorded
  <1>2. claims \in [Claims -> NodeClaim] /\ instances \in [Instances -> Instance]
    BY DEF IInv, Types
  <1>3. /\ claims' \in [Claims -> NodeClaim]
        /\ \A d \in Claims : /\ claims'[d].exists = claims[d].exists
                             /\ claims'[d].account = claims[d].account
                             /\ claims'[d].providerID = IF d = c THEN i ELSE claims[d].providerID
    BY <1>1, <1>2 DEF NodeClaim, Maybe
  <1>4. Lasting
    <2>1. now <= now'
      BY SMTT(90), <1>1 DEF EnvFrame, IInv, Types
    <2> QED BY <1>1, <1>3, <2>1 DEF Lasting
  <1>5. Recorded'
    <2>1. ASSUME NEW d \in Claims, claims'[d].providerID # None
          PROVE  /\ Owner[claims'[d].providerID] = d
                 /\ instances'[claims'[d].providerID].state # "none"
      BY SMTT(90), <1>1, <1>3, <2>1 DEF IInv, Recorded
    <2>2. ASSUME NEW j \in Instances, instances'[j].state # "none"
          PROVE  LET d == claims'[Owner[j]] IN
                 /\ d.account # None => instances'[j].account = d.account
                 /\ d.account = None /\ d.exists => d.providerID = j
      <3>1. Owner[j] \in Claims /\ j # None
        BY Constants
      <3>2. /\ claims[Owner[j]].account # None => instances[j].account = claims[Owner[j]].account
            /\ claims[Owner[j]].account = None /\ claims[Owner[j]].exists
               => claims[Owner[j]].providerID = j
        BY <1>1, <2>2 DEF IInv, Recorded
      <3> QED BY <1>1, <1>3, <3>1, <3>2
    <2>3. \A j \in Instances : instances'[j].tag = "own" => instances'[j].state # "none"
      BY <1>1 DEF IInv, Recorded
    <2> QED BY <2>1, <2>2, <2>3 DEF Recorded
  <1>6. instances' \in [Instances -> Instance]
    BY <1>1, <1>2
  <1> QED BY <1>1, <1>3, <1>4, <1>5, <1>6, NodesStay, EnvKeeps

LEMMA ClaimGoesInv ==
  ASSUME IInv, NEW c \in Claims, ClaimGone(c) \/ ForceDelete(c)
  PROVE  IInv'
  <1>1. /\ claims' = [claims EXCEPT ![c].exists = FALSE]
        /\ UNCHANGED <<instances, node>> /\ EnvFrame
    BY DEF ClaimGone, ForceDelete
  <1>2. claims \in [Claims -> NodeClaim] /\ instances \in [Instances -> Instance]
    BY DEF IInv, Types
  <1>3. /\ claims' \in [Claims -> NodeClaim]
        /\ \A d \in Claims : /\ claims'[d].exists => claims[d].exists
                             /\ claims'[d].account = claims[d].account
                             /\ claims'[d].providerID = claims[d].providerID
    BY <1>1, <1>2 DEF NodeClaim
  <1>4. Lasting
    <2>1. now <= now'
      BY SMTT(90), <1>1 DEF EnvFrame, IInv, Types
    <2> QED BY <1>1, <1>3, <2>1 DEF Lasting
  <1>5. \A i \in Instances : Owner[i] \in Claims
    BY Constants
  <1>6. Recorded'
    BY SMTT(90), <1>1, <1>3, <1>5 DEF IInv, Recorded
  <1>7. instances' \in [Instances -> Instance]
    BY <1>1, <1>2
  <1> QED BY <1>1, <1>3, <1>4, <1>6, <1>7, NodesStay, EnvKeeps

\* A step that changes Nodes only.
LEMMA NodesChange ==
  ASSUME IInv, EnvFrame, UNCHANGED <<claims, instances>>, node' \in [Claims -> Node], NodesFollow
  PROVE  IInv'
  <1>1. /\ claims' \in [Claims -> NodeClaim] /\ instances' \in [Instances -> Instance]
        /\ Recorded' /\ Lasting
    BY SMTT(90) DEF IInv, Types, Recorded, Lasting, EnvFrame
  <1> QED BY <1>1, EnvKeeps

LEMMA RegisterInv ==
  ASSUME IInv, NEW i \in Instances, Register(i)
  PROVE  IInv'
  <1> DEFINE n == Owner[i]
             u == node[n].uid + 1
             N == [NoNode EXCEPT !.inst = i, !.uid = u, !.ready = TRUE]
  <1>1. /\ n \in Claims /\ node' = [node EXCEPT ![n] = N]
        /\ UNCHANGED <<claims, instances>> /\ EnvFrame
    BY Constants DEF Register
  <1>2. node \in [Claims -> Node] /\ \A m \in Claims : node[m].uid \in Nat
    BY DEF IInv, Types, Node
  <1>3. u \in Nat /\ u = node[n].uid + 1
    BY SMTT(90), <1>1, <1>2
  <1> HIDE DEF u
  <1>4. NoNode \in Node
    BY IdlePasses
  <1>5. N \in Node /\ N.uid = u
    BY <1>3, <1>4 DEF Node, Maybe
  <1> HIDE DEF N
  <1>6. node' \in [Claims -> Node] /\ \A m \in Claims : node'[m] = IF m = n THEN N ELSE node[m]
    BY <1>1, <1>2, <1>5
  <1>7. NodesFollow
    BY SMTT(90), <1>2, <1>3, <1>5, <1>6 DEF NodesFollow, Follows
  <1> QED BY <1>1, <1>6, <1>7, NodesChange

LEMMA NodeWriteInv ==
  ASSUME IInv, NEW n \in Claims, Unready(n) \/ Ready(n) \/ DeleteNode(n)
  PROVE  IInv'
  <1>1. node \in [Claims -> Node] /\ node[n].rev + 1 \in Nat /\ \A m \in Claims : node[m].uid \in Nat
    BY SMTT(90) DEF IInv, Types, Node
  <1>2. /\ UNCHANGED <<claims, instances>> /\ EnvFrame
    BY DEF Unready, Ready, DeleteNode
  <1>3. /\ node' \in [Claims -> Node]
        /\ \A m \in Claims : node'[m].uid = node[m].uid /\ node'[m].inst = node[m].inst
    BY SMTT(90), <1>1 DEF Unready, Ready, DeleteNode, Node
  <1>4. NodesFollow
    BY SMTT(90), <1>1, <1>3 DEF NodesFollow, Follows
  <1> QED BY <1>2, <1>3, <1>4, NodesChange

LEMMA NodeGoneInv ==
  ASSUME IInv, NEW n \in Claims, NodeGone(n)
  PROVE  IInv'
  <1> DEFINE N == [NoNode EXCEPT !.uid = node[n].uid]
  <1>1. node' = [node EXCEPT ![n] = N] /\ UNCHANGED <<claims, instances>> /\ EnvFrame
    BY DEF NodeGone
  <1>2. node \in [Claims -> Node] /\ \A m \in Claims : node[m].uid \in Nat
    BY DEF IInv, Types, Node
  <1>3. N \in Node /\ N.uid = node[n].uid /\ N.inst = None
    BY <1>2 DEF NoNode, Node, Maybe
  <1> HIDE DEF N
  <1>4. node' \in [Claims -> Node] /\ \A m \in Claims : node'[m] = IF m = n THEN N ELSE node[m]
    BY <1>1, <1>2, <1>3
  <1>5. NodesFollow
    BY SMTT(90), <1>2, <1>3, <1>4 DEF NodesFollow, Follows
  <1> QED BY <1>1, <1>4, <1>5, NodesChange

LEMMA CloudGoneInv ==
  ASSUME IInv, NEW i \in Instances, CloudGone(i)
  PROVE  IInv'
  <1>1. /\ instances[i].state = "up" /\ instances' = [instances EXCEPT ![i].state = "gone"]
        /\ UNCHANGED <<claims, node, now>> /\ EnvFrame
    BY DEF CloudGone, EnvFrame
  <1>2. claims' \in [Claims -> NodeClaim]
    BY <1>1 DEF IInv, Types
  <1> QED BY <1>1, <1>2, InstanceGoes, NodesStay, EnvKeeps

LEMMA RestartInv ==
  ASSUME IInv, NEW a \in Accounts, Restart(a)
  PROVE  IInv'
  <1>1. /\ account' = a /\ gc' = GCIdle /\ oc' = OCIdle
        /\ UNCHANGED <<now, claims, instances, node>>
    BY DEF Restart
  <1>2. Types' /\ Recorded'
    BY <1>1, IdlePasses DEF IInv, Types, Recorded
  <1>3. Suspected' /\ Orphaned'
    BY <1>1, IdlePasses DEF Suspected, Orphaned
  <1>4. Copied'
    <2>1. ASSUME NEW n \in Claims
          PROVE  Follows(NoNode, node[n]) /\ (node[n].uid = 0 => node[n].inst = None)
      <3>1. node[n].uid \in Nat /\ (node[n].uid = 0 => node[n].inst = None)
        BY DEF IInv, Types, Node, Copied
      <3>2. NoNode.uid = 0 /\ NoNode.inst = None
        BY DEF NoNode
      <3> QED BY SMTT(90), <3>1, <3>2 DEF Follows
    <2> QED BY <1>1, <2>1, IdlePasses DEF Copied
  <1> QED BY <1>2, <1>3, <1>4 DEF IInv

LEMMA TickInv ==
  ASSUME IInv, Tick
  PROVE  IInv'
  <1>1. /\ now' \in 0..MaxTime /\ now <= now' /\ UNCHANGED <<account, claims, instances, node, gc, oc>>
    BY SMTT(90), Constants DEF Tick, IInv, Types
  <1>2. Types' /\ Recorded' /\ Copied' /\ Lasting
    BY <1>1 DEF IInv, Types, Recorded, Copied, Lasting
  <1> QED BY <1>1, <1>2, SuspectedStays, OrphanedStays DEF IInv

-----------------------------------------------------------------------------
(* The invariant holds *)

LEMMA InitInv ==
  ASSUME Init
  PROVE  IInv
  <1>1. /\ now = 0 /\ account \in Accounts /\ node = [n \in Claims |-> NoNode]
        /\ gc = GCIdle /\ oc = OCIdle
    BY DEF Init
  <1>2. PICK kind \in [Claims -> {"new", "legacy", "foreign"}], a \in Accounts :
          /\ claims = [c \in Claims |-> [exists |-> kind[c] # "foreign",
                                         providerID |-> IF kind[c] = "legacy" THEN First(c) ELSE None,
                                         account |-> None]]
          /\ instances = [i \in Instances |->
                IF kind[Owner[i]] # "new" /\ i = First(Owner[i])
                THEN [state |-> "up", account |-> a, created |-> 0,
                      tag |-> IF kind[Owner[i]] = "foreign" THEN "foreign" ELSE "none"]
                ELSE [state |-> "none", account |-> None, created |-> 0, tag |-> "none"]]
    BY DEF Init
  <1>3. \A c \in Claims : First(c) \in Instances /\ Owner[First(c)] = c
    BY OrphansAssumption DEF First
  <1>4. ASSUME NEW c \in Claims
        PROVE  /\ claims[c] \in NodeClaim /\ claims[c].exists = (kind[c] # "foreign")
               /\ claims[c].providerID = (IF kind[c] = "legacy" THEN First(c) ELSE None)
               /\ claims[c].account = None
    BY <1>2, <1>3 DEF NodeClaim, Maybe
  <1>5. ASSUME NEW i \in Instances
        PROVE  /\ instances[i] \in Instance /\ instances[i].tag # "own"
               /\ instances[i].state # "none" <=> kind[Owner[i]] # "new" /\ i = First(Owner[i])
    <2>1. 0 \in 0..MaxTime
      BY SMTT(90), Constants
    <2> QED BY <1>2, <2>1 DEF Instance, Maybe
  <1>6. Types
    <2>1. 0 \in 0..MaxTime
      BY SMTT(90), Constants
    <2>2. claims \in [Claims -> NodeClaim] /\ instances \in [Instances -> Instance]
      BY <1>2, <1>4, <1>5
    <2> QED BY <1>1, <2>1, <2>2, IdlePasses DEF Types
  <1>7. Recorded
    <2>1. ASSUME NEW c \in Claims, claims[c].providerID # None
          PROVE  Owner[claims[c].providerID] = c /\ instances[claims[c].providerID].state # "none"
      <3>1. kind[c] = "legacy" /\ claims[c].providerID = First(c)
        BY <1>4, <2>1
      <3> QED BY <1>3, <1>5, <3>1
    <2>2. ASSUME NEW i \in Instances, instances[i].state # "none"
          PROVE  /\ claims[Owner[i]].account = None
                 /\ claims[Owner[i]].exists => claims[Owner[i]].providerID = i
      <3>1. Owner[i] \in Claims /\ kind[Owner[i]] # "new" /\ i = First(Owner[i])
        BY <1>5, <2>2, Constants
      <3>2. kind[Owner[i]] \in {"new", "legacy", "foreign"}
        BY <3>1
      <3> QED BY <1>4, <3>1, <3>2
    <2>3. \A i \in Instances : instances[i].tag # "own"
      BY <1>5
    <2> QED BY <2>1, <2>2, <2>3 DEF Recorded
  <1>8. Copied
    <2>1. NoNode.uid = 0 /\ NoNode.inst = None
      BY DEF NoNode
    <2> QED BY SMTT(90), <1>1, <2>1, IdlePasses DEF Copied, Follows
  <1>9. Suspected /\ Orphaned
    BY <1>1, IdlePasses DEF Suspected, Orphaned
  <1> QED BY <1>6, <1>7, <1>8, <1>9 DEF IInv

LEMMA StutterInv ==
  ASSUME IInv, UNCHANGED vars
  PROVE  IInv'
  BY DEF IInv, Types, Recorded, Copied, Suspected, Orphaned, vars, ownsTags, OldEnough

LEMMA NextInv ==
  ASSUME IInv, [Next]_vars
  PROVE  IInv'
  <1>1. CASE GCNext
    BY <1>1, GCListInv, GCInventoryInv, GCListNodesInv, GCConfirmInv, GCConfirmedInv, GCRecheckInv,
       GCVerifyInv, GCDeleteInv DEF GCNext
  <1>2. CASE OCNext
    BY <1>2, OCListsInv, OCPickInv, OCConfirmInv, OCDeleteInv DEF OCNext
  <1>3. CASE EnvNext
    BY <1>3, TickInv, LaunchInv, TagInv, PublishInv, RegisterInv, CloudGoneInv, ClaimGoesInv,
       NodeWriteInv, NodeGoneInv, RestartInv DEF EnvNext
  <1> QED BY <1>1, <1>2, <1>3, GCErrorInv, OCErrorInv, StutterInv DEF Next

LEMMA InvTypes ==
  ASSUME IInv
  PROVE  TypeOK
  <1>1. /\ now \in 0..MaxTime /\ account \in Accounts
        /\ claims \in [Claims -> NodeClaim] /\ instances \in [Instances -> Instance]
        /\ node \in [Claims -> Node] /\ gc \in GCPass /\ oc \in OCPass
    BY DEF IInv, Types
  <1>2. \A n \in Claims : /\ node[n].inst \in Maybe(Instances)
                          /\ node[n].uid \in Nat /\ node[n].rev \in Nat
                          /\ {node[n].ready, node[n].deleting} \subseteq BOOLEAN
    BY <1>1 DEF Node
  <1>3. /\ gc.pc \in {"idle", "claims", "inventory", "confirm", "recheck", "verify", "delete"}
        /\ gc.left \cup gc.owned \cup gc.candidates \subseteq Claims
        /\ gc.present \subseteq Instances /\ gc.cur \in Maybe(Claims)
    BY <1>1 DEF GCPass
  <1>4. /\ oc.pc \in {"idle", "nodes", "claims", "loop", "confirm", "reclaim", "renode", "delete"}
        /\ oc.listed \cup oc.left \subseteq Instances /\ oc.cur \in Maybe(Instances)
    BY <1>1 DEF OCPass
  <1>5. /\ gc.pc \in {"verify", "delete"} => gc.cur \in Claims
        /\ oc.pc \in {"confirm", "reclaim", "renode", "delete"} => oc.cur \in Instances
    BY DEF IInv, Suspected, Orphaned
  <1> QED BY <1>1, <1>2, <1>3, <1>4, <1>5 DEF TypeOK, NodeClaim, Instance

-----------------------------------------------------------------------------
(* What the controllers delete *)

LivesOn(n) ==
    node'[n].deleting /\ ~node[n].deleting /\ gc' # gc => instances[node[n].inst].state # "up"

\* The preconditions of the deletion, UID and resource version, make the Node
\* that is deleted the one that was read, so its instance is the one that was
\* seen to be gone.
LEMMA DeletedNodeIsDead ==
  ASSUME IInv, GCDelete, NEW n \in Claims
  PROVE  LivesOn(n)
  <1>1. SUFFICES ASSUME node'[n].deleting, ~node[n].deleting
                 PROVE  instances[node[n].inst].state # "up"
    BY DEF LivesOn
  <1>2. gc.pc = "delete" /\ gc.cur \in Claims /\ node \in [Claims -> Node]
    BY DEF GCDelete, IInv, Types, Suspected
  <1>3. Registered(gc.cur) /\ deletePreconditions(gc.cur)
    BY <1>1 DEF GCDelete
  <1>4. n = gc.cur
    <2>1. node' = [node EXCEPT ![gc.cur].deleting = TRUE, ![gc.cur].rev = @ + 1]
      BY <1>3 DEF GCDelete
    <2>2. n # gc.cur => node'[n] = node[n]
      BY <1>2, <2>1
    <2> QED BY <1>1, <2>2
  <1>5. gc.view[n].uid = node[n].uid /\ node[n].inst # None
    BY <1>3, <1>4 DEF Registered, deletePreconditions
  <1>6. node[n].inst = gc.view[n].inst
    BY <1>5 DEF IInv, Copied, Follows
  <1>7. instances[gc.view[n].inst].state = "gone"
    BY <1>2, <1>4 DEF IInv, Suspected
  <1> QED BY <1>6, <1>7

\* No other step of garbage collection deletes a Node.
LEMMA NodesLiveOn ==
  ASSUME IInv, [Next]_vars, NEW n \in Claims
  PROVE  LivesOn(n)
  <1>1. CASE UNCHANGED node \/ UNCHANGED gc
    BY <1>1 DEF LivesOn
  <1>2. CASE GCNext
    <2>1. GCDelete \/ UNCHANGED node
      BY <1>2 DEF GCNext, GCList, GCListClaims, GCListNodes, GCConfirmed, GCVerify, GCDone,
                  GCInventory, GCConfirm, GCRecheck
    <2> QED BY <1>1, <2>1, DeletedNodeIsDead
  <1>3. CASE GCError
    BY <1>1, <1>3 DEF GCError
  <1>4. CASE OCNext
    BY <1>1, <1>4 DEF OCNext, getAllVPCInstances, OCListNodes, OCListClaims, OCConfirm, OCReclaim,
                      OCRenode, OCDelete, OCDone, OCPick, OCFrame
  <1>5. CASE OCError
    BY <1>1, <1>5 DEF OCError, OCFrame
  <1>6. CASE EnvNext
    BY <1>1, <1>6 DEF EnvNext, Tick, Launch, Tag, Publish, Register, CloudGone, ClaimGone,
                      ForceDelete, Unready, Ready, DeleteNode, NodeGone, Restart, EnvFrame
  <1> QED BY <1>1, <1>2, <1>3, <1>4, <1>5, <1>6 DEF Next, vars

\* What orphan cleanup is about to delete is an orphan.
LEMMA DeletedInstanceIsOrphan ==
  ASSUME IInv, NEW i \in Instances, oc.pc = "delete", oc.cur = i
  PROVE  ~claims[Owner[i]].exists /\ ownsTags(i) /\ OldEnough(i)
  BY DEF IInv, Orphaned

\* Neither controller deletes what is not orphaned: garbage collection deletes
\* no Node of an instance that exists, whatever it and the kubelets, users and
\* restarts did since it read the Node, and orphan cleanup deletes only an
\* instance with this cluster's tags that is older than the timeout and whose
\* claim is gone.
THEOREM OnlyOrphansAreDeleted == Spec => OnlyOrphansGo
  <1>1. Init => IInv
    BY InitInv
  <1>2. IInv /\ [Next]_vars => IInv'
    BY NextInv
  <1>3. IInv => TypeOK
    BY InvTypes
  <1>4. IInv /\ [Next]_vars =>
          [\A n \in Claims :
             node'[n].deleting /\ ~node[n].deleting /\ gc' # gc
             => instances[node[n].inst].state # "up"]_vars
    BY NodesLiveOn DEF LivesOn
  <1>5. IInv /\ [Next]_vars =>
          [\A i \in Instances :
             oc.pc = "delete" /\ oc.cur = i /\ instances[i].state = "up"
                /\ instances'[i].state = "gone" /\ oc' # oc
             => ~claims[Owner[i]].exists /\ ownsTags(i) /\ OldEnough(i)]_vars
    BY DeletedInstanceIsOrphan
  <1> QED BY <1>1, <1>2, <1>3, <1>4, <1>5, PTL
          DEF Spec, OnlyOrphansGo, LiveNodeIsKept, OnlyOrphansDeleted

=============================================================================
