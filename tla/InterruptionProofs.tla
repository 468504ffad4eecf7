------------------------ MODULE InterruptionProofs ------------------------
(***************************************************************************)
(* Proofs about the interruption controller, for any set of Nodes, however *)
(* many signals come and go and however often a Node is replaced.          *)
(*                                                                         *)
(* The controller acts on copies of a Node that may be stale.  The         *)
(* argument is that copies are ordered: whatever the controller holds is   *)
(* an earlier version of what the informer will show and of what the API   *)
(* server has, a later version of the same object keeps its marks, and two *)
(* copies of the same version are equal.  A write that passes its          *)
(* precondition was therefore computed from the object that it replaces.   *)
(***************************************************************************)
EXTENDS Interruption, TLAPS

\* The proofs need hardly any arithmetic; a leaf that does says so.
USE ZenonT(90)

\* What is true of every Node object and of every copy of one.
Sound(o) ==
    /\ o.exists => o.uid > 0
    /\ isNodeInterrupted(o) => o.ever
    /\ o.cordoned => o.ever
    /\ o.completed => o.cordoned /\ (o.mode = "vpc" => o.deleting)

\* The copy o is not newer than p: p replaced it under its name, or is a later
\* version of it, or is gone.
Before(o, p) ==
    \/ o.uid < p.uid
    \/ /\ o.uid = p.uid
       /\ p.exists =>
             /\ o.exists /\ o.rev <= p.rev /\ o.mode = p.mode
             /\ o.ever => p.ever
             /\ o.cordoned => p.cordoned
             /\ o.deleting => p.deleting
             /\ o.rev = p.rev => o = p

Steps == {"idle", "loop", "cordon", "patch", "delete", "mark", "record"}

Ctls == [pc : Steps, listed : [Names -> Nodes], name : Names \cup {None}, seen : Nodes,
         cur : Nodes]

\* The variables have their types.
Typed ==
    /\ node \in [Names -> Nodes] /\ cache \in [Names -> Nodes]
    /\ unavailable \subseteq Names /\ signals \in 0..MaxSignals
    /\ ctl \in Ctls

\* The informer shows earlier versions of the objects in the API server, and the
\* controller has listed earlier versions still.
Copies ==
    \A n \in Names :
        /\ Sound(node[n]) /\ Sound(cache[n]) /\ Sound(ctl.listed[n])
        /\ Before(cache[n], node[n]) /\ Before(ctl.listed[n], cache[n])

\* The Node that is handled carried a signal, and so does what became of it; and
\* it is marked as handled only when it has been cordoned and, in VPC mode,
\* deleted.
Handling ==
    /\ ctl.pc \notin {"idle", "loop"} =>
          ctl.name \in Names /\ ctl.seen.ever /\ Before(ctl.seen, cache[ctl.name])
    /\ ctl.pc \in {"patch", "delete", "record"} =>
          /\ ctl.cur.uid = ctl.seen.uid /\ ctl.cur.exists
          /\ Sound(ctl.cur) /\ Before(ctl.cur, node[ctl.name])
    /\ ctl.pc = "delete" => ctl.cur.cordoned
    /\ ctl.pc \in {"mark", "record"} =>
          LET o == node[ctl.name]
          IN  o.exists /\ o.uid = ctl.seen.uid =>
                 o.cordoned /\ (o.mode = "vpc" => o.deleting)

IInv == Typed /\ Copies /\ Handling

-----------------------------------------------------------------------------
(* Copies of a Node *)

\* The order of copies is transitive.
LEMMA BeforeTransitive ==
    ASSUME NEW o \in Nodes, NEW p \in Nodes, NEW q \in Nodes, Before(o, p), Before(p, q)
    PROVE  Before(o, q)
<1>1. /\ o.uid \in Nat /\ p.uid \in Nat /\ q.uid \in Nat
      /\ o.rev \in Nat /\ p.rev \in Nat /\ q.rev \in Nat
  BY SMTT(90), InterruptionAssumption DEF Nodes
<1>2. CASE o.uid < p.uid \/ p.uid < q.uid
  BY SMTT(90), <1>1, <1>2 DEF Before
<1>3. CASE o.uid = p.uid /\ p.uid = q.uid
  BY SMTT(90), <1>1, <1>3 DEF Before
<1> QED BY <1>1, <1>2, <1>3 DEF Before

\* A copy is not newer than itself.
LEMMA BeforeItself ==
    ASSUME NEW o \in Nodes
    PROVE  Before(o, o)
BY SMTT(90) DEF Before, Nodes

\* What Before says of an object that still exists.
LEMMA SameObject ==
    ASSUME NEW o \in Nodes, NEW p \in Nodes, Before(o, p), p.exists, o.uid = p.uid
    PROVE  /\ o.exists /\ o.mode = p.mode
           /\ o.ever => p.ever
           /\ o.cordoned => p.cordoned
           /\ o.deleting => p.deleting
           /\ o.rev = p.rev => o = p
<1>1. ~(o.uid < p.uid)
  BY SMTT(90), InterruptionAssumption DEF Nodes
<1> QED BY <1>1 DEF Before

\* The absent Node is a sound object, before everything.
LEMMA NoNodeFacts ==
    /\ NoNode \in Nodes /\ Sound(NoNode) /\ ~isNodeInterrupted(NoNode)
    /\ \A o \in Nodes : Sound(o) => Before(NoNode, o)
<1>1. NoNode \in Nodes /\ NoNode.uid = 0
  BY SMTT(90), InterruptionAssumption DEF NoNode, Nodes, Reasons
<1>2. Sound(NoNode) /\ ~isNodeInterrupted(NoNode)
  BY DEF NoNode, Sound, isNodeInterrupted, checkCapacitySignals
<1>3. ASSUME NEW o \in Nodes, Sound(o) PROVE Before(NoNode, o)
  <2>1. o.uid \in Nat /\ (o.exists => o.uid > 0)
    BY SMTT(90), <1>3, InterruptionAssumption DEF Nodes, Sound
  <2> QED BY SMTT(90), <1>1, <2>1 DEF Before
<1> QED BY <1>1, <1>2, <1>3

\* A version is the one that a precondition names only if it is that version.
LEMMA Unchanged ==
    ASSUME Typed, NEW n \in Names, NEW o \in Nodes, Before(o, node[n]), Same(n, o)
    PROVE  o = node[n]
<1>1. node[n] \in Nodes /\ node[n].exists /\ o.uid = node[n].uid /\ o.rev = node[n].rev
  BY DEF Typed, Same
<1> QED BY <1>1, SameObject

-----------------------------------------------------------------------------
(* Steps that change a Node *)

\* Every object is replaced by a later one.
Evolves == \A n \in Names : Sound(node'[n]) /\ Before(node[n], node'[n])

\* The controller's knowledge remains earlier than what the API server has.
LEMMA EvolvesCopies ==
    ASSUME IInv, node' \in [Names -> Nodes], Evolves, cache' = cache, ctl'.listed = ctl.listed
    PROVE  Copies'
<1>1. \A n \in Names : node[n] \in Nodes /\ node'[n] \in Nodes /\ cache[n] \in Nodes
  BY DEF IInv, Typed
<1>2. ASSUME NEW n \in Names PROVE Before(cache[n], node'[n])
  BY <1>1, BeforeTransitive DEF Evolves, IInv, Copies
<1> QED BY <1>2 DEF IInv, Copies, Evolves

\* What is known of the Node that is handled.
LEMMA Known ==
    ASSUME IInv, ctl.pc \notin {"idle", "loop"}
    PROVE  /\ ctl.name \in Names /\ ctl.seen \in Nodes /\ ctl.cur \in Nodes /\ ctl.seen.ever
           /\ node[ctl.name] \in Nodes /\ cache[ctl.name] \in Nodes
           /\ Sound(node[ctl.name]) /\ Sound(cache[ctl.name])
           /\ Before(ctl.seen, cache[ctl.name]) /\ Before(cache[ctl.name], node[ctl.name])
           /\ Before(ctl.seen, node[ctl.name])
<1>1. ctl.name \in Names /\ ctl.seen.ever /\ Before(ctl.seen, cache[ctl.name])
  BY DEF IInv, Handling
<1>2. ctl.seen \in Nodes /\ ctl.cur \in Nodes
  BY DEF IInv, Typed, Ctls
<1>3. /\ node[ctl.name] \in Nodes /\ cache[ctl.name] \in Nodes
      /\ Sound(node[ctl.name]) /\ Sound(cache[ctl.name])
      /\ Before(cache[ctl.name], node[ctl.name])
  BY <1>1 DEF IInv, Typed, Copies
<1> QED BY <1>1, <1>2, <1>3, BeforeTransitive

\* What was done to the Node that is handled stays done.
LEMMA EvolvesKeeps ==
    ASSUME IInv, node' \in [Names -> Nodes], Evolves, UNCHANGED <<cache, ctl>>
    PROVE  Copies' /\ Handling'
<1>1. Copies'
  BY EvolvesCopies
<1>2. ctl.pc \in {"patch", "delete", "record"} => Before(ctl.cur, node'[ctl.name])
  <2> SUFFICES ASSUME ctl.pc \in {"patch", "delete", "record"}
               PROVE  Before(ctl.cur, node'[ctl.name])
    OBVIOUS
  <2>1. ctl.name \in Names /\ ctl.cur \in Nodes /\ node[ctl.name] \in Nodes
    BY Known
  <2>2. Before(ctl.cur, node[ctl.name])
    BY DEF IInv, Handling
  <2> QED BY <2>1, <2>2, BeforeTransitive DEF Evolves
<1>3. ASSUME ctl.pc \in {"mark", "record"}, node'[ctl.name].exists,
             node'[ctl.name].uid = ctl.seen.uid
      PROVE  /\ node'[ctl.name].cordoned
             /\ node'[ctl.name].mode = "vpc" => node'[ctl.name].deleting
  <2> DEFINE o == node[ctl.name]
             p == node'[ctl.name]
  <2>1. o.exists /\ o.uid = ctl.seen.uid => o.cordoned /\ (o.mode = "vpc" => o.deleting)
    BY <1>3 DEF IInv, Handling
  <2>2. /\ ctl.name \in Names /\ ctl.seen \in Nodes
        /\ o \in Nodes /\ p \in Nodes /\ Before(o, p) /\ Before(ctl.seen, o)
    BY <1>3, Known DEF Evolves
  <2>3. o.uid = p.uid
    BY SMTT(90), <1>3, <2>2, InterruptionAssumption DEF Before, Nodes
  <2> QED BY <1>3, <2>1, <2>2, <2>3, SameObject
<1>4. Handling'
  BY <1>2, <1>3 DEF IInv, Handling
<1> QED BY <1>1, <1>4

\* One object changes.
LEMMA EvolvesOne ==
    ASSUME IInv, NEW n \in Names, NEW o \in Nodes, Sound(o), Before(node[n], o),
           node' = [node EXCEPT ![n] = o]
    PROVE  node' \in [Names -> Nodes] /\ Evolves /\ node'[n] = o
<1>1. node \in [Names -> Nodes] /\ \A m \in Names : Sound(node[m])
  BY DEF IInv, Typed, Copies
<1>2. node'[n] = o /\ \A m \in Names : m # n => node'[m] = node[m]
  BY <1>1
<1>3. Evolves
  BY <1>1, <1>2, BeforeItself DEF Evolves
<1> QED BY <1>1, <1>2, <1>3

\* IBM Cloud, the kubelet and core replace a Node by a later one.
LEMMA SignalInv ==
    ASSUME IInv, NEW n \in Names, NEW s \in Reasons, NEW m \in BOOLEAN, Signal(n, s, m)
    PROVE  IInv'
<1> DEFINE o == [node[n] EXCEPT !.status = s, !.maintenance = m]
           i == node[n].ever \/ isNodeInterrupted(o)
           p == [o EXCEPT !.rev = node[n].rev + 1, !.ever = i]
<1>1. node[n] \in Nodes /\ Sound(node[n]) /\ Before(node[n], node[n])
  BY BeforeItself DEF IInv, Typed, Copies
<1>2. /\ o \in Nodes /\ o.uid = node[n].uid /\ o.rev = node[n].rev /\ o.mode = node[n].mode
      /\ o.ever = node[n].ever /\ o.cordoned = node[n].cordoned
      /\ o.deleting = node[n].deleting /\ o.exists = node[n].exists
      /\ o.completed = node[n].completed
  BY <1>1 DEF Nodes
<1>3. i \in BOOLEAN /\ (isNodeInterrupted(o) => i) /\ (node[n].ever => i)
  <2>1. node[n].ever \in BOOLEAN
    BY <1>1 DEF Nodes
  <2> QED BY <2>1
<1>4. /\ node' = [node EXCEPT ![n] = p]
      /\ signals' = signals + 1 /\ signals < MaxSignals
      /\ UNCHANGED <<cache, unavailable, ctl>>
  BY <1>2 DEF Signal, EnvFrame
<1> HIDE DEF i
<1>5. isNodeInterrupted(p) <=> isNodeInterrupted(o)
  <2>1. p.status = o.status /\ p.maintenance = o.maintenance /\ p.completed = o.completed
    BY <1>2, <1>3 DEF Nodes
  <2> HIDE DEF o, p
  <2> QED BY <2>1 DEF isNodeInterrupted, checkCapacitySignals
<1> HIDE DEF o
<1>6. /\ p \in Nodes /\ p.uid = node[n].uid /\ p.rev = node[n].rev + 1 /\ p.mode = node[n].mode
      /\ p.ever = i /\ p.cordoned = node[n].cordoned /\ p.deleting = node[n].deleting
      /\ p.exists = node[n].exists /\ p.completed = node[n].completed
      /\ node[n].rev \in Nat
  <2>1. node[n].rev \in Nat /\ node[n].rev + 1 \in Nat
    BY SMTT(90), <1>1 DEF Nodes
  <2> QED BY <1>2, <1>3, <2>1 DEF Nodes
<1> HIDE DEF p
<1>7. Sound(p) /\ Before(node[n], p)
  BY SMTT(90), <1>1, <1>3, <1>5, <1>6 DEF Sound, Before
<1>8. node' \in [Names -> Nodes] /\ Evolves
  BY <1>4, <1>6, <1>7, EvolvesOne
<1>9. Typed'
  BY SMTT(90), <1>4, <1>8, InterruptionAssumption DEF IInv, Typed
<1> QED BY <1>4, <1>8, <1>9, EvolvesKeeps DEF IInv

\* A new Node has a new identity.
LEMMA RegisterInv ==
    ASSUME IInv, NEW n \in Names, Register(n)
    PROVE  IInv'
<1>1. node[n] \in Nodes /\ node[n].uid < MaxUID /\ node[n].uid + 1 \in 0..MaxUID
      /\ node[n].uid \in Nat
  BY SMTT(90), InterruptionAssumption DEF IInv, Typed, Register, Nodes
<1>2. PICK m \in {"vpc", "iks"} :
         node' = [node EXCEPT ![n] = [NoNode EXCEPT !.uid = node[n].uid + 1, !.exists = TRUE,
                                                    !.mode = m]]
  BY DEF Register
<1>3. UNCHANGED <<cache, unavailable, ctl, signals>>
  BY DEF Register, EnvFrame
<1> DEFINE p == [NoNode EXCEPT !.uid = node[n].uid + 1, !.exists = TRUE, !.mode = m]
<1>4. /\ p \in Nodes /\ p.uid = node[n].uid + 1 /\ ~p.cordoned /\ ~p.completed
      /\ p.status = "none" /\ ~p.maintenance
  BY <1>1 DEF NoNode, Nodes, Reasons
<1> HIDE DEF p
<1>5. Sound(p) /\ Before(node[n], p)
  BY SMTT(90), <1>1, <1>4 DEF Sound, Before, isNodeInterrupted, checkCapacitySignals
<1>6. node' \in [Names -> Nodes] /\ Evolves
  BY <1>2, <1>4, <1>5, EvolvesOne DEF p
<1>7. Typed'
  BY <1>3, <1>6 DEF IInv, Typed
<1> QED BY <1>3, <1>6, <1>7, EvolvesKeeps DEF IInv

\* A Node that is gone keeps the identity that was used.
LEMMA NodeGoneInv ==
    ASSUME IInv, NEW n \in Names, NodeGone(n)
    PROVE  IInv'
<1> DEFINE p == [NoNode EXCEPT !.uid = node[n].uid]
<1>1. node[n] \in Nodes /\ node[n].uid \in 0..MaxUID
  BY DEF IInv, Typed, Nodes
<1>2. node' = [node EXCEPT ![n] = p] /\ UNCHANGED <<cache, unavailable, ctl, signals>>
  BY DEF NodeGone, EnvFrame
<1>3. /\ p \in Nodes /\ p.uid = node[n].uid /\ ~p.cordoned /\ ~p.completed /\ ~p.exists
      /\ p.status = "none" /\ ~p.maintenance
  BY <1>1, InterruptionAssumption DEF NoNode, Nodes, Reasons
<1> HIDE DEF p
<1>4. Sound(p) /\ Before(node[n], p)
  BY <1>3 DEF Sound, Before, isNodeInterrupted, checkCapacitySignals
<1>5. node' \in [Names -> Nodes] /\ Evolves
  BY <1>2, <1>3, <1>4, EvolvesOne
<1>6. Typed'
  BY <1>2, <1>5 DEF IInv, Typed
<1> QED BY <1>2, <1>5, <1>6, EvolvesKeeps DEF IInv

\* The informer shows a later version than before.
LEMMA SyncInv ==
    ASSUME IInv, NEW n \in Names, Sync(n)
    PROVE  IInv'
<1>1. /\ cache' = [cache EXCEPT ![n] = node[n]] /\ UNCHANGED <<node, unavailable, ctl, signals>>
      /\ cache \in [Names -> Nodes] /\ node \in [Names -> Nodes]
      /\ ctl.listed \in [Names -> Nodes] /\ ctl.seen \in Nodes
  BY DEF Sync, EnvFrame, IInv, Typed, Ctls
<1>2. cache' \in [Names -> Nodes] /\ \A m \in Names : cache'[m] = cache[m] \/ cache'[m] = node[m]
  BY <1>1
<1>3. Typed'
  BY <1>1, <1>2 DEF IInv, Typed
<1>4. ASSUME NEW m \in Names
      PROVE  /\ Sound(cache'[m]) /\ Before(cache[m], cache'[m]) /\ Before(cache'[m], node[m])
             /\ cache[m] \in Nodes /\ cache'[m] \in Nodes
  BY <1>1, <1>2, BeforeItself DEF IInv, Copies
<1>5. ASSUME NEW m \in Names PROVE Before(ctl.listed[m], cache'[m])
  BY <1>1, <1>4, BeforeTransitive DEF IInv, Copies
<1>6. Copies'
  BY <1>1, <1>4, <1>5 DEF IInv, Copies
<1>7. ctl.pc \notin {"idle", "loop"} => Before(ctl.seen, cache'[ctl.name])
  BY <1>1, <1>4, BeforeTransitive DEF IInv, Handling
<1>8. Handling'
  BY <1>1, <1>7 DEF IInv, Handling
<1> QED BY <1>3, <1>6, <1>8 DEF IInv

-----------------------------------------------------------------------------
(* Steps of the controller *)

\* A step that changes no more of the reconcile than where it is, and what it has
\* read last.
LEMMA GoesTo ==
    ASSUME ctl \in Ctls, NEW p \in Steps, NEW o \in Nodes,
           \/ ctl' = [ctl EXCEPT !.pc = p] /\ o = ctl.cur
           \/ ctl' = [ctl EXCEPT !.cur = o, !.pc = p]
    PROVE  /\ ctl' \in Ctls /\ ctl'.pc = p /\ ctl'.cur = o
           /\ ctl'.listed = ctl.listed /\ ctl'.name = ctl.name /\ ctl'.seen = ctl.seen
<1>1. CASE ctl' = [ctl EXCEPT !.pc = p] /\ o = ctl.cur
  BY <1>1 DEF Ctls
<1>2. CASE ctl' = [ctl EXCEPT !.cur = o, !.pc = p]
  BY <1>2 DEF Ctls
<1> QED BY <1>1, <1>2

\* The Nodes are listed, or the loop over them is over.
LEMMA ListInv ==
    ASSUME IInv, List \/ Done
    PROVE  IInv'
<1>1. UNCHANGED <<node, cache, unavailable, signals>>
  BY DEF List, Done, Frame
<1>2. /\ Idle \in Ctls /\ Idle.pc = "idle"
      /\ \A n \in Names : Idle.listed[n] = NoNode
  BY NoNodeFacts DEF Idle, Ctls, Steps
<1>3. cache \in [Names -> Nodes] /\ \A n \in Names : Sound(cache[n]) /\ Before(cache[n], cache[n])
  BY BeforeItself DEF IInv, Typed, Copies
<1>4. CASE List
  <2>1. ctl' = [Idle EXCEPT !.pc = "loop", !.listed = cache]
    BY <1>4 DEF List
  <2>2. ctl' \in Ctls /\ ctl'.pc = "loop" /\ ctl'.listed = cache
    BY <1>2, <1>3, <2>1 DEF Ctls, Steps
  <2> QED BY <1>1, <1>3, <2>2 DEF IInv, Typed, Copies, Handling
<1>5. CASE Done
  <2>1. ctl' = Idle
    BY <1>5 DEF Done
  <2> QED BY <1>1, <1>2, <1>3, <2>1, NoNodeFacts DEF IInv, Typed, Copies, Handling
<1> QED BY <1>4, <1>5

\* The Node that is taken up carried a signal when it was listed.
LEMMA HandleInv ==
    ASSUME IInv, NEW n \in Names, handleInterruption(n)
    PROVE  IInv'
<1> DEFINE o == ctl.listed[n]
           l == [ctl.listed EXCEPT ![n] = NoNode]
<1>1. /\ UNCHANGED <<node, cache, signals>> /\ isNodeInterrupted(o)
      /\ unavailable' \subseteq unavailable \cup {n}
  BY DEF handleInterruption, Frame
<1>2. /\ ctl \in Ctls /\ ctl.listed \in [Names -> Nodes] /\ o \in Nodes
      /\ Sound(o) /\ Before(o, cache[n])
  BY DEF IInv, Typed, Copies, Ctls
<1>3. l \in [Names -> Nodes] /\ \A m \in Names : l[m] = ctl.listed[m] \/ l[m] = NoNode
  BY <1>2, NoNodeFacts
<1>4. ctl' = [ctl EXCEPT !.pc = "cordon", !.listed = l, !.name = n, !.seen = o]
  BY <1>2 DEF handleInterruption, Ctls
<1> HIDE DEF o, l
<1>5. /\ ctl' \in Ctls /\ ctl'.pc = "cordon" /\ ctl'.listed = l /\ ctl'.name = n /\ ctl'.seen = o
  BY <1>2, <1>3, <1>4 DEF Ctls, Steps
<1>6. Typed'
  BY <1>1, <1>5 DEF IInv, Typed
<1>7. Copies'
  <2>1. \A m \in Names : cache[m] \in Nodes /\ Sound(cache[m])
    BY DEF IInv, Typed, Copies
  <2>2. \A m \in Names : Sound(l[m]) /\ Before(l[m], cache[m])
    BY <1>3, <2>1, NoNodeFacts DEF IInv, Copies
  <2> QED BY <1>1, <1>5, <2>2 DEF IInv, Copies
<1>8. Handling'
  BY <1>1, <1>2, <1>5 DEF Handling, Sound
<1> QED BY <1>6, <1>7, <1>8 DEF IInv

\* A Node that the informer shows as gone has lost its identity for good.
LEMMA GoneIsGone ==
    ASSUME IInv, ctl.pc \notin {"idle", "loop"}, ~cache[ctl.name].exists
    PROVE  ~(node[ctl.name].exists /\ node[ctl.name].uid = ctl.seen.uid)
<1> DEFINE o == cache[ctl.name]
           p == node[ctl.name]
<1>1. /\ ctl.seen \in Nodes /\ o \in Nodes /\ p \in Nodes
      /\ Before(ctl.seen, o) /\ Before(o, p)
  BY Known
<1> SUFFICES ASSUME p.exists, p.uid = ctl.seen.uid PROVE FALSE
  OBVIOUS
<1>2. o.uid = p.uid
  BY SMTT(90), <1>1, InterruptionAssumption DEF Before, Nodes
<1> QED BY <1>1, <1>2, SameObject

\* cordon goes on with a version of the Node that was listed.
LEMMA CordonInv ==
    ASSUME IInv, cordon
    PROVE  IInv'
<1> DEFINE o == cache[ctl.name]
           p == node[ctl.name]
<1>1. /\ ctl.pc = "cordon" /\ UNCHANGED <<node, cache, unavailable, signals>>
      /\ ctl' = IF ~o.exists THEN [ctl EXCEPT !.pc = "mark"]
                ELSE IF o.uid # ctl.seen.uid THEN [ctl EXCEPT !.pc = "loop"]
                ELSE [ctl EXCEPT !.cur = o, !.pc = IF o.cordoned THEN Follows ELSE "patch"]
  BY DEF cordon, Frame
<1>2. /\ ctl \in Ctls /\ ctl.name \in Names /\ ctl.seen \in Nodes /\ ctl.cur \in Nodes
      /\ ctl.seen.ever /\ o \in Nodes /\ p \in Nodes /\ Sound(o)
      /\ Before(ctl.seen, o) /\ Before(o, p) /\ Before(ctl.seen, p)
  BY <1>1, Known DEF IInv, Typed
<1>3. CASE ~o.exists
  <2>1. ctl' = [ctl EXCEPT !.pc = "mark"] /\ "mark" \in Steps
    BY <1>1, <1>3 DEF Steps
  <2>2. /\ ctl' \in Ctls /\ ctl'.pc = "mark"
        /\ ctl'.listed = ctl.listed /\ ctl'.name = ctl.name /\ ctl'.seen = ctl.seen
    BY <1>2, <2>1, GoesTo
  <2>3. ~(p.exists /\ p.uid = ctl.seen.uid)
    BY <1>1, <1>3, GoneIsGone
  <2> QED BY <1>1, <1>2, <2>2, <2>3 DEF IInv, Typed, Copies, Handling
<1>4. CASE o.exists /\ o.uid # ctl.seen.uid
  <2>1. ctl' = [ctl EXCEPT !.pc = "loop"] /\ "loop" \in Steps
    BY <1>1, <1>4 DEF Steps
  <2>2. ctl' \in Ctls /\ ctl'.pc = "loop" /\ ctl'.listed = ctl.listed
    BY <1>2, <2>1, GoesTo
  <2> QED BY <1>1, <2>2 DEF IInv, Typed, Copies, Handling
<1>5. CASE o.exists /\ o.uid = ctl.seen.uid
  <2> DEFINE q == IF o.cordoned THEN Follows ELSE "patch"
  <2>1. /\ q \in {"patch", "delete", "mark"}
        /\ q = "delete" => o.cordoned
        /\ q = "mark" => o.cordoned /\ ctl.seen.mode = "iks"
    BY DEF Follows
  <2>2. ctl' = [ctl EXCEPT !.cur = o, !.pc = q]
    BY <1>1, <1>5
  <2> HIDE DEF q
  <2>3. q \in Steps
    BY <2>1 DEF Steps
  <2>4. /\ ctl' \in Ctls /\ ctl'.pc = q /\ ctl'.cur = o
        /\ ctl'.listed = ctl.listed /\ ctl'.name = ctl.name /\ ctl'.seen = ctl.seen
    BY <1>2, <2>2, <2>3, GoesTo
  <2>5. q = "mark" /\ p.exists /\ p.uid = ctl.seen.uid => p.cordoned /\ p.mode = "iks"
    BY <1>2, <1>5, <2>1, SameObject
  <2>6. Handling'
    BY <1>1, <1>2, <1>5, <2>1, <2>4, <2>5 DEF Handling
  <2> QED BY <1>1, <2>4, <2>6 DEF IInv, Typed, Copies
<1> QED BY <1>3, <1>4, <1>5

\* What the write of a Node by the controller amounts to, if the version that it
\* was computed from is still there: a later version of the same object.
LEMMA WritesLater ==
    ASSUME IInv, ctl.pc \in {"patch", "delete", "record"}, Same(ctl.name, ctl.cur)
    PROVE  /\ ctl.cur = node[ctl.name] /\ ctl.cur.ever
           /\ ctl.cur.exists /\ ctl.cur.uid = ctl.seen.uid /\ ctl.cur.mode = ctl.seen.mode
           /\ ctl.cur.rev \in Nat /\ ctl.cur.rev + 1 \in Nat
<1>1. /\ ctl.name \in Names /\ ctl.cur \in Nodes /\ ctl.seen \in Nodes /\ ctl.seen.ever
      /\ node[ctl.name] \in Nodes /\ Before(ctl.seen, node[ctl.name])
  BY Known
<1>2. ctl.cur.exists /\ ctl.cur.uid = ctl.seen.uid /\ Before(ctl.cur, node[ctl.name])
  BY DEF IInv, Handling
<1>3. ctl.cur = node[ctl.name]
  BY <1>1, <1>2, Unchanged DEF IInv
<1>4. ctl.cur.ever /\ ctl.cur.mode = ctl.seen.mode
  BY <1>1, <1>2, <1>3, SameObject
<1>5. ctl.cur.rev \in Nat /\ ctl.cur.rev + 1 \in Nat
  BY SMTT(90), <1>1 DEF Nodes
<1> QED BY <1>2, <1>3, <1>4, <1>5

\* The cordon is written on the object that was read.
LEMMA CordonPatchInv ==
    ASSUME IInv, cordonPatch
    PROVE  IInv'
<1> DEFINE o == [ctl.cur EXCEPT !.cordoned = TRUE, !.rev = @ + 1]
<1>1. ctl.pc = "patch" /\ UNCHANGED <<cache, unavailable, signals>>
  BY DEF cordonPatch, Frame
<1>2. /\ ctl \in Ctls /\ ctl.name \in Names /\ ctl.cur \in Nodes /\ ctl.seen \in Nodes
      /\ ctl.seen.ever /\ Before(ctl.seen, cache[ctl.name])
  BY <1>1, Known DEF IInv, Typed
<1>3. CASE Same(ctl.name, ctl.cur)
  <2>1. /\ node' = [node EXCEPT ![ctl.name] = o]
        /\ ctl' = [ctl EXCEPT !.cur = o, !.pc = Follows]
    BY <1>3 DEF cordonPatch
  <2>2. /\ ctl.cur = node[ctl.name] /\ ctl.cur.ever
        /\ ctl.cur.exists /\ ctl.cur.uid = ctl.seen.uid /\ ctl.cur.mode = ctl.seen.mode
        /\ ctl.cur.rev \in Nat /\ ctl.cur.rev + 1 \in Nat
    BY <1>1, <1>3, WritesLater
  <2>3. /\ o \in Nodes /\ o.uid = ctl.cur.uid /\ o.rev = ctl.cur.rev + 1 /\ o.cordoned
        /\ o.mode = ctl.cur.mode /\ o.ever = ctl.cur.ever /\ o.exists = ctl.cur.exists
        /\ o.deleting = ctl.cur.deleting /\ o.completed = ctl.cur.completed
    BY <1>2, <2>2 DEF Nodes
  <2>4. Sound(ctl.cur)
    BY <1>1 DEF IInv, Handling
  <2> HIDE DEF o
  <2>5. Sound(o) /\ Before(ctl.cur, o)
    BY SMTT(90), <2>2, <2>3, <2>4 DEF Sound, Before
  <2>6. node' \in [Names -> Nodes] /\ Evolves /\ node'[ctl.name] = o
    BY <1>2, <2>1, <2>2, <2>3, <2>5, EvolvesOne
  <2>7. /\ Follows \in {"delete", "mark"} /\ Follows \in Steps
        /\ Follows = "mark" => ctl.seen.mode = "iks"
    BY DEF Follows, Steps
  <2>8. /\ ctl' \in Ctls /\ ctl'.pc = Follows /\ ctl'.cur = o
        /\ ctl'.listed = ctl.listed /\ ctl'.name = ctl.name /\ ctl'.seen = ctl.seen
    BY <1>2, <2>1, <2>3, <2>7, GoesTo
  <2>9. Copies'
    BY <1>1, <2>6, <2>8, EvolvesCopies
  <2>10. Before(o, o)
    BY <2>3, BeforeItself
  <2>11. Handling'
    BY <1>1, <1>2, <2>2, <2>3, <2>5, <2>6, <2>7, <2>8, <2>10 DEF Handling
  <2> QED BY <1>1, <2>6, <2>8, <2>9, <2>11 DEF IInv, Typed
<1>4. CASE ~Same(ctl.name, ctl.cur)
  <2>1. PICK q \in {"cordon", "loop"} : ctl' = [ctl EXCEPT !.pc = q] /\ UNCHANGED node
    BY <1>4 DEF cordonPatch
  <2>2. /\ ctl' \in Ctls /\ ctl'.pc = q
        /\ ctl'.listed = ctl.listed /\ ctl'.name = ctl.name /\ ctl'.seen = ctl.seen
    BY <1>2, <2>1, GoesTo DEF Steps
  <2> QED BY <1>1, <1>2, <2>1, <2>2 DEF IInv, Typed, Copies, Handling
<1> QED BY <1>3, <1>4

\* The Node that is deleted is the cordoned one, and still interrupted.
LEMMA DeleteInv ==
    ASSUME IInv, deleteIfStillInterrupted
    PROVE  /\ IInv'
           /\ \A n \in Names : node'[n].deleting /\ ~node[n].deleting => isNodeInterrupted(node[n])
<1> DEFINE p == node[ctl.name]
<1>1. ctl.pc = "delete" /\ UNCHANGED <<cache, unavailable, signals>>
  BY DEF deleteIfStillInterrupted, Frame
<1>2. /\ ctl \in Ctls /\ ctl.name \in Names /\ ctl.cur \in Nodes /\ ctl.seen \in Nodes
      /\ ctl.seen.ever /\ Before(ctl.seen, cache[ctl.name]) /\ p \in Nodes
      /\ node \in [Names -> Nodes]
  BY <1>1, Known DEF IInv, Typed
<1>3. CASE ~isNodeInterrupted(ctl.cur)
  <2>1. ctl' = [ctl EXCEPT !.pc = "loop"] /\ UNCHANGED node
    BY <1>3 DEF deleteIfStillInterrupted
  <2>2. ctl' \in Ctls /\ ctl'.pc = "loop" /\ ctl'.listed = ctl.listed
    BY <1>2, <2>1, GoesTo DEF Steps
  <2> QED BY <1>1, <2>1, <2>2 DEF IInv, Typed, Copies, Handling
<1>4. CASE isNodeInterrupted(ctl.cur) /\ ~Same(ctl.name, ctl.cur)
  <2>1. /\ ctl' = [ctl EXCEPT !.pc = IF p.exists THEN "loop" ELSE "mark"]
        /\ UNCHANGED node
    BY <1>4 DEF deleteIfStillInterrupted
  <2> DEFINE q == IF p.exists THEN "loop" ELSE "mark"
  <2>2. q \in Steps /\ q \in {"loop", "mark"} /\ (q = "mark" => ~p.exists)
    BY DEF Steps
  <2>3. ctl' = [ctl EXCEPT !.pc = q]
    BY <2>1
  <2> HIDE DEF q
  <2>4. /\ ctl' \in Ctls /\ ctl'.pc = q
        /\ ctl'.listed = ctl.listed /\ ctl'.name = ctl.name /\ ctl'.seen = ctl.seen
    BY <1>2, <2>2, <2>3, GoesTo
  <2> QED BY <1>1, <1>2, <2>1, <2>2, <2>4 DEF IInv, Typed, Copies, Handling
<1>5. CASE isNodeInterrupted(ctl.cur) /\ Same(ctl.name, ctl.cur)
  <2> DEFINE o == [p EXCEPT !.deleting = TRUE, !.rev = p.rev + 1]
  <2>1. /\ \/ p.deleting /\ node' = node
           \/ ~p.deleting /\ node' = [node EXCEPT ![ctl.name] = o]
        /\ ctl' = [ctl EXCEPT !.pc = "mark"]
    BY <1>2, <1>5 DEF deleteIfStillInterrupted
  <2>2. /\ ctl.cur = p /\ p.exists /\ p.uid = ctl.seen.uid
        /\ p.rev \in Nat /\ p.rev + 1 \in Nat /\ p.cordoned /\ Sound(p)
    BY <1>1, <1>5, WritesLater DEF IInv, Handling
  <2>3. /\ o \in Nodes /\ o.uid = p.uid /\ o.rev = p.rev + 1 /\ o.deleting
        /\ o.mode = p.mode /\ o.ever = p.ever /\ o.exists = p.exists /\ o.cordoned = p.cordoned
        /\ o.completed = p.completed /\ o.status = p.status /\ o.maintenance = p.maintenance
    BY <1>2, <2>2 DEF Nodes
  <2> HIDE DEF o
  <2>4. Sound(o) /\ Before(p, o)
    BY SMTT(90), <2>2, <2>3 DEF Sound, Before, isNodeInterrupted, checkCapacitySignals
  <2>5. /\ node' \in [Names -> Nodes] /\ Evolves
        /\ node'[ctl.name].cordoned /\ node'[ctl.name].deleting
    <3>1. CASE p.deleting /\ node' = node
      BY <1>2, <2>2, <3>1, BeforeItself DEF Evolves, IInv, Copies
    <3>2. CASE node' = [node EXCEPT ![ctl.name] = o]
      <4>1. node' \in [Names -> Nodes] /\ Evolves /\ node'[ctl.name] = o
        BY <1>2, <2>3, <2>4, <3>2, EvolvesOne
      <4> QED BY <2>2, <2>3, <4>1
    <3> QED BY <2>1, <3>1, <3>2
  <2>6. /\ ctl' \in Ctls /\ ctl'.pc = "mark"
        /\ ctl'.listed = ctl.listed /\ ctl'.name = ctl.name /\ ctl'.seen = ctl.seen
    BY <1>2, <2>1, GoesTo DEF Steps
  <2>7. Copies'
    BY <1>1, <2>5, <2>6, EvolvesCopies
  <2>8. Handling'
    BY <1>1, <1>2, <2>5, <2>6 DEF Handling
  <2>9. \A n \in Names : n # ctl.name => node'[n] = node[n]
    BY <1>2, <2>1
  <2>10. isNodeInterrupted(p)
    BY <1>5, <2>2
  <2> QED BY <1>1, <2>5, <2>6, <2>7, <2>8, <2>9, <2>10 DEF IInv, Typed
<1> QED BY <1>3, <1>4, <1>5

\* markNodeAsInterrupted goes on with a version of the Node that was listed.
LEMMA MarkInv ==
    ASSUME IInv, markNodeAsInterrupted
    PROVE  IInv'
<1> DEFINE o == cache[ctl.name]
<1>1. /\ ctl.pc = "mark" /\ UNCHANGED <<node, cache, unavailable, signals>>
      /\ \/ ctl' = [ctl EXCEPT !.pc = "loop"]
         \/ /\ ctl' = [ctl EXCEPT !.cur = o, !.pc = "record"]
            /\ o.exists /\ o.uid = ctl.seen.uid
  BY DEF markNodeAsInterrupted, Frame
<1>2. /\ ctl \in Ctls /\ ctl.name \in Names /\ ctl.cur \in Nodes /\ ctl.seen \in Nodes
      /\ ctl.seen.ever /\ Before(ctl.seen, o) /\ o \in Nodes /\ Sound(o)
      /\ Before(o, node[ctl.name])
  BY <1>1, Known DEF IInv, Typed
<1>3. CASE ctl' = [ctl EXCEPT !.pc = "loop"]
  <2>1. ctl' \in Ctls /\ ctl'.pc = "loop" /\ ctl'.listed = ctl.listed
    BY <1>2, <1>3, GoesTo DEF Steps
  <2> QED BY <1>1, <2>1 DEF IInv, Typed, Copies, Handling
<1>4. CASE ctl' = [ctl EXCEPT !.cur = o, !.pc = "record"] /\ o.exists /\ o.uid = ctl.seen.uid
  <2>1. /\ ctl' \in Ctls /\ ctl'.pc = "record" /\ ctl'.cur = o
        /\ ctl'.listed = ctl.listed /\ ctl'.name = ctl.name /\ ctl'.seen = ctl.seen
    BY <1>2, <1>4, GoesTo DEF Steps
  <2> QED BY <1>1, <1>2, <1>4, <2>1 DEF IInv, Typed, Copies, Handling
<1> QED BY <1>1, <1>3, <1>4

\* What is marked as handled has been cordoned and, in VPC mode, deleted.
LEMMA MarkPatchInv ==
    ASSUME IInv, markPatch
    PROVE  IInv'
<1> DEFINE o == [ctl.cur EXCEPT !.completed = TRUE, !.rev = @ + 1]
<1>1. ctl.pc = "record" /\ UNCHANGED <<cache, unavailable, signals>>
  BY DEF markPatch, Frame
<1>2. /\ ctl \in Ctls /\ ctl.name \in Names /\ ctl.cur \in Nodes /\ ctl.seen \in Nodes
  BY <1>1, Known DEF IInv, Typed
<1>3. CASE Same(ctl.name, ctl.cur)
  <2>1. node' = [node EXCEPT ![ctl.name] = o] /\ ctl' = [ctl EXCEPT !.pc = "loop"]
    BY <1>3 DEF markPatch
  <2>2. /\ ctl.cur = node[ctl.name] /\ ctl.cur.exists /\ ctl.cur.uid = ctl.seen.uid
        /\ ctl.cur.rev \in Nat /\ ctl.cur.rev + 1 \in Nat
    BY <1>1, <1>3, WritesLater
  <2>3. /\ o \in Nodes /\ o.uid = ctl.cur.uid /\ o.rev = ctl.cur.rev + 1 /\ o.completed
        /\ o.cordoned = ctl.cur.cordoned /\ o.mode = ctl.cur.mode /\ o.ever = ctl.cur.ever
        /\ o.exists = ctl.cur.exists /\ o.deleting = ctl.cur.deleting
    BY <1>2, <2>2 DEF Nodes
  <2>4. /\ Sound(ctl.cur)
        /\ ctl.cur.cordoned /\ (ctl.cur.mode = "vpc" => ctl.cur.deleting)
    BY <1>1, <2>2 DEF IInv, Handling
  <2> HIDE DEF o
  <2>5. Sound(o) /\ Before(ctl.cur, o)
    BY SMTT(90), <2>2, <2>3, <2>4 DEF Sound, Before, isNodeInterrupted
  <2>6. node' \in [Names -> Nodes] /\ Evolves
    BY <1>2, <2>1, <2>2, <2>3, <2>5, EvolvesOne
  <2>7. ctl' \in Ctls /\ ctl'.pc = "loop" /\ ctl'.listed = ctl.listed
    BY <1>2, <2>1, GoesTo DEF Steps
  <2>8. Copies'
    BY <1>1, <2>6, <2>7, EvolvesCopies
  <2> QED BY <1>1, <2>6, <2>7, <2>8 DEF IInv, Typed, Handling
<1>4. CASE ~Same(ctl.name, ctl.cur)
  <2>1. PICK q \in {"mark", "loop"} : ctl' = [ctl EXCEPT !.pc = q] /\ UNCHANGED node
    BY <1>4 DEF markPatch
  <2>2. /\ ctl' \in Ctls /\ ctl'.pc = q
        /\ ctl'.listed = ctl.listed /\ ctl'.name = ctl.name /\ ctl'.seen = ctl.seen
    BY <1>2, <2>1, GoesTo DEF Steps
  <2> QED BY <1>1, <2>1, <2>2 DEF IInv, Typed, Copies, Handling
<1> QED BY <1>3, <1>4

-----------------------------------------------------------------------------
(* The theorem *)

\* The first state has no Node.
LEMMA InitInv == Init => IInv
<1> SUFFICES ASSUME Init PROVE IInv
  OBVIOUS
<1>1. /\ node = [n \in Names |-> NoNode] /\ cache = [n \in Names |-> NoNode]
      /\ unavailable = {} /\ ctl = Idle /\ signals = 0
  BY DEF Init
<1>2. /\ Idle \in Ctls /\ Idle.pc = "idle"
      /\ \A n \in Names : Idle.listed[n] = NoNode
  BY NoNodeFacts DEF Idle, Ctls, Steps
<1>3. Typed
  BY SMTT(90), <1>1, <1>2, NoNodeFacts, InterruptionAssumption DEF Typed
<1> QED BY <1>1, <1>2, <1>3, NoNodeFacts DEF IInv, Copies, Handling

\* Every step keeps the inductive invariant.
LEMMA NextInv == IInv /\ [Next]_vars => IInv'
<1> SUFFICES ASSUME IInv, [Next]_vars PROVE IInv'
  OBVIOUS
<1>1. CASE ControllerNext
  BY <1>1, ListInv, CordonInv, CordonPatchInv, DeleteInv, MarkInv, MarkPatchInv, HandleInv
  DEF ControllerNext
<1>2. ASSUME NEW n \in Names, Register(n) \/ NodeGone(n) \/ Sync(n) PROVE IInv'
  BY <1>2, RegisterInv, NodeGoneInv, SyncInv
<1>3. ASSUME NEW n \in Names, NEW s \in Reasons, NEW m \in BOOLEAN, Signal(n, s, m) PROVE IInv'
  BY <1>3, SignalInv
<1>4. CASE UNCHANGED vars
  BY <1>4 DEF vars, IInv, Typed, Copies, Handling
<1> QED BY <1>1, <1>2, <1>3, <1>4 DEF Next

\* No step but the deletion by the controller sets a deletion timestamp.
LEMMA OnlyDeleteDeletes ==
    ASSUME IInv, [Next]_vars, NEW n \in Names, node'[n].deleting, ~node[n].deleting
    PROVE  isNodeInterrupted(node[n])
<1>1. node \in [Names -> Nodes] /\ node[n] \in Nodes
  BY DEF IInv, Typed
<1>2. CASE deleteIfStillInterrupted
  BY <1>2, DeleteInv
<1>3. CASE cordonPatch
  <2>1. CASE Same(ctl.name, ctl.cur)
    <3>1. /\ node' = [node EXCEPT ![ctl.name] = [ctl.cur EXCEPT !.cordoned = TRUE, !.rev = @ + 1]]
          /\ ctl.pc = "patch"
      BY <1>3, <2>1 DEF cordonPatch
    <3>2. ctl.cur = node[ctl.name]
      BY <2>1, <3>1, WritesLater
    <3> QED BY <1>1, <3>1, <3>2 DEF Nodes
  <2>2. CASE ~Same(ctl.name, ctl.cur)
    BY <1>3, <2>2 DEF cordonPatch
  <2> QED BY <2>1, <2>2
<1>4. CASE markPatch
  <2>1. CASE Same(ctl.name, ctl.cur)
    <3>1. /\ node' = [node EXCEPT ![ctl.name] = [ctl.cur EXCEPT !.completed = TRUE, !.rev = @ + 1]]
          /\ ctl.pc = "record"
      BY <1>4, <2>1 DEF markPatch
    <3>2. ctl.cur = node[ctl.name]
      BY <2>1, <3>1, WritesLater
    <3> QED BY <1>1, <3>1, <3>2 DEF Nodes
  <2>2. CASE ~Same(ctl.name, ctl.cur)
    BY <1>4, <2>2 DEF markPatch
  <2> QED BY <2>1, <2>2
<1>5. ASSUME NEW m \in Names, Register(m) PROVE FALSE
  BY <1>1, <1>5 DEF Register, NoNode
<1>6. ASSUME NEW m \in Names, NodeGone(m) PROVE FALSE
  BY <1>1, <1>6 DEF NodeGone, NoNode
<1>7. ASSUME NEW m \in Names, NEW s \in Reasons, NEW b \in BOOLEAN, Signal(m, s, b) PROVE FALSE
  <2> DEFINE o == [node[m] EXCEPT !.status = s, !.maintenance = b]
             i == isNodeInterrupted(o)
  <2>1. node' = [node EXCEPT ![m] = [o EXCEPT !.rev = @ + 1, !.ever = @ \/ i]]
    BY <1>7 DEF Signal
  <2> HIDE DEF i
  <2>2. node[m] \in Nodes
    BY DEF IInv, Typed
  <2>3. o \in Nodes /\ o.deleting = node[m].deleting
    BY <2>2 DEF Nodes
  <2> HIDE DEF o
  <2>4. [o EXCEPT !.rev = @ + 1, !.ever = @ \/ i].deleting = node[m].deleting
    BY <2>3 DEF Nodes
  <2> QED BY <1>1, <2>1, <2>4
<1>8. CASE UNCHANGED node
  BY <1>8
<1>9. ASSUME ControllerNext PROVE deleteIfStillInterrupted \/ cordonPatch \/ markPatch \/ UNCHANGED node
  BY <1>9 DEF ControllerNext, List, cordon, markNodeAsInterrupted, Done, handleInterruption
<1>10. ASSUME NEW m \in Names, Sync(m) PROVE UNCHANGED node
  BY <1>10 DEF Sync
<1> QED BY <1>2, <1>3, <1>4, <1>5, <1>6, <1>7, <1>8, <1>9, <1>10 DEF Next, vars

\* The interruption controller cordons, marks and deletes only Nodes that carried
\* a signal themselves, and deletes only while the signal is there and unhandled,
\* for any number of Nodes, signals and replacements and however stale the
\* informer is.
THEOREM OnlyInterrupted == Spec => OnlyInterruptedGo
<1>1. Spec => []IInv
  BY InitInv, NextInv, PTL DEF Spec
<1>2. IInv => TypeOK /\ HandledWasInterrupted
  <2> SUFFICES ASSUME IInv PROVE TypeOK /\ HandledWasInterrupted
    OBVIOUS
  <2>1. TypeOK
    BY DEF IInv, Typed, TypeOK, Ctls, Steps, Handling
  <2>2. HandledWasInterrupted
    BY DEF IInv, Copies, Sound, HandledWasInterrupted
  <2> QED BY <2>1, <2>2
<1>3. IInv /\ [Next]_vars =>
         [\A n \in Names : node'[n].deleting /\ ~node[n].deleting => isNodeInterrupted(node[n])]_vars
  BY OnlyDeleteDeletes
<1> QED BY <1>1, <1>2, <1>3, PTL DEF Spec, OnlyInterruptedGo, DeletesInterrupted
=============================================================================
