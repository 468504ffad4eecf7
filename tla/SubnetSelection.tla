-------------------------- MODULE SubnetSelection --------------------------
(***************************************************************************)
(* The choice of subnets (pkg/providers/vpc/subnet/provider.go) and of one *)
(* subnet for an instance (pkg/providers/vpc/instance/provider.go), as     *)
(* pure operators.  A subnet is a record of what the code keeps of it; a   *)
(* score is a fraction num/den with den > 0.  sort.Slice is not stable and *)
(* rand chooses at will, so an operator returns the set of its possible    *)
(* results.                                                                *)
(***************************************************************************)
EXTENDS Integers, FiniteSets, Sequences, SequencesExt

\* CostOptimized stops at this many subnets.
TargetZones == 2

\* What is kept of a subnet of the cloud; tags are never read.
SubnetInfo(id, zone, state, available, total) ==
  [id |-> id, zone |-> zone, state |-> state, available |-> available,
   total |-> total, used |-> total - available, tags |-> {}]

\* strategy: [balance, minimum (0 if unset), tags (required)].
eligible(s, strategy) ==
  /\ s.state = "available"
  /\ ~(strategy.minimum > 0 /\ s.available < strategy.minimum)
  /\ strategy.tags \subseteq s.tags

calculateSubnetScore(s) ==
  IF s.total = 0
  THEN [num |-> 0, den |-> 1]
  ELSE [num |-> 100 * s.available - 50 * s.used, den |-> s.total]

\* nodes: how many nodes of the cluster are known to be in each subnet.
applyClusterAwareness(s, base, nodes) ==
  LET bonus == IF nodes[s.id] > 0 THEN 50 + 10 * nodes[s.id]
               ELSE IF \E i \in DOMAIN nodes : nodes[i] > 0 THEN -5 ELSE 0
  IN  [base EXCEPT !.num = @ + bonus * base.den]

Score(s, nodes) == applyClusterAwareness(s, calculateSubnetScore(s), nodes)

Exceeds(a, b) == a.num * b.den > b.num * a.den

\* The orders in which sort.Slice may leave the eligible subnets.
Ranked(subnets, nodes) ==
  {order \in SetToSeqs(subnets) :
     \A i \in 1..(Len(order) - 1) :
       ~Exceeds(Score(order[i + 1], nodes), Score(order[i], nodes))}

\* The first subnet of each zone in an order, up to a limit.
FirstPerZone(order, limit) ==
  FoldLeft(LAMBDA chosen, s :
             IF Cardinality(chosen) >= limit \/ \E c \in chosen : c.zone = s.zone
             THEN chosen
             ELSE chosen \cup {s},
           {}, order)

Distribute(order, balance) ==
  CASE balance = "Balanced" -> FirstPerZone(order, Len(order))
    [] balance = "AvailabilityFirst" -> ToSet(order)
    [] balance = "CostOptimized" -> FirstPerZone(order, TargetZones)
    [] OTHER -> {}

\* The possible selections; none when the code returns an error.
SelectSubnets(subnets, strategy, nodes) ==
  LET candidates == {s \in subnets : eligible(s, strategy)}
  IN  {Distribute(order, strategy.balance) : order \in Ranked(candidates, nodes)} \ {{}}

\* The subnets Create may take of a selection: of any zone, one with most
\* available addresses.
selectSubnetFromMultiZoneList(selection) ==
  {s \in selection : \A t \in selection : t.zone = s.zone => t.available <= s.available}

\* The subnets Create may take for a zone the NodeClass names.
BestInZone(subnets, zone) ==
  selectSubnetFromMultiZoneList({s \in subnets : s.zone = zone /\ s.state = "available"})
=============================================================================
