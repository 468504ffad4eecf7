---------------------- MODULE NodeClassBreakersProofs ----------------------
(***************************************************************************)
(* The theorems about the circuit breakers, for every configuration that   *)
(* the options allow, every number of keys and any finite number of calls: *)
(* the state is well typed, neither a slot nor a probe leaks, an open      *)
(* circuit stays shut for RecoveryTimeout, and a half-open one has no more *)
(* than HalfOpenMaxRequests probes, but for those that the pending result  *)
(* of an earlier call has freed.                                           *)
(*                                                                         *)
(* The two counting invariants compare a counter of the breaker with the   *)
(* number of calls it stands for.  They rest on two more: a breaker that   *)
(* is not half open counts no probe, and a call that is about to report    *)
(* still knows the breaker that admitted it unless that breaker is gone.   *)
(*                                                                         *)
(* The last two theorems need a further invariant each.  Shut relates the  *)
(* age of the opening to what the breaker knows of it; Probing says that a *)
(* half-open breaker counts its probes up to the strays, and that another  *)
(* has none.                                                               *)
(***************************************************************************)
EXTENDS NodeClassBreakers, FiniteSetTheorems, TLAPS

\* Zenon proves most leaves; one that needs arithmetic or record types names SMT.
USE ZenonT(90)

\* A breaker counts probes only while it is half open.
Sane(b) == b.state # "HALF_OPEN" => b.halfOpen = 0

ProbesWhenHalfOpen == \A k \in Keys : Sane(breakers[k])

\* A call about to report holds the breaker that admitted it, if that breaker is
\* still in the map, and what it holds is a breaker.
HoldsItsOwn ==
    \A c \in Calls : calls[c].pc \in {"success", "pending"} =>
        /\ calls[c].own \/ calls[c].probe => calls[c].held
        /\ calls[c].held => breakers[calls[c].key] # NoBreaker

IInv == TypeOK /\ ProbesWhenHalfOpen /\ HoldsItsOwn /\ NoLeakedSlot /\ NoLeakedProbe

-----------------------------------------------------------------------------
(* The operations of one breaker *)

\* A new breaker is a breaker and counts nothing.
LEMMA NewBreaker ==
    /\ NewCircuitBreaker \in Breakers /\ Sane(NewCircuitBreaker)
    /\ NewCircuitBreaker.concurrent = 0 /\ NewCircuitBreaker.halfOpen = 0
    /\ NewCircuitBreaker.state = "CLOSED"
    /\ NoBreaker \notin Breakers /\ Sane(NoBreaker)
    /\ NoBreaker.concurrent = 0 /\ NoBreaker.halfOpen = 0
    /\ NoBreaker.state = "NONE"
BY BreakerAssumption DEF NewCircuitBreaker, NoBreaker, Breakers, States, Sane

\* A change of state keeps the type and forgets the probes.
LEMMA Transition ==
    ASSUME NEW b \in Breakers, NEW s \in States
    PROVE  /\ transitionTo(b, s) \in Breakers
           /\ transitionTo(b, s).state = s
           /\ transitionTo(b, s).halfOpen = 0
           /\ transitionTo(b, s).concurrent = b.concurrent
           /\ transitionTo(b, s).since = 0
BY DEF transitionTo, Breakers

\* What CanProvision does before it decides keeps the slots, and keeps the probes
\* of a circuit that was and stays half open.
LEMMA Refreshing ==
    ASSUME NEW b \in Breakers, Sane(b)
    PROVE  /\ refreshed(b) \in Breakers
           /\ Sane(refreshed(b))
           /\ refreshed(b).concurrent = b.concurrent
           /\ refreshed(b).halfOpen = b.halfOpen
           /\ b.state = "HALF_OPEN" => refreshed(b).state = "HALF_OPEN"
<1> DEFINE r == resetCountersIfNeeded(b)
<1>1. /\ r \in Breakers /\ r.state = b.state
      /\ r.halfOpen = b.halfOpen /\ r.concurrent = b.concurrent
  BY DEF resetCountersIfNeeded, Breakers
<1>2. refreshed(b) = IF r.state = "OPEN" /\ r.since >= RecoveryTimeout
                     THEN transitionTo(r, "HALF_OPEN") ELSE r
  BY DEF refreshed
<1>3. "HALF_OPEN" \in States
  BY DEF States
<1> HIDE DEF r
<1>4. CASE r.state = "OPEN" /\ r.since >= RecoveryTimeout
  BY SMTT(90), <1>1, <1>2, <1>3, <1>4, Transition DEF Sane
<1>5. CASE ~(r.state = "OPEN" /\ r.since >= RecoveryTimeout)
  BY <1>1, <1>2, <1>5 DEF Sane
<1> QED BY <1>4, <1>5

\* An admission takes one slot and, while half open, one probe.
LEMMA Admitting ==
    ASSUME NEW b \in Breakers, Sane(b)
    PROVE  /\ admitted(b) \in Breakers
           /\ Sane(admitted(b))
           /\ admitted(b).state = b.state
           /\ admitted(b).concurrent = b.concurrent + 1
           /\ b.state = "HALF_OPEN" => admitted(b).halfOpen = b.halfOpen + 1
           /\ b.state # "HALF_OPEN" => admitted(b).halfOpen = 0
<1> DEFINE n == b.minute + 1
           m == b.concurrent + 1
           h == IF b.state = "HALF_OPEN" THEN b.halfOpen + 1 ELSE b.halfOpen
<1>1. n \in Nat /\ m \in Nat /\ h \in Nat
  BY SMTT(90) DEF Breakers
<1>2. admitted(b) = [b EXCEPT !.minute = n, !.concurrent = m, !.halfOpen = h]
  BY DEF admitted, Breakers
<1>3. /\ b.state = "HALF_OPEN" => h = b.halfOpen + 1
      /\ b.state # "HALF_OPEN" => h = 0
  BY DEF Sane
<1>4. m = b.concurrent + 1
  OBVIOUS
<1> HIDE DEF n, m, h
<1>5. /\ admitted(b) \in Breakers /\ admitted(b).state = b.state
      /\ admitted(b).concurrent = m /\ admitted(b).halfOpen = h
  BY <1>1, <1>2 DEF Breakers
<1> QED BY <1>3, <1>4, <1>5 DEF Sane

\* Releasing gives back one slot, if there is one.
LEMMA Releasing ==
    ASSUME NEW b \in Breakers
    PROVE  /\ released(b) \in Breakers
           /\ released(b).state = b.state /\ released(b).halfOpen = b.halfOpen
           /\ released(b).failures = b.failures
           /\ released(b).concurrent = 0 \/ released(b).concurrent = b.concurrent - 1
BY SMTT(90) DEF released, Breakers

\* A pending result gives back a slot and, while half open, a probe.
LEMMA Pending ==
    ASSUME NEW b \in Breakers, Sane(b)
    PROVE  /\ RecordPending(b) \in Breakers
           /\ Sane(RecordPending(b))
           /\ RecordPending(b).state = b.state
           /\ RecordPending(b).concurrent = 0 \/ RecordPending(b).concurrent = b.concurrent - 1
           /\ RecordPending(b).halfOpen = 0 \/ RecordPending(b).halfOpen = b.halfOpen - 1
<1> DEFINE r == released(b)
<1>1. /\ r \in Breakers /\ r.state = b.state /\ r.halfOpen = b.halfOpen
      /\ r.concurrent = 0 \/ r.concurrent = b.concurrent - 1
  BY Releasing
<1>2. RecordPending(b) =
         [r EXCEPT !.halfOpen = IF b.state = "HALF_OPEN" /\ @ > 0 THEN @ - 1 ELSE @]
  BY DEF RecordPending
<1> HIDE DEF r
<1> QED BY SMTT(90), <1>1, <1>2 DEF Breakers, Sane

\* A success gives back a slot and leaves no circuit half open.
LEMMA Success ==
    ASSUME NEW b \in Breakers, Sane(b)
    PROVE  /\ RecordSuccess(b) \in Breakers
           /\ RecordSuccess(b).halfOpen = 0
           /\ RecordSuccess(b).concurrent = 0 \/ RecordSuccess(b).concurrent = b.concurrent - 1
<1> DEFINE r == released(b)
<1>1. /\ r \in Breakers /\ r.state = b.state /\ r.halfOpen = b.halfOpen
      /\ r.concurrent = 0 \/ r.concurrent = b.concurrent - 1
  BY Releasing
<1>2. RecordSuccess(b) = IF r.state = "HALF_OPEN" THEN transitionTo(r, "CLOSED") ELSE r
  BY DEF RecordSuccess
<1>3. "CLOSED" \in States
  BY DEF States
<1> HIDE DEF r
<1> QED BY SMTT(90), <1>1, <1>2, <1>3, Transition DEF Sane

\* A failure gives back a slot and leaves no circuit half open.
LEMMA Failure ==
    ASSUME NEW b \in Breakers, Sane(b)
    PROVE  /\ RecordFailure(b) \in Breakers
           /\ RecordFailure(b).halfOpen = 0
           /\ RecordFailure(b).concurrent = 0 \/ RecordFailure(b).concurrent = b.concurrent - 1
<1> DEFINE l == released(b)
           r == [l EXCEPT !.failures[0] = @ + 1]
           opens == \/ countRecentFailures(r) >= FailureThreshold /\ r.state # "OPEN"
                    \/ r.state = "HALF_OPEN"
<1>1. /\ l \in Breakers /\ l.state = b.state /\ l.halfOpen = b.halfOpen
      /\ l.concurrent = 0 \/ l.concurrent = b.concurrent - 1
  BY Releasing
<1>2. 0 \in FailureAges
  BY SMTT(90), BreakerAssumption DEF FailureAges
<1>3. RecordFailure(b) = IF opens THEN transitionTo(r, "OPEN") ELSE r
  BY DEF RecordFailure
<1> HIDE DEF l
<1>4. /\ r \in Breakers /\ r.state = l.state /\ r.halfOpen = l.halfOpen
      /\ r.concurrent = l.concurrent
  BY SMTT(90), <1>1, <1>2 DEF Breakers
<1>5. "OPEN" \in States
  BY DEF States
<1> HIDE DEF r
<1>6. CASE opens
  BY SMTT(90), <1>1, <1>3, <1>4, <1>5, <1>6, Transition
<1>7. CASE ~opens
  BY <1>1, <1>3, <1>4, <1>7 DEF Sane
<1> QED BY <1>6, <1>7

\* Time changes neither the counters nor the state of a breaker.
LEMMA Aging ==
    ASSUME NEW b \in Breakers
    PROVE  /\ Aged(b) \in Breakers
           /\ Aged(b).state = b.state
           /\ Aged(b).halfOpen = b.halfOpen /\ Aged(b).concurrent = b.concurrent
<1> DEFINE since == Older(b.since, AgeBound)
           reset == Older(b.reset, Minute)
           failures == [a \in FailureAges |-> IF a = 0 THEN 0 ELSE b.failures[a - 1]]
<1>1. since \in Nat /\ reset \in Nat
  BY SMTT(90), BreakerAssumption DEF Breakers, Older, AgeBound
<1>2. failures \in [FailureAges -> Nat]
  BY SMTT(90), BreakerAssumption DEF Breakers, FailureAges
<1>3. Aged(b) = [b EXCEPT !.since = since, !.reset = reset, !.failures = failures]
  BY DEF Aged, Breakers
<1> HIDE DEF since, reset, failures
<1> QED BY <1>1, <1>2, <1>3 DEF Breakers

-----------------------------------------------------------------------------
(* The state of one circuit *)

\* Before CanProvision decides, an open circuit becomes half open exactly when
\* RecoveryTimeout has passed; no other circuit changes its state.
LEMMA RefreshedState ==
    ASSUME NEW b \in Breakers
    PROVE  /\ b.state = "OPEN" /\ b.since >= RecoveryTimeout => refreshed(b).state = "HALF_OPEN"
           /\ ~(b.state = "OPEN" /\ b.since >= RecoveryTimeout) =>
                 refreshed(b).state = b.state /\ refreshed(b).since = b.since
<1> DEFINE r == resetCountersIfNeeded(b)
<1>1. r \in Breakers /\ r.state = b.state /\ r.since = b.since
  BY DEF resetCountersIfNeeded, Breakers
<1>2. refreshed(b) = IF r.state = "OPEN" /\ r.since >= RecoveryTimeout
                     THEN transitionTo(r, "HALF_OPEN") ELSE r
  BY DEF refreshed
<1>3. "HALF_OPEN" \in States
  BY DEF States
<1> HIDE DEF r
<1> QED BY <1>1, <1>2, <1>3, Transition

\* An admission does not change the state of the circuit.
LEMMA AdmittedState ==
    ASSUME NEW b \in Breakers
    PROVE  admitted(b).since = b.since
BY DEF admitted, Breakers

\* A pending result does not change the state of the circuit; it frees a probe
\* whenever one is counted.
LEMMA PendingState ==
    ASSUME NEW b \in Breakers
    PROVE  /\ RecordPending(b).since = b.since
           /\ RecordPending(b).halfOpen =
                 IF b.state = "HALF_OPEN" /\ b.halfOpen > 0 THEN b.halfOpen - 1 ELSE b.halfOpen
<1> DEFINE r == released(b)
<1>1. r \in Breakers /\ r.since = b.since /\ r.halfOpen = b.halfOpen
  BY SMTT(90) DEF released, Breakers
<1>2. RecordPending(b) =
         [r EXCEPT !.halfOpen = IF b.state = "HALF_OPEN" /\ @ > 0 THEN @ - 1 ELSE @]
  BY DEF RecordPending
<1> HIDE DEF r
<1> QED BY <1>1, <1>2 DEF Breakers

\* A success closes a half-open circuit and leaves every other as it is.
LEMMA SuccessState ==
    ASSUME NEW b \in Breakers
    PROVE  /\ b.state = "HALF_OPEN" => RecordSuccess(b).state = "CLOSED"
           /\ b.state # "HALF_OPEN" =>
                 RecordSuccess(b).state = b.state /\ RecordSuccess(b).since = b.since
<1> DEFINE r == released(b)
<1>1. r \in Breakers /\ r.state = b.state /\ r.since = b.since
  BY SMTT(90) DEF released, Breakers
<1>2. RecordSuccess(b) = IF r.state = "HALF_OPEN" THEN transitionTo(r, "CLOSED") ELSE r
  BY DEF RecordSuccess
<1>3. "CLOSED" \in States
  BY DEF States
<1> HIDE DEF r
<1> QED BY <1>1, <1>2, <1>3, Transition

\* A failure leaves an open circuit as it is, and any other closed or just opened.
LEMMA FailureState ==
    ASSUME NEW b \in Breakers
    PROVE  /\ b.state = "OPEN" =>
                 RecordFailure(b).state = "OPEN" /\ RecordFailure(b).since = b.since
           /\ b.state # "OPEN" =>
                 \/ RecordFailure(b).state = "CLOSED"
                 \/ RecordFailure(b).state = "OPEN" /\ RecordFailure(b).since = 0
<1> DEFINE l == released(b)
           r == [l EXCEPT !.failures[0] = @ + 1]
           opens == \/ countRecentFailures(r) >= FailureThreshold /\ r.state # "OPEN"
                    \/ r.state = "HALF_OPEN"
<1>1. l \in Breakers /\ l.state = b.state /\ l.since = b.since
  BY SMTT(90) DEF released, Breakers
<1>2. 0 \in FailureAges
  BY SMTT(90), BreakerAssumption DEF FailureAges
<1>3. RecordFailure(b) = IF opens THEN transitionTo(r, "OPEN") ELSE r
  BY DEF RecordFailure
<1> HIDE DEF l
<1>4. r \in Breakers /\ r.state = l.state /\ r.since = l.since
  BY SMTT(90), <1>1, <1>2 DEF Breakers
<1>5. transitionTo(r, "OPEN").state = "OPEN" /\ transitionTo(r, "OPEN").since = 0
  <2> HIDE DEF r
  <2> QED BY <1>4 DEF transitionTo, Breakers
<1>6. b.state \in {"CLOSED", "OPEN", "HALF_OPEN"}
  BY DEF Breakers, States
<1> HIDE DEF r
<1>7. CASE opens
  BY <1>1, <1>3, <1>4, <1>5, <1>7
<1>8. CASE ~opens
  BY <1>1, <1>3, <1>4, <1>6, <1>8
<1> QED BY <1>7, <1>8

\* Time lets the age of the last change of state grow by one, and stops it only
\* after RecoveryTimeout.
LEMMA AgedState ==
    ASSUME NEW b \in Breakers
    PROVE  /\ Aged(b).since <= b.since + 1
           /\ b.since < RecoveryTimeout => Aged(b).since = b.since + 1
<1>1. Aged(b).since = Older(b.since, AgeBound)
  BY DEF Aged, Breakers
<1>2. AgeBound \in Nat /\ RecoveryTimeout < AgeBound /\ b.since \in Nat
  BY SMTT(90), BreakerAssumption DEF AgeBound, Breakers
<1> QED BY SMTT(90), <1>1, <1>2, BreakerAssumption DEF Older

-----------------------------------------------------------------------------
(* Counting *)

\* How a step may change a counter together with the set that it counts: the
\* counter is cleared, or counts only the call e, or both keep, lose or gain e.
Counts(m, n, S, T, e) ==
    \/ n = 0
    \/ n = 1 /\ e \in T
    \/ n = m /\ S \subseteq T
    \/ n = m - 1 /\ S \ {e} \subseteq T
    \/ n = m + 1 /\ e \notin S /\ S \cup {e} \subseteq T

\* A counter that changes with its set stays within it.
LEMMA Counted ==
    ASSUME NEW S \in SUBSET Calls, NEW T \in SUBSET Calls, NEW e,
           NEW m \in Nat, NEW n \in Nat, m <= Cardinality(S), Counts(m, n, S, T, e)
    PROVE  n <= Cardinality(T)
<1>1. /\ IsFiniteSet(S) /\ IsFiniteSet(T)
      /\ Cardinality(S) \in Nat /\ Cardinality(T) \in Nat
  BY ManagerAssumption, FS_Subset, FS_CardinalityType
<1>2. CASE n = 0
  BY SMTT(90), <1>1, <1>2
<1>3. CASE n = m /\ S \subseteq T
  BY SMTT(90), <1>1, <1>3, FS_Subset
<1>4. CASE n = m - 1 /\ S \ {e} \subseteq T
  <2>1. /\ IsFiniteSet(S \ {e}) /\ Cardinality(S \ {e}) \in Nat
        /\ Cardinality(S \ {e}) = IF e \in S THEN Cardinality(S) - 1 ELSE Cardinality(S)
    BY <1>1, FS_RemoveElement, FS_CardinalityType
  <2>2. Cardinality(S \ {e}) <= Cardinality(T)
    BY <1>1, <1>4, FS_Subset
  <2> QED BY SMTT(90), <1>1, <1>4, <2>1, <2>2
<1>5. CASE n = m + 1 /\ e \notin S /\ S \cup {e} \subseteq T
  <2>1. Cardinality(S \cup {e}) = Cardinality(S) + 1
    BY <1>1, <1>5, FS_AddElement
  <2>2. Cardinality(S \cup {e}) <= Cardinality(T)
    BY <1>1, <1>5, FS_Subset
  <2> QED BY SMTT(90), <1>1, <1>5, <2>1, <2>2
<1>6. CASE n = 1 /\ e \in T
  <2>1. Cardinality({e}) = 1 /\ {e} \subseteq T
    BY <1>6, FS_Singleton
  <2>2. Cardinality({e}) <= Cardinality(T)
    BY <1>1, <2>1, FS_Subset
  <2> QED BY <1>6, <2>1, <2>2
<1> QED BY <1>2, <1>3, <1>4, <1>5, <1>6 DEF Counts

\* The two counting invariants follow from how a step changes the counters.
LEMMA Counting ==
    ASSUME TypeOK, TypeOK', NoLeakedSlot, NoLeakedProbe, NEW e,
           \A k \in Keys : Counts(breakers[k].concurrent, breakers'[k].concurrent,
                                  Own(k), Own(k)', e),
           \A k \in Keys : Counts(breakers[k].halfOpen, breakers'[k].halfOpen,
                                  Probes(k), Probes(k)', e)
    PROVE  NoLeakedSlot' /\ NoLeakedProbe'
<1> SUFFICES ASSUME NEW k \in Keys
             PROVE  /\ breakers'[k].concurrent <= Cardinality(Own(k)')
                    /\ breakers'[k].halfOpen <= Cardinality(Probes(k)')
  BY DEF NoLeakedSlot, NoLeakedProbe
<1>1. /\ breakers[k].concurrent \in Nat /\ breakers[k].halfOpen \in Nat
      /\ breakers'[k].concurrent \in Nat /\ breakers'[k].halfOpen \in Nat
  <2>1. \A b \in Breakers \cup {NoBreaker} : b.concurrent \in Nat /\ b.halfOpen \in Nat
    BY NewBreaker DEF Breakers
  <2> QED BY <2>1 DEF TypeOK
<1>2. /\ Own(k) \in SUBSET Calls /\ Own(k)' \in SUBSET Calls
      /\ Probes(k) \in SUBSET Calls /\ Probes(k)' \in SUBSET Calls
  BY DEF Own, Probes, Active
<1>3. breakers[k].concurrent <= Cardinality(Own(k)) /\ breakers[k].halfOpen <= Cardinality(Probes(k))
  BY DEF NoLeakedSlot, NoLeakedProbe
<1>4. breakers'[k].concurrent <= Cardinality(Own(k)')
  BY SMTT(90), <1>1, <1>2, <1>3, Counted
<1>5. breakers'[k].halfOpen <= Cardinality(Probes(k)')
  BY SMTT(90), <1>1, <1>2, <1>3, Counted
<1> QED BY <1>4, <1>5

-----------------------------------------------------------------------------
(* The calls *)

\* What Update does to each call.
LEMMA Updating ==
    ASSUME TypeOK, NEW map \in [Keys -> Breakers \cup {NoBreaker}],
           NEW cs \in [Calls -> CallStates], Update(map, cs)
    PROVE  /\ breakers' = map
           /\ calls' \in [Calls -> CallStates]
           /\ opened' \in [Keys -> 0..RecoveryTimeout]
           /\ \A d \in Calls :
                 /\ calls'[d].pc = cs[d].pc /\ calls'[d].key = cs[d].key
                 /\ calls'[d].own = cs[d].own /\ calls'[d].held = cs[d].held
                 /\ calls'[d].probe <=> (cs[d].probe /\ map[cs[d].key].state = "HALF_OPEN")
<1>1. breakers' = map
  BY DEF Update
<1>2. ASSUME NEW d \in Calls
      PROVE  /\ calls'[d] \in CallStates
             /\ calls'[d].pc = cs[d].pc /\ calls'[d].key = cs[d].key
             /\ calls'[d].own = cs[d].own /\ calls'[d].held = cs[d].held
             /\ calls'[d].probe <=> (cs[d].probe /\ map[cs[d].key].state = "HALF_OPEN")
  <2> DEFINE p == cs[d].probe /\ map[cs[d].key].state = "HALF_OPEN"
  <2>1. cs[d] \in CallStates
    OBVIOUS
  <2>2. p \in BOOLEAN
    BY <2>1 DEF CallStates
  <2>3. calls'[d] = [cs[d] EXCEPT !.probe = p]
    BY DEF Update
  <2> HIDE DEF p
  <2>4. /\ calls'[d] \in CallStates
        /\ calls'[d].pc = cs[d].pc /\ calls'[d].key = cs[d].key
        /\ calls'[d].own = cs[d].own /\ calls'[d].held = cs[d].held
        /\ calls'[d].probe = p
    BY <2>1, <2>2, <2>3 DEF CallStates
  <2> QED BY <2>4 DEF p
<1>3. calls' \in [Calls -> CallStates]
  BY <1>2 DEF Update
<1>4. opened' \in [Keys -> 0..RecoveryTimeout]
  BY SMTT(90), BreakerAssumption DEF Update, TypeOK
<1> QED BY <1>1, <1>2, <1>3, <1>4

\* An idle call is a call.
LEMMA IdleCall == /\ Idle \in CallStates /\ Idle.pc = "idle"
                  /\ ~Idle.own /\ ~Idle.held /\ ~Idle.probe
BY SMTT(90), ManagerAssumption DEF Idle, CallStates

\* Forgetting breakers leaves calls.
LEMMA Orphaning ==
    ASSUME TypeOK, NEW keys
    PROVE  /\ Orphaned(keys) \in [Calls -> CallStates]
           /\ \A d \in Calls :
                 /\ Orphaned(keys)[d].pc = calls[d].pc /\ Orphaned(keys)[d].key = calls[d].key
                 /\ calls[d].key \notin keys => Orphaned(keys)[d] = calls[d]
                 /\ calls[d].key \in keys => /\ ~Orphaned(keys)[d].own
                                             /\ ~Orphaned(keys)[d].held
                                             /\ ~Orphaned(keys)[d].probe
<1> SUFFICES ASSUME NEW d \in Calls
             PROVE  /\ Orphaned(keys)[d] \in CallStates
                    /\ Orphaned(keys)[d].pc = calls[d].pc /\ Orphaned(keys)[d].key = calls[d].key
                    /\ calls[d].key \notin keys => Orphaned(keys)[d] = calls[d]
                    /\ calls[d].key \in keys => /\ ~Orphaned(keys)[d].own
                                                /\ ~Orphaned(keys)[d].held
                                                /\ ~Orphaned(keys)[d].probe
  BY DEF Orphaned
<1>1. calls[d] \in CallStates
  BY DEF TypeOK
<1>2. CASE calls[d].key \in keys
  <2>1. Orphaned(keys)[d] = [calls[d] EXCEPT !.own = FALSE, !.held = FALSE, !.probe = FALSE]
    BY <1>2 DEF Orphaned
  <2> QED BY <1>1, <1>2, <2>1 DEF CallStates
<1>3. CASE calls[d].key \notin keys
  BY <1>1, <1>3 DEF Orphaned
<1> QED BY <1>2, <1>3

\* The strays are counted while the circuit is half open.
LEMMA StrayCount ==
    ASSUME TypeOK, NEW cs, Strays(cs)
    PROVE  /\ strays' \in [Keys -> Nat]
           /\ \A k \in Keys : breakers'[k].state = "HALF_OPEN" =>
                 /\ strays'[k] >= strays[k]
                 /\ (\E c \in cs : calls[c].key = k /\ FreesAnother(c)) =>
                       strays'[k] = strays[k] + 1
<1>1. strays \in [Keys -> Nat]
  BY DEF TypeOK
<1>2. strays' = [k \in Keys |->
         IF breakers'[k].state # "HALF_OPEN" THEN 0
         ELSE IF \E c \in cs : calls[c].key = k /\ FreesAnother(c) THEN strays[k] + 1
         ELSE strays[k]]
  BY DEF Strays
<1> QED BY SMTT(90), <1>1, <1>2

-----------------------------------------------------------------------------
(* The steps *)

\* Permission keeps the invariant: what the cleanup drops counts nothing, and an
\* admission adds the call to the sets it is counted in.
LEMMA CanProvisionInv ==
    ASSUME IInv, NEW c \in Calls, NEW k \in Keys, CanProvision(c, k)
    PROVE  IInv'
<1> DEFINE map == cleanupUnusedBreakersIfNeeded
           dropped == {j \in Keys : breakers[j] # map[j]}
           b == refreshed(getOrCreate(map, k))
           admission == [pc |-> "running", key |-> k, own |-> TRUE, held |-> FALSE,
                         probe |-> b.state = "HALF_OPEN", age |-> 0]
           cs == Orphaned(dropped)
<1>1. /\ map \in [Keys -> Breakers \cup {NoBreaker}]
      /\ \A j \in Keys : map[j] = breakers[j] \/ map[j] = NoBreaker
  BY DEF IInv, TypeOK, cleanupUnusedBreakersIfNeeded
<1>2. /\ \/ allowed(b) /\ Update([map EXCEPT ![k] = admitted(b)], [cs EXCEPT ![c] = admission])
         \/ ~allowed(b) /\ Update([map EXCEPT ![k] = b], cs)
      /\ calls[c].pc = "idle"
      /\ cleaned' = IF cleaned < CleanupInterval THEN cleaned ELSE 0
  BY DEF CanProvision
<1> HIDE DEF map
<1>3. /\ getOrCreate(map, k) \in Breakers /\ Sane(getOrCreate(map, k))
      /\ \/ map[k] = NoBreaker /\ getOrCreate(map, k) = NewCircuitBreaker
         \/ map[k] # NoBreaker /\ getOrCreate(map, k) = map[k] /\ map[k] = breakers[k]
  BY <1>1, NewBreaker DEF getOrCreate, IInv, ProbesWhenHalfOpen
<1>4. /\ b \in Breakers /\ Sane(b)
      /\ b.concurrent = getOrCreate(map, k).concurrent
      /\ b.halfOpen = getOrCreate(map, k).halfOpen
      /\ getOrCreate(map, k).state = "HALF_OPEN" => b.state = "HALF_OPEN"
  BY <1>3, Refreshing
<1>5. /\ cs \in [Calls -> CallStates]
      /\ \A d \in Calls :
            /\ cs[d].pc = calls[d].pc /\ cs[d].key = calls[d].key
            /\ calls[d].key \notin dropped => cs[d] = calls[d]
            /\ calls[d].key \in dropped => ~cs[d].own /\ ~cs[d].held /\ ~cs[d].probe
  BY Orphaning DEF IInv
<1> HIDE DEF b, cs
<1>6. admission \in CallStates
  BY SMTT(90), ManagerAssumption DEF CallStates
<1>7. PICK nb \in Breakers, ncs \in [Calls -> CallStates] :
         /\ Update([map EXCEPT ![k] = nb], ncs)
         /\ Sane(nb) /\ nb.state = b.state
         /\ \/ /\ ncs = [cs EXCEPT ![c] = admission]
               /\ nb.concurrent = b.concurrent + 1
               /\ b.state = "HALF_OPEN" => nb.halfOpen = b.halfOpen + 1
               /\ b.state # "HALF_OPEN" => nb.halfOpen = 0
            \/ ncs = cs /\ nb.concurrent = b.concurrent /\ nb.halfOpen = b.halfOpen
  <2>1. CASE allowed(b) /\ Update([map EXCEPT ![k] = admitted(b)], [cs EXCEPT ![c] = admission])
    <3>1. [cs EXCEPT ![c] = admission] \in [Calls -> CallStates]
      BY <1>5, <1>6
    <3> HIDE DEF admission
    <3> QED BY <1>4, <2>1, <3>1, Admitting
  <2>2. CASE ~allowed(b) /\ Update([map EXCEPT ![k] = b], cs)
    BY <1>4, <1>5, <2>2
  <2> QED BY <1>2, <2>1, <2>2
<1> DEFINE new == [map EXCEPT ![k] = nb]
<1>8. /\ new \in [Keys -> Breakers \cup {NoBreaker}]
      /\ new[k] = nb /\ \A j \in Keys : j # k => new[j] = map[j]
  BY <1>1
<1> HIDE DEF new
<1>9. /\ breakers' = new
      /\ calls' \in [Calls -> CallStates]
      /\ opened' \in [Keys -> 0..RecoveryTimeout]
      /\ \A d \in Calls :
            /\ calls'[d].pc = ncs[d].pc /\ calls'[d].key = ncs[d].key
            /\ calls'[d].own = ncs[d].own /\ calls'[d].held = ncs[d].held
            /\ calls'[d].probe <=> (ncs[d].probe /\ new[ncs[d].key].state = "HALF_OPEN")
  BY <1>7, <1>8, Updating DEF IInv, new
<1>10. TypeOK'
  <2>1. strays' \in [Keys -> Nat]
    BY StrayCount DEF CanProvision, IInv
  <2> QED BY SMTT(90), <1>2, <1>8, <1>9, <2>1, ManagerAssumption DEF IInv, TypeOK
<1>11. ProbesWhenHalfOpen'
  BY <1>1, <1>7, <1>8, <1>9, NewBreaker DEF IInv, ProbesWhenHalfOpen
<1>12. ASSUME NEW d \in Calls, d # c
       PROVE  ncs[d] = cs[d]
  <2> HIDE DEF admission
  <2> QED BY <1>5, <1>7, <1>12
<1>13. \/ ncs[c] = cs[c] /\ ncs[c].pc = "idle"
          /\ nb.concurrent = b.concurrent /\ nb.halfOpen = b.halfOpen
       \/ /\ ncs[c].pc = "running" /\ ncs[c].key = k /\ ncs[c].own
          /\ (ncs[c].probe <=> b.state = "HALF_OPEN")
          /\ nb.concurrent = b.concurrent + 1
          /\ b.state = "HALF_OPEN" => nb.halfOpen = b.halfOpen + 1
          /\ b.state # "HALF_OPEN" => nb.halfOpen = 0
  <2>1. /\ admission.pc = "running" /\ admission.key = k /\ admission.own
        /\ admission.probe <=> b.state = "HALF_OPEN"
    OBVIOUS
  <2> HIDE DEF admission
  <2>2. CASE ncs = cs /\ nb.concurrent = b.concurrent /\ nb.halfOpen = b.halfOpen
    BY <1>2, <1>5, <2>2
  <2>3. CASE /\ ncs = [cs EXCEPT ![c] = admission]
             /\ nb.concurrent = b.concurrent + 1
             /\ b.state = "HALF_OPEN" => nb.halfOpen = b.halfOpen + 1
             /\ b.state # "HALF_OPEN" => nb.halfOpen = 0
    <3>1. ncs[c] = admission
      BY <1>5, <2>3
    <3> QED BY <2>1, <2>3, <3>1
  <2> QED BY <1>7, <2>2, <2>3
<1>14. HoldsItsOwn'
  <2> SUFFICES ASSUME NEW d \in Calls, calls'[d].pc \in {"success", "pending"}
               PROVE  /\ calls'[d].own \/ calls'[d].probe => calls'[d].held
                      /\ calls'[d].held => breakers'[calls'[d].key] # NoBreaker
    BY DEF HoldsItsOwn
  <2>1. d # c
    BY <1>9, <1>13
  <2>2. /\ calls[d].pc \in {"success", "pending"} /\ calls[d].key \in Keys
        /\ calls'[d].key = calls[d].key
    BY SMTT(90), <1>5, <1>9, <1>12, <2>1 DEF IInv, TypeOK, CallStates
  <2>3. CASE calls[d].key \in dropped
    BY <1>5, <1>9, <1>12, <2>1, <2>3
  <2>4. CASE calls[d].key \notin dropped
    <3>1. new[calls[d].key] = nb \/ new[calls[d].key] = breakers[calls[d].key]
      BY <1>8, <2>2, <2>4
    <3> QED BY SMTT(90), <1>5, <1>9, <1>12, <2>1, <2>2, <2>4, <3>1, NewBreaker DEF IInv, HoldsItsOwn
  <2> QED BY <2>3, <2>4
<1>15. ASSUME NEW j \in Keys
       PROVE  /\ Counts(breakers[j].concurrent, breakers'[j].concurrent, Own(j), Own(j)', c)
              /\ Counts(breakers[j].halfOpen, breakers'[j].halfOpen, Probes(j), Probes(j)', c)
  <2>1. c \notin Own(j) /\ c \notin Probes(j)
    BY <1>2 DEF Own, Probes, Active
  <2>2. CASE j # k /\ j \in dropped
    <3>1. breakers'[j] = NoBreaker
      BY <1>1, <1>8, <1>9, <2>2
    <3> QED BY <3>1, NewBreaker DEF Counts
  <2>3. CASE j # k /\ j \notin dropped
    <3>1. breakers'[j] = breakers[j]
      BY <1>8, <1>9, <2>3
    <3>2. Own(j) \subseteq Own(j)'
      BY SMTT(90), <1>5, <1>9, <1>12, <2>1, <2>3 DEF Own, Active
    <3>3. breakers[j].state = "HALF_OPEN" => Probes(j) \subseteq Probes(j)'
      BY SMTT(90), <1>5, <1>9, <1>12, <2>1, <2>3, <3>1 DEF Probes, Active
    <3>4. breakers[j].state # "HALF_OPEN" => breakers'[j].halfOpen = 0
      BY <3>1 DEF IInv, ProbesWhenHalfOpen, Sane
    <3> QED BY <3>1, <3>2, <3>3, <3>4 DEF Counts
  <2>4. CASE j = k
    <3>1. breakers'[k] = nb
      BY <1>8, <1>9
    <3>2. CASE map[k] = NoBreaker
      <4>1. b.concurrent = 0 /\ b.halfOpen = 0
        BY <1>3, <1>4, <3>2, NewBreaker
      <4>2. CASE ncs[c] = cs[c] /\ nb.concurrent = b.concurrent /\ nb.halfOpen = b.halfOpen
        BY <2>4, <3>1, <4>1, <4>2 DEF Counts
      <4>3. CASE /\ ncs[c].pc = "running" /\ ncs[c].key = k /\ ncs[c].own
                 /\ ncs[c].probe <=> b.state = "HALF_OPEN"
                 /\ nb.concurrent = 1
                 /\ b.state = "HALF_OPEN" => nb.halfOpen = 1
                 /\ b.state # "HALF_OPEN" => nb.halfOpen = 0
        <5>1. c \in Own(k)'
          BY <1>9, <4>3 DEF Own, Active
        <5>2. b.state = "HALF_OPEN" => c \in Probes(k)'
          BY <1>7, <1>8, <1>9, <4>3 DEF Probes, Active
        <5> QED BY <2>4, <3>1, <4>3, <5>1, <5>2 DEF Counts
      <4> QED BY SMTT(90), <1>13, <4>1, <4>2, <4>3
    <3>3. CASE map[k] # NoBreaker
      <4>1. /\ k \notin dropped /\ b.concurrent = breakers[k].concurrent
            /\ b.halfOpen = breakers[k].halfOpen
        BY <1>3, <1>4, <3>3
      <4>2. Own(k) \subseteq Own(k)'
        BY SMTT(90), <1>5, <1>9, <1>12, <2>1, <2>4, <4>1 DEF Own, Active
      <4>3. b.state = "HALF_OPEN" => Probes(k) \subseteq Probes(k)'
        BY SMTT(90), <1>5, <1>7, <1>8, <1>9, <1>12, <2>1, <2>4, <4>1 DEF Probes, Active
      <4>4. b.state # "HALF_OPEN" => nb.halfOpen = 0
        BY <1>7 DEF Sane
      <4>5. \/ nb.concurrent = breakers[k].concurrent
            \/ nb.concurrent = breakers[k].concurrent + 1 /\ c \in Own(k)'
        BY <1>9, <1>13, <4>1 DEF Own, Active
      <4>6. b.state = "HALF_OPEN" => \/ nb.halfOpen = breakers[k].halfOpen
                                     \/ nb.halfOpen = breakers[k].halfOpen + 1 /\ c \in Probes(k)'
        BY <1>7, <1>8, <1>9, <1>13, <4>1 DEF Probes, Active
      <4> QED BY <2>1, <2>4, <3>1, <4>2, <4>3, <4>4, <4>5, <4>6 DEF Counts
    <3> QED BY <3>2, <3>3
  <2> QED BY <2>2, <2>3, <2>4
<1>16. NoLeakedSlot' /\ NoLeakedProbe'
  BY <1>10, <1>15, Counting DEF IInv
<1> QED BY <1>10, <1>11, <1>14, <1>16 DEF IInv

\* A call ends and its breaker counts it no more: the common part of
\* RecordFailureOf and of a report.
LEMMA EndInv ==
    ASSUME IInv, NEW c \in Calls, NEW nb \in Breakers, Sane(nb),
           calls[c].pc # "idle",
           Update([breakers EXCEPT ![calls[c].key] = nb], [calls EXCEPT ![c] = Idle]),
           \/ nb.concurrent = 0
           \/ nb.concurrent = breakers[calls[c].key].concurrent - 1,
           \/ nb.halfOpen = 0
           \/ /\ nb.halfOpen = breakers[calls[c].key].halfOpen - 1
              /\ nb.state = "HALF_OPEN",
           cleaned' = cleaned, strays' \in [Keys -> Nat]
    PROVE  IInv'
<1> DEFINE k == calls[c].key
           new == [breakers EXCEPT ![k] = nb]
           cs == [calls EXCEPT ![c] = Idle]
<1>1. k \in Keys
  BY DEF IInv, TypeOK, CallStates
<1>2. /\ new \in [Keys -> Breakers \cup {NoBreaker}]
      /\ new[k] = nb /\ \A j \in Keys : j # k => new[j] = breakers[j]
  BY <1>1 DEF IInv, TypeOK
<1>3. /\ cs \in [Calls -> CallStates]
      /\ cs[c] = Idle /\ \A d \in Calls : d # c => cs[d] = calls[d]
  BY IdleCall DEF IInv, TypeOK
<1> HIDE DEF k, new, cs
<1>4. /\ breakers' = new
      /\ calls' \in [Calls -> CallStates]
      /\ opened' \in [Keys -> 0..RecoveryTimeout]
      /\ \A d \in Calls :
            /\ calls'[d].pc = cs[d].pc /\ calls'[d].key = cs[d].key
            /\ calls'[d].own = cs[d].own /\ calls'[d].held = cs[d].held
            /\ calls'[d].probe <=> (cs[d].probe /\ new[cs[d].key].state = "HALF_OPEN")
  <2>1. Update(new, cs)
    BY DEF new, cs, k
  <2> QED BY <1>2, <1>3, <2>1, Updating DEF IInv
<1>5. TypeOK'
  BY <1>2, <1>4 DEF IInv, TypeOK
<1>6. ProbesWhenHalfOpen'
  BY <1>2, <1>4 DEF IInv, ProbesWhenHalfOpen
<1>7. HoldsItsOwn'
  <2> SUFFICES ASSUME NEW d \in Calls, calls'[d].pc \in {"success", "pending"}
               PROVE  /\ calls'[d].own \/ calls'[d].probe => calls'[d].held
                      /\ calls'[d].held => breakers'[calls'[d].key] # NoBreaker
    BY DEF HoldsItsOwn
  <2>1. d # c
    BY <1>3, <1>4, IdleCall
  <2>2. calls[d].key \in Keys
    BY DEF IInv, TypeOK, CallStates
  <2>3. new[calls[d].key] = nb \/ new[calls[d].key] = breakers[calls[d].key]
    BY <1>2, <2>2
  <2> QED BY SMTT(90), <1>3, <1>4, <2>1, <2>2, <2>3, NewBreaker DEF IInv, HoldsItsOwn
<1>8. ASSUME NEW j \in Keys
      PROVE  /\ Counts(breakers[j].concurrent, breakers'[j].concurrent, Own(j), Own(j)', c)
             /\ Counts(breakers[j].halfOpen, breakers'[j].halfOpen, Probes(j), Probes(j)', c)
  <2>1. CASE j # k
    <3>1. breakers'[j] = breakers[j]
      BY <1>2, <1>4, <2>1
    <3>2. c \notin Own(j) /\ c \notin Probes(j)
      BY <2>1 DEF Own, Probes, Active, k
    <3>3. Own(j) \subseteq Own(j)'
      BY SMTT(90), <1>3, <1>4, <3>2 DEF Own, Active
    <3>4. breakers[j].state = "HALF_OPEN" => Probes(j) \subseteq Probes(j)'
      BY SMTT(90), <1>3, <1>4, <3>1, <3>2 DEF Probes, Active
    <3>5. breakers[j].state # "HALF_OPEN" => breakers'[j].halfOpen = 0
      BY <3>1 DEF IInv, ProbesWhenHalfOpen, Sane
    <3> QED BY <3>1, <3>3, <3>4, <3>5 DEF Counts
  <2>2. CASE j = k
    <3>1. breakers'[j] = nb
      BY <1>2, <1>4, <2>2
    <3>2. Own(j) \ {c} \subseteq Own(j)'
      BY <1>3, <1>4 DEF Own, Active
    <3>3. nb.state = "HALF_OPEN" => Probes(j) \ {c} \subseteq Probes(j)'
      BY SMTT(90), <1>2, <1>3, <1>4, <2>2 DEF Probes, Active
    <3>4. /\ nb.concurrent = 0 \/ nb.concurrent = breakers[j].concurrent - 1
          /\ \/ nb.halfOpen = 0
             \/ nb.halfOpen = breakers[j].halfOpen - 1 /\ nb.state = "HALF_OPEN"
      BY <2>2 DEF k
    <3> QED BY <3>1, <3>2, <3>3, <3>4 DEF Counts
  <2> QED BY <2>1, <2>2
<1>9. NoLeakedSlot' /\ NoLeakedProbe'
  BY <1>5, <1>8, Counting DEF IInv
<1> QED BY <1>5, <1>6, <1>7, <1>9 DEF IInv

\* A failure keeps the invariant.
LEMMA RecordFailureInv ==
    ASSUME IInv, NEW c \in Calls, RecordFailureOf(c)
    PROVE  IInv'
<1> DEFINE k == calls[c].key
           old == getOrCreate(breakers, k)
<1>1. k \in Keys
  BY DEF IInv, TypeOK, CallStates
<1>2. /\ old \in Breakers /\ Sane(old)
      /\ old.concurrent = breakers[k].concurrent
  BY <1>1, NewBreaker DEF getOrCreate, IInv, TypeOK, ProbesWhenHalfOpen
<1> HIDE DEF old
<1>3. /\ RecordFailure(old) \in Breakers /\ RecordFailure(old).halfOpen = 0
      /\ \/ RecordFailure(old).concurrent = 0
         \/ RecordFailure(old).concurrent = breakers[k].concurrent - 1
  BY <1>2, Failure
<1>4. /\ Update([breakers EXCEPT ![k] = RecordFailure(old)], [calls EXCEPT ![c] = Idle])
      /\ calls[c].pc # "idle" /\ cleaned' = cleaned
  BY DEF RecordFailureOf, old
<1>5. strays' \in [Keys -> Nat]
  BY StrayCount DEF RecordFailureOf, IInv
<1>6. Sane(RecordFailure(old))
  BY <1>3 DEF Sane
<1> HIDE DEF k
<1>7. k = calls[c].key
  BY DEF k
<1> QED BY <1>3, <1>4, <1>5, <1>6, <1>7, EndInv

\* Looking a breaker up keeps the invariant.
LEMMA LookupInv ==
    ASSUME IInv, NEW c \in Calls, NEW result \in {"success", "pending"}, Lookup(c, result)
    PROVE  IInv'
<1>1. calls[c] \in CallStates /\ calls[c].key \in Keys /\ calls[c].pc = "running"
  BY DEF IInv, TypeOK, CallStates, Lookup
<1>2. UNCHANGED <<breakers, cleaned, opened, strays>>
  BY DEF Lookup
<1>3. CASE breakers[calls[c].key] = NoBreaker
  <2>1. calls' = [calls EXCEPT ![c] = Idle]
    BY <1>3 DEF Lookup
  <2>2. TypeOK'
    BY <1>2, <2>1, IdleCall DEF IInv, TypeOK
  <2>3. \A d \in Calls : IF d = c THEN calls'[d] = Idle ELSE calls'[d] = calls[d]
    BY <2>1 DEF IInv, TypeOK
  <2>4. HoldsItsOwn'
    BY <1>2, <2>3, IdleCall DEF IInv, HoldsItsOwn
  <2>5. ASSUME NEW j \in Keys
        PROVE  /\ Counts(breakers[j].concurrent, breakers'[j].concurrent, Own(j), Own(j)', c)
               /\ Counts(breakers[j].halfOpen, breakers'[j].halfOpen, Probes(j), Probes(j)', c)
    <3>1. CASE j = calls[c].key
      BY <1>2, <1>3, <3>1, NewBreaker DEF Counts
    <3>2. CASE j # calls[c].key
      <4>1. Own(j) \subseteq Own(j)' /\ Probes(j) \subseteq Probes(j)'
        BY <2>3, <3>2 DEF Own, Probes, Active
      <4> QED BY <1>2, <4>1 DEF Counts
    <3> QED BY <3>1, <3>2
  <2>6. NoLeakedSlot' /\ NoLeakedProbe'
    BY <2>2, <2>5, Counting DEF IInv
  <2> QED BY <1>2, <2>2, <2>4, <2>6 DEF IInv, ProbesWhenHalfOpen
<1>4. CASE breakers[calls[c].key] # NoBreaker
  <2> DEFINE n == [calls[c] EXCEPT !.pc = result, !.held = TRUE]
  <2>1. /\ n \in CallStates /\ n.pc = result /\ n.held
        /\ n.key = calls[c].key /\ n.own = calls[c].own /\ n.probe = calls[c].probe
    BY <1>1 DEF CallStates
  <2>2. calls' = [calls EXCEPT ![c] = n]
    BY <1>4 DEF Lookup
  <2> HIDE DEF n
  <2>3. TypeOK'
    BY <1>2, <2>1, <2>2 DEF IInv, TypeOK
  <2>4. \A d \in Calls : IF d = c THEN calls'[d] = n ELSE calls'[d] = calls[d]
    BY <2>2 DEF IInv, TypeOK
  <2>5. HoldsItsOwn'
    BY <1>2, <1>4, <2>1, <2>4 DEF IInv, HoldsItsOwn
  <2>6. \A j \in Keys : Own(j) \subseteq Own(j)' /\ Probes(j) \subseteq Probes(j)'
    BY <1>1, <2>1, <2>4 DEF Own, Probes, Active
  <2>7. NoLeakedSlot' /\ NoLeakedProbe'
    BY <1>2, <2>3, <2>6, Counting DEF IInv, Counts
  <2> QED BY <1>2, <2>3, <2>5, <2>7 DEF IInv, ProbesWhenHalfOpen
<1> QED BY <1>3, <1>4

\* A report keeps the invariant, whether its breaker is still in the map or not.
LEMMA ReportInv ==
    ASSUME IInv, NEW c \in Calls, Report(c)
    PROVE  IInv'
<1> DEFINE k == calls[c].key
           told == IF calls[c].pc = "success" THEN RecordSuccess(breakers[k])
                   ELSE RecordPending(breakers[k])
           cs == [calls EXCEPT ![c] = Idle]
<1>1. /\ calls[c].pc \in {"success", "pending"} /\ k \in Keys
      /\ \/ calls[c].held /\ Update([breakers EXCEPT ![k] = told], cs)
         \/ ~calls[c].held /\ Update(breakers, cs)
      /\ cleaned' = cleaned
  BY DEF Report, IInv, TypeOK, CallStates
<1>2. strays' \in [Keys -> Nat]
  BY StrayCount DEF Report, IInv
<1>3. CASE calls[c].held /\ Update([breakers EXCEPT ![k] = told], cs)
  <2>1. breakers[k] \in Breakers /\ Sane(breakers[k])
    BY <1>1, <1>3 DEF IInv, TypeOK, HoldsItsOwn, ProbesWhenHalfOpen
  <2>2. /\ told \in Breakers /\ Sane(told)
        /\ told.concurrent = 0 \/ told.concurrent = breakers[k].concurrent - 1
        /\ \/ told.halfOpen = 0
           \/ told.halfOpen = breakers[k].halfOpen - 1 /\ told.state = "HALF_OPEN"
    BY <2>1, Success, Pending DEF Sane
  <2>3. calls[c].pc # "idle"
    BY <1>1
  <2> HIDE DEF told
  <2> QED BY <1>1, <1>2, <1>3, <2>2, <2>3, EndInv
<1>4. CASE ~calls[c].held /\ Update(breakers, cs)
  <2>1. ~calls[c].own /\ ~calls[c].probe
    BY <1>1, <1>4 DEF IInv, HoldsItsOwn
  <2>2. /\ cs \in [Calls -> CallStates]
        /\ cs[c] = Idle /\ \A d \in Calls : d # c => cs[d] = calls[d]
    BY IdleCall DEF IInv, TypeOK
  <2> HIDE DEF cs, k
  <2>3. /\ breakers' = breakers
        /\ calls' \in [Calls -> CallStates]
        /\ opened' \in [Keys -> 0..RecoveryTimeout]
        /\ \A d \in Calls :
              /\ calls'[d].pc = cs[d].pc /\ calls'[d].key = cs[d].key
              /\ calls'[d].own = cs[d].own /\ calls'[d].held = cs[d].held
              /\ calls'[d].probe <=> (cs[d].probe /\ breakers[cs[d].key].state = "HALF_OPEN")
    BY <1>4, <2>2, Updating DEF IInv, TypeOK
  <2>4. TypeOK'
    BY <1>1, <1>2, <2>3 DEF IInv, TypeOK
  <2>5. HoldsItsOwn'
    BY SMTT(90), <2>2, <2>3, IdleCall DEF IInv, HoldsItsOwn
  <2>6. ASSUME NEW j \in Keys
        PROVE  /\ Counts(breakers[j].concurrent, breakers'[j].concurrent, Own(j), Own(j)', c)
               /\ Counts(breakers[j].halfOpen, breakers'[j].halfOpen, Probes(j), Probes(j)', c)
    <3>1. Own(j) \subseteq Own(j)'
      BY SMTT(90), <2>1, <2>2, <2>3 DEF Own, Active
    <3>2. breakers[j].state = "HALF_OPEN" => Probes(j) \subseteq Probes(j)'
      BY SMTT(90), <2>1, <2>2, <2>3 DEF Probes, Active
    <3>3. breakers[j].state # "HALF_OPEN" => breakers'[j].halfOpen = 0
      BY <2>3 DEF IInv, ProbesWhenHalfOpen, Sane
    <3> QED BY <2>3, <3>1, <3>2, <3>3 DEF Counts
  <2>7. NoLeakedSlot' /\ NoLeakedProbe'
    BY <2>4, <2>6, Counting DEF IInv
  <2> QED BY <2>3, <2>4, <2>5, <2>7 DEF IInv, ProbesWhenHalfOpen
<1> QED BY <1>1, <1>3, <1>4

\* Replacing a breaker keeps the invariant: the new one counts nothing.
LEMMA ResetInv ==
    ASSUME IInv, NEW k \in Keys, ResetNodeClass(k)
    PROVE  IInv'
<1>1. /\ breakers' = [breakers EXCEPT ![k] = NewCircuitBreaker]
      /\ calls' = Orphaned({k})
      /\ opened' = [opened EXCEPT ![k] = RecoveryTimeout]
      /\ cleaned' = cleaned
  BY DEF ResetNodeClass
<1>2. /\ breakers' \in [Keys -> Breakers \cup {NoBreaker}]
      /\ breakers'[k] = NewCircuitBreaker
      /\ \A j \in Keys : j # k => breakers'[j] = breakers[j]
  BY <1>1, NewBreaker DEF IInv, TypeOK
<1>3. /\ calls' \in [Calls -> CallStates]
      /\ \A d \in Calls :
            /\ calls'[d].pc = calls[d].pc /\ calls'[d].key = calls[d].key
            /\ calls[d].key # k => calls'[d] = calls[d]
            /\ calls[d].key = k => ~calls'[d].own /\ ~calls'[d].held /\ ~calls'[d].probe
  BY <1>1, Orphaning DEF IInv
<1>4. TypeOK'
  <2>1. opened' \in [Keys -> 0..RecoveryTimeout]
    BY SMTT(90), <1>1, BreakerAssumption DEF IInv, TypeOK
  <2>2. strays' \in [Keys -> Nat]
    BY StrayCount DEF ResetNodeClass, IInv
  <2> QED BY <1>1, <1>2, <1>3, <2>1, <2>2 DEF IInv, TypeOK
<1>5. ProbesWhenHalfOpen'
  BY <1>2, NewBreaker DEF IInv, ProbesWhenHalfOpen
<1>6. HoldsItsOwn'
  <2> SUFFICES ASSUME NEW d \in Calls, calls'[d].pc \in {"success", "pending"}
               PROVE  /\ calls'[d].own \/ calls'[d].probe => calls'[d].held
                      /\ calls'[d].held => breakers'[calls'[d].key] # NoBreaker
    BY DEF HoldsItsOwn
  <2>1. calls[d].key \in Keys
    BY DEF IInv, TypeOK, CallStates
  <2> QED BY SMTT(90), <1>2, <1>3, <2>1 DEF IInv, HoldsItsOwn
<1>7. NoLeakedSlot' /\ NoLeakedProbe'
  <2>1. \A j \in Keys : j # k => Own(j) \subseteq Own(j)' /\ Probes(j) \subseteq Probes(j)'
    BY <1>3 DEF Own, Probes, Active
  <2>2. \A j \in Keys :
           /\ Counts(breakers[j].concurrent, breakers'[j].concurrent, Own(j), Own(j)', k)
           /\ Counts(breakers[j].halfOpen, breakers'[j].halfOpen, Probes(j), Probes(j)', k)
    BY <1>2, <2>1, NewBreaker DEF Counts
  <2> QED BY <1>4, <2>2, Counting DEF IInv
<1> QED BY <1>4, <1>5, <1>6, <1>7 DEF IInv

\* Time keeps the invariant.
LEMMA TickInv ==
    ASSUME IInv, Tick
    PROVE  IInv'
<1>1. ASSUME NEW k \in Keys
      PROVE  /\ breakers'[k] \in Breakers \cup {NoBreaker}
             /\ breakers'[k].state = breakers[k].state
             /\ breakers'[k].halfOpen = breakers[k].halfOpen
             /\ breakers'[k].concurrent = breakers[k].concurrent
             /\ breakers[k] # NoBreaker => breakers'[k] # NoBreaker
  <2>1. breakers'[k] = IF breakers[k] = NoBreaker THEN NoBreaker ELSE Aged(breakers[k])
    BY DEF Tick
  <2> QED BY SMTT(90), <2>1, Aging, NewBreaker DEF IInv, TypeOK
<1>2. ASSUME NEW d \in Calls
      PROVE  /\ calls'[d] \in CallStates
             /\ calls'[d].pc = calls[d].pc /\ calls'[d].key = calls[d].key
             /\ calls'[d].own = calls[d].own /\ calls'[d].held = calls[d].held
             /\ calls'[d].probe = calls[d].probe
  <2>1. calls[d] \in CallStates
    BY DEF IInv, TypeOK
  <2>2. CASE calls[d].pc = "idle"
    BY <2>1, <2>2 DEF Tick
  <2>3. CASE calls[d].pc # "idle"
    <3>1. calls'[d] = [calls[d] EXCEPT !.age = @ + 1] /\ calls[d].age < MaxDuration
      BY <2>3 DEF Tick
    <3>2. calls[d].age + 1 \in 0..MaxDuration
      BY SMTT(90), <2>1, <3>1, ManagerAssumption DEF CallStates
    <3> QED BY <2>1, <3>1, <3>2 DEF CallStates
  <2> QED BY <2>2, <2>3
<1>3. TypeOK'
  <2>1. breakers' \in [Keys -> Breakers \cup {NoBreaker}] /\ calls' \in [Calls -> CallStates]
    BY <1>1, <1>2 DEF Tick
  <2>2. cleaned' \in 0..CleanupInterval
    BY SMTT(90), ManagerAssumption DEF Tick, IInv, TypeOK, Older
  <2>3. opened' \in [Keys -> 0..RecoveryTimeout]
    BY SMTT(90), BreakerAssumption DEF Tick, IInv, TypeOK, Older
  <2>4. strays' \in [Keys -> Nat]
    BY DEF Tick, IInv, TypeOK
  <2> QED BY <2>1, <2>2, <2>3, <2>4 DEF IInv, TypeOK
<1>4. ProbesWhenHalfOpen'
  BY <1>1 DEF IInv, ProbesWhenHalfOpen, Sane
<1>5. HoldsItsOwn'
  <2>1. \A d \in Calls : calls[d].key \in Keys
    BY DEF IInv, TypeOK, CallStates
  <2> QED BY <1>1, <1>2, <2>1 DEF IInv, HoldsItsOwn
<1>6. \A k \in Keys : Own(k)' = Own(k) /\ Probes(k)' = Probes(k)
  BY <1>2 DEF Own, Probes, Active
<1>7. NoLeakedSlot' /\ NoLeakedProbe'
  BY <1>1, <1>6 DEF IInv, NoLeakedSlot, NoLeakedProbe
<1> QED BY <1>3, <1>4, <1>5, <1>7 DEF IInv

-----------------------------------------------------------------------------
(* Induction *)

\* The first state, without breakers, satisfies the inductive invariant.
LEMMA InitInv == Init => IInv
<1> SUFFICES ASSUME Init PROVE IInv
  OBVIOUS
<1>1. TypeOK
  BY SMTT(90), NewBreaker, IdleCall, BreakerAssumption, ManagerAssumption DEF Init, TypeOK
<1>2. ProbesWhenHalfOpen /\ HoldsItsOwn
  BY NewBreaker, IdleCall DEF Init, ProbesWhenHalfOpen, HoldsItsOwn
<1>3. \A k \in Keys : Own(k) = {} /\ Probes(k) = {}
  BY IdleCall DEF Init, Own, Probes, Active
<1>4. NoLeakedSlot /\ NoLeakedProbe
  BY SMTT(90), <1>3, NewBreaker, FS_EmptySet DEF Init, NoLeakedSlot, NoLeakedProbe
<1> QED BY <1>1, <1>2, <1>4 DEF IInv

\* Every step keeps the inductive invariant.
LEMMA NextInv == IInv /\ [Next]_vars => IInv'
<1> SUFFICES ASSUME IInv, [Next]_vars PROVE IInv'
  OBVIOUS
<1>1. ASSUME NEW c \in Calls, Finish(c) PROVE IInv'
  BY <1>1, RecordFailureInv, LookupInv, ReportInv DEF Finish
<1>2. ASSUME NEW c \in Calls, NEW k \in Keys, CanProvision(c, k) PROVE IInv'
  BY <1>2, CanProvisionInv
<1>3. ASSUME NEW k \in Keys, ResetNodeClass(k) PROVE IInv'
  BY <1>3, ResetInv
<1>4. CASE Tick
  BY <1>4, TickInv
<1>5. CASE UNCHANGED vars
  BY <1>5 DEF vars, IInv, TypeOK, ProbesWhenHalfOpen, HoldsItsOwn, NoLeakedSlot,
              NoLeakedProbe, Own, Probes, Active
<1> QED BY <1>1, <1>2, <1>3, <1>4, <1>5 DEF Next

\* The inductive invariant holds in every reachable state.
THEOREM Invariance == Spec => []IInv
BY InitInv, NextInv, PTL DEF Spec


-----------------------------------------------------------------------------
(* Counters *)

\* The state of the breakers and of the calls is well typed; in particular no
\* counter is ever negative.
THEOREM BreakersTypeCorrect == Spec => []TypeOK
<1>1. IInv => TypeOK
  BY DEF IInv
<1> QED BY <1>1, Invariance, PTL

\* No concurrency slot of a breaker leaks.
THEOREM NeverLeaksSlot == Spec => []NoLeakedSlot
<1>1. IInv => NoLeakedSlot
  BY DEF IInv
<1> QED BY <1>1, Invariance, PTL

\* No probe of a half-open breaker leaks.
THEOREM NeverLeaksProbe == Spec => []NoLeakedProbe
<1>1. IInv => NoLeakedProbe
  BY DEF IInv
<1> QED BY <1>1, Invariance, PTL

-----------------------------------------------------------------------------
(* When the circuit opened *)

\* How the history of openings follows a step.
Reopens ==
    opened' = [k \in Keys |-> IF breakers'[k].state = "OPEN" /\ breakers[k].state # "OPEN"
                              THEN 0 ELSE opened[k]]

\* The other calls go on as they were, and stay probes while their circuit is half
\* open.
Others(c) ==
    \A d \in Calls \ {c} :
        /\ calls'[d].pc = calls[d].pc /\ calls'[d].key = calls[d].key
        /\ calls'[d].probe <=> (calls[d].probe /\ breakers'[calls[d].key].state = "HALF_OPEN")

\* What Update does to the history of openings.
LEMMA UpdatingHistory ==
    ASSUME NEW map, NEW cs, Update(map, cs)
    PROVE  Reopens
BY DEF Update, Reopens

\* What CanProvision does: it drops unused breakers, refreshes that of its key, or
\* a new one, and admits its call if the refreshed breaker allows it.
LEMMA ProvisionEffect ==
    ASSUME IInv, NEW c \in Calls, NEW k \in Keys, CanProvision(c, k)
    PROVE  \E g \in Breakers, b \in Breakers :
              /\ \/ g = breakers[k]
                 \/ /\ g = NewCircuitBreaker
                    /\ breakers[k] = NoBreaker \/ Unused(breakers[k])
              /\ b = refreshed(g) /\ Sane(g)
              /\ breakers'[k].state = b.state /\ breakers'[k].since = b.since
              /\ \A j \in Keys \ {k} :
                    \/ breakers'[j] = breakers[j]
                    \/ breakers'[j] = NoBreaker /\ Unused(breakers[j])
              /\ Reopens /\ Others(c) /\ calls[c].pc = "idle"
              /\ \/ calls'[c].pc = "idle" /\ breakers'[k].halfOpen = b.halfOpen
                 \/ /\ allowed(b) /\ breakers'[k].halfOpen = admitted(b).halfOpen
                    /\ calls'[c].pc = "running" /\ calls'[c].key = k
                    /\ calls'[c].probe <=> b.state = "HALF_OPEN"
<1> DEFINE map == cleanupUnusedBreakersIfNeeded
           dropped == {j \in Keys : breakers[j] # map[j]}
           g == getOrCreate(map, k)
           b == refreshed(g)
           admission == [pc |-> "running", key |-> k, own |-> TRUE, held |-> FALSE,
                         probe |-> b.state = "HALF_OPEN", age |-> 0]
           cs == Orphaned(dropped)
<1>1. /\ map \in [Keys -> Breakers \cup {NoBreaker}]
      /\ \A j \in Keys : \/ map[j] = breakers[j]
                         \/ map[j] = NoBreaker /\ Unused(breakers[j])
  BY DEF IInv, TypeOK, cleanupUnusedBreakersIfNeeded
<1>2. /\ \/ allowed(b) /\ Update([map EXCEPT ![k] = admitted(b)], [cs EXCEPT ![c] = admission])
         \/ ~allowed(b) /\ Update([map EXCEPT ![k] = b], cs)
      /\ calls[c].pc = "idle"
  BY DEF CanProvision
<1> HIDE DEF map
<1>3. /\ g \in Breakers /\ Sane(g)
      /\ \/ g = breakers[k] /\ map[k] = breakers[k]
         \/ /\ g = NewCircuitBreaker /\ map[k] = NoBreaker
            /\ breakers[k] = NoBreaker \/ Unused(breakers[k])
  BY <1>1, NewBreaker DEF getOrCreate, IInv, ProbesWhenHalfOpen
<1> HIDE DEF g
<1>4. b \in Breakers /\ Sane(b)
  BY <1>3, Refreshing
<1>5. /\ cs \in [Calls -> CallStates]
      /\ \A d \in Calls :
            /\ cs[d].pc = calls[d].pc /\ cs[d].key = calls[d].key
            /\ calls[d].key \notin dropped => cs[d] = calls[d]
            /\ calls[d].key \in dropped => ~cs[d].probe
  BY Orphaning DEF IInv
<1> HIDE DEF cs
<1>6. g = NewCircuitBreaker => b.state = "CLOSED"
  BY <1>3, RefreshedState, NewBreaker
<1> HIDE DEF b
<1>7. PICK nb \in Breakers, ncs \in [Calls -> CallStates] :
         /\ Update([map EXCEPT ![k] = nb], ncs)
         /\ nb.state = b.state /\ nb.since = b.since
         /\ \/ /\ allowed(b) /\ nb.halfOpen = admitted(b).halfOpen
               /\ ncs = [cs EXCEPT ![c] = admission]
            \/ ncs = cs /\ nb.halfOpen = b.halfOpen
  <2>1. CASE allowed(b) /\ Update([map EXCEPT ![k] = admitted(b)], [cs EXCEPT ![c] = admission])
    <3>1. admission \in CallStates
      BY SMTT(90), ManagerAssumption DEF CallStates
    <3> HIDE DEF admission
    <3>2. [cs EXCEPT ![c] = admission] \in [Calls -> CallStates]
      BY <1>5, <3>1
    <3> QED BY <1>4, <2>1, <3>2, Admitting, AdmittedState
  <2>2. CASE ~allowed(b) /\ Update([map EXCEPT ![k] = b], cs)
    BY <1>4, <1>5, <2>2
  <2> QED BY <1>2, <2>1, <2>2
<1> DEFINE new == [map EXCEPT ![k] = nb]
<1>8. /\ new \in [Keys -> Breakers \cup {NoBreaker}]
      /\ new[k] = nb /\ \A j \in Keys : j # k => new[j] = map[j]
  BY <1>1
<1> HIDE DEF new
<1>9. /\ breakers' = new /\ Reopens
      /\ \A d \in Calls :
            /\ calls'[d].pc = ncs[d].pc /\ calls'[d].key = ncs[d].key
            /\ calls'[d].probe <=> (ncs[d].probe /\ new[ncs[d].key].state = "HALF_OPEN")
  <2>1. Update(new, ncs)
    BY <1>7 DEF new
  <2>2. Reopens
    BY <2>1, UpdatingHistory
  <2> QED BY <1>8, <2>1, <2>2, Updating DEF IInv
<1>10. \/ ncs = cs /\ nb.halfOpen = b.halfOpen
       \/ /\ allowed(b) /\ nb.halfOpen = admitted(b).halfOpen
          /\ \A d \in Calls : d # c => ncs[d] = cs[d]
          /\ ncs[c].pc = "running" /\ ncs[c].key = k
          /\ ncs[c].probe <=> b.state = "HALF_OPEN"
  <2>1. /\ admission.pc = "running" /\ admission.key = k
        /\ admission.probe <=> b.state = "HALF_OPEN"
    OBVIOUS
  <2> HIDE DEF admission
  <2> QED BY <1>5, <1>7, <2>1
<1>11. \A j \in Keys : j \in dropped => new[j].state # "HALF_OPEN"
  BY <1>1, <1>3, <1>6, <1>7, <1>8, NewBreaker
<1>12. Others(c)
  <2> SUFFICES ASSUME NEW d \in Calls \ {c}
               PROVE  /\ calls'[d].pc = calls[d].pc /\ calls'[d].key = calls[d].key
                      /\ calls'[d].probe <=> (calls[d].probe
                                              /\ breakers'[calls[d].key].state = "HALF_OPEN")
    BY DEF Others
  <2>1. ncs[d] = cs[d] /\ calls[d].key \in Keys
    BY <1>10 DEF IInv, TypeOK, CallStates
  <2> HIDE DEF dropped
  <2> QED BY SMTT(90), <1>5, <1>9, <1>11, <2>1
<1>13. \/ calls'[c].pc = "idle" /\ breakers'[k].halfOpen = b.halfOpen
       \/ /\ allowed(b) /\ breakers'[k].halfOpen = admitted(b).halfOpen
          /\ calls'[c].pc = "running" /\ calls'[c].key = k
          /\ calls'[c].probe <=> b.state = "HALF_OPEN"
  BY SMTT(90), <1>2, <1>5, <1>7, <1>8, <1>9, <1>10
<1>14. \A j \in Keys \ {k} : \/ breakers'[j] = breakers[j]
                             \/ breakers'[j] = NoBreaker /\ Unused(breakers[j])
  BY <1>1, <1>8, <1>9
<1>15. b = refreshed(g)
  BY DEF b
<1> QED BY <1>2, <1>3, <1>4, <1>7, <1>8, <1>9, <1>12, <1>13, <1>14, <1>15

\* What the end of a call does: the call is gone and only its breaker changes.
LEMMA EndEffect ==
    ASSUME IInv, NEW c \in Calls, NEW nb \in Breakers \cup {NoBreaker},
           Update([breakers EXCEPT ![calls[c].key] = nb], [calls EXCEPT ![c] = Idle])
    PROVE  /\ breakers'[calls[c].key] = nb
           /\ \A j \in Keys : j # calls[c].key => breakers'[j] = breakers[j]
           /\ Reopens /\ Others(c) /\ calls'[c].pc = "idle"
<1> DEFINE new == [breakers EXCEPT ![calls[c].key] = nb]
           cs == [calls EXCEPT ![c] = Idle]
<1>1. /\ calls \in [Calls -> CallStates]
      /\ calls[c].key \in Keys /\ breakers \in [Keys -> Breakers \cup {NoBreaker}]
  BY DEF IInv, TypeOK, CallStates
<1>2. /\ cs \in [Calls -> CallStates] /\ cs[c] = Idle
      /\ \A d \in Calls : d # c => cs[d] = calls[d]
  BY <1>1, IdleCall
<1>3. /\ new \in [Keys -> Breakers \cup {NoBreaker}] /\ new[calls[c].key] = nb
      /\ \A j \in Keys : j # calls[c].key => new[j] = breakers[j]
  BY <1>1
<1> HIDE DEF new, cs
<1>4. Update(new, cs)
  BY DEF new, cs
<1>5. Reopens
  BY <1>4, UpdatingHistory
<1>6. /\ breakers' = new
      /\ \A d \in Calls :
            /\ calls'[d].pc = cs[d].pc /\ calls'[d].key = cs[d].key
            /\ calls'[d].probe <=> (cs[d].probe /\ new[cs[d].key].state = "HALF_OPEN")
  BY SMTT(90), <1>2, <1>3, <1>4, Updating DEF IInv
<1>7. Others(c)
  BY <1>2, <1>5, <1>6 DEF Others
<1> QED BY <1>2, <1>3, <1>5, <1>6, <1>7, IdleCall

\* What a result that reaches its breaker, or no longer reaches one, does.
LEMMA ReportEffect ==
    ASSUME IInv, NEW c \in Calls, Report(c)
    PROVE  /\ \/ /\ calls[c].held /\ breakers[calls[c].key] \in Breakers
                 /\ \/ breakers'[calls[c].key] = RecordSuccess(breakers[calls[c].key])
                    \/ /\ calls[c].pc = "pending"
                       /\ breakers'[calls[c].key] = RecordPending(breakers[calls[c].key])
              \/ ~calls[c].held /\ ~calls[c].probe
                 /\ breakers'[calls[c].key] = breakers[calls[c].key]
           /\ \A j \in Keys : j # calls[c].key => breakers'[j] = breakers[j]
           /\ Reopens /\ Others(c)
           /\ calls[c].pc # "idle" /\ calls'[c].pc = "idle"
<1> DEFINE k == calls[c].key
           told == IF calls[c].pc = "success" THEN RecordSuccess(breakers[k])
                   ELSE RecordPending(breakers[k])
<1>1. /\ calls[c].pc \in {"success", "pending"}
      /\ \/ calls[c].held /\ Update([breakers EXCEPT ![k] = told], [calls EXCEPT ![c] = Idle])
         \/ ~calls[c].held /\ Update(breakers, [calls EXCEPT ![c] = Idle])
  BY DEF Report
<1>2. k \in Keys /\ breakers \in [Keys -> Breakers \cup {NoBreaker}]
  BY DEF IInv, TypeOK, CallStates
<1>3. CASE calls[c].held /\ Update([breakers EXCEPT ![k] = told], [calls EXCEPT ![c] = Idle])
  <2>1. breakers[k] \in Breakers /\ Sane(breakers[k])
    BY <1>1, <1>2, <1>3 DEF IInv, HoldsItsOwn, ProbesWhenHalfOpen
  <2>2. told \in Breakers
    BY <2>1, Success, Pending
  <2>3. \/ told = RecordSuccess(breakers[k])
        \/ calls[c].pc = "pending" /\ told = RecordPending(breakers[k])
    BY <1>1
  <2> HIDE DEF told
  <2>4. /\ breakers'[k] = told
        /\ \A j \in Keys : j # k => breakers'[j] = breakers[j]
        /\ Reopens /\ Others(c) /\ calls'[c].pc = "idle"
    BY <1>3, <2>2, EndEffect
  <2> QED BY <1>1, <1>3, <2>1, <2>3, <2>4
<1>4. CASE ~calls[c].held /\ Update(breakers, [calls EXCEPT ![c] = Idle])
  <2>1. [breakers EXCEPT ![k] = breakers[k]] = breakers
    BY <1>2
  <2>2. /\ breakers'[k] = breakers[k]
        /\ \A j \in Keys : j # k => breakers'[j] = breakers[j]
        /\ Reopens /\ Others(c) /\ calls'[c].pc = "idle"
    BY SMTT(90), <1>2, <1>4, <2>1, EndEffect
  <2>3. ~calls[c].probe
    BY <1>1, <1>4 DEF IInv, HoldsItsOwn
  <2> QED BY <1>1, <1>4, <2>2, <2>3
<1> QED BY <1>1, <1>3, <1>4

\* What a failure does to its breaker, or to a new one.
LEMMA FailureEffect ==
    ASSUME IInv, NEW c \in Calls, RecordFailureOf(c)
    PROVE  /\ \E g \in Breakers :
                 /\ \/ g = breakers[calls[c].key]
                    \/ g = NewCircuitBreaker /\ breakers[calls[c].key] = NoBreaker
                 /\ Sane(g) /\ breakers'[calls[c].key] = RecordFailure(g)
           /\ \A j \in Keys : j # calls[c].key => breakers'[j] = breakers[j]
           /\ Reopens /\ Others(c) /\ calls'[c].pc = "idle"
<1> DEFINE k == calls[c].key
           g == getOrCreate(breakers, k)
<1>1. Update([breakers EXCEPT ![k] = RecordFailure(g)], [calls EXCEPT ![c] = Idle])
  BY DEF RecordFailureOf
<1>2. k \in Keys /\ breakers \in [Keys -> Breakers \cup {NoBreaker}]
  BY DEF IInv, TypeOK, CallStates
<1>3. /\ g \in Breakers /\ Sane(g)
      /\ g = breakers[k] \/ (g = NewCircuitBreaker /\ breakers[k] = NoBreaker)
  BY <1>2, NewBreaker DEF getOrCreate, IInv, ProbesWhenHalfOpen
<1> HIDE DEF g
<1>4. RecordFailure(g) \in Breakers
  BY <1>3, Failure
<1>5. /\ breakers'[k] = RecordFailure(g)
      /\ \A j \in Keys : j # k => breakers'[j] = breakers[j]
      /\ Reopens /\ Others(c) /\ calls'[c].pc = "idle"
  BY <1>1, <1>4, EndEffect
<1> QED BY <1>3, <1>5

\* While a circuit has been open for less than RecoveryTimeout, it is in the map,
\* open, and knows when it opened.
Shut ==
    \A k \in Keys : opened[k] < RecoveryTimeout =>
        breakers[k].state = "OPEN" /\ breakers[k].since = opened[k]

\* A circuit that has just opened is shut, and one that was shut stays so unless
\* the step changes its state.
LEMMA StaysShut ==
    ASSUME TypeOK, Shut, Reopens, NEW k \in Keys,
           breakers[k].state = "OPEN" /\ breakers[k].since < RecoveryTimeout =>
              breakers'[k].state = "OPEN" /\ breakers'[k].since = breakers[k].since,
           breakers[k].state # "OPEN" /\ breakers'[k].state = "OPEN" => breakers'[k].since = 0
    PROVE  opened'[k] < RecoveryTimeout =>
              breakers'[k].state = "OPEN" /\ breakers'[k].since = opened'[k]
<1>1. opened'[k] = IF breakers'[k].state = "OPEN" /\ breakers[k].state # "OPEN"
                   THEN 0 ELSE opened[k]
  BY DEF Reopens
<1> QED BY <1>1 DEF Shut

\* The cleanup does not drop a circuit that opened less than UnusedAge ago.
LEMMA KeepsRecent ==
    ASSUME RecoveryTimeout <= UnusedAge, NEW b \in Breakers, Unused(b)
    PROVE  ~(b.since < RecoveryTimeout)
BY SMTT(90), BreakerAssumption DEF Unused, Breakers

\* Every step keeps an open circuit shut until RecoveryTimeout has passed.
LEMMA ShutNext ==
    ASSUME RecoveryTimeout <= UnusedAge, IInv, Shut, [Next]_vars
    PROVE  Shut'
<1>0. /\ TypeOK /\ breakers \in [Keys -> Breakers \cup {NoBreaker}]
      /\ opened \in [Keys -> 0..RecoveryTimeout]
      /\ \A c \in Calls : calls[c].key \in Keys
      /\ \A j \in Keys : breakers[j].state = "OPEN" => breakers[j] \in Breakers
  BY NewBreaker DEF IInv, TypeOK, CallStates
<1>1. ASSUME NEW c \in Calls, NEW k \in Keys, CanProvision(c, k) PROVE Shut'
  <2>1. PICK g \in Breakers, b \in Breakers :
           /\ \/ g = breakers[k]
              \/ /\ g = NewCircuitBreaker
                 /\ breakers[k] = NoBreaker \/ Unused(breakers[k])
           /\ b = refreshed(g)
           /\ breakers'[k].state = b.state /\ breakers'[k].since = b.since
           /\ \A j \in Keys \ {k} :
                 \/ breakers'[j] = breakers[j]
                 \/ breakers'[j] = NoBreaker /\ Unused(breakers[j])
           /\ Reopens
    BY SMTT(90), <1>1, ProvisionEffect
  <2> SUFFICES ASSUME NEW j \in Keys
               PROVE  opened'[j] < RecoveryTimeout =>
                         breakers'[j].state = "OPEN" /\ breakers'[j].since = opened'[j]
    BY DEF Shut
  <2>2. /\ breakers[j].state = "OPEN" /\ breakers[j].since < RecoveryTimeout =>
              breakers'[j].state = "OPEN" /\ breakers'[j].since = breakers[j].since
        /\ breakers[j].state # "OPEN" => breakers'[j].state # "OPEN"
    <3>1. breakers[j].state = "OPEN" /\ breakers[j].since < RecoveryTimeout =>
             ~Unused(breakers[j]) /\ breakers[j] # NoBreaker
      BY <1>0, KeepsRecent, NewBreaker
    <3>2. CASE j # k
      BY <2>1, <3>1, <3>2, NewBreaker
    <3>3. CASE j = k /\ g = breakers[k]
      <4>1. \/ b.state = g.state /\ b.since = g.since
            \/ g.state = "OPEN" /\ g.since >= RecoveryTimeout /\ b.state = "HALF_OPEN"
        <5>1. b = refreshed(g)
          BY <2>1
        <5> QED BY <5>1, RefreshedState
      <4>2. g.since \in Nat /\ RecoveryTimeout \in Nat
        BY BreakerAssumption DEF Breakers
      <4> QED BY SMTT(90), <2>1, <3>3, <4>1, <4>2
    <3>4. CASE j = k /\ g = NewCircuitBreaker /\ (breakers[k] = NoBreaker \/ Unused(breakers[k]))
      <4>1. b.state = "CLOSED"
        BY <2>1, <3>4, RefreshedState, NewBreaker
      <4> QED BY <2>1, <3>1, <3>4, <4>1
    <3> QED BY <2>1, <3>2, <3>3, <3>4
  <2> QED BY <1>0, <2>1, <2>2, StaysShut
<1>2. ASSUME NEW c \in Calls, RecordFailureOf(c) PROVE Shut'
  <2> DEFINE k == calls[c].key
  <2>1. PICK g \in Breakers :
           /\ g = breakers[k] \/ (g = NewCircuitBreaker /\ breakers[k] = NoBreaker)
           /\ breakers'[k] = RecordFailure(g)
    BY <1>2, FailureEffect
  <2>2. Reopens /\ \A j \in Keys : j # k => breakers'[j] = breakers[j]
    BY <1>2, FailureEffect
  <2> HIDE DEF k
  <2> SUFFICES ASSUME NEW j \in Keys
               PROVE  opened'[j] < RecoveryTimeout =>
                         breakers'[j].state = "OPEN" /\ breakers'[j].since = opened'[j]
    BY DEF Shut
  <2>3. /\ breakers[j].state = "OPEN" =>
              breakers'[j].state = "OPEN" /\ breakers'[j].since = breakers[j].since
        /\ breakers[j].state # "OPEN" /\ breakers'[j].state = "OPEN" => breakers'[j].since = 0
    BY <2>1, <2>2, FailureState, NewBreaker
  <2> QED BY <1>0, <2>2, <2>3, StaysShut
<1>3. ASSUME NEW c \in Calls, NEW result \in {"success", "pending"}, Lookup(c, result)
      PROVE  Shut'
  BY <1>3 DEF Lookup, Shut
<1>4. ASSUME NEW c \in Calls, Report(c) PROVE Shut'
  <2> DEFINE k == calls[c].key
  <2>1. /\ \/ /\ breakers[k] \in Breakers
              /\ \/ breakers'[k] = RecordSuccess(breakers[k])
                 \/ breakers'[k] = RecordPending(breakers[k])
           \/ breakers'[k] = breakers[k]
        /\ \A j \in Keys : j # k => breakers'[j] = breakers[j]
        /\ Reopens
    BY <1>4, ReportEffect
  <2> HIDE DEF k
  <2> SUFFICES ASSUME NEW j \in Keys
               PROVE  opened'[j] < RecoveryTimeout =>
                         breakers'[j].state = "OPEN" /\ breakers'[j].since = opened'[j]
    BY DEF Shut
  <2>2. /\ breakers[j].state = "OPEN" =>
              breakers'[j].state = "OPEN" /\ breakers'[j].since = breakers[j].since
        /\ breakers[j].state # "OPEN" => breakers'[j].state # "OPEN"
    <3>1. breakers[k] \in Breakers => Sane(breakers[k]) \/ k \notin Keys
      BY DEF IInv, ProbesWhenHalfOpen
    <3>2. CASE j = k
      BY SMTT(90), <2>1, <3>1, <3>2, SuccessState, PendingState, Pending
    <3>3. CASE j # k
      BY <2>1, <3>3
    <3> QED BY <3>2, <3>3
  <2> QED BY <1>0, <2>1, <2>2, StaysShut
<1>5. ASSUME NEW k \in Keys, ResetNodeClass(k) PROVE Shut'
  BY SMTT(90), <1>0, <1>5, BreakerAssumption DEF ResetNodeClass, Shut
<1>6. CASE Tick
  <2> SUFFICES ASSUME NEW j \in Keys, opened'[j] < RecoveryTimeout
               PROVE  breakers'[j].state = "OPEN" /\ breakers'[j].since = opened'[j]
    BY DEF Shut
  <2>1. opened'[j] = Older(opened[j], RecoveryTimeout)
    BY <1>6 DEF Tick
  <2>2. opened[j] < RecoveryTimeout /\ opened'[j] = opened[j] + 1
    BY <1>0, <2>1, BreakerAssumption DEF Older
  <2>3. breakers[j].state = "OPEN" /\ breakers[j].since = opened[j] /\ breakers[j] \in Breakers
    BY <1>0, <2>2 DEF Shut
  <2>4. breakers'[j] = Aged(breakers[j])
    BY <1>6, <2>3, NewBreaker DEF Tick
  <2> QED BY <2>2, <2>3, <2>4, Aging, AgedState
<1>7. CASE UNCHANGED vars
  BY <1>7 DEF vars, Shut
<1> QED BY <1>1, <1>2, <1>3, <1>4, <1>5, <1>6, <1>7 DEF Next, Finish

\* CanProvision admits nothing while the circuit is shut.
LEMMA ShutBlocks ==
    ASSUME RecoveryTimeout <= UnusedAge, IInv, Shut, [Next]_vars, NEW c \in Calls,
           calls[c].pc = "idle", calls'[c].pc = "running"
    PROVE  opened[calls'[c].key] >= RecoveryTimeout
<1>1. ASSUME NEW d \in Calls, NEW k \in Keys, CanProvision(d, k)
      PROVE  opened[calls'[c].key] >= RecoveryTimeout
  <2>1. PICK g \in Breakers, b \in Breakers :
           /\ \/ g = breakers[k]
              \/ /\ g = NewCircuitBreaker
                 /\ breakers[k] = NoBreaker \/ Unused(breakers[k])
           /\ b = refreshed(g)
           /\ Others(d)
           /\ \/ calls'[d].pc = "idle" /\ breakers'[k].halfOpen = b.halfOpen
              \/ /\ allowed(b) /\ breakers'[k].halfOpen = admitted(b).halfOpen
                 /\ calls'[d].pc = "running" /\ calls'[d].key = k
                 /\ calls'[d].probe <=> b.state = "HALF_OPEN"
    BY SMTT(90), <1>1, ProvisionEffect
  <2>2. c = d
    BY <2>1 DEF Others
  <2>3. calls'[c].key = k /\ b.state # "OPEN"
    BY <2>1, <2>2 DEF allowed
  <2>4. SUFFICES ASSUME opened[k] < RecoveryTimeout PROVE FALSE
    BY SMTT(90), <2>3, BreakerAssumption DEF IInv, TypeOK
  <2>5. breakers[k].state = "OPEN" /\ breakers[k].since < RecoveryTimeout
    BY <2>4 DEF Shut
  <2>6. breakers[k] \in Breakers /\ breakers[k] # NoBreaker
    BY <2>5, NewBreaker DEF IInv, TypeOK
  <2>7. g = breakers[k]
    BY <2>1, <2>5, <2>6, KeepsRecent
  <2>8. ~(g.since >= RecoveryTimeout)
    BY SMTT(90), <2>5, <2>7, BreakerAssumption DEF Breakers
  <2> QED BY <2>1, <2>3, <2>5, <2>7, <2>8, RefreshedState
<1>2. ASSUME NEW d \in Calls, RecordFailureOf(d) PROVE FALSE
  BY <1>2, FailureEffect DEF Others
<1>3. ASSUME NEW d \in Calls, NEW result \in {"success", "pending"}, Lookup(d, result)
      PROVE  FALSE
  <2>1. calls[d].pc = "running" /\ c # d /\ calls \in [Calls -> CallStates]
    BY <1>3 DEF Lookup, IInv, TypeOK
  <2>2. calls'[c] = calls[c]
    BY <1>3, <2>1 DEF Lookup
  <2> QED BY <2>2
<1>4. ASSUME NEW d \in Calls, Report(d) PROVE FALSE
  BY <1>4, ReportEffect DEF Others
<1>5. ASSUME NEW k \in Keys, ResetNodeClass(k) PROVE FALSE
  <2>1. calls'[c].pc = calls[c].pc
    BY <1>5, Orphaning DEF ResetNodeClass, IInv
  <2> QED BY <2>1
<1>6. CASE Tick
  BY <1>6 DEF Tick
<1>7. CASE UNCHANGED vars
  BY <1>7 DEF vars
<1> QED BY <1>1, <1>2, <1>3, <1>4, <1>5, <1>6, <1>7 DEF Next, Finish

\* A circuit that opened admits no call until RecoveryTimeout has passed, whatever
\* is reported or dropped meanwhile, as long as the manager keeps breakers for at
\* least RecoveryTimeout.  Resets by an operator start the circuit anew.
THEOREM BlocksUntilRecovery ==
    ASSUME RecoveryTimeout <= UnusedAge
    PROVE  Spec => BlocksWhileOpen
<1>1. Init => Shut
  BY SMTT(90), BreakerAssumption DEF Init, Shut
<1>2. IInv /\ Shut /\ [Next]_vars => Shut'
  BY ShutNext
<1>3. IInv /\ Shut /\ [Next]_vars =>
         [\A c \in Calls :
             calls[c].pc = "idle" /\ calls'[c].pc = "running" =>
                opened[calls'[c].key] >= RecoveryTimeout]_vars
  BY ShutBlocks
<1> QED BY <1>1, <1>2, <1>3, Invariance, PTL DEF Spec, BlocksWhileOpen

-----------------------------------------------------------------------------
(* How many probes a half-open circuit has *)

\* What one circuit knows of its probes: a half-open one counts each of them, but
\* for those that a stray result has freed; another has none.
Probing(k) ==
    /\ breakers[k].state = "HALF_OPEN" =>
          Cardinality(Probes(k)) <= breakers[k].halfOpen + strays[k]
    /\ breakers[k].state # "HALF_OPEN" => Probes(k) = {}
    /\ breakers[k].halfOpen <= HalfOpenMaxRequests

AllProbing == \A k \in Keys : Probing(k)

\* The counters are numbers and the sets of calls are finite.
LEMMA Numbers ==
    ASSUME TypeOK, NEW k \in Keys
    PROVE  /\ breakers[k].halfOpen \in Nat /\ strays[k] \in Nat
           /\ IsFiniteSet(Probes(k)) /\ Cardinality(Probes(k)) \in Nat
<1>1. \A b \in Breakers \cup {NoBreaker} : b.halfOpen \in Nat
  BY NewBreaker DEF Breakers
<1>2. Probes(k) \subseteq Calls
  BY DEF Probes, Active
<1>3. IsFiniteSet(Probes(k)) /\ Cardinality(Probes(k)) \in Nat
  BY <1>2, ManagerAssumption, FS_Subset, FS_CardinalityType
<1> QED BY <1>1, <1>3 DEF TypeOK

\* When a call is not in progress any more, or is no probe, the circuit has gained
\* no probe.
LEMMA NoNewProbe ==
    ASSUME NEW c \in Calls, Others(c), NEW k \in Keys, c \notin Probes(k)'
    PROVE  /\ Probes(k)' \subseteq Probes(k) \ {c}
           /\ breakers'[k].state # "HALF_OPEN" => Probes(k)' = {}
<1> SUFFICES ASSUME NEW d \in Probes(k)'
             PROVE  d \in Probes(k) \ {c} /\ breakers'[k].state = "HALF_OPEN"
  OBVIOUS
<1>1. d \in Calls \ {c} /\ calls'[d].pc # "idle" /\ calls'[d].key = k /\ calls'[d].probe
  BY DEF Probes, Active
<1>2. /\ calls[d].pc # "idle" /\ calls[d].key = k
      /\ calls[d].probe /\ breakers'[k].state = "HALF_OPEN"
  BY SMTT(90), <1>1 DEF Others
<1> QED BY <1>1, <1>2 DEF Probes, Active

\* A circuit that counts as before, or has left HALF_OPEN, gains no probe.
LEMMA Untouched ==
    ASSUME TypeOK, TypeOK', NEW c \in Calls, Others(c), NEW k \in Keys, Probing(k),
           c \notin Probes(k)',
           breakers'[k].halfOpen = breakers[k].halfOpen \/ breakers'[k].halfOpen = 0,
           breakers'[k].state = "HALF_OPEN" =>
               /\ breakers'[k].halfOpen = breakers[k].halfOpen
               /\ strays'[k] >= strays[k]
    PROVE  Probing(k)'
<1>1. /\ Probes(k)' \subseteq Probes(k)
      /\ breakers'[k].state # "HALF_OPEN" => Probes(k)' = {}
  BY NoNewProbe
<1>2. /\ breakers[k].halfOpen \in Nat /\ strays[k] \in Nat
      /\ IsFiniteSet(Probes(k)) /\ Cardinality(Probes(k)) \in Nat
  BY Numbers
<1>3. Cardinality(Probes(k)') <= Cardinality(Probes(k)) /\ Cardinality(Probes(k)') \in Nat
  BY <1>1, <1>2, FS_Subset, FS_CardinalityType
<1>4. strays'[k] \in Nat
  BY DEF TypeOK
<1>5. Cardinality(Probes(k)) <= breakers[k].halfOpen + strays[k]
  <2>1. CASE breakers[k].state = "HALF_OPEN"
    BY <2>1 DEF Probing
  <2>2. CASE breakers[k].state # "HALF_OPEN"
    <3>1. Probes(k) = {}
      BY <2>2 DEF Probing
    <3> QED BY SMTT(90), <1>2, <3>1, FS_EmptySet
  <2> QED BY <2>1, <2>2
<1>6. breakers'[k].state = "HALF_OPEN" =>
         Cardinality(Probes(k)') <= breakers'[k].halfOpen + strays'[k]
  BY SMTT(90), <1>2, <1>3, <1>4, <1>5
<1>7. breakers'[k].halfOpen <= HalfOpenMaxRequests
  BY SMTT(90), BreakerAssumption DEF Probing
<1> QED BY <1>1, <1>6, <1>7 DEF Probing

\* Permission counts every probe that it admits.
LEMMA ProvisionProbing ==
    ASSUME IInv, IInv', AllProbing, NEW c \in Calls, NEW k \in Keys, CanProvision(c, k)
    PROVE  AllProbing'
<1>1. PICK g \in Breakers, b \in Breakers :
         /\ \/ g = breakers[k]
            \/ /\ g = NewCircuitBreaker
               /\ breakers[k] = NoBreaker \/ Unused(breakers[k])
         /\ b = refreshed(g) /\ Sane(g)
         /\ breakers'[k].state = b.state /\ breakers'[k].since = b.since
         /\ \A j \in Keys \ {k} :
               \/ breakers'[j] = breakers[j]
               \/ breakers'[j] = NoBreaker /\ Unused(breakers[j])
         /\ Reopens /\ Others(c) /\ calls[c].pc = "idle"
         /\ \/ calls'[c].pc = "idle" /\ breakers'[k].halfOpen = b.halfOpen
            \/ /\ allowed(b) /\ breakers'[k].halfOpen = admitted(b).halfOpen
               /\ calls'[c].pc = "running" /\ calls'[c].key = k
               /\ calls'[c].probe <=> b.state = "HALF_OPEN"
  BY ProvisionEffect
<1>2. TypeOK /\ TypeOK' /\ Probing(k) /\ Others(c)
  BY <1>1 DEF IInv, AllProbing
<1>3. \A j \in Keys : breakers'[j].state = "HALF_OPEN" => strays'[j] >= strays[j]
  BY <1>2, StrayCount DEF CanProvision
<1>4. ASSUME NEW j \in Keys, j # k PROVE Probing(j)'
  <2>1. c \notin Probes(j)'
    BY <1>1, <1>4 DEF Probes, Active
  <2>2. CASE breakers'[j] = breakers[j]
    BY <1>2, <1>3, <2>1, <2>2, Untouched DEF AllProbing
  <2>3. CASE breakers'[j] = NoBreaker
    BY <1>2, <2>1, <2>3, Untouched, NewBreaker DEF AllProbing
  <2> QED BY <1>1, <1>4, <2>2, <2>3
<1> SUFFICES Probing(k)'
  BY <1>4 DEF AllProbing
<1>5. /\ b.halfOpen = g.halfOpen /\ Sane(b) /\ g.halfOpen \in Nat
      /\ b.state = "HALF_OPEN" => admitted(b).halfOpen = b.halfOpen + 1
      /\ b.state # "HALF_OPEN" => admitted(b).halfOpen = 0
  BY <1>1, Refreshing, Admitting DEF Breakers
<1>6. b.state = "HALF_OPEN" => g = breakers[k]
  <2>1. g.state = "CLOSED" => b.state = "CLOSED"
    BY <1>1, RefreshedState
  <2> QED BY <1>1, <2>1, NewBreaker
<1>7. CASE b.state # "HALF_OPEN"
  <2>1. breakers'[k].halfOpen = 0 /\ breakers'[k].state # "HALF_OPEN"
    BY <1>1, <1>5, <1>7 DEF Sane
  <2>2. c \notin Probes(k)'
    BY <1>1, <1>7 DEF Probes, Active
  <2> QED BY <1>2, <2>1, <2>2, Untouched
<1>8. CASE b.state = "HALF_OPEN" /\ calls'[c].pc = "idle" /\ breakers'[k].halfOpen = b.halfOpen
  <2>1. breakers'[k].halfOpen = breakers[k].halfOpen
    BY <1>5, <1>6, <1>8
  <2>2. c \notin Probes(k)'
    BY <1>8 DEF Probes, Active
  <2> QED BY <1>2, <1>3, <2>1, <2>2, Untouched
<1>9. CASE b.state = "HALF_OPEN" /\ allowed(b) /\ breakers'[k].halfOpen = admitted(b).halfOpen
  <2>1. /\ breakers'[k].halfOpen = breakers[k].halfOpen + 1
        /\ breakers[k].halfOpen < HalfOpenMaxRequests
        /\ breakers'[k].state = "HALF_OPEN" /\ strays'[k] >= strays[k]
    BY <1>1, <1>3, <1>5, <1>6, <1>9 DEF allowed
  <2>2. /\ breakers[k].halfOpen \in Nat /\ strays[k] \in Nat /\ strays'[k] \in Nat
        /\ IsFiniteSet(Probes(k)) /\ Cardinality(Probes(k)) \in Nat
    BY <1>2, Numbers DEF TypeOK
  <2>3. Cardinality(Probes(k)) <= breakers[k].halfOpen + strays[k]
    <3>1. CASE breakers[k].state = "HALF_OPEN"
      BY <1>2, <3>1 DEF Probing
    <3>2. CASE breakers[k].state # "HALF_OPEN"
      <4>1. Probes(k) = {}
        BY <1>2, <3>2 DEF Probing
      <4> QED BY SMTT(90), <2>2, <4>1, FS_EmptySet
    <3> QED BY <3>1, <3>2
  <2>4. Probes(k)' \subseteq Probes(k) \cup {c}
    <3> SUFFICES ASSUME NEW d \in Probes(k)', d # c PROVE d \in Probes(k)
      OBVIOUS
    <3> QED BY <1>2 DEF Probes, Active, Others
  <2>5. /\ IsFiniteSet(Probes(k) \cup {c}) /\ Cardinality(Probes(k) \cup {c}) \in Nat
        /\ Cardinality(Probes(k) \cup {c}) = Cardinality(Probes(k)) + 1
    <3>1. c \notin Probes(k)
      BY <1>1 DEF Probes, Active
    <3> QED BY <2>2, <3>1, FS_AddElement, FS_CardinalityType
  <2>6. /\ Cardinality(Probes(k)') <= Cardinality(Probes(k) \cup {c})
        /\ Cardinality(Probes(k)') \in Nat
    BY <2>4, <2>5, FS_Subset, FS_CardinalityType
  <2>7. Cardinality(Probes(k)') <= breakers'[k].halfOpen + strays'[k]
    BY SMTT(90), <2>1, <2>2, <2>3, <2>5, <2>6
  <2>8. breakers'[k].halfOpen <= HalfOpenMaxRequests
    BY SMTT(90), <2>1, <2>2, BreakerAssumption
  <2> QED BY <2>1, <2>7, <2>8 DEF Probing
<1> QED BY <1>1, <1>7, <1>8, <1>9

\* A failure leaves its circuit without probes.
LEMMA FailureProbing ==
    ASSUME IInv, IInv', AllProbing, NEW c \in Calls, RecordFailureOf(c)
    PROVE  AllProbing'
<1>0. PICK k \in Keys : k = calls[c].key
  BY DEF IInv, TypeOK, CallStates
<1>1. PICK g \in Breakers : Sane(g) /\ breakers'[k] = RecordFailure(g)
  BY <1>0, FailureEffect
<1>2. /\ \A j \in Keys : j # k => breakers'[j] = breakers[j]
      /\ Others(c) /\ \A j \in Keys : c \notin Probes(j)'
  BY <1>0, FailureEffect DEF Active, Probes
<1>3. TypeOK /\ TypeOK'
  BY DEF IInv
<1>4. \A j \in Keys : breakers'[j].state = "HALF_OPEN" => strays'[j] >= strays[j]
  BY <1>3, StrayCount DEF RecordFailureOf
<1>5. ASSUME NEW j \in Keys, j # k PROVE Probing(j)'
  BY <1>2, <1>3, <1>4, <1>5, Untouched DEF AllProbing
<1>6. RecordFailure(g).halfOpen = 0 /\ RecordFailure(g).state # "HALF_OPEN"
  BY <1>1, Failure, FailureState
<1>7. Probing(k)'
  BY <1>1, <1>2, <1>3, <1>6, Untouched DEF AllProbing
<1> QED BY <1>5, <1>7 DEF AllProbing

\* A report frees the probe of its own call, or is counted as a stray.
LEMMA ReportProbing ==
    ASSUME IInv, IInv', AllProbing, NEW c \in Calls, Report(c)
    PROVE  AllProbing'
<1>0. PICK k \in Keys : k = calls[c].key
  BY DEF IInv, TypeOK, CallStates
<1> DEFINE b == breakers[k]
<1>1. /\ \/ /\ b \in Breakers /\ calls[c].held
            /\ \/ breakers'[k] = RecordSuccess(b)
               \/ calls[c].pc = "pending" /\ breakers'[k] = RecordPending(b)
         \/ breakers'[k] = b
      /\ \A j \in Keys : j # k => breakers'[j] = breakers[j]
      /\ Others(c) /\ calls[c].pc # "idle"
      /\ \A j \in Keys : c \notin Probes(j)'
  BY <1>0, ReportEffect DEF Active, Probes
<1>2. /\ TypeOK /\ TypeOK' /\ Probing(k) /\ Sane(b)
  BY DEF IInv, AllProbing, ProbesWhenHalfOpen
<1>3. /\ \A j \in Keys : breakers'[j].state = "HALF_OPEN" => strays'[j] >= strays[j]
      /\ FreesAnother(c) /\ breakers'[k].state = "HALF_OPEN" => strays'[k] = strays[k] + 1
  BY <1>0, <1>2, StrayCount DEF Report
<1>4. ASSUME NEW j \in Keys, j # k PROVE Probing(j)'
  BY <1>1, <1>2, <1>3, <1>4, Untouched DEF AllProbing
<1> SUFFICES Probing(k)'
  BY <1>4 DEF AllProbing
<1>5. CASE breakers'[k] = b
  BY <1>1, <1>2, <1>3, <1>5, Untouched
<1>6. CASE b \in Breakers /\ breakers'[k] = RecordSuccess(b)
  <2>1. RecordSuccess(b).halfOpen = 0 /\ RecordSuccess(b).state # "HALF_OPEN"
    BY <1>2, <1>6, Success, SuccessState
  <2> QED BY <1>1, <1>2, <1>6, <2>1, Untouched
<1>7. CASE /\ b \in Breakers /\ calls[c].held /\ calls[c].pc = "pending"
           /\ breakers'[k] = RecordPending(b)
  <2>1. /\ RecordPending(b).state = b.state
        /\ RecordPending(b).halfOpen =
              IF b.state = "HALF_OPEN" /\ b.halfOpen > 0 THEN b.halfOpen - 1 ELSE b.halfOpen
        /\ b.halfOpen \in Nat
    BY <1>2, <1>7, Pending, PendingState DEF Breakers
  <2>2. CASE ~(b.state = "HALF_OPEN" /\ b.halfOpen > 0)
    BY <1>1, <1>2, <1>3, <1>7, <2>1, <2>2, Untouched
  <2>3. CASE b.state = "HALF_OPEN" /\ b.halfOpen > 0
    <3>1. /\ breakers'[k].state = "HALF_OPEN" /\ breakers'[k].halfOpen = b.halfOpen - 1
          /\ Cardinality(Probes(k)) <= b.halfOpen + strays[k]
          /\ b.halfOpen <= HalfOpenMaxRequests
      BY <1>2, <1>7, <2>1, <2>3 DEF Probing
    <3>2. /\ strays[k] \in Nat /\ strays'[k] \in Nat
          /\ IsFiniteSet(Probes(k)) /\ Cardinality(Probes(k)) \in Nat
      BY <1>2, Numbers DEF TypeOK
    <3>3. /\ IsFiniteSet(Probes(k) \ {c}) /\ Cardinality(Probes(k) \ {c}) \in Nat
          /\ Cardinality(Probes(k) \ {c}) =
                IF c \in Probes(k) THEN Cardinality(Probes(k)) - 1 ELSE Cardinality(Probes(k))
      BY <3>2, FS_RemoveElement, FS_CardinalityType
    <3>4. Probes(k)' \subseteq Probes(k) \ {c}
      BY <1>1, NoNewProbe
    <3>5. /\ Cardinality(Probes(k)') <= Cardinality(Probes(k) \ {c})
          /\ Cardinality(Probes(k)') \in Nat
      BY <3>3, <3>4, FS_Subset, FS_CardinalityType
    <3>6. \/ c \in Probes(k) /\ strays'[k] >= strays[k]
          \/ strays'[k] = strays[k] + 1
      <4>1. CASE calls[c].probe
        BY <1>0, <1>1, <1>3, <3>1, <4>1 DEF Probes, Active
      <4>2. CASE ~calls[c].probe
        BY <1>0, <1>3, <1>7, <2>3, <3>1, <4>2 DEF FreesAnother
      <4> QED BY <4>1, <4>2
    <3>7. Cardinality(Probes(k)') <= breakers'[k].halfOpen + strays'[k]
      BY SMTT(90), <2>1, <3>1, <3>2, <3>3, <3>5, <3>6
    <3>8. breakers'[k].halfOpen <= HalfOpenMaxRequests
      BY SMTT(90), <2>1, <3>1, BreakerAssumption
    <3> QED BY <3>1, <3>7, <3>8 DEF Probing
  <2> QED BY <2>2, <2>3
<1> QED BY <1>1, <1>5, <1>6, <1>7

\* Looking up a breaker, resetting one and the passage of time add no probe.
LEMMA LookupProbing ==
    ASSUME IInv, IInv', AllProbing, NEW c \in Calls, NEW result \in {"success", "pending"},
           Lookup(c, result)
    PROVE  AllProbing'
<1>1. /\ calls \in [Calls -> CallStates] /\ calls[c] \in CallStates /\ calls[c].pc = "running"
      /\ breakers' = breakers /\ strays' = strays
      /\ calls' = [calls EXCEPT ![c] = IF breakers[calls[c].key] = NoBreaker THEN Idle
                                       ELSE [@ EXCEPT !.pc = result, !.held = TRUE]]
  BY DEF Lookup, IInv, TypeOK
<1>2. \A d \in Calls : d # c => calls'[d] = calls[d]
  BY <1>1
<1>3. \/ calls'[c].pc = "idle"
      \/ calls'[c].key = calls[c].key /\ calls'[c].probe = calls[c].probe
  BY <1>1, IdleCall DEF CallStates
<1> SUFFICES ASSUME NEW k \in Keys PROVE Probing(k)'
  BY DEF AllProbing
<1>4. TypeOK /\ Probing(k)
  BY DEF IInv, AllProbing
<1>5. Probes(k)' \subseteq Probes(k)
  BY <1>1, <1>2, <1>3 DEF Probes, Active
<1>6. /\ breakers[k].halfOpen \in Nat /\ strays[k] \in Nat
      /\ IsFiniteSet(Probes(k)) /\ Cardinality(Probes(k)) \in Nat
  BY <1>4, Numbers
<1>7. Cardinality(Probes(k)') <= Cardinality(Probes(k)) /\ Cardinality(Probes(k)') \in Nat
  BY <1>5, <1>6, FS_Subset, FS_CardinalityType
<1>8. breakers[k].state = "HALF_OPEN" =>
         Cardinality(Probes(k)') <= breakers[k].halfOpen + strays[k]
  <2>1. breakers[k].state = "HALF_OPEN" =>
           Cardinality(Probes(k)) <= breakers[k].halfOpen + strays[k]
    BY <1>4 DEF Probing
  <2> QED BY SMTT(90), <1>6, <1>7, <2>1
<1> QED BY <1>1, <1>4, <1>5, <1>8 DEF Probing

\* An operator's reset leaves a closed circuit without probes.
LEMMA ResetProbing ==
    ASSUME IInv, AllProbing, NEW k \in Keys, ResetNodeClass(k)
    PROVE  AllProbing'
<1>1. /\ breakers'[k] = NewCircuitBreaker
      /\ \A j \in Keys : j # k => breakers'[j] = breakers[j]
  BY DEF ResetNodeClass, IInv, TypeOK
<1>2. \A d \in Calls :
         /\ calls'[d].pc = calls[d].pc /\ calls'[d].key = calls[d].key
         /\ calls[d].key # k => calls'[d] = calls[d]
         /\ calls[d].key = k => ~calls'[d].probe
  BY Orphaning DEF ResetNodeClass, IInv
<1> SUFFICES ASSUME NEW j \in Keys PROVE Probing(j)'
  BY DEF AllProbing
<1>3. CASE j = k
  <2>1. Probes(k)' = {}
    BY <1>2 DEF Probes, Active
  <2>2. breakers'[k].halfOpen <= HalfOpenMaxRequests /\ breakers'[k].state # "HALF_OPEN"
    BY SMTT(90), <1>1, NewBreaker, BreakerAssumption
  <2> QED BY <1>3, <2>1, <2>2 DEF Probing
<1>4. CASE j # k
  <2>1. Probes(j)' = Probes(j)
    BY SMTT(90), <1>2, <1>4 DEF Probes, Active
  <2>2. strays'[j] >= strays[j] \/ breakers'[j].state # "HALF_OPEN"
    BY StrayCount DEF ResetNodeClass, IInv
  <2>3. /\ breakers[j].halfOpen \in Nat /\ strays[j] \in Nat /\ strays'[j] \in Nat
        /\ Cardinality(Probes(j)) \in Nat
    BY Numbers, StrayCount DEF IInv, ResetNodeClass
  <2>4. Probing(j) /\ breakers'[j] = breakers[j]
    BY <1>1, <1>4 DEF AllProbing
  <2>5. breakers'[j].state = "HALF_OPEN" =>
           Cardinality(Probes(j)') <= breakers'[j].halfOpen + strays'[j]
    <3>1. breakers[j].state = "HALF_OPEN" =>
             Cardinality(Probes(j)) <= breakers[j].halfOpen + strays[j]
      BY <2>4 DEF Probing
    <3> QED BY SMTT(90), <2>1, <2>2, <2>3, <2>4, <3>1
  <2> QED BY <2>1, <2>4, <2>5 DEF Probing
<1> QED BY <1>3, <1>4

\* Time changes neither the counters nor the probes.
LEMMA TickProbing ==
    ASSUME IInv, AllProbing, Tick
    PROVE  AllProbing'
<1> SUFFICES ASSUME NEW k \in Keys PROVE Probing(k)'
  BY DEF AllProbing
<1>1. breakers'[k].state = breakers[k].state /\ breakers'[k].halfOpen = breakers[k].halfOpen
  <2>1. breakers'[k] = IF breakers[k] = NoBreaker THEN NoBreaker ELSE Aged(breakers[k])
    BY DEF Tick
  <2>2. breakers[k] \in Breakers \cup {NoBreaker}
    BY DEF IInv, TypeOK
  <2> QED BY <2>1, <2>2, Aging
<1>2. ASSUME NEW d \in Calls
      PROVE  /\ calls'[d].pc = calls[d].pc /\ calls'[d].key = calls[d].key
             /\ calls'[d].probe = calls[d].probe
  <2>1. calls[d] \in CallStates
    BY DEF IInv, TypeOK
  <2>2. CASE calls[d].pc = "idle"
    BY <2>2 DEF Tick
  <2>3. CASE calls[d].pc # "idle"
    <3>1. calls'[d] = [calls[d] EXCEPT !.age = @ + 1]
      BY <2>3 DEF Tick
    <3> QED BY <2>1, <3>1 DEF CallStates
  <2> QED BY <2>2, <2>3
<1>3. Probes(k)' = Probes(k) /\ strays' = strays
  BY <1>2 DEF Probes, Active, Tick
<1>4. Probing(k)
  BY DEF AllProbing
<1> QED BY <1>1, <1>3, <1>4 DEF Probing

\* Every step keeps the count of the probes.
LEMMA ProbingNext ==
    ASSUME IInv, AllProbing, [Next]_vars
    PROVE  AllProbing'
<1>1. IInv'
  BY NextInv
<1>2. ASSUME NEW c \in Calls, Finish(c) PROVE AllProbing'
  BY <1>1, <1>2, FailureProbing, LookupProbing, ReportProbing DEF Finish
<1>3. ASSUME NEW c \in Calls, NEW k \in Keys, CanProvision(c, k) PROVE AllProbing'
  BY <1>1, <1>3, ProvisionProbing
<1>4. ASSUME NEW k \in Keys, ResetNodeClass(k) PROVE AllProbing'
  BY <1>4, ResetProbing
<1>5. CASE Tick
  BY <1>5, TickProbing
<1>6. CASE UNCHANGED vars
  BY <1>6 DEF vars, AllProbing, Probing, Probes, Active
<1> QED BY <1>2, <1>3, <1>4, <1>5, <1>6 DEF Next

\* However long the calls of Create take, a half-open circuit has no more than
\* HalfOpenMaxRequests probes in progress, but for one more for each pending result
\* of a call that was no probe and freed one in its place (RecordPending).
THEOREM ProbesAreLimited == Spec => []ProbeLimit
<1>1. Init => AllProbing
  <2> SUFFICES ASSUME Init, NEW k \in Keys PROVE Probing(k)
    BY DEF AllProbing
  <2>1. breakers[k].state = "NONE" /\ breakers[k].halfOpen = 0 /\ Probes(k) = {}
    BY NewBreaker, IdleCall DEF Init, Active, Probes
  <2> QED BY SMTT(90), <2>1, BreakerAssumption DEF Probing
<1>2. IInv /\ AllProbing /\ [Next]_vars => AllProbing'
  BY ProbingNext
<1>3. IInv /\ AllProbing => ProbeLimit
  <2> SUFFICES ASSUME IInv, AllProbing, NEW k \in Keys
               PROVE  Cardinality(Probes(k)) <= HalfOpenMaxRequests + strays[k]
    BY DEF ProbeLimit
  <2>1. /\ Probing(k) /\ breakers[k].halfOpen \in Nat /\ strays[k] \in Nat
        /\ Cardinality(Probes(k)) \in Nat
    BY Numbers DEF IInv, AllProbing
  <2>2. CASE breakers[k].state = "HALF_OPEN"
    BY SMTT(90), <2>1, <2>2, BreakerAssumption DEF Probing
  <2>3. CASE breakers[k].state # "HALF_OPEN"
    <3>1. Probes(k) = {}
      BY <2>1, <2>3 DEF Probing
    <3> QED BY SMTT(90), <2>1, <3>1, FS_EmptySet, BreakerAssumption
  <2> QED BY <2>2, <2>3
<1> QED BY <1>1, <1>2, <1>3, Invariance, PTL DEF Spec

=============================================================================
