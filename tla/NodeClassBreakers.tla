------------------------- MODULE NodeClassBreakers -------------------------
(***************************************************************************)
(* The circuit breakers of a CloudProvider, one per NodeClass and region,  *)
(* and the calls of CloudProvider.Create that ask them for permission and  *)
(* report back.                                                            *)
(*                                                                         *)
(* CanProvision and RecordFailure hold the manager's lock throughout.      *)
(* RecordSuccess and RecordPending release it between looking the breaker  *)
(* up and reporting to it, so the breaker may have been dropped or         *)
(* replaced in between, and the report goes to an object nobody reads.     *)
(*                                                                         *)
(* Claims whose launch has already been journalled skip the breaker.       *)
(***************************************************************************)
EXTENDS CircuitBreaker, FiniteSets

CONSTANTS
    Keys,             \* NodeClass-region pairs
    Calls,            \* calls of Create that may be in progress at once
    CleanupInterval,  \* least age of the last cleanup for another to run
    MaxDuration,      \* ticks that a call takes, at most
    ManualResets      \* whether ResetNodeClass is called

ASSUME ManagerAssumption ==
    /\ CleanupInterval \in Nat
    /\ MaxDuration \in Nat \ {0}
    /\ ManualResets \in BOOLEAN
    /\ Keys # {}
    /\ IsFiniteSet(Calls)

VARIABLES
    breakers,  \* the manager's map: the breaker of every key, or NoBreaker
    cleaned,   \* age of lastCleanup
    calls,     \* the calls of Create
    opened,    \* history: age of the last opening of the key's circuit
    strays     \* history: probes of the key's half-open circuit that were freed by
               \* the pending result of a call that is not one

vars == <<breakers, cleaned, calls, opened, strays>>

\* The map has no entry for the key.
NoBreaker == [NewCircuitBreaker EXCEPT !.state = "NONE"]

\* pc: running the instance provider, or about to report success or pending.
\* own: admitted by the breaker now in the map.  held: reports to that breaker.
\* probe: admitted since that breaker became half open.
CallStates == [pc: {"idle", "running", "success", "pending"}, key: Keys, own: BOOLEAN,
               held: BOOLEAN, probe: BOOLEAN, age: 0..MaxDuration]

TypeOK ==
    /\ breakers \in [Keys -> Breakers \cup {NoBreaker}]
    /\ cleaned \in 0..CleanupInterval
    /\ calls \in [Calls -> CallStates]
    /\ opened \in [Keys -> 0..RecoveryTimeout]
    /\ strays \in [Keys -> Nat]

Idle == [pc |-> "idle", key |-> CHOOSE k \in Keys : TRUE, own |-> FALSE, held |-> FALSE,
         probe |-> FALSE, age |-> 0]

Init ==
    /\ breakers = [k \in Keys |-> NoBreaker]
    /\ cleaned = 0
    /\ calls = [c \in Calls |-> Idle]
    /\ opened = [k \in Keys |-> RecoveryTimeout]
    /\ strays = [k \in Keys |-> 0]

Active(k) == {c \in Calls : calls[c].pc # "idle" /\ calls[c].key = k}
Own(k) == {c \in Active(k) : calls[c].own}
Probes(k) == {c \in Active(k) : calls[c].probe}

-----------------------------------------------------------------------------
\* GetState of a breaker, as the cleanup judges it.
Unused(b) ==
    /\ b.state = "CLOSED" \/ countRecentFailures(b) = 0
    /\ b.since > UnusedAge

cleanupUnusedBreakersIfNeeded ==
    IF cleaned < CleanupInterval THEN breakers
    ELSE [k \in Keys |-> IF Unused(breakers[k]) THEN NoBreaker ELSE breakers[k]]

\* The breaker of a key is looked up, or made.
getOrCreate(map, k) == IF map[k] = NoBreaker THEN NewCircuitBreaker ELSE map[k]

\* The calls of these keys have lost the breaker they knew.
Orphaned(keys) ==
    [c \in Calls |-> IF calls[c].key \in keys
                     THEN [calls[c] EXCEPT !.own = FALSE, !.held = FALSE, !.probe = FALSE]
                     ELSE calls[c]]

\* The map and the calls change, and the history follows: a call is no longer a
\* probe once its breaker has left HALF_OPEN.
Update(map, cs) ==
    /\ breakers' = map
    /\ calls' = [c \in Calls |->
          [cs[c] EXCEPT !.probe = @ /\ map[cs[c].key].state = "HALF_OPEN"]]
    /\ opened' = [k \in Keys |->
          IF map[k].state = "OPEN" /\ breakers[k].state # "OPEN" THEN 0 ELSE opened[k]]

\* RecordPending lowers halfOpenRequests whichever call reports.
FreesAnother(c) ==
    /\ calls[c].pc = "pending" /\ calls[c].held /\ ~calls[c].probe
    /\ breakers[calls[c].key].halfOpen > 0

\* The history counts such reports by these calls, while the circuit is half open.
Strays(cs) ==
    strays' = [k \in Keys |->
        IF breakers'[k].state # "HALF_OPEN" THEN 0
        ELSE IF \E c \in cs : calls[c].key = k /\ FreesAnother(c) THEN strays[k] + 1
        ELSE strays[k]]

\* Create asks for permission: CanProvision of the manager.
CanProvision(c, k) ==
    /\ calls[c].pc = "idle"
    /\ LET map == cleanupUnusedBreakersIfNeeded
           dropped == {j \in Keys : breakers[j] # map[j]}
           b == refreshed(getOrCreate(map, k))
           admission == [pc |-> "running", key |-> k, own |-> TRUE, held |-> FALSE,
                         probe |-> b.state = "HALF_OPEN", age |-> 0]
           cs == Orphaned(dropped)
       IN  \/ /\ allowed(b)
              /\ Update([map EXCEPT ![k] = admitted(b)], [cs EXCEPT ![c] = admission])
           \/ /\ ~allowed(b)
              /\ Update([map EXCEPT ![k] = b], cs)
    /\ cleaned' = IF cleaned < CleanupInterval THEN cleaned ELSE 0
    /\ Strays({})

\* Create failed, or returned early: RecordFailure, which makes a missing breaker.
RecordFailureOf(c) ==
    /\ calls[c].pc = "running"
    /\ LET k == calls[c].key
       IN  Update([breakers EXCEPT ![k] = RecordFailure(getOrCreate(breakers, k))],
                  [calls EXCEPT ![c] = Idle])
    /\ Strays({})
    /\ UNCHANGED cleaned

\* Create has a result: the breaker is looked up under the manager's read lock.
\* A breaker that is not there is not told.
Lookup(c, result) ==
    /\ calls[c].pc = "running"
    /\ calls' = [calls EXCEPT ![c] = IF breakers[calls[c].key] = NoBreaker THEN Idle
                                     ELSE [@ EXCEPT !.pc = result, !.held = TRUE]]
    /\ UNCHANGED <<breakers, cleaned, opened, strays>>

\* The breaker that was looked up is told.
Report(c) ==
    /\ calls[c].pc \in {"success", "pending"}
    /\ LET k == calls[c].key
           cs == [calls EXCEPT ![c] = Idle]
           told == IF calls[c].pc = "success" THEN RecordSuccess(breakers[k])
                   ELSE RecordPending(breakers[k])
       IN  \/ calls[c].held /\ Update([breakers EXCEPT ![k] = told], cs)
           \/ ~calls[c].held /\ Update(breakers, cs)
    /\ Strays({c})
    /\ UNCHANGED cleaned

\* An operator replaces a breaker.
ResetNodeClass(k) ==
    /\ ManualResets
    /\ breakers[k] # NoBreaker
    /\ breakers' = [breakers EXCEPT ![k] = NewCircuitBreaker]
    /\ calls' = Orphaned({k})
    /\ opened' = [opened EXCEPT ![k] = RecoveryTimeout]
    /\ Strays({})
    /\ UNCHANGED cleaned

Tick ==
    /\ \A c \in Calls : calls[c].pc # "idle" => calls[c].age < MaxDuration
    /\ breakers' = [k \in Keys |->
          IF breakers[k] = NoBreaker THEN NoBreaker ELSE Aged(breakers[k])]
    /\ cleaned' = Older(cleaned, CleanupInterval)
    /\ calls' = [c \in Calls |-> IF calls[c].pc = "idle" THEN calls[c]
                                 ELSE [calls[c] EXCEPT !.age = @ + 1]]
    /\ opened' = [k \in Keys |-> Older(opened[k], RecoveryTimeout)]
    /\ UNCHANGED strays

Finish(c) ==
    \/ RecordFailureOf(c)
    \/ \E result \in {"success", "pending"} : Lookup(c, result)
    \/ Report(c)

Next ==
    \/ \E c \in Calls : Finish(c) \/ \E k \in Keys : CanProvision(c, k)
    \/ \E k \in Keys : ResetNodeClass(k)
    \/ Tick

Spec == Init /\ [][Next]_vars

\* Every call of Create returns, and time passes.
FairSpec == Spec /\ WF_vars(Tick) /\ \A c \in Calls : WF_vars(Finish(c))

-----------------------------------------------------------------------------
(* Properties *)

\* No slot leaks: whatever is reported late, to a breaker that has been replaced,
\* or not at all, a breaker counts no more concurrent instances than there are
\* calls in progress that it admitted.  A leaked slot would lower
\* MaxConcurrentInstances for good.
NoLeakedSlot == \A k \in Keys : breakers[k].concurrent <= Cardinality(Own(k))

\* No probe leaks: a half-open breaker counts no more probes than there are
\* calls in progress that it admitted since it became half open.  A leaked one
\* would leave the circuit half open for ever, since only a report moves it on.
NoLeakedProbe == \A k \in Keys : breakers[k].halfOpen <= Cardinality(Probes(k))

\* A half-open circuit tests the cloud with HalfOpenMaxRequests calls at a time,
\* and with one more for every call that was in progress before, perhaps since the
\* circuit was closed, and ended pending meanwhile: RecordPending frees a probe for
\* it all the same.  Nothing else exceeds the limit, neither a cleanup, a reset
\* nor a reopening between the admission and the report.
ProbeLimit == \A k \in Keys : Cardinality(Probes(k)) <= HalfOpenMaxRequests + strays[k]

\* A circuit that opened admits nothing until RecoveryTimeout has passed, however
\* late the results are of calls admitted before, and whatever the cleanup
\* drops.
BlocksWhileOpen ==
    [][\A c \in Calls :
          calls[c].pc = "idle" /\ calls'[c].pc = "running" =>
             opened[calls'[c].key] >= RecoveryTimeout]_vars

\* No sequence of results leaves a NodeClass blocked for good: CanProvision
\* would admit a call again and again.
NeverBlockedForGood ==
    \A k \in Keys : []<>allowed(refreshed(breakers[k]))
=============================================================================
