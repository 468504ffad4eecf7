--------------------------- MODULE CircuitBreaker ---------------------------
(***************************************************************************)
(* One circuit breaker: what its three decisions do to its state.  Every   *)
(* method of CircuitBreaker runs under its mutex, so each is an operator   *)
(* from the breaker before to the breaker after.                           *)
(*                                                                         *)
(* Times are ages, in ticks, that stop growing once nothing depends on     *)
(* their exact value; Aged lets one tick pass.                             *)
(***************************************************************************)
EXTENDS Naturals, Functions

CONSTANTS
    FailureThreshold,        \* failures in the window that open the circuit
    FailureWindow,           \* how long a failure counts
    RecoveryTimeout,         \* how long the circuit stays open
    HalfOpenMaxRequests,     \* probes admitted while half open
    RateLimitPerMinute,      \* admissions between two resets of the counter
    MaxConcurrentInstances,  \* admissions not recorded yet
    Minute,                  \* one minute, in ticks
    UnusedAge                \* age at which the manager drops a breaker

\* Options.Validate.
ASSUME BreakerAssumption ==
    /\ FailureThreshold \in Nat \ {0}
    /\ FailureWindow \in Nat \ {0}
    /\ RecoveryTimeout \in Nat \ {0}
    /\ HalfOpenMaxRequests \in Nat \ {0}
    /\ RateLimitPerMinute \in Nat \ {0}
    /\ MaxConcurrentInstances \in Nat \ {0}
    /\ Minute \in Nat \ {0}
    /\ UnusedAge \in Nat

States == {"CLOSED", "OPEN", "HALF_OPEN"}

\* The ages of the failures that cleanOldFailures keeps: a failure counts
\* strictly inside the window.
FailureAges == 0..(FailureWindow - 1)

\* since is the age of lastStateChange, reset that of lastMinuteReset, and
\* failures the number of failures of each age.
Breakers == [state: States, failures: [FailureAges -> Nat], since: Nat, halfOpen: Nat,
             concurrent: Nat, minute: Nat, reset: Nat]

NewCircuitBreaker ==
    [state |-> "CLOSED", failures |-> [a \in FailureAges |-> 0], since |-> 0, halfOpen |-> 0,
     concurrent |-> 0, minute |-> 0, reset |-> 0]

countRecentFailures(b) == FoldFunction(+, 0, b.failures)

Older(age, bound) == IF age < bound THEN age + 1 ELSE age

AgeBound == IF UnusedAge < RecoveryTimeout THEN RecoveryTimeout + 1 ELSE UnusedAge + 1

Aged(b) ==
    [b EXCEPT !.since = Older(@, AgeBound),
              !.reset = Older(@, Minute),
              !.failures = [a \in FailureAges |-> IF a = 0 THEN 0 ELSE b.failures[a - 1]]]

resetCountersIfNeeded(b) ==
    IF b.reset >= Minute THEN [b EXCEPT !.minute = 0, !.reset = 0] ELSE b

transitionTo(b, s) == [b EXCEPT !.state = s, !.since = 0, !.halfOpen = 0]

\* What CanProvision changes whether it admits the request or not.
refreshed(b) ==
    LET r == resetCountersIfNeeded(b)
    IN  IF r.state = "OPEN" /\ r.since >= RecoveryTimeout
        THEN transitionTo(r, "HALF_OPEN") ELSE r

\* Mutant: the half-open state is not limited.
allowedHalfOpen(b) ==
    /\ b.state # "OPEN"
    /\ b.minute < RateLimitPerMinute
    /\ b.concurrent < MaxConcurrentInstances

\* The checks of CanProvision, on the refreshed breaker.
allowed(b) ==
    /\ b.state # "OPEN"
    /\ b.state = "HALF_OPEN" => b.halfOpen < HalfOpenMaxRequests
    /\ b.minute < RateLimitPerMinute
    /\ b.concurrent < MaxConcurrentInstances

admitted(b) ==
    [b EXCEPT !.minute = @ + 1,
              !.concurrent = @ + 1,
              !.halfOpen = IF b.state = "HALF_OPEN" THEN @ + 1 ELSE @]

\* concurrentInstances is decremented, but never below zero.
released(b) == [b EXCEPT !.concurrent = IF @ > 0 THEN @ - 1 ELSE @]

\* Mutant: a pending result keeps its half-open slot.
RecordPendingKeeps(b) == released(b)

RecordPending(b) ==
    [released(b) EXCEPT !.halfOpen = IF b.state = "HALF_OPEN" /\ @ > 0 THEN @ - 1 ELSE @]

\* Mutant: any success closes the circuit.
RecordSuccessCloses(b) ==
    LET r == released(b)
    IN  IF r.state # "CLOSED" THEN transitionTo(r, "CLOSED") ELSE r

\* Mutant: the success that closes the circuit keeps its concurrency slot.
RecordSuccessKeeps(b) ==
    IF b.state = "HALF_OPEN" THEN transitionTo(b, "CLOSED") ELSE released(b)

RecordSuccess(b) ==
    LET r == released(b)
    IN  IF r.state = "HALF_OPEN" THEN transitionTo(r, "CLOSED") ELSE r

\* Mutant: a failure while half open only counts.
RecordFailureCounts(b) ==
    LET r == [released(b) EXCEPT !.failures[0] = @ + 1]
    IN  IF countRecentFailures(r) >= FailureThreshold /\ r.state # "OPEN"
        THEN transitionTo(r, "OPEN") ELSE r

RecordFailure(b) ==
    LET r == [released(b) EXCEPT !.failures[0] = @ + 1]
        opens == \/ countRecentFailures(r) >= FailureThreshold /\ r.state # "OPEN"
                 \/ r.state = "HALF_OPEN"
    IN  IF opens THEN transitionTo(r, "OPEN") ELSE r
=============================================================================
