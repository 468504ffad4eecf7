------------------------------ MODULE Batcher ------------------------------
(***************************************************************************)
(* The request batcher (pkg/batcher) with its only user, the pricing       *)
(* batcher.  Callers append a request to the bucket of its hash and        *)
(* trigger the run goroutine, which collects triggers for a while, takes   *)
(* the buckets and starts one worker per bucket; the worker answers every  *)
(* request of its bucket.  A member of Callers makes one call of Add at a  *)
(* time, always for the same catalog entry.                                *)
(***************************************************************************)
EXTENDS Naturals, Sequences, FiniteSets, Functions

CONSTANTS
    Callers,     \* goroutines that call GetPricing
    Entries,     \* catalog entry IDs
    EntryOf,     \* [Callers -> Entries], what each caller asks for
    HashOf,      \* [Entries -> Nat], RequestHasher
    MaxItems,    \* triggers collected for a batch, 0 for no limit
    MaxWorkers   \* limit of requestWorkers

ASSUME BatcherAssumption ==
    /\ EntryOf \in [Callers -> Entries]
    /\ HashOf \in [Entries -> Nat]
    /\ MaxItems \in Nat
    /\ MaxWorkers \in Nat \ {0}
    /\ {"none", "error"} \cap Entries = {}

VARIABLES
    add,       \* where each caller is in Add
    answer,    \* the requestor channel of each caller's last request
    requests,  \* b.requests: the requests of each hash, in order
    trigger,   \* number of elements in the trigger channel
    pc,        \* where the run goroutine is
    count,     \* triggers that waitForIdle has seen
    batches,   \* buckets that run has taken and not yet started
    running,   \* buckets with a worker
    ctxDone    \* the batcher's context has been cancelled

vars == <<add, answer, requests, trigger, pc, count, batches, running, ctxDone>>

Hashes == {HashOf[e] : e \in Entries}
Bucket(r) == HashOf[EntryOf[r]]

\* The pricing of an entry is named by the entry.
Answers == Entries \cup {"none", "error"}

TypeOK ==
    /\ add \in [Callers -> {"idle", "trigger", "wait"}]
    /\ answer \in [Callers -> Answers]
    /\ requests \in [Hashes -> Seq(Callers)]
    /\ trigger \in 0..1
    /\ pc \in {"select", "collect", "copy", "start", "stopped"}
    /\ count \in Nat
    /\ batches \subseteq Seq(Callers)
    /\ running \subseteq Seq(Callers)
    /\ ctxDone \in BOOLEAN

Init ==
    /\ add = [r \in Callers |-> "idle"]
    /\ answer = [r \in Callers |-> "none"]
    /\ requests = [h \in Hashes |-> <<>>]
    /\ trigger = 0
    /\ pc = "select"
    /\ count = 0
    /\ batches = {}
    /\ running = {}
    /\ ctxDone = FALSE

-----------------------------------------------------------------------------
(* Add *)

\* Add registers the request, with a new requestor channel, before it triggers.
Add(r) ==
    /\ add[r] = "idle"
    /\ add' = [add EXCEPT ![r] = "trigger"]
    /\ answer' = [answer EXCEPT ![r] = "none"]
    /\ requests' = [requests EXCEPT ![Bucket(r)] = Append(@, r)]
    /\ UNCHANGED <<trigger, pc, count, batches, running, ctxDone>>

\* A hasher that fails ends the call before anything is registered.
AddFails(r) ==
    /\ add[r] = "idle"
    /\ answer' = [answer EXCEPT ![r] = "error"]
    /\ UNCHANGED <<add, requests, trigger, pc, count, batches, running, ctxDone>>

\* The send blocks while the channel's one place is taken.
Trigger(r) ==
    /\ add[r] = "trigger"
    /\ trigger = 0
    /\ trigger' = 1
    /\ add' = [add EXCEPT ![r] = "wait"]
    /\ UNCHANGED <<answer, requests, pc, count, batches, running, ctxDone>>

\* Add returns what it receives from the requestor channel.
Return(r) ==
    /\ add[r] = "wait"
    /\ answer[r] # "none"
    /\ add' = [add EXCEPT ![r] = "idle"]
    /\ UNCHANGED <<answer, requests, trigger, pc, count, batches, running, ctxDone>>

-----------------------------------------------------------------------------
(* run *)

\* The first trigger opens a batch.
Receive ==
    /\ pc = "select"
    /\ trigger = 1
    /\ trigger' = 0
    /\ pc' = "collect"
    /\ count' = 1
    /\ UNCHANGED <<add, answer, requests, batches, running, ctxDone>>

\* The context is done; select takes either case when both are ready.
Stop ==
    /\ pc = "select"
    /\ ctxDone
    /\ running = {}
    /\ pc' = "stopped"
    /\ UNCHANGED <<add, answer, requests, trigger, count, batches, running, ctxDone>>

\* waitForIdle sees another trigger.  Without a limit the count has no use.
Collect ==
    /\ pc = "collect"
    /\ MaxItems = 0 \/ count < MaxItems
    /\ trigger = 1
    /\ trigger' = 0
    /\ count' = IF MaxItems = 0 THEN count ELSE count + 1
    /\ UNCHANGED <<add, answer, requests, pc, batches, running, ctxDone>>

\* waitForIdle ends: by its limit, by a timer, or with the context.
Idle ==
    /\ pc = "collect"
    /\ pc' = "copy"
    /\ UNCHANGED <<add, answer, requests, trigger, count, batches, running, ctxDone>>

CopyKeeps ==
    /\ pc = "copy"
    /\ batches' = Range(requests) \ {<<>>}
    /\ pc' = "start"
    /\ UNCHANGED <<add, answer, requests, trigger, count, running, ctxDone>>

\* Take every bucket, those of requests that have not triggered yet included.
Copy ==
    /\ pc = "copy"
    /\ batches' = Range(requests) \ {<<>>}
    /\ requests' = [h \in Hashes |-> <<>>]
    /\ pc' = "start"
    /\ UNCHANGED <<add, answer, trigger, count, running, ctxDone>>

\* requestWorkers.Go blocks at the limit.
Start(b) ==
    /\ pc = "start"
    /\ Cardinality(running) < MaxWorkers
    /\ batches' = batches \ {b}
    /\ running' = running \cup {b}
    /\ UNCHANGED <<add, answer, requests, trigger, pc, count, ctxDone>>

LoopDrains ==
    /\ pc = "start"
    /\ batches = {}
    /\ pc' = "select"
    /\ trigger' = 0
    /\ UNCHANGED <<add, answer, requests, count, batches, running, ctxDone>>

\* All buckets have workers.
Loop ==
    /\ pc = "start"
    /\ batches = {}
    /\ pc' = "select"
    /\ UNCHANGED <<add, answer, requests, trigger, count, batches, running, ctxDone>>

-----------------------------------------------------------------------------
(* Workers *)

execPricingBucket(inputs, priced) ==
    [i \in DOMAIN inputs |-> IF inputs[1] \in priced THEN inputs[1] ELSE "error"]

\* One call per distinct entry; its pricing or its error goes to every index that
\* asked for it.  The calls for the entries in priced succeed.
execPricingBatch(inputs, priced) ==
    [i \in DOMAIN inputs |-> IF inputs[i] \in priced THEN inputs[i] ELSE "error"]

runCallsStops(b, results) ==
    [r \in Callers |->
        IF \E i \in DOMAIN b : b[i] = r /\ \A j \in 1..i : results[j] # "error"
        THEN results[CHOOSE i \in DOMAIN b : b[i] = r]
        ELSE answer[r]]

\* Result i goes to request i, and an error to the requests without a result.
runCalls(b, results) ==
    [r \in Callers |->
        IF \E i \in DOMAIN b : b[i] = r
        THEN LET i == CHOOSE j \in DOMAIN b : b[j] = r
             IN  IF i \in DOMAIN results THEN results[i] ELSE "error"
        ELSE answer[r]]

\* A worker answers its bucket.  A requestor channel holds one result, so that a
\* second one would block the worker.
Work(b, priced) ==
    /\ \A i \in DOMAIN b : answer[b[i]] = "none"
    /\ answer' = runCalls(b, execPricingBatch([i \in DOMAIN b |-> EntryOf[b[i]]], priced))
    /\ running' = running \ {b}
    /\ UNCHANGED <<add, requests, trigger, pc, count, batches, ctxDone>>

\* The application shuts down.
Cancel ==
    /\ ~ctxDone
    /\ ctxDone' = TRUE
    /\ UNCHANGED <<add, answer, requests, trigger, pc, count, batches, running>>

-----------------------------------------------------------------------------

Run == Receive \/ Stop \/ Collect \/ Idle \/ Copy \/ Loop \/ \E b \in batches : Start(b)

Next ==
    \/ \E r \in Callers : Add(r) \/ AddFails(r) \/ Trigger(r) \/ Return(r)
    \/ Run
    \/ \E b \in running : \E priced \in SUBSET Entries : Work(b, priced)
    \/ Cancel

Spec == Init /\ [][Next]_vars

\* The goroutines keep running, a call of the catalog ends, the timers of
\* waitForIdle fire, and blocked senders are served in order.
FairSpec ==
    /\ Spec
    /\ WF_vars(Receive \/ Stop) /\ WF_vars(Idle) /\ WF_vars(Copy) /\ WF_vars(Loop)
    /\ WF_vars(\E b \in batches : Start(b))
    /\ \A r \in Callers : SF_vars(Trigger(r)) /\ WF_vars(Return(r))
    /\ WF_vars(\E b \in running : \E priced \in SUBSET Entries : Work(b, priced))

-----------------------------------------------------------------------------
(* Properties *)

\* The trigger is never lost: while run waits for a trigger and there is none, every
\* registered request belongs to an Add that has still to send its own.  It is why
\* Add registers before it triggers (batcher.go:115-118).
NoLostWakeup ==
    pc \in {"start", "select"} /\ trigger = 0 =>
        \A h \in Hashes : \A i \in DOMAIN requests[h] : add[requests[h][i]] = "trigger"

\* A request waits in its bucket, or in a bucket that run has taken.
Queued(r) == r \in Range(requests[Bucket(r)])
Taken(r) == \E b \in batches \cup running : r \in Range(b)

\* The unanswered requests are in exactly one place, once, and the answered ones in
\* none: the write to a requestor channel, which holds one result, never blocks a
\* worker (batcher.go:110-113, 157-160).
ExactlyOnce ==
    /\ \A r \in Callers : add[r] # "idle" /\ answer[r] = "none" <=> Queued(r) \/ Taken(r)
    /\ \A r \in Callers : ~(Queued(r) /\ Taken(r))
    /\ \A b, c \in batches \cup running : Range(b) \cap Range(c) # {} => b = c
    /\ batches \cap running = {}
    /\ \A b \in Range(requests) \cup batches \cup running : IsInjective(b)

\* A caller gets the pricing of the entry it asked for, or an error, also when the
\* hashes of two entries collide (getpricing.go:68-90).
OwnAnswer == \A r \in Callers : answer[r] \in {"none", "error", EntryOf[r]}

\* Every Add returns, unless the batcher's context ends.
EveryAddReturns ==
    \A r \in Callers : add[r] # "idle" ~> add[r] = "idle" \/ ctxDone

\* Requests that run has taken are answered, also when the context ends while they
\* wait for a worker: run looks at the context only between batches (batcher.go:141-143).
CopiedIsAnswered ==
    \A r \in Callers : Taken(r) ~> answer[r] # "none"

\* Every request comes to its end: before the context ends it returns, and once
\* it was taken it is answered in any case.
RequestsEnd == EveryAddReturns /\ CopiedIsAnswered
=============================================================================
