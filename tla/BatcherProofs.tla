--------------------------- MODULE BatcherProofs ---------------------------
(***************************************************************************)
(* For any number of callers, entries and workers: no trigger is lost,     *)
(* each request is answered exactly once, and with the pricing it asked    *)
(* for.  The invariant adds to these that requests wait in their own       *)
(* bucket and that run starts the buckets it took before it takes others.  *)
(***************************************************************************)
EXTENDS Batcher, TLAPS

\* The proofs need hardly any arithmetic; a leaf that does says so.
USE ZenonT(90)

\* Requests wait in the bucket of their hash.
Bucketed ==
    \A h \in Hashes : \A i \in DOMAIN requests[h] : Bucket(requests[h][i]) = h

\* Every bucket that run has taken is started before it takes others.
Settled == pc # "start" => batches = {}

IInv == TypeOK /\ NoLostWakeup /\ ExactlyOnce /\ OwnAnswer /\ Bucketed /\ Settled

-----------------------------------------------------------------------------
(* Sequences of callers *)

\* A caller's bucket is one of the buckets.
LEMMA BucketType == \A r \in Callers : Bucket(r) \in Hashes
  BY BatcherAssumption DEF Bucket, Hashes

\* What Append adds to the elements of a sequence.
LEMMA AppendFacts ==
  ASSUME NEW s \in Seq(Callers), NEW r \in Callers
  PROVE  /\ Append(s, r) \in Seq(Callers)
         /\ DOMAIN Append(s, r) = DOMAIN s \cup {Len(s) + 1}
         /\ Len(s) + 1 \notin DOMAIN s
         /\ \A i \in DOMAIN s : Append(s, r)[i] = s[i]
         /\ Append(s, r)[Len(s) + 1] = r
  BY SMTT(90)

\* The range and the injectivity of a sequence with one more element.
LEMMA AppendRange ==
  ASSUME NEW s \in Seq(Callers), NEW r \in Callers
  PROVE  /\ Range(Append(s, r)) = Range(s) \cup {r}
         /\ IsInjective(s) /\ r \notin Range(s) => IsInjective(Append(s, r))
  <1> DEFINE t == Append(s, r)
             n == Len(s) + 1
  <1>1. /\ DOMAIN t = DOMAIN s \cup {n} /\ n \notin DOMAIN s
        /\ \A i \in DOMAIN s : t[i] = s[i]
        /\ t[n] = r
    BY AppendFacts
  <1> HIDE DEF t, n
  <1>2. Range(t) = Range(s) \cup {r}
    BY <1>1 DEF Range
  <1>3. IsInjective(s) /\ r \notin Range(s) => IsInjective(t)
    BY <1>1 DEF Range, IsInjective
  <1> QED BY <1>2, <1>3 DEF t

\* The empty sequence holds nothing.
LEMMA EmptySeq ==
  /\ <<>> \in Seq(Callers) /\ Range(<<>>) = {} /\ IsInjective(<<>>)
  /\ DOMAIN <<>> = {}
  BY SMTT(90) DEF Range, IsInjective

-----------------------------------------------------------------------------
(* One lemma per action *)

\* Registering a request keeps the invariant: the caller was in no bucket.
LEMMA AddInv == ASSUME IInv, NEW r \in Callers, Add(r) PROVE IInv'
  <1>0. Bucket(r) \in Hashes
    BY BucketType
  <1> DEFINE h == Bucket(r)
             s == requests[h]
  <1>1. s \in Seq(Callers)
    BY <1>0 DEF IInv, TypeOK
  <1>2. /\ requests' = [requests EXCEPT ![h] = Append(s, r)]
        /\ add' = [add EXCEPT ![r] = "trigger"] /\ add[r] = "idle"
        /\ answer' = [answer EXCEPT ![r] = "none"]
        /\ UNCHANGED <<trigger, pc, batches, running>>
    BY DEF Add
  <1>3. /\ add \in [Callers -> {"idle", "trigger", "wait"}]
        /\ answer \in [Callers -> Answers]
        /\ requests \in [Hashes -> Seq(Callers)]
    BY DEF IInv, TypeOK
  <1>4. /\ requests'[h] = Append(s, r)
        /\ \A g \in Hashes : g # h => requests'[g] = requests[g]
    BY <1>0, <1>2, <1>3 DEF h
  <1>5. ~Queued(r) /\ ~Taken(r)
    BY <1>2 DEF IInv, ExactlyOnce
  <1>6. r \notin Range(s)
    BY <1>5 DEF Queued
  <1>7. /\ \A q \in Callers : q # r => (Queued(q)' <=> Queued(q))
        /\ \A q \in Callers : Taken(q)' <=> Taken(q)
        /\ Queued(r)'
    <2>1. \A q \in Callers : Bucket(q) \in Hashes
      BY BucketType
    <2>2. Range(Append(s, r)) = Range(s) \cup {r}
      BY <1>1, AppendRange
    <2>3. \A q \in Callers : q # r => (Queued(q)' <=> Queued(q))
      BY <1>4, <2>1, <2>2 DEF Queued, Bucket
    <2>4. Queued(r)'
      BY <1>4, <2>2 DEF Queued, Bucket
    <2>5. \A q \in Callers : Taken(q)' <=> Taken(q)
      BY <1>2 DEF Taken
    <2> QED BY <2>3, <2>4, <2>5
  <1>8. TypeOK'
    <2>1. Append(s, r) \in Seq(Callers)
      BY SMTT(90), <1>1
    <2>2. requests' \in [Hashes -> Seq(Callers)]
      BY <1>2, <1>3, <2>1, Zenon
    <2>3. add' \in [Callers -> {"idle", "trigger", "wait"}] /\ answer' \in [Callers -> Answers]
      BY <1>2, <1>3 DEF Answers
    <2> QED BY <2>2, <2>3 DEF IInv, TypeOK, Add
  <1>9. ExactlyOnce'
    <2>1. \A q \in Callers : (add[q] # "idle" /\ answer[q] = "none" <=> Queued(q) \/ Taken(q))'
      BY <1>2, <1>3, <1>5, <1>7 DEF IInv, ExactlyOnce
    <2>2. \A q \in Callers : ~(Queued(q)' /\ Taken(q)')
      BY <1>5, <1>7 DEF IInv, ExactlyOnce
    <2>3. \A g \in Hashes : IsInjective(requests[g])
      BY <1>3 DEF IInv, ExactlyOnce, Range
    <2>4. IsInjective(Append(s, r))
      BY <1>0, <1>1, <1>6, <2>3, AppendRange
    <2>5. \A g \in Hashes : IsInjective(requests'[g])
      BY <1>4, <2>3, <2>4
    <2>6. \A b \in Range(requests') : IsInjective(b)
      BY <1>2, <1>3, <2>5 DEF Range
    <2> QED BY <1>2, <2>1, <2>2, <2>6 DEF IInv, ExactlyOnce
  <1>10. NoLostWakeup' /\ Bucketed'
    <2>1. \A g \in Hashes : \A i \in DOMAIN requests'[g] :
             \/ g = h /\ requests'[g][i] = r
             \/ i \in DOMAIN requests[g] /\ requests'[g][i] = requests[g][i]
      BY SMTT(90), <1>1, <1>4, AppendFacts
    <2>2. \A g \in Hashes : \A i \in DOMAIN requests[g] : requests[g][i] \in Callers
      BY SMTT(90), <1>3
    <2> HIDE DEF h, s
    <2>3. NoLostWakeup'
      BY SMTT(90), <1>2, <1>3, <2>1, <2>2 DEF IInv, NoLostWakeup
    <2>4. Bucketed'
      BY SMTT(90), <2>1 DEF IInv, Bucketed, Bucket, h
    <2> QED BY <2>3, <2>4
  <1>11. OwnAnswer'
    BY <1>2, <1>3 DEF IInv, OwnAnswer
  <1>12. Settled'
    BY <1>2 DEF IInv, Settled
  <1> QED BY <1>8, <1>9, <1>10, <1>11, <1>12 DEF IInv
\* A hasher's error keeps the invariant: it touches no request.
LEMMA AddFailsInv == ASSUME IInv, NEW r \in Callers, AddFails(r) PROVE IInv'
  <1>1. /\ add[r] = "idle" /\ answer' = [answer EXCEPT ![r] = "error"]
        /\ UNCHANGED <<add, requests, trigger, pc, count, batches, running, ctxDone>>
    BY DEF AddFails
  <1>2. answer \in [Callers -> Answers] /\ answer' \in [Callers -> Answers]
    BY <1>1 DEF IInv, TypeOK, Answers
  <1>3. \A q \in Callers : (Queued(q)' <=> Queued(q)) /\ (Taken(q)' <=> Taken(q))
    BY <1>1 DEF Queued, Taken
  <1>4. TypeOK' /\ NoLostWakeup' /\ Bucketed' /\ Settled'
    BY <1>1, <1>2 DEF IInv, TypeOK, NoLostWakeup, Bucketed, Settled
  <1>5. ExactlyOnce'
    BY <1>1, <1>2, <1>3 DEF IInv, ExactlyOnce
  <1>6. OwnAnswer'
    BY <1>1, <1>2 DEF IInv, OwnAnswer
  <1> QED BY <1>4, <1>5, <1>6 DEF IInv

\* A trigger keeps the invariant: with it, run has something to receive.
LEMMA TriggerInv == ASSUME IInv, NEW r \in Callers, Trigger(r) PROVE IInv'
  <1>1. /\ add[r] = "trigger" /\ add' = [add EXCEPT ![r] = "wait"] /\ trigger' = 1
        /\ UNCHANGED <<answer, requests, pc, count, batches, running, ctxDone>>
    BY DEF Trigger
  <1>2. \A q \in Callers : (Queued(q)' <=> Queued(q)) /\ (Taken(q)' <=> Taken(q))
    BY <1>1 DEF Queued, Taken
  <1>3. TypeOK' /\ NoLostWakeup' /\ Bucketed' /\ OwnAnswer' /\ Settled'
    BY SMTT(90), <1>1 DEF IInv, TypeOK, NoLostWakeup, Bucketed, OwnAnswer, Settled
  <1>4. \A q \in Callers : add'[q] # "idle" <=> add[q] # "idle"
    BY <1>1 DEF IInv, TypeOK
  <1>5. ExactlyOnce'
    BY <1>1, <1>2, <1>4 DEF IInv, ExactlyOnce
  <1> QED BY <1>3, <1>5 DEF IInv

\* A return keeps the invariant: an answered request is in no bucket.
LEMMA ReturnInv == ASSUME IInv, NEW r \in Callers, Return(r) PROVE IInv'
  <1>1. /\ add[r] = "wait" /\ add' = [add EXCEPT ![r] = "idle"] /\ answer[r] # "none"
        /\ UNCHANGED <<answer, requests, trigger, pc, count, batches, running, ctxDone>>
    BY DEF Return
  <1>2. \A q \in Callers : (Queued(q)' <=> Queued(q)) /\ (Taken(q)' <=> Taken(q))
    BY <1>1 DEF Queued, Taken
  <1>3. TypeOK' /\ Bucketed' /\ OwnAnswer' /\ Settled'
    BY <1>1 DEF IInv, TypeOK, Bucketed, OwnAnswer, Settled
  <1>4. \A q \in Callers : add'[q] # "idle" /\ answer[q] = "none" <=> add[q] # "idle" /\ answer[q] = "none"
    BY <1>1 DEF IInv, TypeOK
  <1>5. ExactlyOnce'
    BY <1>1, <1>2, <1>4 DEF IInv, ExactlyOnce
  <1>6. NoLostWakeup'
    BY SMTT(90), <1>1 DEF IInv, TypeOK, NoLostWakeup
  <1> QED BY <1>3, <1>5, <1>6 DEF IInv

\* The steps of run that move no bucket keep the invariant.
LEMMA RunInv ==
  ASSUME IInv, Receive \/ Stop \/ Collect \/ Idle \/ Loop
  PROVE  IInv'
  <1>1. UNCHANGED <<add, answer, requests, batches, running, ctxDone>>
    BY DEF Receive, Stop, Collect, Idle, Loop
  <1>2. \A q \in Callers : (Queued(q)' <=> Queued(q)) /\ (Taken(q)' <=> Taken(q))
    BY <1>1 DEF Queued, Taken
  <1>3. trigger' \in 0..1 /\ count' \in Nat
    BY SMTT(90) DEF IInv, TypeOK, Receive, Stop, Collect, Idle, Loop
  <1>4. pc' \in {"select", "collect", "copy", "start", "stopped"}
    BY DEF IInv, TypeOK, Receive, Stop, Collect, Idle, Loop
  <1>5. TypeOK' /\ Bucketed' /\ OwnAnswer'
    BY <1>1, <1>3, <1>4 DEF IInv, TypeOK, Bucketed, OwnAnswer
  <1>6. ExactlyOnce'
    BY <1>1, <1>2 DEF IInv, ExactlyOnce
  <1>7. NoLostWakeup'
    BY <1>1 DEF IInv, NoLostWakeup, Receive, Stop, Collect, Idle, Loop
  <1>8. Settled'
    BY DEF IInv, Settled, Receive, Stop, Collect, Idle, Loop
  <1> QED BY <1>5, <1>6, <1>7, <1>8 DEF IInv
\* Taking the buckets keeps the invariant: what was queued is taken, and two buckets
\* have no request in common.
LEMMA CopyInv == ASSUME IInv, Copy PROVE IInv'
  <1>1. /\ pc = "copy" /\ pc' = "start" /\ batches = {}
        /\ batches' = Range(requests) \ {<<>>}
        /\ requests' = [h \in Hashes |-> <<>>]
        /\ UNCHANGED <<add, answer, trigger, count, running, ctxDone>>
    BY DEF Copy, IInv, Settled
  <1>2. requests \in [Hashes -> Seq(Callers)] /\ running \subseteq Seq(Callers)
    BY DEF IInv, TypeOK
  <1>3. \A h \in Hashes : requests'[h] = <<>>
    BY <1>1
  <1>4. \A b \in batches' : \E h \in Hashes : b = requests[h]
    BY <1>1, <1>2 DEF Range
  <1>5. ASSUME NEW h \in Hashes, NEW r \in Range(requests[h])
        PROVE  r \in Callers /\ Bucket(r) = h /\ Queued(r)
    <2>1. PICK i \in DOMAIN requests[h] : r = requests[h][i]
      BY DEF Range
    <2>2. r \in Callers
      BY SMTT(90), <1>2, <2>1
    <2>3. Bucket(r) = h
      BY <2>1 DEF IInv, Bucketed
    <2> QED BY <2>2, <2>3 DEF Queued
  <1>6. \A q \in Callers : ~Queued(q)'
    BY <1>3, BucketType, EmptySeq DEF Queued, Bucket
  <1>7. \A q \in Callers : Taken(q)' <=> Taken(q) \/ Queued(q)
    <2> SUFFICES ASSUME NEW q \in Callers PROVE Taken(q)' <=> Taken(q) \/ Queued(q)
      OBVIOUS
    <2>1. Taken(q) => Taken(q)'
      BY <1>1 DEF Taken
    <2>2. ASSUME Queued(q) PROVE Taken(q)'
      <3>1. Bucket(q) \in Hashes /\ q \in Range(requests[Bucket(q)])
        BY <2>2, BucketType DEF Queued
      <3>2. requests[Bucket(q)] # <<>>
        BY <3>1, EmptySeq
      <3>3. requests[Bucket(q)] \in batches'
        BY <1>1, <1>2, <3>1, <3>2 DEF Range
      <3> QED BY <3>1, <3>3 DEF Taken
    <2>3. ASSUME NEW b \in batches', q \in Range(b) PROVE Queued(q)
      BY <1>4, <1>5, <2>3
    <2>4. Taken(q)' => Taken(q) \/ Queued(q)
      BY <1>1, <2>3 DEF Taken
    <2> QED BY <2>1, <2>2, <2>4
  <1>8. \A b \in batches' : /\ b \in Seq(Callers) /\ IsInjective(b)
                            /\ \E r : r \in Range(b)
    <2> SUFFICES ASSUME NEW b \in batches'
                 PROVE  b \in Seq(Callers) /\ IsInjective(b) /\ \E r : r \in Range(b)
      OBVIOUS
    <2>1. b \in Range(requests) /\ b # <<>>
      BY <1>1
    <2>2. b \in Seq(Callers)
      BY <1>2, <1>4
    <2>3. IsInjective(b)
      BY <2>1 DEF IInv, ExactlyOnce
    <2>4. 1 \in DOMAIN b
      BY SMTT(90), <2>1, <2>2
    <2>5. b[1] \in Range(b)
      BY <2>4 DEF Range
    <2> QED BY <2>2, <2>3, <2>5
  <1>9. ExactlyOnce'
    <2>1. \A q \in Callers : (add[q] # "idle" /\ answer[q] = "none" <=> Queued(q) \/ Taken(q))'
      BY <1>1, <1>6, <1>7 DEF IInv, ExactlyOnce
    <2>2. ASSUME NEW b \in batches', NEW c \in batches', Range(b) \cap Range(c) # {} PROVE b = c
      BY <1>4, <1>5, <2>2
    <2>3. ASSUME NEW b \in batches', NEW c \in running PROVE Range(b) \cap Range(c) = {}
      <3>1. \A r \in Range(b) : r \in Callers /\ Queued(r)
        BY <1>4, <1>5
      <3>2. \A r \in Range(c) : Taken(r)
        BY DEF Taken
      <3> QED BY <3>1, <3>2 DEF IInv, ExactlyOnce
    <2>4. \A b, c \in running : Range(b) \cap Range(c) # {} => b = c
      BY DEF IInv, ExactlyOnce
    <2>5. \A b, c \in batches' \cup running : Range(b) \cap Range(c) # {} => b = c
      BY <2>2, <2>3, <2>4
    <2>6. batches' \cap running = {}
      BY <1>8, <2>3
    <2>7. \A b \in Range(requests') : IsInjective(b)
      BY <1>1, EmptySeq DEF Range
    <2>8. \A b \in batches' \cup running : IsInjective(b)
      BY <1>8 DEF IInv, ExactlyOnce
    <2> QED BY <1>1, <1>6, <2>1, <2>5, <2>6, <2>7, <2>8 DEF ExactlyOnce
  <1>10. TypeOK'
    <2>1. requests' \in [Hashes -> Seq(Callers)]
      BY <1>1, EmptySeq, Zenon
    <2>2. batches' \subseteq Seq(Callers)
      BY <1>8
    <2> QED BY <1>1, <2>1, <2>2 DEF IInv, TypeOK
  <1>11. NoLostWakeup' /\ Bucketed'
    BY <1>3, EmptySeq DEF NoLostWakeup, Bucketed
  <1>12. OwnAnswer' /\ Settled'
    BY <1>1 DEF IInv, OwnAnswer, Settled
  <1> QED BY <1>9, <1>10, <1>11, <1>12 DEF IInv

\* Starting a worker keeps the invariant: the bucket stays taken.
LEMMA StartInv == ASSUME IInv, NEW b \in batches, Start(b) PROVE IInv'
  <1>1. /\ pc = "start" /\ batches' = batches \ {b} /\ running' = running \cup {b}
        /\ UNCHANGED <<add, answer, requests, trigger, pc, count, ctxDone>>
    BY DEF Start
  <1>2. batches' \cup running' = batches \cup running
    BY <1>1
  <1>3. \A q \in Callers : (Queued(q)' <=> Queued(q)) /\ (Taken(q)' <=> Taken(q))
    BY <1>1, <1>2 DEF Queued, Taken
  <1>4. batches' \cap running' = {}
    BY <1>1 DEF IInv, ExactlyOnce
  <1>5. ExactlyOnce'
    BY <1>1, <1>2, <1>3, <1>4 DEF IInv, ExactlyOnce
  <1>6. TypeOK'
    BY <1>1 DEF IInv, TypeOK
  <1>7. NoLostWakeup' /\ Bucketed' /\ OwnAnswer' /\ Settled'
    BY <1>1 DEF IInv, NoLostWakeup, Bucketed, OwnAnswer, Settled
  <1> QED BY <1>5, <1>6, <1>7 DEF IInv

\* A worker's answers keep the invariant: they go to the requests of its bucket, to
\* each what its entry costs.
LEMMA WorkInv ==
  ASSUME IInv, NEW b \in running, NEW priced \in SUBSET Entries, Work(b, priced)
  PROVE  IInv'
  <1> DEFINE inputs == [i \in DOMAIN b |-> EntryOf[b[i]]]
             results == execPricingBatch(inputs, priced)
  <1>1. /\ answer' = runCalls(b, results) /\ running' = running \ {b}
        /\ UNCHANGED <<add, requests, trigger, pc, count, batches, ctxDone>>
    BY DEF Work
  <1>2. b \in Seq(Callers) /\ \A i \in DOMAIN b : b[i] \in Callers
    BY SMTT(90) DEF IInv, TypeOK
  <1>3. /\ DOMAIN results = DOMAIN b
        /\ \A i \in DOMAIN b : results[i] \in {"error", EntryOf[b[i]]}
    BY DEF execPricingBatch
  <1> HIDE DEF results, inputs
  <1>4. \A r \in Callers : r \notin Range(b) => answer'[r] = answer[r]
    BY <1>1 DEF runCalls, Range
  <1>5. \A r \in Callers : r \in Range(b) => answer'[r] \in {"error", EntryOf[r]}
    <2> SUFFICES ASSUME NEW r \in Callers, r \in Range(b)
                 PROVE  answer'[r] \in {"error", EntryOf[r]}
      OBVIOUS
    <2> DEFINE i == CHOOSE j \in DOMAIN b : b[j] = r
    <2>1. \E j \in DOMAIN b : b[j] = r
      BY DEF Range
    <2>2. i \in DOMAIN b /\ b[i] = r
      BY <2>1
    <2>3. answer'[r] = results[i]
      BY <1>1, <1>3, <2>1, <2>2 DEF runCalls
    <2> QED BY <1>3, <2>2, <2>3
  <1>6. \A e \in Entries : e # "none"
    BY BatcherAssumption
  <1>7. answer' \in [Callers -> Answers]
    <2>1. answer' = [r \in Callers |-> answer'[r]]
      BY <1>1 DEF runCalls
    <2>2. \A r \in Callers : answer'[r] \in Answers
      BY <1>4, <1>5, BatcherAssumption DEF IInv, TypeOK, Answers
    <2> QED BY <2>1, <2>2
  <1>8. \A q \in Callers : /\ Queued(q)' <=> Queued(q)
                           /\ Taken(q)' <=> Taken(q) /\ q \notin Range(b)
    <2>1. \A q \in Callers : Queued(q)' <=> Queued(q)
      BY <1>1 DEF Queued
    <2>2. b \notin batches
      BY DEF IInv, ExactlyOnce
    <2>3. \A c \in batches' \cup running' : /\ c \in batches \cup running /\ c # b
                                            /\ Range(c) \cap Range(b) = {}
      BY <1>1, <2>2 DEF IInv, ExactlyOnce
    <2>4. \A c \in batches \cup running : c # b => c \in batches' \cup running'
      BY <1>1
    <2>5. \A q \in Callers : Taken(q)' <=> Taken(q) /\ q \notin Range(b)
      BY <2>3, <2>4 DEF Taken
    <2> QED BY <2>1, <2>5
  <1>9. ExactlyOnce'
    <2>1. \A q \in Callers : q \in Range(b) => Taken(q)
      BY DEF Taken
    <2>2. \A q \in Callers : (add[q] # "idle" /\ answer[q] = "none" <=> Queued(q) \/ Taken(q))'
      <3> SUFFICES ASSUME NEW q \in Callers
                   PROVE  add[q] # "idle" /\ answer'[q] = "none" <=> Queued(q)' \/ Taken(q)'
        BY <1>1
      <3>1. CASE q \in Range(b)
        <4>1. answer'[q] # "none"
          BY <1>5, <1>6, <3>1, BatcherAssumption
        <4>2. ~Queued(q)' /\ ~Taken(q)'
          BY <1>8, <2>1, <3>1 DEF IInv, ExactlyOnce
        <4> QED BY <4>1, <4>2
      <3>2. CASE q \notin Range(b)
        BY <1>4, <1>8, <3>2 DEF IInv, ExactlyOnce
      <3> QED BY <3>1, <3>2
    <2>3. \A q \in Callers : ~(Queued(q)' /\ Taken(q)')
      BY <1>8 DEF IInv, ExactlyOnce
    <2> QED BY <1>1, <2>2, <2>3 DEF IInv, ExactlyOnce
  <1>10. TypeOK'
    BY <1>1, <1>7 DEF IInv, TypeOK
  <1>11. OwnAnswer'
    BY <1>4, <1>5 DEF IInv, OwnAnswer
  <1>12. NoLostWakeup' /\ Bucketed' /\ Settled'
    BY <1>1 DEF IInv, NoLostWakeup, Bucketed, Settled
  <1> QED BY <1>9, <1>10, <1>11, <1>12 DEF IInv

-----------------------------------------------------------------------------
(* The theorems *)

\* The new batcher, which holds no request, satisfies the invariant.
LEMMA InitInv == Init => IInv
  <1> SUFFICES ASSUME Init PROVE IInv
    OBVIOUS
  <1>1. \A h \in Hashes : requests[h] = <<>>
    BY DEF Init
  <1>2. \A q \in Callers : ~Queued(q) /\ ~Taken(q)
    BY <1>1, BucketType, EmptySeq DEF Init, Queued, Taken
  <1>3. TypeOK
    <2>1. requests \in [Hashes -> Seq(Callers)]
      BY EmptySeq, Zenon DEF Init
    <2>2. add \in [Callers -> {"idle", "trigger", "wait"}] /\ answer \in [Callers -> Answers]
      BY DEF Init, Answers
    <2>3. batches \subseteq Seq(Callers) /\ running \subseteq Seq(Callers) /\ ctxDone \in BOOLEAN
      BY DEF Init
    <2>4. trigger \in 0..1 /\ count \in Nat
      BY SMTT(90) DEF Init
    <2>5. pc \in {"select", "collect", "copy", "start", "stopped"}
      BY DEF Init
    <2> QED BY <2>1, <2>2, <2>3, <2>4, <2>5, Zenon DEF TypeOK
  <1>4. \A b \in Range(requests) : IsInjective(b)
    BY EmptySeq DEF Init, Range
  <1>5. ExactlyOnce
    BY <1>2, <1>4 DEF Init, ExactlyOnce
  <1>6. NoLostWakeup /\ Bucketed
    BY <1>1, EmptySeq DEF NoLostWakeup, Bucketed
  <1>7. OwnAnswer /\ Settled
    BY DEF Init, OwnAnswer, Settled
  <1> QED BY <1>3, <1>5, <1>6, <1>7 DEF IInv

\* Every step keeps the invariant.
LEMMA NextInv == IInv /\ [Next]_vars => IInv'
  <1> SUFFICES ASSUME IInv, [Next]_vars PROVE IInv'
    OBVIOUS
  <1>1. CASE UNCHANGED <<add, answer, requests, trigger, pc, count, batches, running>> /\ ctxDone' \in BOOLEAN
    <2>1. \A q \in Callers : (Queued(q)' <=> Queued(q)) /\ (Taken(q)' <=> Taken(q))
      BY <1>1 DEF Queued, Taken
    <2>2. ExactlyOnce'
      BY <1>1, <2>1 DEF IInv, ExactlyOnce
    <2> QED BY <1>1, <2>2 DEF IInv, TypeOK, NoLostWakeup, OwnAnswer, Bucketed, Settled
  <1>2. CASE UNCHANGED vars
    BY <1>1, <1>2 DEF vars, IInv, TypeOK
  <1>3. CASE Cancel
    BY <1>1, <1>3 DEF Cancel
  <1>4. CASE Run
    BY <1>4, RunInv, CopyInv, StartInv DEF Run
  <1>5. CASE \E r \in Callers : Add(r) \/ AddFails(r) \/ Trigger(r) \/ Return(r)
    BY <1>5, AddInv, AddFailsInv, TriggerInv, ReturnInv
  <1>6. CASE \E b \in running : \E priced \in SUBSET Entries : Work(b, priced)
    BY <1>6, WorkInv
  <1> QED BY <1>2, <1>3, <1>4, <1>5, <1>6 DEF Next

\* The inductive invariant holds in every reachable state.
THEOREM Invariance == Spec => []IInv
  BY InitInv, NextInv, PTL DEF Spec

\* The state of the batcher is well typed; in particular the trigger channel never
\* holds more than its one element.
THEOREM BatcherTypeCorrect == Spec => []TypeOK
  <1>1. IInv => TypeOK
    BY DEF IInv
  <1> QED BY <1>1, Invariance, PTL

\* No Add waits for a trigger that run has already consumed.
THEOREM NeverLosesWakeup == Spec => []NoLostWakeup
  <1>1. IInv => NoLostWakeup
    BY DEF IInv
  <1> QED BY <1>1, Invariance, PTL

\* Each request is answered exactly once, so that no worker blocks on an answer.
THEOREM AnsweredOnce == Spec => []ExactlyOnce
  <1>1. IInv => ExactlyOnce
    BY DEF IInv
  <1> QED BY <1>1, Invariance, PTL

\* Whatever hashes collide, a caller gets the pricing of its own entry or an error.
THEOREM AnswersOwn == Spec => []OwnAnswer
  <1>1. IInv => OwnAnswer
    BY DEF IInv
  <1> QED BY <1>1, Invariance, PTL
=============================================================================
