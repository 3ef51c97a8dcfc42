--------------------------- MODULE Serving_proofs ---------------------------
(***************************************************************************)
(* Proofs about QueryServing for every set of requests and questions, every *)
(* number of permits and every length of an answer, whatever the provider,  *)
(* Redis, the clients and the operator do; and about RateLimiter, the guard *)
(* in front of it, for every limit, window and unit of time.                *)
(***************************************************************************)
EXTENDS QueryServing, RateLimiter, Integers, FiniteSetTheorems, TLAPS

Request == [key : Keys, stream : BOOLEAN, useCache : BOOLEAN]
Answering == {r \in Requests : pc[r] = "answering"}

(* a answers the question e[1] over an index served under the identity e[2]. *)
Match(e, a) == \E v \in Versions : <<e[2], v>> \in served /\ a = <<e[1], v>>

(* A query that runs has its payload, and one that stores an answer that    *)
(* matches its key.  Every index there was while a query is answered was    *)
(* served by its process.  No query runs while the process is down.         *)
Running(r) ==
  /\ pc[r] \in {"lookup", "waiting", "answering", "storing"} =>
       up /\ request[r] \in Request
  /\ pc[r] = "answering" => \A v \in since[r]..index : <<identity, v>> \in served
  /\ pc[r] = "storing" => Match(<<request[r].key, identity>>, answer[r])

QueryState == \A r \in Requests : Running(r)

(* What the cache holds at a key matches it; the process serves the index   *)
(* there is.                                                               *)
CacheState ==
  /\ \A e \in Keys \X Versions : cache[e] # NoAnswer => Match(e, cache[e])
  /\ up => <<identity, index>> \in served

(* What a stream has sent, by its state.                                   *)
Sent(r) ==
  /\ stream[r] = "none" => events[r] = <<>> /\ connected[r]
  /\ stream[r] = "polling" => events[r] = <<>> /\ pc[r] # "idle"
  /\ stream[r] = "sending" =>
       /\ pc[r] = "done" /\ outcome[r] = "ok" /\ Len(events[r]) <= Chunks
       /\ \A i \in 1..Len(events[r]) : events[r][i] = "delta"
  /\ stream[r] = "closing" => events[r] = <<>> /\ ~connected[r] /\ pc[r] # "idle"
  /\ pc[r] = "idle" => stream[r] = "none" /\ outcome[r] = "none"

StreamState == \A r \in Requests : Sent(r)

IInv ==
  /\ TypeOK /\ PermitsAccounted
  /\ QueryState /\ CacheState
  /\ StreamState /\ StreamWellFormed /\ NoOrphanQuery

-----------------------------------------------------------------------------
(* The permits                                                              *)

LEMMA PermitType ==
  ASSUME PermitsAccounted, permits \in Nat
  PROVE  /\ permits \in 0..Concurrency
         /\ IsFiniteSet(Answering) /\ Cardinality(Answering) \in Nat
         /\ permits + Cardinality(Answering) = Concurrency
  <1>1. IsFiniteSet(Answering)
    BY RequestsAssumption, FS_Subset DEF Answering
  <1> QED
    BY <1>1, FS_CardinalityType, ConcurrencyAssumption DEF PermitsAccounted, Answering

(* Whoever leaves the semaphore block gives its permit back.                *)
LEMMA LeaveAnswering ==
  ASSUME TypeOK, PermitsAccounted, NEW r \in Requests, NEW p,
         pc[r] = "answering", p # "answering",
         pc' = [pc EXCEPT ![r] = p], permits' = permits + 1
  PROVE  PermitsAccounted' /\ permits' \in 0..Concurrency
  <1>1. Answering' = Answering \ {r}
    BY DEF Answering, TypeOK
  <1>2. r \in Answering /\ permits \in Nat
    BY DEF Answering, TypeOK
  <1>3. Cardinality(Answering') = Cardinality(Answering) - 1
    BY <1>1, <1>2, PermitType, FS_RemoveElement
  <1>4. Cardinality(Answering') \in Nat
    BY <1>1, <1>2, PermitType, FS_RemoveElement, FS_CardinalityType
  <1> QED
    BY <1>2, <1>3, <1>4, PermitType, ConcurrencyAssumption
       DEF PermitsAccounted, Answering

LEMMA EnterAnswering ==
  ASSUME TypeOK, PermitsAccounted, NEW r \in Requests,
         pc[r] = "waiting", permits > 0,
         pc' = [pc EXCEPT ![r] = "answering"], permits' = permits - 1
  PROVE  PermitsAccounted' /\ permits' \in 0..Concurrency
  <1>1. Answering' = Answering \cup {r}
    BY DEF Answering, TypeOK
  <1>2. r \notin Answering /\ permits \in Nat
    BY DEF Answering, TypeOK
  <1>3. Cardinality(Answering') = Cardinality(Answering) + 1
    BY <1>1, <1>2, PermitType, FS_AddElement
  <1> QED
    BY <1>2, <1>3, PermitType, ConcurrencyAssumption DEF PermitsAccounted, Answering

LEMMA SamePermits ==
  ASSUME TypeOK, PermitsAccounted, permits' = permits,
         \A r \in Requests : pc'[r] = "answering" <=> pc[r] = "answering"
  PROVE  PermitsAccounted' /\ permits' \in 0..Concurrency
  BY DEF PermitsAccounted, TypeOK

(* Every step of a query keeps the permits: it is in the block, enters it,  *)
(* leaves it, or stays out of it.                                          *)
LEMMA QueryStepPermits ==
  ASSUME IInv, NEW r \in Requests, QueryStep(r)
  PROVE  PermitsAccounted' /\ permits' \in 0..Concurrency
<1> USE DEF IInv
<1>1. CASE LookupHit(r) \/ LookupMiss(r) \/ LookupError(r) \/ Store(r) \/ StoreError(r)
  BY <1>1, SamePermits
     DEF LookupHit, LookupMiss, LookupError, Store, StoreError, Active, Conclude, TypeOK
<1>2. CASE Acquire(r)
  BY <1>2, EnterAnswering DEF Acquire, Active
<1>3. CASE AnswerReady(r)
  <2>1. \E p \in {"storing", "done"} : pc' = [pc EXCEPT ![r] = p]
    BY <1>3 DEF AnswerReady, Conclude
  <2> QED
    BY <1>3, <2>1, LeaveAnswering DEF AnswerReady, Active
<1>4. CASE AnswerFails(r)
  BY <1>4, LeaveAnswering DEF AnswerFails, Active, Conclude
<1>5. CASE Timeout(r) \/ Cancelled(r)
  <2>1. pc' = [pc EXCEPT ![r] = "done"]
    BY <1>5 DEF Timeout, Cancelled, Conclude
  <2>2. permits' = IF pc[r] = "answering" THEN permits + 1 ELSE permits
    BY <1>5 DEF Timeout, Cancelled
  <2>3. CASE pc[r] = "answering"
    BY <2>1, <2>2, <2>3, LeaveAnswering
  <2>4. CASE pc[r] # "answering"
    BY <2>1, <2>2, <2>4, SamePermits DEF TypeOK
  <2> QED
    BY <2>3, <2>4
<1> QED
  BY <1>1, <1>2, <1>3, <1>4, <1>5 DEF QueryStep

LEMMA CrashPermits ==
  ASSUME IInv, Crash
  PROVE  PermitsAccounted' /\ permits' \in 0..Concurrency
  <1>1. Answering' = {}
    BY DEF Answering, Crash, IInv, TypeOK, Lost
  <1>2. permits' = Concurrency
    BY DEF Crash
  <1> QED
    BY <1>1, <1>2, FS_EmptySet, ConcurrencyAssumption DEF PermitsAccounted, Answering

-----------------------------------------------------------------------------
(* What a step leaves alone stays as it was                                 *)

LEMMA RunningKept ==
  ASSUME NEW r, Running(r), UNCHANGED <<up, index, identity, served>>,
         request'[r] = request[r], pc'[r] = pc[r], since'[r] = since[r],
         answer'[r] = answer[r]
  PROVE  Running(r)'
  BY DEF Running, Match

LEMMA CacheKept ==
  ASSUME CacheState, UNCHANGED <<up, index, identity, served, cache>>
  PROVE  CacheState'
  BY DEF CacheState, Match

LEMMA StatesKept ==
  ASSUME QueryState, CacheState, UNCHANGED <<process, cache, task>>
  PROVE  QueryState' /\ CacheState'
  BY RunningKept, CacheKept DEF QueryState, process, task

(* Who no longer works for its answer has nothing more to match.            *)
LEMMA RunningPast ==
  ASSUME NEW r, Running(r), UNCHANGED <<up, request>>,
         pc[r] \in {"lookup", "waiting", "answering", "storing"},
         pc'[r] \in {"waiting", "done"}
  PROVE  Running(r)'
  BY DEF Running

-----------------------------------------------------------------------------
(* The steps of a query                                                     *)

(* The service answers from an index that its process served.               *)
LEMMA AnswerMatches ==
  ASSUME IInv, NEW r \in Requests, AnswerReady(r)
  PROVE  /\ Match(CacheKey(r), answer'[r])
         /\ answer' \in [Requests -> Answers \cup {NoAnswer}]
<1>1. PICK v \in since[r]..index : answer' = [answer EXCEPT ![r] = <<request[r].key, v>>]
  BY DEF AnswerReady
<1>2. v \in Versions /\ <<identity, v>> \in served
  <2>1. since[r] \in 0..MaxIndex /\ index \in 0..MaxIndex
    BY DEF IInv, TypeOK, Versions
  <2>2. v \in 0..MaxIndex
    BY <1>1, <2>1, SizeAssumption
  <2>3. <<identity, v>> \in served
    BY <1>1 DEF AnswerReady, Active, IInv, QueryState, Running
  <2> QED
    BY <2>2, <2>3 DEF Versions
<1>3. request[r] \in Request
  BY DEF AnswerReady, Active, IInv, QueryState, Running
<1> QED
  BY <1>1, <1>2, <1>3 DEF IInv, TypeOK, Match, CacheKey, Request, Answers

LEMMA QueryStepTypes ==
  ASSUME IInv, NEW r \in Requests, QueryStep(r)
  PROVE  TypeOK'
<1>0. permits' \in 0..Concurrency /\ 0 \in Versions
  BY QueryStepPermits, SizeAssumption DEF Versions
<1> USE DEF IInv
<1>1. CASE LookupHit(r)
  BY <1>0, <1>1 DEF LookupHit, Active, Conclude, Class, CacheKey, TypeOK, QueryState, Running, Request, Answers,
     process, channel
<1>2. CASE LookupMiss(r)
  BY <1>0, <1>2 DEF LookupMiss, Active, Conclude, Class, CacheKey, TypeOK, QueryState, Running, Request, Answers,
     process, channel
<1>3. CASE LookupError(r)
  BY <1>0, <1>3 DEF LookupError, Active, Conclude, Class, CacheKey, TypeOK, QueryState, Running, Request, Answers,
     process, channel
<1>4. CASE Acquire(r)
  BY <1>0, <1>4 DEF Acquire, Active, Conclude, Class, CacheKey, TypeOK, QueryState, Running, Request, Answers,
     process, channel
<1>5. CASE AnswerReady(r)
  BY <1>0, <1>5, AnswerMatches DEF AnswerReady, Active, Conclude, Class, CacheKey, TypeOK, QueryState, Running, Request, Answers,
     process, channel
<1>6. CASE AnswerFails(r)
  BY <1>0, <1>6 DEF AnswerFails, Active, Conclude, Class, CacheKey, TypeOK, QueryState, Running, Request, Answers,
     process, channel
<1>7. CASE Timeout(r)
  BY <1>0, <1>7 DEF Timeout, Active, Conclude, Class, CacheKey, TypeOK, QueryState, Running, Request, Answers,
     process, channel
<1>8. CASE Store(r)
  BY <1>0, <1>8 DEF Store, Active, Conclude, Class, CacheKey, TypeOK, QueryState, Running, Request, Answers,
     process, channel
<1>9. CASE StoreError(r)
  BY <1>0, <1>9 DEF StoreError, Active, Conclude, Class, CacheKey, TypeOK, QueryState, Running, Request, Answers,
     process, channel
<1>10. CASE Cancelled(r)
  BY <1>0, <1>10 DEF Cancelled, Active, Conclude, Class, CacheKey, TypeOK, QueryState, Running, Request, Answers,
     process, channel
<1> QED
  BY <1>1, <1>2, <1>3, <1>4, <1>5, <1>6, <1>7, <1>8, <1>9, <1>10 DEF QueryStep

LEMMA QueryStepStates ==
  ASSUME IInv, NEW r \in Requests, QueryStep(r)
  PROVE  QueryState' /\ CacheState'
<1> USE DEF IInv
<1>0. UNCHANGED <<up, index, identity, served, request>>
  BY DEF QueryStep, LookupHit, LookupMiss, LookupError, Acquire, AnswerReady, AnswerFails,
         Timeout, Store, StoreError, Cancelled, process
<1>1. /\ pc[r] \in {"lookup", "waiting", "answering", "storing"}
      /\ \A q \in Requests \ {r} :
           pc'[q] = pc[q] /\ since'[q] = since[q] /\ answer'[q] = answer[q]
  BY DEF QueryStep, LookupHit, LookupMiss, LookupError, Acquire, AnswerReady, AnswerFails,
         Timeout, Store, StoreError, Cancelled, Active, Conclude, TypeOK
<1>2. \A q \in Requests \ {r} : Running(q)'
  BY <1>0, <1>1, RunningKept DEF QueryState
<1>3. ASSUME pc'[r] \in {"waiting", "done"} PROVE QueryState'
  BY <1>0, <1>1, <1>2, <1>3, RunningPast DEF QueryState
<1>4. CASE LookupHit(r) \/ LookupMiss(r) \/ LookupError(r) \/ AnswerFails(r)
           \/ Timeout(r) \/ StoreError(r)
  BY <1>0, <1>3, <1>4, CacheKept
     DEF LookupHit, LookupMiss, LookupError, AnswerFails, Timeout, StoreError, Conclude,
         TypeOK
<1>5. CASE Acquire(r)
  <2>1. /\ since'[r] = index /\ pc'[r] = "answering" /\ UNCHANGED cache
        /\ up /\ request[r] \in Request
    BY <1>1, <1>5 DEF Acquire, TypeOK, QueryState, Running
  <2>2. \A v \in index..index : v = index
    BY SizeAssumption DEF TypeOK, Versions
  <2>3. Running(r)'
    BY <1>0, <2>1, <2>2 DEF Running, CacheState
  <2> QED
    BY <1>0, <1>2, <2>1, <2>3, CacheKept DEF QueryState
<1>6. CASE AnswerReady(r)
  <2>1. UNCHANGED cache /\ pc'[r] \in {"storing", "done"}
    BY <1>6 DEF AnswerReady, Conclude, TypeOK
  <2>2. ASSUME pc'[r] = "storing" PROVE Running(r)'
    BY <1>0, <1>1, <1>6, <2>2, AnswerMatches DEF Running, QueryState, CacheKey, Match
  <2> QED
    BY <1>0, <1>2, <1>3, <2>1, <2>2, CacheKept DEF QueryState
<1>7. CASE Store(r) \/ Cancelled(r)
  <2>1. pc'[r] = "done"
    BY <1>7 DEF Store, Cancelled, Conclude, TypeOK
  <2>2. CASE UNCHANGED cache
    BY <1>0, <1>3, <2>1, <2>2, CacheKept
  <2>3. CASE pc[r] = "storing" /\ cache' = [cache EXCEPT ![CacheKey(r)] = answer[r]]
    <3>1. Match(CacheKey(r), answer[r])
      BY <2>3 DEF QueryState, Running, CacheKey
    <3>2. CacheState'
      BY <1>0, <2>3, <3>1 DEF CacheState, TypeOK, Match
    <3> QED
      BY <1>3, <2>1, <3>2
  <2> QED
    BY <1>7, <2>2, <2>3 DEF Store, Cancelled, Active
<1> QED
  BY <1>4, <1>5, <1>6, <1>7 DEF QueryStep

LEMMA QueryStepStreams ==
  ASSUME IInv, NEW r \in Requests, QueryStep(r)
  PROVE  StreamState' /\ StreamWellFormed' /\ NoOrphanQuery'
<1> USE DEF IInv
<1>1. CASE LookupHit(r)
  BY <1>1 DEF LookupHit, Active, Conclude, TypeOK, StreamState, Sent,
     StreamWellFormed, NoOrphanQuery, channel
<1>2. CASE LookupMiss(r)
  BY <1>2 DEF LookupMiss, Active, Conclude, TypeOK, StreamState, Sent,
     StreamWellFormed, NoOrphanQuery, channel
<1>3. CASE LookupError(r)
  BY <1>3 DEF LookupError, Active, Conclude, TypeOK, StreamState, Sent,
     StreamWellFormed, NoOrphanQuery, channel
<1>4. CASE Acquire(r)
  BY <1>4 DEF Acquire, Active, Conclude, TypeOK, StreamState, Sent,
     StreamWellFormed, NoOrphanQuery, channel
<1>5. CASE AnswerReady(r)
  BY <1>5 DEF AnswerReady, Active, Conclude, TypeOK, StreamState, Sent,
     StreamWellFormed, NoOrphanQuery, channel
<1>6. CASE AnswerFails(r)
  BY <1>6 DEF AnswerFails, Active, Conclude, TypeOK, StreamState, Sent,
     StreamWellFormed, NoOrphanQuery, channel
<1>7. CASE Timeout(r)
  BY <1>7 DEF Timeout, Active, Conclude, TypeOK, StreamState, Sent,
     StreamWellFormed, NoOrphanQuery, channel
<1>8. CASE Store(r)
  BY <1>8 DEF Store, Active, Conclude, TypeOK, StreamState, Sent,
     StreamWellFormed, NoOrphanQuery, channel
<1>9. CASE StoreError(r)
  BY <1>9 DEF StoreError, Active, Conclude, TypeOK, StreamState, Sent,
     StreamWellFormed, NoOrphanQuery, channel
<1>10. CASE Cancelled(r)
  BY <1>10 DEF Cancelled, Active, Conclude, TypeOK, StreamState, Sent,
     StreamWellFormed, NoOrphanQuery, channel
<1> QED
  BY <1>1, <1>2, <1>3, <1>4, <1>5, <1>6, <1>7, <1>8, <1>9, <1>10 DEF QueryStep

-----------------------------------------------------------------------------
(* The steps of a stream                                                    *)

LEMMA StreamStepTypes ==
  ASSUME IInv, NEW r \in Requests, StreamStep(r)
  PROVE  TypeOK' /\ PermitsAccounted' /\ QueryState' /\ CacheState'
<1> USE DEF IInv
<1>1. CASE PollDisconnect(r)
  BY <1>1 DEF PollDisconnect, TypeOK, QueryState, Running, CacheState, Match,
     PermitsAccounted, process, task
<1>2. CASE PollDone(r)
  <2>1. Append(events[r], "error") \in Seq({"delta", "final", "error"})
    BY DEF TypeOK
  <2>2. CASE outcome[r] = "ok"
    BY <1>2, <2>2 DEF PollDone, TypeOK, QueryState, Running, CacheState, Match, PermitsAccounted, process, task
  <2>3. CASE outcome[r] # "ok"
    BY <1>2, <2>1, <2>3
       DEF PollDone, TypeOK, QueryState, Running, CacheState, Match, PermitsAccounted, process, task
  <2> QED
    BY <2>2, <2>3
<1>3. CASE SendDelta(r)
  <2>1. Append(events[r], "delta") \in Seq({"delta", "final", "error"})
    BY DEF TypeOK
  <2>2. CASE connected[r]
    BY <1>3, <2>1, <2>2
       DEF SendDelta, TypeOK, QueryState, Running, CacheState, Match, PermitsAccounted, process, task
  <2>3. CASE ~connected[r]
    BY <1>3, <2>3 DEF SendDelta, TypeOK, QueryState, Running, CacheState, Match, PermitsAccounted, process, task
  <2> QED
    BY <2>2, <2>3
<1>4. CASE SendFinal(r)
  BY <1>4, StatesKept DEF SendFinal, TypeOK, PermitsAccounted, process, task
<1>5. CASE Abort(r)
  BY <1>5 DEF Abort, TypeOK, QueryState, Running, CacheState, Match,
     PermitsAccounted, process, task
<1>6. CASE CloseStream(r)
  BY <1>6 DEF CloseStream, TypeOK, QueryState, Running, CacheState, Match,
     PermitsAccounted, process, task
<1> QED
  BY <1>1, <1>2, <1>3, <1>4, <1>5, <1>6 DEF StreamStep

LEMMA StreamStepStreams ==
  ASSUME IInv, NEW r \in Requests, StreamStep(r)
  PROVE  StreamState' /\ StreamWellFormed' /\ NoOrphanQuery'
<1> USE DEF IInv
<1>1. CASE PollDisconnect(r)
  BY <1>1 DEF PollDisconnect, TypeOK, StreamState, Sent,
     StreamWellFormed, NoOrphanQuery, task
<1>2. CASE PollDone(r)
  <2>1. CASE outcome[r] = "ok"
    <3>1. events[r] = <<>> /\ pc[r] = "done"
      BY <1>2 DEF PollDone, StreamState, Sent
    <3>2. stream' = [stream EXCEPT ![r] = "sending"] /\ UNCHANGED <<task, events, connected>>
      BY <1>2, <2>1 DEF PollDone
    <3> QED
      BY <2>1, <3>1, <3>2, SizeAssumption
         DEF TypeOK, StreamState, Sent, StreamWellFormed, NoOrphanQuery, task
  <2>2. CASE outcome[r] # "ok"
    <3>0. events[r] = <<>>
      BY <1>2 DEF PollDone, StreamState, Sent
    <3>1. events' = [events EXCEPT ![r] = <<"error">>]
      BY <1>2, <2>2, <3>0 DEF PollDone
    <3>2. stream' = [stream EXCEPT ![r] = "closed"] /\ UNCHANGED <<task, connected>>
      BY <1>2, <2>2 DEF PollDone
    <3>3. StreamState' /\ NoOrphanQuery'
      BY <1>2, <3>1, <3>2 DEF PollDone, TypeOK, StreamState, Sent, NoOrphanQuery, task
    <3>4. StreamWellFormed'
      BY <2>2, <3>1, <3>2 DEF TypeOK, StreamWellFormed, task
    <3> QED
      BY <3>3, <3>4
  <2> QED
    BY <2>1, <2>2
<1>3. CASE SendDelta(r)
  <2>1. stream[r] = "sending" /\ Len(events[r]) < Chunks /\ UNCHANGED <<task, connected>>
    BY <1>3 DEF SendDelta
  <2>2. CASE connected[r]
    <3> DEFINE longer == Append(events[r], "delta")
    <3>1. events' = [events EXCEPT ![r] = longer] /\ UNCHANGED stream
      BY <1>3, <2>2 DEF SendDelta
    <3>2. /\ longer \in Seq({"delta", "final", "error"}) /\ longer # <<>>
          /\ Len(longer) <= Chunks
          /\ \A i \in 1..Len(longer) : longer[i] = "delta"
      <4>1. events[r] \in Seq({"delta", "final", "error"})
        BY DEF TypeOK
      <4>2. \A i \in 1..Len(events[r]) : events[r][i] = "delta"
        BY <2>1 DEF StreamState, Sent
      <4>3. Len(longer) = Len(events[r]) + 1 /\ Len(events[r]) \in Nat
        BY <4>1
      <4>4. \A i \in 1..Len(longer) : longer[i] = "delta"
        BY <4>1, <4>2, <4>3
      <4> QED
        BY <2>1, <4>1, <4>3, <4>4, SizeAssumption
    <3> HIDE DEF longer
    <3>3. Len(longer) \in 1..Len(longer)
      BY <3>2
    <3>4. StreamState' /\ NoOrphanQuery'
      BY <2>1, <3>1, <3>2 DEF TypeOK, StreamState, Sent, NoOrphanQuery, task
    <3>5. StreamWellFormed'
      BY <2>1, <3>1, <3>2, <3>3 DEF TypeOK, StreamWellFormed, task
    <3> QED
      BY <3>4, <3>5
  <2>3. CASE ~connected[r]
    BY <1>3, <2>1, <2>3
       DEF SendDelta, TypeOK, StreamState, Sent, StreamWellFormed, NoOrphanQuery, task
  <2> QED
    BY <2>2, <2>3
<1>4. CASE SendFinal(r)
  <2> DEFINE whole == Append(events[r], "final")
  <2>1. /\ stream[r] = "sending" /\ Len(events[r]) = Chunks
        /\ events' = [events EXCEPT ![r] = whole]
        /\ stream' = [stream EXCEPT ![r] = "closed"]
        /\ UNCHANGED <<task, connected>>
    BY <1>4 DEF SendFinal
  <2>2. /\ Len(whole) = Chunks + 1 /\ whole # <<>> /\ whole[Chunks + 1] = "final"
        /\ \A i \in 1..Len(whole) : whole[i] # "delta" => i = Len(whole)
    <3>1. events[r] \in Seq({"delta", "final", "error"})
      BY DEF TypeOK
    <3>2. \A i \in 1..Len(events[r]) : events[r][i] = "delta"
      BY <2>1 DEF StreamState, Sent
    <3>3. Len(whole) = Chunks + 1 /\ whole # <<>> /\ whole[Chunks + 1] = "final"
      BY <2>1, <3>1, SizeAssumption
    <3>4. \A i \in 1..Chunks : whole[i] = "delta"
      BY <2>1, <3>1, <3>2, SizeAssumption
    <3> QED
      BY <3>3, <3>4, SizeAssumption
  <2> HIDE DEF whole
  <2>3. pc[r] = "done" /\ outcome[r] = "ok"
    BY <2>1 DEF StreamState, Sent
  <2>4. StreamState' /\ NoOrphanQuery'
    BY <2>1, <2>3 DEF TypeOK, StreamState, Sent, NoOrphanQuery, task
  <2>5. StreamWellFormed'
    BY <2>1, <2>2, <2>3 DEF TypeOK, StreamWellFormed, task
  <2> QED
    BY <2>4, <2>5
<1>5. CASE Abort(r)
  BY <1>5 DEF Abort, TypeOK, StreamState, Sent,
     StreamWellFormed, NoOrphanQuery, task
<1>6. CASE CloseStream(r)
  BY <1>6 DEF CloseStream, TypeOK, StreamState, Sent,
     StreamWellFormed, NoOrphanQuery, task
<1> QED
  BY <1>1, <1>2, <1>3, <1>4, <1>5, <1>6 DEF StreamStep

-----------------------------------------------------------------------------
(* Arrivals, disconnects and the environment                                *)

LEMMA ClientStep ==
  ASSUME IInv, NEW r \in Requests, Reject(r) \/ Arrive(r) \/ Disconnect(r)
  PROVE  IInv'
<1> USE DEF IInv
<1>1. CASE Reject(r)
  <2>1. TypeOK' /\ QueryState' /\ CacheState'
    BY <1>1 DEF Reject, TypeOK, QueryState, Running, CacheState, Match, process, channel
  <2>2. StreamState' /\ StreamWellFormed' /\ NoOrphanQuery'
    BY <1>1 DEF Reject, TypeOK, StreamState, Sent, StreamWellFormed, NoOrphanQuery, channel
  <2>3. PermitsAccounted'
    BY <1>1, SamePermits DEF Reject, TypeOK
  <2> QED
    BY <2>1, <2>2, <2>3
<1>2. CASE Arrive(r)
  <2>1. TypeOK' /\ CacheState'
    BY <1>2, CacheKept DEF Arrive, TypeOK, Request, process
  <2>4. QueryState'
    <3>1. up' /\ request'[r] \in Request /\ pc'[r] \in {"lookup", "waiting"}
      BY <1>2 DEF Arrive, TypeOK, Request, process
    <3>2. \A q \in Requests \ {r} : Running(q)'
      BY <1>2, RunningKept DEF Arrive, QueryState, TypeOK, process
    <3> QED
      BY <3>1, <3>2 DEF QueryState, Running
  <2>2. StreamState' /\ StreamWellFormed' /\ NoOrphanQuery'
    BY <1>2 DEF Arrive, TypeOK, StreamState, Sent, StreamWellFormed, NoOrphanQuery
  <2>3. PermitsAccounted'
    BY <1>2, SamePermits DEF Arrive, TypeOK
  <2> QED
    BY <2>1, <2>2, <2>3, <2>4
<1>3. CASE Disconnect(r)
  <2>1. TypeOK' /\ QueryState' /\ CacheState' /\ PermitsAccounted'
    BY <1>3 DEF Disconnect, TypeOK, QueryState, Running, CacheState, Match, PermitsAccounted, process, task
  <2>2. StreamState' /\ StreamWellFormed' /\ NoOrphanQuery'
    BY <1>3 DEF Disconnect, TypeOK, StreamState, Sent, StreamWellFormed, NoOrphanQuery, task
  <2> QED
    BY <2>1, <2>2
<1> QED
  BY <1>1, <1>2, <1>3

LEMMA EnvironmentStep ==
  ASSUME IInv,
         (\E e \in Keys \X Versions : Expire(e)) \/ Crash \/ Boot \/ Reindex
  PROVE  IInv'
<1> USE DEF IInv
<1>1. ASSUME NEW e \in Keys \X Versions, Expire(e) PROVE IInv'
  <2>1. TypeOK' /\ QueryState' /\ CacheState' /\ PermitsAccounted'
    BY <1>1 DEF Expire, TypeOK, QueryState, Running, CacheState, Match, PermitsAccounted, process, task, channel
  <2>2. StreamState' /\ StreamWellFormed' /\ NoOrphanQuery'
    BY <1>1 DEF Expire, StreamState, Sent, StreamWellFormed, NoOrphanQuery, task, channel
  <2> QED
    BY <2>1, <2>2
<1>2. CASE Crash
  <2>1. PermitsAccounted' /\ permits' \in 0..Concurrency
    BY <1>2, CrashPermits
  <2>2. TypeOK' /\ QueryState' /\ CacheState'
    <3>0. 0 \in Versions
      BY SizeAssumption DEF Versions
    <3>1. TypeOK'
      BY <1>2, <2>1, <3>0 DEF Crash, Lost, TypeOK
    <3>2. \A r \in Requests : pc'[r] \in {"idle", "done"}
      BY <1>2 DEF Crash, Lost, TypeOK
    <3>3. CacheState'
      BY <1>2 DEF Crash, CacheState, Match
    <3> QED
      BY <3>1, <3>2, <3>3 DEF QueryState, Running
  <2>3. StreamState' /\ StreamWellFormed' /\ NoOrphanQuery'
    <3>1. StreamState'
      BY <1>2 DEF Crash, Lost, TypeOK, StreamState, Sent
    <3>2. NoOrphanQuery'
      BY <1>2 DEF Crash, Lost, TypeOK, NoOrphanQuery
    <3>3. StreamWellFormed'
      <4>1. UNCHANGED <<events, connected>>
        BY <1>2 DEF Crash
      <4>2. ASSUME NEW r \in Requests, Lost(r)
            PROVE  /\ outcome'[r] = "lost"
                   /\ \A i \in 1..Len(events[r]) : events[r][i] = "delta"
                   /\ events[r] # <<>> => Len(events[r]) \in 1..Len(events[r])
        <5>1. outcome'[r] = "lost"
          BY <1>2, <4>2 DEF Crash
        <5>2. events[r] = <<>> \/ stream[r] = "sending"
          BY <4>2 DEF Lost, TypeOK, StreamState, Sent, NoOrphanQuery
        <5>3. \A i \in 1..Len(events[r]) : events[r][i] = "delta"
          BY <5>2 DEF StreamState, Sent
        <5>4. events[r] # <<>> => Len(events[r]) \in 1..Len(events[r])
          BY DEF TypeOK
        <5> QED
          BY <5>1, <5>3, <5>4
      <4>3. ASSUME NEW r \in Requests, ~Lost(r)
            PROVE  outcome'[r] = outcome[r] /\ stream'[r] = stream[r]
        BY <1>2, <4>3 DEF Crash
      <4> QED
        BY <4>1, <4>2, <4>3 DEF StreamWellFormed
    <3> QED
      BY <3>1, <3>2, <3>3
  <2> QED
    BY <2>1, <2>2, <2>3
<1>3. CASE Boot \/ Reindex
  <2>1. TypeOK' /\ QueryState' /\ CacheState' /\ PermitsAccounted'
    <3>1. /\ up' \in BOOLEAN /\ index' \in Versions /\ identity' \in Versions
          /\ served' \subseteq Versions \X Versions /\ served \subseteq served'
          /\ up' => <<identity', index'>> \in served'
          /\ UNCHANGED <<cache, permits, task, channel, counted>>
      <4>1. CASE Boot
        BY <4>1 DEF Boot, TypeOK
      <4>2. CASE Reindex
        <5>1. index' \in Versions
          BY <4>2, SizeAssumption DEF Reindex, TypeOK, Versions
        <5> QED
          BY <4>2, <5>1 DEF Reindex, TypeOK
      <4> QED
        BY <1>3, <4>1, <4>2
    <3>2. TypeOK' /\ PermitsAccounted'
      BY <3>1 DEF TypeOK, PermitsAccounted, task, channel
    <3>3. CacheState'
      BY <3>1 DEF CacheState, Match
    <3>4. CASE Boot
      <4>1. \A r \in Requests : pc'[r] \notin {"lookup", "waiting", "answering", "storing"}
        BY <3>1, <3>4 DEF Boot, QueryState, Running, task
      <4> QED
        BY <3>2, <3>3, <4>1 DEF QueryState, Running
    <3>5. CASE Reindex
      <4>1. /\ UNCHANGED <<up, identity, request, pc, since, answer>>
            /\ index \in Nat /\ index' = index + 1
        BY <3>5, SizeAssumption DEF Reindex, TypeOK, Versions, task
      <4>2. ASSUME NEW r \in Requests, pc[r] = "answering", NEW v \in since[r]..index'
            PROVE  <<identity, v>> \in served'
        <5>1. since[r] \in Nat /\ (v \in since[r]..index \/ v = index')
          BY <4>1, <4>2, SizeAssumption DEF TypeOK, Versions
        <5>2. up /\ \A w \in since[r]..index : <<identity, w>> \in served
          BY <4>2 DEF QueryState, Running
        <5> QED
          BY <3>1, <4>1, <5>1, <5>2
      <4>3. ASSUME NEW r \in Requests PROVE Running(r)'
        <5>1. Running(r)
          BY DEF QueryState
        <5>2. pc[r] = "answering" =>
                \A v \in since'[r]..index' : <<identity', v>> \in served'
          BY <4>1, <4>2
        <5>3. pc[r] = "storing" =>
                Match(<<request[r].key, identity>>, answer[r])'
          BY <3>1, <4>1, <5>1 DEF Running, Match
        <5> QED
          BY <4>1, <5>1, <5>2, <5>3 DEF Running
      <4> QED
        BY <3>2, <3>3, <4>3 DEF QueryState
    <3> QED
      BY <1>3, <3>2, <3>3, <3>4, <3>5
  <2>2. StreamState' /\ StreamWellFormed' /\ NoOrphanQuery'
    BY <1>3 DEF Boot, Reindex, StreamState, Sent, StreamWellFormed, NoOrphanQuery, task, channel
  <2> QED
    BY <2>1, <2>2
<1> QED
  BY <1>1, <1>2, <1>3

-----------------------------------------------------------------------------
(* Theorems                                                                 *)

LEMMA InitIInv == Init => IInv
<1> SUFFICES ASSUME Init PROVE IInv
  OBVIOUS
<1>1. Answering = {}
  BY DEF Init, Answering
<1>2. permits = Concurrency /\ PermitsAccounted
  <2>1. permits = Concurrency
    BY DEF Init
  <2>2. Cardinality(Answering) = 0
    BY <1>1, FS_EmptySet
  <2> QED
    BY <2>1, <2>2, ConcurrencyAssumption DEF PermitsAccounted, Answering
<1>3. TypeOK
  BY <1>2, ConcurrencyAssumption, SizeAssumption DEF Init, TypeOK, Versions
<1>4. QueryState /\ CacheState /\ StreamState /\ StreamWellFormed /\ NoOrphanQuery
  BY DEF Init, QueryState, Running, CacheState, Match, StreamState, Sent, StreamWellFormed, NoOrphanQuery
<1> QED
  BY <1>2, <1>3, <1>4 DEF IInv

LEMMA NextIInv == IInv /\ [Next]_vars => IInv'
<1> SUFFICES ASSUME IInv, [Next]_vars PROVE IInv'
  OBVIOUS
<1>1. ASSUME NEW r \in Requests, QueryStep(r) PROVE IInv'
  BY <1>1, QueryStepPermits, QueryStepTypes, QueryStepStates, QueryStepStreams DEF IInv
<1>2. ASSUME NEW r \in Requests, StreamStep(r) PROVE IInv'
  BY <1>2, StreamStepTypes, StreamStepStreams DEF IInv
<1>3. ASSUME NEW r \in Requests, Reject(r) \/ Arrive(r) \/ Disconnect(r) PROVE IInv'
  BY <1>3, ClientStep
<1>4. CASE (\E e \in Keys \X Versions : Expire(e)) \/ Crash \/ Boot \/ Reindex
  BY <1>4, EnvironmentStep
<1>5. CASE UNCHANGED vars
  BY <1>5, StatesKept
     DEF IInv, TypeOK, PermitsAccounted, StreamState, Sent, StreamWellFormed, NoOrphanQuery,
         vars, process, task, channel
<1> QED
  BY <1>1, <1>2, <1>3, <1>4, <1>5 DEF Next

LEMMA Invariant == Spec => []IInv
  BY InitIInv, NextIInv, PTL DEF Spec

(* Every variable keeps its type; the semaphore never exceeds its initial   *)
(* value.                                                                  *)
THEOREM TypeCorrect == Spec => []TypeOK
<1>1. IInv => TypeOK
  BY DEF IInv
<1> QED
  BY <1>1, Invariant, PTL

(* Every way out of the semaphore block (answer, error, timeout,            *)
(* disconnect, crash) gives its permit back, for every number of requests   *)
(* and permits (execute_query).                                            *)
THEOREM PermitsCorrect == Spec => []PermitsAccounted
<1>1. IInv => PermitsAccounted
  BY DEF IInv
<1> QED
  BY <1>1, Invariant, PTL

(* A stream is whole, or an error, or broken off because its client left    *)
(* (_stream_query).                                                        *)
THEOREM StreamsCorrect == Spec => []StreamWellFormed
<1>1. IInv => StreamWellFormed
  BY DEF IInv
<1> QED
  BY <1>1, Invariant, PTL

(* No query outlives its stream, and a query is cancelled only for a client *)
(* that left.                                                               *)
THEOREM NoOrphans == Spec => []NoOrphanQuery
<1>1. IInv => NoOrphanQuery
  BY DEF IInv
<1> QED
  BY <1>1, Invariant, PTL

(* execute_query and build_query_cache_key: whoever is answered gets an     *)
(* answer to the question asked, of an index served under the identity in   *)
(* force, whenever the corpus is indexed again, whatever identities the     *)
(* deployments are given and whatever Redis kept of earlier ones.           *)
THEOREM AnswersCorrect == Spec => AnswersMatchIdentity
<1> DEFINE Current ==
      \A r \in Requests :
        outcome[r] # "ok" /\ outcome'[r] = "ok" =>
          \E v \in Versions :
            /\ <<identity, v>> \in served
            /\ answer'[r] = <<request[r].key, v>>
<1>1. IInv /\ [Next]_vars => Current \/ UNCHANGED vars
  <2> SUFFICES ASSUME IInv, Next, NEW r \in Requests,
                      outcome[r] # "ok", outcome'[r] = "ok"
               PROVE  Match(CacheKey(r), answer'[r])
    BY DEF Match, CacheKey
  <2> USE DEF IInv
  <2>1. ASSUME NEW q \in Requests, QueryStep(q)
        PROVE  Match(CacheKey(r), answer'[r])
    <3>1. q = r
      BY <2>1 DEF QueryStep, LookupHit, LookupMiss, LookupError, Acquire, AnswerReady,
                  AnswerFails, Timeout, Store, StoreError, Cancelled, Conclude, TypeOK
    <3>2. LookupHit(r) \/ AnswerReady(r) \/ Store(r)
      BY <2>1, <3>1 DEF QueryStep, LookupMiss, LookupError, Acquire, AnswerFails, Timeout,
                        StoreError, Cancelled, Conclude, TypeOK
    <3>3. CASE LookupHit(r)
      <4>1. up /\ request[r] \in Request
        BY <3>3 DEF LookupHit, Active, QueryState, Running
      <4>2. CacheKey(r) \in Keys \X Versions
        BY <4>1 DEF CacheKey, TypeOK, Request
      <4> QED
        BY <3>3, <4>2 DEF LookupHit, CacheState, TypeOK
    <3>4. CASE AnswerReady(r)
      BY <3>4, AnswerMatches
    <3>5. CASE Store(r)
      BY <3>5 DEF Store, Active, QueryState, Running, CacheKey
    <3> QED
      BY <3>2, <3>3, <3>4, <3>5
  <2>2. ASSUME NEW q \in Requests, StreamStep(q) PROVE FALSE
    BY <2>2 DEF StreamStep, PollDisconnect, PollDone, SendDelta, SendFinal, Abort,
                CloseStream, task
  <2>3. ASSUME NEW q \in Requests, Reject(q) \/ Arrive(q) \/ Disconnect(q) PROVE FALSE
    BY <2>3 DEF Reject, Arrive, Disconnect, task, TypeOK
  <2>4. CASE (\E e \in Keys \X Versions : Expire(e)) \/ Boot \/ Reindex
    BY <2>4 DEF Expire, Boot, Reindex, task
  <2>5. CASE Crash
    BY <2>5 DEF Crash, TypeOK
  <2> QED
    BY <2>1, <2>2, <2>3, <2>4, <2>5 DEF Next
<1>2. IInv /\ [Next]_vars => [Current]_vars
  BY <1>1
<1> QED
  BY <1>2, Invariant, PTL DEF Spec, AnswersMatchIdentity

-----------------------------------------------------------------------------
(* The rate limiter.                                                       *)


LimiterTypes ==
  /\ now \in Nat /\ startedAt \in Nat /\ count \in Nat /\ open \in BOOLEAN
  /\ admitted \in Seq(Nat)

(* Requests before this window's were admitted before it opened, and those  *)
(* that max_requests and more lie behind them a full window before.         *)
Spaced(i) ==
  LET earlier == Len(admitted) - count IN
  /\ admitted[i] <= now
  /\ i <= earlier => admitted[i] <= startedAt
  /\ i + MaxRequests <= earlier => admitted[i] + Window <= startedAt
  /\ i + 2 * MaxRequests <= Len(admitted) =>
       admitted[i] + Window <= admitted[i + 2 * MaxRequests]

LimiterInv ==
  /\ LimiterTypes
  /\ startedAt <= now
  /\ ~open => Len(admitted) = 0 /\ count = 0
  /\ count <= MaxRequests /\ count <= Len(admitted)
  /\ \A i \in 1..Len(admitted) : Spaced(i)

(* Euclidean division, in the form the rounding of Retry-After needs.       *)
LEMMA Division ==
  ASSUME NEW x \in Nat, NEW p \in Nat \ {0}
  PROVE  /\ x \div p \in Nat
         /\ x < (x \div p + 1) * p
         /\ (x \div p + 1) * p <= x + p
<1>1. x = p * (x \div p) + (x % p) /\ x % p \in 0..(p - 1) /\ x \div p \in Int
  OBVIOUS
<1>2. (x \div p + 1) * p = p * (x \div p) + p
  BY <1>1
<1>3. x \div p \in Nat
  BY <1>1
<1>4. p * (x \div p) \in Int
  BY <1>1
<1> QED
  BY <1>1, <1>2, <1>3, <1>4

LEMMA LimiterInitInv == LimiterInit => LimiterInv
<1> SUFFICES ASSUME LimiterInit PROVE LimiterInv
  OBVIOUS
<1>1. admitted \in Seq(Nat) /\ Len(admitted) = 0
  BY DEF LimiterInit
<1>2. \A i \in 1..Len(admitted) : Spaced(i)
  BY <1>1
<1>3. LimiterTypes
  BY <1>1 DEF LimiterInit, LimiterTypes
<1> QED
  BY <1>1, <1>2, <1>3, LimitAssumption DEF LimiterInit, LimiterInv

LEMMA LimiterNextInv == LimiterInv /\ [LimiterNext]_window => LimiterInv'
<1> SUFFICES ASSUME LimiterInv, [LimiterNext]_window PROVE LimiterInv'
  OBVIOUS
<1> USE LimitAssumption
<1>n. PICK n \in Nat : n = Len(admitted)
  BY DEF LimiterInv, LimiterTypes
<1>0. n = Len(admitted) /\ LimiterTypes /\ \A i \in 1..n : admitted[i] \in Nat /\ Spaced(i)
  BY <1>n DEF LimiterInv, LimiterTypes
<1>1. ASSUME Admit
      PROVE  /\ admitted' \in Seq(Nat) /\ Len(admitted') = n + 1
             /\ admitted'[n + 1] = now
             /\ \A i \in 1..n : admitted'[i] = admitted[i]
  BY <1>0, <1>1 DEF LimiterTypes, Admit
<1>2. CASE AllowNewWindow
  <2>0. /\ LimiterTypes' /\ Len(admitted') = n + 1 /\ count' = 1
        /\ now' = now /\ startedAt' = now
    BY <1>0, <1>1, <1>2 DEF LimiterTypes, AllowNewWindow
  <2>1. ASSUME NEW i \in 1..n, i + MaxRequests <= n
        PROVE  admitted[i] + Window <= now
    <3>1. i <= n - count /\ open
      BY <2>1, <1>0 DEF LimiterInv, LimiterTypes
    <3>2. admitted[i] \in Nat /\ admitted[i] <= startedAt
      BY <3>1, <1>0 DEF Spaced
    <3> QED
      BY <3>1, <3>2, <1>2, <1>0 DEF LimiterTypes, AllowNewWindow, Expired
  <2>2. ASSUME NEW i \in 1..n
        PROVE  Spaced(i)'
    <3>1. admitted'[i] = admitted[i] /\ admitted[i] \in Nat /\ admitted[i] <= now
      BY <1>0, <1>1, <1>2 DEF AllowNewWindow, Spaced
    <3>2. CASE i + 2 * MaxRequests = n + 1
      BY <2>0, <2>1, <3>1, <3>2, <1>0, <1>1, <1>2 DEF Spaced, AllowNewWindow
    <3>3. CASE i + 2 * MaxRequests <= n
      <4>1. admitted'[i + 2 * MaxRequests] = admitted[i + 2 * MaxRequests]
        BY <3>3, <1>0, <1>1, <1>2 DEF AllowNewWindow
      <4> QED
        BY <2>0, <2>1, <3>1, <3>3, <4>1, <1>0 DEF Spaced
    <3>4. CASE i + 2 * MaxRequests > n + 1
      BY <2>0, <2>1, <3>1, <3>4, <1>0 DEF Spaced
    <3> QED
      BY <3>2, <3>3, <3>4
  <2>3. Spaced(n + 1)'
    BY <2>0, <1>0, <1>1, <1>2 DEF Spaced, AllowNewWindow, LimiterTypes
  <2> QED
    BY <2>0, <2>2, <2>3, <1>0, <1>2 DEF LimiterInv, LimiterTypes, AllowNewWindow
<1>3. CASE AllowCounted
  <2>0. /\ LimiterTypes' /\ Len(admitted') = n + 1 /\ count' = count + 1 /\ open
        /\ count < MaxRequests /\ now' = now /\ startedAt' = startedAt
    BY <1>0, <1>1, <1>3 DEF LimiterTypes, AllowCounted, Expired
  <2>1. ASSUME NEW i \in 1..n, i + 2 * MaxRequests = n + 1
        PROVE  admitted[i] + Window <= now
    <3>1. i + MaxRequests <= n - count
      BY <2>0, <2>1, <1>0 DEF LimiterTypes
    <3> QED
      BY <3>1, <1>0 DEF LimiterInv, LimiterTypes, Spaced
  <2>2. ASSUME NEW i \in 1..n
        PROVE  Spaced(i)'
    <3>1. admitted'[i] = admitted[i] /\ admitted[i] \in Nat
      BY <1>0, <1>1, <1>3 DEF AllowCounted
    <3>2. Len(admitted') - count' = n - count
      BY <2>0, <1>0 DEF LimiterTypes
    <3>3. CASE i + 2 * MaxRequests = n + 1
      BY <2>0, <2>1, <3>1, <3>2, <3>3, <1>0, <1>1, <1>3 DEF Spaced, AllowCounted
    <3>4. CASE i + 2 * MaxRequests <= n
      <4>1. admitted'[i + 2 * MaxRequests] = admitted[i + 2 * MaxRequests]
        BY <3>4, <1>0, <1>1, <1>3 DEF AllowCounted
      <4> QED
        BY <2>0, <3>1, <3>2, <3>4, <4>1, <1>0 DEF Spaced
    <3>5. CASE i + 2 * MaxRequests > n + 1
      BY <2>0, <3>1, <3>2, <3>5, <1>0 DEF Spaced
    <3> QED
      BY <3>3, <3>4, <3>5
  <2>3. Spaced(n + 1)'
    BY <2>0, <1>0, <1>1, <1>3 DEF Spaced, AllowCounted, LimiterTypes
  <2>4. \A i \in 1..Len(admitted') : Spaced(i)'
    BY <2>0, <2>2, <2>3, <1>0
  <2> QED
    BY <2>0, <2>4, <1>0, <1>3 DEF LimiterInv, LimiterTypes, AllowCounted
<1>4. CASE Refuse \/ UNCHANGED window
  BY <1>4 DEF LimiterInv, LimiterTypes, Spaced, Refuse, window
<1>5. CASE Tick
  <2>1. \A i \in 1..n : Spaced(i)'
    BY <1>0, <1>5 DEF Spaced, Tick, LimiterTypes
  <2> QED
    BY <2>1, <1>0, <1>5 DEF LimiterInv, LimiterTypes, Tick
<1> QED
  BY <1>2, <1>3, <1>4, <1>5 DEF LimiterNext

LEMMA LimiterInvariant == LimiterSpec => []LimiterInv
  BY LimiterInitInv, LimiterNextInv, PTL DEF LimiterSpec

(* FixedWindowRateLimiter.allow: however requests are timed against the    *)
(* windows, 2 * max_requests + 1 admissions take at least a full window.    *)
THEOREM BurstsAreBounded == LimiterSpec => []BurstIsBounded
<1>1. ASSUME LimiterInv PROVE BurstIsBounded
  <2> SUFFICES ASSUME NEW i \in DOMAIN admitted,
                      i + 2 * MaxRequests \in DOMAIN admitted
               PROVE  admitted[i] + Window <= admitted[i + 2 * MaxRequests]
    BY DEF BurstIsBounded
  <2>1. DOMAIN admitted = 1..Len(admitted) /\ Len(admitted) \in Nat
    BY <1>1 DEF LimiterInv, LimiterTypes
  <2>2. Spaced(i)
    BY <2>1, <1>1 DEF LimiterInv
  <2> QED
    BY <2>1, <2>2 DEF Spaced
<1>2. LimiterInv => BurstIsBounded
  BY <1>1
<1> QED
  BY <1>2, LimiterInvariant, PTL

(* FixedWindowRateLimiter.allow: a client that comes back when Retry-After  *)
(* tells it to finds its window over, and waits at most a second longer.    *)
THEOREM RetryAfterCorrect == LimiterSpec => RetryAfterIsConservative
<1> DEFINE Conservative ==
      retryAt' # retryAt => /\ startedAt + Window <= retryAt'
                            /\ retryAt' <= startedAt + Window + PerSecond
<1>1. ASSUME LimiterInv, [LimiterNext]_window PROVE [Conservative]_window
  <2> SUFFICES ASSUME Refuse PROVE Conservative
    BY <1>1 DEF LimiterNext, AllowNewWindow, AllowCounted, Tick, window
  <2> DEFINE x == Window - (now - startedAt)
  <2>1. x \in Nat /\ now + x = startedAt + Window
    BY <1>1, LimitAssumption DEF LimiterInv, LimiterTypes, Refuse, Expired
  <2>2. retryAt' = now + (x \div PerSecond + 1) * PerSecond
    BY DEF Refuse, RetryAfter
  <2>3. /\ x \div PerSecond \in Nat
        /\ x < (x \div PerSecond + 1) * PerSecond
        /\ (x \div PerSecond + 1) * PerSecond <= x + PerSecond
    BY <2>1, Division, LimitAssumption
  <2> DEFINE wait == (x \div PerSecond + 1) * PerSecond
  <2>4. wait \in Nat
    BY <2>3, LimitAssumption
  <2> HIDE DEF x, wait
  <2>5. x < wait /\ wait <= x + PerSecond /\ retryAt' = now + wait
    BY <2>2, <2>3 DEF wait
  <2> QED
    BY <1>1, <2>1, <2>4, <2>5, LimitAssumption DEF LimiterInv, LimiterTypes
<1>2. LimiterInv /\ [LimiterNext]_window => [Conservative]_window
  BY <1>1
<1> QED
  BY <1>2, LimiterInvariant, PTL DEF LimiterSpec, RetryAfterIsConservative

=============================================================================
