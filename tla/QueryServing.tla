--------------------------- MODULE QueryServing ---------------------------
(***************************************************************************)
(* POST /query of the serving application (serving/app.py): the guard       *)
(* middleware, execute_query with its cache, semaphore and timeout, and the *)
(* NDJSON stream of _stream_query, over a Redis cache that outlives the     *)
(* process and a corpus index that may be rebuilt at any time.  Nothing in  *)
(* the code ties the identity in the cache keys to that index.              *)
(*                                                                         *)
(* A request's coroutine execute_query is at one of its awaits:             *)
(*   "lookup"     cache.get                                                *)
(*   "waiting"    async with query_semaphore, inside asyncio.timeout        *)
(*   "answering"  query_service.answer, inside both                         *)
(*   "storing"    cache.set, outside both                                   *)
(* and an action runs it from there to the next await.  asyncio.Semaphore   *)
(* hands its permits out in FIFO order; the model allows any order.         *)
(***************************************************************************)
EXTENDS Naturals, Sequences, FiniteSets

CONSTANTS
  Requests,       \* bound: the requests that may arrive
  Keys,           \* canonical requests: the cache key without its identity
  Concurrency,    \* serving_query_concurrency
  Chunks,         \* deltas of an answer: its length over the chunk size
  MaxIndex,       \* bound: times the corpus is indexed again
  None

ASSUME RequestsAssumption == IsFiniteSet(Requests)
ASSUME ConcurrencyAssumption == Concurrency \in Nat \ {0}
ASSUME SizeAssumption == Chunks \in Nat /\ MaxIndex \in Nat

Versions == 0..MaxIndex
Answers == Keys \X Versions   \* the answer to a question over an index
NoAnswer == <<>>

VARIABLES
  up,          \* the process is running
  index,       \* version of the corpus index in the vector store
  identity,    \* dependencies.cache_identity, fixed when the app is built
  served,      \* history: <<identity, index>> that were together in a process
  cache,       \* Redis: <<key, identity>> to an answer or NoAnswer
  permits,     \* query_semaphore._value
  request,     \* the payload of a request that passed the guards
  pc,          \* await of execute_query; "idle" before, "done" after
  outcome,     \* how execute_query ended
  since,       \* index when the answer was begun, 0 when no query runs
  answer,      \* result
  cancel,      \* task.cancel() was called on the stream's task
  stream,      \* _stream_query: "none", "polling", "sending", "closing", "closed"
  events,      \* NDJSON events yielded
  connected,   \* the client of the request is still there
  counted      \* requests record_http counted, with their status class

process == <<up, index, identity, served>>
task == <<request, pc, outcome, since, answer, cancel>>
channel == <<stream, events, connected>>
vars == <<process, cache, permits, task, channel, counted>>

Class(o) ==
  CASE o = "ok" -> "2xx"
    [] o \in {"rejected", "http_400"} -> "4xx"
    [] o \in {"http_504", "error"} -> "5xx"
    [] OTHER -> "none"

-----------------------------------------------------------------------------

Init ==
  /\ up = TRUE /\ index = 0 /\ identity = 0 /\ served = {<<0, 0>>}
  /\ cache = [e \in Keys \X Versions |-> NoAnswer]
  /\ permits = Concurrency
  /\ request = [r \in Requests |-> None]
  /\ pc = [r \in Requests |-> "idle"]
  /\ outcome = [r \in Requests |-> "none"]
  /\ since = [r \in Requests |-> 0]
  /\ answer = [r \in Requests |-> NoAnswer]
  /\ cancel = [r \in Requests |-> FALSE]
  /\ stream = [r \in Requests |-> "none"]
  /\ events = [r \in Requests |-> <<>>]
  /\ connected = [r \in Requests |-> TRUE]
  /\ counted = [r \in Requests |-> "none"]

(* Faulty variant: the key is the request alone.                            *)
CacheKey_RequestOnly(r) == <<request[r].key, 0>>

(* build_query_cache_key                                                   *)
CacheKey(r) == <<request[r].key, identity>>

(* Header and body limits, require_api_key, the rate limiter and request    *)
(* validation all answer before execute_query, through _finish.             *)
Reject(r) ==
  /\ up /\ pc[r] = "idle"
  /\ pc' = [pc EXCEPT ![r] = "done"]
  /\ outcome' = [outcome EXCEPT ![r] = "rejected"]
  /\ counted' = [counted EXCEPT ![r] = "4xx"]
  /\ UNCHANGED <<process, cache, permits, request, since, answer, cancel, channel>>

(* A streamed response starts, and is counted, before its query runs.       *)
Arrive(r) ==
  /\ up /\ pc[r] = "idle"
  /\ \E k \in Keys, streamed, useCache \in BOOLEAN :
       /\ request' = [request EXCEPT ![r] =
                        [key |-> k, stream |-> streamed, useCache |-> useCache]]
       /\ pc' = [pc EXCEPT ![r] = IF useCache THEN "lookup" ELSE "waiting"]
       /\ stream' = [stream EXCEPT ![r] = IF streamed THEN "polling" ELSE "none"]
       /\ counted' = [counted EXCEPT ![r] = IF streamed THEN "2xx" ELSE "none"]
  /\ UNCHANGED <<process, cache, permits, outcome, since, answer, cancel,
                 events, connected>>

Active(r, at) == pc[r] = at /\ ~cancel[r]

(* execute_query ends.  A plain request is answered now: an HTTPException   *)
(* becomes a response inside the middleware, but an unexpected exception    *)
(* leaves call_next, so the 500 is written outside the middleware and       *)
(* _finish does not run.                                                   *)
Conclude(r, o) ==
  /\ pc' = [pc EXCEPT ![r] = "done"]
  /\ outcome' = [outcome EXCEPT ![r] = o]
  /\ since' = [since EXCEPT ![r] = 0]
  /\ counted' = IF request[r].stream \/ o = "error" THEN counted
                ELSE [counted EXCEPT ![r] = Class(o)]

LookupHit(r) ==
  /\ Active(r, "lookup")
  /\ cache[CacheKey(r)] # NoAnswer
  /\ answer' = [answer EXCEPT ![r] = cache[CacheKey(r)]]
  /\ Conclude(r, "ok")
  /\ UNCHANGED <<process, cache, permits, request, cancel, channel>>

LookupMiss(r) ==
  /\ Active(r, "lookup")
  /\ cache[CacheKey(r)] = NoAnswer
  /\ pc' = [pc EXCEPT ![r] = "waiting"]
  /\ UNCHANGED <<process, cache, permits, request, outcome, since, answer, cancel,
                 channel, counted>>

(* Redis failed, or the stored JSON does not validate: not inside the try.  *)
LookupError(r) ==
  /\ Active(r, "lookup")
  /\ Conclude(r, "error")
  /\ UNCHANGED <<process, cache, permits, request, answer, cancel, channel>>

Acquire(r) ==
  /\ Active(r, "waiting") /\ permits > 0
  /\ pc' = [pc EXCEPT ![r] = "answering"]
  /\ permits' = permits - 1
  /\ since' = [since EXCEPT ![r] = index]
  /\ UNCHANGED <<process, cache, request, outcome, answer, cancel, channel,
                 counted>>

(* The service answers from an index that was there while it worked.        *)
AnswerReady(r) ==
  /\ Active(r, "answering")
  /\ permits' = permits + 1
  /\ \E v \in since[r]..index :
       answer' = [answer EXCEPT ![r] = <<request[r].key, v>>]
  /\ IF request[r].useCache
       THEN /\ pc' = [pc EXCEPT ![r] = "storing"]
            /\ UNCHANGED <<outcome, since, counted>>
       ELSE Conclude(r, "ok")
  /\ UNCHANGED <<process, cache, request, cancel, channel>>

(* Faulty variant: the permit is released on the success path only.         *)
AnswerFails_KeepsPermit(r) ==
  /\ Active(r, "answering")
  /\ \E o \in {"http_400", "error"} : Conclude(r, o)
  /\ UNCHANGED <<process, cache, permits, request, answer, cancel, channel>>

(* ValueError becomes 400, any other exception is re-raised.                *)
AnswerFails(r) ==
  /\ Active(r, "answering")
  /\ permits' = permits + 1
  /\ \E o \in {"http_400", "error"} : Conclude(r, o)
  /\ UNCHANGED <<process, cache, request, answer, cancel, channel>>

Timeout_WaitOnly(r) ==
  /\ Active(r, "waiting")
  /\ Conclude(r, "http_504")
  /\ UNCHANGED <<process, cache, permits, request, answer, cancel, channel>>

(* asyncio.timeout covers the wait for a permit and the answer.             *)
Timeout(r) ==
  /\ Active(r, "waiting") \/ Active(r, "answering")
  /\ permits' = IF pc[r] = "answering" THEN permits + 1 ELSE permits
  /\ Conclude(r, "http_504")
  /\ UNCHANGED <<process, cache, request, answer, cancel, channel>>

Store(r) ==
  /\ Active(r, "storing")
  /\ cache' = [cache EXCEPT ![CacheKey(r)] = answer[r]]
  /\ Conclude(r, "ok")
  /\ UNCHANGED <<process, permits, request, answer, cancel, channel>>

(* The answer exists but cache.set failed: the request fails with it.       *)
StoreError(r) ==
  /\ Active(r, "storing")
  /\ Conclude(r, "error")
  /\ UNCHANGED <<process, cache, permits, request, answer, cancel, channel>>

(* CancelledError at whichever await the task is; both context managers     *)
(* unwind, and a set already sent to Redis may still be applied.            *)
Cancelled(r) ==
  /\ cancel[r] /\ pc[r] \in {"lookup", "waiting", "answering", "storing"}
  /\ permits' = IF pc[r] = "answering" THEN permits + 1 ELSE permits
  /\ \/ UNCHANGED cache
     \/ pc[r] = "storing" /\ cache' = [cache EXCEPT ![CacheKey(r)] = answer[r]]
  /\ Conclude(r, "cancelled")
  /\ UNCHANGED <<process, request, answer, cancel, channel>>

-----------------------------------------------------------------------------
(* _stream_query                                                            *)

Disconnect(r) ==
  /\ stream[r] \in {"polling", "sending"} /\ connected[r]
  /\ connected' = [connected EXCEPT ![r] = FALSE]
  /\ UNCHANGED <<process, cache, permits, task, stream, events, counted>>

(* Faulty variants: the generator returns without awaiting the task, or     *)
(* without cancelling it.                                                   *)
PollDisconnect_NoGather(r) ==
  /\ stream[r] = "polling" /\ pc[r] # "done" /\ ~connected[r]
  /\ cancel' = [cancel EXCEPT ![r] = TRUE]
  /\ stream' = [stream EXCEPT ![r] = "closed"]
  /\ UNCHANGED <<process, cache, permits, request, pc, outcome, since, answer,
                 events, connected, counted>>

PollDisconnect_NoCancel(r) ==
  /\ stream[r] = "polling" /\ pc[r] # "done" /\ ~connected[r]
  /\ stream' = [stream EXCEPT ![r] = "closing"]
  /\ UNCHANGED <<process, cache, permits, task, events, connected, counted>>

(* The polling loop sees the disconnect before the task is done.            *)
PollDisconnect(r) ==
  /\ stream[r] = "polling" /\ pc[r] # "done" /\ ~connected[r]
  /\ cancel' = [cancel EXCEPT ![r] = TRUE]
  /\ stream' = [stream EXCEPT ![r] = "closing"]
  /\ UNCHANGED <<process, cache, permits, request, pc, outcome, since, answer,
                 events, connected, counted>>

(* Faulty variants: an HTTPException closes the stream silently; an error   *)
(* event does not end the generator.                                        *)
PollDone_SilentHttpError(r) ==
  /\ stream[r] = "polling" /\ pc[r] = "done"
  /\ stream' = [stream EXCEPT ![r] = IF outcome[r] = "ok" THEN "sending" ELSE "closed"]
  /\ events' = [events EXCEPT ![r] = IF outcome[r] = "error" THEN <<"error">> ELSE @]
  /\ UNCHANGED <<process, cache, permits, task, connected, counted>>

(* The loop ends: the task is done, and awaiting it returns or raises.      *)
PollDone(r) ==
  /\ stream[r] = "polling" /\ pc[r] = "done"
  /\ IF outcome[r] = "ok"
       THEN /\ stream' = [stream EXCEPT ![r] = "sending"]
            /\ UNCHANGED events
       ELSE /\ stream' = [stream EXCEPT ![r] = "closed"]
            /\ events' = [events EXCEPT ![r] = Append(@, "error")]
  /\ UNCHANGED <<process, cache, permits, task, connected, counted>>

(* One turn of the delta loop; the disconnect check precedes every delta,   *)
(* and the final event has none.                                            *)
SendDelta(r) ==
  /\ stream[r] = "sending" /\ Len(events[r]) < Chunks
  /\ IF connected[r]
       THEN events' = [events EXCEPT ![r] = Append(@, "delta")] /\ UNCHANGED stream
       ELSE stream' = [stream EXCEPT ![r] = "closed"] /\ UNCHANGED events
  /\ UNCHANGED <<process, cache, permits, task, connected, counted>>

SendFinal(r) ==
  /\ stream[r] = "sending" /\ Len(events[r]) = Chunks
  /\ events' = [events EXCEPT ![r] = Append(@, "final")]
  /\ stream' = [stream EXCEPT ![r] = "closed"]
  /\ UNCHANGED <<process, cache, permits, task, connected, counted>>

(* The server cancels the response of a client that left, at any await of   *)
(* the generator: the finally clause cancels a task that is not done.       *)
Abort(r) ==
  /\ stream[r] \in {"polling", "sending"} /\ ~connected[r]
  /\ cancel' = [cancel EXCEPT ![r] = pc[r] # "done"]
  /\ stream' = [stream EXCEPT ![r] = IF pc[r] = "done" THEN "closed" ELSE "closing"]
  /\ UNCHANGED <<process, cache, permits, request, pc, outcome, since, answer,
                 events, connected, counted>>

(* gather(task, return_exceptions=True) returns.                            *)
CloseStream(r) ==
  /\ stream[r] = "closing" /\ pc[r] = "done"
  /\ stream' = [stream EXCEPT ![r] = "closed"]
  /\ UNCHANGED <<process, cache, permits, task, events, connected, counted>>

-----------------------------------------------------------------------------
(* Environment                                                              *)

(* SET ... EX ttl: Redis drops an entry when its time is over.              *)
Expire(e) ==
  /\ cache[e] # NoAnswer
  /\ cache' = [cache EXCEPT ![e] = NoAnswer]
  /\ UNCHANGED <<process, permits, task, channel, counted>>

Lost(r) == pc[r] \notin {"idle", "done"} \/ stream[r] \in {"polling", "sending", "closing"}

Crash ==
  /\ up
  /\ up' = FALSE
  /\ permits' = Concurrency
  /\ pc' = [r \in Requests |-> IF Lost(r) THEN "done" ELSE pc[r]]
  /\ outcome' = [r \in Requests |-> IF Lost(r) THEN "lost" ELSE outcome[r]]
  /\ stream' = [r \in Requests |-> IF Lost(r) /\ stream[r] # "none"
                                     THEN "closed" ELSE stream[r]]
  /\ since' = [r \in Requests |-> 0]
  /\ UNCHANGED <<index, identity, served, cache, request, answer, cancel, events,
                 connected, counted>>

(* create_app takes whatever identity it is given.                          *)
Boot ==
  /\ ~up
  /\ up' = TRUE
  /\ identity' \in Versions
  /\ served' = served \cup {<<identity', index>>}
  /\ UNCHANGED <<index, cache, permits, task, channel, counted>>

(* The corpus is indexed again, also under a running process, which keeps   *)
(* its identity.                                                            *)
Reindex ==
  /\ index < MaxIndex
  /\ index' = index + 1
  /\ served' = IF up THEN served \cup {<<identity, index'>>} ELSE served
  /\ UNCHANGED <<up, identity, cache, permits, task, channel, counted>>

QueryStep(r) ==
  \/ LookupHit(r) \/ LookupMiss(r) \/ LookupError(r) \/ Acquire(r)
  \/ AnswerReady(r) \/ AnswerFails(r) \/ Timeout(r)
  \/ Store(r) \/ StoreError(r) \/ Cancelled(r)

StreamStep(r) ==
  \/ PollDisconnect(r) \/ PollDone(r) \/ SendDelta(r) \/ SendFinal(r)
  \/ Abort(r) \/ CloseStream(r)

Next ==
  \/ \E r \in Requests :
       Reject(r) \/ Arrive(r) \/ Disconnect(r) \/ QueryStep(r) \/ StreamStep(r)
  \/ \E e \in Keys \X Versions : Expire(e)
  \/ Crash \/ Boot \/ Reindex

Spec == Init /\ [][Next]_vars

(* The event loop runs the generators and delivers cancellations.           *)
LoopFairness ==
  \A r \in Requests : WF_vars(StreamStep(r)) /\ WF_vars(Cancelled(r))

(* It also fires the timeout, and Redis answers or fails.  Nothing is ever  *)
(* assumed of the provider.                                                 *)
TimerFairness ==
  \A r \in Requests :
    /\ WF_vars(Timeout(r))
    /\ WF_vars(LookupHit(r) \/ LookupMiss(r) \/ LookupError(r))
    /\ WF_vars(Store(r) \/ StoreError(r))

FairSpec == Spec /\ LoopFairness

-----------------------------------------------------------------------------

TypeOK ==
  /\ up \in BOOLEAN /\ index \in Versions /\ identity \in Versions
  /\ served \subseteq Versions \X Versions
  /\ cache \in [Keys \X Versions -> Answers \cup {NoAnswer}]
  /\ permits \in 0..Concurrency
  /\ request \in [Requests -> [key : Keys, stream : BOOLEAN, useCache : BOOLEAN]
                              \cup {None}]
  /\ pc \in [Requests -> {"idle", "lookup", "waiting", "answering", "storing", "done"}]
  /\ outcome \in [Requests -> {"none", "rejected", "ok", "http_400", "http_504",
                               "error", "cancelled", "lost"}]
  /\ since \in [Requests -> Versions]
  /\ answer \in [Requests -> Answers \cup {NoAnswer}]
  /\ cancel \in [Requests -> BOOLEAN]
  /\ stream \in [Requests -> {"none", "polling", "sending", "closing", "closed"}]
  /\ events \in [Requests -> Seq({"delta", "final", "error"})]
  /\ connected \in [Requests -> BOOLEAN]
  /\ counted \in [Requests -> {"none", "2xx", "4xx", "5xx"}]

(* Every way out of the semaphore block gives its permit back: answer,      *)
(* error, timeout, disconnect.  Permits are neither lost nor made.          *)
PermitsAccounted ==
  permits + Cardinality({r \in Requests : pc[r] = "answering"}) = Concurrency

(* Whoever is answered, from the service or from a cache that outlived      *)
(* processes and indexes, gets an answer to the question asked, of an index *)
(* that was served under the identity in force.  So a deployment that gives *)
(* every index an identity of its own never serves a stale answer; one that *)
(* indexes again under a running process does, until the entries expire.    *)
AnswersMatchIdentity ==
  [][\A r \in Requests :
       outcome[r] # "ok" /\ outcome'[r] = "ok" =>
         \E v \in Versions :
           /\ <<identity, v>> \in served
           /\ answer'[r] = <<request[r].key, v>>]_vars

(* A stream is deltas and then at most one terminal event: the whole answer *)
(* and "final", or no delta and "error".  A client that stayed is never     *)
(* left without one.                                                       *)
StreamWellFormed ==
  \A r \in Requests :
    LET ev == events[r] IN
    /\ \A i \in 1..Len(ev) : ev[i] # "delta" => i = Len(ev) /\ stream[r] = "closed"
    /\ ev # <<>> /\ ev[Len(ev)] = "final" => Len(ev) = Chunks + 1 /\ outcome[r] = "ok"
    /\ ev # <<>> /\ ev[Len(ev)] = "error" => Len(ev) = 1 /\ outcome[r] # "ok"
    /\ stream[r] = "closed" /\ connected[r] /\ outcome[r] # "lost" =>
         ev # <<>> /\ ev[Len(ev)] \in {"final", "error"}

(* No query outlives its stream, and a query is cancelled only for a client *)
(* that left.                                                               *)
NoOrphanQuery ==
  \A r \in Requests :
    /\ stream[r] = "closed" => pc[r] = "done"
    /\ cancel[r] => ~connected[r]

(* metrics.py: "HTTP error responses by bounded route/status class."  Every *)
(* error response sent is one of the counted ones.                          *)
HttpErrorsCounted ==
  \A r \in Requests :
    pc[r] = "done" /\ stream[r] = "none" /\ Class(outcome[r]) = "5xx" =>
      counted[r] = "5xx"

(* A query ends although the provider may never answer, and then its stream *)
(* does.                                                                   *)
RequestsEnd ==
  TimerFairness => \A r \in Requests :
    /\ pc[r] \notin {"idle", "done"} ~> pc[r] = "done"
    /\ stream[r] = "polling" ~> stream[r] = "closed"

(* Disconnecting is enough to end a streamed query and free its permit:     *)
(* neither the provider nor Redis nor the timeout has to act.               *)
DisconnectReleases ==
  \A r \in Requests :
    stream[r] = "polling" /\ ~connected[r] ~> pc[r] = "done" /\ stream[r] = "closed"

=============================================================================
