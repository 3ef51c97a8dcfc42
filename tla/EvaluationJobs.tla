-------------------------- MODULE EvaluationJobs --------------------------
(***************************************************************************)
(* The in-process evaluation job manager of the serving application:       *)
(* EvaluationJobManager (serving/jobs.py), driven by the application        *)
(* lifespan and by POST /eval/run (serving/app.py).                         *)
(*                                                                         *)
(* Everything runs on one asyncio event loop.  The manager's asyncio.Lock   *)
(* is never held across a suspension, so every critical section, together   *)
(* with the code up to the next await, is one action.  The awaits that do   *)
(* suspend are queue.get() (a worker is "idle"), executor.run() (a worker   *)
(* is "busy") and the gather in stop() (the manager is "stopping").         *)
(*                                                                         *)
(* A job id is a uuid4; ids are renamed to 1, 2, ... in the order in which  *)
(* the manager accepted them, so the uuid of a refused submission is never  *)
(* numbered.                                                               *)
(***************************************************************************)
EXTENDS Naturals, Sequences, FiniteSets

CONSTANTS
  Workers,         \* one element per worker task; max_concurrency of them
  MaxQueueSize,    \* maxsize of the asyncio.Queue
  MaxJobs,         \* bound: submissions accepted in a behaviour
  MaxStarts,       \* bound: times the lifespan is entered in a behaviour
  ExecutorFaults,  \* bound: how executors misbehave beyond raising an error
  NoJob            \* None

ExecutorFault == {"self_cancel", "cleanup_error"}

ASSUME WorkersAssumption == Workers # {} /\ IsFiniteSet(Workers)
ASSUME QueueAssumption == MaxQueueSize \in Nat \ {0}
ASSUME BoundAssumption == MaxJobs \in Nat /\ MaxStarts \in Nat
ASSUME FaultAssumption == ExecutorFaults \subseteq ExecutorFault
ASSUME NoJobAssumption == NoJob \notin 1..MaxJobs

JobIds == 1..MaxJobs
JobState == {"queued", "running", "succeeded", "failed"}
Terminal == {"succeeded", "failed"}

VARIABLES
  faults,       \* how the executor of this application may misbehave
  phase,        \* "down": _workers is []; "up": it is not; "stopping": in stop()
  starts,       \* how often the lifespan was entered
  accepted,     \* number of jobs accepted, the id given last
  queue,        \* self.queue
  status,       \* records[j].status, "absent" if j is not in records
  completedAt,  \* records[j].completed_at: rank of the completion, 0 for None
  latest,       \* the job whose summary self._latest is
  worker,       \* per worker task: "none", "idle", "busy" or "ended"
  held,         \* the job a busy worker executes
  cancelling,   \* workers with a cancellation that was not delivered yet
  unfinished,   \* unfinished-task counter of the asyncio.Queue
  reply,        \* outcome of the last submit()
  jobsTotal,    \* rageval_evaluation_jobs_total, by status
  queueDepth    \* rageval_evaluation_queue_depth

vars == <<faults, phase, starts, accepted, queue, status, completedAt, latest,
          worker, held, cancelling, unfinished, reply, jobsTotal, queueDepth>>

lifecycle == <<phase, starts>>
records == <<status, completedAt, latest>>
pool == <<worker, held, cancelling>>
telemetry == <<jobsTotal, queueDepth>>

-----------------------------------------------------------------------------

(* _record_telemetry: every lifecycle transition counts its status and sets *)
(* the depth gauge to the qsize() read inside the critical section.         *)
RecordTelemetry(s, depth) ==
  /\ jobsTotal' = [jobsTotal EXCEPT ![s] = @ + 1]
  /\ queueDepth' = depth

Init ==
  /\ faults \in SUBSET ExecutorFaults
  /\ phase = "down" /\ starts = 0 /\ accepted = 0
  /\ queue = <<>>
  /\ status = [j \in JobIds |-> "absent"]
  /\ completedAt = [j \in JobIds |-> 0]
  /\ latest = NoJob
  /\ worker = [w \in Workers |-> "none"]
  /\ held = [w \in Workers |-> NoJob]
  /\ cancelling = {}
  /\ unfinished = 0
  /\ reply = "none"
  /\ jobsTotal = [s \in JobState |-> 0]
  /\ queueDepth = 0

(* lifespan startup: start() creates one task per worker.  A second call    *)
(* while _workers is not empty returns at once, which is a stuttering step. *)
Start ==
  /\ phase = "down" /\ starts < MaxStarts
  /\ phase' = "up" /\ starts' = starts + 1
  /\ worker' = [w \in Workers |-> "idle"]
  /\ UNCHANGED <<faults, accepted, queue, records, held, cancelling,
                 unfinished, reply, telemetry>>

(* Faulty variant: only waiting workers are asked to cancel.                *)
StopBegin_SkipsBusy ==
  /\ phase = "up"
  /\ phase' = "stopping"
  /\ cancelling' = {w \in Workers : worker[w] = "idle"}
  /\ UNCHANGED <<faults, starts, accepted, queue, records, worker, held,
                 unfinished, reply, telemetry>>

(* stop() up to its gather: _workers becomes [] and every task that has not *)
(* ended is asked to cancel.                                                *)
StopBegin ==
  /\ phase = "up"
  /\ phase' = "stopping"
  /\ cancelling' = {w \in Workers : worker[w] # "ended"}
  /\ UNCHANGED <<faults, starts, accepted, queue, records, worker, held,
                 unfinished, reply, telemetry>>

(* The gather in stop() returns once every worker task has ended.           *)
StopEnd ==
  /\ phase = "stopping"
  /\ \A w \in Workers : worker[w] = "ended"
  /\ phase' = "down"
  /\ worker' = [w \in Workers |-> "none"]
  /\ UNCHANGED <<faults, starts, accepted, queue, records, held, cancelling,
                 unfinished, reply, telemetry>>

SubmitNotStarted ==
  /\ phase # "up"
  /\ reply' = "not_started"
  /\ UNCHANGED <<faults, lifecycle, accepted, queue, records, pool,
                 unfinished, telemetry>>

(* Faulty variant: the record is not popped on QueueFull.                   *)
SubmitQueueFull_KeepsRecord ==
  /\ phase = "up" /\ accepted < MaxJobs
  /\ Len(queue) = MaxQueueSize
  /\ status' = [status EXCEPT ![accepted + 1] = "queued"]
  /\ reply' = "queue_full"
  /\ UNCHANGED <<faults, lifecycle, accepted, queue, completedAt, latest,
                 pool, unfinished, telemetry>>

(* Faulty variant: qsize() is read before put_nowait().                     *)
SubmitAccepted_DepthBeforePut ==
  /\ phase = "up" /\ accepted < MaxJobs
  /\ Len(queue) < MaxQueueSize
  /\ accepted' = accepted + 1
  /\ status' = [status EXCEPT ![accepted + 1] = "queued"]
  /\ queue' = Append(queue, accepted + 1)
  /\ unfinished' = unfinished + 1
  /\ reply' = "accepted"
  /\ RecordTelemetry("queued", Len(queue))
  /\ UNCHANGED <<faults, lifecycle, completedAt, latest, pool>>

(* The record is inserted before put_nowait and popped again on QueueFull.  *)
SubmitQueueFull ==
  /\ phase = "up"
  /\ Len(queue) = MaxQueueSize
  /\ reply' = "queue_full"
  /\ UNCHANGED <<faults, lifecycle, accepted, queue, records, pool,
                 unfinished, telemetry>>

SubmitAccepted ==
  /\ phase = "up" /\ accepted < MaxJobs
  /\ Len(queue) < MaxQueueSize
  /\ accepted' = accepted + 1
  /\ status' = [status EXCEPT ![accepted + 1] = "queued"]
  /\ queue' = Append(queue, accepted + 1)
  /\ unfinished' = unfinished + 1
  /\ reply' = "accepted"
  /\ RecordTelemetry("queued", Len(queue'))
  /\ UNCHANGED <<faults, lifecycle, completedAt, latest, pool>>

(* Faulty variants: the item is only peeked at; the newest item is taken.   *)
Take_Peeks(w) ==
  /\ worker[w] = "idle" /\ w \notin cancelling
  /\ queue # <<>>
  /\ status' = [status EXCEPT ![Head(queue)] = "running"]
  /\ worker' = [worker EXCEPT ![w] = "busy"]
  /\ held' = [held EXCEPT ![w] = Head(queue)]
  /\ RecordTelemetry("running", Len(queue))
  /\ UNCHANGED <<faults, lifecycle, accepted, queue, completedAt, latest,
                 cancelling, unfinished, reply>>

Take_Newest(w) ==
  /\ worker[w] = "idle" /\ w \notin cancelling
  /\ queue # <<>>
  /\ queue' = SubSeq(queue, 1, Len(queue) - 1)
  /\ status' = [status EXCEPT ![queue[Len(queue)]] = "running"]
  /\ worker' = [worker EXCEPT ![w] = "busy"]
  /\ held' = [held EXCEPT ![w] = queue[Len(queue)]]
  /\ RecordTelemetry("running", Len(queue'))
  /\ UNCHANGED <<faults, lifecycle, accepted, completedAt, latest, cancelling,
                 unfinished, reply>>

(* _worker: queue.get() returns and _execute marks the job RUNNING; there   *)
(* is no suspension between the two.                                        *)
Take(w) ==
  /\ worker[w] = "idle" /\ w \notin cancelling
  /\ queue # <<>>
  /\ queue' = Tail(queue)
  /\ status' = [status EXCEPT ![Head(queue)] = "running"]
  /\ worker' = [worker EXCEPT ![w] = "busy"]
  /\ held' = [held EXCEPT ![w] = Head(queue)]
  /\ RecordTelemetry("running", Len(queue'))
  /\ UNCHANGED <<faults, lifecycle, accepted, completedAt, latest, cancelling,
                 unfinished, reply>>

Completions == Cardinality({j \in JobIds : status[j] \in Terminal})

(* The worker leaves _execute in state s of its own: task_done(), and the   *)
(* job is no longer held.                                                   *)
Leave(w, s) ==
  /\ worker' = [worker EXCEPT ![w] = s]
  /\ held' = [held EXCEPT ![w] = NoJob]
  /\ unfinished' = unfinished - 1

Complete(w, s) ==
  /\ status' = [status EXCEPT ![held[w]] = s]
  /\ completedAt' = [completedAt EXCEPT ![held[w]] = Completions + 1]
  /\ RecordTelemetry(s, Len(queue))
  /\ Leave(w, "idle")

(* executor.run() returned a report and it was summarised.                  *)
Succeed(w) ==
  /\ worker[w] = "busy" /\ w \notin cancelling
  /\ Complete(w, "succeeded")
  /\ latest' = held[w]
  /\ UNCHANGED <<faults, lifecycle, accepted, queue, cancelling, reply>>

(* Faulty variants: the error is logged and the record left alone; the      *)
(* error is recorded and re-raised, which ends the worker.                  *)
Fail_LeavesRunning(w) ==
  /\ worker[w] = "busy" /\ w \notin cancelling
  /\ Leave(w, "idle")
  /\ UNCHANGED <<faults, lifecycle, accepted, queue, records, cancelling,
                 reply, telemetry>>

Fail_EndsWorker(w) ==
  /\ worker[w] = "busy" /\ w \notin cancelling
  /\ status' = [status EXCEPT ![held[w]] = "failed"]
  /\ completedAt' = [completedAt EXCEPT ![held[w]] = Completions + 1]
  /\ RecordTelemetry("failed", Len(queue))
  /\ Leave(w, "ended")
  /\ UNCHANGED <<faults, lifecycle, accepted, queue, latest, cancelling,
                 reply>>

(* executor.run() or the summary raised an Exception.                       *)
Fail(w) ==
  /\ worker[w] = "busy" /\ w \notin cancelling
  /\ Complete(w, "failed")
  /\ UNCHANGED <<faults, lifecycle, accepted, queue, latest, cancelling,
                 reply>>

(* executor.run() raised CancelledError although nobody cancelled the       *)
(* worker: it is re-raised and the worker task ends, still in _workers.     *)
SelfCancel(w) ==
  /\ "self_cancel" \in faults
  /\ worker[w] = "busy" /\ w \notin cancelling
  /\ Leave(w, "ended")
  /\ UNCHANGED <<faults, lifecycle, accepted, queue, records, cancelling,
                 reply, telemetry>>

(* CancelledError at queue.get(): the task ends, the queue keeps its items. *)
CancelIdle(w) ==
  /\ w \in cancelling /\ worker[w] = "idle"
  /\ worker' = [worker EXCEPT ![w] = "ended"]
  /\ cancelling' = cancelling \ {w}
  /\ UNCHANGED <<faults, lifecycle, accepted, queue, records, held,
                 unfinished, reply, telemetry>>

(* CancelledError at executor.run(): re-raised, the record stays RUNNING.   *)
CancelBusy(w) ==
  /\ w \in cancelling /\ worker[w] = "busy"
  /\ Leave(w, "ended")
  /\ cancelling' = cancelling \ {w}
  /\ UNCHANGED <<faults, lifecycle, accepted, queue, records, reply,
                 telemetry>>

(* The executor answers its cancellation with an Exception of its own: the  *)
(* job fails and the worker, its cancellation consumed, goes back to get(). *)
CleanupError(w) ==
  /\ "cleanup_error" \in faults
  /\ w \in cancelling /\ worker[w] = "busy"
  /\ Complete(w, "failed")
  /\ cancelling' = cancelling \ {w}
  /\ UNCHANGED <<faults, lifecycle, accepted, queue, latest, reply>>

WorkerStep(w) ==
  \/ Take(w) \/ Succeed(w) \/ Fail(w) \/ SelfCancel(w)
  \/ CancelIdle(w) \/ CancelBusy(w) \/ CleanupError(w)

Next ==
  \/ Start \/ StopBegin \/ StopEnd
  \/ SubmitNotStarted \/ SubmitQueueFull \/ SubmitAccepted
  \/ \E w \in Workers : WorkerStep(w)

Spec == Init /\ [][Next]_vars

(* The event loop runs every ready task, and an executor returns or raises. *)
FairSpec ==
  /\ Spec
  /\ WF_vars(StopEnd)
  /\ \A w \in Workers : WF_vars(WorkerStep(w))

-----------------------------------------------------------------------------

TypeOK ==
  /\ faults \subseteq ExecutorFaults
  /\ phase \in {"down", "up", "stopping"}
  /\ starts \in 0..MaxStarts
  /\ accepted \in 0..MaxJobs
  /\ queue \in Seq(JobIds)
  /\ status \in [JobIds -> JobState \cup {"absent"}]
  /\ completedAt \in [JobIds -> 0..MaxJobs]
  /\ latest \in JobIds \cup {NoJob}
  /\ worker \in [Workers -> {"none", "idle", "busy", "ended"}]
  /\ held \in [Workers -> JobIds \cup {NoJob}]
  /\ cancelling \subseteq Workers
  /\ unfinished \in Nat
  /\ reply \in {"none", "accepted", "queue_full", "not_started"}
  /\ jobsTotal \in [JobState -> Nat]
  /\ queueDepth \in Nat

Begun == accepted - Len(queue)

(* No accepted job is lost or duplicated and none overtakes another: the    *)
(* queue is exactly the QUEUED records, in the order submit() accepted      *)
(* them, and every job before its head has been started (put_nowait and     *)
(* its rollback, queue.get, the records dictionary, across any number of    *)
(* shutdowns and restarts).                                                 *)
QueueHoldsQueued ==
  /\ Len(queue) <= accepted /\ Len(queue) <= MaxQueueSize
  /\ \A i \in 1..Len(queue) : queue[i] = Begun + i
  /\ \A j \in JobIds : /\ status[j] = "absent" <=> j > accepted
                       /\ status[j] = "queued" <=> j > Begun /\ j <= accepted

(* A job is executed by at most one worker, and a worker executes only a    *)
(* RUNNING job: _execute writes a record only while it owns the job.        *)
ExclusiveExecution ==
  /\ \A w \in Workers : worker[w] = "busy" <=> held[w] # NoJob
  /\ \A w \in Workers : held[w] # NoJob => status[held[w]] = "running"
  /\ \A v, w \in Workers : held[v] = held[w] /\ held[v] # NoJob => v = w

Interrupted(j) ==
  status[j] = "running" /\ \A w \in Workers : held[w] # j

(* GET /eval/latest returns the summary of the SUCCEEDED job that completed *)
(* last, whichever order the jobs were submitted or started in.             *)
LatestIsNewestSuccess ==
  /\ latest = NoJob => \A j \in JobIds : status[j] # "succeeded"
  /\ latest # NoJob =>
       /\ status[latest] = "succeeded"
       /\ \A j \in JobIds :
            status[j] = "succeeded" => completedAt[j] <= completedAt[latest]

(* task_done() is called exactly once per get(), whatever way a job leaves  *)
(* its worker: the counter join() would wait for is the jobs still queued   *)
(* or held, so task_done() never raises ValueError.                         *)
UnfinishedCount ==
  unfinished = Len(queue) + Cardinality({w \in Workers : held[w] # NoJob})

(* The published gauge is the depth of the queue and the counters account   *)
(* for every record, even though both are written after the lock that       *)
(* guarded the reading was released.                                        *)
MetricsAgree ==
  /\ queueDepth = Len(queue)
  /\ jobsTotal["queued"] = accepted
  /\ jobsTotal["running"] = Begun
  /\ \A s \in Terminal :
       jobsTotal[s] = Cardinality({j \in JobIds : status[j] = s})

(* Once stop() has returned no worker runs, so the lifespan may close the   *)
(* cache and the telemetry that the executor uses.                          *)
QuietAfterStop ==
  phase = "down" => /\ cancelling = {}
                    /\ \A w \in Workers : held[w] = NoJob /\ worker[w] = "none"

(* A job that reached a terminal status keeps it, with its completion time, *)
(* and a record is never removed: what GET /eval/jobs/{id} reported of a    *)
(* finished job is what it reports for ever.                                *)
TerminalIsFinal ==
  [][\A j \in JobIds :
       /\ status[j] # "absent" => status'[j] # "absent"
       /\ status[j] \in Terminal => /\ status'[j] = status[j]
                                    /\ completedAt'[j] = completedAt[j]]_vars

(* A job is left RUNNING with no worker executing it only by a worker that  *)
(* ends with it, cancelled in a shutdown or by its executor; and then it    *)
(* stays so for ever, since a later start() does not pick it up.            *)
InterruptedOnlyByCancel ==
  [][\A j \in JobIds :
       /\ ~Interrupted(j) /\ Interrupted(j)' =>
            \E w \in Workers :
              /\ held[w] = j /\ worker'[w] = "ended"
              /\ w \in cancelling \/ "self_cancel" \in faults
       /\ Interrupted(j) => Interrupted(j)']_vars

(* If the application is not shut down again for ever, every queued job is  *)
(* executed to a terminal status, unless a shutdown interrupts it: items    *)
(* left in the queue by stop() are served by the workers of the next start. *)
(* An executor that cancels itself could end every worker.                  *)
QueuedJobsSettle ==
  "self_cancel" \notin faults /\ <>[](phase = "up") =>
    \A j \in JobIds :
      status[j] = "queued" ~> (status[j] \in Terminal \/ Interrupted(j))

(* stop() returns when executors let their cancellation through.            *)
StopCompletes ==
  "cleanup_error" \notin faults => (phase = "stopping" ~> phase = "down")

(* The manager implements the job board the endpoints promise.              *)
Board == INSTANCE JobBoard
  WITH Jobs <- JobIds, Capacity <- MaxQueueSize, None <- NoJob, board <- status

ImplementsJobBoard == Board!BoardSpec

=============================================================================
