----------------------- MODULE EvaluationJobs_proofs -----------------------
(***************************************************************************)
(* Proofs about EvaluationJobs for every number of workers, queue size and  *)
(* number of jobs and restarts, whatever the executors do.                  *)
(***************************************************************************)
EXTENDS EvaluationJobs, FiniteSetTheorems, TLAPS

(* The tasks of the pool exist exactly while the manager is not down, and a *)
(* cancellation is pending only in stop() and only for a task that lives.   *)
Lifecycle ==
  /\ phase # "stopping" => cancelling = {}
  /\ \A w \in cancelling : worker[w] \in {"idle", "busy"}
  /\ \A w \in Workers : phase = "down" <=> worker[w] = "none"

Finished == {j \in JobIds : status[j] \in Terminal}
HeldBy == {w \in Workers : held[w] # NoJob}

(* Completion times are ranks: none exceeds the number of jobs completed.   *)
CompletionRanks == \A j \in JobIds : completedAt[j] <= Cardinality(Finished)

IInv ==
  /\ TypeOK
  /\ QueueHoldsQueued
  /\ ExclusiveExecution
  /\ Lifecycle
  /\ UnfinishedCount
  /\ CompletionRanks
  /\ LatestIsNewestSuccess

-----------------------------------------------------------------------------
(* Facts about the data.                                                    *)

LEMMA JobIdsFinite == IsFiniteSet(JobIds) /\ Cardinality(JobIds) = MaxJobs
  BY BoundAssumption, FS_Interval DEF JobIds

(* A job that is not finished leaves room for its own completion.           *)
LEMMA RoomToFinish ==
  ASSUME NEW j \in JobIds, j \notin Finished
  PROVE  /\ IsFiniteSet(Finished)
         /\ Cardinality(Finished) \in Nat
         /\ Cardinality(Finished) + 1 <= MaxJobs
         /\ Cardinality(Finished \cup {j}) = Cardinality(Finished) + 1
  <1>1. Finished \subseteq JobIds
    BY DEF Finished
  <1>2. IsFiniteSet(Finished)
    BY <1>1, JobIdsFinite, FS_Subset
  <1>3. Cardinality(Finished \cup {j}) = Cardinality(Finished) + 1
    BY <1>2, FS_AddElement
  <1>4. Finished \cup {j} \subseteq JobIds
    BY <1>1
  <1>5. Cardinality(Finished \cup {j}) <= Cardinality(JobIds)
    BY <1>4, JobIdsFinite, FS_Subset
  <1>6. Cardinality(Finished) \in Nat
    BY <1>2, FS_CardinalityType
  <1> QED
    BY <1>2, <1>3, <1>5, <1>6, JobIdsFinite

LEMMA HeldByFinite == IsFiniteSet(HeldBy) /\ Cardinality(HeldBy) \in Nat
  BY WorkersAssumption, FS_Subset, FS_CardinalityType DEF HeldBy

-----------------------------------------------------------------------------
(* Types.  Two of the counters need more than types: a worker that leaves   *)
(* its job was counted in unfinished, and a job that is completed was not   *)
(* counted among the completions.                                           *)

LEMMA HeldIsUnfinished ==
  ASSUME TypeOK, UnfinishedCount, NEW w \in Workers, held[w] # NoJob
  PROVE  unfinished - 1 \in Nat
  <1>1. w \in HeldBy
    BY DEF HeldBy
  <1>2. Cardinality(HeldBy) # 0
    BY <1>1, HeldByFinite, FS_EmptySet
  <1>3. unfinished = Len(queue) + Cardinality(HeldBy) /\ Len(queue) \in Nat
    BY DEF UnfinishedCount, HeldBy, TypeOK
  <1> QED
    BY <1>2, <1>3, HeldByFinite

LEMMA CompletionFits ==
  ASSUME TypeOK, ExclusiveExecution, NEW w \in Workers, worker[w] = "busy"
  PROVE  /\ held[w] \in JobIds
         /\ status[held[w]] = "running"
         /\ Completions + 1 \in 0..MaxJobs
  <1>1. held[w] \in JobIds /\ status[held[w]] = "running"
    BY DEF TypeOK, ExclusiveExecution
  <1>2. held[w] \notin Finished
    BY <1>1 DEF Finished, Terminal
  <1>3. Completions = Cardinality(Finished)
    BY DEF Completions, Finished
  <1>4. Cardinality(Finished) \in Nat /\ Cardinality(Finished) + 1 <= MaxJobs
    BY <1>1, <1>2, RoomToFinish
  <1> QED
    BY <1>1, <1>3, <1>4, BoundAssumption

LEMMA TypeStep == IInv /\ [Next]_vars => TypeOK'
  <1> SUFFICES ASSUME IInv, [Next]_vars PROVE TypeOK'
    OBVIOUS
  <1> USE BoundAssumption DEF IInv, TypeOK, JobState, lifecycle, records, pool, telemetry
  <1>1. CASE Start
    BY <1>1 DEF Start
  <1>2. CASE StopBegin
    BY <1>2 DEF StopBegin
  <1>3. CASE StopEnd
    BY <1>3 DEF StopEnd
  <1>4. CASE SubmitNotStarted
    BY <1>4 DEF SubmitNotStarted
  <1>5. CASE SubmitQueueFull
    BY <1>5 DEF SubmitQueueFull
  <1>6. CASE SubmitAccepted
    BY <1>6 DEF SubmitAccepted, RecordTelemetry, JobIds
  <1>7. ASSUME NEW w \in Workers, Take(w) PROVE TypeOK'
    BY <1>7 DEF Take, RecordTelemetry
  <1>8. ASSUME NEW w \in Workers, Succeed(w) PROVE TypeOK'
    BY <1>8, CompletionFits, HeldIsUnfinished DEF Succeed, Complete, Leave, RecordTelemetry, ExclusiveExecution
  <1>9. ASSUME NEW w \in Workers, Fail(w) PROVE TypeOK'
    BY <1>9, CompletionFits, HeldIsUnfinished DEF Fail, Complete, Leave, RecordTelemetry, ExclusiveExecution
  <1>10. ASSUME NEW w \in Workers, SelfCancel(w) PROVE TypeOK'
    BY <1>10, HeldIsUnfinished DEF SelfCancel, Leave, ExclusiveExecution
  <1>11. ASSUME NEW w \in Workers, CancelIdle(w) PROVE TypeOK'
    BY <1>11 DEF CancelIdle
  <1>12. ASSUME NEW w \in Workers, CancelBusy(w) PROVE TypeOK'
    BY <1>12, HeldIsUnfinished DEF CancelBusy, Leave, ExclusiveExecution
  <1>13. ASSUME NEW w \in Workers, CleanupError(w) PROVE TypeOK'
    BY <1>13, CompletionFits, HeldIsUnfinished DEF CleanupError, Complete, Leave, RecordTelemetry, ExclusiveExecution
  <1>14. CASE UNCHANGED vars
    BY <1>14 DEF vars
  <1> QED
    BY <1>1, <1>2, <1>3, <1>4, <1>5, <1>6, <1>7, <1>8, <1>9, <1>10, <1>11, <1>12, <1>13, <1>14 DEF Next, WorkerStep

-----------------------------------------------------------------------------
(* What the steps do to the variables that matter.  Steps of the lifespan,  *)
(* of submit() and of cancelled workers leave the records of the accepted   *)
(* jobs and the queue alone.                                                *)

LEMMA StepCases ==
  ASSUME [Next]_vars
  PROVE  \/ Start \/ StopBegin \/ StopEnd
         \/ SubmitAccepted
         \/ \E w \in Workers : Take(w)
         \/ \E w \in Workers : Succeed(w)
         \/ \E w \in Workers : Fail(w) \/ CleanupError(w)
         \/ \E w \in Workers : SelfCancel(w) \/ CancelBusy(w)
         \/ \E w \in Workers : CancelIdle(w)
         \/ UNCHANGED <<phase, accepted, queue, status, completedAt, latest,
                        worker, held, cancelling, unfinished, jobsTotal,
                        queueDepth>>
  BY DEF Next, WorkerStep, vars, SubmitNotStarted, SubmitQueueFull, lifecycle,
         records, pool, telemetry

LEMMA QueueTake ==
  ASSUME TypeOK, queue # <<>>
  PROVE  /\ Head(queue) = queue[1] /\ Head(queue) \in JobIds
         /\ Len(queue) \in Nat \ {0}
         /\ Tail(queue) \in Seq(JobIds)
         /\ Len(Tail(queue)) = Len(queue) - 1
         /\ \A i \in 1..Len(Tail(queue)) : Tail(queue)[i] = queue[i + 1]
  BY DEF TypeOK

LEMMA HeadIsQueued ==
  ASSUME TypeOK, QueueHoldsQueued, queue # <<>>
  PROVE  Head(queue) \in JobIds /\ status[Head(queue)] = "queued"
  <1>1. /\ Head(queue) = queue[1] /\ Head(queue) \in JobIds
        /\ Len(queue) \in Nat \ {0} /\ accepted \in Nat
    BY QueueTake, BoundAssumption DEF TypeOK
  <1>2. Head(queue) = Begun + 1 /\ Begun + 1 <= accepted /\ Begun \in Nat
    BY <1>1 DEF QueueHoldsQueued, Begun
  <1> QED
    BY <1>1, <1>2 DEF QueueHoldsQueued

LEMMA QueueStep == IInv /\ [Next]_vars => QueueHoldsQueued'
  <1> SUFFICES ASSUME IInv, [Next]_vars PROVE QueueHoldsQueued'
    OBVIOUS
  <1> USE BoundAssumption, QueueAssumption DEF IInv, QueueHoldsQueued, Begun
  <1>1. CASE SubmitAccepted
    <2>1. accepted + 1 \in JobIds /\ accepted \in Nat
      BY <1>1 DEF SubmitAccepted, TypeOK, JobIds
    <2>2. /\ accepted' = accepted + 1
          /\ Len(queue') = Len(queue) + 1 /\ Len(queue) \in Nat
          /\ Len(queue') <= MaxQueueSize
          /\ \A i \in 1..Len(queue) : queue'[i] = queue[i]
          /\ queue'[Len(queue) + 1] = accepted + 1
      BY <1>1, <2>1 DEF SubmitAccepted, TypeOK
    <2>3. Begun' = Begun
      BY <2>1, <2>2
    <2>4. \A i \in 1..Len(queue') : queue'[i] = Begun' + i
      <3>1. TAKE i \in 1..Len(queue')
      <3>2. CASE i = Len(queue) + 1
        BY <2>1, <2>2, <2>3, <3>2
      <3>3. CASE i \in 1..Len(queue)
        BY <2>2, <2>3, <3>3
      <3> QED
        BY <2>2, <3>1, <3>2, <3>3
    <2>5. \A j \in JobIds : status'[j] = IF j = accepted + 1 THEN "queued" ELSE status[j]
      BY <1>1, <2>1 DEF SubmitAccepted, TypeOK
    <2>6. \A j \in JobIds : /\ status'[j] = "absent" <=> j > accepted'
                            /\ status'[j] = "queued" <=> j > Begun' /\ j <= accepted'
      BY <2>1, <2>2, <2>3, <2>5 DEF JobIds
    <2> QED
      BY <2>1, <2>2, <2>4, <2>6
  <1>2. ASSUME NEW w \in Workers, Take(w) PROVE QueueHoldsQueued'
    <2>1. /\ accepted' = accepted /\ accepted \in Nat
          /\ queue' = Tail(queue) /\ queue # <<>>
          /\ Len(queue) \in Nat \ {0} /\ Len(queue') = Len(queue) - 1
          /\ \A i \in 1..Len(queue') : queue'[i] = queue[i + 1]
      BY <1>2, QueueTake DEF Take, lifecycle, TypeOK
    <2>2. Begun' = Begun + 1 /\ Begun \in Nat
      BY <2>1
    <2>3. Head(queue) = Begun + 1
      BY <2>1, <2>2, QueueTake
    <2>4. \A i \in 1..Len(queue') : queue'[i] = Begun' + i
      BY <2>1, <2>2
    <2>5. \A j \in JobIds : status'[j] = IF j = Begun + 1 THEN "running" ELSE status[j]
      BY <1>2, <2>3 DEF Take, TypeOK
    <2>6. \A j \in JobIds : /\ status'[j] = "absent" <=> j > accepted'
                            /\ status'[j] = "queued" <=> j > Begun' /\ j <= accepted'
      <3>1. TAKE j \in JobIds
      <3>2. j \in Nat /\ (j > Begun' <=> j > Begun /\ j # Begun + 1)
        BY <2>2 DEF JobIds
      <3>3. Begun + 1 <= accepted
        BY <2>1, <2>2
      <3> QED
        BY <2>1, <2>2, <2>5, <3>1, <3>2, <3>3
    <2> QED
      BY <2>1, <2>4, <2>6
  <1>3. ASSUME NEW w \in Workers, Succeed(w) \/ Fail(w) \/ CleanupError(w)
        PROVE  QueueHoldsQueued'
    <2>1. worker[w] = "busy" /\ UNCHANGED <<accepted, queue>>
      BY <1>3 DEF Succeed, Fail, CleanupError
    <2>2. held[w] \in JobIds /\ status[held[w]] = "running"
      BY <2>1, CompletionFits
    <2>3. PICK s \in Terminal : status' = [status EXCEPT ![held[w]] = s]
      BY <1>3 DEF Succeed, Fail, CleanupError, Complete, Terminal
    <2>4. \A j \in JobIds : /\ status'[j] = "absent" <=> status[j] = "absent"
                            /\ status'[j] = "queued" <=> status[j] = "queued"
      BY <2>2, <2>3 DEF TypeOK, Terminal
    <2> QED
      BY <2>1, <2>4
  <1>4. CASE UNCHANGED <<accepted, queue, status>>
    BY <1>4
  <1> QED
    BY <1>1, <1>2, <1>3, <1>4, StepCases
       DEF Start, StopBegin, StopEnd, SelfCancel, CancelBusy, CancelIdle, records

LEMMA ExclusionStep == IInv /\ [Next]_vars => ExclusiveExecution'
  <1> SUFFICES ASSUME IInv, [Next]_vars PROVE ExclusiveExecution'
    OBVIOUS
  <1> USE DEF IInv, ExclusiveExecution
  <1>1. CASE Start
    BY <1>1 DEF Start, Lifecycle, records
  <1>2. CASE StopEnd
    BY <1>2 DEF StopEnd, records
  <1>3. CASE SubmitAccepted
    <2>1. \A j \in JobIds : status[j] = "running" => status'[j] = "running"
      BY <1>3 DEF SubmitAccepted, QueueHoldsQueued, TypeOK, JobIds
    <2> QED
      BY <1>3, <2>1 DEF SubmitAccepted, pool, TypeOK
  <1>4. ASSUME NEW w \in Workers, Take(w) PROVE ExclusiveExecution'
    <2>1. Head(queue) \in JobIds /\ status[Head(queue)] = "queued"
      BY <1>4, HeadIsQueued DEF Take
    <2>2. \A v \in Workers : held[v] # Head(queue)
      BY <2>1, NoJobAssumption DEF JobIds
    <2>3. Head(queue) # NoJob
      BY <2>1, NoJobAssumption DEF JobIds
    <2> QED
      BY <1>4, <2>1, <2>2, <2>3 DEF Take, TypeOK
  <1>5. ASSUME NEW w \in Workers, Succeed(w) \/ Fail(w) \/ CleanupError(w)
        PROVE  ExclusiveExecution'
    <2>1. worker[w] = "busy" /\ held[w] \in JobIds
      BY <1>5, CompletionFits DEF Succeed, Fail, CleanupError
    <2>2. PICK s \in Terminal : status' = [status EXCEPT ![held[w]] = s]
      BY <1>5 DEF Succeed, Fail, CleanupError, Complete, Terminal
    <2>3. /\ worker' = [worker EXCEPT ![w] = "idle"]
          /\ held' = [held EXCEPT ![w] = NoJob]
      BY <1>5 DEF Succeed, Fail, CleanupError, Complete, Leave
    <2>4. \A v \in Workers \ {w} : held[v] # NoJob =>
            held[v] # held[w] /\ held[v] \in JobIds
      BY <2>1 DEF TypeOK
    <2> QED
      BY <2>1, <2>2, <2>3, <2>4 DEF TypeOK
  <1>6. ASSUME NEW w \in Workers, SelfCancel(w) \/ CancelBusy(w)
        PROVE  ExclusiveExecution'
    <2>1. /\ worker' = [worker EXCEPT ![w] = "ended"]
          /\ held' = [held EXCEPT ![w] = NoJob]
          /\ UNCHANGED status
      BY <1>6 DEF SelfCancel, CancelBusy, Leave, records
    <2> QED
      BY <2>1 DEF TypeOK
  <1>7. ASSUME NEW w \in Workers, CancelIdle(w) PROVE ExclusiveExecution'
    BY <1>7 DEF CancelIdle, records, TypeOK
  <1>8. CASE UNCHANGED <<worker, held, status>>
    BY <1>8
  <1> QED
    BY <1>1, <1>2, <1>3, <1>4, <1>5, <1>6, <1>7, <1>8, StepCases
       DEF StopBegin, records

LEMMA LifecycleStep == IInv /\ [Next]_vars => Lifecycle'
  <1> SUFFICES ASSUME IInv, [Next]_vars PROVE Lifecycle'
    OBVIOUS
  <1> USE DEF IInv, Lifecycle, TypeOK, lifecycle, pool
  <1>1. CASE Start
    BY <1>1 DEF Start
  <1>2. CASE StopBegin
    BY <1>2 DEF StopBegin
  <1>3. CASE StopEnd
    BY <1>3 DEF StopEnd
  <1>4. CASE SubmitAccepted
    BY <1>4 DEF SubmitAccepted
  <1>5. ASSUME NEW w \in Workers, Take(w) PROVE Lifecycle'
    BY <1>5 DEF Take
  <1>6. ASSUME NEW w \in Workers, Succeed(w) \/ Fail(w) \/ CleanupError(w)
        PROVE  Lifecycle'
    BY <1>6 DEF Succeed, Fail, CleanupError, Complete, Leave
  <1>7. ASSUME NEW w \in Workers, SelfCancel(w) \/ CancelBusy(w)
        PROVE  Lifecycle'
    BY <1>7 DEF SelfCancel, CancelBusy, Leave
  <1>8. ASSUME NEW w \in Workers, CancelIdle(w) PROVE Lifecycle'
    BY <1>8 DEF CancelIdle
  <1>9. CASE UNCHANGED <<phase, worker, cancelling>>
    BY <1>9
  <1> QED
    BY <1>1, <1>2, <1>3, <1>4, <1>5, <1>6, <1>7, <1>8, <1>9, StepCases

LEMMA UnfinishedStep == IInv /\ [Next]_vars => UnfinishedCount'
  <1> SUFFICES ASSUME IInv, [Next]_vars PROVE UnfinishedCount'
    OBVIOUS
  <1> USE DEF IInv
  <1>1. unfinished = Len(queue) + Cardinality(HeldBy) /\ Len(queue) \in Nat
    BY DEF UnfinishedCount, HeldBy, TypeOK
  <1>2. SUFFICES unfinished' = Len(queue') + Cardinality(HeldBy')
    BY DEF UnfinishedCount, HeldBy
  <1>3. CASE SubmitAccepted
    BY <1>1, <1>3, HeldByFinite DEF SubmitAccepted, HeldBy, pool, TypeOK
  <1>4. ASSUME NEW w \in Workers, Take(w)
        PROVE  unfinished' = Len(queue') + Cardinality(HeldBy')
    <2>1. Head(queue) # NoJob /\ Len(queue') = Len(queue) - 1 /\ unfinished' = unfinished
      BY <1>4, QueueTake, NoJobAssumption DEF Take, JobIds
    <2>2. HeldBy' = HeldBy \cup {w} /\ w \notin HeldBy
      BY <1>4, <2>1 DEF Take, HeldBy, ExclusiveExecution, TypeOK
    <2>3. Cardinality(HeldBy \cup {w}) = Cardinality(HeldBy) + 1
      BY <2>2, HeldByFinite, FS_AddElement
    <2> QED
      BY <1>1, <2>1, <2>2, <2>3, HeldByFinite
  <1>5. ASSUME NEW w \in Workers,
               Succeed(w) \/ Fail(w) \/ CleanupError(w) \/ SelfCancel(w) \/ CancelBusy(w)
        PROVE  unfinished' = Len(queue') + Cardinality(HeldBy')
    <2>1. /\ held[w] # NoJob /\ queue' = queue /\ unfinished' = unfinished - 1
          /\ held' = [held EXCEPT ![w] = NoJob]
      BY <1>5 DEF Succeed, Fail, CleanupError, SelfCancel, CancelBusy, Complete,
                  Leave, ExclusiveExecution
    <2>2. HeldBy' = HeldBy \ {w} /\ w \in HeldBy
      BY <2>1 DEF HeldBy, TypeOK
    <2>3. Cardinality(HeldBy \ {w}) = Cardinality(HeldBy) - 1
      BY <2>2, HeldByFinite, FS_RemoveElement
    <2> QED
      BY <1>1, <2>1, <2>2, <2>3, HeldByFinite
  <1>6. CASE UNCHANGED <<queue, held, unfinished>>
    BY <1>1, <1>6 DEF HeldBy
  <1> QED
    BY <1>3, <1>4, <1>5, <1>6, StepCases DEF Start, StopBegin, StopEnd, CancelIdle

(* Finished grows by exactly the job a worker completes.                    *)
LEMMA FinishedStep ==
  ASSUME IInv, [Next]_vars
  PROVE  \/ \E w \in Workers, s \in Terminal :
              /\ worker[w] = "busy"
              /\ \/ Succeed(w) /\ s = "succeeded"
                 \/ (Fail(w) \/ CleanupError(w)) /\ s = "failed"
              /\ status' = [status EXCEPT ![held[w]] = s]
              /\ completedAt' =
                   [completedAt EXCEPT ![held[w]] = Cardinality(Finished) + 1]
              /\ Finished' = Finished \cup {held[w]}
         \/ /\ Finished' = Finished
            /\ \A j \in JobIds : j \in Finished => status'[j] = status[j]
            /\ UNCHANGED <<completedAt, latest>>
  <1> USE DEF IInv
  <1>1. CASE SubmitAccepted
    <2>1. /\ status' = [status EXCEPT ![accepted + 1] = "queued"]
          /\ UNCHANGED <<completedAt, latest>>
          /\ accepted + 1 \in JobIds /\ accepted \in Nat
      BY <1>1, BoundAssumption DEF SubmitAccepted, TypeOK, JobIds
    <2>2. status[accepted + 1] = "absent"
      BY <2>1 DEF QueueHoldsQueued
    <2> QED
      BY <2>1, <2>2 DEF Finished, Terminal, TypeOK
  <1>2. ASSUME NEW w \in Workers, Take(w)
        PROVE  /\ Finished' = Finished
               /\ \A j \in JobIds : j \in Finished => status'[j] = status[j]
               /\ UNCHANGED <<completedAt, latest>>
    <2>1. /\ status' = [status EXCEPT ![Head(queue)] = "running"]
          /\ UNCHANGED <<completedAt, latest>>
      BY <1>2 DEF Take
    <2>2. Head(queue) \in JobIds /\ status[Head(queue)] = "queued"
      BY <1>2, HeadIsQueued DEF Take
    <2> QED
      BY <2>1, <2>2 DEF Finished, Terminal, TypeOK
  <1>3. ASSUME NEW w \in Workers, NEW s \in Terminal, Complete(w, s), worker[w] = "busy"
        PROVE  /\ status' = [status EXCEPT ![held[w]] = s]
               /\ completedAt' =
                    [completedAt EXCEPT ![held[w]] = Cardinality(Finished) + 1]
               /\ Finished' = Finished \cup {held[w]}
    <2>1. held[w] \in JobIds /\ status[held[w]] = "running"
      BY <1>3, CompletionFits
    <2>2. status' = [status EXCEPT ![held[w]] = s]
      BY <1>3 DEF Complete
    <2>3. Finished' = Finished \cup {held[w]}
      BY <2>1, <2>2 DEF Finished, TypeOK
    <2>4. Completions = Cardinality(Finished)
      BY DEF Completions, Finished
    <2> QED
      BY <1>3, <2>2, <2>3, <2>4 DEF Complete
  <1>4. ASSUME NEW w \in Workers, Succeed(w)
        PROVE  "succeeded" \in Terminal /\ worker[w] = "busy" /\ Complete(w, "succeeded")
    BY <1>4 DEF Succeed, Terminal
  <1>6. ASSUME NEW w \in Workers, Fail(w) \/ CleanupError(w)
        PROVE  "failed" \in Terminal /\ worker[w] = "busy" /\ Complete(w, "failed")
    BY <1>6 DEF Fail, CleanupError, Terminal
  <1>5. CASE UNCHANGED <<status, completedAt, latest>>
    BY <1>5 DEF Finished
  <1>7. CASE \E w \in Workers : Succeed(w)
    <2>1. PICK w \in Workers : Succeed(w)
      BY <1>7
    <2>2. "succeeded" \in Terminal /\ worker[w] = "busy" /\ Complete(w, "succeeded")
      BY <1>4, <2>1
    <2> QED
      BY <1>3, <2>1, <2>2
  <1>8. CASE \E w \in Workers : Fail(w) \/ CleanupError(w)
    <2>1. PICK w \in Workers : Fail(w) \/ CleanupError(w)
      BY <1>8
    <2>2. "failed" \in Terminal /\ worker[w] = "busy" /\ Complete(w, "failed")
      BY <1>6, <2>1
    <2> QED
      BY <1>3, <2>1, <2>2
  <1>9. CASE \/ Start \/ StopBegin \/ StopEnd
             \/ \E w \in Workers : SelfCancel(w) \/ CancelBusy(w) \/ CancelIdle(w)
    BY <1>5, <1>9 DEF Start, StopBegin, StopEnd, SelfCancel, CancelBusy, CancelIdle, records
  <1> QED
    BY <1>1, <1>2, <1>5, <1>7, <1>8, <1>9, StepCases

LEMMA RanksStep ==
  ASSUME IInv, [Next]_vars
  PROVE  CompletionRanks' /\ LatestIsNewestSuccess'
  <1> USE DEF IInv
  <1>1. IsFiniteSet(Finished) /\ Cardinality(Finished) \in Nat
    BY JobIdsFinite, FS_Subset, FS_CardinalityType DEF Finished
  <1>2. ASSUME NEW w \in Workers, NEW s \in Terminal,
               worker[w] = "busy",
               (Succeed(w) /\ s = "succeeded") \/
                 ((Fail(w) \/ CleanupError(w)) /\ s = "failed"),
               status' = [status EXCEPT ![held[w]] = s],
               completedAt' = [completedAt EXCEPT ![held[w]] = Cardinality(Finished) + 1],
               Finished' = Finished \cup {held[w]}
        PROVE  CompletionRanks' /\ LatestIsNewestSuccess'
    <2>1. held[w] \in JobIds /\ status[held[w]] = "running" /\ held[w] \notin Finished
      BY <1>2, CompletionFits DEF Finished, Terminal
    <2>2. Cardinality(Finished') = Cardinality(Finished) + 1
      BY <1>2, <2>1, RoomToFinish
    <2>3. \A j \in JobIds : completedAt[j] \in Nat /\ completedAt[j] <= Cardinality(Finished)
      BY BoundAssumption DEF CompletionRanks, TypeOK
    <2>4. \A j \in JobIds : completedAt'[j] = IF j = held[w] THEN Cardinality(Finished) + 1
                                                             ELSE completedAt[j]
      BY <1>2, <2>1 DEF TypeOK
    <2>5. CompletionRanks'
      BY <1>1, <2>2, <2>3, <2>4 DEF CompletionRanks
    <2>6. \A j \in JobIds : status'[j] = IF j = held[w] THEN s ELSE status[j]
      BY <1>2, <2>1 DEF TypeOK
    <2>7. CASE Succeed(w) /\ s = "succeeded"
      <3>1. latest' = held[w]
        BY <2>7 DEF Succeed
      <3>2. latest' # NoJob /\ status'[latest'] = "succeeded"
        BY <2>1, <2>6, <2>7, <3>1, NoJobAssumption DEF JobIds
      <3>3. \A j \in JobIds : completedAt'[j] <= completedAt'[latest']
        BY <1>1, <2>1, <2>3, <2>4, <3>1
      <3> QED
        BY <2>5, <3>2, <3>3 DEF LatestIsNewestSuccess
    <2>8. CASE (Fail(w) \/ CleanupError(w)) /\ s = "failed"
      <3>1. latest' = latest
        BY <2>8 DEF Fail, CleanupError
      <3>2. \A j \in JobIds : status'[j] = "succeeded" =>
              status[j] = "succeeded" /\ j # held[w]
        BY <2>6, <2>8
      <3>3. latest # NoJob => latest \in JobIds /\ latest # held[w]
        BY <2>1 DEF LatestIsNewestSuccess, TypeOK
      <3>4. ASSUME latest = NoJob PROVE LatestIsNewestSuccess'
        BY <3>1, <3>2, <3>4 DEF LatestIsNewestSuccess
      <3>5. ASSUME latest # NoJob PROVE LatestIsNewestSuccess'
        <4>1. status'[latest'] = "succeeded" /\ completedAt'[latest'] = completedAt[latest]
          BY <2>4, <2>6, <3>1, <3>3, <3>5 DEF LatestIsNewestSuccess
        <4>2. \A j \in JobIds : status'[j] = "succeeded" =>
                completedAt'[j] <= completedAt'[latest']
          BY <2>4, <3>2, <3>5, <4>1 DEF LatestIsNewestSuccess
        <4> QED
          BY <3>1, <3>5, <4>1, <4>2 DEF LatestIsNewestSuccess
      <3> QED
        BY <2>5, <3>4, <3>5
    <2> QED
      BY <1>2, <2>5, <2>7, <2>8
  <1>3. ASSUME Finished' = Finished,
               \A j \in JobIds : j \in Finished => status'[j] = status[j],
               UNCHANGED <<completedAt, latest>>
        PROVE  CompletionRanks' /\ LatestIsNewestSuccess'
    <2>1. \A j \in JobIds : status'[j] = "succeeded" <=> status[j] = "succeeded"
      BY <1>3 DEF Finished, Terminal
    <2> QED
      BY <1>3, <2>1 DEF CompletionRanks, LatestIsNewestSuccess, TypeOK
  <1> QED
    BY <1>2, <1>3, FinishedStep

-----------------------------------------------------------------------------

LEMMA InitIInv == Init => IInv
  <1> SUFFICES ASSUME Init PROVE IInv
    OBVIOUS
  <1> USE BoundAssumption DEF Init
  <1>1. TypeOK
    BY DEF TypeOK
  <1>2. QueueHoldsQueued
    BY QueueAssumption DEF QueueHoldsQueued, Begun, JobIds
  <1>3. ExclusiveExecution /\ Lifecycle
    BY DEF ExclusiveExecution, Lifecycle
  <1>4. HeldBy = {} /\ Finished = {}
    BY DEF HeldBy, Finished, Terminal
  <1>5. UnfinishedCount
    <2>1. unfinished = 0 /\ Len(queue) = 0
      OBVIOUS
    <2> HIDE DEF Init
    <2>2. Cardinality(HeldBy) = 0
      BY <1>4, FS_EmptySet
    <2>3. unfinished = Len(queue) + Cardinality(HeldBy)
      BY <2>1, <2>2
    <2> QED
      BY <2>3 DEF UnfinishedCount, HeldBy
  <1>6. CompletionRanks
    BY <1>4, FS_EmptySet DEF CompletionRanks
  <1>7. LatestIsNewestSuccess
    BY DEF LatestIsNewestSuccess
  <1> QED
    BY <1>1, <1>2, <1>3, <1>5, <1>6, <1>7 DEF IInv

LEMMA IInvStep == IInv /\ [Next]_vars => IInv'
  BY TypeStep, QueueStep, ExclusionStep, LifecycleStep, UnfinishedStep, RanksStep
     DEF IInv

LEMMA Inductive == Spec => []IInv
  BY InitIInv, IInvStep, PTL DEF Spec

(* Types, with every counter within its range: the unfinished counter of    *)
(* the asyncio.Queue never goes below zero.                                 *)
THEOREM TypeCorrect == Spec => []TypeOK
  BY Inductive, PTL DEF IInv

(* submit(), _worker and any sequence of start() and stop() keep the queue  *)
(* equal to the QUEUED records in the order of acceptance.                  *)
THEOREM QueueCorrect == Spec => []QueueHoldsQueued
  BY Inductive, PTL DEF IInv

(* A job is never executed by two workers, nor executed when not RUNNING.   *)
THEOREM ExecutionExclusive == Spec => []ExclusiveExecution
  BY Inductive, PTL DEF IInv

(* task_done() balances get() on every way out of _execute.                 *)
THEOREM UnfinishedCorrect == Spec => []UnfinishedCount
  BY Inductive, PTL DEF IInv

(* GET /eval/latest is the success that completed last.                     *)
THEOREM LatestCorrect == Spec => []LatestIsNewestSuccess
  BY Inductive, PTL DEF IInv

(* When stop() has returned no worker task is left.                         *)
THEOREM StopIsQuiet == Spec => []QuietAfterStop
  <1>1. IInv => QuietAfterStop
    BY DEF IInv, QuietAfterStop, Lifecycle, ExclusiveExecution
  <1> QED
    BY <1>1, Inductive, PTL

(* A finished job reports the same status and completion time for ever.     *)
THEOREM FinishedForEver == Spec => TerminalIsFinal
  <1> DEFINE Final ==
        \A j \in JobIds :
          /\ status[j] # "absent" => status'[j] # "absent"
          /\ status[j] \in Terminal => /\ status'[j] = status[j]
                                       /\ completedAt'[j] = completedAt[j]
  <1>1. ASSUME IInv, [Next]_vars PROVE Final
    <2> USE DEF IInv
    <2>1. \A j \in JobIds : status[j] # "absent" => status'[j] # "absent"
      <3>1. accepted <= accepted' /\ accepted \in Nat /\ accepted' \in Nat
        BY <1>1, TypeStep, StepCases, BoundAssumption
           DEF TypeOK, SubmitAccepted, Start, StopBegin, StopEnd, Take, Succeed,
               Fail, CleanupError, SelfCancel, CancelBusy, CancelIdle
      <3> QED
        BY <1>1, <3>1, QueueStep DEF QueueHoldsQueued, JobIds
    <2>2. ASSUME NEW j \in JobIds, status[j] \in Terminal
          PROVE  status'[j] = status[j] /\ completedAt'[j] = completedAt[j]
      <3>1. j \in Finished
        BY <2>2 DEF Finished
      <3>2. \A w \in Workers : worker[w] = "busy" => held[w] # j /\ held[w] \in JobIds
        BY <1>1, <2>2, CompletionFits DEF Terminal
      <3> QED
        BY <1>1, <3>1, <3>2, FinishedStep DEF TypeOK
    <2> QED
      BY <2>1, <2>2
  <1>2. IInv /\ [Next]_vars => [Final]_vars
    BY <1>1
  <1>3. Spec => [][Final]_vars
    BY <1>2, Inductive, PTL DEF Spec
  <1> QED
    BY <1>3 DEF TerminalIsFinal

-----------------------------------------------------------------------------
(* Metrics, and what the endpoints promise.                                 *)

With(s) == {j \in JobIds : status[j] = s}

LEMMA MetricsStep == IInv /\ MetricsAgree /\ [Next]_vars => MetricsAgree'
  <1> SUFFICES ASSUME IInv, MetricsAgree, [Next]_vars PROVE MetricsAgree'
    OBVIOUS
  <1> USE DEF IInv
  <1>1. /\ queueDepth = Len(queue) /\ jobsTotal["queued"] = accepted
        /\ jobsTotal["running"] = Begun /\ jobsTotal \in [JobState -> Nat]
        /\ \A s \in Terminal : jobsTotal[s] = Cardinality(With(s))
    BY DEF MetricsAgree, With, TypeOK
  <1>2. /\ accepted \in Nat /\ Len(queue) \in Nat /\ Begun \in Nat
        /\ \A s \in Terminal : s \in JobState /\ s # "queued" /\ s # "running"
    BY BoundAssumption DEF TypeOK, QueueHoldsQueued, Begun, Terminal, JobState
  <1>3. SUFFICES /\ queueDepth' = Len(queue') /\ jobsTotal'["queued"] = accepted'
                 /\ jobsTotal'["running"] = Begun'
                 /\ \A s \in Terminal : jobsTotal'[s] = Cardinality(With(s)')
    BY DEF MetricsAgree, With
  <1>4. CASE SubmitAccepted
    <2>1. /\ accepted' = accepted + 1 /\ Len(queue') = Len(queue) + 1
          /\ queueDepth' = Len(queue')
          /\ jobsTotal' = [jobsTotal EXCEPT !["queued"] = @ + 1]
          /\ status' = [status EXCEPT ![accepted + 1] = "queued"]
          /\ accepted + 1 \in JobIds
      BY <1>2, <1>4, BoundAssumption DEF SubmitAccepted, RecordTelemetry, TypeOK, JobIds
    <2>2. Begun' = Begun
      BY <1>2, <2>1 DEF Begun
    <2>3. status[accepted + 1] = "absent"
      BY <1>2, <2>1 DEF QueueHoldsQueued
    <2>4. \A s \in Terminal : With(s)' = With(s)
      BY <2>1, <2>3 DEF With, TypeOK, Terminal
    <2>5. \A s \in Terminal : jobsTotal'[s] = jobsTotal[s]
      BY <1>1, <1>2, <2>1
    <2> QED
      BY <1>1, <1>2, <2>1, <2>2, <2>4, <2>5 DEF JobState
  <1>5. ASSUME NEW w \in Workers, Take(w)
        PROVE  /\ queueDepth' = Len(queue') /\ jobsTotal'["queued"] = accepted'
               /\ jobsTotal'["running"] = Begun'
               /\ \A s \in Terminal : jobsTotal'[s] = Cardinality(With(s)')
    <2>1. /\ accepted' = accepted /\ queue # <<>> /\ queue' = Tail(queue)
          /\ queueDepth' = Len(queue')
          /\ jobsTotal' = [jobsTotal EXCEPT !["running"] = @ + 1]
          /\ status' = [status EXCEPT ![Head(queue)] = "running"]
      BY <1>5 DEF Take, RecordTelemetry
    <2>2. Head(queue) \in JobIds /\ status[Head(queue)] = "queued"
      BY <2>1, HeadIsQueued
    <2>3. Begun' = Begun + 1
      BY <1>2, <2>1, QueueTake DEF Begun
    <2>4. \A s \in Terminal : With(s)' = With(s)
      BY <2>1, <2>2 DEF With, TypeOK, Terminal
    <2>5. \A s \in Terminal : jobsTotal'[s] = jobsTotal[s]
      BY <1>1, <1>2, <2>1
    <2> QED
      BY <1>1, <1>2, <2>1, <2>3, <2>4, <2>5 DEF JobState
  <1>6. ASSUME NEW w \in Workers, Succeed(w) \/ Fail(w) \/ CleanupError(w)
        PROVE  /\ queueDepth' = Len(queue') /\ jobsTotal'["queued"] = accepted'
               /\ jobsTotal'["running"] = Begun'
               /\ \A s \in Terminal : jobsTotal'[s] = Cardinality(With(s)')
    <2>1. PICK t \in Terminal :
            /\ status' = [status EXCEPT ![held[w]] = t]
            /\ jobsTotal' = [jobsTotal EXCEPT ![t] = @ + 1] /\ queueDepth' = Len(queue)
      BY <1>6 DEF Succeed, Fail, CleanupError, Complete, RecordTelemetry, Terminal
    <2>2. worker[w] = "busy" /\ UNCHANGED <<accepted, queue>>
      BY <1>6 DEF Succeed, Fail, CleanupError
    <2>3. held[w] \in JobIds /\ status[held[w]] = "running"
      BY <2>2, CompletionFits
    <2>4. \A s \in Terminal : With(s)' = IF s = t THEN With(s) \cup {held[w]} ELSE With(s)
      BY <2>1, <2>3 DEF With, TypeOK, Terminal
    <2>5. IsFiniteSet(With(t)) /\ held[w] \notin With(t)
      BY <2>3, JobIdsFinite, FS_Subset DEF With, Terminal
    <2>6. Cardinality(With(t) \cup {held[w]}) = Cardinality(With(t)) + 1
      BY <2>5, FS_AddElement
    <2>7. \A s \in Terminal : jobsTotal'[s] = Cardinality(With(s)')
      BY <1>1, <1>2, <2>1, <2>4, <2>6
    <2>8. jobsTotal'["queued"] = accepted' /\ jobsTotal'["running"] = Begun'
      BY <1>1, <1>2, <2>1, <2>2 DEF Begun, JobState
    <2> QED
      BY <1>1, <2>1, <2>2, <2>7, <2>8
  <1>7. CASE UNCHANGED <<accepted, queue, status, jobsTotal, queueDepth>>
    BY <1>1, <1>7 DEF With, Begun
  <1> QED
    BY <1>4, <1>5, <1>6, <1>7, StepCases
       DEF Start, StopBegin, StopEnd, SelfCancel, CancelBusy, CancelIdle, records, telemetry

LEMMA InitMetrics == Init => MetricsAgree
  <1> SUFFICES ASSUME Init PROVE MetricsAgree
    OBVIOUS
  <1>1. \A s \in Terminal : With(s) = {}
    BY DEF Init, With, Terminal
  <1>2. \A s \in Terminal : jobsTotal[s] = Cardinality(With(s))
    BY <1>1, FS_EmptySet DEF Init, Terminal, JobState
  <1>3. /\ accepted = 0 /\ Len(queue) = 0 /\ queueDepth = 0
        /\ jobsTotal["queued"] = 0 /\ jobsTotal["running"] = 0
    BY DEF Init, JobState
  <1>4. Begun = 0
    BY <1>3 DEF Begun
  <1> QED
    BY <1>2, <1>3, <1>4 DEF MetricsAgree, With

(* GET /metrics accounts for every record, and its gauge is the queue.      *)
THEOREM MetricsCorrect == Spec => []MetricsAgree
  BY Inductive, InitMetrics, MetricsStep, PTL DEF Spec

LEMMA BoardStep == IInv /\ [Next]_vars => [Board!BoardNext]_(Board!boardVars)
  <1> SUFFICES ASSUME IInv, [Next]_vars
               PROVE  Board!BoardNext \/ UNCHANGED <<status, latest>>
    BY DEF Board!boardVars
  <1> USE DEF IInv
  <1>1. CASE SubmitAccepted
    <2>1. /\ accepted \in Nat /\ accepted + 1 \in JobIds
          /\ Len(queue) \in Nat /\ Len(queue) < MaxQueueSize /\ MaxQueueSize \in Nat
          /\ status' = [status EXCEPT ![accepted + 1] = "queued"] /\ latest' = latest
      BY <1>1, BoundAssumption, QueueAssumption DEF SubmitAccepted, TypeOK, JobIds
    <2>2. /\ status[accepted + 1] = "absent"
          /\ \A k \in JobIds : k < accepted + 1 => status[k] # "absent"
          /\ \A k \in JobIds : k + MaxQueueSize <= accepted + 1 => status[k] # "queued"
      BY <2>1 DEF QueueHoldsQueued, Begun, JobIds
    <2>3. Board!Accept(accepted + 1)
      BY <2>1, <2>2 DEF Board!Accept
    <2> QED
      BY <2>1, <2>3 DEF Board!BoardNext
  <1>2. ASSUME NEW w \in Workers, Take(w) PROVE Board!BoardNext
    <2>1. /\ queue # <<>> /\ latest' = latest
          /\ status' = [status EXCEPT ![Head(queue)] = "running"]
      BY <1>2 DEF Take
    <2>2. Head(queue) \in JobIds /\ status[Head(queue)] = "queued"
      BY <2>1, HeadIsQueued
    <2>3. Head(queue) = Begun + 1 /\ Begun \in Nat
      BY <2>1, QueueTake, BoundAssumption DEF QueueHoldsQueued, Begun, TypeOK
    <2>4. \A k \in JobIds : k < Head(queue) => status[k] # "queued"
      BY <2>3 DEF QueueHoldsQueued, JobIds
    <2>5. Board!Begin(Head(queue))
      BY <2>1, <2>2, <2>4 DEF Board!Begin
    <2> QED
      BY <2>2, <2>5 DEF Board!BoardNext
  <1>3. ASSUME NEW w \in Workers, Succeed(w) \/ Fail(w) \/ CleanupError(w)
        PROVE  Board!BoardNext
    <2>1. worker[w] = "busy"
      BY <1>3 DEF Succeed, Fail, CleanupError
    <2>2. held[w] \in JobIds /\ status[held[w]] = "running"
      BY <2>1, CompletionFits
    <2>3. Board!Publish(held[w]) \/ Board!GiveUp(held[w])
      BY <1>3, <2>2 DEF Succeed, Fail, CleanupError, Complete, Board!Publish, Board!GiveUp
    <2> QED
      BY <2>2, <2>3 DEF Board!BoardNext
  <1>4. CASE UNCHANGED <<status, latest>>
    BY <1>4
  <1> QED
    BY <1>1, <1>2, <1>3, <1>4, StepCases
       DEF Start, StopBegin, StopEnd, SelfCancel, CancelBusy, CancelIdle, records

(* The manager, with its queue, its workers, its cancellations and its      *)
(* restarts, implements the job board that the evaluation endpoints show.   *)
THEOREM BoardImplemented == Spec => ImplementsJobBoard
  <1>1. Init => Board!BoardInit
    BY DEF Init, Board!BoardInit
  <1> QED
    BY <1>1, Inductive, BoardStep, PTL DEF Spec, ImplementsJobBoard, Board!BoardSpec

(* A job is left RUNNING without a worker only by a worker that ends with   *)
(* it, cancelled by stop() or by its executor; nothing picks it up again.   *)
THEOREM InterruptionsCorrect == Spec => InterruptedOnlyByCancel
  <1> DEFINE Only ==
        \A j \in JobIds :
          /\ ~Interrupted(j) /\ Interrupted(j)' =>
               \E w \in Workers :
                 /\ held[w] = j /\ worker'[w] = "ended"
                 /\ w \in cancelling \/ "self_cancel" \in faults
          /\ Interrupted(j) => Interrupted(j)'
  <1>1. ASSUME IInv, [Next]_vars PROVE Only
    <2> USE <1>1 DEF IInv
    <2>1. CASE SubmitAccepted
      <3>1. accepted + 1 \in JobIds /\ status[accepted + 1] = "absent" /\ held' = held
        BY <2>1, BoundAssumption DEF SubmitAccepted, QueueHoldsQueued, TypeOK, JobIds, pool
      <3> QED
        BY <2>1, <3>1 DEF SubmitAccepted, Interrupted, TypeOK
    <2>2. ASSUME NEW w \in Workers, Take(w) PROVE Only
      <3>1. /\ queue # <<>> /\ worker[w] = "idle"
            /\ status' = [status EXCEPT ![Head(queue)] = "running"]
            /\ held' = [held EXCEPT ![w] = Head(queue)]
        BY <2>2 DEF Take
      <3>2. Head(queue) \in JobIds /\ status[Head(queue)] = "queued"
        BY <3>1, HeadIsQueued
      <3>3. held[w] = NoJob
        BY <3>1 DEF ExclusiveExecution
      <3> QED
        BY <3>1, <3>2, <3>3, NoJobAssumption DEF Interrupted, TypeOK, JobIds
    <2>3. ASSUME NEW w \in Workers, Succeed(w) \/ Fail(w) \/ CleanupError(w) PROVE Only
      <3>1. PICK s \in Terminal :
              /\ status' = [status EXCEPT ![held[w]] = s]
              /\ held' = [held EXCEPT ![w] = NoJob]
              /\ worker[w] = "busy"
        BY <2>3 DEF Succeed, Fail, CleanupError, Complete, Leave, Terminal
      <3>2. held[w] \in JobIds
        BY <3>1, CompletionFits
      <3> QED
        BY <3>1, <3>2, NoJobAssumption DEF Interrupted, TypeOK, Terminal, JobIds
    <2>4. ASSUME NEW w \in Workers, SelfCancel(w) \/ CancelBusy(w) PROVE Only
      <3>1. /\ held' = [held EXCEPT ![w] = NoJob] /\ status' = status
            /\ worker' = [worker EXCEPT ![w] = "ended"]
            /\ w \in cancelling \/ "self_cancel" \in faults
        BY <2>4 DEF SelfCancel, CancelBusy, Leave, records
      <3> QED
        BY <3>1, NoJobAssumption DEF Interrupted, TypeOK, JobIds
    <2>5. CASE UNCHANGED <<status, held>>
      BY <2>5 DEF Interrupted
    <2> QED
      BY <2>1, <2>2, <2>3, <2>4, <2>5, StepCases
         DEF Start, StopBegin, StopEnd, CancelIdle, records
  <1>2. IInv /\ [Next]_vars => [Only]_vars
    BY <1>1
  <1>3. Spec => [][Only]_vars
    BY <1>2, Inductive, PTL DEF Spec
  <1> QED
    BY <1>3 DEF InterruptedOnlyByCancel

=============================================================================
