------------------------- MODULE EvaluationRunner -------------------------
(***************************************************************************)
(* One ablation configuration evaluated by AsyncEvaluationRunner            *)
(* (evaluation/runner.py) again and again in one output directory: runs     *)
(* that fail, are cancelled, crash or are repeated resume from the          *)
(* per-example checkpoints of earlier ones.                                *)
(*                                                                         *)
(* A task of _produce_one is at one of its awaits: "load", "acquire" (the   *)
(* semaphore), "observe", "backoff", or at one of the file operations of    *)
(* _write_atomic in its thread: "open" (which truncates), "write",          *)
(* "replace".  A thread is not cancelled with its task: it goes on when its *)
(* run was stopped.  Threads of two runs in one directory share the         *)
(* temporary name, so a write goes wherever the file it opened is by then.  *)
(***************************************************************************)
EXTENDS Naturals, FiniteSets

CONSTANTS
  Runs,            \* bound: calls of run_configuration
  Examples,        \* the records' example ids
  Scopes,          \* <<dataset fingerprint, configuration fingerprint>>
  MaxConcurrency,  \* EvaluationRunnerConfig.max_concurrency
  MaxAttempts,     \* EvaluationRunnerConfig.max_attempts
  MaxIndex,        \* bound: times the corpus is indexed again
  JobConcurrency,  \* evaluation jobs that execute at the same time
  Missing, Empty, Torn, None

ASSUME SetAssumption ==
  IsFiniteSet(Runs) /\ IsFiniteSet(Examples) /\ Examples # {}
ASSUME LimitAssumption ==
  MaxConcurrency \in Nat \ {0} /\ MaxAttempts \in Nat \ {0} /\ MaxIndex \in Nat
ASSUME JobAssumption == JobConcurrency \in Nat \ {0}

(* What a checkpoint and an observation are told apart by: the fingerprints *)
(* stored in the checkpoint, and the index the provider observed.           *)
Observation == [scope : Scopes, index : 0..MaxIndex]
Content == Observation \cup {Missing, Empty, Torn}

ASSUME MissingAssumption == Missing \notin Observation

VARIABLES
  index,     \* version of the corpus index
  run,       \* "idle", "producing", "evaluating", "tracking", and then
             \* "reported", "failed" or "stopped"
  env,       \* a run's fingerprints and environment.corpus_index_fingerprint
  task,      \* task of a run and an example
  attempt,   \* its attempt
  result,    \* its observation, None if it has none
  resumed,   \* whether the observation came from a checkpoint
  permits,   \* per run: the semaphore
  trial,     \* attempts of _evaluate_with_retry
  file,      \* checkpoints/<config>/<example>.json
  tmp,       \* .<example>.json.tmp
  handle,    \* where the file is that a writing thread opened
  shared,    \* history: two runs once had work on the example under way
  report     \* runs/<config>.json as the run wrote it

vars == <<index, run, env, task, attempt, result, resumed, permits, trial,
          file, tmp, handle, shared, report>>
disk == <<file, tmp, handle>>
rest == <<index, env, trial, report>>

Pairs == Runs \X Examples

-----------------------------------------------------------------------------

Init ==
  /\ index = 0
  /\ run = [r \in Runs |-> "idle"]
  /\ env \in [Runs -> [scope : Scopes, index : {0}]]
  /\ task = [p \in Pairs |-> "none"]
  /\ attempt = [p \in Pairs |-> 0]
  /\ result = [p \in Pairs |-> None]
  /\ resumed = [p \in Pairs |-> FALSE]
  /\ permits = [r \in Runs |-> MaxConcurrency]
  /\ trial = [r \in Runs |-> 1]
  /\ file = [e \in Examples |-> Missing]
  /\ tmp = [e \in Examples |-> Missing]
  /\ handle = [p \in Pairs |-> "none"]
  /\ shared = [e \in Examples |-> FALSE]
  /\ report = [r \in Runs |-> None]

Active(r) == run[r] \in {"producing", "evaluating", "tracking"}

StartRun(r) ==
  /\ run[r] = "idle"
  /\ Cardinality({q \in Runs : Active(q)}) < JobConcurrency
  /\ run' = [run EXCEPT ![r] = "producing"]
  /\ env' = [env EXCEPT ![r].index = index]
  /\ task' = [p \in Pairs |-> IF p[1] = r THEN "load" ELSE task[p]]
  /\ UNCHANGED <<index, attempt, result, resumed, permits, trial, disk,
                 shared, report>>

At(p, t) == run[p[1]] = "producing" /\ task[p] = t

Move(p, t) == task' = [task EXCEPT ![p] = t]

(* Work that may still end in a write of the example's checkpoint.          *)
UnderWay(p) ==
  task[p] \in {"acquire", "observe", "backoff", "open", "write", "replace"}

Begin(p) ==
  /\ Move(p, "acquire")
  /\ attempt' = [attempt EXCEPT ![p] = 1]
  /\ shared' = [shared EXCEPT ![p[2]] =
                  @ \/ \E q \in Pairs : q # p /\ q[2] = p[2] /\ UnderWay(q)]

(* Faulty variant: an existing checkpoint is not looked for.                *)
LoadMissing_NeverResumes(p) ==
  /\ At(p, "load")
  /\ Begin(p)
  /\ UNCHANGED <<rest, run, result, resumed, permits, disk>>

LoadMissing(p) ==
  /\ At(p, "load") /\ file[p[2]] = Missing
  /\ Begin(p)
  /\ UNCHANGED <<rest, run, result, resumed, permits, disk>>

(* Faulty variant: the fingerprints are not compared.                       *)
Matches_AnyScope(p) == file[p[2]] \in Observation

(* Faulty variant: a checkpoint that is not valid JSON is taken as it is.   *)
Matches_Unvalidated(p) ==
  /\ file[p[2]] # Missing
  /\ file[p[2]] \in Observation => file[p[2]].scope = env[p[1]].scope

Matches(p) ==
  /\ file[p[2]] \in Observation
  /\ file[p[2]].scope = env[p[1]].scope

(* A checkpoint whose fingerprints agree replaces the observation.          *)
LoadResume(p) ==
  /\ At(p, "load") /\ Matches(p)
  /\ Move(p, "done")
  /\ result' = [result EXCEPT ![p] = file[p[2]]]
  /\ resumed' = [resumed EXCEPT ![p] = TRUE]
  /\ UNCHANGED <<rest, run, attempt, permits, disk, shared>>

(* Invalid JSON or another fingerprint: the example fails, with no retry.   *)
LoadReject(p) ==
  /\ At(p, "load") /\ file[p[2]] # Missing /\ ~Matches(p)
  /\ Move(p, "done")
  /\ UNCHANGED <<rest, run, attempt, result, resumed, permits, disk, shared>>

Acquire(p) ==
  /\ At(p, "acquire") /\ permits[p[1]] > 0
  /\ Move(p, "observe")
  /\ permits' = [permits EXCEPT ![p[1]] = @ - 1]
  /\ UNCHANGED <<rest, run, attempt, result, resumed, disk, shared>>

Release(p) == permits' = [permits EXCEPT ![p[1]] = @ + 1]

(* Faulty variant: the example is done before its checkpoint is saved.      *)
ObserveOk_SkipsSave(p) ==
  /\ At(p, "observe")
  /\ Move(p, "done")
  /\ Release(p)
  /\ result' = [result EXCEPT ![p] = [scope |-> env[p[1]].scope, index |-> index]]
  /\ UNCHANGED <<rest, run, attempt, resumed, disk, shared>>

(* observe() answered with the record's example unchanged.                  *)
ObserveOk(p) ==
  /\ At(p, "observe")
  /\ Move(p, "open")
  /\ Release(p)
  /\ result' = [result EXCEPT ![p] = [scope |-> env[p[1]].scope, index |-> index]]
  /\ UNCHANGED <<rest, run, attempt, resumed, disk, shared>>

(* The except clause of the attempt loop.                                   *)
Retry(p) ==
  /\ Move(p, IF attempt[p] < MaxAttempts THEN "backoff" ELSE "done")
  /\ result' = [result EXCEPT ![p] = None]

(* observe() raised, or changed the example payload.                        *)
ObserveFails(p) ==
  /\ At(p, "observe")
  /\ Retry(p)
  /\ Release(p)
  /\ UNCHANGED <<rest, run, attempt, resumed, disk, shared>>

(* Faulty variant: the attempt is not counted.                              *)
Backoff_NotCounted(p) ==
  /\ At(p, "backoff")
  /\ Move(p, "acquire")
  /\ UNCHANGED <<rest, run, attempt, result, resumed, permits, disk, shared>>

Backoff(p) ==
  /\ At(p, "backoff")
  /\ Move(p, "acquire")
  /\ attempt' = [attempt EXCEPT ![p] = @ + 1]
  /\ UNCHANGED <<rest, run, result, resumed, permits, disk, shared>>

(* Faulty variant: the checkpoint itself is opened, with no temporary name. *)
Open_InPlace(p) ==
  /\ task[p] = "open"
  /\ Move(p, "write")
  /\ file' = [file EXCEPT ![p[2]] = Empty]
  /\ handle' = [handle EXCEPT ![p] = "file"]
  /\ UNCHANGED <<rest, run, attempt, result, resumed, permits, tmp, shared>>

Open(p) ==
  /\ task[p] = "open"
  /\ Move(p, "write")
  /\ tmp' = [tmp EXCEPT ![p[2]] = Empty]
  /\ handle' = [handle EXCEPT ![p] = "tmp"]
  /\ UNCHANGED <<rest, run, attempt, result, resumed, permits, file, shared>>

(* Writing over what another thread wrote leaves the longer one's tail.     *)
Written(old, new) == IF old = Empty THEN {new} ELSE {new, Torn}

Write(p) ==
  /\ task[p] = "write"
  /\ Move(p, "replace")
  /\ handle' = [handle EXCEPT ![p] = "none"]
  /\ CASE handle[p] = "tmp" ->
            /\ \E c \in Written(tmp[p[2]], result[p]) : tmp' = [tmp EXCEPT ![p[2]] = c]
            /\ UNCHANGED file
       [] handle[p] = "file" ->
            /\ \E c \in Written(file[p[2]], result[p]) : file' = [file EXCEPT ![p[2]] = c]
            /\ UNCHANGED tmp
       [] OTHER -> UNCHANGED <<file, tmp>>
  /\ UNCHANGED <<rest, run, attempt, result, resumed, permits, shared>>

Moved(h) == CASE h = "tmp" -> "file" [] h = "file" -> "gone" [] OTHER -> h

(* os.replace: the temporary name is gone for every other thread.           *)
Replace(p) ==
  /\ task[p] = "replace" /\ tmp[p[2]] # Missing
  /\ Move(p, "done")
  /\ file' = [file EXCEPT ![p[2]] = tmp[p[2]]]
  /\ tmp' = [tmp EXCEPT ![p[2]] = Missing]
  /\ handle' = [q \in Pairs |-> IF q[2] = p[2] THEN Moved(handle[q]) ELSE handle[q]]
  /\ UNCHANGED <<rest, run, attempt, result, resumed, permits, shared>>

(* FileNotFoundError from replace(), or an OSError of any operation.  Nobody *)
(* hears of it when the run was stopped.                                    *)
SaveFails(p) ==
  /\ task[p] \in {"open", "write", "replace"}
  /\ IF run[p[1]] = "producing" THEN Retry(p)
     ELSE Move(p, "done") /\ UNCHANGED result
  /\ handle' = [handle EXCEPT ![p] = "none"]
  /\ UNCHANGED <<rest, run, attempt, resumed, permits, file, tmp, shared>>

Gathered(r) == run[r] = "producing" /\ \A e \in Examples : task[<<r, e>>] = "done"

(* gather() returned every outcome; one error fails the configuration.      *)
Gather(r) ==
  /\ Gathered(r)
  /\ run' = [run EXCEPT ![r] = IF \E e \in Examples : result[<<r, e>>] = None
                               THEN "failed" ELSE "evaluating"]
  /\ UNCHANGED <<rest, task, attempt, result, resumed, permits, disk, shared>>

(* run_id and report carry the run's own environment.                       *)
ReportOf(r) ==
  [scope |-> env[r].scope, index |-> env[r].index,
   observed |-> [e \in Examples |-> result[<<r, e>>]],
   resumed |-> Cardinality({e \in Examples : resumed[<<r, e>>]}),
   produced |-> Cardinality({e \in Examples : ~resumed[<<r, e>>]})]

(* The engine evaluated, and the report was written.                        *)
EvaluateOk(r) ==
  /\ run[r] = "evaluating"
  /\ run' = [run EXCEPT ![r] = "tracking"]
  /\ report' = [report EXCEPT ![r] = ReportOf(r)]
  /\ UNCHANGED <<index, env, trial, task, attempt, result, resumed, permits,
                 disk, shared>>

EvaluateFails(r) ==
  /\ run[r] = "evaluating"
  /\ IF trial[r] < MaxAttempts
       THEN trial' = [trial EXCEPT ![r] = @ + 1] /\ UNCHANGED run
       ELSE run' = [run EXCEPT ![r] = "failed"] /\ UNCHANGED trial
  /\ UNCHANGED <<index, env, report, task, attempt, result, resumed, permits,
                 disk, shared>>

(* The failure taxonomy or the write of the report raised: not retried.     *)
ReportFails(r) ==
  /\ run[r] = "evaluating"
  /\ run' = [run EXCEPT ![r] = "failed"]
  /\ UNCHANGED <<rest, task, attempt, result, resumed, permits, disk, shared>>

(* The tracker logged the metrics, or raised after the report was written.  *)
Track(r) ==
  /\ run[r] = "tracking"
  /\ \E s \in {"reported", "failed"} : run' = [run EXCEPT ![r] = s]
  /\ UNCHANGED <<rest, task, attempt, result, resumed, permits, disk, shared>>

-----------------------------------------------------------------------------
(* Environment                                                              *)

Thread(p) == task[p] \in {"open", "write", "replace"}

(* Coroutines end, and what they held goes with them.                       *)
Forget(S) ==
  /\ task' = [p \in Pairs |-> IF p \in S THEN "done" ELSE task[p]]
  /\ attempt' = [p \in Pairs |-> IF p \in S THEN 0 ELSE attempt[p]]
  /\ result' = [p \in Pairs |-> IF p \in S THEN None ELSE result[p]]
  /\ resumed' = [p \in Pairs |-> p \notin S /\ resumed[p]]

(* EvaluationJobManager.stop: CancelledError at whichever await the run is. *)
(* A thread that writes goes on, one that was not started yet may be        *)
(* dropped; so the report may be written or not, too.                       *)
Cancel(r) ==
  /\ Active(r)
  /\ run' = [run EXCEPT ![r] = "stopped"]
  /\ permits' = [permits EXCEPT ![r] = MaxConcurrency]
  /\ \E dropped \in SUBSET {p \in Pairs : p[1] = r /\ task[p] = "open"} :
       Forget({p \in Pairs : p[1] = r /\ (Thread(p) => p \in dropped)})
  /\ \/ UNCHANGED report
     \/ run[r] = "evaluating" /\ report' = [report EXCEPT ![r] = ReportOf(r)]
  /\ UNCHANGED <<index, env, trial, disk, shared>>

(* The process dies between any two steps, with all its threads; its        *)
(* temporary files stay.                                                    *)
Crash ==
  /\ (\E r \in Runs : Active(r)) \/ (\E p \in Pairs : Thread(p))
  /\ run' = [r \in Runs |-> IF Active(r) THEN "stopped" ELSE run[r]]
  /\ permits' = [r \in Runs |-> MaxConcurrency]
  /\ Forget({p \in Pairs : Active(p[1]) \/ Thread(p)})
  /\ handle' = [p \in Pairs |-> "none"]
  /\ UNCHANGED <<rest, file, tmp, shared>>

(* The corpus is not indexed again under a run: what a report then says of  *)
(* the index is not the code's doing.                                      *)
Reindex ==
  /\ index < MaxIndex /\ \A r \in Runs : ~Active(r)
  /\ index' = index + 1
  /\ UNCHANGED <<run, env, task, attempt, result, resumed, permits, trial,
                 disk, shared, report>>

(* "delete stale checkpoint": what a fingerprint mismatch asks for.         *)
DeleteStale(e) ==
  /\ file[e] # Missing /\ \A r \in Runs : ~Active(r)
  /\ file' = [file EXCEPT ![e] = Missing]
  /\ handle' = [q \in Pairs |-> IF q[2] = e /\ handle[q] = "file"
                                THEN "gone" ELSE handle[q]]
  /\ UNCHANGED <<rest, run, task, attempt, result, resumed, permits, tmp, shared>>

TaskStep(p) ==
  \/ LoadMissing(p) \/ LoadResume(p) \/ LoadReject(p)
  \/ Acquire(p) \/ ObserveOk(p) \/ ObserveFails(p) \/ Backoff(p)
  \/ Open(p) \/ Write(p) \/ Replace(p) \/ SaveFails(p)

RunStep(r) ==
  Gather(r) \/ EvaluateOk(r) \/ EvaluateFails(r) \/ ReportFails(r) \/ Track(r)

Next ==
  \/ \E r \in Runs : StartRun(r) \/ RunStep(r)
  \/ \E p \in Pairs : TaskStep(p)
  \/ \E r \in Runs : Cancel(r)
  \/ Crash \/ Reindex
  \/ \E e \in Examples : DeleteStale(e)

Spec == Init /\ [][Next]_vars

(* The loop runs ready tasks, threads finish, observe() answers or raises.  *)
FairSpec ==
  /\ Spec
  /\ \A p \in Pairs : WF_vars(TaskStep(p))
  /\ \A r \in Runs : WF_vars(RunStep(r))

-----------------------------------------------------------------------------

TypeOK ==
  /\ index \in 0..MaxIndex
  /\ run \in [Runs -> {"idle", "producing", "evaluating", "tracking", "reported",
                       "failed", "stopped"}]
  /\ env \in [Runs -> Observation]
  /\ task \in [Pairs -> {"none", "load", "acquire", "observe", "backoff", "open",
                         "write", "replace", "done"}]
  /\ attempt \in [Pairs -> 0..MaxAttempts]
  /\ result \in [Pairs -> Observation \cup {None}]
  /\ resumed \in [Pairs -> BOOLEAN]
  /\ permits \in [Runs -> 0..MaxConcurrency]
  /\ trial \in [Runs -> 1..MaxAttempts]
  /\ file \in [Examples -> Content]
  /\ tmp \in [Examples -> Content]
  /\ handle \in [Pairs -> {"none", "tmp", "file", "gone"}]
  /\ shared \in [Examples -> BOOLEAN]
  /\ \A r \in Runs : report[r] # None =>
       report[r].observed \in [Examples -> Observation]

(* phase-12-report.md: "Each completed observation is stored as an atomic   *)
(* JSON checkpoint".  Whatever happens, a checkpoint is a whole observation *)
(* or is not there.                                                         *)
CheckpointsIntact == \A e \in Examples : file[e] \in Observation \cup {Missing}

(* What holds of it: wherever runs failed, were cancelled or died, and       *)
(* whatever they left under the temporary name, only an example that two     *)
(* runs worked on at once, one of them maybe the thread of a cancelled run,  *)
(* can have lost its checkpoint to a tear.                                  *)
TornOnlyIfShared ==
  \A e \in Examples : shared[e] \/ file[e] \in Observation \cup {Missing}

(* An example counts as produced only after its checkpoint is on disk, so   *)
(* a run that fails for other examples has still kept it, unless another    *)
(* run worked on it at the same time.                                       *)
SuccessIsDurable ==
  \A p \in Pairs :
    At(p, "done") /\ result[p] # None /\ ~shared[p[2]] => file[p[2]] = result[p]

(* A report covers every example with an observation of its own dataset     *)
(* and configuration, however many runs contributed them.                   *)
ReportsOneScope ==
  \A r \in Runs : report[r] # None =>
    /\ \A e \in Examples : report[r].observed[e].scope = report[r].scope
    /\ report[r].resumed + report[r].produced = Cardinality(Examples)

(* README.md: "Evaluation checkpoints resume without re-producing completed *)
(* examples".  The provider is called only for an example that has no       *)
(* checkpoint at that moment, unless another run worked on it at once.      *)
NeverReproduced ==
  [][\A p \in Pairs :
       task[p] # "observe" /\ task'[p] = "observe" =>
         shared[p[2]] \/ file[p[2]] = Missing]_vars

(* phase-12-report.md: a failed run can "resume completed examples without  *)
(* silently mixing incompatible evidence".  What a report says it observed  *)
(* was observed on the corpus index that its run_id names.                  *)
ReportsOneIndex ==
  \A r \in Runs : report[r] # None =>
    \A e \in Examples : report[r].observed[e].index = report[r].index

(* Even when overlapping runs tear a checkpoint, the tear is refused when    *)
(* it is loaded: nothing but a whole observation is ever evaluated.         *)
TornIsNeverEvaluated ==
  \A r \in Runs : run[r] \in {"evaluating", "tracking", "reported"} =>
    \A e \in Examples : result[<<r, e>>] \in Observation

(* A run that is not killed ends.                                           *)
RunsEnd ==
  \A r \in Runs : Active(r) ~> run[r] \in {"reported", "failed", "stopped"}

=============================================================================
