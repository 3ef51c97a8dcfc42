---------------------- MODULE EvaluationRunner_proofs ----------------------
(***************************************************************************)
(* Proofs about EvaluationRunner for every set of runs, examples and        *)
(* fingerprints, every number of attempts, permits and jobs at the same     *)
(* time, with cancellations, whose threads go on, and crashes at every step. *)
(***************************************************************************)
EXTENDS EvaluationRunner, FiniteSetTheorems, TLAPS

Report == [scope : Scopes, index : 0..MaxIndex, observed : [Examples -> Observation],
           resumed : Nat, produced : Nat]

Types ==
  /\ index \in 0..MaxIndex
  /\ run \in [Runs -> {"idle", "producing", "evaluating", "tracking", "reported",
                       "failed", "stopped"}]
  /\ env \in [Runs -> Observation]
  /\ task \in [Pairs -> {"none", "load", "acquire", "observe", "backoff", "open",
                         "write", "replace", "done"}]
  /\ result \in [Pairs -> Observation \cup {None}]
  /\ resumed \in [Pairs -> BOOLEAN]
  /\ file \in [Examples -> Content]
  /\ tmp \in [Examples -> Content]
  /\ handle \in [Pairs -> {"none", "tmp", "file", "gone"}]
  /\ shared \in [Examples -> BOOLEAN]
  /\ report \in [Runs -> Report \cup {None}]

(* An observation carries the fingerprints of the run it is in.             *)
OwnScope ==
  \A p \in Pairs : result[p] # None =>
    result[p] \in Observation /\ result[p].scope = env[p[1]].scope

(* A task has an observation when it saves, and nothing before it observed. *)
Progress ==
  \A p \in Pairs :
    /\ task[p] \in {"none", "load", "acquire", "observe", "backoff"} => result[p] = None
    /\ task[p] \in {"open", "write", "replace"} => result[p] \in Observation
    /\ run[p[1]] = "idle" => task[p] = "none"
    /\ run[p[1]] \in {"evaluating", "tracking", "reported"} => task[p] = "done"

(* What a run evaluates is its own.                                        *)
Evaluable ==
  \A r \in Runs : run[r] \in {"evaluating", "tracking"} =>
    \A e \in Examples : result[<<r, e>>].scope = env[r].scope

IInv ==
  /\ Types /\ OwnScope /\ Progress /\ Evaluable
  /\ TornIsNeverEvaluated /\ ReportsOneScope

-----------------------------------------------------------------------------
(* The steps of a task                                                      *)

LEMMA TaskStepTypes ==
  ASSUME IInv, NEW p \in Pairs, TaskStep(p)
  PROVE  Types'
<1>0. p[1] \in Runs /\ p[2] \in Examples
  BY DEF Pairs
<1> USE <1>0 DEF IInv
<1>1. CASE LoadMissing(p)
  BY <1>1 DEF LoadMissing, Begin, At, Move, Types, Content, Observation, rest, disk
<1>2. CASE LoadResume(p)
  BY <1>2 DEF LoadResume, At, Move, Matches, Types, Content, Observation, rest, disk
<1>3. CASE LoadReject(p)
  BY <1>3 DEF LoadReject, At, Move, Types, Content, Observation, rest, disk
<1>4. CASE Acquire(p)
  BY <1>4 DEF Acquire, At, Move, Types, Content, Observation, rest, disk
<1>5. CASE ObserveOk(p)
  BY <1>5 DEF ObserveOk, At, Move, Release, Types, Content, Observation, rest, disk
<1>6. CASE ObserveFails(p)
  BY <1>6 DEF ObserveFails, At, Move, Retry, Release, Types, Content, Observation, rest, disk
<1>7. CASE Backoff(p)
  BY <1>7 DEF Backoff, At, Move, Types, Content, Observation, rest, disk
<1>8. CASE Open(p)
  BY <1>8 DEF Open, At, Move, Types, Content, Observation, rest, disk
<1>9. CASE Write(p)
  <2>1. result[p] \in Content
    BY <1>9 DEF Write, At, Progress, Content
  <2>2. file' \in [Examples -> Content] /\ tmp' \in [Examples -> Content]
    <3>1. CASE handle[p] = "tmp"
      BY <1>9, <2>1, <3>1 DEF Write, Written, Types, Content
    <3>2. CASE handle[p] = "file"
      BY <1>9, <2>1, <3>2 DEF Write, Written, Types, Content
    <3>3. CASE handle[p] \notin {"tmp", "file"}
      BY <1>9, <3>3 DEF Write, Types
    <3> QED
      BY <3>1, <3>2, <3>3
  <2> QED
    BY <1>9, <2>2 DEF Write, At, Move, Types, rest
<1>10. CASE Replace(p)
  BY <1>10 DEF Replace, At, Move, Moved, Types, Content, Observation, rest, disk
<1>11. CASE SaveFails(p)
  BY <1>11 DEF SaveFails, At, Move, Retry, Types, Content, Observation, rest, disk
<1> QED
  BY <1>1, <1>2, <1>3, <1>4, <1>5, <1>6, <1>7, <1>8, <1>9, <1>10, <1>11 DEF TaskStep

LEMMA TaskStepResults ==
  ASSUME IInv, NEW p \in Pairs, TaskStep(p)
  PROVE  /\ OwnScope' /\ Progress'
         /\ run[p[1]] \notin {"evaluating", "tracking", "reported"}
         /\ UNCHANGED <<rest, run>>
         /\ \A q \in Pairs \ {p} : result'[q] = result[q] /\ task'[q] = task[q]
<1>0. p[1] \in Runs /\ p[2] \in Examples
  BY DEF Pairs
<1> USE <1>0 DEF IInv
<1>1. CASE LoadMissing(p)
  BY <1>1 DEF LoadMissing, Begin, At, Move, Types, OwnScope, Progress, Observation, rest, disk
<1>2. CASE LoadResume(p)
  BY <1>2 DEF LoadResume, At, Move, Matches, Types, OwnScope, Progress, Observation, rest, disk
<1>3. CASE LoadReject(p)
  BY <1>3 DEF LoadReject, At, Move, Types, OwnScope, Progress, Observation, rest, disk
<1>4. CASE Acquire(p)
  BY <1>4 DEF Acquire, At, Move, Types, OwnScope, Progress, Observation, rest, disk
<1>5. CASE ObserveOk(p)
  BY <1>5 DEF ObserveOk, At, Move, Release, Types, OwnScope, Progress, Observation, rest, disk
<1>6. CASE ObserveFails(p)
  BY <1>6 DEF ObserveFails, At, Move, Retry, Release, Types, OwnScope, Progress, Observation, rest, disk
<1>7. CASE Backoff(p)
  BY <1>7 DEF Backoff, At, Move, Types, OwnScope, Progress, Observation, rest, disk
<1>8. CASE Open(p)
  BY <1>8 DEF Open, At, Move, Types, OwnScope, Progress, Observation, rest, disk
<1>9. CASE Write(p)
  BY <1>9 DEF Write, At, Move, Written, Types, OwnScope, Progress, Observation, rest, disk
<1>10. CASE Replace(p)
  BY <1>10 DEF Replace, At, Move, Moved, Types, OwnScope, Progress, Observation, rest, disk
<1>11. CASE SaveFails(p)
  BY <1>11 DEF SaveFails, At, Move, Retry, Types, OwnScope, Progress, Observation, rest, disk
<1> QED
  BY <1>1, <1>2, <1>3, <1>4, <1>5, <1>6, <1>7, <1>8, <1>9, <1>10, <1>11 DEF TaskStep

LEMMA TaskStepIInv ==
  ASSUME IInv, NEW p \in Pairs, TaskStep(p)
  PROVE  IInv'
<1>1. Types' /\ OwnScope' /\ Progress'
  BY TaskStepTypes, TaskStepResults
<1>2. TornIsNeverEvaluated' /\ Evaluable'
  <2> SUFFICES ASSUME NEW r \in Runs, run'[r] \in {"evaluating", "tracking", "reported"},
                      NEW e \in Examples
               PROVE  /\ result'[<<r, e>>] \in Observation
                      /\ run'[r] \in {"evaluating", "tracking"} =>
                           result'[<<r, e>>].scope = env'[r].scope
    BY DEF TornIsNeverEvaluated, Evaluable
  <2>1. run[p[1]] \notin {"evaluating", "tracking", "reported"} /\ run' = run
    BY TaskStepResults
  <2>2. <<r, e>> \in Pairs \ {p}
    BY <2>1 DEF Pairs
  <2> QED
    BY <2>1, <2>2, TaskStepResults DEF IInv, TornIsNeverEvaluated, Evaluable, rest
<1>3. ReportsOneScope'
  BY TaskStepResults DEF IInv, ReportsOneScope, rest
<1> QED
  BY <1>1, <1>2, <1>3 DEF IInv

-----------------------------------------------------------------------------
(* The steps of a run, and the environment                                  *)

(* What was resumed and what was produced make up the examples.             *)
LEMMA ResumedOrProduced ==
  ASSUME NEW r \in Runs
  PROVE  LET S == {e \in Examples : resumed[<<r, e>>]}
             T == {e \in Examples : ~resumed[<<r, e>>]}
         IN  /\ Cardinality(S) \in Nat /\ Cardinality(T) \in Nat
             /\ Cardinality(S) + Cardinality(T) = Cardinality(Examples)
<1> DEFINE S == {e \in Examples : resumed[<<r, e>>]}
           T == {e \in Examples : ~resumed[<<r, e>>]}
<1>1. IsFiniteSet(S) /\ IsFiniteSet(T)
  BY SetAssumption, FS_Subset
<1>2. S \cup T = Examples /\ S \cap T = {}
  OBVIOUS
<1>3. Cardinality(S) \in Nat /\ Cardinality(T) \in Nat /\ Cardinality(S \cap T) = 0
  BY <1>1, <1>2, FS_CardinalityType, FS_EmptySet
<1>4. Cardinality(S \cup T) = Cardinality(S) + Cardinality(T) - Cardinality(S \cap T)
  BY <1>1, FS_Union
<1> HIDE DEF S, T
<1>5. Cardinality(S) + Cardinality(T) = Cardinality(Examples)
  BY <1>2, <1>3, <1>4
<1> QED
  BY <1>3, <1>5 DEF S, T

(* What a run that evaluates may report.                                    *)
LEMMA ReportIsOwn ==
  ASSUME IInv, NEW r \in Runs, run[r] = "evaluating"
  PROVE  /\ ReportOf(r) \in Report
         /\ \A e \in Examples : ReportOf(r).observed[e].scope = ReportOf(r).scope
         /\ ReportOf(r).resumed + ReportOf(r).produced = Cardinality(Examples)
<1> USE DEF IInv
<1>1. \A e \in Examples : result[<<r, e>>] \in Observation
  BY DEF TornIsNeverEvaluated
<1>2. \A e \in Examples : result[<<r, e>>].scope = env[r].scope
  BY DEF Evaluable
<1>3. /\ ReportOf(r).resumed \in Nat /\ ReportOf(r).produced \in Nat
      /\ ReportOf(r).resumed + ReportOf(r).produced = Cardinality(Examples)
  BY ResumedOrProduced DEF ReportOf
<1>4. ReportOf(r) \in Report
  BY <1>1, <1>3 DEF ReportOf, Report, Types, Observation
<1>5. \A e \in Examples : ReportOf(r).observed[e].scope = ReportOf(r).scope
  BY <1>2 DEF ReportOf
<1> QED
  BY <1>3, <1>4, <1>5

LEMMA EvaluateOkIInv ==
  ASSUME IInv, NEW r \in Runs, EvaluateOk(r)
  PROVE  IInv'
<1> USE DEF IInv
<1>1. /\ run[r] = "evaluating" /\ run' = [run EXCEPT ![r] = "tracking"]
      /\ report' = [report EXCEPT ![r] = ReportOf(r)]
      /\ UNCHANGED <<index, env, trial, task, attempt, result, resumed, permits, disk, shared>>
  BY DEF EvaluateOk
<1>2. Types'
  BY <1>1, ReportIsOwn DEF Types, disk
<1>3. OwnScope' /\ Progress'
  BY <1>1 DEF OwnScope, Progress, Types
<1>4. TornIsNeverEvaluated' /\ Evaluable'
  BY <1>1 DEF TornIsNeverEvaluated, Evaluable, Types
<1>5. ReportsOneScope'
  BY <1>1, ReportIsOwn DEF ReportsOneScope, Types
<1> QED
  BY <1>2, <1>3, <1>4, <1>5

LEMMA RunStepIInv ==
  ASSUME IInv, NEW r \in Runs, StartRun(r) \/ RunStep(r)
  PROVE  IInv'
<1> USE DEF IInv
<1>1. CASE StartRun(r)
  <2>1. Types'
    BY <1>1 DEF StartRun, Types, Observation, Pairs, disk
  <2>2. OwnScope'
    <3>1. \A q \in Runs : env'[q].scope = env[q].scope
      BY <1>1 DEF StartRun, Types, Observation
    <3> QED
      BY <1>1, <3>1 DEF StartRun, OwnScope, Pairs
  <2>3. Progress'
    BY <1>1 DEF StartRun, Types, Progress, Pairs
  <2>4. TornIsNeverEvaluated' /\ ReportsOneScope' /\ Evaluable'
    BY <1>1 DEF StartRun, Types, TornIsNeverEvaluated, ReportsOneScope, Evaluable
  <2> QED
    BY <2>1, <2>2, <2>3, <2>4
<1>2. CASE Gather(r)
  <2>1. Types'
    BY <1>2 DEF Gather, Types, rest, disk
  <2>2. OwnScope' /\ Progress' /\ ReportsOneScope'
    BY <1>2 DEF Gather, Gathered, Types, OwnScope, Progress, ReportsOneScope, Pairs, rest
  <2>3. TornIsNeverEvaluated' /\ Evaluable'
    BY <1>2, ZenonT(60) DEF Gather, Types, TornIsNeverEvaluated, Evaluable, OwnScope, Pairs, rest
  <2> QED
    BY <2>1, <2>2, <2>3
<1>3. CASE EvaluateOk(r)
  BY <1>3, EvaluateOkIInv
<1>4. CASE EvaluateFails(r) \/ ReportFails(r) \/ Track(r)
  <2>1. PICK s \in {"evaluating", "failed", "reported"} :
          /\ run' = [run EXCEPT ![r] = s]
          /\ run[r] \in {"evaluating", "tracking"}
    BY <1>4 DEF EvaluateFails, ReportFails, Track, Types
  <2>2. UNCHANGED <<index, env, report, task, attempt, result, resumed, permits, disk, shared>>
    BY <1>4 DEF EvaluateFails, ReportFails, Track, rest
  <2>3. Types'
    BY <2>1, <2>2 DEF Types, disk
  <2>4. OwnScope' /\ Progress' /\ ReportsOneScope'
    BY <2>1, <2>2 DEF Types, OwnScope, Progress, ReportsOneScope
  <2>5. TornIsNeverEvaluated' /\ Evaluable'
    BY <2>1, <2>2 DEF Types, TornIsNeverEvaluated, Evaluable
  <2> QED
    BY <2>3, <2>4, <2>5
<1> QED
  BY <1>1, <1>2, <1>3, <1>4 DEF RunStep

(* Coroutines that end leave nothing that an invariant speaks of.           *)
LEMMA ForgetIInv ==
  ASSUME Types, OwnScope, Progress, NEW S, Forget(S), UNCHANGED env,
         \A r \in Runs : run'[r] = "stopped" \/ run'[r] = run[r]
  PROVE  /\ task' \in [Pairs -> {"none", "load", "acquire", "observe", "backoff", "open",
                                 "write", "replace", "done"}]
         /\ result' \in [Pairs -> Observation \cup {None}]
         /\ resumed' \in [Pairs -> BOOLEAN]
         /\ OwnScope'
         /\ (\A p \in S \cap Pairs : run'[p[1]] # "idle") => Progress'
<1>1. \A p \in Pairs : /\ p[1] \in Runs
                       /\ p \in S => task'[p] = "done" /\ result'[p] = None
                       /\ p \notin S => task'[p] = task[p] /\ result'[p] = result[p]
  BY DEF Forget, Pairs
<1>2. OwnScope'
  BY <1>1 DEF OwnScope
<1>3. ASSUME \A p \in S \cap Pairs : run'[p[1]] # "idle" PROVE Progress'
  BY <1>1, <1>3 DEF Progress
<1> QED
  BY <1>2, <1>3 DEF Forget, Types

LEMMA StopIInv ==
  ASSUME IInv, (\E r \in Runs : Cancel(r)) \/ Crash
  PROVE  IInv'
<1> USE DEF IInv
<1>1. ASSUME NEW r \in Runs, Cancel(r) PROVE IInv'
  <2>1. PICK dropped \in SUBSET {p \in Pairs : p[1] = r /\ task[p] = "open"} :
          Forget({p \in Pairs : p[1] = r /\ (Thread(p) => p \in dropped)})
    BY <1>1 DEF Cancel
  <2>2. /\ Active(r) /\ run' = [run EXCEPT ![r] = "stopped"]
        /\ UNCHANGED <<index, env, file, tmp, handle, shared>>
        /\ \/ UNCHANGED report
           \/ run[r] = "evaluating" /\ report' = [report EXCEPT ![r] = ReportOf(r)]
    BY <1>1 DEF Cancel, disk
  <2>3. \A q \in Runs : run'[q] = IF q = r THEN "stopped" ELSE run[q]
    BY <2>2 DEF Types
  <2> DEFINE S == {p \in Pairs : p[1] = r /\ (Thread(p) => p \in dropped)}
  <2>4. \A p \in S \cap Pairs : run'[p[1]] # "idle"
    BY <2>3
  <2>5. Forget(S)
    BY <2>1
  <2>6. \A q \in Runs \ {r} : \A e \in Examples : result'[<<q, e>>] = result[<<q, e>>]
    BY <2>5 DEF Forget, Pairs
  <2> HIDE DEF S
  <2>7. OwnScope' /\ Progress'
    BY <2>2, <2>3, <2>4, <2>5, ForgetIInv
  <2>8. Types'
    <3>1. report' \in [Runs -> Report \cup {None}]
      BY <2>2, ReportIsOwn DEF Types
    <3>2. run' \in [Runs -> {"idle", "producing", "evaluating", "tracking", "reported",
                             "failed", "stopped"}]
      BY <2>2 DEF Types
    <3> QED
      BY <2>2, <2>3, <2>5, <3>1, <3>2, ForgetIInv DEF Types
  <2>9. TornIsNeverEvaluated' /\ Evaluable'
    BY <2>2, <2>3, <2>6 DEF TornIsNeverEvaluated, Evaluable
  <2>10. ReportsOneScope'
    BY <2>2, ReportIsOwn DEF ReportsOneScope, Types
  <2> QED
    BY <2>7, <2>8, <2>9, <2>10
<1>2. CASE Crash
  <2> DEFINE S == {p \in Pairs : Active(p[1]) \/ Thread(p)}
  <2>1. /\ \A r \in Runs : run'[r] = IF Active(r) THEN "stopped" ELSE run[r]
        /\ run' \in [Runs -> {"idle", "producing", "evaluating", "tracking", "reported",
                              "failed", "stopped"}]
        /\ UNCHANGED <<index, env, report, file, tmp, shared>> /\ Forget(S)
        /\ handle' = [p \in Pairs |-> "none"]
    BY <1>2 DEF Crash, Types, rest
  <2>2. \A p \in S \cap Pairs : run'[p[1]] # "idle"
    BY <2>1 DEF Active, Thread, Progress, Pairs
  <2> HIDE DEF S
  <2>3. OwnScope' /\ Progress'
    BY <2>1, <2>2, ForgetIInv
  <2>4. Types'
    BY <2>1, ForgetIInv DEF Types
  <2>5. \A r \in Runs : run'[r] \in {"evaluating", "tracking", "reported"} =>
          run[r] = "reported" /\ run'[r] = "reported"
    BY <2>1 DEF Active
  <2>6. ASSUME NEW r \in Runs, run[r] = "reported", NEW e \in Examples
        PROVE  result'[<<r, e>>] = result[<<r, e>>]
    <3>1. <<r, e>> \in Pairs /\ task[<<r, e>>] = "done"
      BY <2>6 DEF Progress, Pairs
    <3>2. <<r, e>> \notin S
      BY <2>6, <3>1 DEF S, Active, Thread
    <3> QED
      BY <2>1, <3>1, <3>2 DEF Forget
  <2>7. TornIsNeverEvaluated' /\ Evaluable'
    BY <2>5, <2>6 DEF TornIsNeverEvaluated, Evaluable
  <2>8. ReportsOneScope'
    BY <2>1 DEF ReportsOneScope
  <2> QED
    BY <2>3, <2>4, <2>7, <2>8
<1> QED
  BY <1>1, <1>2

LEMMA EnvironmentIInv ==
  ASSUME IInv, Reindex \/ \E e \in Examples : DeleteStale(e)
  PROVE  IInv'
<1> USE DEF IInv
<1>1. CASE Reindex
  BY <1>1, LimitAssumption
     DEF Reindex, Types, OwnScope, Progress, Evaluable, TornIsNeverEvaluated, ReportsOneScope, disk
<1>2. ASSUME NEW e \in Examples, DeleteStale(e) PROVE IInv'
  BY <1>2 DEF DeleteStale, Types, Content, OwnScope, Progress, Evaluable, TornIsNeverEvaluated,
              ReportsOneScope, rest
<1> QED
  BY <1>1, <1>2

LEMMA InitIInv == Init => IInv
<1> SUFFICES ASSUME Init PROVE IInv
  OBVIOUS
<1>1. Types
  BY LimitAssumption DEF Init, Types, Content, Observation
<1>2. OwnScope /\ Progress /\ Evaluable /\ TornIsNeverEvaluated /\ ReportsOneScope
  BY DEF Init, OwnScope, Progress, Evaluable, TornIsNeverEvaluated, ReportsOneScope, Pairs
<1> QED
  BY <1>1, <1>2 DEF IInv

LEMMA NextIInv == IInv /\ [Next]_vars => IInv'
<1>1. ASSUME IInv, UNCHANGED vars PROVE IInv'
  BY <1>1 DEF IInv, Types, OwnScope, Progress, Evaluable, TornIsNeverEvaluated, ReportsOneScope,
              vars, disk
<1> QED
  BY <1>1, TaskStepIInv, RunStepIInv, StopIInv, EnvironmentIInv DEF Next

LEMMA Invariant == Spec => []IInv
  BY InitIInv, NextIInv, PTL DEF Spec

(* Whatever overlapping runs did to a checkpoint, nothing but a whole       *)
(* observation is evaluated (CheckpointStore.load validates).              *)
THEOREM TornNeverEvaluated == Spec => []TornIsNeverEvaluated
<1>1. IInv => TornIsNeverEvaluated
  BY DEF IInv
<1> QED
  BY <1>1, Invariant, PTL

(* A report holds one observation per example, all of its own dataset and   *)
(* configuration, for any number of runs, overlapping or after a crash.     *)
THEOREM OneScopeReported == Spec => []ReportsOneScope
<1>1. IInv => ReportsOneScope
  BY DEF IInv
<1> QED
  BY <1>1, Invariant, PTL

-----------------------------------------------------------------------------
(* What the task that saves an example finds, unless another run works on   *)
(* the example at once.                                                     *)

Alone ==
  \A p, q \in Pairs :
    UnderWay(p) /\ UnderWay(q) /\ p[2] = q[2] => p = q \/ shared[p[2]]

(* A handle is open only while its thread writes.                           *)
HandleOpen == \A p \in Pairs : handle[p] # "none" => task[p] = "write"

(* Only the thread that writes has the temporary file.                      *)
Saving ==
  \A p \in Pairs : ~shared[p[2]] =>
    /\ task[p] = "write" => handle[p] = "tmp" /\ tmp[p[2]] = Empty
    /\ task[p] = "replace" => tmp[p[2]] = result[p]

(* The provider works, and a task saves, only where there is no checkpoint. *)
NoCheckpointYet ==
  \A p \in Pairs : UnderWay(p) /\ ~shared[p[2]] => file[p[2]] = Missing

Saved ==
  /\ Alone /\ HandleOpen /\ Saving /\ NoCheckpointYet
  /\ TornOnlyIfShared /\ SuccessIsDurable

Both == IInv /\ Saved

(* Before an example is saved.                                              *)
Before(p) ==
  \/ LoadMissing(p) \/ LoadResume(p) \/ LoadReject(p) \/ Acquire(p)
  \/ ObserveOk(p) \/ ObserveFails(p) \/ Backoff(p)

LEMMA BeforeSaved ==
  ASSUME Both, NEW p \in Pairs, Before(p)
  PROVE  Saved'
<1> USE DEF Both, Saved, IInv
<1>0. /\ UNCHANGED <<run, disk>> /\ run[p[1]] = "producing"
      /\ p[1] \in Runs /\ \A q \in Pairs : q[2] \in Examples
  BY DEF Before, LoadMissing, LoadResume, LoadReject, Acquire, ObserveOk, ObserveFails,
         Backoff, At, rest, Pairs
<1>1. PICK t \in {"acquire", "done", "observe", "open", "backoff"} :
        /\ task' = [task EXCEPT ![p] = t]
        /\ task[p] \notin {"open", "write", "replace", "done"}
  BY DEF Before, LoadMissing, LoadResume, LoadReject, Acquire, ObserveOk, ObserveFails,
         Backoff, Begin, Retry, Move, At
<1>2. \A q \in Pairs \ {p} : result'[q] = result[q] /\ task'[q] = task[q]
  BY TaskStepResults DEF TaskStep, Before
<1>3. /\ \A e \in Examples : shared[e] => shared'[e]
      /\ \/ UnderWay(p) /\ UNCHANGED shared
         \/ t = "done" /\ UNCHANGED shared
         \/ /\ file[p[2]] = Missing
            /\ (\E q \in Pairs : q # p /\ q[2] = p[2] /\ UnderWay(q)) => shared'[p[2]]
  BY <1>1 DEF Before, LoadMissing, LoadResume, LoadReject, Acquire, ObserveOk, ObserveFails,
              Backoff, Begin, Move, At, UnderWay, Types, Pairs
<1>4. /\ \A q \in Pairs \ {p} : UnderWay(q)' = UnderWay(q)
      /\ UnderWay(p)' = (t # "done")
  BY <1>1, <1>2 DEF UnderWay, Types
<1>5. Alone'
  BY <1>0, <1>3, <1>4 DEF Alone
<1>6. HandleOpen' /\ TornOnlyIfShared'
  BY <1>0, <1>1, <1>3 DEF HandleOpen, TornOnlyIfShared, Types, disk
<1>7. Saving'
  BY <1>0, <1>1, <1>2, <1>3 DEF Saving, Types, disk
<1>8. NoCheckpointYet'
  BY <1>0, <1>3, <1>4 DEF NoCheckpointYet, disk
<1>9. t = "done" /\ result'[p] # None => file[p[2]] = result'[p]
  BY <1>1 DEF Before, Types, Progress, LoadMissing, LoadResume, LoadReject, Acquire,
     ObserveOk, ObserveFails, Backoff, Begin, Retry, Move, At
<1>10. SuccessIsDurable'
  BY <1>0, <1>1, <1>2, <1>3, <1>9 DEF SuccessIsDurable, At, Types, disk
<1> QED
  BY <1>5, <1>6, <1>7, <1>8, <1>10

(* The operations of _write_atomic, also of a thread whose run was stopped. *)
LEMMA SaveSaved ==
  ASSUME Both, NEW p \in Pairs, Open(p) \/ Write(p) \/ Replace(p) \/ SaveFails(p)
  PROVE  Saved'
<1> USE DEF Both, Saved, IInv
<1>0. /\ p[1] \in Runs /\ p[2] \in Examples /\ UNCHANGED <<run, shared>>
      /\ \A q \in Pairs : q[1] \in Runs /\ q[2] \in Examples
      /\ UnderWay(p)
  BY DEF Open, Write, Replace, SaveFails, UnderWay, rest, Pairs
<1>1. \A q \in Pairs \ {p} :
        q[2] = p[2] => shared[p[2]] \/ (~UnderWay(q) /\ handle[q] = "none")
  BY <1>0 DEF Alone, HandleOpen, UnderWay
<1>2. \A q \in Pairs \ {p} : result'[q] = result[q] /\ task'[q] = task[q]
  BY TaskStepResults DEF TaskStep
<1>3. /\ task' \in [Pairs -> {"none", "load", "acquire", "observe", "backoff", "open",
                              "write", "replace", "done"}]
      /\ task'[p] \in {"backoff", "write", "replace", "done"}
  BY DEF Open, Write, Replace, SaveFails, Retry, Move, Types
<1>4. Alone'
  BY <1>0, <1>2 DEF Alone, UnderWay
<1>5. CASE Open(p)
  <2>1. /\ file' = file /\ tmp' = [tmp EXCEPT ![p[2]] = Empty] /\ result' = result
        /\ handle' = [handle EXCEPT ![p] = "tmp"]
        /\ task' = [task EXCEPT ![p] = "write"] /\ task[p] = "open"
    BY <1>5 DEF Open, Move
  <2>2. HandleOpen' /\ TornOnlyIfShared'
    BY <1>0, <2>1 DEF HandleOpen, TornOnlyIfShared, Types
  <2>3. Saving'
    BY <1>0, <1>1, <2>1 DEF Saving, UnderWay, Types
  <2>4. NoCheckpointYet' /\ SuccessIsDurable'
    BY <1>0, <2>1 DEF NoCheckpointYet, SuccessIsDurable, UnderWay, At, Types
  <2> QED
    BY <1>4, <2>2, <2>3, <2>4
<1>6. CASE Write(p)
  <2>1. /\ handle' = [handle EXCEPT ![p] = "none"] /\ result' = result
        /\ task' = [task EXCEPT ![p] = "replace"] /\ task[p] = "write"
        /\ \A e \in Examples \ {p[2]} : file'[e] = file[e] /\ tmp'[e] = tmp[e]
    BY <1>0, <1>6 DEF Write, Move, Types
  <2>2. ~shared[p[2]] => file' = file /\ tmp'[p[2]] = result[p]
    BY <1>0, <1>6 DEF Write, Written, Saving, Types
  <2>3. HandleOpen' /\ TornOnlyIfShared'
    BY <1>0, <2>1, <2>2 DEF HandleOpen, TornOnlyIfShared, Types
  <2>4. Saving'
    BY <1>0, <1>1, <2>1, <2>2 DEF Saving, UnderWay, Types
  <2>5. NoCheckpointYet' /\ SuccessIsDurable'
    BY <1>0, <2>1, <2>2 DEF NoCheckpointYet, SuccessIsDurable, UnderWay, At, Types
  <2> QED
    BY <1>4, <2>3, <2>4, <2>5
<1>7. CASE Replace(p)
  <2>1. /\ file' = [file EXCEPT ![p[2]] = tmp[p[2]]]
        /\ tmp' = [tmp EXCEPT ![p[2]] = Missing] /\ result' = result
        /\ task' = [task EXCEPT ![p] = "done"] /\ task[p] = "replace"
        /\ handle' = [q \in Pairs |-> IF q[2] = p[2] THEN Moved(handle[q]) ELSE handle[q]]
    BY <1>7 DEF Replace, Move
  <2>2. /\ \A q \in Pairs : handle'[q] # "none" => handle[q] # "none"
        /\ \A q \in Pairs : q[2] # p[2] => handle'[q] = handle[q]
    BY <2>1 DEF Moved
  <2>3. result[p] \in Observation /\ (~shared[p[2]] => tmp[p[2]] = result[p])
    BY <2>1 DEF Progress, Saving
  <2>4. HandleOpen' /\ TornOnlyIfShared'
    BY <1>0, <2>1, <2>2, <2>3 DEF HandleOpen, TornOnlyIfShared, Types
  <2>5. Saving'
    BY <1>0, <1>1, <2>1, <2>2 DEF Saving, UnderWay, Types
  <2>6. NoCheckpointYet'
    BY <1>0, <1>1, <2>1 DEF NoCheckpointYet, UnderWay, Types
  <2>7. ASSUME NEW q \in Pairs, At(q, "done")', result'[q] # None, ~shared[q[2]]
        PROVE  file'[q[2]] = result'[q]
    <3>1. CASE q = p
      BY <1>0, <2>1, <2>3, <2>7, <3>1 DEF Types
    <3>2. CASE q # p
      <4>1. file[q[2]] = result[q] /\ result[q] \in Observation
        BY <1>0, <1>2, <2>1, <2>7, <3>2 DEF SuccessIsDurable, At, Types
      <4>2. q[2] # p[2]
        BY <1>0, <2>7, <4>1, MissingAssumption DEF NoCheckpointYet
      <4> QED
        BY <1>0, <2>1, <4>1, <4>2 DEF Types
    <3> QED
      BY <3>1, <3>2
  <2>8. SuccessIsDurable'
    BY <1>0, <2>7 DEF SuccessIsDurable
  <2> QED
    BY <1>4, <2>4, <2>5, <2>6, <2>8
<1>8. CASE SaveFails(p)
  <2>1. /\ task' = [task EXCEPT ![p] = task'[p]] /\ task'[p] \in {"backoff", "done"}
        /\ task[p] \in {"open", "write", "replace"}
        /\ handle' = [handle EXCEPT ![p] = "none"]
        /\ file' = file /\ tmp' = tmp
        /\ run[p[1]] = "producing" => result'[p] = None
    BY <1>8 DEF SaveFails, Retry, Move, Types
  <2>2. HandleOpen' /\ TornOnlyIfShared'
    BY <1>0, <2>1 DEF HandleOpen, TornOnlyIfShared, Types
  <2>3. Saving'
    BY <1>0, <1>2, <2>1 DEF Saving, Types
  <2>4. NoCheckpointYet' /\ SuccessIsDurable'
    BY <1>0, <1>2, <2>1 DEF NoCheckpointYet, SuccessIsDurable, UnderWay, At, Types
  <2> QED
    BY <1>4, <2>2, <2>3, <2>4
<1> QED
  BY <1>5, <1>6, <1>7, <1>8

LEMMA RunStepSaved ==
  ASSUME Both, NEW r \in Runs, StartRun(r) \/ RunStep(r)
  PROVE  Saved'
<1> USE DEF Both, Saved, IInv
<1>0. \A p \in Pairs : p[1] \in Runs
  BY DEF Pairs
<1>1. CASE StartRun(r)
  <2>1. /\ run[r] = "idle" /\ run' = [run EXCEPT ![r] = "producing"]
        /\ \A p \in Pairs : task'[p] = IF p[1] = r THEN "load" ELSE task[p]
        /\ UNCHANGED <<result, disk, shared>>
    BY <1>1 DEF StartRun
  <2>2. \A p \in Pairs : p[1] = r => task[p] = "none"
    BY <2>1 DEF Progress
  <2>3. \A p \in Pairs : UnderWay(p)' = UnderWay(p)
    BY <2>1, <2>2 DEF UnderWay
  <2>4. Alone' /\ NoCheckpointYet' /\ TornOnlyIfShared'
    BY <2>1, <2>3 DEF Alone, NoCheckpointYet, TornOnlyIfShared, disk
  <2>5. HandleOpen' /\ Saving'
    BY <2>1, <2>2 DEF HandleOpen, Saving, disk
  <2>6. SuccessIsDurable'
    BY <1>0, <2>1 DEF SuccessIsDurable, At, Types, disk
  <2> QED
    BY <2>4, <2>5, <2>6
<1>2. CASE RunStep(r)
  <2>1. PICK s \in {"evaluating", "tracking", "reported", "failed"} :
          run' = [run EXCEPT ![r] = s]
    BY <1>2 DEF RunStep, Gather, EvaluateOk, EvaluateFails, ReportFails, Track, Types
  <2>2. UNCHANGED <<task, result, disk, shared>>
    BY <1>2 DEF RunStep, Gather, EvaluateOk, EvaluateFails, ReportFails, Track, rest
  <2>3. Alone' /\ NoCheckpointYet' /\ TornOnlyIfShared' /\ HandleOpen' /\ Saving'
    BY <2>2 DEF Alone, NoCheckpointYet, TornOnlyIfShared, HandleOpen, Saving, UnderWay, disk
  <2>4. SuccessIsDurable'
    BY <1>0, <2>1, <2>2 DEF SuccessIsDurable, At, Types, disk
  <2> QED
    BY <2>3, <2>4
<1> QED
  BY <1>1, <1>2

(* A stopped run's coroutines end; its threads find what they had.          *)
LEMMA ForgetSaved ==
  ASSUME Both, NEW S, Forget(S), UNCHANGED <<file, tmp, shared>>,
         \A p \in S \cap Pairs : run'[p[1]] # "producing",
         \A p \in Pairs : run'[p[1]] = "producing" => run[p[1]] = "producing",
         \/ UNCHANGED handle /\ \A p \in S \cap Pairs : task[p] # "write"
         \/ handle' = [p \in Pairs |-> "none"] /\ \A p \in Pairs : Thread(p) => p \in S
  PROVE  Saved'
<1> USE DEF Both, Saved, IInv
<1>1. \A p \in Pairs :
        /\ p \in S => task'[p] = "done"
        /\ p \notin S => task'[p] = task[p] /\ result'[p] = result[p]
  BY DEF Forget
<1>2. \A p \in Pairs : UnderWay(p)' => UnderWay(p)
  BY <1>1 DEF UnderWay
<1>3. Alone' /\ NoCheckpointYet' /\ TornOnlyIfShared'
  BY <1>2 DEF Alone, NoCheckpointYet, TornOnlyIfShared
<1>4. HandleOpen'
  BY <1>1 DEF HandleOpen
<1>5. Saving'
  BY <1>1 DEF Saving, Thread
<1>6. SuccessIsDurable'
  BY <1>1 DEF SuccessIsDurable, At
<1> QED
  BY <1>3, <1>4, <1>5, <1>6

LEMMA StopSaved ==
  ASSUME Both, (\E r \in Runs : Cancel(r)) \/ Crash
  PROVE  Saved'
<1>1. ASSUME NEW r \in Runs, Cancel(r) PROVE Saved'
  <2>1. PICK dropped \in SUBSET {p \in Pairs : p[1] = r /\ task[p] = "open"} :
          Forget({p \in Pairs : p[1] = r /\ (Thread(p) => p \in dropped)})
    BY <1>1 DEF Cancel
  <2> DEFINE S == {p \in Pairs : p[1] = r /\ (Thread(p) => p \in dropped)}
  <2>2. /\ Forget(S) /\ UNCHANGED <<file, tmp, handle, shared>>
        /\ \A p \in S \cap Pairs : p[1] = r /\ task[p] # "write"
    BY <1>1, <2>1 DEF Cancel, Thread, disk
  <2>3. \A q \in Runs : run'[q] = IF q = r THEN "stopped" ELSE run[q]
    BY <1>1 DEF Cancel, Both, IInv, Types
  <2>4. \A p \in Pairs : p[1] \in Runs
    BY DEF Pairs
  <2> HIDE DEF S
  <2> QED
    BY <2>2, <2>3, <2>4, ForgetSaved
<1>2. CASE Crash
  <2> DEFINE S == {p \in Pairs : Active(p[1]) \/ Thread(p)}
  <2>1. /\ Forget(S) /\ UNCHANGED <<file, tmp, shared>>
        /\ handle' = [p \in Pairs |-> "none"]
        /\ \A p \in Pairs : run'[p[1]] # "producing"
        /\ \A p \in Pairs : Thread(p) => p \in S
    BY <1>2 DEF Crash, Active, Pairs
  <2> HIDE DEF S
  <2> QED
    BY <2>1, ForgetSaved
<1> QED
  BY <1>1, <1>2

LEMMA EnvironmentSaved ==
  ASSUME Both, Reindex \/ \E e \in Examples : DeleteStale(e)
  PROVE  Saved'
<1> USE DEF Both, Saved, IInv
<1>1. CASE Reindex
  BY <1>1 DEF Reindex, Alone, HandleOpen, TornOnlyIfShared, Saving, NoCheckpointYet,
              SuccessIsDurable, UnderWay, At, disk
<1>2. ASSUME NEW e \in Examples, DeleteStale(e) PROVE Saved'
  <2>1. /\ file' = [file EXCEPT ![e] = Missing]
        /\ \A p \in Pairs : handle'[p] = IF p[2] = e /\ handle[p] = "file" THEN "gone"
                                         ELSE handle[p]
        /\ UNCHANGED <<run, task, result, tmp, shared>>
        /\ \A p \in Pairs : p[2] \in Examples /\ run[p[1]] # "producing"
    BY <1>2 DEF DeleteStale, Active, Pairs
  <2>2. Alone' /\ HandleOpen' /\ Saving'
    BY <2>1 DEF Alone, HandleOpen, Saving, UnderWay
  <2>3. NoCheckpointYet' /\ TornOnlyIfShared' /\ SuccessIsDurable'
    BY <2>1 DEF NoCheckpointYet, TornOnlyIfShared, SuccessIsDurable, UnderWay, At, Types
  <2> QED
    BY <2>2, <2>3
<1> QED
  BY <1>1, <1>2

LEMMA SavedInvariant == Spec => []Both
<1>1. Init => Both
  BY InitIInv DEF Init, Both, Saved, Alone, HandleOpen, Saving, NoCheckpointYet,
                  TornOnlyIfShared, SuccessIsDurable, UnderWay, At, Pairs
<1>2. Both /\ [Next]_vars => Both'
  <2> SUFFICES ASSUME Both, [Next]_vars PROVE Saved'
    BY NextIInv DEF Both
  <2>1. CASE UNCHANGED vars
    BY <2>1 DEF Both, Saved, Alone, HandleOpen, Saving, NoCheckpointYet, TornOnlyIfShared,
                SuccessIsDurable, UnderWay, At, vars
  <2>2. ASSUME NEW p \in Pairs, TaskStep(p) PROVE Saved'
    BY <2>2, BeforeSaved, SaveSaved DEF TaskStep, Before
  <2> QED
    BY <2>1, <2>2, RunStepSaved, StopSaved, EnvironmentSaved DEF Next
<1> QED
  BY <1>1, <1>2, PTL DEF Spec

(* _write_atomic: wherever runs failed, were cancelled or died, a           *)
(* checkpoint is a whole observation or is not there, unless two runs, or a *)
(* run and the thread of a cancelled one, worked on its example at once.    *)
THEOREM TornMeansShared == Spec => []TornOnlyIfShared
<1>1. Both => TornOnlyIfShared
  BY DEF Both, Saved
<1> QED
  BY <1>1, SavedInvariant, PTL

(* _produce_one saves before it returns: what a finished example counts as  *)
(* observed is what its checkpoint holds, unless two worked on it at once.  *)
THEOREM DurableSuccess == Spec => []SuccessIsDurable
<1>1. Both => SuccessIsDurable
  BY DEF Both, Saved
<1> QED
  BY <1>1, SavedInvariant, PTL

(* The provider is called only where there is no checkpoint, after every    *)
(* crash, cancellation, failure and retry, unless two work on it at once.   *)
THEOREM NothingReproduced == Spec => NeverReproduced
<1> DEFINE Step == \A p \in Pairs :
             task[p] # "observe" /\ task'[p] = "observe" =>
               shared[p[2]] \/ file[p[2]] = Missing
<1>1. Both /\ [Next]_vars => [Step]_vars
  <2> SUFFICES ASSUME Both, Next, NEW p \in Pairs, task[p] # "observe", task'[p] = "observe"
               PROVE  shared[p[2]] \/ file[p[2]] = Missing
    OBVIOUS
  <2>1. ASSUME NEW r \in Runs, StartRun(r) \/ RunStep(r) PROVE FALSE
    BY <2>1 DEF StartRun, RunStep, Gather, EvaluateOk, EvaluateFails, ReportFails, Track, rest
  <2>2. CASE (\E r \in Runs : Cancel(r)) \/ Crash \/ Reindex
             \/ \E e \in Examples : DeleteStale(e)
    BY <2>2 DEF Cancel, Crash, Forget, Reindex, DeleteStale
  <2>3. ASSUME NEW q \in Pairs, TaskStep(q) PROVE shared[p[2]] \/ file[p[2]] = Missing
    <3>1. q = p
      BY <2>3, TaskStepResults DEF Both
    <3>2. Acquire(p)
      BY <2>3, <3>1 DEF TaskStep, LoadMissing, Begin, LoadResume, LoadReject, ObserveOk,
         ObserveFails, Backoff, Open, Write, Replace, SaveFails, Retry, Move, Both, IInv, Types
    <3> QED
      BY <3>2 DEF Acquire, At, UnderWay, Both, Saved, NoCheckpointYet
  <2> QED
    BY <2>1, <2>2, <2>3 DEF Next
<1> QED
  BY <1>1, SavedInvariant, PTL DEF Spec, NeverReproduced

=============================================================================
