--------------------------- MODULE Reconciliation ---------------------------
(***************************************************************************)
(* The evaluation evidence in one output directory: the reconciliation      *)
(* (scripts/phase15_evaluation_reconciliation.py) runs the ablation matrix  *)
(* of scripts/evaluation_ablation_fixture_report.py over the evaluation     *)
(* dataset (run_matrix, evaluation/runner.py), logs every configuration     *)
(* (tracking.py), writes three reports (reporting.py) and a summary.  It is *)
(* repeated in the same directory, and may die at every step; between two   *)
(* runs the dataset is edited, stale checkpoints are deleted, run files are *)
(* compared and the gate (scripts/evaluation_gate.py) is asked.             *)
(*                                                                         *)
(* The examples of a configuration are observed one after the other here:   *)
(* EvaluationRunner has their concurrency, their retries and the steps of   *)
(* a checkpoint's write.  A judge may raise at every example.               *)
(***************************************************************************)
EXTENDS Scoring, Files

CONSTANT Plans   \* what a behaviour starts from

(* EvaluationDatasetRecord, RegressionThreshold: what a data set and a       *)
(* threshold can be.  A text is a list of words.                            *)
IsList(s) == s \in Seq(ToSet(s))
IsFraction(f) == f \in Nat \X (Nat \ {0})

IsDataset(examples) ==
  /\ IsList(examples)
  /\ \A e \in ToSet(examples) :
       /\ e.id \in Nat /\ IsList(e.question) /\ IsList(e.supporting)
       /\ IsList(e.reference) /\ e.reference # <<>>

IsThreshold(t) ==
  /\ t.slice = <<t.slice[1], t.slice[2]>>
  /\ t.min_samples \in Nat \ {0} /\ IsFraction(t.max_drop)
  /\ t.min_score = <<>> \/ IsFraction(t.min_score)

ASSUME PlanAssumption ==
  \A p \in Plans :
    /\ 1 \in DOMAIN p.datasets /\ \A d \in DOMAIN p.datasets : IsDataset(p.datasets[d])
    /\ \A c \in {"fin", "legal", "paper"} : IsList(p.texts[c]) /\ p.texts[c] # <<>>
    /\ IsList(p.invented) /\ p.invented # <<>>
    /\ \A t \in p.thresholds : IsThreshold(t)

VARIABLES
  plan,         \* fixed: datasets, texts of the chunks, matrix, thresholds, bounds
  dataset,      \* which of the datasets the dataset file holds
  run,          \* the process: its number, its step and what it has in memory
  checkpoints,  \* <<configuration, example>> -> checkpoint
  runs,         \* configuration -> file with its configuration run
  log,          \* the lines of the tracker's file
  reports,      \* format -> report file
  summary,      \* phase15-reconciliation.json
  verdict,      \* the last comparison or gate, and what it was about
  quota,        \* edits, starts, deaths, failures and checks that may still happen
  started,      \* history: the runs that started
  finished      \* history: the run that finished, when none started since; or 0

evidence == <<plan, dataset, run, checkpoints, runs, log, reports, summary, verdict, quota,
              started, finished>>

directory == <<checkpoints, runs, log, reports, summary>>
milestones == <<started, finished>>

Formats == {"json", "markdown", "html"}
Resting == [step |-> "none"]
NoVerdict == [tool |-> "none"]

(* EvaluationMatrix: at least one configuration, and no id twice.           *)
IsMatrix(matrix) ==
  /\ matrix \in Seq(ToSet(matrix)) \ {<<>>}
  /\ \A i, j \in DOMAIN matrix : matrix[i].id = matrix[j].id => i = j

EvidenceInit ==
  /\ plan \in {p \in Plans : IsMatrix(p.matrix)}
  /\ dataset = 1
  /\ run = Resting
  /\ checkpoints = <<>> /\ runs = <<>> /\ log = <<>>
  /\ reports = [f \in Formats |-> Absent] /\ summary = Absent
  /\ verdict = NoVerdict
  /\ quota = plan.quota
  /\ started = 0 /\ finished = 0

Use(kind) == quota[kind] > 0 /\ quota' = [quota EXCEPT ![kind] = @ - 1]

-----------------------------------------------------------------------------
(* What the fixture provider observes: an answer that cites its support, or *)
(* for some configurations a refusal or a claim that nothing supports.      *)

Distractor == "distractor"
Refused == <<<<"insufficient">>, <<"context", Stop>>>>

Shown(support, distracts) ==
  [c \in ToSet(support) \cup When(distracts, Distractor) |-> plan.texts[c]]

Observed(example, answer, support, distracts) ==
  [example |-> example, answer |-> answer,
   retrieved |-> IF distracts THEN Append(support, Distractor) ELSE support,
   context |-> Shown(support, distracts)]

Answer(text, citations, refusal) ==
  [text |-> text, citations |-> citations, refusal |-> refusal,
   cited |-> IF refusal THEN <<>> ELSE <<citations[1].chunk>>]

Cites(chunk, claim) == [chunk |-> chunk, claim |-> claim]

Refusal(example) == Observed(example, Answer(Refused, <<>>, TRUE), <<>>, TRUE)

SupportedAnswer(example, support, distracts) ==
  Observed(example,
           Answer(example.reference, <<Cites(support[1], example.reference)>>, FALSE),
           support, distracts)

Invents(example, chunk) ==
  Observed(example,
           Answer(plan.texts[chunk] \o plan.invented,
                  <<Cites(chunk, plan.texts[chunk]), Cites(chunk, plan.invented)>>, FALSE),
           <<chunk>>, FALSE)

Observe(example, config) ==
  CASE example.id = 1 ->
         IF config.chunking = "fixed_256" THEN Refusal(example)
         ELSE SupportedAnswer(example, <<"fin">>, config.pipeline = "dense_bm25_rrf")
    [] example.id = 2 ->
         IF config.chunking = "semantic" THEN Invents(example, "legal")
         ELSE SupportedAnswer(example, <<"legal">>, config.pipeline # "hybrid_rerank")
    [] OTHER ->
         SupportedAnswer(example,
           IF config.pipeline = "dense_only" THEN <<"paper">> ELSE <<"paper", "trial">>,
           config.pipeline = "dense_bm25_rrf")

-----------------------------------------------------------------------------
(* A run begins: the dataset is loaded, and the first configuration's       *)
(* examples are due.                                                       *)

Records == plan.datasets[dataset]
SliceDomains(examples) ==
  [id \in {e.id : e \in ToSet(examples)} |->
     (CHOOSE e \in ToSet(examples) : e.id = id).domain]

Configure(r, c) ==
  [r EXCEPT !.config = c, !.step = "observe", !.due = r.examples, !.observations = <<>>,
            !.resumed = 0, !.failed = FALSE, !.records = <<>>, !.attempt = 1]

NewRun(n, examples) ==
  [step |-> "observe", n |-> n, dataset |-> dataset, examples |-> examples, config |-> 1,
   due |-> examples, observations |-> <<>>, resumed |-> 0, failed |-> FALSE,
   records |-> <<>>, attempt |-> 1, done |-> <<>>, pending |-> Formats]

Start ==
  /\ run = Resting
  /\ Use("starts")
  /\ ~InvalidDataset(Records)
  /\ run' = NewRun(started + 1, ById(Records))
  /\ started' = started + 1 /\ finished' = 0
  /\ UNCHANGED <<plan, dataset, directory, verdict>>

StartRaises ==
  /\ run = Resting
  /\ Use("starts")
  /\ InvalidDataset(Records)
  /\ UNCHANGED <<plan, dataset, run, directory, verdict, milestones>>

Config == plan.matrix[run.config]
Slot(example) == <<Config.id, example.id>>
Scope == <<run.dataset, Config>>

(* _produce_one: a checkpoint is resumed, refused when it is of another     *)
(* dataset or configuration, and made when there is none.  Whatever becomes *)
(* of an example, the others are observed too.                             *)
Checkpoint(scope, observation) == [scope |-> scope, observation |-> observation]

Fits(checkpoint, example) ==
  checkpoint.scope = Scope /\ checkpoint.observation.example = example

Resume ==
  /\ run.step = "observe" /\ run.due # <<>>
  /\ Slot(Head(run.due)) \in DOMAIN checkpoints
  /\ Fits(checkpoints[Slot(Head(run.due))], Head(run.due))
  /\ run' = [run EXCEPT !.due = Tail(@), !.resumed = @ + 1,
       !.observations = Append(@, checkpoints[Slot(Head(run.due))].observation)]
  /\ UNCHANGED <<plan, dataset, directory, verdict, quota, milestones>>

RefuseCheckpoint ==
  /\ run.step = "observe" /\ run.due # <<>>
  /\ Slot(Head(run.due)) \in DOMAIN checkpoints
  /\ ~Fits(checkpoints[Slot(Head(run.due))], Head(run.due))
  /\ run' = [run EXCEPT !.due = Tail(@), !.failed = TRUE]
  /\ UNCHANGED <<plan, dataset, directory, verdict, quota, milestones>>

Produce ==
  /\ run.step = "observe" /\ run.due # <<>>
  /\ Slot(Head(run.due)) \notin DOMAIN checkpoints
  /\ \E observation \in {Observe(Head(run.due), Config)} :
       /\ run' = [run EXCEPT !.due = Tail(@), !.observations = Append(@, observation)]
       /\ checkpoints' = Put(checkpoints, Slot(Head(run.due)), Checkpoint(Scope, observation))
  /\ UNCHANGED <<plan, dataset, runs, log, reports, summary, verdict, quota, milestones>>

(* All the attempts at one example fail.                                   *)
ProduceFails ==
  /\ run.step = "observe" /\ run.due # <<>>
  /\ Slot(Head(run.due)) \notin DOMAIN checkpoints
  /\ Use("failures")
  /\ run' = [run EXCEPT !.due = Tail(@), !.failed = TRUE]
  /\ UNCHANGED <<plan, dataset, directory, verdict, milestones>>

End == run' = Resting

ObserveRaises ==
  /\ run.step = "observe" /\ run.due = <<>> /\ run.failed
  /\ End
  /\ UNCHANGED <<plan, dataset, directory, verdict, quota, milestones>>

-----------------------------------------------------------------------------
(* Evaluation: the examples are judged in the order of their ids; when the  *)
(* judge raises, everything judged so far is thrown away and the evaluation *)
(* begins again, up to plan.attempts times.                                *)

Judge ==
  /\ run.step = "observe" /\ run.due = <<>> /\ ~run.failed
  /\ Len(run.records) < Len(run.observations)
  /\ run' = [run EXCEPT !.records =
       Append(@, RecordOf(run.observations[Len(run.records) + 1]))]
  /\ UNCHANGED <<plan, dataset, directory, verdict, quota, milestones>>

JudgeRaises ==
  /\ run.step = "observe" /\ run.due = <<>> /\ ~run.failed
  /\ Len(run.records) < Len(run.observations)
  /\ Use("failures")
  /\ run' = IF run.attempt < plan.attempts
            THEN [run EXCEPT !.attempt = @ + 1, !.records = <<>>] ELSE Resting
  /\ UNCHANGED <<plan, dataset, directory, verdict, milestones>>

(* The configuration run: what the run file, the log and the reports tell.  *)
FailureRecords(observations, records, config) ==
  [id \in {r.id : r \in ToSet(records)} |->
     UNION {FailureCategories(observations[i], records[i], config) :
              i \in {i \in DOMAIN records : records[i].id = id}}]

ConfigurationRun ==
  [n |-> run.n, dataset |-> run.dataset, config |-> Config, records |-> run.records,
   aggregates |-> Aggregates(run.records),
   hallucination |-> HallucinationSummary(run.records),
   slices |-> Slices(run.records, SliceDomains(run.examples)),
   failures |-> FailureRecords(run.observations, run.records, Config),
   resumed |-> run.resumed, produced |-> Len(run.examples) - run.resumed]

SaveRun ==
  /\ run.step = "observe" /\ run.due = <<>> /\ ~run.failed
  /\ Len(run.records) = Len(run.observations)
  /\ \E c \in {ConfigurationRun} :
       /\ run' = [run EXCEPT !.step = "track", !.done = Append(@, c)]
       /\ runs' = Put(runs, Config.id, Whole(c))
  /\ UNCHANGED <<plan, dataset, checkpoints, log, reports, summary, verdict, quota, milestones>>

Event == [n |-> run.n, config |-> Config.id, metrics |-> Last(run.done).slices]

Track ==
  /\ run.step = "track"
  /\ log' = Append(log, Whole(Event))
  /\ run' = IF run.config < Len(plan.matrix) THEN Configure(run, run.config + 1)
            ELSE [run EXCEPT !.step = "report"]
  /\ UNCHANGED <<plan, dataset, checkpoints, runs, reports, summary, verdict, quota, milestones>>

-----------------------------------------------------------------------------
(* The three reports are written at the same time; when a write fails the   *)
(* others still end.                                                       *)

Report == [n |-> run.n, dataset |-> run.dataset, runs |-> run.done]

WriteReport(format) ==
  /\ run.step = "report" /\ format \in run.pending
  /\ reports' = [reports EXCEPT ![format] = Whole(Report)]
  /\ run' = [run EXCEPT !.pending = @ \ {format}]
  /\ UNCHANGED <<plan, dataset, checkpoints, runs, log, summary, verdict, quota, milestones>>

WriteReportFails(format) ==
  /\ run.step = "report" /\ format \in run.pending
  /\ Use("failures")
  /\ reports' = [reports EXCEPT ![format] = Torn]
  /\ run' = [run EXCEPT !.pending = @ \ {format}, !.failed = TRUE]
  /\ UNCHANGED <<plan, dataset, checkpoints, runs, log, summary, verdict, milestones>>

(* Faulty variant: one report is enough to go on.                           *)
Written_Any == run.pending # Formats

Written == run.pending = {}

ReportRaises ==
  /\ run.step = "report" /\ Written /\ run.failed
  /\ End
  /\ UNCHANGED <<plan, dataset, directory, verdict, quota, milestones>>

(* The domain winners: the configurations with the best mean of means.      *)
Composite(slices, d) ==
  Mean(<<slices[<<"context_precision", d>>].mean, slices[<<"context_recall", d>>].mean,
         slices[<<"faithfulness", d>>].mean, slices[<<"answer_relevancy", d>>].mean>>)

Composites(done, d) == [i \in DOMAIN done |-> Composite(done[i].slices, d)]

BestOf(composites) ==
  {i \in DOMAIN composites : \A j \in DOMAIN composites :
                               AtLeast(composites[i], composites[j])}

Winners(done, domains) ==
  [d \in domains |-> {done[i].config.id : i \in BestOf(Composites(done, d))}]

DomainsOf(examples) == {e.domain : e \in ToSet(examples)}

Reconcile ==
  /\ run.step = "report" /\ Written /\ ~run.failed
  /\ summary' = Whole([n |-> run.n, dataset |-> run.dataset,
                       winners |-> Winners(run.done, DomainsOf(run.examples))])
  /\ finished' = run.n
  /\ End
  /\ UNCHANGED <<plan, dataset, checkpoints, runs, log, reports, verdict, quota, started>>

-----------------------------------------------------------------------------
(* Death: memory is lost, and the file that was being written may be torn.  *)
(* Run files and checkpoints are replaced atomically.                       *)

RunDies ==
  /\ run # Resting
  /\ Use("deaths")
  /\ End
  /\ UNCHANGED <<plan, dataset, directory, verdict, milestones>>

Tearing(step, action) ==
  /\ run.step = step
  /\ Use("deaths")
  /\ action
  /\ End
  /\ UNCHANGED <<plan, dataset, checkpoints, runs, verdict, milestones>>

TearLog == Tearing("track", log' = Append(log, Torn) /\ UNCHANGED <<reports, summary>>)

TearReport(format) ==
  Tearing("report", /\ format \in run.pending
                    /\ reports' = [reports EXCEPT ![format] = Torn]
                    /\ UNCHANGED <<log, summary>>)

TearSummary ==
  Tearing("report", Written /\ summary' = Torn /\ UNCHANGED <<log, reports>>)

-----------------------------------------------------------------------------
(* People, and the tools that judge a run                                  *)

EditDataset(d) ==
  /\ d # dataset
  /\ Use("edits")
  /\ dataset' = d
  /\ UNCHANGED <<plan, run, directory, verdict, milestones>>

(* As the error of a stale checkpoint asks for.                             *)
DeleteStale ==
  /\ run = Resting
  /\ \E slot \in DOMAIN checkpoints : checkpoints[slot].scope[1] # dataset
  /\ checkpoints' = [slot \in {s \in DOMAIN checkpoints :
                                 checkpoints[s].scope[1] = dataset} |-> checkpoints[slot]]
  /\ UNCHANGED <<plan, dataset, run, runs, log, reports, summary, verdict, quota, milestones>>

(* Two run files are compared, as a gate (pr_fast) or for an alert.         *)
Compare(baseline, candidate, mode) ==
  /\ run = Resting
  /\ Use("checks")
  /\ baseline \in DOMAIN runs /\ candidate \in DOMAIN runs
  /\ \E unlucky \in SUBSET plan.thresholds :
     \E violations \in {Violations(runs[baseline][2].slices, runs[candidate][2].slices,
                                   plan.thresholds, unlucky)} :
       verdict' = [tool |-> "compare", mode |-> mode, baseline |-> runs[baseline][2],
                   candidate |-> runs[candidate][2],
                   fails |-> violations # {} /\ mode = "pr_fast",
                   alerts |-> violations # {} /\ mode = "nightly_full"]
  /\ UNCHANGED <<plan, dataset, run, directory, milestones>>

(* The gate runs evaluation_fixture_report.py on the dataset, which raises  *)
(* unless one of three answers is flagged.                                 *)
Fixture(example) ==
  CASE example.id = 1 ->
         Observed(example, Answer(plan.texts["fin"], <<Cites("fin", plan.texts["fin"])>>, FALSE),
                  <<"fin">>, TRUE)
    [] example.id = 2 -> Invents(example, "legal")
    [] OTHER ->
         Observed(example,
                  Answer(plan.texts["paper"], <<Cites("paper", plan.texts["paper"])>>, FALSE),
                  <<"paper">>, FALSE)

FixtureRecords(examples) == [i \in DOMAIN examples |-> RecordOf(Fixture(examples[i]))]

FixtureRaises(examples, records) ==
  \/ {e.id : e \in ToSet(examples)} # 1..3
  \/ Flagged(records) # 1 \/ Len(records) # 3

GateVerdict(mode, records, violations) ==
  [tool |-> "gate", mode |-> mode, records |-> records,
   fails |-> violations # {} /\ mode = "pr", alerts |-> violations # {} /\ mode = "nightly"]

Gate(mode) ==
  /\ run = Resting
  /\ Use("checks")
  /\ ~InvalidDataset(Records)
  /\ \E records \in {FixtureRecords(ById(Records))} :
       /\ ~FixtureRaises(Records, records)
       /\ \E unlucky \in SUBSET Metrics :
            verdict' = GateVerdict(mode, records,
              GateViolations(Aggregates(records), HallucinationSummary(records), unlucky))
  /\ UNCHANGED <<plan, dataset, run, directory, milestones>>

(* An error of the report ends the gate with that error, in both modes.     *)
GateRaises(mode) ==
  /\ run = Resting
  /\ Use("checks")
  /\ InvalidDataset(Records) \/ FixtureRaises(Records, FixtureRecords(ById(Records)))
  /\ verdict' = [tool |-> "raised", mode |-> mode, fails |-> TRUE, alerts |-> FALSE]
  /\ UNCHANGED <<plan, dataset, run, directory, milestones>>

-----------------------------------------------------------------------------
RunStep ==
  \/ Resume \/ RefuseCheckpoint \/ Produce \/ ProduceFails \/ ObserveRaises
  \/ Judge \/ JudgeRaises \/ SaveRun \/ Track
  \/ \E f \in Formats : WriteReport(f) \/ WriteReportFails(f)
  \/ ReportRaises \/ Reconcile

RunDeaths == RunDies \/ TearLog \/ TearSummary \/ \E f \in Formats : TearReport(f)

Checks ==
  \/ \E b, c \in DOMAIN runs, mode \in {"pr_fast", "nightly_full"} : Compare(b, c, mode)
  \/ \E mode \in {"pr", "nightly"} : Gate(mode) \/ GateRaises(mode)

EvidenceNext ==
  \/ Start \/ StartRaises \/ RunStep \/ RunDeaths \/ Checks
  \/ \E d \in DOMAIN plan.datasets : EditDataset(d)
  \/ DeleteStale

EvidenceSpec == EvidenceInit /\ [][EvidenceNext]_evidence

-----------------------------------------------------------------------------
(* Properties                                                              *)

Sums(records, metric) == Total([i \in DOMAIN records |-> ResultOf(records[i], metric)])
Times(f, n) == Ratio(f[1] * n, f[2])

Examples(r) == ToSet(plan.datasets[r.dataset])
IdsIn(r, d) == {e.id : e \in {e \in Examples(r) : d \in {Everything, e.domain}}}
Of(r, d) == Only(r.records, {record \in ToSet(r.records) : record.id \in IdsIn(r, d)})

(* run_configuration, EvaluationEngine.evaluate, aggregate_metric_slices:   *)
(* a run has one record per example; its slices add up, over the domains    *)
(* and over the records, to what the engine reports.                       *)
AddsUp(r, domains) ==
  /\ Len(r.records) = Cardinality(Examples(r)) /\ r.resumed + r.produced = Len(r.records)
  /\ {record.id : record \in ToSet(r.records)} = IdsIn(r, Everything)
  /\ DOMAIN r.slices = Sliced \X ({Everything} \cup domains)
  /\ \A key \in DOMAIN r.slices :
       /\ r.slices[key].count = Cardinality(IdsIn(r, key[2]))
       /\ Times(r.slices[key].mean, r.slices[key].count) = Sums(Of(r, key[2]), key[1])
  /\ \A m \in Metrics : r.aggregates[m] = r.slices[<<m, Everything>>]
  /\ r.hallucination.rate = r.slices[<<"hallucination", Everything>>].mean

(* classify_failure: an example is flagged exactly when its answer claims   *)
(* what no text it was shown says, which a refusal never does; a degraded   *)
(* example is explained, by "unknown" when by nothing else; and what the    *)
(* provider cites it was shown.                                            *)
Unsaid(observation) ==
  /\ ~observation.answer.refusal
  /\ \E i \in DOMAIN observation.answer.citations :
       ~\E t \in Texts(observation.context) :
          Says(t, observation.answer.citations[i].claim)

Explains(categories, record, observation) ==
  /\ record.hallucinated <=> Unsaid(observation)
  /\ record.hallucinated <=> "generation_unsupported_claim" \in categories
  /\ "citation_failure" \notin categories
  /\ "unknown" \in categories => categories = {"unknown"}
  /\ (\E m \in Metrics : record.scores[m] # One) => categories # {}

Observations(r, id) ==
  {checkpoints[slot].observation :
     slot \in {s \in DOMAIN checkpoints : /\ s = <<r.config.id, id>>
                                          /\ checkpoints[s].scope = <<r.dataset, r.config>>}}

(* phase15_evaluation_reconciliation: a domain's winners are the            *)
(* configurations whose records there have the highest sum of scores.       *)
Merit(r, d) ==
  Total(<<Sums(Of(r, d), "context_precision"), Sums(Of(r, d), "context_recall"),
          Sums(Of(r, d), "faithfulness"), Sums(Of(r, d), "answer_relevancy")>>)

Deserved(won, done, d) ==
  \E merits \in {[i \in DOMAIN done |-> Merit(done[i], d)]} :
    \A i \in DOMAIN done :
      done[i].config.id \in won <=> \A j \in DOMAIN done : AtLeast(merits[i], merits[j])

SummaryIsFaithful ==
  /\ \A c \in DOMAIN runs : \E r \in {runs[c][2]} :
       /\ AddsUp(r, {e.domain : e \in Examples(r)})
       /\ \A record \in ToSet(r.records) : \A observation \in Observations(r, record.id) :
            Explains(r.failures[record.id], record, observation)
  /\ IsWhole(summary) /\ finished # 0 =>
       \A d \in DOMAIN summary[2].winners :
         Deserved(summary[2].winners[d], reports["json"][2].runs, d)

(* run_matrix, write_comparative_reports, LocalJsonExperimentTracker: when  *)
(* a run has finished, its reports, its summary and the run files are all   *)
(* of this run and say the same, and the log has every configuration,       *)
(* except that a torn end of the log swallows the first.  At any time an    *)
(* event is about a run file that is there, of the same run or a later one, *)
(* and a report that can be read is at least as late as the summary.        *)
ReadableEvents ==
  {log[i][2] : i \in {i \in DOMAIN log : IsWhole(log[i]) /\ (i > 1 => IsWhole(log[i - 1]))}}

Unlogged(n) == {c \in ToSet(plan.matrix) :
                  ~\E event \in ReadableEvents : event.n = n /\ event.config = c.id}

Complete(n, report) ==
  /\ report.n = n /\ Len(report.runs) = Len(plan.matrix)
  /\ \A f \in Formats : reports[f] = Whole(report)
  /\ IsWhole(summary) /\ summary[2].n = n /\ summary[2].dataset = report.dataset
  /\ \A i \in DOMAIN plan.matrix : runs[plan.matrix[i].id] = Whole(report.runs[i])
  /\ \A r \in ToSet(report.runs) : r.n = n /\ r.dataset = report.dataset
  /\ Unlogged(n) # {} => Unlogged(n) = {plan.matrix[1]} /\ Torn \in ToSet(log)

EvidenceAgrees ==
  /\ finished # 0 =>
       /\ IsWhole(reports["json"])
       /\ Complete(finished, reports["json"][2])
  /\ \A event \in ReadableEvents : \E r \in {runs[event.config][2]} :
       r.n >= event.n /\ (r.n = event.n => event.metrics = r.slices)
  /\ IsWhole(summary) =>
       \A f \in Formats : IsWhole(reports[f]) => reports[f][2].n >= summary[2].n

(* compare_metric_slices and evaluation_gate: a comparison or a gate that   *)
(* neither fails nor alerts is right by the records themselves; one that    *)
(* does has a reason: something misses its limit, or meets it exactly and   *)
(* is at the mercy of rounding.  A pull request is blocked, a night is      *)
(* alerted.                                                                *)
Reaches(f, g, clearly) == IF clearly THEN Greater(f, g) ELSE AtLeast(f, g)

Meets(before, after, t, clearly) ==
  \E was \in {Of(before, t.slice[2])}, is \in {Of(after, t.slice[2])} :
    /\ t.slice[1] \in Sliced
    /\ was # <<>> /\ Len(was) = Len(is) /\ Len(is) >= t.min_samples
    /\ t.min_score # <<>> =>
         Reaches(Sums(is, t.slice[1]), Times(t.min_score, Len(is)), clearly)
    /\ Reaches(Plus(Sums(is, t.slice[1]), Times(t.max_drop, Len(is))),
               Sums(was, t.slice[1]), clearly)

Passable(clearly) ==
  \/ /\ verdict.tool = "compare"
     /\ \A t \in plan.thresholds : Meets(verdict.baseline, verdict.candidate, t, clearly)
  \/ /\ verdict.tool = "gate"
     /\ Len(verdict.records) = 3
     /\ \A m \in Metrics :
          Reaches(Sums(verdict.records, m), Times(Minimums[m], 3), clearly)

GateIsSound ==
  verdict # NoVerdict =>
    /\ ~Passable(FALSE) => verdict.fails \/ verdict.alerts
    /\ Passable(TRUE) => ~verdict.fails /\ ~verdict.alerts
    /\ verdict.fails => verdict.mode \in {"pr", "pr_fast"} \/ verdict.tool = "raised"
    /\ verdict.alerts => verdict.mode \in {"nightly", "nightly_full"}
=============================================================================
