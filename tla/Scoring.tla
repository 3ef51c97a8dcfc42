------------------------------ MODULE Scoring ------------------------------
(***************************************************************************)
(* The evaluation arithmetic: metrics and the rule judge                    *)
(* (evaluation/metrics.py, judges.py), the records and aggregates of        *)
(* EvaluationEngine (engine.py), the metric slices of the runner, the       *)
(* failure taxonomy (failures.py), the regression comparison                *)
(* (regression.py) and the rules of scripts/evaluation_gate.py.             *)
(*                                                                         *)
(* Scores are fractions in lowest terms; the code adds and compares floats,  *)
(* which Below is about.  An example has an id (a number),  *)
(* a domain, the texts question and reference, its supporting chunks and    *)
(* documents, tags, and whether it needs a table.  An observation has an    *)
(* answer (text, citations, cited chunks, refusal), the retrieved chunks    *)
(* and the context: the text of each chunk that was supplied.               *)
(***************************************************************************)
EXTENDS Words

Gcd[p \in Nat \X Nat] == IF p[2] = 0 THEN p[1] ELSE Gcd[<<p[2], p[1] % p[2]>>]
Lowest(n, d, g) == <<n \div g, d \div g>>
Ratio(n, d) == Lowest(n, d, Gcd[<<d, n>>])
Zero == <<0, 1>>
One == <<1, 1>>

Plus(f, g) == Ratio(f[1] * g[2] + g[1] * f[2], f[2] * g[2])
Over(f, n) == Ratio(f[1], f[2] * n)

Total(scores) ==
  LET sum[i \in 0..Len(scores)] == IF i = 0 THEN Zero ELSE Plus(sum[i - 1], scores[i])
  IN sum[Len(scores)]

Mean(scores) == Over(Total(scores), Len(scores))

(* f < g in floats.  Sums and differences of floats are off by a rounding   *)
(* error, which decides nothing between fractions that differ, and may go   *)
(* either way between equal ones (0.7 - 0.8 < -0.1 holds): unlucky says      *)
(* which way.  A plain quotient is the nearest float, and compared exactly.  *)
Below(f, g, unlucky) == IF unlucky THEN AtLeast(g, f) ELSE Greater(g, f)

-----------------------------------------------------------------------------
(* load_evaluation_jsonl and validate_evaluation_records, without manifest  *)

InvalidDataset(dataset) ==
  \/ dataset = <<>>
  \/ \E i, j \in DOMAIN dataset : i # j /\ dataset[i].id = dataset[j].id
  \/ \E i \in DOMAIN dataset :
       \/ ~IsInjective(dataset[i].supporting)
       \/ ~IsInjective(dataset[i].documents)
       \/ ~(ToSet(dataset[i].documents) \subseteq dataset[i].declared)

ById(dataset) == Ordered(ToSet(dataset), LAMBDA a, b : a.id < b.id)

-----------------------------------------------------------------------------
(* Metrics                                                                 *)

Precision(retrieved, supporting) ==
  IF retrieved = {} THEN IF supporting = {} THEN One ELSE Zero
  ELSE Ratio(Cardinality(retrieved \cap supporting), Cardinality(retrieved))

Recall(retrieved, supporting) ==
  IF supporting = {} THEN One
  ELSE Ratio(Cardinality(retrieved \cap supporting), Cardinality(supporting))

AddClaim(claims, c) == IF c \in ToSet(claims) THEN claims ELSE Append(claims, c)

Unique(claims) ==
  LET unique[i \in 0..Len(claims)] ==
        IF i = 0 THEN <<>> ELSE AddClaim(unique[i - 1], claims[i])
  IN unique[Len(claims)]

Say(sentences, text, i) ==
  IF i > 1 /\ Last(text[i - 1]) # Stop THEN Extended(sentences, text[i])
  ELSE Append(sentences, <<text[i]>>)

Said(text) ==
  LET said[i \in 0..Len(text)] == IF i = 0 THEN <<>> ELSE Say(said[i - 1], text, i)
  IN said[Len(text)]

(* The cited claims, or without any the sentences of the answer.            *)
CitedClaims(answer) ==
  Without([i \in DOMAIN answer.citations |-> answer.citations[i].claim], <<>>)

Claims(answer) ==
  IF answer.refusal THEN <<>>
  ELSE IF CitedClaims(answer) # <<>> THEN Unique(CitedClaims(answer))
  ELSE Unique(Said(answer.text))

(* DeterministicRuleJudge                                                  *)
Bare(w) == IF Last(w) = Stop THEN Front(w) ELSE w
Tokens(text) == {Bare(text[i]) : i \in DOMAIN text}

Says(text, claim) ==
  \E k \in 0..(Len(text) - Len(claim)) : SubSeq(text, k + 1, k + Len(claim)) = claim

HalfSaid(text, claim) ==
  2 * Cardinality(Tokens(claim) \cap Tokens(text)) >= Cardinality(Tokens(claim))

Support(claim, texts) ==
  IF \E t \in texts : Says(t, claim) THEN One
  ELSE IF \E t \in texts : HalfSaid(t, claim) THEN <<1, 2>> ELSE Zero

Texts(context) == {context[c] : c \in DOMAIN context}

FaithfulnessOf(claims, refusal, texts) ==
  IF claims = <<>> THEN IF refusal THEN One ELSE Zero
  ELSE Mean([i \in DOMAIN claims |-> Support(claims[i], texts)])

Relevancy(said, target) ==
  IF target = {} THEN Zero ELSE Ratio(Cardinality(said \cap target), Cardinality(target))

(* EvaluationEngine.evaluate for one example                               *)
Metrics == {"context_precision", "context_recall", "faithfulness", "answer_relevancy"}

ScoresOf(example, answer, retrieved, context) ==
  [context_precision |-> Precision(retrieved, ToSet(example.supporting)),
   context_recall |-> Recall(retrieved, ToSet(example.supporting)),
   faithfulness |-> FaithfulnessOf(Claims(answer), answer.refusal, Texts(context)),
   answer_relevancy |-> Relevancy(Tokens(answer.text),
                          Tokens(example.question) \cup Tokens(example.reference))]

Threshold == <<4, 5>>
Hallucinated(faithfulness) == Greater(Threshold, faithfulness)

Judged(id, scores) ==
  [id |-> id, scores |-> scores, hallucinated |-> Hallucinated(scores.faithfulness)]

RecordOf(observation) ==
  Judged(observation.example.id,
         ScoresOf(observation.example, observation.answer, ToSet(observation.retrieved),
                  observation.context))

-----------------------------------------------------------------------------
(* Aggregates of the engine, and slices recomputed from the records.        *)

Aggregates(records) ==
  [m \in Metrics |-> [count |-> Len(records),
                      mean |-> Mean([i \in DOMAIN records |-> records[i].scores[m]])]]

Flagged(records) == Len(Only(records, {r \in ToSet(records) : r.hallucinated}))

HallucinationSummary(records) ==
  [flagged |-> Flagged(records), total |-> Len(records),
   rate |-> Ratio(Flagged(records), Len(records))]

Sliced == Metrics \cup {"hallucination"}
Everything == "overall"

ResultOf(record, metric) ==
  IF metric # "hallucination" THEN record.scores[metric]
  ELSE IF record.hallucinated THEN One ELSE Zero

SliceOf(records, metric) ==
  [count |-> Len(records),
   mean |-> Mean([i \in DOMAIN records |-> ResultOf(records[i], metric)])]

InDomain(records, domains, d) ==
  Only(records, {r \in ToSet(records) : d \in {Everything, domains[r.id]}})

(* aggregate_metric_slices; domains[id] is the domain of an example.        *)
Slices(records, domains) ==
  [key \in Sliced \X ({Everything} \cup {domains[r.id] : r \in ToSet(records)}) |->
     SliceOf(InDomain(records, domains, key[2]), key[1])]

-----------------------------------------------------------------------------
(* classify_failure: the categories of a record, none if it is fine.        *)

When(condition, category) == IF condition THEN {category} ELSE {}

RetrievalCauses(example, recall) ==
  When(example.table /\ recall # One, "table_fragmentation")
  \cup When("vocabulary_mismatch" \in example.tags /\ recall # One, "vocabulary_mismatch")
  \cup When(example.tags \cap {"long_range_reference", "long_range"} # {} /\ recall # One,
            "long_range_reference")
  \cup When(recall = Zero, "retrieval_miss")

Cited(answer) ==
  ToSet(answer.cited) \cup {answer.citations[i].chunk : i \in DOMAIN answer.citations}

(* Faulty variant: a refusal has to cite too.                               *)
CitationFails_OfRefusals(answer, cited, context) ==
  cited = {} \/ ~(cited \subseteq DOMAIN context)

CitationFails(answer, cited, context) ==
  ~answer.refusal /\ (cited = {} \/ ~(cited \subseteq DOMAIN context))

NamedCauses(observation, record, config) ==
  RetrievalCauses(observation.example, record.scores.context_recall)
  \cup When(/\ config.pipeline = "hybrid_rerank"
            /\ "reranker_error" \in observation.example.tags, "reranker_error")
  \cup When(CitationFails(observation.answer, Cited(observation.answer),
                          observation.context), "citation_failure")
  \cup When(record.hallucinated, "generation_unsupported_claim")

Degraded(record) == \E m \in Metrics : record.scores[m] # One

Causes(named, record) ==
  IF named = {} /\ Degraded(record) THEN {"unknown"} ELSE named

FailureCategories(observation, record, config) ==
  Causes(NamedCauses(observation, record, config), record)

-----------------------------------------------------------------------------
(* compare_metric_slices: a threshold names a slice, the largest drop, a    *)
(* floor (none: <<>>) and the least sample; unlucky is the set of those     *)
(* where the floats of equal fractions come out as a difference.            *)

Comparable(before, after, threshold) ==
  /\ before.count = after.count
  /\ before.count >= threshold.min_samples

Degrades(before, after, threshold, unlucky) ==
  \/ threshold.min_score # <<>> /\ Below(after.mean, threshold.min_score, unlucky)
  \/ Below(Plus(after.mean, threshold.max_drop), before.mean, unlucky)

Status(baseline, candidate, threshold, unlucky) ==
  IF threshold.slice \notin DOMAIN baseline \cap DOMAIN candidate THEN "missing_metric"
  ELSE IF ~Comparable(baseline[threshold.slice], candidate[threshold.slice], threshold)
  THEN "sample_size_mismatch"
  ELSE IF Degrades(baseline[threshold.slice], candidate[threshold.slice], threshold, unlucky)
  THEN "degradation"
  ELSE IF Below(baseline[threshold.slice].mean, candidate[threshold.slice].mean, unlucky)
  THEN "improvement" ELSE "stable"

Violating == {"missing_metric", "sample_size_mismatch", "degradation"}

(* Faulty variant: a slice that one side lacks is passed over.              *)
Violations_OfPresent(baseline, candidate, thresholds, unlucky) ==
  {t \in thresholds :
     Status(baseline, candidate, t, t \in unlucky) \in Violating \ {"missing_metric"}}

Violations(baseline, candidate, thresholds, unlucky) ==
  {t \in thresholds : Status(baseline, candidate, t, t \in unlucky) \in Violating}

(* evaluation_gate.py: the floors of the fixture; the violations by name.   *)
Minimums ==
  [context_precision |-> <<4, 5>>, context_recall |-> <<4, 5>>,
   faithfulness |-> <<4, 5>>, answer_relevancy |-> <<7, 10>>]

BelowFloor(aggregates, unlucky) ==
  {m \in Metrics : Below(aggregates[m].mean, Minimums[m], m \in unlucky)}

GateViolations(aggregates, hallucination, unlucky) ==
  BelowFloor(aggregates, unlucky)
  \cup When(hallucination.total < 3, "fixture_records")
  \cup When(Greater(hallucination.rate, <<17, 50>>), "hallucination_rate")
=============================================================================
