# A TLA+ development for RagEval

RagEval is a retrieval-augmented generation service with a built-in evaluation
system: documents are parsed, cleaned, chunked and indexed (Qdrant for dense
vectors, a BM25 snapshot for sparse search), queries are answered by a hybrid
retriever, a reranker and a grounded generator, an evaluation runner scores the
whole pipeline over ablation configurations, and a FastAPI application serves
queries and evaluation jobs. This directory holds TLA+ models of the parts whose
behaviour is hard to test, the TLC configurations that check them on small
instances, and proofs that hold for every instance.

Source paths below are relative to `src/rageval/`.

## 1. Inventory

| Component | State it keeps | Operations | What is hard |
|---|---|---|---|
| Evaluation jobs (`serving/jobs.py`, lifespan in `serving/app.py`) | queue, records, latest summary, worker tasks | `start`, `stop`, `submit`, `status`, `latest`, the worker loop | several workers, shutdown in the middle of jobs, restarts, a full queue, metrics published after the lock is released |
| Query serving (`serving/app.py`, `cache.py`, `observability/telemetry.py`) | semaphore, Redis cache, query tasks, streams | guards, `execute_query`, `_stream_query` | timeouts against permits, disconnects at every point, failures around the cache, a cache that outlives the index |
| Rate limiter (`serving/security.py`) | one fixed window per key | `allow` | bursts across windows, truncation in Retry-After |
| Readiness (`serving/health.py`) | none | `readiness` | nothing: a loop over probes |
| Evaluation runner (`evaluation/runner.py`) | checkpoints and reports on disk, attempts, semaphore | `run_configuration`, `run_matrix`, checkpoint `load` and `save` | crash between any two file operations, writing threads that outlive their cancelled run, resume, stale checkpoints, two runs in one directory |
| Evaluation engine, metrics, judges (`evaluation/engine.py`, ...) | none | `evaluate`, metric functions | two computations of the same averages, retries over all examples |
| Failure taxonomy, regression gate (`evaluation/failures.py`, `regression.py`) | none | `classify_failure`, the gate | precedence of the classes, missing slices, floats compared at a limit |
| Dense index (`retrieval/dense/qdrant.py`) | a Qdrant collection | `ensure_collection`, `upsert_document`, `delete_document`, `replace_document`, consistency check, `search` | several remote calls per operation, each of which may fail or be applied without an answer; concurrent clients |
| Sparse index (`retrieval/sparse/bm25.py`) | an immutable snapshot | `build`, `save`, `load`, `search` | a snapshot file that is torn or edited in what no check compares, ranking and filters |
| Reports and tracking (`evaluation/reporting.py`, `tracking.py`) | three report files, a log of events | `write_comparative_reports`, `log_run` | concurrent writes in place, a torn last line |
| Hybrid retrieval (`retrieval/hybrid/`) | none | expansion, concurrent branches, RRF fusion | one branch failing or being cancelled while the other runs |
| Reranking, retrieval service (`retrieval/rerank/`, `retrieval/service/`) | none | rerank, multi-hop orchestration, merging | bounds on hops, duplicates across hops, retries of the hosted reranker |
| Grounded generation (`generation/`) | none | context assembly, generation with repair, abstention | a provider that cites what it was not given, retries within repairs |
| Observability (`observability/`) | counters, drift windows, traces | `record_*`, drift statistics | bounded windows |
| Ingestion (`ingestion/`) | one file per parsed document, `_failures.json` | the PDF, DOCX and HTML loaders, `rageval-parse corpus` | a corpus that changes under the tool, order of elements, OCR that fails |
| Corpus manifest (`corpus/`) | the manifest file | `scan`, `validate`, `read_manifest` | one source in both splits, files that change after their validation |
| Cleaning (`cleaning/`) | none | `clean_parsed_document` | evidence of what is removed, greedy grouping of duplicates |
| Chunking (`chunking/`) | none | `ChunkingEngine.chunk` | windows, table rows and repeated headers at their limits |
| Core, web console, scripts, deployment | none | configuration, clients, drivers | not protocols |

The serving application calls the query service (retrieval and generation) from
`execute_query` and the evaluation runner from the executor of the job manager;
the runner calls the pipeline through an observation provider and the engine
through the judges. They share the vector index, the cache and the output
directory of evaluations, and each of those is a source of the hazards listed in
`PROJECT.json`. Offline, the tools hand files to each other: a scan writes the
manifest that validation and parsing read, the index report runs parser, cleaner,
chunker and index builder over every document, and a reconciliation runs the
evaluation matrix and leaves checkpoints, run files, a log, reports and a summary
for the gates and for whoever reads them.

## 2. Modules

| Module | Models | How its state and actions correspond to the code |
|---|---|---|
| `EvaluationJobs` | `EvaluationJobManager`, the lifespan, `POST /eval/run` | one variable per field of the manager and of a record; one action per stretch between two awaits that suspend |
| `JobBoard` | what clients of the evaluation endpoints are promised | abstract specification; `EvaluationJobs` implements it (`ImplementsJobBoard`) |
| `QueryServing` | `POST /query` with guards, cache, semaphore, timeout and stream; crashes, deployments, index rebuilds at any moment | a request's `pc` is the await its `execute_query` is at, `stream` the state of its generator |
| `RateLimiter` | `FixedWindowRateLimiter.allow` | one window, a clock in ticks |
| `EvaluationRunner` | `run_configuration`, `_produce_one`, `CheckpointStore`, `_write_atomic` | a task per run and example at one of its awaits or, in its thread, file operations; files are what a reader would find in them |
| `DenseIndex` | `QdrantDenseIndex` | an operation of a client is at one of its remote calls; the collection with its points is the server's state |
| `Orders` | `sorted()` over a set, fractions | operators that ranking, scoring and lists of files share |
| `Fusion` | `fuse_rrf` | operators: ranks, scores as exact fractions, the order and the cut |
| `Retrieval` | `RetrievalService.search`, `HybridRetriever`, `RerankingEngine` | `pc` is the await the call is at, `branch` the two tasks of the hop; extends `Fusion` |
| `Generation` | `GroundedGenerationService.answer`, `ContextAssembler`, `GroundedGenerationEngine` | `pc` is the await the call is at; the context is an operator of the retrieved results |
| `Words`, `Files` | the texts and the files of the offline tools | a text is a sequence of rows of words; a file is absent, torn or whole |
| `Parsing` | `parse_document` with the three loaders | operators, one per loop body, from what the libraries report to elements |
| `Cleaning` | `clean_parsed_document`, `normalize_text` | operators, one per pass over the elements |
| `Chunking` | `ChunkingEngine.chunk` | operators: pieces, windows, groups of rows, groups of sentences |
| `Corpus` | `scan_corpus`, `read_manifest`, the leak checks | operators on documents and manifests |
| `SparseIndex` | `BM25SparseIndex`, `DomainAwareTokenizer` | operators: snapshot, its checks, filters, scores, ranking |
| `Workbench` | `rageval-corpus`, `rageval-parse corpus`, `sparse_fixture_report.py`, queries on a saved index | composes the modules above: `job` is the tool at work, and each step of it touches one file, between edits and deaths |
| `Scoring` | metrics, the rule judge, engine aggregates, slices, failure taxonomy, regression comparison, the rules of the gate | operators on exact fractions |
| `Reconciliation` | `phase15_evaluation_reconciliation.py` with `run_matrix`, reports and tracker; comparisons and `evaluation_gate.py` | extends `Scoring`: `run` is the process and its step, the other variables are the files of the output directory |
| `EvaluationJobs_proofs`, `Serving_proofs` (query serving and rate limiter), `EvaluationRunner_proofs`, `DenseIndex_proofs`, `Retrieval_proofs`, `Generation_proofs`, `Documents_proofs` (lemmas about cleaning, chunks and the sparse index), `Offline_proofs` | - | the theorems about these modules, with their inductive invariants |
| `MCEvaluationRunner`, `MCDenseIndex`, `MCRetrieval`, `MCGeneration`, `MCOffline` | - | values of the constants and symmetry sets for TLC; `MCOffline` also puts `Workbench` and `Reconciliation` side by side |

### Abstractions

- One event loop: code between two awaits that suspend is atomic. The manager's
  `asyncio.Lock` is never held across a suspension, so it needs no variable.
- `asyncio.Semaphore` grants permits in FIFO order; the models allow any order,
  which is more behaviour.
- Job ids are uuid4 and are renamed to their order of acceptance.
- Payloads are reduced to what the properties tell apart: an answer is the
  question and the index version it was made from, an observation the
  fingerprints and the index version.
- The guards of `POST /query` (header and body limits, API key, rate limit,
  validation) all answer before `execute_query` and are one action; the rate
  limiter has a module of its own.
- RRF scores are exact fractions, compared by cross multiplication; the code
  adds two floating-point numbers, whose order agrees unless two scores differ by
  less than their precision.
- A retrieved result is a chunk with a number of tokens; the framing that
  rendering puts around it is a number too, and likeness of texts is a relation
  given as a constant, which need not be transitive.
- An exception that is not an `HTTPException` passes through `call_next` of the
  middleware and is answered with a 500 outside it, as Starlette does.
- Offline texts are rows of words, and a word is a few pieces; lengths that the
  code counts in characters are counted in words. A hyphenated break, a page
  number, a clause label, a sentence end or an invisible character is modelled by
  what the code's patterns do with it. What PyMuPDF, python-docx, BeautifulSoup
  and Tesseract find in a file is given.
- A checksum, a fingerprint or an id made from a digest is the value it digests:
  two of them are equal when the values are.
- One offline tool runs at a time, and a step of it touches one file. Tools that
  write with `write_text` may leave a torn file when they die; a torn file does
  not parse.
- The index report saves its index to a temporary directory and removes it; the
  model keeps it as the saved index that later queries load, as the sub-commands
  of `retrieval/sparse/cli.py` do with theirs.
- BM25 scores are integers in thousandths, with natural logarithms from a table
  (an index has at most `MaxEntries` chunks, which is a guard of `SaveIndex`).
- Evaluation scores are exact fractions, where the code has floats, which it compares
  as they are. Fractions that differ have denominators far too small for rounding to
  change their order. Equal ones may compare either way after a sum or a difference
  (`0.7 - 0.8 < -0.1` holds), so `Below` takes the outcome of the rounding as a
  parameter, `unlucky`, which comparisons and gates choose at will for every threshold.
  That admits more outcomes than one particular computation has. The winners of a
  reconciliation are compared within `1e-12`, which is what exact fractions do.
- In `Reconciliation` the examples of a configuration are observed one after the
  other, since `EvaluationRunner` has their concurrency.
- In `EvaluationRunner` a run that is cancelled ends at the await it is at, but a
  thread of `asyncio.to_thread` that was started goes on opening, writing and renaming
  its file beside later runs; a thread that waits for its executor may be dropped. Only
  the death of the process ends threads. `shared` remembers the examples on which two
  runs, or a run and such a thread, once had work under way together.
- Re-indexing is an action of the environment: at any moment in `QueryServing`, whose
  answers are its subject, and between runs in `EvaluationRunner`, where a report made
  while the index changes would name one of two indexes whatever the code did.
- `create_app` is given its `cache_identity`; nothing compares it with the index. `Boot`
  chooses any identity, and an index may be replaced under a running process.
- Manifests are edited by cutting them or changing their first document, with the
  fingerprint left as it is. An editor who also recomputes the fingerprint makes another
  manifest, of which nothing is claimed.
- Items of a list start with a bullet, a hyphen, or a number or letter and a stop;
  `rageval-parse corpus` filters by split and by domain.

Definitions named `X_Suffix` are faulty variants of the definition `X` that
follows them: plausible mistakes in that code. They are used by no
specification; each property is broken by one of them when it takes the place
of `X`, which shows what the property protects (`mutants` in `PROJECT.json`).

## 3. Runs

| Run | Module, configuration | What it shows |
|---|---|---|
| `jobs` | `EvaluationJobs`, `EvaluationJobs.cfg` | Two workers share a queue of two jobs across a shutdown and a restart, with executors that return, raise, cancel themselves or answer a cancellation with an error: no job is lost, duplicated, overtaken or executed twice, counters and gauges agree with the records, the manager implements JobBoard; with executors that behave, shutdowns complete and queued jobs settle. |
| `query_serving` | `QueryServing`, `QueryServing.cfg` | Two plain or streamed queries for one question compete for one permit with hits, misses, timeouts, provider and Redis failures, disconnects, crashes, a corpus that is indexed again at any moment and deployments with either identity: permits are conserved, an answer is of an index that was served under the identity in force, streams are well formed and complete, no query outlives its stream, every query and stream ends, and a disconnect alone frees what a streamed query holds. |
| `query_http_errors` (violation) | `QueryServing`, `QueryServing_HttpErrorsCounted.cfg` | An unexpected exception is answered with a 500 that the HTTP error counter never sees. |
| `rate_limiter` | `RateLimiter`, `RateLimiter.cfg` | Every timing of requests against the windows of the fixed-window limiter: bursts are bounded by twice the limit and Retry-After is late enough but at most a second too late. |
| `runner_resume` | `MCEvaluationRunner`, `EvaluationRunner_resume.cfg` | Two runs one after the other over two examples and two fingerprints with failures, retries, cancellations whose writing threads go on beside the next run, crashes between any two file operations and stale checkpoints: a checkpoint is torn only if two runs worked on its example at once, otherwise it is durable and never produced again, and reports hold evidence of one dataset and configuration. |
| `runner_overlap` | `MCEvaluationRunner`, `EvaluationRunner_overlap.cfg` | Two runs in one directory at the same time may tear a checkpoint, but a torn checkpoint is refused when it is loaded and is never evaluated; and every run that is not killed ends. |
| `runner_index` (violation) | `MCEvaluationRunner`, `EvaluationRunner_ReportsOneIndex.cfg` | A run repeated after the corpus was indexed again resumes observations made on the old index and reports them under the new index fingerprint. |
| `runner_checkpoints` (violation) | `MCEvaluationRunner`, `EvaluationRunner_CheckpointsIntact.cfg` | Two evaluation jobs that share the output directory write one temporary name, and a torn file becomes a checkpoint. |
| `dense_index` | `MCDenseIndex`, `DenseIndex.cfg` | Two clients upsert, replace, delete, check and search one document over a collection found in any state, every remote call of theirs open to failure before or after it took effect: the collection is never used before it is ready, an undisturbed upsert is complete, an undisturbed replacement is exact and never mixes versions even when it fails, scrolls are exact over their pages, and every operation ends. |
| `retrieval` | `MCRetrieval`, `Retrieval.cfg` | One search over three chunks, one of which the two indexes may hold in different versions, with failures and cancellations at every await, second hops and a reranker that answers anything, also after retries: no branch outlives its hop, fusion respects dominance, the context is faithful to what every branch of every hop returned, and the search ends. |
| `generation` | `MCGeneration`, `Generation.cfg` | Every list of up to three of five results, with a likeness that is not transitive and a budget that cuts some of them, against a provider that may reply anything and fail with retries: the context is exact, an answer cites only what the model was shown, and repairs with their retries send a bounded number of requests. |
| `offline` | `MCOffline`, `Offline.cfg` | The offline tools over corpus trees that people edit while the tools run, and over single documents in three formats under up to 42 choices of settings: no tool works on documents no scan wrote or on a leaking split, what was validated is what is parsed, every removal of the cleaner is justified, chunks lose and invent no word, and an answer of the sparse index comes from an index that was built, but for counts and lengths that nothing checks, passes the filter and is the best there is when nobody edited the index. Beside them the evaluation evidence of repeated reconciliations with failing judges, failing and torn writes, edited datasets and stale checkpoints: summaries, reports, log and run files agree with the records, and comparisons and gates are right by them. |

Bounds. Two workers, two requests or two runs are enough for every pairwise
race, since these models have no step that involves three of them; the two requests
ask one question, for which they compete in the cache (the proofs are for any number
of questions); a queue of
two and four jobs let the queue fill up, drain across a restart and overtake;
one permit makes every release observable; two scopes, two examples and two
attempts let a run fail for one example and keep the other. One document with
three chunks in two versions lets a replacement lose, keep and mix; three chunks
over two branches and up to three hops let fusion, merge and reranker reorder,
cut and collide; three results are the fewest for which likeness fails to be
transitive. The offline run has two halves, of which each behaviour moves one.
Its corpus trees have up to three documents in five places (both splits, an
unsupported suffix, a directory outside the layout), three contents of which one
does not parse, two edits, three commands and one death, which is enough to
change a file between any two steps of a tool and after it; and nine single
documents (six PDFs, of which three fail, one file that does not parse, a contract
and a paper) under every mode of OCR, two thresholds of the cleaner and seven settings of the chunker, so small that
windows, row groups and sentence groups meet their limits. Its evaluations have
the whole matrix of five configurations once, and two of them with up to three
runs, two deaths, two failing judges or reports, an edited dataset and four
datasets, one of which is refused. Every bound of a
counter is a CONSTANT with a comment `bound:` or, in the offline run, a budget of
the scenario.

Fairness. `FairSpec` assumes weak fairness of the steps of the event loop, which
runs every task that is ready, and of an executor, provider call or file
operation returning or raising. It assumes nothing of clients, of crashes, of
submissions or, in `QueryServing`, of the provider: `RequestsEnd` needs the timer
(`TimerFairness`), `DisconnectReleases` does not. `TimerFairness` also assumes that Redis
answers or fails: `cache.get` and `cache.set` (`app.py:259`, `app.py:283`) stand outside
`asyncio.timeout`, so a Redis that never answers would hold a query for ever. In
`EvaluationRunner` a thread that writes ends, also that of a cancelled run. In `DenseIndex` and `Retrieval`
a remote call returns or raises, since the clients have timeouts, and a pause before
a retry ends.

## 4. Findings

- **Unexpected errors are not counted.** `metrics.py:41` describes
  `rageval_http_errors_total` as "HTTP error responses by bounded route/status
  class", but an unexpected exception leaves `call_next` and skips `_finish`, so
  its 500 is in no metric (`HttpErrorsCounted`).
- **A resumed run mixes corpus indexes.** The checkpoint has no corpus index
  fingerprint, so a run repeated after re-indexing reports observations of the
  old index under the new fingerprint, against `phase-12-report.md:44`
  (`ReportsOneIndex`).
- **Overlapping runs tear checkpoints.** The temporary name of a checkpoint is
  fixed, so two evaluation jobs in one output directory can publish a torn file,
  against `phase-12-report.md:37` (`CheckpointsIntact` with a `JobConcurrency` of two). With
  one job at a time the same can happen after `stop()` and `start()`, between the thread
  of a cancelled job and the next one; `TornOnlyIfShared` says that nothing else tears a
  checkpoint. The tear is refused when it is loaded (`TornIsNeverEvaluated`), and then fails every
  later run until somebody deletes it.

## 5. Proofs

Every theorem holds for all values of the constants under the named assumptions
of its module (finite and non-empty sets, positive sizes, None not a value), and
for the steps of `Spec`, without fairness. A module of proofs has an
inductive invariant `IInv` (`Retrieval_proofs` has a second one, `SearchInv`,
`Generation_proofs` one for each of its two theorems, and `Offline_proofs` two
chains: `WorkInv`, `CleanInv`, `ReportInv` and `IndexInv` for the workbench, each holding
the one before, and `IInv`, `GateInv` and `FaithInv` for the evidence), shown to hold initially and
to be kept by each action, and derives its theorems from it.

**Jobs.** `TypeOK`, `QueueHoldsQueued`, `ExclusiveExecution`, `UnfinishedCount`,
`LatestIsNewestSuccess`, `QuietAfterStop`, `TerminalIsFinal`, `MetricsAgree`,
`InterruptedOnlyByCancel`, and that `EvaluationJobs` implements `JobBoard`.
None of the parts of `IInv` is inductive alone: `TypeOK` needs `UnfinishedCount`
(a decrement never passes zero) and the fact that a job being completed was not
counted among the completions; `ExclusiveExecution` needs `QueueHoldsQueued` (the
head of the queue is QUEUED, so nobody holds it); `QuietAfterStop` follows from
`Lifecycle`, which ties the tasks and the pending cancellations to the phase;
`LatestIsNewestSuccess` needs `CompletionRanks`, since a completion is ranked by
the number of completions before it. In the refinement every action of the manager
is a step of the board or changes nothing it shows; `IInv` supplies the guards,
for instance that a record being completed is RUNNING.

**Query serving.** `TypeOK`, `PermitsAccounted`, `StreamWellFormed`,
`NoOrphanQuery` and `AnswersMatchIdentity`. `PermitsAccounted` is kept by lemmas on
cardinality: a step adds one request to the holders or removes one, and moves the
counter the other way. `QueryState` says what a request knows at each await: while it
is answered, every index since its beginning was served under the identity of its
process, and what it is about to store is an answer to its own question over one of
these. `CacheState` says the same of every entry, whichever process left it. That is as
much as the code can promise: a deployment that gives each index an identity of its own
is never answered from another index, and one that indexes again under a running
process may be, until the entries expire; `phase-13-report.md:217` leaves it to the
deployment to change the identity. `StreamState` is what a stream has sent by its state.

**Rate limiter.** `RetryAfterIsConservative`, from one lemma on integer division;
the truncation in the code is what bounds the overshoot by a second. And
`BurstIsBounded`: the requests of the present window are the last `count` of the
sequence of all admitted ones, those before them were admitted before it opened, and
those `MaxRequests` further back a full window before, since a window opens only when
the one before it has expired (`Spaced`).

**Evaluation runner.** For any number of overlapping runs, `TornIsNeverEvaluated` and
`ReportsOneScope`, by `OwnScope` (a task holds observations of its own scope),
`Progress` and `Evaluable` (which tasks may be unfinished when a run evaluates).
For every `JobConcurrency`, `TornOnlyIfShared`, `SuccessIsDurable` and `NeverReproduced`,
which speak of the examples that two runs never worked on at once. One job at a time is
not enough for that, since the thread of a cancelled job goes on beside the next one;
`shared` is what the properties depend on instead. `Saved` is their invariant: two
pieces of work on one example are under way together only if it is shared (`Alone`);
otherwise the temporary file belongs to the one thread that writes it, whatever an
earlier run left there, and is whole when it is moved (`Saving`); and there is no
checkpoint while an observation is produced or saved (`NoCheckpointYet`). A cancellation
and a crash only take work away, which keeps all of it (`ForgetSaved`). Without `shared`
the first of the properties is false (section 4).

**Dense index.** `TypeOK`, `ReadyBeforeUse`, `WritesAreExact` and `ScrollIsExact`
for every content of the versions and every size of batches and pages. `Sound`
says of an operation what it relies on at each remote call, as a predicate of the
operation and of the parts of the collection: the collection is ready, what a scroll
has read are the chunks up to its offset, what a writer has written are the chunks
up to its batch. A step of one client is a step of its own operation, and either
leaves what the others rely on or marks them as disturbed.

**Retrieval.** `NoOrphanBranch` for every index, planner and reranker. With the
type of `branch` it is inductive: a call ends only where no task lives, because the
clean-up waits for both, and a hop starts two tasks only with the await that waits
for them. `FusionRespectsDominance` and `ContextIsFaithful`, for every answer of the
branches and every reranker, from `SearchInv`, which says what is known of the hops
at each await: their number, that each was fused from two answers whose payloads
agree, and that a call that is past the merge had no collision between hops. The rest
is about operators, as lemmas. A strict total order on a finite set has exactly one
member with each number of predecessors, so that `Ordered` lists every member once
and in order; the sort key of `fuse_rrf` is such an order, since its last component
is the chunk id, and dominance in the ranks implies it by arithmetic on the fractions
`1 / (k + rank)`. `Distinct`, the cut at `top_k` and the reranker's selection each
keep what the property says.

**Generation.** `AnswerIsGrounded` for every retrieval and context assembly, by an
invariant that ties the numbers of calls and of HTTP requests to the stage of the
answer: the calls that ended sent at most `MaxAttempts` requests each. What
`Assemble` returns does not matter for it. `ContextIsExact` is about nothing else. It
assumes that retrieval returns no chunk twice (`RetrievalAssumption`), which is what
`ContextsAreFaithful` proves of `Retrieval`; then an item of the context
has one place among the results. The recursive functions `Unique`, `RenderedTokens` and
`Truncation` are shown to exist and to have their values by induction over the set of
lengths for which the claim holds. The invariant of the binary search (`Searching`) is that
every size above `high` is too large, that the size before `low` is `best` and fits,
and that each round rules a size out, so that as many rounds as there are tokens are
enough.

**Workbench.** `ManifestsAreScanned` and `ValidatedIsTrue`, for every layout, contents
of the files and history of commands, edits and deaths. The assumption on the
scenarios (`ScenarioAssumption`) is that the split asked for is one of the
three choices the command line admits, and that every file has bytes, which are
numbered, and a place in the layout. Neither property is inductive: what a
command reads depends on what an editor left in the manifest before. `WorkInv` adds that
a readable manifest is a scanned one that was cut and whose first document was changed
(`ManifestIsDerived`, over any number of edits), what each command has done with its
list of documents at each step (`JobShape`), and that from a validation on until the next edit the files
still have the bytes the manifest gives (`Unedited`). The argument that matters
is `SameDocuments`: `read_manifest` compares a fingerprint of the documents as a bag, and a
manifest cut or changed at its head cannot have the bag it had when it was scanned, by
counting, so one that is accepted was not edited. The documents selected by split and
domain are a part of the list in its order (`SelectedIs`).

**Cleaning.** `RemovalsJustified`, for every document a loader can return and every
setting. `CleanInv` adds to `WorkInv` that the index report holds what a loader
returned and the outcome of cleaning just that (`ReportShape`). That a loader returns a
sequence of elements with their rows of words is an assumption on the scenarios
(`ParsingAssumption`, which TLC evaluates for every file of the run): the loaders are
folds, and no fact about a fold can be proved here. The rest is about the operators.
Normalization keeps rows of words (`NormalizeTyped`). After each
element, the clusters of near duplicates (`Clustered`) hold eligible elements seen so
far, no element twice, each cluster in increasing order with every member similar to
its first; so the first of a cluster is no duplicate, is not blank and was not removed
as a header: it stays. Headers and footers that look alike are one group, which repeats
or does not (`MarginGroup`); no element gets two pieces of evidence (`RemovalsAre`);
and what is kept are the other places in order, as many as there are (`KeptIs`,
`KeptCount`).

**Chunking.** `NothingIsLost`, for every document a loader can return, every strategy,
chunk size and overlap, every division of the words into sentences and every history of
commands. `ReportInv` adds to `CleanInv` that each report done tells every unit
(`IsReported`): it is the outcome of chunking the elements of its own cleaned
document, which are units with words only, no two of one source, so that the header of a
repeated chunk is found by its source. The assumption on the scenarios
(`ChunkerAssumption`) is what `ChunkingConfig` validates: chunk size and overlap are
natural numbers, the overlap the smaller one, and so is the limit of a semantic chunk;
without it the windows would not
advance, and `WindowsMeet` needs exactly that each starts before the last one ended and
ends after it. The rest is `Documents_proofs`, about the operators. The loops that gather
sentences, groups of sentences, windows, groups of rows and pieces are recursive
functions of the length seen, shown to exist (`FoldExists`) and to keep an
invariant (`FoldKept`): what is gathered so far, laid end to end, is what was cut so far.
Laying the parts end to end commutes with laying their words end to end
(`FlatByParts`), so that the chunks of a block (`BlockHolds`) and of a table
(`TableChunksHold`) hold what their units hold, and the document by the same lemma. A
table that is cut owes its header once if it is repeated and not at all if
it is not, which is the exception the property names.

`ChunksAreSound`, for the same documents, configurations and histories, by the same
invariant and one more of its parts: the elements of a report stand in the order of the
document (`Ascending`), which cleaning and the choice of units keep. What a unit gives
to the chunker, its words or the segments of its sentences, carries its source and page
and is never empty, so that walking along all of them visits unit after unit without
skipping one (`FlatWalk`): a stretch of them comes from neighbouring units, and from
one unit when it is one item long (`StretchIs`). Windows, groups of sentences and slices
of a table are such stretches (`WindowsStand`, `SegmentChunksStand`,
`TableChunksStand`). The limit is kept by the loops again: nothing is added to a group
that has no room left, so that one that is too long has one member (`GroupsSmall`,
`RowGroupsFew`). Two neighbours in a piece have no boundary between them
(`PiecesJoined`); between an element without a section and its neighbours there is
never one, and that is why the property allows two sections around it
(`JoinedSection`). A piece stands at some place in its document (`FlatPlace`), and what
stands on neighbours in the piece does so in the document (`ShiftStands`).

**Sparse index.** `AnswersAreExact`, for every corpus, configuration, query and history of
commands, edits of the saved snapshot, torn writes and deaths. Three more assumptions
are about values, not about behaviour: a path has a number in the order of paths
(`LayoutAssumption`), and a query is a sequence of words and asks for at least one result
(`ScenarioAssumption`; `search` refuses any other `top_k`). `IndexInv` adds to `ReportInv` that every
index that was saved is a built one (`BuiltAre`), that a snapshot file that can be read
has the fingerprints of one of them (`SnapshotIs`), and that the last answer is what a
search in such a snapshot returned (`AnswerIs`). An index that is built names every entry
by its chunk id (`IdsName`, `BuiltIs`): `build` refuses an id that comes twice, and the
ids of the report's chunks are numbers under the id of their document. An edit leaves
the fingerprints. What it changes beside them is either compared by the checks of
`__init__`, which then refuse the snapshot (`NoticedIs`), or it is counts, terms and
lengths of entries with their average, which leave the index that was built but for
those (`UnnoticedIs`, `OneIndex`). Of such a snapshot the theorem says that the results
are chunks of that index which pass the filter, each once; that they are the best ones
it says of a snapshot that is as it was saved, since a term or a length that was edited
changes scores and what a query finds. The rest
is about search. An entry with a term of the query has a positive score, whatever its
counts (`MatchesScore`), because the logarithm in `_idf` grows (`LnGrows`) and a term of
an entry saturates to at least a hundredth (`SaturationIs`); so `search`, which drops
scores that are not positive, drops none of them. Scores, and then ids, order results
strictly (`IdsAreOrdered`, `RankedIs`), so that a chunk beyond `top_k` scores no higher
than any of those kept (`BestAre`, `SearchIs`). The bound `MaxEntries` is a guard of
`SaveIndex`, since the table of logarithms ends there: the theorem is about indexes of
at most 15 chunks, any chunks.

**Reconciliation.** `EvidenceAgrees`, for every matrix, dataset, judge and history of
runs, deaths, failures and edits. The property is about a run that finished and about
files at rest; `IInv` adds how far the process is: `RunFiles` (what it has in memory of
the configurations it is past is in their run files), `RunLog` (the log has these and
no other events of this run, and only the first can stand behind a torn line),
`RunReports` (the reports written so far are its own, unless a write failed),
`LogIsTrue` (an event never tells of a run newer than the run file of its
configuration) and `FilesAreDated` (no file is newer than the last start).

`GateIsSound`, for every data set, text, matrix, policy and history of runs, failures,
deaths, edits and checks. The assumption on the plans (`PlanAssumption`) is what the
models of the code validate: the examples of a data set have texts, a threshold asks
for at least one sample, and what it allows and demands are fractions that are not
negative. The gate decides on means and the property on the records, so `GateInv` keeps,
through checkpoints, judges that raise and configurations that follow each other, that
a process has in memory observations of its own examples and records of them
(`InHand`), that every checkpoint holds an observation, and that every run file is
known (`Known`): an accepted data set, records of its examples with scores that are
fractions, and the slices computed from just these records. Nothing in it speaks of
means. These are the lemmas on `Scoring`: the greatest common divisor exists, is
unique and divides both numbers (`GcdIs`, `GcdDivides`), so a fraction in lowest terms
has the value it was made from (`RatioIs`); a total of scores is a fraction
(`TotalIs`); every judge's score is one (`RecordIs`, through claims, sentences and
the citations that support them); and a mean is below a floor, or below another mean by
more than a drop, exactly when the totals are, with the same say of the rounding where
they are equal (`FloorIs`, `DropIs`). So a verdict fails or alerts when the records miss
a limit, and does not when they are beyond all limits by any amount; on a limit itself
either is right (`Reaches`, `ReachesGrows`). That records fall
into the domains of their examples (`OfIs`) needs that `validate_evaluation_records`
refused a data set with an id twice (`ByIdIs`). With it each status of
`compare_metric_slices` is the one the records deserve (`StatusIs`); for the gate
(`GateIs`) the rules on the number of records and on flagged answers decide nothing
once the fixture report has three records and one of them flagged.

`SummaryIsFaithful`, for every data set, text, matrix and history of runs, resumed
checkpoints, failures, deaths and edits. `FaithInv` adds to `GateInv` what the files and
the process are made of: a checkpoint holds what the provider answers to the example of
its slot (`Genuine`); a process has in memory the observations of its examples and, from
them, the records, and while no example has failed those observed come before those due
(`Honest`); a run file has exactly one record per example of its data set and the slices
and failures computed from these records (`IsRun`); and when a run has finished, the
winners in the summary are those of the report beside it (`WinnersTrue`). That the slices
add up (`RunAddsUp`) is arithmetic of means: a mean times its sample is the total it was
made from (`RatioTimes`, `MeanParts`), whatever the order of the records (`PartsInOrder`).
That whatever lost a score is explained (`RecordExplained`) goes through what the judges
make of the provider's two answers, the reference or a refusal: every lost score has a
cause `classify_failure` looks for (`CausesExplain`), and an answer that is flagged
claims what no text shown says (`ClaimsBelow`, `ObserveExplained`). That the winners have
the best scores (`WinnersDeserve`) needs that every run of a report has the same number
of records in a domain, so that the greater mean of means belongs to the greater sum
(`CompositeIs`, `BestDeserve`). `PlanAssumption` also says that no reference, text or
invented claim is empty: `reference_answer`, `text` and `Citation.claim` have a
`min_length` of 1, and an empty claim would be cited by every text.

`UnfinishedCount`, `LatestIsNewestSuccess`, `QuietAfterStop`, `TerminalIsFinal` and
the three `TypeOK` have proofs and no run: a run would show on a small instance
what is proved for all.

Only model-checked: liveness, which is out of the prover's reach
(`QueuedJobsSettle`, `StopCompletes`, `RequestsEnd`, `DisconnectReleases`,
`RunsEnd`, `OperationsEnd`, `SearchEnds`). What the folds of the loaders return is an
assumption on the scenarios (`ParsingAssumption`). Every other property of a passing run
is proved.

## 6. Observations

Behaviour met while modelling that no document contradicts, so that no run is
about it:

- The counts of an entry (`term_frequencies`) are in no fingerprint of a sparse
  snapshot, and its `document_length` only in an average that is itself in none. Counts
  that change, terms that disappear, lengths that are swapped or that grow together with
  the average are not detected when the snapshot is loaded, although `bm25.py:180` and
  `docs/plans/phase-07` speak of an integrity check without saying of what;
  `AnswersAreExact` says what holds in spite of it.
- A drop of exactly `max_drop` may be reported as a degradation, or not, by the rounding
  of `after - before` (`regression.py:120`); `GateIsSound` leaves both open.
- With five claims of which one is unsupported an answer scores 0.8 and is not flagged as
  a hallucination (`engine.py`, `hallucination_threshold`). `SummaryIsFaithful` says of the
  fixture's answers, which have at most two claims, that each is flagged exactly when it
  claims what nothing shown says.
- `parse_corpus_document` does not compare a file with the checksum in the manifest, so
  `ValidatedIsTrue` ends with the first edit after a validation.
- An executor that answers its cancellation with an exception makes `stop()` wait for
  ever; `StopCompletes` is about executors that do not.
- `_parse_html` takes every tag that starts with `h` for a heading, `header`
  included, so that the header of an HTML page is a title and is never removed as
  a repeated header.
- A table of a PDF page that PyMuPDF cannot extract makes the loader drop every
  table of that page; their text comes back as ordinary blocks.
- With `repeat_table_header` off, the header of a table that is cut appears in
  none of its chunks (`NothingIsLost` names the exception).
- The line that follows a torn line of the tracker's file is glued to it and
  lost (`EvidenceAgrees` names the exception).
- In `evaluation_gate.py` the fixture report raises unless exactly one of its
  three records is flagged, so the gate's own rules on the number of records and
  on the hallucination rate never decide.

## 7. Not modelled

- Readiness, observability's traces, core configuration, the web console and the
  deployment files: no state that changes over several steps.
- Drift statistics: real arithmetic over windows of samples.
- The embedding providers, and how the reranker and the generator score and parse:
  their callers are modelled against every answer they may give. The attempts and
  pauses of the hosted reranker and generator are in `Retrieval` and `Generation`.
- The serving fixture runtime and `full_system_validation.py`: deterministic
  drivers of the components that are modelled.
- Ablation statistics, rendering of reports, the W&B tracker, the probes of the
  sparse report and `rageval-parse file`: they compute or print, and write nothing
  that another step reads.

## 8. Plan

1. Drift windows.
