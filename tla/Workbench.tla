----------------------------- MODULE Workbench -----------------------------
(***************************************************************************)
(* The command line tools of the offline pipeline, at work on one corpus    *)
(* directory that an editor keeps changing: rageval-corpus scan and         *)
(* validate (corpus/cli.py), rageval-parse corpus (ingestion/cli.py), the   *)
(* report that scans, parses, cleans, chunks and indexes the corpus         *)
(* (scripts/sparse_fixture_report.py) and queries on the saved index        *)
(* (retrieval/sparse/cli.py).                                              *)
(*                                                                         *)
(* One tool runs at a time.  A step of a tool touches one file, so that     *)
(* edits fall between any two of them, and a tool may die at every step; a  *)
(* file it was writing is then torn.                                       *)
(***************************************************************************)
EXTENDS Corpus, Parsing, Cleaning, Chunking, SparseIndex

CONSTANT Scenarios   \* what a behaviour starts from

(* The choices of rageval-parse corpus --split and --domain, or none of     *)
(* them; the library knows all bytes, the layout all paths; a query asks for *)
(* a result.                                                               *)
ASSUME ScenarioAssumption ==
  \A s \in Scenarios :
    /\ s.splits \subseteq Splits \cup {"both"} /\ s.domains \subseteq Domains \cup {"any"}
    /\ {s.disk[p] : p \in DOMAIN s.disk} \cup s.contents \subseteq DOMAIN s.library
    /\ DOMAIN s.library \subseteq Nat
    /\ DOMAIN s.disk \cup s.paths \subseteq DOMAIN Layout
    /\ \A q \in DOMAIN s.queries :
         \E query \in {s.queries[q]} :
           query.top_k \in Nat \ {0} /\ query.text \in Seq(ToSet(query.text))

(* What a loader returns is a ParsedDocument.                               *)
ASSUME ParsingAssumption ==
  \A s \in Scenarios : \A b \in DOMAIN s.library, type \in Supported :
    ParseDocument(s.library[b], type, type, s.parser).elements \in ParsedElements

(* ChunkingConfig, whatever the strategy.                                  *)
ASSUME ChunkerAssumption ==
  \A s \in Scenarios :
    /\ s.chunker.chunk_size \in Nat /\ s.chunker.overlap \in Nat
    /\ s.chunker.overlap < s.chunker.chunk_size /\ s.chunker.max_tokens \in Nat

VARIABLES
  setup,      \* the scenario, fixed: disk, library (the bytes that names stand
              \* for), settings, queries and budgets
  disk,       \* path -> name of its bytes, for the files there are
  job,        \* the tool at work, how far it is, and what it has in memory
  manifest,   \* the manifest file
  outputs,    \* document id -> debug JSON file, for those in the output directory
  failures,   \* _failures.json: the documents that failed
  snapshot,   \* the saved sparse index
  answer,     \* the last answered query, with its results
  left,       \* edits, commands and deaths that may still happen
  scanned,    \* history: the manifests that scans have written
  built,      \* history: the sparse indexes that were saved
  settled     \* history: a validation is running or succeeded, and no edit since it began

vars == <<setup, disk, job, manifest, outputs, failures, snapshot, answer, left,
          scanned, built, settled>>

files == <<manifest, outputs, failures, snapshot>>
history == <<scanned, built, settled>>

Idle == [command |-> "none", step |-> "none", todo |-> <<>>, documents |-> <<>>,
         done |-> <<>>, work |-> <<>>]
At(command, step) == job.command = command /\ job.step = step
NoAnswer == [query |-> 0]

Init ==
  /\ setup \in Scenarios
  /\ disk = setup.disk
  /\ job = Idle
  /\ manifest = Absent /\ failures = Absent /\ snapshot = Absent
  /\ outputs = <<>>
  /\ answer = NoAnswer
  /\ left = setup.budget
  /\ scanned = {} /\ built = {} /\ settled = "no"

Spend(kind) == left[kind] > 0 /\ left' = [left EXCEPT ![kind] = @ - 1]

-----------------------------------------------------------------------------
(* The editor.  A manifest edited by hand keeps its fingerprint, a snapshot *)
(* some of its fields.                                                     *)

Edit(path, bytes) ==
  /\ Spend("edits")
  /\ path \in DOMAIN disk => disk[path] # bytes
  /\ disk' = Put(disk, path, bytes)
  /\ settled' = "no"
  /\ UNCHANGED <<setup, job, files, answer, scanned, built>>

Delete(path) ==
  /\ Spend("edits")
  /\ disk' = [p \in DOMAIN disk \ {path} |-> disk[p]]
  /\ settled' = "no"
  /\ UNCHANGED <<setup, job, files, answer, scanned, built>>

EditManifest ==
  /\ Spend("edits")
  /\ IsWhole(manifest) /\ manifest[2].documents # <<>>
  /\ \E documents \in {Tail(manifest[2].documents)} \cup
       {[manifest[2].documents EXCEPT ![1].split = s] :
          s \in Splits \ {manifest[2].documents[1].split}} :
       manifest' = Whole([manifest[2] EXCEPT !.documents = documents])
  /\ settled' = "no"
  /\ UNCHANGED <<setup, disk, job, outputs, failures, snapshot, answer, scanned, built>>

(* The term counts of an entry are in no fingerprint, its length only in    *)
(* the average, which is in none: a count may change, a term come or go,    *)
(* lengths move, or grow with the average.                                 *)
Recounted(counts, terms) ==
  {[t \in DOMAIN counts |-> counts[t] + 1]}
  \cup {[t \in DOMAIN counts \ {u} |-> counts[t]] : u \in DOMAIN counts}
  \cup {Put(counts, u, 1) : u \in terms \ DOMAIN counts}

Relengthed(entries) ==
  {[entries EXCEPT ![1].document_length = @ + 1]}
  \cup {[entries EXCEPT ![1].document_length = 0,
                       ![i].document_length = @ + entries[1].document_length] :
          i \in 2..Len(entries)}

Unnoticed(s) ==
  {[s EXCEPT !.entries = entries, !.average_document_length = Average(entries)] :
     entries \in Relengthed(s.entries)
       \cup {[s.entries EXCEPT ![1].term_frequencies = counts] :
               counts \in Recounted(s.entries[1].term_frequencies,
                                   DOMAIN s.document_frequencies)}}

Noticed(s) ==
  LET rest == Tail(s.entries) IN
  {[s EXCEPT !.document_count = @ + 1],
   [s EXCEPT !.config.variant = "bm25"],
   [s EXCEPT !.entries = rest, !.document_frequencies = Frequencies(rest),
             !.average_document_length = Average(rest), !.document_count = @ - 1]}

EditSnapshot ==
  /\ Spend("edits")
  /\ IsWhole(snapshot) /\ snapshot[2].entries # <<>>
  /\ \E s \in Unnoticed(snapshot[2]) \cup Noticed(snapshot[2]) : snapshot' = Whole(s)
  /\ UNCHANGED <<setup, disk, job, manifest, outputs, failures, answer, history>>

-----------------------------------------------------------------------------
(* Scanning, the first part of scan and of the index report                 *)

Begin(command, step, todo, documents) ==
  /\ job = Idle
  /\ command \in setup.commands
  /\ Spend("commands")
  /\ job' = [Idle EXCEPT !.command = command, !.step = step, !.todo = todo,
                         !.documents = documents]

(* An error ends the tool; nothing is written.                             *)
Raise ==
  /\ job' = Idle
  /\ UNCHANGED <<setup, disk, files, answer, left, history>>

StartScan(command) ==
  /\ Begin(command, "scan", Listing(DOMAIN disk), <<>>)
  /\ UNCHANGED <<setup, disk, files, answer, history>>

Hashable(path) ==
  /\ Layout[path].suffix \in Supported
  /\ WellPlaced(path)
  /\ path \in DOMAIN disk

ScanFile ==
  /\ job.step = "scan" /\ job.todo # <<>>
  /\ LET path == Head(job.todo) IN
       /\ Layout[path].suffix \in Supported => Hashable(path)
       /\ job' = [job EXCEPT !.todo = Tail(@),
                    !.documents = IF Hashable(path)
                                  THEN Append(@, Document(path, disk[path])) ELSE @]
  /\ UNCHANGED <<setup, disk, files, answer, left, history>>

ScanFileRaises ==
  /\ job.step = "scan" /\ job.todo # <<>>
  /\ Layout[Head(job.todo)].suffix \in Supported /\ ~Hashable(Head(job.todo))
  /\ Raise

ScanRaises ==
  /\ job.step = "scan" /\ job.todo = <<>>
  /\ Leaks(job.documents)
  /\ Raise

WriteManifest ==
  /\ At("scan", "scan") /\ job.todo = <<>>
  /\ ~Leaks(job.documents)
  /\ manifest' = Whole(ManifestOf(job.documents))
  /\ scanned' = scanned \cup {ManifestOf(job.documents)}
  /\ job' = Idle
  /\ settled' = "no"
  /\ UNCHANGED <<setup, disk, outputs, failures, snapshot, answer, left, built>>

-----------------------------------------------------------------------------
(* validate                                                                *)

StartValidate ==
  /\ Acceptable(manifest)
  /\ Begin("validate", "check", manifest[2].documents, manifest[2].documents)
  /\ settled' = "checking"
  /\ UNCHANGED <<setup, disk, files, answer, scanned, built>>

(* Faulty variant: a file is looked for, and not read.                      *)
Current_Exists(document) == document.path \in DOMAIN disk

Current(document) ==
  document.path \in DOMAIN disk /\ disk[document.path] = document.checksum

ValidateFile ==
  /\ At("validate", "check") /\ job.todo # <<>>
  /\ Current(Head(job.todo))
  /\ job' = [job EXCEPT !.todo = Tail(@)]
  /\ UNCHANGED <<setup, disk, files, answer, left, history>>

ValidateRaises ==
  /\ At("validate", "check") /\ job.todo # <<>>
  /\ ~Current(Head(job.todo))
  /\ job' = Idle
  /\ settled' = "no"
  /\ UNCHANGED <<setup, disk, files, answer, left, scanned, built>>

Validated ==
  /\ At("validate", "check") /\ job.todo = <<>>
  /\ job' = Idle
  /\ settled' = IF settled = "checking" THEN "yes" ELSE "no"
  /\ UNCHANGED <<setup, disk, files, answer, left, scanned, built>>

-----------------------------------------------------------------------------
(* rageval-parse corpus: the documents of a split and a domain, or of any,  *)
(* are parsed one by one; a file that cannot be parsed is a failure and not *)
(* the end.                                                                *)

Wanted(document, split, domain) ==
  split \in {"both", document.split} /\ domain \in {"any", document.domain}

Selected(documents, split, domain) ==
  IF split = "both" /\ domain = "any" THEN documents
  ELSE Only(documents, {d \in ToSet(documents) : Wanted(d, split, domain)})

StartParse ==
  /\ Acceptable(manifest)
  /\ \E split \in setup.splits, domain \in setup.domains :
       Begin("parse", "parse", Selected(manifest[2].documents, split, domain),
             Selected(manifest[2].documents, split, domain))
  /\ UNCHANGED <<setup, disk, files, answer, history>>

(* read_manifest fails, in validate and in parse.                          *)
Refuse ==
  /\ job = Idle
  /\ setup.commands \cap {"validate", "parse"} # {}
  /\ ~Acceptable(manifest)
  /\ Spend("commands")
  /\ UNCHANGED <<setup, disk, job, files, answer, history>>

(* parse_corpus_document, on the bytes the file has now.                   *)
ParseNow(document) ==
  IF document.path \notin DOMAIN disk THEN Failed("DocumentParseError")
  ELSE ParseDocument(setup.library[disk[document.path]], document.type,
                     Layout[document.path].suffix, setup.parser)

BytesNow(document) == IF document.path \in DOMAIN disk THEN disk[document.path] ELSE 0

ParseFile ==
  /\ At("parse", "parse") /\ job.todo # <<>>
  /\ LET document == Head(job.todo) IN
       job' = [job EXCEPT
         !.todo = Tail(@),
         !.done = Append(@, [document |-> document, bytes |-> BytesNow(document),
                             result |-> ParseNow(document)])]
  /\ UNCHANGED <<setup, disk, files, answer, left, history>>

Successes == SelectSeq(job.done, LAMBDA r : r.result.status = "parsed")
Failures == SelectSeq(job.done, LAMBDA r : r.result.status # "parsed")

StartWriting ==
  /\ At("parse", "parse") /\ job.todo = <<>>
  /\ job' = [job EXCEPT !.step = "write", !.todo = Successes]
  /\ UNCHANGED <<setup, disk, files, answer, left, history>>

(* What an earlier run left in the directory stays.                        *)
WriteOutput ==
  /\ At("parse", "write") /\ job.todo # <<>>
  /\ LET r == Head(job.todo) IN
       outputs' = Put(outputs, r.document.document_id, Whole(r))
  /\ job' = [job EXCEPT !.todo = Tail(@)]
  /\ UNCHANGED <<setup, disk, manifest, failures, snapshot, answer, left, history>>

WriteFailures ==
  /\ At("parse", "write") /\ job.todo = <<>>
  /\ failures' = Whole([i \in DOMAIN Failures |-> Failures[i].document.document_id])
  /\ job' = Idle
  /\ UNCHANGED <<setup, disk, manifest, outputs, snapshot, answer, left, history>>

-----------------------------------------------------------------------------
(* The index report: scan, then parse, clean and chunk every document, then *)
(* build the index and save it.  Any error ends it.                        *)

StartIndexing ==
  /\ At("index", "scan") /\ job.todo = <<>>
  /\ ~Leaks(job.documents)
  /\ job' = [job EXCEPT !.step = "load", !.todo = job.documents]
  /\ UNCHANGED <<setup, disk, files, answer, left, history>>

LoadFile ==
  /\ At("index", "load") /\ job.todo # <<>>
  /\ \E result \in {ParseNow(Head(job.todo))} :
       /\ result.status = "parsed"
       /\ job' = [job EXCEPT !.step = "clean",
            !.work = [document |-> Head(job.todo), bytes |-> BytesNow(Head(job.todo)),
                      parsed |-> result.elements]]
  /\ UNCHANGED <<setup, disk, files, answer, left, history>>

LoadFileRaises ==
  /\ At("index", "load") /\ job.todo # <<>>
  /\ ParseNow(Head(job.todo)).status # "parsed"
  /\ Raise

CleanFile ==
  /\ At("index", "clean")
  /\ job' = [job EXCEPT !.step = "chunk",
       !.work = [document |-> @.document, bytes |-> @.bytes, parsed |-> @.parsed,
                 cleaned |-> Clean(@.parsed, setup.cleaner)]]
  /\ UNCHANGED <<setup, disk, files, answer, left, history>>

Chunked ==
  ChunkDocument(job.work.cleaned.elements, job.work.document.domain, setup.chunker)

ChunkFile ==
  /\ At("index", "chunk")
  /\ \E chunked \in {Chunked} :
       /\ chunked.status = "chunked"
       /\ job' = [job EXCEPT !.step = "load", !.todo = Tail(@), !.work = <<>>,
            !.done = Append(@, [document |-> job.work.document, bytes |-> job.work.bytes,
                                parsed |-> job.work.parsed, cleaned |-> job.work.cleaned,
                                chunks |-> chunked.chunks])]
  /\ UNCHANGED <<setup, disk, files, answer, left, history>>

ChunkFileRaises ==
  /\ At("index", "chunk")
  /\ Chunked.status # "chunked"
  /\ Raise

(* A chunk as the index knows it.                                          *)
IndexInput(r) ==
  [document_id |-> r.document.document_id, domain |-> r.document.domain, date |-> 0,
   chunks |-> [k \in DOMAIN r.chunks |->
     [chunk_id |-> Append(r.document.document_id, k),
      document_id |-> r.document.document_id, ordinal |-> k,
      text |-> r.chunks[k].text, config |-> setup.chunker]]]

IndexInputs == [i \in DOMAIN job.done |-> IndexInput(job.done[i])]

(* The index does not depend on the order of its inputs, is saved, and      *)
(* loads again; the report would raise otherwise.                          *)
SaveIndex ==
  /\ At("index", "load") /\ job.todo = <<>>
  /\ ~Rejected(IndexInputs)
  /\ \E s \in {Snapshot(IndexInputs, setup.sparse)} :
       /\ Snapshot(Reverse(IndexInputs), setup.sparse).index_fingerprint = s.index_fingerprint
       /\ Intact(s) /\ Len(s.entries) <= MaxEntries
       /\ snapshot' = Whole(s)
       /\ built' = built \cup {s}
  /\ job' = Idle
  /\ UNCHANGED <<setup, disk, manifest, outputs, failures, answer, left, scanned, settled>>

-----------------------------------------------------------------------------
(* One query on the saved index                                            *)

Loadable == IsWhole(snapshot) /\ Intact(snapshot[2])

Results(s, q) == Search(s, Lexical(q.text), q.top_k, q.filter)

Query(q) ==
  /\ job = Idle /\ "search" \in setup.commands
  /\ Spend("commands")
  /\ Loadable
  /\ answer' = [query |-> q, snapshot |-> snapshot[2],
                results |-> Results(snapshot[2], setup.queries[q])]
  /\ UNCHANGED <<setup, disk, job, files, history>>

QueryRaises ==
  /\ job = Idle /\ "search" \in setup.commands
  /\ Spend("commands")
  /\ ~Loadable
  /\ UNCHANGED <<setup, disk, job, files, answer, history>>

-----------------------------------------------------------------------------
(* A tool dies: what it has in memory is lost.                             *)

Die ==
  /\ job # Idle
  /\ Spend("deaths")
  /\ job' = Idle
  /\ UNCHANGED <<setup, disk, files, answer, history>>

(* A tool dies while it writes.                                            *)
Tears(action) ==
  /\ Spend("deaths")
  /\ action
  /\ job' = Idle
  /\ UNCHANGED <<setup, disk, answer, history>>

TearManifest ==
  /\ At("scan", "scan") /\ job.todo = <<>> /\ ~Leaks(job.documents)
  /\ Tears(manifest' = Torn /\ UNCHANGED <<outputs, failures, snapshot>>)

TearOutput ==
  /\ At("parse", "write") /\ job.todo # <<>>
  /\ Tears(/\ outputs' = Put(outputs, Head(job.todo).document.document_id, Torn)
           /\ UNCHANGED <<manifest, failures, snapshot>>)

TearFailures ==
  /\ At("parse", "write") /\ job.todo = <<>>
  /\ Tears(failures' = Torn /\ UNCHANGED <<manifest, outputs, snapshot>>)

TearSnapshot ==
  /\ At("index", "load") /\ job.todo = <<>> /\ ~Rejected(IndexInputs)
  /\ Tears(snapshot' = Torn /\ UNCHANGED <<manifest, outputs, failures>>)

-----------------------------------------------------------------------------
Edits ==
  \/ \E path \in setup.paths, bytes \in setup.contents : Edit(path, bytes)
  \/ \E path \in setup.paths \cap DOMAIN disk : Delete(path)
  \/ EditManifest \/ EditSnapshot

Tools ==
  \/ StartScan("scan") \/ StartScan("index")
  \/ ScanFile \/ ScanFileRaises \/ ScanRaises \/ WriteManifest
  \/ StartValidate \/ ValidateFile \/ ValidateRaises \/ Validated
  \/ Refuse \/ StartParse \/ ParseFile \/ StartWriting \/ WriteOutput \/ WriteFailures
  \/ StartIndexing \/ LoadFile \/ LoadFileRaises \/ CleanFile
  \/ ChunkFile \/ ChunkFileRaises \/ SaveIndex
  \/ \E q \in DOMAIN setup.queries : Query(q)
  \/ QueryRaises

Deaths == Die \/ TearManifest \/ TearOutput \/ TearFailures \/ TearSnapshot

Next == Edits \/ Tools \/ Deaths
Spec == Init /\ [][Next]_vars

-----------------------------------------------------------------------------
(* Properties                                                              *)

(* read_manifest: validate and parse work on documents that a scan wrote    *)
(* into one manifest, whatever was edited since; and no tool reaches past   *)
(* the scan with one source in both splits, under any path.                *)
ManifestsAreScanned ==
  /\ job.command \in {"validate", "parse"} =>
       \E m \in scanned, split \in Splits \cup {"both"}, domain \in Domains \cup {"any"} :
         job.documents = Selected(m.documents, split, domain)
  /\ job.step # "scan" =>
       \A d, e \in ToSet(job.documents) :
         d.checksum = e.checksum => d.split = e.split

(* validate_manifest_files then parse_batch: after a validation that        *)
(* succeeded, and as long as nothing was edited since it began, parsing     *)
(* reads for every document the bytes its manifest names.                  *)
ValidatedIsTrue ==
  settled = "yes" /\ job.command = "parse" =>
    \A i \in DOMAIN job.done : job.done[i].bytes = job.done[i].document.checksum

(* clean_parsed_document: every parsed element is kept once, in order, or   *)
(* removed once with evidence; the evidence is true of the document (what   *)
(* repeats does so on enough pages, a duplicate resembles an earlier        *)
(* element that is kept), and the counts say what happened.                *)
AlikeMargin(prepared, element) ==
  {j \in DOMAIN prepared :
     /\ prepared[j].kind = element.kind
     /\ Signature(Text(prepared[j].rows)) = Signature(Text(element.rows))}

Justified(prepared, kept, e) ==
  \/ /\ e.match # 0
     /\ e.match < e.element /\ e.match \in kept
     /\ AtLeast(Similarity(Text(prepared[e.element].rows), Text(prepared[e.match].rows)),
                setup.cleaner.similarity)
  \/ e.reason = "empty_after_normalization" /\ Blank(prepared[e.element].rows)
  \/ /\ prepared[e.element].kind \in {"header", "footer"}
     /\ \E alike \in {AlikeMargin(prepared, prepared[e.element])} :
          /\ alike \cap kept = {}
          /\ Spread(alike, PagesOf(prepared, alike)) >= setup.cleaner.repeated_min_pages

RemovalsJustified ==
  At("index", "chunk") =>
    \E cleaned \in {job.work.cleaned} :
      \E sources \in {[k \in DOMAIN cleaned.elements |-> cleaned.elements[k].source]} :
        /\ \E prepared \in {Prepared(job.work.parsed)} :
             \A e \in cleaned.removals : Justified(prepared, ToSet(sources), e)
        /\ \A k, l \in DOMAIN sources : k < l => sources[k] < sources[l]
        /\ ToSet(sources) = DOMAIN job.work.parsed \ Elements(cleaned.removals)
        /\ cleaned.stats.elements_in - cleaned.stats.elements_out
             = Cardinality(cleaned.removals)

(* ChunkingEngine: what the chunks hold beyond the words they share with    *)
(* the chunk before them and repeated table headers is the cleaned document *)
(* word for word.  Only the header of a table that was cut with             *)
(* repeat_table_header off is lost.                                        *)
HeaderOf(r, chunk) ==
  (CHOOSE e \in ToSet(r.cleaned.elements) : e.source \in chunk.sources).rows[1]

Own(r, chunk) ==
  SubSeq(chunk.text,
         1 + IF chunk.repeated THEN Len(HeaderOf(r, chunk)) ELSE chunk.overlap,
         Len(chunk.text))

LosesHeader(r, unit) ==
  /\ unit.kind = "table" /\ setup.chunker.table_aware /\ ~setup.chunker.repeat_header
  /\ \E chunk \in ToSet(r.chunks) :
       chunk.rows # <<>> /\ chunk.sources = {unit.source} /\ chunk.rows[1] > 0

Owed(r, unit) == Text(IF LosesHeader(r, unit) THEN Tail(unit.rows) ELSE unit.rows)

NothingIsLost ==
  \A r \in ToSet(job.done) : job.command = "index" =>
    \E units \in {Units(r.cleaned.elements)} :
      FlattenSeq([k \in DOMAIN r.chunks |-> Own(r, r.chunks[k])])
        = FlattenSeq([u \in DOMAIN units |-> Owed(r, units[u])])

(* ChunkingEngine: a chunk is as long as it may be, or says that it is one  *)
(* atom that cannot be cut; its sources are neighbours in the document, its *)
(* words and pages are theirs, and two sections meet in it only where an    *)
(* element without a section stands with them.                             *)
Limit(chunk) ==
  IF setup.chunker.strategy = "semantic" /\ chunk.rows = <<>>
  THEN setup.chunker.max_tokens ELSE setup.chunker.chunk_size

SoundChunk(units, chunk) ==
  \E from \in {{e \in units : e.source \in chunk.sources}} :
    \E hints \in {{e.hint : e \in from}} :
      /\ IF chunk.oversized
         THEN Cardinality(from) = 1 /\ Len(chunk.text) > Limit(chunk)
         ELSE Len(chunk.text) <= Limit(chunk)
      /\ chunk.text # <<>> /\ Cardinality(from) = Cardinality(chunk.sources)
      /\ \A e \in units \ from :
           ~\E a, b \in chunk.sources : a < e.source /\ e.source < b
      /\ ToSet(chunk.text) \subseteq UNION {ToSet(Text(e.rows)) : e \in from}
      /\ chunk.pages = {e.page : e \in from} \ {0}
      /\ setup.chunker.section_aware => Cardinality(hints) <= 1 \/ <<>> \in hints

ChunksAreSound ==
  \A r \in ToSet(job.done) : job.command = "index" =>
    \E units \in {ToSet(Units(r.cleaned.elements))} :
      \A chunk \in ToSet(r.chunks) : SoundChunk(units, chunk)

(* BM25SparseIndex.load and search: whatever became of the snapshot file,   *)
(* an answer comes from an index that was built, but for the term counts    *)
(* and lengths of its entries, of which nothing detects an edit; its        *)
(* results are chunks that pass the filter, each once.  If the file is as it *)
(* was saved, they are the best of the chunks that share a term with the    *)
(* query, and leave none of them out that has room.                        *)
Passing(s, q) == {e \in ToSet(s.entries) : Matches(e, q.filter)}

ExactResults(s, q, ids, results) ==
  \E entries \in {{e \in Passing(s, q) :
                   ToSet(Lexical(q.text)) \cap ToSet(e.tokens) # {}}} :
    /\ ids \subseteq {e.chunk.chunk_id : e \in entries}
    /\ \A e \in entries : e.chunk.chunk_id \notin ids =>
         /\ Len(results) = q.top_k
         /\ \E score \in {Score(s, e, Lexical(q.text))} :
              \A k \in DOMAIN results : results[k].score >= score

Uncounted(s) ==
  [s EXCEPT !.average_document_length = <<0, 1>>, !.entries =
     [i \in DOMAIN @ |-> [@[i] EXCEPT !.term_frequencies = <<>>, !.document_length = 0]]]

AnswersAreExact ==
  answer.query # 0 =>
    \E ids \in {{answer.results[k].chunk_id : k \in DOMAIN answer.results}},
       q \in {setup.queries[answer.query]} :
      /\ Uncounted(answer.snapshot) \in {Uncounted(b) : b \in built}
      /\ Cardinality(ids) = Len(answer.results) /\ Cardinality(ids) <= q.top_k
      /\ ids \subseteq {e.chunk.chunk_id : e \in Passing(answer.snapshot, q)}
      /\ answer.snapshot \in built => ExactResults(answer.snapshot, q, ids, answer.results)
=============================================================================
