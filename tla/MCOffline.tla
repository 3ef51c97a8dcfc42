------------------------------ MODULE MCOffline ------------------------------
(* Instances for the offline tools: a corpus tree of four paths with        *)
(* trivial contents that is edited while the tools run, and single          *)
(* documents, rich ones, under several settings of the parser, the cleaner  *)
(* and the chunker.                                                        *)
EXTENDS Workbench, Reconciliation

Row(pieces) == [i \in DOMAIN pieces |-> <<pieces[i]>>]
Clause == <<"1", Stop, "1">>
Close(piece) == <<piece, Stop>>
Hyphenated(piece) == <<piece, Hyphen>>

-----------------------------------------------------------------------------
(* Layouts: a pdf in development, html in evaluation, a note, a stray file. *)

MCLayout ==
  [dev |-> [rank |-> 1, split |-> "development", domain |-> "legal", suffix |-> "pdf"],
   eval |-> [rank |-> 2, split |-> "evaluation", domain |-> "research", suffix |-> "html"],
   memo |-> [rank |-> 3, split |-> "evaluation", domain |-> "legal", suffix |-> "docx"],
   note |-> [rank |-> 4, split |-> "evaluation", domain |-> "legal", suffix |-> "txt"],
   stray |-> [rank |-> 5, split |-> "drafts", domain |-> "legal", suffix |-> "html"]]

-----------------------------------------------------------------------------
(* Contents                                                                *)

Block(top, words, size) ==
  [top |-> top, bottom |-> IF top = 0 THEN 1 ELSE top + 1, words |-> words,
   image |-> FALSE, big |-> size = "big", bold |-> size = "bold"]
Table(top, rows, broken) ==
  [top |-> top, bottom |-> top + 2, rows |-> rows, broken |-> broken]
NoOCR == [ok |-> FALSE, rows |-> <<>>]
Scan(rows) == [ok |-> TRUE, rows |-> rows]
PdfPage(blocks, tables, ocr) == [blocks |-> blocks, tables |-> tables, ocr |-> ocr]
Pdf(pages) == [format |-> "pdf", locked |-> FALSE, pages |-> pages]
Node(tag, rows) ==
  [tag |-> tag, rows |-> rows, cells |-> <<>>, inside |-> FALSE, break |-> FALSE,
   caption |-> FALSE]
Para(style, rows) == [style |-> style, rows |-> rows, break |-> FALSE]

Plain(word) == [format |-> "html", nodes |-> <<Node("p", <<Row(<<word>>)>>)>>]

Rates == <<Row(<<"year", "rate">>), <<<<"1">>, Hyphenated("inter")>>, <<<<"est">>, <<"2">>>>,
           Row(<<"3", "low">>)>>

(* Two pages with a running header and page numbers, a table and a figure.  *)
Filing ==
  Pdf(<<PdfPage(<<Block(0, Row(<<"acme", "page", "1">>), "plain"),
                  Block(2, Row(<<"A", "risk">>), "big"),
                  Block(3, <<<<"B">>, Close("fell"), <<"A">>, Hyphenated("inter")>>, "plain"),
                  Block(4, <<<<"est">>, Close("rose")>>, "plain"),
                  Block(9, <<<<"1">>>>, "plain")>>,
                <<Table(5, Rates, FALSE)>>, NoOCR),
        PdfPage(<<Block(0, Row(<<"acme", "page", "2">>), "plain"),
                  Block(2, Row(<<"B", "rate">>), "bold"),
                  Block(3, Row(<<"table", "1", "rates">>), "plain"),
                  Block(6, Row(<<"year", "rate">>), "plain"),
                  Block(9, <<<<"2">>>>, "plain")>>,
                <<Table(5, Rates, TRUE), Table(7, <<Row(<<"year">>)>>, FALSE)>>, NoOCR)>>)

(* Scanned pages: no native text on one, little on the other.               *)
Scanned ==
  Pdf(<<PdfPage(<<Block(2, Row(<<"A">>), "big"), Block(3, Row(<<"b", "c">>), "plain")>>,
                <<>>, Scan(<<Row(<<"A", "risk", "B">>)>>)),
        PdfPage(<<>>, <<>>, Scan(<<Row(<<"confidential", "draft", "copy">>)>>))>>)
Unreadable == Pdf(<<PdfPage(<<>>, <<>>, Scan(<<>>))>>)
NoEngine == Pdf(<<PdfPage(<<>>, <<>>, NoOCR)>>)
Locked == [Pdf(<<>>) EXCEPT !.locked = TRUE]

(* The same notice on three pages, once with another word.                  *)
Notices ==
  Pdf([n \in 1..3 |->
    PdfPage(<<Block(2, Row(<<"confidential", "draft",
                             IF n = 2 THEN "final" ELSE "copy">>), "plain"),
              Block(3, <<<<Bullet>>, <<"B">>, <<"a", Invisible, "b">>>>, "plain"),
              Block(4, <<<<Invisible>>>>, "plain")>>, <<>>, NoOCR)])

(* A contract: clauses, a page break, a table with a long row, margins.     *)
Contract ==
  [format |-> "docx",
   body |-> <<Para("heading", <<Row(<<"A", "terms">>)>>),
              Para("body", <<<<Clause, <<"pay">>, Close("due"), <<"B">>, <<"late">>>>>>),
              [Para("body", <<<<<<"section">>, Clause, <<"end">>>>>>) EXCEPT !.break = TRUE],
              Para("table", <<Row(<<"fee", "due">>),
                              Row(<<"1", "a", "b", "c", "d">>), Row(<<"2", "x">>)>>),
              Para("list", <<Row(<<Bullet, "one">>)>>),
              Para("caption", <<Row(<<"figure">>)>>),
              Para("body", <<>>)>>,
   sections |-> <<[header |-> <<<<Row(<<"acme">>)>>, <<>>>>, footer |-> <<<<Row(<<"page", "1">>)>>>>],
                  [header |-> <<<<Row(<<"acme">>)>>>>, footer |-> <<>>]>>]

(* A paper: header, headings, list, nested text, table, figure and footer.  *)
Paper ==
  [format |-> "html",
   nodes |-> <<Node("header", <<Row(<<"acme", "lab">>)>>),
               Node("h1", <<Row(<<"A", "study">>)>>),
               Node("p", <<<<<<"A">>, Close("cat"), <<"A">>, Close("cat"), <<"B">>, Close("dog")>>>>),
               [Node("table", <<Row(<<"k", "v">>), Row(<<"1", "2">>)>>)
                  EXCEPT !.cells = <<Row(<<"k", "v">>), Row(<<"1", "2">>)>>],
               [Node("p", <<Row(<<"k">>)>>) EXCEPT !.inside = TRUE],
               Node("li", <<Row(<<"B", "ant">>)>>),
               [Node("p", <<Row(<<"gone">>)>>) EXCEPT !.break = TRUE],
               Node("h2", <<Row(<<"B", "results">>)>>),
               [Node("p", <<Row(<<"view">>)>>) EXCEPT !.caption = TRUE],
               Node("p", <<>>),
               Node("footer", <<Row(<<"page", "1">>)>>)>>]

Corrupt == [format |-> "corrupt"]

MCLibrary == <<Plain("one"), Plain("two"), Corrupt, Filing, Scanned, Unreadable, NoEngine,
               Locked, Notices, Contract, Paper>>

-----------------------------------------------------------------------------
(* Settings                                                                *)

Parser(mode, min, breaks) ==
  [detect_tables |-> TRUE, ocr_mode |-> mode, ocr_min |-> min, page_breaks |-> breaks]
Cleaner(pages, dedup) ==
  [repeated_min_pages |-> pages, dedup_min |-> 2, dedup_max |-> 4,
   dedup_min_pages |-> dedup, similarity |-> <<1, 2>>]
Chunker(strategy, size, overlap) ==
  [strategy |-> strategy, chunk_size |-> size, overlap |-> overlap,
   table_aware |-> TRUE, repeat_header |-> TRUE, section_aware |-> TRUE,
   preserve_clauses |-> TRUE, threshold |-> <<3, 5>>, min_tokens |-> 2,
   max_tokens |-> 4, provider |-> "local"]

Parsers == <<Parser("fallback", 2, TRUE), Parser("always", 2, FALSE),
            [Parser("disabled", 2, TRUE) EXCEPT !.detect_tables = FALSE]>>
Cleaners == <<Cleaner(2, 2), Cleaner(3, 3)>>
Chunkers ==
  <<Chunker("fixed", 4, 2), Chunker("fixed", 3, 0), Chunker("semantic", 4, 0),
   [Chunker("fixed", 4, 1) EXCEPT !.table_aware = FALSE, !.section_aware = FALSE],
   [Chunker("semantic", 4, 0) EXCEPT !.repeat_header = FALSE, !.preserve_clauses = FALSE],
   [Chunker("semantic", 4, 0) EXCEPT !.provider = "none"],
   [Chunker("semantic", 4, 0) EXCEPT !.provider = "short"]>>
Sparse(variant) == [variant |-> variant, k1 |-> 12, b |-> 75]

Anywhere == [domain |-> {}, document |-> {}, chunking |-> {}, from |-> 0, to |-> 0]
Ask(text, top, filter) == [text |-> text, top_k |-> top, filter |-> filter]

(* One document, indexed and queried.                                       *)
DocumentScenario(path, bytes, parser, cleaner, chunker) ==
  [disk |-> path :> bytes, library |-> bytes :> MCLibrary[bytes],
   parser |-> parser, cleaner |-> cleaner, chunker |-> chunker,
   sparse |-> Sparse("bm25_plus"), commands |-> {"index", "search"}, splits |-> {}, domains |-> {},
   queries |-> <<Ask(Row(<<"the", "A", "rate">>), 2, Anywhere),
                 Ask(Row(<<"B">>), 1, [Anywhere EXCEPT !.from = 1]),
                 Ask(Row(<<"A", "B", "risk">>), 3,
                     [Anywhere EXCEPT !.domain = {MCLayout[path].domain}, !.chunking = {chunker},
                                      !.document = {<<MCLayout[path].rank, bytes>>}])>>,
   budget |-> [edits |-> 0, commands |-> 2, deaths |-> 0], paths |-> {}, contents |-> {}]

(* A document under a choice of settings: its bytes, and the places of the   *)
(* settings in their lists.                                                *)
DocumentKeys ==
  ({4, 5, 9} \X (1..3) \X (1..2) \X (1..7))
  \cup ({10, 11} \X (1..3) \X {1} \X (1..7))
  \cup ({3, 6, 7, 8} \X {1} \X {1} \X {1})

(* A tree that is edited while the tools run.                               *)
DiskScenario(tree, commands, budget) ==
  [disk |-> tree, library |-> [n \in 1..3 |-> MCLibrary[n]],
   parser |-> Parser("disabled", 2, TRUE), cleaner |-> Cleaner(2, 2),
   chunker |-> Chunker("fixed", 4, 2), sparse |-> Sparse("bm25"),
   commands |-> commands, splits |-> {"both", "evaluation"},
   domains |-> {"any", "legal"},
   queries |-> <<Ask(Row(<<"one", "two">>), 1, Anywhere)>>, budget |-> budget,
   paths |-> {"eval", "stray"}, contents |-> {1, 2}]

Budget(edits, commands, deaths) ==
  [edits |-> edits, commands |-> commands, deaths |-> deaths]

DiskScenarios ==
  <<DiskScenario(("dev" :> 3) @@ ("eval" :> 1) @@ ("note" :> 1),
                {"scan", "validate", "parse"}, Budget(2, 3, 1)),
   DiskScenario(("dev" :> 1) @@ ("eval" :> 2), {"scan", "parse"}, Budget(2, 3, 0)),
   DiskScenario(("eval" :> 1), {"index", "search"}, Budget(2, 3, 1))>>

(* An index of several entries, whose file is edited.                       *)
EditedIndex ==
  [DocumentScenario("memo", 10, Parsers[1], Cleaners[1], Chunkers[1])
     EXCEPT !.budget = Budget(2, 2, 0)]

MCScenarios ==
  ToSet(DiskScenarios) \cup {EditedIndex} \cup
  {DocumentScenario(IF key[1] = 10 THEN "memo" ELSE IF key[1] = 11 THEN "eval" ELSE "dev",
                    key[1], Parsers[key[2]], Cleaners[key[3]], Chunkers[key[4]]) :
     key \in DocumentKeys}

-----------------------------------------------------------------------------
(* The evaluation evidence: an instance of its own beside the corpus.       *)

VARIABLE part   \* which of the two this behaviour is about

Question(id, domain, question, reference, supporting) ==
  [id |-> id, domain |-> domain, question |-> question, reference |-> reference,
   supporting |-> supporting, documents |-> <<domain>>, declared |-> {domain},
   tags |-> {}, table |-> id = 1]

(* The texts of the fixture, a few words of each, so that an answer covers  *)
(* its question and reference about as far as the real one does.           *)
MCTexts ==
  [fin |-> Append(Row(<<"corp", "revenue">>), Close("125")),
   legal |-> Append(Row(<<"obligations", "survive">>), Close("years")),
   paper |-> Append(Row(<<"paper">>), Close("generation")),
   trial |-> Append(Row(<<"trial">>), Close("configurations")),
   distractor |-> Append(Row(<<"unrelated">>), Close("text"))]
Invented == Append(Row(<<"notice", "ten">>), Close("years"))

Financial ==
  Question(1, "financial", Row(<<"what", "corp", "revenue">>), MCTexts["fin"], <<"fin">>)
Legal ==
  Question(2, "legal", Row(<<"long", "obligations", "survive">>), MCTexts["legal"], <<"legal">>)
Research ==
  Question(3, "research", Row(<<"method", "paper">>), MCTexts["paper"], <<"paper", "trial">>)

(* The dataset as it is, in another order and with tags and a longer        *)
(* question, without the research example, and with an example twice.       *)
MCDatasets ==
  <<<<Financial, Legal, Research>>,
    <<[Research EXCEPT !.tags = {"vocabulary_mismatch", "long_range"}],
      [Legal EXCEPT !.question = Row(<<"how", "long", "do", "obligations", "survive">>)],
      [Financial EXCEPT !.tags = {"reranker_error"}]>>,
    <<Legal, Financial>>,
    <<Financial, Financial, Legal>>>>

Configuration(id, pipeline, chunking) ==
  [id |-> id, pipeline |-> pipeline, chunking |-> chunking]
MCMatrix ==
  <<Configuration("dense-fixed256", "dense_only", "fixed_256"),
    Configuration("hybrid-fixed512", "dense_bm25_rrf", "fixed_512"),
    Configuration("rerank-fixed1024", "hybrid_rerank", "fixed_1024"),
    Configuration("rerank-semantic-expand", "hybrid_rerank", "semantic"),
    Configuration("rerank-table-aware-multihop", "hybrid_rerank", "table_aware")>>

LimitOn(metric, domain, least, drop, floor) ==
  [slice |-> <<metric, domain>>, min_samples |-> least, max_drop |-> drop,
   min_score |-> floor]

EvaluationPlan(datasets, matrix, thresholds, bounds) ==
  [datasets |-> [d \in DOMAIN datasets |-> MCDatasets[datasets[d]]], texts |-> MCTexts,
   invented |-> Invented, matrix |-> [c \in DOMAIN matrix |-> MCMatrix[matrix[c]]],
   attempts |-> 2, thresholds |-> thresholds, quota |-> bounds]

Bounds(starts, edits, deaths, failing, checks) ==
  [starts |-> starts, edits |-> edits, deaths |-> deaths, failures |-> failing,
   checks |-> checks]

(* One configuration has half the recall of the others: exactly allowed.     *)
RecallMayHalve == {LimitOn("context_recall", "overall", 2, <<1, 2>>, <<>>)}
RecallHolds == {LimitOn("context_recall", "overall", 2, <<1, 10>>, <<>>)}
ResearchIsFaithful == {LimitOn("faithfulness", "research", 1, <<0, 1>>, <<4, 5>>)}

(* The whole matrix once, then two configurations and the faults.           *)
MCPlans ==
  {EvaluationPlan(<<1>>, <<1, 2, 3, 4, 5>>, RecallMayHalve, Bounds(1, 0, 0, 0, 2)),
   EvaluationPlan(<<1, 2, 3, 4>>, <<1, 4>>, ResearchIsFaithful, Bounds(2, 1, 1, 0, 1)),
   EvaluationPlan(<<1>>, <<1, 4>>, RecallHolds, Bounds(3, 0, 2, 0, 0)),
   EvaluationPlan(<<2>>, <<1, 4>>, RecallHolds, Bounds(2, 0, 0, 2, 1))}

(* Each behaviour is about one of the two; the other is at rest.            *)
MCInit ==
  /\ Init /\ EvidenceInit
  /\ \/ part = "corpus" /\ Len(plan.matrix) = 5
     \/ part = "evaluation" /\ setup = DiskScenarios[3]

MCNext ==
  \/ part = "corpus" /\ Next /\ UNCHANGED <<part, evidence>>
  \/ part = "evaluation" /\ EvidenceNext /\ UNCHANGED <<part, vars>>

MCSpec == MCInit /\ [][MCNext]_<<vars, evidence, part>>
=============================================================================
