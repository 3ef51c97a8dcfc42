------------------------------ MODULE Parsing ------------------------------
(***************************************************************************)
(* The loaders (ingestion/loaders.py): from the bytes of one PDF, DOCX or   *)
(* HTML file to the sequence of elements of a ParsedDocument.               *)
(*                                                                         *)
(* Bytes are a record with a format: "pdf" (locked, pages), "docx" (body,   *)
(* sections), "html" (nodes) or "corrupt".  What PyMuPDF, python-docx and   *)
(* BeautifulSoup report of them is given: the blocks and tables of a page   *)
(* with their vertical extent (pages have one column), what OCR would read  *)
(* of it, styles and page breaks.  Pages are ten units high.  An element    *)
(* keeps its kind, rows, page (0: none) and section hint (empty: none).     *)
(***************************************************************************)
EXTENDS Words

PageHeight == 10

Parsed(elements, ocr) == [status |-> "parsed", elements |-> elements, ocr |-> ocr]
Failed(error) == [status |-> error, elements |-> <<>>, ocr |-> FALSE]

(* The elements of a ParsedDocument.                                        *)
ParsedElements ==
  Seq([kind : STRING, rows : Seq(Seq(Seq(STRING))), page : Nat, hint : Seq(Seq(STRING))])

Element(kind, rows, page, hint) ==
  [kind |-> kind, rows |-> rows, page |-> page, hint |-> hint]

(* A label and a number; in PDF and DOCX something has to follow these.     *)
Labelled(text) ==
  /\ Len(text) >= 2
  /\ text[1] \in {<<"figure">>, <<"table">>} /\ text[2][1] \in Numbers

CaptionLike(text) ==
  /\ Labelled(text)
  /\ IF Number(text[2]) THEN Len(text) >= 3 ELSE text[2][2] \in {Stop, Hyphen}

(* A bullet, or a number or a letter with a full stop, and what follows it. *)
Marks == {<<Bullet>>, <<Hyphen>>} \cup {<<n, Stop>> : n \in Numbers \cup Letters}
ListLike(text) == Len(text) >= 2 /\ text[1] \in Marks

Classify(text, heading, top, bottom) ==
  IF heading THEN "title"
  ELSE IF top THEN "header"
  ELSE IF bottom THEN "footer"
  ELSE IF CaptionLike(text) THEN "caption"
  ELSE IF ListLike(text) THEN "list_item"
  ELSE "text"

-----------------------------------------------------------------------------
(* PDF: the items of a page are its tables, its text blocks and its OCR     *)
(* text, sorted by position.  No two blocks of a page start at one height.  *)

Item(top, order, kind, rows, hint) ==
  [top |-> top, order |-> order, kind |-> kind, rows |-> rows, hint |-> hint]

Overlaps(block, table) ==
  block.top < table.bottom /\ table.top < block.bottom

(* A table that cannot be extracted takes every other table with it.        *)
TablesFound(page, config) ==
  IF config.detect_tables /\ \A i \in DOMAIN page.tables : ~page.tables[i].broken
  THEN page.tables ELSE <<>>

Readable(tables) == SelectSeq(tables, LAMBDA t : ~Blank(t.rows))

TableItems(readable, hint) ==
  [i \in DOMAIN readable |->
     Item(readable[i].top, 0, "table", readable[i].rows, hint)]

Heading(block) ==
  \/ block.big /\ Len(block.words) <= 4
  \/ block.bold /\ Len(block.words) <= 2

TakeBlock(acc, block, kind) ==
  LET hint == IF kind = "title" THEN block.words ELSE acc.hint IN
  [items |-> Append(acc.items, Item(block.top, 1, kind, <<block.words>>, hint)),
   hint |-> hint]

TextItems(page, tables, hint) ==
  FoldLeft(LAMBDA acc, block :
             IF \/ block.image \/ block.words = <<>>
                \/ \E i \in DOMAIN tables : Overlaps(block, tables[i])
             THEN acc
             ELSE TakeBlock(acc, block,
                    Classify(block.words, Heading(block), block.top = 0,
                             block.bottom = PageHeight)),
           [items |-> <<>>, hint |-> hint], page.blocks)

NativeText(page) ==
  FlattenSeq([i \in DOMAIN page.blocks |->
                IF page.blocks[i].image THEN <<>> ELSE page.blocks[i].words])

NeedsOCR(page, config) ==
  \/ config.ocr_mode = "always"
  \/ config.ocr_mode = "fallback" /\ Len(NativeText(page)) < config.ocr_min

Sorted(items) ==
  SortSeq(items, LAMBDA a, b : a.top < b.top \/ (a.top = b.top /\ a.order < b.order))

OcrItems(page, read, hint) ==
  IF read THEN <<Item(0, 2, "ocr_text", page.ocr.rows, hint)>> ELSE <<>>

PageElements(items, number) ==
  [i \in DOMAIN items |-> Element(items[i].kind, items[i].rows, number, items[i].hint)]

PageBreak(number, pages, hint, config) ==
  IF config.page_breaks /\ number < pages
  THEN <<Element("page_break", <<>>, number, hint)>> ELSE <<>>

(* The OCR engine is missing, or fails on the page.                         *)
OcrRaises(page) == ~page.ocr.ok

PageStatus(page, needed, read) ==
  IF needed /\ OcrRaises(page) THEN "OCRUnavailableError"
  ELSE IF needed /\ ~read /\ NativeText(page) = <<>> THEN "DocumentParseError"
  ELSE "parsed"

(* One page of _parse_pdf.  acc.status is "parsed" or the error raised.     *)
AddPage(acc, page, tables, text, needed, read, number, pages, config) ==
  [status |-> PageStatus(page, needed, read),
   elements |-> acc.elements
     \o PageElements(Sorted(TableItems(Readable(tables), acc.hint) \o text.items
                              \o OcrItems(page, read, text.hint)), number)
     \o PageBreak(number, pages, text.hint, config),
   hint |-> text.hint,
   ocr |-> acc.ocr \/ read]

ParsePage(acc, page, tables, needed, number, pages, config) ==
  AddPage(acc, page, tables, TextItems(page, tables, acc.hint), needed,
          needed /\ ~OcrRaises(page) /\ ~Blank(page.ocr.rows), number, pages, config)

ParsedPdf(result) ==
  IF result.status = "parsed" THEN Parsed(result.elements, result.ocr)
  ELSE Failed(result.status)

ParsePdf(bytes, config) ==
  IF bytes.locked THEN Failed("DocumentParseError")
  ELSE ParsedPdf(FoldLeftDomain(
         LAMBDA acc, n :
           IF acc.status # "parsed" THEN acc
           ELSE ParsePage(acc, bytes.pages[n], TablesFound(bytes.pages[n], config),
                          NeedsOCR(bytes.pages[n], config), n, Len(bytes.pages), config),
         [status |-> "parsed", elements |-> <<>>, hint |-> <<>>, ocr |-> FALSE],
         bytes.pages))

-----------------------------------------------------------------------------
(* DOCX: paragraphs and tables in body order, then the headers and footers  *)
(* of the sections.  Pages are counted by the page breaks that are emitted. *)

StyledKind(style, text) ==
  CASE style = "table" -> "table"
    [] style = "heading" -> "title"
    [] style = "list" -> "list_item"
    [] style = "caption" -> "caption"
    [] OTHER -> Classify(text, FALSE, FALSE, FALSE)

AddBlock(acc, rows, text, kind, hint, break) ==
  [elements |-> acc.elements
     \o (IF text = <<>> THEN <<>> ELSE <<Element(kind, rows, acc.page, hint)>>)
     \o (IF break THEN <<Element("page_break", <<>>, acc.page, hint)>> ELSE <<>>),
   hint |-> hint,
   page |-> IF break THEN acc.page + 1 ELSE acc.page]

DocxBlock(acc, block, kind, text, config) ==
  AddBlock(acc, block.rows, text, kind,
           IF text # <<>> /\ kind = "title" THEN text ELSE acc.hint,
           block.break /\ block.style # "table" /\ config.page_breaks)

MarginElements(kind, paragraphs, hint) ==
  FlattenSeq([i \in DOMAIN paragraphs |->
    IF Blank(paragraphs[i]) THEN <<>> ELSE <<Element(kind, paragraphs[i], 0, hint)>>])

ParsedDocx(body, sections) ==
  Parsed(body.elements \o FlattenSeq([i \in DOMAIN sections |->
           MarginElements("header", sections[i].header, body.hint)
           \o MarginElements("footer", sections[i].footer, body.hint)]), FALSE)

ParseDocx(bytes, config) ==
  ParsedDocx(FoldLeft(LAMBDA acc, block :
                        DocxBlock(acc, block, StyledKind(block.style, Text(block.rows)),
                                  Text(block.rows), config),
                      [elements |-> <<>>, hint |-> <<>>, page |-> 1], bytes.body),
             bytes.sections)

-----------------------------------------------------------------------------
(* HTML: the tags that are looked for, in document order.  node.inside says *)
(* that a table, li, header or footer encloses the node.                    *)

Containers == {"table", "li", "header", "footer"}

(* The tag header starts with an h, and so counts as a heading.             *)
HtmlKind(node) ==
  CASE node.tag \in {"h1", "h2", "header"} -> "title"
    [] node.tag = "li" -> "list_item"
    [] node.tag = "table" -> "table"
    [] node.tag = "footer" -> "footer"
    [] OTHER -> IF node.caption \/ Labelled(Text(node.rows)) THEN "caption" ELSE "text"

AddNode(acc, node, kind, hint) ==
  [elements |-> Append(acc.elements,
     Element(kind, IF kind = "table" /\ ~Blank(node.cells) THEN node.cells ELSE node.rows,
             0, hint)),
   hint |-> hint]

HtmlNode(acc, node, kind, config) ==
  IF node.inside /\ node.tag \notin Containers THEN acc
  ELSE IF node.break
  THEN [acc EXCEPT !.elements = IF config.page_breaks
          THEN Append(@, Element("page_break", <<>>, 0, acc.hint)) ELSE @]
  ELSE IF Blank(node.rows) THEN acc
  ELSE AddNode(acc, node, kind, IF kind = "title" THEN Text(node.rows) ELSE acc.hint)

ParseHtml(bytes, config) ==
  Parsed(FoldLeft(LAMBDA acc, node : HtmlNode(acc, node, HtmlKind(node), config),
                  [elements |-> <<>>, hint |-> <<>>], bytes.nodes).elements, FALSE)

-----------------------------------------------------------------------------
(* parse_document: type is the source type of the record, suffix that of    *)
(* the path.                                                               *)
ParseDocument(bytes, type, suffix, config) ==
  IF type # suffix THEN Failed("UnsupportedSourceError")
  ELSE IF bytes.format # type THEN Failed("DocumentParseError")
  ELSE CASE type = "pdf" -> ParsePdf(bytes, config)
         [] type = "docx" -> ParseDocx(bytes, config)
         [] OTHER -> ParseHtml(bytes, config)
=============================================================================
