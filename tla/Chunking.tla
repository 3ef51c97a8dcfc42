------------------------------ MODULE Chunking ------------------------------
(***************************************************************************)
(* ChunkingEngine.chunk (chunking/engine.py, chunking/tokenizer.py): from   *)
(* the elements of a cleaned document to its chunks.  Units (elements with  *)
(* words, page breaks aside) are gathered into blocks that end at section   *)
(* and clause boundaries and at tables; a block is cut into windows or into *)
(* groups of similar sentences, a table into groups of rows.  The tokenizer *)
(* splits at white space, so tokens are words.                             *)
(***************************************************************************)
EXTENDS Words

(* starts_legal_clause: a label such as 1.1, or the word section before it. *)
ClauseLabel(w) == Len(w) = 3 /\ {w[1], w[3]} \subseteq Numbers /\ w[2] = Stop

StartsClause(text) ==
  \/ text # <<>> /\ ClauseLabel(text[1])
  \/ Len(text) >= 2 /\ text[1] = <<"section">> /\ ClauseLabel(text[2])

Units(elements) ==
  Only(elements, {e \in ToSet(elements) : e.kind # "page_break" /\ ~Blank(e.rows)})

Boundary(previous, current, domain, config) ==
  \/ /\ config.section_aware
     /\ previous.hint # <<>> /\ current.hint # <<>>
     /\ previous.hint # current.hint
  \/ /\ domain = "legal" /\ config.preserve_clauses
     /\ StartsClause(Text(current.rows))

(* build_drafts: the pieces of a document, each a table or a block of units. *)
Flush(acc) ==
  IF acc.block = <<>> THEN acc
  ELSE [pieces |-> Append(acc.pieces, [table |-> FALSE, units |-> acc.block]),
        block |-> <<>>]

Break(acc, unit, domain, config) ==
  IF acc.block # <<>> /\ Boundary(Last(acc.block), unit, domain, config)
  THEN Flush(acc) ELSE acc

AddUnit(acc, unit, domain, config) ==
  IF unit.kind = "table" /\ config.table_aware
  THEN [Flush(acc) EXCEPT !.pieces = Append(@, [table |-> TRUE, units |-> <<unit>>])]
  ELSE [Break(acc, unit, domain, config) EXCEPT !.block = Append(@, unit)]

PiecesOf(units, domain, config) ==
  LET acc[n \in 0..Len(units)] ==
        IF n = 0 THEN [pieces |-> <<>>, block |-> <<>>]
        ELSE AddUnit(acc[n - 1], units[n], domain, config)
  IN Flush(acc[Len(units)]).pieces

Pieces(elements, domain, config) == PiecesOf(Units(elements), domain, config)

-----------------------------------------------------------------------------
(* A chunk: its words, the elements and pages they come from, and what its  *)
(* metadata says: the overlap with the chunk before it, the rows of a table *)
(* it holds (from, to; the header is row 0), a repeated header, an atom     *)
(* larger than the limit.                                                  *)

Chunk(text, sources, pages) ==
  [text |-> text, sources |-> sources, pages |-> pages \ {0},
   overlap |-> 0, rows |-> <<>>, repeated |-> FALSE, oversized |-> FALSE]

RefsOf(unit, text) ==
  [i \in DOMAIN text |-> [word |-> text[i], source |-> unit.source, page |-> unit.page]]

Refs(units) ==
  FlattenSeq([u \in DOMAIN units |-> RefsOf(units[u], Text(units[u].rows))])

WordsOf(refs) == [i \in DOMAIN refs |-> refs[i].word]
Sources(refs) == {refs[i].source : i \in DOMAIN refs}
PagesIn(refs) == {refs[i].page : i \in DOMAIN refs}

Least(a, b) == IF a < b THEN a ELSE b

(* Fixed windows over the words of a block: each starts further on than the *)
(* one before it, so that n more of them reach the end.                    *)
NextStart(starts, n, config) ==
  IF Last(starts) + config.chunk_size >= n THEN starts
  ELSE Append(starts, Last(starts) + config.chunk_size - config.overlap)

WindowStarts(n, config) ==
  LET starts[k \in 0..n] ==
        IF k = 0 THEN <<0>> ELSE NextStart(starts[k - 1], n, config)
  IN starts[n]

Window(refs, start, config) ==
  SubSeq(refs, start + 1, Least(start + config.chunk_size, Len(refs)))

WindowChunk(window, start, config) ==
  [Chunk(WordsOf(window), Sources(window), PagesIn(window)) EXCEPT
     !.overlap = IF start = 0 THEN 0 ELSE Least(config.overlap, Len(window))]

WindowsFrom(refs, starts, config) ==
  [k \in DOMAIN starts |->
     WindowChunk(Window(refs, starts[k], config), starts[k], config)]

RefWindows(refs, config) == WindowsFrom(refs, WindowStarts(Len(refs), config), config)
Windows(units, config) == RefWindows(Refs(units), config)

(* Groups of the data rows of a table; each group holds the row numbers.    *)
TableText(rows, group, config) ==
  (IF config.repeat_header THEN rows[1] ELSE <<>>)
  \o FlattenSeq([k \in DOMAIN group |-> rows[group[k]]])

(* Faulty variant: the header is repeated and not counted.                  *)
AddRow_HeaderForgotten(acc, rows, r, config) ==
  IF /\ acc.current # <<>>
     /\ Len(TableText(rows, Append(acc.current, r), config))
          > config.chunk_size + Len(rows[1])
  THEN [groups |-> Append(acc.groups, acc.current), current |-> <<r>>]
  ELSE [acc EXCEPT !.current = Append(@, r)]

AddRow(acc, rows, r, config) ==
  IF /\ acc.current # <<>>
     /\ Len(TableText(rows, Append(acc.current, r), config)) > config.chunk_size
  THEN [groups |-> Append(acc.groups, acc.current), current |-> <<r>>]
  ELSE [acc EXCEPT !.current = Append(@, r)]

(* Faulty variant: the rows gathered last are forgotten.                    *)
LastGroup_Forgotten(cut) == cut.groups

LastGroup(cut) == Append(cut.groups, cut.current)

RowGroups(rows, config) ==
  LET cut[n \in 0..(Len(rows) - 1)] ==
        IF n = 0 THEN [groups |-> <<>>, current |-> <<>>]
        ELSE AddRow(cut[n - 1], rows, n + 1, config)
  IN LastGroup(cut[Len(rows) - 1])

Cut(unit, content, from, to, oversized, repeated) ==
  [Chunk(content, {unit.source}, {unit.page}) EXCEPT
     !.rows = <<from, to>>, !.oversized = oversized, !.repeated = repeated]

GroupChunk(unit, content, group, g, config) ==
  Cut(unit, content, Head(group) - 1, Last(group),
      Len(content) > config.chunk_size /\ Len(group) = 1,
      g > 1 /\ config.repeat_header)

GroupChunks(unit, rows, groups, config) ==
  [g \in DOMAIN groups |->
     GroupChunk(unit, TableText(rows, groups[g], config), groups[g], g, config)]

TableChunks(unit, rows, config) ==
  IF Len(Text(rows)) <= config.chunk_size \/ Len(rows) = 1
  THEN <<Cut(unit, Text(rows), 0, Len(rows), Len(Text(rows)) > config.chunk_size, FALSE)>>
  ELSE GroupChunks(unit, rows, RowGroups(rows, config), config)

NotEmpty(rows) == Without(rows, <<>>)

-----------------------------------------------------------------------------
(* Sentences, and groups of them that are alike.                           *)

SentenceEnds(text, i) ==
  /\ Last(text[i]) = Stop
  /\ text[i + 1][1] \in Capitals \cup Numbers

AddWord(sentences, text, i) ==
  IF i > 1 /\ ~SentenceEnds(text, i - 1) THEN Extended(sentences, text[i])
  ELSE Append(sentences, <<text[i]>>)

Split(text) ==
  LET sentences[i \in 0..Len(text)] ==
        IF i = 0 THEN <<>> ELSE AddWord(sentences[i - 1], text, i)
  IN sentences[Len(text)]

Sentences(text, domain, config) ==
  IF domain = "legal" /\ config.preserve_clauses /\ StartsClause(text) THEN <<text>>
  ELSE Split(text)

SegmentsOf(unit, sentences) ==
  [k \in DOMAIN sentences |->
     [text |-> sentences[k], source |-> unit.source, page |-> unit.page]]

Segments(units, domain, config) ==
  FlattenSeq([u \in DOMAIN units |->
    SegmentsOf(units[u], Sentences(Text(units[u].rows), domain, config))])

(* The cosine of two bags of hashed words, squared: words occur once in a   *)
(* sentence, and no two share a bucket.                                    *)
SquaredCosine(common, a, b) == <<common * common, a * b>>

Alike(a, b, config) ==
  AtLeast(SquaredCosine(Cardinality(ToSet(a.text) \cap ToSet(b.text)),
                        Cardinality(ToSet(a.text)), Cardinality(ToSet(b.text))),
          <<config.threshold[1] * config.threshold[1],
            config.threshold[2] * config.threshold[2]>>)

WordsIn(segments) == FlattenSeq([k \in DOMAIN segments |-> segments[k].text])

Full(current, segment, alike, config) ==
  \/ current + Len(segment.text) > config.max_tokens
  \/ ~alike /\ current >= config.min_tokens

AddSegment(groups, segments, i, config) ==
  IF groups = <<>>
     \/ Full(Len(WordsIn(Last(groups))), segments[i],
             Alike(segments[i - 1], segments[i], config), config)
  THEN Append(groups, <<segments[i]>>)
  ELSE Extended(groups, segments[i])

GroupOf(group, text, config) ==
  [Chunk(text, Sources(group), PagesIn(group)) EXCEPT
     !.oversized = Len(text) > config.max_tokens /\ Len(group) = 1]

Groups(segments, config) ==
  LET groups[i \in 0..Len(segments)] ==
        IF i = 0 THEN <<>> ELSE AddSegment(groups[i - 1], segments, i, config)
  IN groups[Len(segments)]

GroupsToChunks(groups, config) ==
  [g \in DOMAIN groups |-> GroupOf(groups[g], WordsIn(groups[g]), config)]

ChunkSegments(segments, config) == GroupsToChunks(Groups(segments, config), config)

SegmentChunks(units, domain, config) ==
  ChunkSegments(Segments(units, domain, config), config)

-----------------------------------------------------------------------------
(* The whole of chunk(): it raises when the strategy is semantic and there  *)
(* is no embedding provider, or the provider is "short" of vectors.         *)
PieceChunks(piece, domain, config) ==
  IF piece.table
  THEN TableChunks(piece.units[1], NotEmpty(piece.units[1].rows), config)
  ELSE IF config.strategy = "semantic" THEN SegmentChunks(piece.units, domain, config)
  ELSE Windows(piece.units, config)

Unembedded(pieces, config) ==
  /\ config.strategy = "semantic"
  /\ \/ config.provider = "none"
     \/ config.provider = "short" /\ \E i \in DOMAIN pieces : ~pieces[i].table

ChunkPieces(pieces, domain, config) ==
  IF Unembedded(pieces, config) THEN [status |-> "ValueError", chunks |-> <<>>]
  ELSE [status |-> "chunked",
        chunks |-> FlattenSeq([i \in DOMAIN pieces |->
                                 PieceChunks(pieces[i], domain, config)])]

ChunkDocument(elements, domain, config) ==
  ChunkPieces(Pieces(elements, domain, config), domain, config)
=============================================================================
