---------------------------- MODULE SparseIndex ----------------------------
(***************************************************************************)
(* BM25SparseIndex (retrieval/sparse/bm25.py, tokenizer.py): building a     *)
(* snapshot from chunked documents, the checks a loaded snapshot must pass, *)
(* and search.  A fingerprint is the value it was computed from.            *)
(*                                                                         *)
(* A document input is a record of a document id, a domain, a source date   *)
(* (0: none) and its chunks; an id is a sequence of numbers, and ids are    *)
(* ordered as these sequences are.                                         *)
(***************************************************************************)
EXTENDS Words

Stopwords == {<<"the">>}

(* The tokenizer drops stop words and what is neither letter nor digit.     *)
Lexical(text) ==
  LET words == [i \in DOMAIN text |-> Core(text[i])] IN
  Only(words, ToSet(words) \ (Stopwords \cup {<<>>, <<Bar>>, <<Bullet>>}))

Occurrences(tokens, term) == Cardinality({i \in DOMAIN tokens : tokens[i] = term})
CountTerms(tokens) == [t \in ToSet(tokens) |-> Occurrences(tokens, t)]

IdBefore(a, b) ==
  \E n \in DOMAIN a \cap DOMAIN b :
    a[n] < b[n] /\ \A m \in 1..(n - 1) : a[m] = b[m]

-----------------------------------------------------------------------------
(* build                                                                   *)

Summed(numbers) ==
  LET sum[n \in 0..Len(numbers)] == IF n = 0 THEN 0 ELSE sum[n - 1] + numbers[n]
  IN sum[Len(numbers)]

SumOfLengths(entries) == Summed([i \in DOMAIN entries |-> entries[i].document_length])

Terms(entries) == UNION {ToSet(entries[i].tokens) : i \in DOMAIN entries}

Frequencies(entries) ==
  [t \in Terms(entries) |->
     Cardinality({i \in DOMAIN entries : t \in ToSet(entries[i].tokens)})]

Average(entries) ==
  IF entries = <<>> THEN <<0, 1>> ELSE <<SumOfLengths(entries), Len(entries)>>

IndexFingerprint(config_fingerprint, entries) ==
  <<config_fingerprint, [i \in DOMAIN entries |->
      <<entries[i].chunk, entries[i].domain, entries[i].date, entries[i].tokens>>]>>

Entry(document, chunk, tokens) ==
  [chunk |-> chunk, domain |-> document.domain, date |-> document.date,
   tokens |-> tokens, term_frequencies |-> CountTerms(tokens),
   document_length |-> Len(tokens)]

EntriesOf(document) ==
  {Entry(document, c, Lexical(c.text)) : c \in ToSet(document.chunks)}

ChunkIds(documents) ==
  FlattenSeq([d \in DOMAIN documents |->
    [c \in DOMAIN documents[d].chunks |-> documents[d].chunks[c].chunk_id]])

Rejected(documents) ==
  \/ \E d \in DOMAIN documents : \E c \in ToSet(documents[d].chunks) :
       c.document_id # documents[d].document_id
  \/ ~IsInjective(ChunkIds(documents))

SnapshotOf(entries, config) ==
  [config |-> config,
   config_fingerprint |-> config,
   index_fingerprint |-> IndexFingerprint(config, entries),
   entries |-> entries,
   document_frequencies |-> Frequencies(entries),
   average_document_length |-> Average(entries),
   document_count |-> Len(entries)]

Snapshot(documents, config) ==
  SnapshotOf(Ordered(UNION {EntriesOf(d) : d \in ToSet(documents)},
                     LAMBDA a, b : IdBefore(a.chunk.chunk_id, b.chunk.chunk_id)),
             config)

(* Faulty variant: the statistics are checked, the fingerprint is not.      *)
Intact_StatisticsOnly(snapshot) ==
  /\ snapshot.config_fingerprint = snapshot.config
  /\ snapshot.document_frequencies = Frequencies(snapshot.entries)
  /\ snapshot.average_document_length = Average(snapshot.entries)
  /\ snapshot.document_count = Len(snapshot.entries)

(* __init__, on every path that makes an index.                            *)
Intact(snapshot) ==
  /\ snapshot.config_fingerprint = snapshot.config
  /\ snapshot.index_fingerprint
       = IndexFingerprint(snapshot.config_fingerprint, snapshot.entries)
  /\ snapshot.document_frequencies = Frequencies(snapshot.entries)
  /\ snapshot.average_document_length = Average(snapshot.entries)
  /\ snapshot.document_count = Len(snapshot.entries)

-----------------------------------------------------------------------------
(* search: a filter holds a set per field, empty when the field is not      *)
(* asked for, and the first and last date (0: none).                       *)

Matches(entry, filter) ==
  /\ filter.domain = {} \/ entry.domain \in filter.domain
  /\ filter.document = {} \/ entry.chunk.document_id \in filter.document
  /\ filter.chunking = {} \/ entry.chunk.config \in filter.chunking
  /\ filter.from = 0 \/ (entry.date # 0 /\ entry.date >= filter.from)
  /\ filter.to = 0 \/ (entry.date # 0 /\ entry.date <= filter.to)

CountMatching(snapshot, filter) ==
  Cardinality({i \in DOMAIN snapshot.entries : Matches(snapshot.entries[i], filter)})

Frequency(function, term) == IF term \in DOMAIN function THEN function[term] ELSE 0

(* log1p((n - df + 1/2) / (df + 1/2)) = ln(2n + 2) - ln(2 df + 1), in       *)
(* thousandths; an index has at most MaxEntries entries.                   *)
MaxEntries == 15
Ln ==
  <<0, 693, 1099, 1386, 1609, 1792, 1946, 2079, 2197, 2303, 2398, 2485,
    2565, 2639, 2708, 2773, 2833, 2890, 2944, 2996, 3045, 3091, 3135,
    3178, 3219, 3258, 3296, 3332, 3367, 3401, 3434, 3466>>

Idf(snapshot, term) ==
  LET df == Frequency(snapshot.document_frequencies, term) IN
  IF df = 0 \/ snapshot.document_count = 0 THEN 0
  ELSE Ln[2 * snapshot.document_count + 2] - Ln[2 * df + 1]

(* With k1 = 1.2 and b = 0.75, in hundredths; delta is 1 for BM25+.  No     *)
(* length at all counts as an average of one.                              *)
Saturation(snapshot, entry, tf) ==
  LET average == snapshot.average_document_length
      total == IF average[1] = 0 THEN 1 ELSE average[1]
      count == IF average[1] = 0 THEN 1 ELSE average[2]
  IN (2200 * tf * total)
       \div (10 * tf * total + 3 * total + 9 * entry.document_length * count)
     + (IF snapshot.config.variant = "bm25_plus" THEN 100 ELSE 0)

Part(snapshot, entry, term) ==
  LET tf == Frequency(entry.term_frequencies, term) IN
  IF tf = 0 THEN 0 ELSE Idf(snapshot, term) * Saturation(snapshot, entry, tf)

(* A term counts as often as the query has it.                             *)
Score(snapshot, entry, query) ==
  Summed([n \in DOMAIN query |-> Part(snapshot, entry, query[n])])

MatchedTerms(entry, query) ==
  {t \in ToSet(query) : Frequency(entry.term_frequencies, t) > 0}

Ranked(a, b) ==
  a.score > b.score \/ (a.score = b.score /\ IdBefore(a.chunk_id, b.chunk_id))

Scored(snapshot, query, filter) ==
  {[chunk_id |-> e.chunk.chunk_id, text |-> e.chunk.text,
    score |-> Score(snapshot, e, query), matched |-> MatchedTerms(e, query)] :
     e \in {e \in ToSet(snapshot.entries) :
              Matches(e, filter) /\ MatchedTerms(e, query) # {}}}

Best(ranked, topK) == SubSeq(ranked, 1, IF topK < Len(ranked) THEN topK ELSE Len(ranked))

Search(snapshot, query, topK, filter) ==
  Best(Ordered({s \in Scored(snapshot, query, filter) : s.score > 0}, Ranked), topK)
=============================================================================
