------------------------------ MODULE Cleaning ------------------------------
(***************************************************************************)
(* clean_parsed_document (cleaning/cleaner.py) with the normalization it    *)
(* applies (cleaning/normalizer.py): elements are normalized, headers and   *)
(* footers that repeat over pages, near duplicates of boilerplate and empty *)
(* elements are removed, and each removal leaves evidence.                  *)
(*                                                                         *)
(* An element is known by its place in the parsed document.  The settings   *)
(* are the defaults, except the thresholds; case is folded already, every   *)
(* text is in its Unicode normal form, and no text reads "page n of m".     *)
(***************************************************************************)
EXTENDS Words

Markers == {<<"confidential">>}

-----------------------------------------------------------------------------
(* normalize_text                                                          *)

Visible(row) == Without([i \in DOMAIN row |-> Without(row[i], Invisible)], <<>>)

Breaks(w) == Len(w) >= 2 /\ Last(w) = Hyphen /\ w[Len(w) - 1] \notin {Hyphen, Stop}
Continues(w) == w[1] \notin {Hyphen, Stop, Bar, Bullet}

(* A word broken by a hyphen at the end of a row is joined with the first   *)
(* word of the next, in a table too.                                       *)
JoinRow(rows, row) ==
  IF /\ rows # <<>> /\ row # <<>>
     /\ LET last == Last(rows) IN last # <<>> /\ Breaks(Last(last))
     /\ Continues(row[1])
  THEN Append(Front(rows), Front(Last(rows)) \o <<Front(Last(Last(rows))) \o row[1]>>
                           \o Tail(row))
  ELSE Append(rows, row)

OneRow(rows) == IF rows = <<>> THEN <<>> ELSE <<Text(rows)>>

Joined(rows) ==
  LET joined[n \in 0..Len(rows)] ==
        IF n = 0 THEN <<>> ELSE JoinRow(joined[n - 1], Visible(rows[n]))
  IN Without(joined[Len(rows)], <<>>)

Normalize(kind, rows) ==
  IF kind = "table" THEN Joined(rows) ELSE OneRow(Joined(rows))

Prepared(elements) ==
  [i \in DOMAIN elements |->
     [elements[i] EXCEPT !.rows = Normalize(elements[i].kind, elements[i].rows)]]

-----------------------------------------------------------------------------
(* Headers and footers that repeat                                         *)

PageNumber == <<"N">>

(* A number counts as a page number after the word page, or at the end of   *)
(* the text after a separator.                                             *)
PageNumberAt(text, i) ==
  /\ Number(text[i])
  /\ i > 1
  /\ text[i - 1] = Page \/ (i = Len(text) /\ Separator(text[i - 1]))

IsPageNumber(text) ==
  \/ Len(text) = 1 /\ Number(text[1])
  \/ Len(text) = 2 /\ text[1] = Page /\ Number(text[2])

Signature(text) ==
  IF Len(text) = 1 /\ Number(text[1]) THEN <<PageNumber>>
  ELSE [i \in DOMAIN text |-> IF PageNumberAt(text, i) THEN PageNumber ELSE text[i]]

Margin(prepared) ==
  {i \in DOMAIN prepared :
     prepared[i].kind \in {"header", "footer"} /\ ~Blank(prepared[i].rows)}

(* The group of a header or footer: same kind, same signature.              *)
SameMargin(prepared, i) ==
  {j \in Margin(prepared) :
     /\ prepared[j].kind = prepared[i].kind
     /\ Signature(Text(prepared[j].rows)) = Signature(Text(prepared[i].rows))}

PagesOf(prepared, members) == {prepared[i].page : i \in members} \ {0}

(* Members without any page are counted instead of their pages.             *)
Spread(members, pages) == Cardinality(IF pages = {} THEN members ELSE pages)

Repeats(prepared, members, config) ==
  Spread(members, PagesOf(prepared, members)) >= config.repeated_min_pages

RepeatedMargin(prepared, config) ==
  {i \in Margin(prepared) : Repeats(prepared, SameMargin(prepared, i), config)}

MarginReason(element) ==
  IF IsPageNumber(Text(element.rows)) THEN "page_number"
  ELSE IF element.kind = "header" THEN "repeated_header" ELSE "repeated_footer"

-----------------------------------------------------------------------------
(* Near duplicates of boilerplate                                          *)

Jaccard(A, B) ==
  IF A \cup B = {} THEN <<1, 1>> ELSE <<Cardinality(A \cap B), Cardinality(A \cup B)>>
ComparisonTokens(text) ==
  {Core(text[i]) : i \in DOMAIN text} \ {<<>>, <<Bar>>, <<Bullet>>}
Similarity(a, b) == Jaccard(ComparisonTokens(a), ComparisonTokens(b))

Eligible(element, config) ==
  LET text == Text(element.rows) IN
  /\ element.kind \in {"text", "ocr_text"}
  /\ element.page # 0
  /\ Len(text) \in config.dedup_min .. config.dedup_max
  /\ ToSet(text) \cap Markers # {}

(* clusters: the elements of each, the representative first.  An element    *)
(* joins the most similar of those that are similar enough, the first of    *)
(* them, or opens one.                                                     *)
Near(prepared, i, cluster) ==
  Similarity(Text(prepared[i].rows), Text(prepared[cluster[1]].rows))

Similar(near, config) == {c \in DOMAIN near : AtLeast(near[c], config.similarity)}

Closest(near, similar) ==
  {c \in similar : \A d \in similar :
     Greater(near[c], near[d]) \/ (AtLeast(near[c], near[d]) /\ c <= d)}

Join(clusters, i, near, similar) ==
  IF similar = {} THEN Append(clusters, <<i>>)
  ELSE [c \in DOMAIN clusters |->
          IF c \in Closest(near, similar) THEN Append(clusters[c], i) ELSE clusters[c]]

Assign(prepared, config, clusters, i) ==
  LET near == [c \in DOMAIN clusters |-> Near(prepared, i, clusters[c])] IN
  Join(clusters, i, near, Similar(near, config))

Clusters(prepared, removed, config) ==
  LET clusters[n \in 0..Len(prepared)] ==
        IF n = 0 THEN <<>>
        ELSE IF n \in removed \/ ~Eligible(prepared[n], config) THEN clusters[n - 1]
        ELSE Assign(prepared, config, clusters[n - 1], n)
  IN clusters[Len(prepared)]

Evidence(i, match, reason) == [element |-> i, match |-> match, reason |-> reason]

(* Faulty variant: a duplicate is matched with the element before it in the *)
(* cluster.                                                                *)
DuplicateEvidence_Chained(prepared, cluster) ==
  {Evidence(cluster[k], cluster[k - 1], "duplicate_boilerplate") :
     k \in DOMAIN cluster \ {1}}

DuplicateEvidence(prepared, cluster) ==
  {Evidence(i, cluster[1],
            IF AtLeast(Near(prepared, i, cluster), <<1, 1>>)
            THEN "duplicate_boilerplate" ELSE "near_duplicate_boilerplate") :
     i \in ToSet(Tail(cluster))}

Duplicates(prepared, clusters, config) ==
  UNION {IF Cardinality(PagesOf(prepared, ToSet(cluster))) >= config.dedup_min_pages
         THEN DuplicateEvidence(prepared, cluster) ELSE {} : cluster \in ToSet(clusters)}

-----------------------------------------------------------------------------
(* A cleaned document: its elements with the place of their source, the     *)
(* removals (match 0: none) and the counts of CleaningStats.                *)

Count(S, Test(_)) == Cardinality({x \in S : Test(x)})
Elements(evidence) == {e.element : e \in evidence}

EmptyElements(prepared, removed) ==
  {i \in DOMAIN prepared :
     /\ i \notin removed
     /\ Blank(prepared[i].rows)
     /\ prepared[i].kind \notin {"table", "page_break"}}

WordCount(elements) == Len(FlattenSeq([i \in DOMAIN elements |-> Text(elements[i].rows)]))

NonNegative(n) == IF n > 0 THEN n ELSE 0

MarginEvidence(prepared, config) ==
  {Evidence(i, 0, MarginReason(prepared[i])) : i \in RepeatedMargin(prepared, config)}

(* The three removals, each on what the ones before it left.               *)
WithDuplicates(prepared, evidence, config) ==
  evidence \cup Duplicates(prepared, Clusters(prepared, Elements(evidence), config), config)

WithEmpty(prepared, evidence) ==
  evidence \cup {Evidence(i, 0, "empty_after_normalization") :
                   i \in EmptyElements(prepared, Elements(evidence))}

Removals(prepared, config) ==
  WithEmpty(prepared, WithDuplicates(prepared, MarginEvidence(prepared, config), config))

Sourced(prepared) ==
  [i \in DOMAIN prepared |->
     [source |-> i, kind |-> prepared[i].kind, rows |-> prepared[i].rows,
      page |-> prepared[i].page, hint |-> prepared[i].hint]]

Kept(prepared, removed) ==
  Only(Sourced(prepared), {e \in ToSet(Sourced(prepared)) : e.source \notin removed})

Reasons(removals, reasons) == Count(removals, LAMBDA e : e.reason \in reasons)

Stats(elements, prepared, removals, cleaned) ==
  [elements_in |-> Len(prepared),
   elements_out |-> Len(cleaned),
   duplicates_removed |-> Count(removals, LAMBDA e : e.match # 0),
   boilerplate_removed |->
     Count(removals, LAMBDA e : e.reason # "empty_after_normalization"),
   header_footer_removed |->
     Reasons(removals, {"page_number", "repeated_header", "repeated_footer"}),
   page_numbers_removed |-> Reasons(removals, {"page_number"}),
   ocr_elements |-> Count(DOMAIN prepared, LAMBDA i : prepared[i].kind = "ocr_text"),
   tables_preserved |-> Count(DOMAIN cleaned, LAMBDA k : cleaned[k].kind = "table"),
   words_removed |-> NonNegative(WordCount(elements) - WordCount(cleaned))]

CleanedDocument(elements, prepared, removals, cleaned) ==
  [elements |-> cleaned, removals |-> removals,
   stats |-> Stats(elements, prepared, removals, cleaned)]

CleanPrepared(elements, prepared, removals) ==
  CleanedDocument(elements, prepared, removals, Kept(prepared, Elements(removals)))

CleanRemoving(elements, prepared, config) ==
  CleanPrepared(elements, prepared, Removals(prepared, config))

Clean(elements, config) == CleanRemoving(elements, Prepared(elements), config)
=============================================================================
