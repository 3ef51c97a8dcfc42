------------------------------- MODULE Corpus -------------------------------
(***************************************************************************)
(* The corpus manifest (corpus/manifest.py).  Layout says of every path of  *)
(* the corpus tree where it lies: its place in the sorted order of paths    *)
(* (rank), the directories it is under (split, domain) and its suffix.  The *)
(* bytes of a file are named by a number; a digest is the value it digests. *)
(***************************************************************************)
EXTENDS Words, Files

CONSTANT Layout
ASSUME LayoutAssumption == \A path \in DOMAIN Layout : Layout[path].rank \in Nat

Supported == {"pdf", "docx", "html"}
Splits == {"development", "evaluation"}
Domains == {"financial", "legal", "research"}

(* _parse_layout accepts <split>/<domain>/<file> only.                      *)
WellPlaced(path) ==
  /\ Layout[path].split \in Splits
  /\ Layout[path].domain \in Domains

Document(path, bytes) ==
  [document_id |-> <<Layout[path].rank, bytes>>, checksum |-> bytes, path |-> path,
   split |-> Layout[path].split, domain |-> Layout[path].domain,
   type |-> Layout[path].suffix]

(* Faulty variant: identities are compared, checksums are not.              *)
Leaks_IdsOnly(documents) ==
  \E d, e \in ToSet(documents) : d.split # e.split /\ d.document_id = e.document_id

Leaks(documents) ==
  \E d, e \in ToSet(documents) :
    /\ d.split # e.split
    /\ d.checksum = e.checksum \/ d.document_id = e.document_id

FingerprintDocuments(documents) == ToBag(documents)

DuplicateGroups(documents) ==
  LET Same(d) == {e \in ToSet(documents) : e.checksum = d.checksum} IN
  {Same(d) : d \in {d \in ToSet(documents) : Cardinality(Same(d)) > 1}}

ManifestOf(documents) ==
  [documents |-> documents, duplicates |-> DuplicateGroups(documents),
   fingerprint |-> FingerprintDocuments(documents)]

(* Sorted rglob of the files there are.                                     *)
Listing(paths) ==
  Ordered(paths, LAMBDA p, q : Layout[p].rank < Layout[q].rank)

(* read_manifest                                                           *)
Acceptable(file) ==
  /\ IsWhole(file)
  /\ file[2].fingerprint = FingerprintDocuments(file[2].documents)
  /\ ~Leaks(file[2].documents)
=============================================================================
