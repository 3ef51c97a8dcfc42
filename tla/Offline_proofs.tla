--------------------------- MODULE Offline_proofs ---------------------------
(***************************************************************************)
(* Theorems about the offline tools (Workbench) and about the evidence of   *)
(* an evaluation (Reconciliation), for every corpus, matrix, editor and     *)
(* history of commands.                                                    *)
(*                                                                         *)
(* Workbench: what validate and parse work on was scanned, and what was     *)
(* validated is what is parsed (ManifestsAreScanned, ValidatedIsTrue).  An  *)
(* editor may cut documents from a manifest and change the first one over   *)
(* and over, but a manifest with the fingerprint of its documents was not   *)
(* edited at all (SameDocuments): its documents are a tail of the scanned   *)
(* ones but for the first (Derived), and one that lost an item cannot have  *)
(* as many of each as before.                                              *)
(*                                                                         *)
(* Cleaning: the evidence of a removal is true (RemovalsJustified) because  *)
(* every cluster of near duplicates opens with an element that precedes,    *)
(* resembles and outlasts the others, no element is in two clusters         *)
(* (Clustered, kept by every element assigned), and the headers and footers *)
(* that look alike repeat together or not at all (MarginGroup).  Its        *)
(* invariant says that the report holds what a loader returned and cleans   *)
(* just that (ReportShape).                                                *)
(*                                                                         *)
(* Chunking: the chunk report that parse writes leaves nothing out          *)
(* (NothingIsLost) because it is the report of a document a loader has made *)
(* and of a configuration the program accepts, and stays it while the next  *)
(* documents are cleaned (ReportInv); that such a report tells every unit   *)
(* of its document (IsReported) rests on Documents_proofs.  Cleaning and the  *)
(* choice of units keep the order of the document (Ascending), so that what  *)
(* stands on neighbouring units of a piece (ShiftStands) stands on           *)
(* neighbouring elements of it (ChunksAreSound).                            *)
(*                                                                         *)
(* Reconciliation: EvidenceAgrees speaks of a run that has finished and of  *)
(* files at rest.  To be kept by every step it needs to know how far the    *)
(* process is: which run files and events are of this run (RunFiles,        *)
(* RunLog), that the reports written so far are its own unless a write      *)
(* failed (RunReports), and what an event of an earlier run can still say   *)
(* after its run file was replaced (LogIsTrue).                            *)
(*                                                                         *)
(* GateIsSound says that the means of the slices decide as the sums of the  *)
(* records would, but where the floats of equal fractions are compared.      *)
(* GateInv keeps that every run file is known: its records                  *)
(* are of examples of an accepted data set, its scores are fractions, and   *)
(* its slices are computed from just these records (Known), because the     *)
(* checkpoints and the process hold observations (InHand).  The rest is     *)
(* arithmetic: a fraction in lowest terms keeps its value (RatioIs), so a   *)
(* mean is below a floor, or drops by more than allowed, exactly when the   *)
(* totals do (FloorIs, DropIs), with the same say on the boundary.          *)
(*                                                                         *)
(* SummaryIsFaithful says that a run file tells what was observed.  FaithInv *)
(* adds to GateInv that every checkpoint is the observation of its example  *)
(* (Genuine), that a process has in memory what it observed and judged, in  *)
(* the order of the data set, as long as no example has failed (Honest),    *)
(* that run files are made from these records alone (IsRun), and that the   *)
(* winners of a run that has finished are those of its report (WinnersTrue). *)
(* What the judges and classify_failure make of an observation follows from *)
(* the two answers the provider gives (ObserveExplained).                   *)
(*                                                                         *)
(* AnswersAreExact says what a search in a saved index is worth.  IndexInv   *)
(* adds to ReportInv that the indexes built are built ones (IsBuilt: a chunk *)
(* id names one entry, since no two chunks of a report have the same), that  *)
(* a snapshot one can read has the fingerprints of one of them (SnapshotIs), *)
(* and that the answer is what such a snapshot returned (AnswerIs).  So much *)
(* is left by every edit (UnnoticedIs, NoticedIs), and with the checks of a  *)
(* load it makes an index but for its counts and lengths (OneIndex).  What   *)
(* it answers passes the filter (ResultsPass), and is best if it is a built  *)
(* one (ResultsAre), by Documents_proofs.                                   *)
(***************************************************************************)
EXTENDS Workbench, Reconciliation, Documents_proofs

-----------------------------------------------------------------------------
(* Files and manifests.                                                    *)

(* A whole file is read back; a torn or absent one is not whole.           *)
LEMMA WholeIs ==
  ASSUME NEW v PROVE IsWhole(Whole(v)) /\ Whole(v)[2] = v /\ ~IsWhole(Torn) /\ ~IsWhole(Absent)
  BY DEF IsWhole, Whole, Torn, Absent

(* How often a value occurs.                                               *)
Places(s, x) == {i \in 1..Len(s) : s[i] = x}

(* What an editor may make of the documents m of a manifest: a tail of      *)
(* them, with anything in the first place.                                 *)
Derived(d, m) ==
  /\ Sequence(d) /\ Sequence(m) /\ Len(d) <= Len(m)
  /\ \A i \in 2..Len(d) : d[i] = m[i + (Len(m) - Len(d))]

(* One bag has as many of a value as the other.                            *)
LEMMA SameBag ==
  ASSUME NEW d, NEW m, Sequence(d), Sequence(m),
         FingerprintDocuments(d) = FingerprintDocuments(m)
  PROVE  \A i \in 1..Len(m) :
           /\ d # <<>>
           /\ Cardinality(Places(d, m[i])) = Cardinality(Places(m, m[i]))
<1> DEFINE Bag(s) == [x \in Range(s) |-> Cardinality({i \in DOMAIN s : s[i] = x})]
<1>1. Bag(d) = Bag(m)
  BY Zenon DEF FingerprintDocuments, ToBag
<1>2. Range(d) = Range(m)
  <2>1. DOMAIN Bag(d) = Range(d) /\ DOMAIN Bag(m) = Range(m)
    OBVIOUS
  <2> QED
    BY <1>1, <2>1
<1>3. DOMAIN d = 1..Len(d) /\ DOMAIN m = 1..Len(m)
  BY SequenceIs
<1> SUFFICES ASSUME NEW i \in 1..Len(m)
             PROVE  /\ d # <<>>
                    /\ Cardinality(Places(d, m[i])) = Cardinality(Places(m, m[i]))
  OBVIOUS
<1>4. m[i] \in Range(m) /\ m[i] \in Range(d)
  BY <1>2, <1>3 DEF Range
<1>5. d # <<>>
  <2>1. PICK j \in DOMAIN d : TRUE
    BY <1>4 DEF Range
  <2> QED
    BY <2>1
<1>6. Bag(d)[m[i]] = Cardinality({j \in DOMAIN d : d[j] = m[i]})
      /\ Bag(m)[m[i]] = Cardinality({j \in DOMAIN m : m[j] = m[i]})
  BY <1>4
<1>7. {j \in DOMAIN d : d[j] = m[i]} = Places(d, m[i])
      /\ {j \in DOMAIN m : m[j] = m[i]} = Places(m, m[i])
  BY <1>3 DEF Places
<1> QED
  BY <1>1, <1>5, <1>6, <1>7

(* Places that map into others but one are fewer than they.                *)
LEMMA Fewer ==
  ASSUME NEW S, NEW T, IsFiniteSet(T), NEW f \in [S -> T], NEW t \in T,
         \A i, j \in S : f[i] = f[j] => i = j,
         \A i \in S : f[i] # t
  PROVE  Cardinality(S) # Cardinality(T)
<1>1. f \in Injection(S, T)
  BY DEF Injection, IsInjective
<1>2. Cardinality(S) = Cardinality(T) <=> f \in Surjection(S, T)
  BY <1>1, FS_Injection
<1>3. f \notin Surjection(S, T)
  BY DEF Surjection
<1> QED
  BY <1>2, <1>3

LEMMA PlacesAreFinite ==
  ASSUME NEW s, Sequence(s), NEW x PROVE IsFiniteSet(Places(s, x))
<1>1. Len(s) \in Nat
  BY SequenceIs
<1>2. IsFiniteSet(1..Len(s))
  BY <1>1, FS_Interval
<1>3. Places(s, x) \subseteq 1..Len(s)
  BY DEF Places
<1> QED
  BY <1>2, <1>3, FS_Subset

(* FingerprintDocuments: an edited manifest is accepted only if nothing was *)
(* edited.                                                                 *)
LEMMA SameDocuments ==
  ASSUME NEW d, NEW m, Derived(d, m), FingerprintDocuments(d) = FingerprintDocuments(m)
  PROVE  d = m
<1>1. PICK k \in Int : k = Len(m) - Len(d)
  BY SequenceIs DEF Derived
<1>2. /\ Sequence(d) /\ Sequence(m) /\ Len(d) \in Nat /\ Len(m) \in Nat
      /\ k \in Nat /\ Len(m) = Len(d) + k /\ \A i \in 2..Len(d) : d[i] = m[i + k]
  BY <1>1, SequenceIs DEF Derived
<1>3. \A i \in 1..Len(m) :
        /\ d # <<>>
        /\ Cardinality(Places(d, m[i])) = Cardinality(Places(m, m[i]))
  BY <1>2, SameBag
<1>4. CASE Len(m) = 0
  <2>1. Len(d) = 0
    BY <1>2, <1>4
  <2>2. d = [i \in 1..Len(d) |-> d[i]] /\ m = [i \in 1..Len(m) |-> m[i]]
    BY <1>2, SequenceIs
  <2> QED
    BY <1>4, <2>1, <2>2
<1>5. CASE Len(m) # 0
  <2>1. Len(d) >= 1
    <3>1. 1 \in 1..Len(m)
      BY <1>2, <1>5
    <3>2. d # <<>>
      BY <1>3, <3>1
    <3> QED
      BY <1>2, <3>2, EmptySeq DEF Sequence
  <2>2. d[1] = m[1]
    <3> SUFFICES ASSUME d[1] # m[1] PROVE FALSE
      OBVIOUS
    <3> DEFINE x == m[1]
               f == [i \in Places(d, x) |-> i + k]
    <3>1. ASSUME NEW i \in Places(d, x) PROVE f[i] \in Places(m, x) /\ f[i] # 1
      <4>1. i \in 1..Len(d) /\ d[i] = x /\ i # 1
        BY DEF Places
      <4>2. i \in 2..Len(d) /\ i + k \in 1..Len(m) /\ i + k # 1
        BY <1>2, <4>1
      <4>3. m[i + k] = x
        BY <1>2, <4>1, <4>2
      <4> QED
        BY <4>2, <4>3 DEF Places
    <3>2. \A i, j \in Places(d, x) : f[i] = f[j] => i = j
      BY <1>2 DEF Places
    <3>3. 1 \in Places(m, x) /\ 1 \in 1..Len(m)
      BY <1>2, <1>5 DEF Places
    <3>4. f \in [Places(d, x) -> Places(m, x)]
      BY <3>1
    <3>5. IsFiniteSet(Places(m, x))
      BY <1>2, PlacesAreFinite
    <3>6. \A i \in Places(d, x) : f[i] # 1
      BY <3>1
    <3> HIDE DEF f
    <3>7. Cardinality(Places(d, x)) # Cardinality(Places(m, x))
      BY <3>2, <3>3, <3>4, <3>5, <3>6, Fewer
    <3> QED
      BY <1>3, <3>3, <3>7
  <2>3. k = 0
    <3> SUFFICES ASSUME k >= 1 PROVE FALSE
      BY <1>2
    <3>0. Len(m) >= 2 /\ 2 \in 1..Len(m)
      BY <1>2, <2>1
    <3> DEFINE x == m[2]
               f == [i \in Places(d, x) |-> IF i = 1 THEN 1 ELSE i + k]
    <3>1. ASSUME NEW i \in Places(d, x) PROVE f[i] \in Places(m, x) /\ f[i] # 2
      <4>1. i \in 1..Len(d) /\ d[i] = x
        BY DEF Places
      <4>2. CASE i = 1
        <5>1. m[1] = x /\ 1 \in 1..Len(m)
          BY <2>2, <3>0, <4>1, <4>2
        <5> QED
          BY <4>2, <5>1 DEF Places
      <4>3. CASE i # 1
        <5>1. i \in 2..Len(d) /\ i + k \in 1..Len(m) /\ i + k # 2
          BY <1>2, <4>1, <4>3
        <5>2. m[i + k] = x
          BY <1>2, <4>1, <5>1
        <5> QED
          BY <4>3, <5>1, <5>2 DEF Places
      <4> QED
        BY <4>2, <4>3
    <3>2. \A i, j \in Places(d, x) : f[i] = f[j] => i = j
      <4>1. \A i \in Places(d, x) : i \in Nat /\ i >= 1
        BY <1>2 DEF Places
      <4> QED
        BY <1>2, <4>1
    <3>3. 2 \in Places(m, x)
      BY <3>0 DEF Places
    <3>4. f \in [Places(d, x) -> Places(m, x)]
      BY <3>1
    <3>5. IsFiniteSet(Places(m, x))
      BY <1>2, PlacesAreFinite
    <3>6. \A i \in Places(d, x) : f[i] # 2
      BY <3>1
    <3> HIDE DEF f
    <3>7. Cardinality(Places(d, x)) # Cardinality(Places(m, x))
      BY <3>2, <3>3, <3>4, <3>5, <3>6, Fewer
    <3> QED
      BY <1>3, <3>0, <3>7
  <2>4. \A i \in 1..Len(m) : d[i] = m[i]
    <3> SUFFICES ASSUME NEW i \in 1..Len(m) PROVE d[i] = m[i]
      OBVIOUS
    <3>1. CASE i = 1
      BY <2>2, <3>1
    <3>2. CASE i # 1
      <4>1. i \in 2..Len(d) /\ i + k = i
        BY <1>2, <2>3, <3>2
      <4> QED
        BY <1>2, <4>1
    <3> QED
      BY <3>1, <3>2
  <2>5. Len(d) = Len(m) /\ d = [i \in 1..Len(d) |-> d[i]] /\ m = [i \in 1..Len(m) |-> m[i]]
    BY <1>2, <2>3, SequenceIs
  <2> QED
    BY <2>4, <2>5
<1> QED
  BY <1>4, <1>5

(* rageval-parse corpus takes documents of the manifest only.               *)
LEMMA SelectedIs ==
  ASSUME NEW documents, Sequence(documents), NEW split, NEW domain
  PROVE  /\ Sequence(Selected(documents, split, domain))
         /\ ToSet(Selected(documents, split, domain)) \subseteq ToSet(documents)
<1>1. CASE split = "both" /\ domain = "any"
  BY <1>1 DEF Selected
<1>2. CASE ~(split = "both" /\ domain = "any")
  <2> DEFINE S == {d \in ToSet(documents) : Wanted(d, split, domain)}
             c == Only(documents, S)
  <2>1. Selected(documents, split, domain) = c
    BY <1>2 DEF Selected
  <2> HIDE DEF S
  <2>2. PICK at : Picks(c, documents, Len(documents), S, at)
    BY OnlyIs
  <2> HIDE DEF c
  <2>3. Sequence(c) /\ \A k \in 1..Len(c) : c[k] \in ToSet(documents)
    BY <2>2, SequenceIs DEF Picks
  <2>4. ToSet(c) = {c[k] : k \in 1..Len(c)}
    BY <2>3, SequenceIs
  <2> QED
    BY <2>1, <2>3, <2>4
<1> QED
  BY <1>1, <1>2

LEMMA AllSelected == ASSUME NEW documents PROVE Selected(documents, "both", "any") = documents
  BY DEF Selected

-----------------------------------------------------------------------------
(* The invariant of the tools.                                             *)

(* The fields of a tool at work, and the steps of each command.             *)
JobFields == {"command", "step", "todo", "documents", "done", "work"}

JobShape ==
  /\ DOMAIN job = JobFields
  /\ Sequence(job.documents)
  /\ \/ job.command = "none" /\ job.step = "none" /\ job.documents = <<>>
     \/ job.command \in {"scan", "index"} /\ job.step = "scan"
     \/ job.command = "index" /\ job.step \in {"load", "clean", "chunk"}
     \/ job.command = "validate" /\ job.step = "check" /\ Sequence(job.todo)
     \/ /\ job.command = "parse" /\ job.step \in {"parse", "write"}
        /\ Sequence(job.done) /\ (job.step = "parse" => Sequence(job.todo))

(* The manifest file is of a scan, but for what an editor did to its        *)
(* documents.                                                              *)
ManifestIsDerived ==
  /\ IsWhole(manifest) =>
       /\ "documents" \in DOMAIN manifest[2] /\ "fingerprint" \in DOMAIN manifest[2]
       /\ \E m \in scanned :
            /\ manifest[2].fingerprint = FingerprintDocuments(m.documents)
            /\ Derived(manifest[2].documents, m.documents)

(* What a validation has found, and what it has still to look at; and what  *)
(* is found afterwards as long as nothing is edited.                       *)
Unedited ==
  /\ settled = "yes" /\ IsWhole(manifest) =>
       \A d \in ToSet(manifest[2].documents) : Current(d)
  /\ settled = "checking" /\ job.command = "validate" =>
       /\ IsWhole(manifest) /\ job.documents = manifest[2].documents
       /\ \A d \in ToSet(job.documents) : Current(d) \/ d \in ToSet(job.todo)
  /\ settled = "yes" /\ job.command = "parse" =>
       /\ \A i \in DOMAIN job.done : job.done[i].bytes = job.done[i].document.checksum
       /\ job.step = "parse" => \A d \in ToSet(job.todo) : Current(d)

(* The choices of --split and --domain.                                    *)
SplitsAreKnown ==
  setup.splits \subseteq Splits \cup {"both"} /\ setup.domains \subseteq Domains \cup {"any"}

WorkInv == SplitsAreKnown /\ JobShape /\ ManifestIsDerived /\ ManifestsAreScanned /\ Unedited

-----------------------------------------------------------------------------
(* The initial state.                                                      *)
(* No tool at work: no documents.                                          *)
LEMMA IdleIs ==
  /\ DOMAIN Idle = JobFields /\ Idle.command = "none" /\ Idle.step = "none"
  /\ Idle.documents = <<>> /\ Idle.done = <<>>
  BY DEF Idle, JobFields

LEMMA IdleShape ==
  ASSUME job' = Idle PROVE JobShape' /\ ManifestsAreScanned' /\ job'.command = "none"
<1>1. Sequence(<<>>) /\ ToSet(<<>>) = {}
  BY EmptyIs
<1>2. JobShape'
  BY <1>1, IdleIs DEF JobShape
<1>3. ManifestsAreScanned'
  BY <1>1, IdleIs DEF ManifestsAreScanned
<1> QED
  BY <1>2, <1>3, IdleIs

LEMMA InitWorkInv == Init => WorkInv
<1> SUFFICES ASSUME Init PROVE WorkInv
  OBVIOUS
<1>1. job = Idle /\ manifest = Absent /\ settled = "no"
  BY DEF Init
<1>2. JobShape
  BY <1>1, IdleIs, EmptyIs DEF JobShape
<1>3. ManifestIsDerived
  BY <1>1, WholeIs DEF ManifestIsDerived
<1>4. ManifestsAreScanned
  BY <1>1, IdleIs, EmptyIs DEF ManifestsAreScanned
<1>5. Unedited
  BY <1>1 DEF Unedited
<1>6. SplitsAreKnown
  BY ScenarioAssumption DEF Init, SplitsAreKnown
<1> QED
  BY <1>2, <1>3, <1>4, <1>5, <1>6 DEF WorkInv

-----------------------------------------------------------------------------
(* Steps by what they leave alone.                                         *)

LEMMA ManifestStays ==
  ASSUME WorkInv, UNCHANGED <<setup, manifest, scanned>> PROVE ManifestIsDerived' /\ SplitsAreKnown'
  BY DEF WorkInv, ManifestIsDerived, SplitsAreKnown

(* The tool and the manifest stay; an edit of a file unsettles.             *)
LEMMA Elsewhere ==
  ASSUME WorkInv, UNCHANGED <<setup, job, manifest, scanned>>,
         settled' = "no" \/ UNCHANGED <<disk, settled>>
  PROVE  WorkInv'
<1>1. JobShape' /\ ManifestsAreScanned'
  BY DEF WorkInv, JobShape, ManifestsAreScanned
<1>2. Unedited'
  <2>1. CASE settled' = "no"
    BY <2>1 DEF Unedited
  <2>2. CASE UNCHANGED <<disk, settled>>
    BY <2>2 DEF WorkInv, Unedited, Current
  <2> QED
    BY <2>1, <2>2
<1> QED
  BY <1>1, <1>2, ManifestStays DEF WorkInv

(* A tool ends or dies.                                                    *)
LEMMA ToolEnds ==
  ASSUME WorkInv, job' = Idle, UNCHANGED <<setup, disk, manifest, scanned>>,
         settled' = "no" \/ settled' = settled
  PROVE  WorkInv'
<1>1. JobShape' /\ ManifestsAreScanned' /\ job'.command = "none"
  BY IdleShape
<1>2. Unedited'
  BY <1>1 DEF WorkInv, Unedited, Current
<1> QED
  BY <1>1, <1>2, ManifestStays DEF WorkInv

(* A step of a tool that neither validates nor parses.                      *)
LEMMA Works ==
  ASSUME WorkInv, DOMAIN job' = JobFields, Sequence(job'.documents),
         \/ job'.command \in {"scan", "index"} /\ job'.step = "scan"
         \/ /\ job'.command = "index" /\ job'.step \in {"load", "clean", "chunk"}
            /\ \A d, e \in ToSet(job'.documents) : d.checksum = e.checksum => d.split = e.split,
         UNCHANGED <<setup, disk, manifest, scanned, settled>>
  PROVE  WorkInv'
<1>1. JobShape'
  BY DEF JobShape
<1>2. ManifestsAreScanned'
  BY DEF ManifestsAreScanned
<1>3. Unedited'
  BY DEF WorkInv, Unedited, Current
<1> QED
  BY <1>1, <1>2, <1>3, ManifestStays DEF WorkInv

(* A step of parsing after which the same documents are chosen.             *)
LEMMA Parses ==
  ASSUME WorkInv, job.command = "parse", DOMAIN job' = JobFields, job'.command = "parse",
         job'.documents = job.documents, job'.step \in {"parse", "write"}, Sequence(job'.done),
         job'.step = "parse" => Sequence(job'.todo),
         settled = "yes" =>
           /\ \A i \in DOMAIN job'.done : job'.done[i].bytes = job'.done[i].document.checksum
           /\ job'.step = "parse" => \A d \in ToSet(job'.todo) : Current(d),
         UNCHANGED <<setup, disk, manifest, scanned, settled>>
  PROVE  WorkInv'
<1>1. JobShape'
  BY DEF JobShape, WorkInv
<1>2. ManifestsAreScanned'
  BY DEF ManifestsAreScanned, JobShape, WorkInv
<1>3. Unedited'
  BY DEF WorkInv, Unedited, Current
<1> QED
  BY <1>1, <1>2, <1>3, ManifestStays DEF WorkInv

-----------------------------------------------------------------------------
(* What read_manifest accepts.                                             *)
LEMMA Accepted ==
  ASSUME WorkInv, Acceptable(manifest)
  PROVE  /\ IsWhole(manifest) /\ Sequence(manifest[2].documents)
         /\ \E m \in scanned : manifest[2].documents = m.documents
         /\ \A d, e \in ToSet(manifest[2].documents) : d.checksum = e.checksum => d.split = e.split
<1>1. IsWhole(manifest) /\ manifest[2].fingerprint = FingerprintDocuments(manifest[2].documents)
      /\ ~Leaks(manifest[2].documents)
  BY DEF Acceptable
<1>2. PICK m \in scanned :
        /\ manifest[2].fingerprint = FingerprintDocuments(m.documents)
        /\ Derived(manifest[2].documents, m.documents)
  BY <1>1 DEF WorkInv, ManifestIsDerived
<1>3. manifest[2].documents = m.documents
  BY <1>1, <1>2, SameDocuments
<1>4. Sequence(manifest[2].documents)
  BY <1>2 DEF Derived
<1>5. \A d, e \in ToSet(manifest[2].documents) : d.checksum = e.checksum => d.split = e.split
  BY <1>1 DEF Leaks
<1> QED
  BY <1>1, <1>3, <1>4, <1>5

(* A tool begins.                                                          *)
LEMMA Begins ==
  ASSUME NEW command, NEW step, NEW todo, NEW documents,
         Begin(command, step, todo, documents)
  PROVE  /\ job = Idle /\ DOMAIN job' = JobFields
         /\ job'.command = command /\ job'.step = step /\ job'.todo = todo
         /\ job'.documents = documents /\ job'.done = <<>>
<1>1. job = Idle /\ job' = [Idle EXCEPT !.command = command, !.step = step, !.todo = todo,
                                      !.documents = documents]
  BY DEF Begin
<1> QED
  BY <1>1 DEF Idle, JobFields

-----------------------------------------------------------------------------
(* The actions.                                                            *)

LEMMA KeepsEditManifest == WorkInv /\ EditManifest => WorkInv'
<1> SUFFICES ASSUME WorkInv, EditManifest PROVE WorkInv'
  OBVIOUS
<1> DEFINE d == manifest[2].documents
<1>1. /\ IsWhole(manifest) /\ d # <<>> /\ settled' = "no"
      /\ UNCHANGED <<setup, job, disk, scanned>>
  BY DEF EditManifest
<1>2. PICK documents \in {Tail(d)} \cup {[d EXCEPT ![1].split = s] : s \in Splits \ {d[1].split}} :
        manifest' = Whole([manifest[2] EXCEPT !.documents = documents])
  BY DEF EditManifest
<1>3. PICK m \in scanned :
        /\ manifest[2].fingerprint = FingerprintDocuments(m.documents)
        /\ Derived(d, m.documents)
  BY <1>1 DEF WorkInv, ManifestIsDerived
<1>4. "documents" \in DOMAIN manifest[2] /\ "fingerprint" \in DOMAIN manifest[2]
  BY <1>1 DEF WorkInv, ManifestIsDerived
<1>5. /\ Sequence(d) /\ Sequence(m.documents) /\ Len(d) \in Nat /\ Len(m.documents) \in Nat
      /\ Len(d) <= Len(m.documents) /\ d = [i \in 1..Len(d) |-> d[i]]
      /\ \A i \in 2..Len(d) : d[i] = m.documents[i + (Len(m.documents) - Len(d))]
  BY <1>3, SequenceIs DEF Derived
<1>6. Derived(documents, m.documents)
  <2>1. CASE documents = Tail(d)
    <3>1. /\ Sequence(Tail(d)) /\ Len(Tail(d)) = Len(d) - 1 /\ Len(d) >= 1
          /\ \A i \in 1..(Len(d) - 1) : Tail(d)[i] = d[i + 1]
      BY <1>1, <1>5, TailIs
    <3>2. ASSUME NEW i \in 2..Len(Tail(d))
          PROVE  Tail(d)[i] = m.documents[i + (Len(m.documents) - Len(Tail(d)))]
      <4>0. i \in Int /\ 2 <= i /\ i <= Len(d) - 1
        BY <1>5, <3>1
      <4>1. /\ i \in 1..(Len(d) - 1) /\ i + 1 \in 2..Len(d)
            /\ i + (Len(m.documents) - (Len(d) - 1)) = (i + 1) + (Len(m.documents) - Len(d))
        <5>1. PICK n \in Nat, l \in Nat : n = Len(d) /\ l = Len(m.documents)
          BY <1>5
        <5>2. i \in Int /\ 2 <= i /\ i <= n - 1
          BY <4>0, <5>1
        <5>3. i \in 1..(n - 1) /\ i + 1 \in 2..n /\ i + (l - (n - 1)) = (i + 1) + (l - n)
          BY <5>2
        <5> QED
          BY <5>1, <5>3
      <4> QED
        BY <1>5, <3>1, <4>1
    <3>3. Len(Tail(d)) <= Len(m.documents)
      BY <1>5, <3>1
    <3> QED
      BY <1>5, <2>1, <3>1, <3>2, <3>3 DEF Derived
  <2>2. ASSUME NEW s, documents = [d EXCEPT ![1].split = s] PROVE Derived(documents, m.documents)
    <3> DEFINE e == [d[1] EXCEPT !.split = s]
    <3>1. documents = [d EXCEPT ![1] = e]
      BY <2>2
    <3> HIDE DEF e
    <3>0. DOMAIN d = 1..Len(d)
      BY <1>5, SequenceIs
    <3>2. documents = [i \in 1..Len(d) |-> documents[i]] /\ \A i \in 2..Len(d) : documents[i] = d[i]
      <4>1. documents = [i \in 1..Len(d) |-> IF i = 1 THEN e ELSE d[i]]
        BY <3>0, <3>1
      <4>2. \A i \in 2..Len(d) : i \in 1..Len(d) /\ i # 1
        BY <1>5
      <4> QED
        BY <4>1, <4>2
    <3>3. Sequence(documents) /\ Len(documents) = Len(d)
      BY <1>5, <3>2, IsSequence
    <3> QED
      BY <1>5, <3>2, <3>3 DEF Derived
  <2> QED
    BY <1>2, <2>1, <2>2
<1>7. ManifestIsDerived'
  <2>1. manifest'[2] = [manifest[2] EXCEPT !.documents = documents]
    BY <1>2, WholeIs
  <2>2. /\ DOMAIN manifest'[2] = DOMAIN manifest[2]
        /\ manifest'[2].documents = documents /\ manifest'[2].fingerprint = manifest[2].fingerprint
    BY <1>4, <2>1
  <2> QED
    BY <1>1, <1>3, <1>4, <1>6, <2>2 DEF ManifestIsDerived
<1>8. JobShape' /\ ManifestsAreScanned'
  BY <1>1 DEF WorkInv, JobShape, ManifestsAreScanned
<1>9. Unedited'
  BY <1>1 DEF Unedited
<1> QED
  BY <1>1, <1>7, <1>8, <1>9 DEF WorkInv, SplitsAreKnown

LEMMA KeepsStartScan == ASSUME NEW command \in {"scan", "index"}
                        PROVE  WorkInv /\ StartScan(command) => WorkInv'
<1> SUFFICES ASSUME WorkInv, StartScan(command) PROVE WorkInv'
  OBVIOUS
<1>1. /\ DOMAIN job' = JobFields /\ job'.command = command /\ job'.step = "scan"
      /\ job'.documents = <<>>
  BY Begins DEF StartScan
<1>2. UNCHANGED <<setup, disk, manifest, scanned, settled>>
  BY DEF StartScan, files, history
<1> QED
  BY <1>1, <1>2, EmptyIs, Works

LEMMA KeepsScanFile == WorkInv /\ ScanFile => WorkInv'
<1> SUFFICES ASSUME WorkInv, ScanFile PROVE WorkInv'
  OBVIOUS
<1>1. PICK path : job' = [job EXCEPT !.todo = Tail(@),
                            !.documents = IF Hashable(path)
                                          THEN Append(@, Document(path, disk[path])) ELSE @]
  BY DEF ScanFile
<1>2. job.step = "scan" /\ UNCHANGED <<setup, disk, manifest, scanned, settled>>
  BY DEF ScanFile, files, history
<1>3. DOMAIN job = JobFields /\ Sequence(job.documents) /\ job.command \in {"scan", "index"}
  BY <1>2 DEF WorkInv, JobShape
<1>4. /\ DOMAIN job' = JobFields /\ job'.command = job.command /\ job'.step = job.step
      /\ job'.documents \in {job.documents, Append(job.documents, Document(path, disk[path]))}
  BY <1>1, <1>3 DEF JobFields
<1>5. Sequence(job'.documents)
  <2>1. Sequence(Append(job.documents, Document(path, disk[path])))
    BY <1>3, AppendIs
  <2> QED
    BY <1>3, <1>4, <2>1
<1> QED
  BY <1>2, <1>3, <1>4, <1>5, Works

LEMMA KeepsWriteManifest == WorkInv /\ WriteManifest => WorkInv'
<1> SUFFICES ASSUME WorkInv, WriteManifest PROVE WorkInv'
  OBVIOUS
<1> DEFINE m == ManifestOf(job.documents)
<1>1. /\ manifest' = Whole(m) /\ scanned' = scanned \cup {m} /\ job' = Idle /\ settled' = "no"
      /\ Sequence(job.documents) /\ setup' = setup
  BY DEF WriteManifest, WorkInv, JobShape
<1>2. JobShape' /\ ManifestsAreScanned'
  BY <1>1, IdleShape
<1>3. /\ "documents" \in DOMAIN m /\ "fingerprint" \in DOMAIN m
      /\ m.documents = job.documents /\ m.fingerprint = FingerprintDocuments(m.documents)
  BY DEF ManifestOf
<1>4. Derived(m.documents, m.documents)
  <2>1. Len(job.documents) \in Nat
    BY <1>1, SequenceIs
  <2>2. \A i \in 2..Len(job.documents) : i + (Len(job.documents) - Len(job.documents)) = i
    BY <2>1
  <2> QED
    BY <1>1, <1>3, <2>1, <2>2 DEF Derived
<1>5. ManifestIsDerived'
  <2>1. manifest'[2] = m /\ m \in scanned'
    BY <1>1, WholeIs
  <2> QED
    BY <1>3, <1>4, <2>1 DEF ManifestIsDerived
<1>6. Unedited'
  BY <1>1 DEF Unedited
<1> QED
  BY <1>1, <1>2, <1>5, <1>6 DEF WorkInv, SplitsAreKnown

LEMMA KeepsStartValidate == WorkInv /\ StartValidate => WorkInv'
<1> SUFFICES ASSUME WorkInv, StartValidate PROVE WorkInv'
  OBVIOUS
<1> DEFINE d == manifest[2].documents
<1>1. /\ DOMAIN job' = JobFields /\ job'.command = "validate" /\ job'.step = "check"
      /\ job'.todo = d /\ job'.documents = d
  BY Begins DEF StartValidate
<1>2. settled' = "checking" /\ UNCHANGED <<setup, disk, manifest, scanned>>
  BY DEF StartValidate, files
<1>3. /\ IsWhole(manifest) /\ Sequence(d) /\ \E m \in scanned : d = m.documents
      /\ \A a, b \in ToSet(d) : a.checksum = b.checksum => a.split = b.split
  BY Accepted DEF StartValidate
<1>4. JobShape'
  BY <1>1, <1>3 DEF JobShape
<1>5. ManifestsAreScanned'
  <2>1. \E m \in scanned' : job'.documents = Selected(m.documents, "both", "any")
    BY <1>1, <1>2, <1>3, AllSelected
  <2> QED
    BY <1>1, <1>3, <2>1 DEF ManifestsAreScanned
<1>6. Unedited'
  BY <1>1, <1>2, <1>3 DEF Unedited
<1> QED
  BY <1>2, <1>4, <1>5, <1>6, ManifestStays DEF WorkInv

LEMMA KeepsValidateFile == WorkInv /\ ValidateFile => WorkInv'
<1> SUFFICES ASSUME WorkInv, ValidateFile PROVE WorkInv'
  OBVIOUS
<1>1. /\ job.command = "validate" /\ job.step = "check" /\ job.todo # <<>>
      /\ Current(Head(job.todo)) /\ job' = [job EXCEPT !.todo = Tail(@)]
      /\ UNCHANGED <<setup, disk, manifest, scanned, settled>>
  BY DEF ValidateFile, At, files, history
<1>2. DOMAIN job = JobFields /\ Sequence(job.documents) /\ Sequence(job.todo)
  BY <1>1 DEF WorkInv, JobShape
<1>3. /\ DOMAIN job' = JobFields /\ job'.command = "validate" /\ job'.step = "check"
      /\ job'.todo = Tail(job.todo) /\ job'.documents = job.documents
  BY <1>1, <1>2 DEF JobFields
<1>4. Sequence(Tail(job.todo)) /\ ToSet(job.todo) = {Head(job.todo)} \cup ToSet(Tail(job.todo))
  BY <1>1, <1>2, TailIs
<1>5. JobShape'
  BY <1>2, <1>3, <1>4 DEF JobShape
<1>6. ManifestsAreScanned'
  BY <1>1, <1>3 DEF ManifestsAreScanned, WorkInv
<1>7. Unedited'
  BY <1>1, <1>3, <1>4 DEF WorkInv, Unedited, Current
<1> QED
  BY <1>1, <1>5, <1>6, <1>7, ManifestStays DEF WorkInv

LEMMA KeepsValidated == WorkInv /\ Validated => WorkInv'
<1> SUFFICES ASSUME WorkInv, Validated PROVE WorkInv'
  OBVIOUS
<1>1. /\ job.command = "validate" /\ job.todo = <<>> /\ job' = Idle
      /\ settled' = (IF settled = "checking" THEN "yes" ELSE "no")
      /\ UNCHANGED <<setup, disk, manifest, scanned>>
  BY DEF Validated, At, files
<1>2. JobShape' /\ ManifestsAreScanned' /\ job'.command = "none"
  BY <1>1, IdleShape
<1>3. Unedited'
  BY <1>1, <1>2, EmptyIs DEF WorkInv, Unedited, Current
<1> QED
  BY <1>1, <1>2, <1>3, ManifestStays DEF WorkInv

LEMMA KeepsStartParse == WorkInv /\ StartParse => WorkInv'
<1> SUFFICES ASSUME WorkInv, StartParse PROVE WorkInv'
  OBVIOUS
<1> DEFINE d == manifest[2].documents
<1>1. PICK split \in setup.splits, domain \in setup.domains :
        Begin("parse", "parse", Selected(d, split, domain), Selected(d, split, domain))
  BY DEF StartParse
<1>2. /\ DOMAIN job' = JobFields /\ job'.command = "parse" /\ job'.step = "parse"
      /\ job'.todo = Selected(d, split, domain) /\ job'.documents = Selected(d, split, domain)
      /\ job'.done = <<>>
  BY <1>1, Begins
<1>3. UNCHANGED <<setup, disk, manifest, scanned, settled>>
  BY DEF StartParse, files, history
<1>4. /\ IsWhole(manifest) /\ Sequence(d) /\ \E m \in scanned : d = m.documents
      /\ \A a, b \in ToSet(d) : a.checksum = b.checksum => a.split = b.split
  BY Accepted DEF StartParse
<1>5. Sequence(Selected(d, split, domain)) /\ ToSet(Selected(d, split, domain)) \subseteq ToSet(d)
  BY <1>4, SelectedIs
<1>6. JobShape'
  BY <1>2, <1>5, EmptyIs DEF JobShape
<1>7. ManifestsAreScanned'
  <2>1. split \in Splits \cup {"both"} /\ domain \in Domains \cup {"any"}
    BY DEF WorkInv, SplitsAreKnown
  <2>2. \E m \in scanned' : job'.documents = Selected(m.documents, split, domain)
    BY <1>2, <1>3, <1>4
  <2>3. \A a, b \in ToSet(job'.documents) : a.checksum = b.checksum => a.split = b.split
    BY <1>2, <1>4, <1>5
  <2> QED
    BY <2>1, <2>2, <2>3 DEF ManifestsAreScanned
<1>8. Unedited'
  BY <1>2, <1>3, <1>4, <1>5, EmptyIs DEF WorkInv, Unedited, Current
<1> QED
  BY <1>3, <1>6, <1>7, <1>8, ManifestStays DEF WorkInv

LEMMA KeepsParseFile == WorkInv /\ ParseFile => WorkInv'
<1> SUFFICES ASSUME WorkInv, ParseFile PROVE WorkInv'
  OBVIOUS
<1> DEFINE d == Head(job.todo)
           r == [document |-> d, bytes |-> BytesNow(d), result |-> ParseNow(d)]
<1>1. /\ job.command = "parse" /\ job.step = "parse" /\ job.todo # <<>>
      /\ job' = [job EXCEPT !.todo = Tail(@), !.done = Append(@, r)]
      /\ UNCHANGED <<setup, disk, manifest, scanned, settled>>
  BY DEF ParseFile, At, files, history
<1>2. DOMAIN job = JobFields /\ Sequence(job.todo) /\ Sequence(job.done)
  BY <1>1 DEF WorkInv, JobShape
<1>3. r.document = d /\ r.bytes = BytesNow(d)
  OBVIOUS
<1> HIDE DEF r
<1>4. /\ DOMAIN job' = JobFields /\ job'.command = "parse" /\ job'.step = "parse"
      /\ job'.documents = job.documents /\ job'.todo = Tail(job.todo)
      /\ job'.done = Append(job.done, r)
  BY <1>1, <1>2 DEF JobFields
<1>5. Sequence(Tail(job.todo)) /\ ToSet(job.todo) = {d} \cup ToSet(Tail(job.todo))
  BY <1>1, <1>2, TailIs
<1>6. /\ Sequence(Append(job.done, r)) /\ DOMAIN job.done = 1..Len(job.done)
      /\ DOMAIN Append(job.done, r) = 1..(Len(job.done) + 1) /\ Len(job.done) \in Nat
      /\ \A i \in 1..Len(job.done) : Append(job.done, r)[i] = job.done[i]
      /\ Append(job.done, r)[Len(job.done) + 1] = r
  BY <1>2, AppendIs
<1>7. ASSUME settled = "yes"
      PROVE  /\ \A i \in DOMAIN job'.done : job'.done[i].bytes = job'.done[i].document.checksum
             /\ \A e \in ToSet(job'.todo) : Current(e)
  <2>1. /\ \A i \in 1..Len(job.done) : job.done[i].bytes = job.done[i].document.checksum
        /\ \A e \in ToSet(job.todo) : Current(e)
    BY <1>1, <1>6, <1>7 DEF WorkInv, Unedited
  <2>2. BytesNow(d) = d.checksum
    BY <1>5, <2>1 DEF BytesNow, Current
  <2>3. ASSUME NEW i \in 1..(Len(job.done) + 1)
        PROVE  Append(job.done, r)[i].bytes = Append(job.done, r)[i].document.checksum
    <3>1. CASE i = Len(job.done) + 1
      BY <1>3, <1>6, <2>2, <3>1
    <3>2. CASE i # Len(job.done) + 1
      <4>1. i \in 1..Len(job.done)
        BY <1>6, <3>2
      <4> QED
        BY <1>6, <2>1, <4>1
    <3> QED
      BY <3>1, <3>2
  <2> QED
    BY <1>4, <1>5, <1>6, <2>1, <2>3
<1> QED
  BY <1>1, <1>4, <1>5, <1>6, <1>7, Parses

LEMMA KeepsWriting == WorkInv /\ (StartWriting \/ WriteOutput) => WorkInv'
<1> SUFFICES ASSUME WorkInv, StartWriting \/ WriteOutput PROVE WorkInv'
  OBVIOUS
<1>1. /\ job.command = "parse"
      /\ \/ \E todo : job' = [job EXCEPT !.step = "write", !.todo = todo]
         \/ job.step = "write" /\ job' = [job EXCEPT !.todo = Tail(@)]
      /\ UNCHANGED <<setup, disk, manifest, scanned, settled>>
  BY DEF StartWriting, WriteOutput, At, files, history
<1>2. DOMAIN job = JobFields /\ Sequence(job.done)
  BY <1>1 DEF WorkInv, JobShape
<1>3. /\ DOMAIN job' = JobFields /\ job'.command = "parse" /\ job'.step = "write"
      /\ job'.documents = job.documents /\ job'.done = job.done
  BY <1>1, <1>2 DEF JobFields
<1>4. settled = "yes" =>
        \A i \in DOMAIN job.done : job.done[i].bytes = job.done[i].document.checksum
  BY <1>1 DEF WorkInv, Unedited
<1> QED
  BY <1>1, <1>2, <1>3, <1>4, Parses

LEMMA KeepsStartIndexing == WorkInv /\ StartIndexing => WorkInv'
<1> SUFFICES ASSUME WorkInv, StartIndexing PROVE WorkInv'
  OBVIOUS
<1>1. /\ job.command = "index" /\ job.step = "scan" /\ ~Leaks(job.documents)
      /\ job' = [job EXCEPT !.step = "load", !.todo = job.documents]
      /\ UNCHANGED <<setup, disk, manifest, scanned, settled>>
  BY DEF StartIndexing, At, files, history
<1>2. DOMAIN job = JobFields /\ Sequence(job.documents)
  BY DEF WorkInv, JobShape
<1>3. /\ DOMAIN job' = JobFields /\ job'.command = "index" /\ job'.step = "load"
      /\ job'.documents = job.documents
  BY <1>1, <1>2 DEF JobFields
<1>4. \A a, b \in ToSet(job.documents) : a.checksum = b.checksum => a.split = b.split
  BY <1>1 DEF Leaks
<1> QED
  BY <1>1, <1>2, <1>3, <1>4, Works

LEMMA KeepsIndexing == WorkInv /\ (LoadFile \/ CleanFile \/ ChunkFile) => WorkInv'
<1> SUFFICES ASSUME WorkInv, LoadFile \/ CleanFile \/ ChunkFile PROVE WorkInv'
  OBVIOUS
<1>1. /\ job.command = "index" /\ job.step \in {"load", "clean", "chunk"}
      /\ UNCHANGED <<setup, disk, manifest, scanned, settled>>
  BY DEF LoadFile, CleanFile, ChunkFile, At, files, history
<1>2. DOMAIN job = JobFields /\ Sequence(job.documents)
  BY DEF WorkInv, JobShape
<1>3. /\ DOMAIN job' = JobFields /\ job'.command = "index"
      /\ job'.step \in {"load", "clean", "chunk"} /\ job'.documents = job.documents
  <2>1. CASE LoadFile
    <3>1. \E work : job' = [job EXCEPT !.step = "clean", !.work = work]
      BY <2>1 DEF LoadFile
    <3> QED
      BY <1>1, <1>2, <3>1 DEF JobFields
  <2>2. CASE CleanFile
    <3>1. \E work : job' = [job EXCEPT !.step = "chunk", !.work = work]
      BY <2>2 DEF CleanFile
    <3> QED
      BY <1>1, <1>2, <3>1 DEF JobFields
  <2>3. CASE ChunkFile
    <3>1. \E todo, work, done :
            job' = [job EXCEPT !.step = "load", !.todo = todo, !.work = work, !.done = done]
      BY <2>3 DEF ChunkFile
    <3> QED
      BY <1>1, <1>2, <3>1 DEF JobFields
  <2> QED
    BY <2>1, <2>2, <2>3
<1>4. \A a, b \in ToSet(job.documents) : a.checksum = b.checksum => a.split = b.split
  BY <1>1 DEF WorkInv, ManifestsAreScanned
<1> QED
  BY <1>1, <1>2, <1>3, <1>4, Works

(* A manifest is torn when the tool that writes it dies.                    *)
LEMMA KeepsTearManifest == WorkInv /\ TearManifest => WorkInv'
<1> SUFFICES ASSUME WorkInv, TearManifest PROVE WorkInv'
  OBVIOUS
<1>1. job' = Idle /\ manifest' = Torn /\ setup' = setup
  BY DEF TearManifest, Tears
<1>2. JobShape' /\ ManifestsAreScanned' /\ job'.command = "none"
  BY <1>1, IdleShape
<1>3. ~IsWhole(manifest')
  BY <1>1, WholeIs
<1>4. ManifestIsDerived' /\ Unedited'
  BY <1>2, <1>3 DEF ManifestIsDerived, Unedited
<1> QED
  BY <1>1, <1>2, <1>4 DEF WorkInv, SplitsAreKnown

LEMMA NextWorkInv == WorkInv /\ [Next]_vars => WorkInv'
<1> SUFFICES ASSUME WorkInv, [Next]_vars PROVE WorkInv'
  OBVIOUS
<1>1. CASE Edits
  <2>1. CASE \/ \E path \in setup.paths, bytes \in setup.contents : Edit(path, bytes)
             \/ \E path \in setup.paths \cap DOMAIN disk : Delete(path)
    <3>1. settled' = "no" /\ UNCHANGED <<setup, job, manifest, scanned>>
      BY <2>1 DEF Edit, Delete, files
    <3> QED
      BY <3>1, Elsewhere
  <2>2. CASE EditManifest
    BY <2>2, KeepsEditManifest
  <2>3. CASE EditSnapshot
    <3>1. UNCHANGED <<setup, disk, job, manifest, scanned, settled>>
      BY <2>3 DEF EditSnapshot, history
    <3> QED
      BY <3>1, Elsewhere
  <2> QED
    BY <1>1, <2>1, <2>2, <2>3 DEF Edits
<1>2. CASE ScanFileRaises \/ ScanRaises \/ LoadFileRaises \/ ChunkFileRaises
  <2>1. job' = Idle /\ UNCHANGED <<setup, disk, manifest, scanned, settled>>
    BY <1>2 DEF ScanFileRaises, ScanRaises, LoadFileRaises, ChunkFileRaises, Raise, files, history
  <2> QED
    BY <2>1, ToolEnds
<1>3. CASE ValidateRaises \/ WriteFailures \/ SaveIndex
  <2>1. /\ job' = Idle /\ UNCHANGED <<setup, disk, manifest, scanned>>
        /\ settled' = "no" \/ settled' = settled
    BY <1>3 DEF ValidateRaises, WriteFailures, SaveIndex, files, history
  <2> QED
    BY <2>1, ToolEnds
<1>4. CASE Die \/ TearOutput \/ TearFailures \/ TearSnapshot
  <2>1. job' = Idle /\ UNCHANGED <<setup, disk, manifest, scanned, settled>>
    BY <1>4 DEF Die, TearOutput, TearFailures, TearSnapshot, Tears, files, history
  <2> QED
    BY <2>1, ToolEnds
<1>5. CASE Refuse \/ QueryRaises \/ \E q \in DOMAIN setup.queries : Query(q)
  <2>1. UNCHANGED <<setup, disk, job, manifest, scanned, settled>>
    BY <1>5 DEF Refuse, QueryRaises, Query, files, history
  <2> QED
    BY <2>1, Elsewhere
<1>6. CASE UNCHANGED vars
  BY <1>6, Elsewhere DEF vars
<1>7. CASE \/ StartScan("scan") \/ StartScan("index") \/ ScanFile \/ WriteManifest
           \/ StartValidate \/ ValidateFile \/ Validated \/ StartParse \/ ParseFile
  BY <1>7, KeepsStartScan, KeepsScanFile, KeepsWriteManifest, KeepsStartValidate,
     KeepsValidateFile, KeepsValidated, KeepsStartParse, KeepsParseFile
<1>8. CASE \/ StartWriting \/ WriteOutput \/ StartIndexing \/ LoadFile \/ CleanFile \/ ChunkFile
           \/ TearManifest
  BY <1>8, KeepsWriting, KeepsStartIndexing, KeepsIndexing, KeepsTearManifest
<1> QED
  BY <1>1, <1>2, <1>3, <1>4, <1>5, <1>6, <1>7, <1>8 DEF Next, Tools, Deaths

(* read_manifest and the scans, for every corpus, editor and sequence of    *)
(* commands: validate and parse work on documents that one scan wrote, and  *)
(* no tool gets past the scan with one source in both splits.               *)
THEOREM ManifestsScanned == Spec => []ManifestsAreScanned
<1>1. WorkInv => ManifestsAreScanned
  BY DEF WorkInv
<1> QED
  BY <1>1, InitWorkInv, NextWorkInv, PTL DEF Spec

(* validate_manifest_files then parse_batch, for every corpus and editor:   *)
(* what was validated is what is parsed, as long as nothing is edited.      *)
THEOREM ValidatedTrue == Spec => []ValidatedIsTrue
<1>1. WorkInv => ValidatedIsTrue
  BY DEF WorkInv, Unedited, ValidatedIsTrue
<1> QED
  BY <1>1, InitWorkInv, NextWorkInv, PTL DEF Spec

(* Without rows there are no words.                                        *)
LEMMA NoText == Text(<<>>) = <<>>
  BY EmptyIs DEF Text, FlattenSeq

-----------------------------------------------------------------------------
(* Headers and footers that repeat.                                        *)

LEMMA BlankSignature ==
  ASSUME NEW T, NEW a \in Seq(T), NEW b \in Seq(T), Signature(a) = Signature(b), b # <<>>
  PROVE  a # <<>>
<1> SUFFICES ASSUME a = <<>> PROVE FALSE
  OBVIOUS
<1>1. DOMAIN a = {} /\ Len(a) = 0
  BY EmptyIs
<1>2. DOMAIN Signature(a) = {}
  BY <1>1 DEF Signature
<1>3. Len(b) \in Nat /\ DOMAIN b = 1..Len(b) /\ Len(b) # 0
  BY LenProperties, EmptySeq
<1>4. DOMAIN Signature(b) # {}
  <2>1. CASE Len(b) = 1 /\ Number(b[1])
    <3>1. Signature(b) = <<PageNumber>>
      BY <2>1 DEF Signature
    <3>2. 1 \in DOMAIN <<PageNumber>>
      OBVIOUS
    <3> QED
      BY <3>1, <3>2
  <2>2. CASE ~(Len(b) = 1 /\ Number(b[1]))
    <3>1. DOMAIN Signature(b) = DOMAIN b
      BY <2>2 DEF Signature
    <3>2. 1 \in 1..Len(b)
      BY <1>3
    <3> QED
      BY <1>3, <3>1, <3>2
  <2> QED
    BY <2>1, <2>2
<1> QED
  BY <1>2, <1>4

(* The whole group of a repeated header or footer repeats.                 *)
LEMMA MarginGroup ==
  ASSUME NEW p, IsPrepared(p), NEW config, NEW i \in RepeatedMargin(p, config)
  PROVE  /\ AlikeMargin(p, p[i]) = SameMargin(p, i)
         /\ AlikeMargin(p, p[i]) \subseteq RepeatedMargin(p, config)
         /\ Repeats(p, SameMargin(p, i), config)
         /\ i \in 1..Len(p) /\ p[i].kind \in {"header", "footer"} /\ ~Blank(p[i].rows)
<1>1. /\ i \in Margin(p) /\ i \in DOMAIN p /\ p[i].kind \in {"header", "footer"}
      /\ ~Blank(p[i].rows) /\ Repeats(p, SameMargin(p, i), config)
  BY DEF RepeatedMargin, Margin
<1>2. DOMAIN p = 1..Len(p)
  BY SequenceIs DEF IsPrepared
<1>3. ASSUME NEW j \in AlikeMargin(p, p[i])
      PROVE  /\ j \in Margin(p) /\ p[j].kind = p[i].kind
             /\ Signature(Text(p[j].rows)) = Signature(Text(p[i].rows))
  <2>1. /\ j \in DOMAIN p /\ p[j].kind = p[i].kind
        /\ Signature(Text(p[j].rows)) = Signature(Text(p[i].rows))
    BY DEF AlikeMargin
  <2>2. Text(p[j].rows) \in Seq(Seq(STRING)) /\ Text(p[i].rows) \in Seq(Seq(STRING))
    BY <1>1, <1>2, <2>1 DEF IsPrepared
  <2>3. Text(p[i].rows) # <<>>
    BY <1>1 DEF Blank
  <2>4. Text(p[j].rows) # <<>>
    BY <2>1, <2>2, <2>3, BlankSignature
  <2> QED
    BY <1>1, <2>1, <2>4 DEF Margin, Blank
<1>4. AlikeMargin(p, p[i]) = SameMargin(p, i)
  <2>1. \A j \in SameMargin(p, i) : j \in AlikeMargin(p, p[i])
    BY DEF SameMargin, AlikeMargin, Margin
  <2>2. \A j \in AlikeMargin(p, p[i]) : j \in SameMargin(p, i)
    BY <1>3 DEF SameMargin
  <2> QED
    BY <2>1, <2>2
<1>5. ASSUME NEW j \in AlikeMargin(p, p[i]) PROVE j \in RepeatedMargin(p, config)
  <2>1. /\ j \in Margin(p) /\ p[j].kind = p[i].kind
        /\ Signature(Text(p[j].rows)) = Signature(Text(p[i].rows))
    BY <1>3
  <2>2. SameMargin(p, j) = SameMargin(p, i)
    BY <2>1 DEF SameMargin
  <2> QED
    BY <1>1, <2>1, <2>2 DEF RepeatedMargin
<1> QED
  BY <1>1, <1>2, <1>4, <1>5

-----------------------------------------------------------------------------
(* What is removed.                                                        *)

(* An eligible element is not blank.                                       *)
LEMMA EligibleHasText ==
  ASSUME NEW element, NEW config, Eligible(element, config)
  PROVE  ~Blank(element.rows)
<1>1. ToSet(Text(element.rows)) \cap Markers # {}
  BY DEF Eligible
<1> QED
  BY <1>1, EmptyIs DEF Blank

(* What the evidence of a duplicate says.                                  *)
TellsOf(e, p, cs, c, k) ==
  /\ Len(cs[c]) \in Nat /\ k \in 2..Len(cs[c])
  /\ e.element = cs[c][k] /\ e.match = cs[c][1]
  /\ e = Evidence(cs[c][k], cs[c][1],
           IF AtLeast(Near(p, cs[c][k], cs[c]), <<1, 1>>)
           THEN "duplicate_boilerplate" ELSE "near_duplicate_boilerplate")

LEMMA DuplicateIs ==
  ASSUME NEW p, NEW n, NEW removed, NEW config, NEW cs,
         Clustered(cs, p, n, removed, config),
         NEW e \in Duplicates(p, cs, config)
  PROVE  \E c \in 1..Len(cs), k \in Nat : TellsOf(e, p, cs, c, k)
<1>1. PICK cluster \in ToSet(cs) : e \in DuplicateEvidence(p, cluster)
  BY DEF Duplicates
<1>2. ToSet(cs) = {cs[c] : c \in 1..Len(cs)}
  BY SequenceIs DEF Clustered
<1>3. PICK c \in 1..Len(cs) : cluster = cs[c]
  BY <1>1, <1>2
<1>4. ClusterIs(cluster, p, n, removed, config)
  BY <1>3 DEF Clustered
<1>5. Len(cluster) \in Nat /\ Len(cluster) >= 1 /\ Sequence(cluster) /\ cluster # <<>>
  BY <1>4, SequenceIs, EmptyIs DEF ClusterIs
<1>6. PICK i \in ToSet(Tail(cluster)) :
        e = Evidence(i, cluster[1],
              IF AtLeast(Near(p, i, cluster), <<1, 1>>)
              THEN "duplicate_boilerplate" ELSE "near_duplicate_boilerplate")
  BY <1>1 DEF DuplicateEvidence
<1>7. /\ Sequence(Tail(cluster)) /\ Len(Tail(cluster)) = Len(cluster) - 1
      /\ \A l \in 1..(Len(cluster) - 1) : Tail(cluster)[l] = cluster[l + 1]
  BY <1>5, TailIs
<1>8. ToSet(Tail(cluster)) = {Tail(cluster)[l] : l \in 1..Len(Tail(cluster))}
  BY <1>7, SequenceIs
<1>9. PICK l \in 1..(Len(cluster) - 1) : i = cluster[l + 1]
  BY <1>6, <1>7, <1>8
<1>10. l + 1 \in 2..Len(cluster) /\ l + 1 \in Nat
  BY <1>5, <1>9
<1>11. e.element = cluster[l + 1] /\ e.match = cluster[1]
  BY <1>6, <1>9 DEF Evidence
<1>12. TellsOf(e, p, cs, c, l + 1)
  BY <1>3, <1>5, <1>6, <1>9, <1>10, <1>11 DEF TellsOf
<1> QED
  BY <1>10, <1>12

(* One element, one piece of evidence; and what it says.                    *)
Unambiguous(found) == \A e, f \in found : e.element = f.element => e = f

LEMMA RemovalsAre ==
  ASSUME NEW p, IsPrepared(p), NEW config
  PROVE  LET found == Removals(p, config)
             kept == (1..Len(p)) \ Elements(found)
         IN /\ Unambiguous(found)
            /\ \A e \in found :
                 /\ e.element \in 1..Len(p)
                 /\ \/ /\ e.match # 0 /\ e.match < e.element /\ e.match \in kept
                       /\ AtLeast(Similarity(Text(p[e.element].rows), Text(p[e.match].rows)),
                                  config.similarity)
                    \/ e.reason = "empty_after_normalization" /\ Blank(p[e.element].rows)
                    \/ /\ p[e.element].kind \in {"header", "footer"}
                       /\ AlikeMargin(p, p[e.element]) \cap kept = {}
                       /\ Spread(AlikeMargin(p, p[e.element]),
                                 PagesOf(p, AlikeMargin(p, p[e.element])))
                            >= config.repeated_min_pages
<1> DEFINE M == RepeatedMargin(p, config)
           R1 == MarginEvidence(p, config)
           cs == Clusters(p, M, config)
           D == Duplicates(p, cs, config)
           R2 == R1 \cup D
           X == EmptyElements(p, Elements(R2))
           R3 == R2 \cup {Evidence(i, 0, "empty_after_normalization") : i \in X}
           kept == (1..Len(p)) \ Elements(R3)
           N == Len(p)
<1>1. N \in Nat /\ DOMAIN p = 1..N
  BY SequenceIs DEF IsPrepared
<1>2. Elements(R1) = M
  <2>1. \A i \in M : Evidence(i, 0, MarginReason(p[i])) \in R1
    BY DEF MarginEvidence
  <2>2. \A i \in M : Evidence(i, 0, MarginReason(p[i])).element = i
    BY DEF Evidence
  <2>3. \A e \in R1 : \E i \in M : e = Evidence(i, 0, MarginReason(p[i]))
    BY DEF MarginEvidence
  <2> HIDE DEF R1, M
  <2>4. \A i \in M : i \in Elements(R1)
    BY Zenon, <2>1, <2>2 DEF Elements
  <2>5. \A x \in Elements(R1) : x \in M
    BY <2>2, <2>3 DEF Elements
  <2> QED
    BY <2>4, <2>5
<1>3. Removals(p, config) = R3
  BY <1>2 DEF Removals, WithDuplicates, WithEmpty
<1>4. Clustered(cs, p, N, M, config)
  BY ClustersAre
<1>5. \A e \in R1 : e.element \in M /\ e = Evidence(e.element, 0, MarginReason(p[e.element]))
  BY DEF MarginEvidence, Evidence
<1> HIDE DEF M, cs
<1>6. \A e \in D : \E c \in 1..Len(cs), k \in Nat : TellsOf(e, p, cs, c, k)
  BY <1>4, DuplicateIs
<1> HIDE DEF D
<1>7. ASSUME NEW c \in 1..Len(cs), NEW k \in 1..Len(cs[c])
      PROVE  /\ cs[c][k] \in 1..N /\ cs[c][k] \notin M /\ ~Blank(p[cs[c][k]].rows)
             /\ k # 1 => /\ cs[c][1] < cs[c][k]
                         /\ AtLeast(Near(p, cs[c][k], cs[c]), config.similarity)
  <2>1. ClusterIs(cs[c], p, N, M, config) /\ Len(cs[c]) \in Nat
    BY <1>4, SequenceIs DEF Clustered, ClusterIs
  <2>2. cs[c][k] \in 1..N /\ cs[c][k] \notin M /\ Eligible(p[cs[c][k]], config)
    BY <2>1 DEF ClusterIs
  <2>3. k # 1 => k \in 2..Len(cs[c])
    BY <2>1
  <2> QED
    BY <2>1, <2>2, <2>3, EligibleHasText DEF ClusterIs
<1>8. ASSUME NEW e \in D PROVE e.element \in 1..N /\ e.element \notin M
  <2>1. PICK c \in 1..Len(cs), k \in Nat : TellsOf(e, p, cs, c, k)
    BY <1>6
  <2>2. k \in 1..Len(cs[c]) /\ e.element = cs[c][k]
    BY <2>1 DEF TellsOf
  <2> QED
    BY <1>7, <2>2
<1>9. Elements(R2) = M \cup Elements(D)
  BY <1>2 DEF Elements
<1>10. /\ X \subseteq 1..N /\ X \cap M = {} /\ X \cap Elements(D) = {}
       /\ \A i \in X : Blank(p[i].rows)
  BY <1>1, <1>9 DEF EmptyElements
<1>11. Elements(R3) = M \cup Elements(D) \cup X
  <2> DEFINE E == {Evidence(i, 0, "empty_after_normalization") : i \in X}
  <2>1. \A i \in X : Evidence(i, 0, "empty_after_normalization").element = i
    BY DEF Evidence
  <2>2. Elements(E) = X
    <3>1. \A x \in Elements(E) : x \in X
      BY <2>1 DEF Elements
    <3>2. \A i \in X : i \in Elements(E)
      BY Zenon, <2>1 DEF Elements
    <3> QED
      BY <3>1, <3>2
  <2>3. Elements(R2 \cup E) = Elements(R2) \cup Elements(E)
    BY DEF Elements
  <2> QED
    BY <1>9, <2>2, <2>3
<1> HIDE DEF R1, X
<1>12. \A e \in R3 :
         \/ e \in R1
         \/ e \in D
         \/ e.element \in X /\ e = Evidence(e.element, 0, "empty_after_normalization")
  <2>1. \A i \in X : Evidence(i, 0, "empty_after_normalization").element = i
    BY DEF Evidence
  <2>2. ASSUME NEW e \in R3, e \notin R1, e \notin D
        PROVE  e.element \in X /\ e = Evidence(e.element, 0, "empty_after_normalization")
    <3>1. PICK i \in X : e = Evidence(i, 0, "empty_after_normalization")
      BY <2>2
    <3>2. e.element = i
      BY <2>1, <3>1
    <3> QED
      BY <3>1, <3>2
  <2> HIDE DEF R2, R3
  <2> QED
    BY <2>2
<1>13. ASSUME NEW e \in D, NEW f \in D, e.element = f.element PROVE e = f
  <2>1. PICK c \in 1..Len(cs), k \in Nat : TellsOf(e, p, cs, c, k)
    BY <1>6
  <2>2. PICK d \in 1..Len(cs), l \in Nat : TellsOf(f, p, cs, d, l)
    BY <1>6
  <2>3. k \in 1..Len(cs[c]) /\ l \in 1..Len(cs[d]) /\ cs[c][k] = cs[d][l]
    <3>1. k \in 1..Len(cs[c]) /\ e.element = cs[c][k]
      BY <2>1 DEF TellsOf
    <3>2. l \in 1..Len(cs[d]) /\ f.element = cs[d][l]
      BY <2>2 DEF TellsOf
    <3> QED
      BY <1>13, <3>1, <3>2
  <2>4. c = d /\ k = l
    BY <1>4, <2>3 DEF Clustered, Apart
  <2> QED
    BY <2>1, <2>2, <2>4 DEF TellsOf
<1>14. \A e \in D : e.element \in Elements(D)
  BY DEF Elements
<1>15. Unambiguous(R3)
  <2>1. ASSUME NEW e \in R3, NEW f \in R3, e.element = f.element PROVE e = f
    <3>1. CASE e \in R1
      <4>1. e.element \in M /\ e = Evidence(e.element, 0, MarginReason(p[e.element]))
        BY <1>5, <3>1
      <4>2. f \in R1
        BY <1>8, <1>10, <1>12, <2>1, <4>1
      <4> QED
        BY <1>5, <2>1, <4>1, <4>2
    <3>2. CASE e \in D
      <4>1. e.element \notin M /\ e.element \in Elements(D)
        BY <1>8, <1>14, <3>2
      <4>2. f \in D
        BY <1>5, <1>10, <1>12, <2>1, <4>1
      <4> QED
        BY <1>13, <2>1, <3>2, <4>2
    <3>3. CASE e.element \in X /\ e = Evidence(e.element, 0, "empty_after_normalization")
      <4>1. f \notin R1 /\ f \notin D
        BY <1>5, <1>10, <1>14, <2>1, <3>3
      <4> QED
        BY <1>12, <2>1, <3>3, <4>1
    <3> QED
      BY <1>12, <3>1, <3>2, <3>3
  <2> QED
    BY <2>1 DEF Unambiguous
<1>16. ASSUME NEW c \in 1..Len(cs), Len(cs[c]) \in Nat, 1 <= Len(cs[c])
       PROVE  cs[c][1] \in kept
  <2>1. 1 \in 1..Len(cs[c])
    BY <1>16
  <2>2. cs[c][1] \in 1..N /\ cs[c][1] \notin M /\ ~Blank(p[cs[c][1]].rows)
    BY <1>7, <2>1
  <2>3. cs[c][1] \notin Elements(D)
    <3> SUFFICES ASSUME NEW e \in D, e.element = cs[c][1] PROVE FALSE
      BY DEF Elements
    <3>1. PICK d \in 1..Len(cs), k \in Nat : TellsOf(e, p, cs, d, k)
      BY <1>6
    <3>2. k \in 1..Len(cs[d]) /\ k # 1
      BY <3>1 DEF TellsOf
    <3>3. cs[d][k] = cs[c][1]
      BY <3>1 DEF TellsOf
    <3> QED
      BY <1>4, <2>1, <3>2, <3>3 DEF Clustered, Apart
  <2> QED
    BY <1>10, <1>11, <2>2, <2>3
<1> HIDE DEF kept
<1>17. ASSUME NEW e \in D
       PROVE  /\ e.element \in 1..N
              /\ e.match # 0 /\ e.match < e.element /\ e.match \in kept
              /\ AtLeast(Similarity(Text(p[e.element].rows), Text(p[e.match].rows)),
                         config.similarity)
  <2>1. PICK c \in 1..Len(cs), k \in Nat : TellsOf(e, p, cs, c, k)
    BY <1>6
  <2>2. /\ k \in 1..Len(cs[c]) /\ k # 1 /\ 1 \in 1..Len(cs[c]) /\ 1 <= Len(cs[c])
        /\ Len(cs[c]) \in Nat /\ e.element = cs[c][k] /\ e.match = cs[c][1]
    BY <2>1 DEF TellsOf
  <2>3. /\ cs[c][k] \in 1..N /\ cs[c][1] \in 1..N /\ cs[c][1] < cs[c][k]
        /\ AtLeast(Near(p, cs[c][k], cs[c]), config.similarity)
    BY <1>7, <2>2
  <2>4. cs[c][1] \in kept
    BY <1>16, <2>2
  <2>5. AtLeast(Similarity(Text(p[e.element].rows), Text(p[e.match].rows)), config.similarity)
    BY <2>2, <2>3 DEF Near
  <2>6. cs[c][1] # 0
    BY <2>3
  <2> QED
    BY <2>2, <2>3, <2>4, <2>5, <2>6
<1>18. ASSUME NEW e \in R1
       PROVE  /\ e.element \in 1..N
              /\ p[e.element].kind \in {"header", "footer"}
              /\ AlikeMargin(p, p[e.element]) \cap kept = {}
              /\ Spread(AlikeMargin(p, p[e.element]), PagesOf(p, AlikeMargin(p, p[e.element])))
                   >= config.repeated_min_pages
  <2>1. e.element \in RepeatedMargin(p, config)
    BY <1>5 DEF M
  <2>2. /\ AlikeMargin(p, p[e.element]) = SameMargin(p, e.element)
        /\ AlikeMargin(p, p[e.element]) \subseteq RepeatedMargin(p, config)
        /\ Repeats(p, SameMargin(p, e.element), config)
        /\ e.element \in 1..N /\ p[e.element].kind \in {"header", "footer"}
    BY <2>1, MarginGroup
  <2>3. AlikeMargin(p, p[e.element]) \cap kept = {}
    BY <1>11, <2>2 DEF M, kept
  <2>4. Spread(AlikeMargin(p, p[e.element]), PagesOf(p, AlikeMargin(p, p[e.element])))
          >= config.repeated_min_pages
    BY <2>2 DEF Repeats
  <2> QED
    BY <2>2, <2>3, <2>4
<1>19. ASSUME NEW e \in R3, e \notin R1, e \notin D
       PROVE  /\ e.element \in 1..N
              /\ e.reason = "empty_after_normalization" /\ Blank(p[e.element].rows)
  <2>1. e.element \in X /\ e = Evidence(e.element, 0, "empty_after_normalization")
    BY <1>12, <1>19
  <2> QED
    BY <1>10, <2>1 DEF Evidence
<1>20. \A e \in R3 :
                 /\ e.element \in 1..Len(p)
                 /\ \/ /\ e.match # 0 /\ e.match < e.element /\ e.match \in kept
                       /\ AtLeast(Similarity(Text(p[e.element].rows), Text(p[e.match].rows)),
                                  config.similarity)
                    \/ e.reason = "empty_after_normalization" /\ Blank(p[e.element].rows)
                    \/ /\ p[e.element].kind \in {"header", "footer"}
                       /\ AlikeMargin(p, p[e.element]) \cap kept = {}
                       /\ Spread(AlikeMargin(p, p[e.element]),
                                 PagesOf(p, AlikeMargin(p, p[e.element])))
                            >= config.repeated_min_pages
  BY <1>17, <1>18, <1>19
<1> HIDE DEF R2, R3
<1> QED
  BY <1>3, <1>15, <1>20 DEF kept

-----------------------------------------------------------------------------
(* What a cleaned document keeps.                                          *)

(* r holds the elements of n that are not removed: at says where.           *)
KeptAt(r, n, removed, at) ==
  /\ Sequence(r) /\ at \in [1..Len(r) -> 1..n]
  /\ \A k, l \in 1..Len(r) : k < l => at[k] < at[l]
  /\ \A k \in 1..Len(r) : r[k].source = at[k] /\ at[k] \notin removed
  /\ \A i \in (1..n) \ removed : \E k \in 1..Len(r) : at[k] = i

LEMMA UpTo ==
  ASSUME NEW n \in Nat PROVE IsFiniteSet(1..n) /\ Cardinality(1..n) = n
<1>1. IsFiniteSet(1..n) /\ Cardinality(1..n) = IF 1 > n THEN 0 ELSE n - 1 + 1
  BY FS_Interval
<1>2. CASE n = 0
  BY <1>1, <1>2
<1>3. CASE n # 0
  BY <1>1, <1>3
<1> QED
  BY <1>2, <1>3

LEMMA KeptIs ==
  ASSUME NEW p, Sequence(p), NEW removed
  PROVE  \E at : KeptAt(Kept(p, removed), Len(p), removed, at)
<1> DEFINE s == Sourced(p)
           S == {e \in ToSet(s) : e.source \notin removed}
           r == Only(s, S)
<1>1. Len(p) \in Nat /\ DOMAIN p = 1..Len(p)
  BY SequenceIs
<1>2. DOMAIN s = 1..Len(p) /\ \A i \in 1..Len(p) : s[i].source = i
  BY <1>1 DEF Sourced
<1>3. s = [i \in 1..Len(p) |-> s[i]]
  BY <1>1 DEF Sourced
<1>4. Kept(p, removed) = r
  BY DEF Kept
<1> HIDE DEF s
<1>5. Sequence(s) /\ Len(s) = Len(p)
  BY <1>1, <1>3, IsSequence
<1>6. ToSet(s) = {s[i] : i \in 1..Len(p)}
  BY <1>5, SequenceIs
<1>7. PICK at : Picks(r, s, Len(p), S, at)
  BY <1>5, OnlyIs
<1>8. \A i \in 1..Len(p) : s[i] \in S <=> i \notin removed
  BY <1>2, <1>6
<1> HIDE DEF r, S
<1>9. KeptAt(r, Len(p), removed, at)
  <2>1. /\ Sequence(r) /\ at \in [1..Len(r) -> 1..Len(p)]
        /\ \A k, l \in 1..Len(r) : k < l => at[k] < at[l]
        /\ \A k \in 1..Len(r) : r[k] = s[at[k]] /\ r[k] \in S
        /\ \A i \in 1..Len(p) : s[i] \in S => \E k \in 1..Len(r) : at[k] = i
    BY <1>7 DEF Picks
  <2>2. \A k \in 1..Len(r) : r[k].source = at[k] /\ at[k] \notin removed
    BY <1>2, <1>8, <2>1
  <2>3. \A i \in (1..Len(p)) \ removed : \E k \in 1..Len(r) : at[k] = i
    BY <1>8, <2>1
  <2> QED
    BY <2>1, <2>2, <2>3 DEF KeptAt
<1> QED
  BY <1>4, <1>9

(* As many as there are places left.                                       *)
LEMMA KeptCount ==
  ASSUME NEW r, NEW n \in Nat, NEW removed, NEW at, KeptAt(r, n, removed, at)
  PROVE  Len(r) = Cardinality((1..n) \ removed)
<1>1. Len(r) \in Nat
  BY SequenceIs DEF KeptAt
<1>2. at \in [1..Len(r) -> (1..n) \ removed]
  BY DEF KeptAt
<1>3. at \in Surjection(1..Len(r), (1..n) \ removed)
  BY <1>2 DEF Surjection, KeptAt
<1>4. at \in Injection(1..Len(r), (1..n) \ removed)
  <2> SUFFICES ASSUME NEW k \in 1..Len(r), NEW l \in 1..Len(r), at[k] = at[l] PROVE k = l
    BY <1>2 DEF Injection, IsInjective
  <2>1. at[k] \in Int /\ ~(at[k] < at[l]) /\ ~(at[l] < at[k])
    BY <1>2
  <2>2. ~(k < l) /\ ~(l < k)
    BY <2>1 DEF KeptAt
  <2> QED
    BY <1>1, <2>2
<1>5. IsFiniteSet(1..Len(r)) /\ Cardinality(1..Len(r)) = Len(r)
  BY <1>1, UpTo
<1> QED
  BY <1>3, <1>4, <1>5, FS_Surjection

(* As many pieces of evidence as elements.                                 *)
LEMMA EvidenceCount ==
  ASSUME NEW n \in Nat, NEW found, Unambiguous(found), \A e \in found : e.element \in 1..n
  PROVE  /\ Cardinality(found) = Cardinality(Elements(found))
         /\ Cardinality(found) \in Nat /\ Elements(found) \subseteq 1..n
<1> DEFINE element == [e \in found |-> e.element]
<1>1. Elements(found) \subseteq 1..n /\ IsFiniteSet(Elements(found))
  <2>1. Elements(found) \subseteq 1..n
    BY DEF Elements
  <2>2. IsFiniteSet(1..n)
    BY UpTo
  <2>3. Elements(found) \in SUBSET (1..n)
    BY <2>1
  <2> QED
    BY <2>1, <2>2, <2>3, FS_Subset
<1>2. element \in [found -> Elements(found)]
  BY DEF Elements
<1>3. element \in Injection(found, Elements(found))
  BY <1>2 DEF Injection, IsInjective, Unambiguous
<1>4. element \in Surjection(found, Elements(found))
  BY <1>2 DEF Surjection, Elements
<1> HIDE DEF element
<1>5. IsFiniteSet(found) /\ Cardinality(found) = Cardinality(Elements(found))
  BY <1>1, <1>3, <1>4, FS_Injection
<1> QED
  BY <1>1, <1>5, FS_CardinalityType

(* A cleaned document by its parts.                                        *)
LEMMA CleanIs ==
  ASSUME NEW elements, NEW config
  PROVE  LET p == Prepared(elements)
             removals == Removals(p, config)
             kept == Kept(p, Elements(removals))
             cleaned == Clean(elements, config)
         IN /\ cleaned.elements = kept /\ cleaned.removals = removals
            /\ cleaned.stats.elements_in = Len(p) /\ cleaned.stats.elements_out = Len(kept)
<1> DEFINE p == Prepared(elements)
           removals == Removals(p, config)
           kept == Kept(p, Elements(removals))
<1>1. Clean(elements, config)
        = [elements |-> kept, removals |-> removals,
           stats |-> Stats(elements, p, removals, kept)]
  BY DEF Clean, CleanRemoving, CleanPrepared, CleanedDocument
<1>2. /\ Stats(elements, p, removals, kept).elements_in = Len(p)
      /\ Stats(elements, p, removals, kept).elements_out = Len(kept)
  BY DEF Stats
<1> HIDE DEF p, removals, kept
<1>3. /\ Clean(elements, config).elements = kept /\ Clean(elements, config).removals = removals
      /\ Clean(elements, config).stats = Stats(elements, p, removals, kept)
  BY <1>1
<1>4. /\ Clean(elements, config).stats.elements_in = Len(p)
      /\ Clean(elements, config).stats.elements_out = Len(kept)
  BY <1>2, <1>3
<1> QED
  BY <1>3, <1>4 DEF p, removals, kept

(* What clean_parsed_document promises of one document.                     *)
LEMMA CleaningIsJustified ==
  ASSUME NEW parsed \in ParsedElements, NEW config, config = setup.cleaner,
         NEW cleaned, cleaned = Clean(parsed, config)
  PROVE  \E sources \in {[k \in DOMAIN cleaned.elements |-> cleaned.elements[k].source]} :
            /\ \E prepared \in {Prepared(parsed)} :
                 \A e \in cleaned.removals : Justified(prepared, ToSet(sources), e)
            /\ \A k, l \in DOMAIN sources : k < l => sources[k] < sources[l]
            /\ ToSet(sources) = DOMAIN parsed \ Elements(cleaned.removals)
            /\ cleaned.stats.elements_in - cleaned.stats.elements_out
                 = Cardinality(cleaned.removals)
<1> DEFINE p == Prepared(parsed)
           N == Len(p)
           removals == Removals(p, config)
           R == Elements(removals)
           r == Kept(p, R)
           sources == [k \in DOMAIN cleaned.elements |-> cleaned.elements[k].source]
<1>1. Len(parsed) \in Nat /\ DOMAIN parsed = 1..N /\ IsPrepared(p) /\ N \in Nat
  BY PreparedIs
<1>2. /\ cleaned.elements = r /\ cleaned.removals = removals
      /\ cleaned.stats.elements_in = N /\ cleaned.stats.elements_out = Len(r)
  BY CleanIs
<1>3. /\ Unambiguous(removals)
      /\ \A e \in removals :
           /\ e.element \in 1..N
           /\ \/ /\ e.match # 0 /\ e.match < e.element /\ e.match \in (1..N) \ R
                 /\ AtLeast(Similarity(Text(p[e.element].rows), Text(p[e.match].rows)),
                            config.similarity)
              \/ e.reason = "empty_after_normalization" /\ Blank(p[e.element].rows)
              \/ /\ p[e.element].kind \in {"header", "footer"}
                 /\ AlikeMargin(p, p[e.element]) \cap ((1..N) \ R) = {}
                 /\ Spread(AlikeMargin(p, p[e.element]),
                           PagesOf(p, AlikeMargin(p, p[e.element])))
                      >= config.repeated_min_pages
  BY <1>1, RemovalsAre
<1> HIDE DEF p, removals
<1>4. Sequence(p)
  BY <1>1 DEF IsPrepared
<1>5. PICK at : KeptAt(r, N, R, at)
  BY <1>4, KeptIs
<1> HIDE DEF r
<1>6. Sequence(r) /\ DOMAIN r = 1..Len(r) /\ Len(r) \in Nat
  BY <1>5, SequenceIs DEF KeptAt
<1>7. DOMAIN sources = 1..Len(r) /\ \A k \in 1..Len(r) : sources[k] = at[k]
  BY <1>2, <1>5, <1>6 DEF KeptAt
<1> HIDE DEF sources
<1>8. ToSet(sources) = {sources[k] : k \in 1..Len(r)}
  BY <1>7 DEF ToSet
<1>9. ToSet(sources) = (1..N) \ R
  <2>1. \A k \in 1..Len(r) : at[k] \in (1..N) \ R
    BY <1>5 DEF KeptAt
  <2>2. \A i \in (1..N) \ R : \E k \in 1..Len(r) : at[k] = i
    BY <1>5 DEF KeptAt
  <2> QED
    BY <1>7, <1>8, <2>1, <2>2
<1>10. \A k, l \in DOMAIN sources : k < l => sources[k] < sources[l]
  BY <1>5, <1>7 DEF KeptAt
<1>11. N - Len(r) = Cardinality(removals)
  <2>1. Len(r) = Cardinality((1..N) \ R)
    BY <1>1, <1>5, KeptCount
  <2>2. /\ Cardinality(removals) = Cardinality(R) /\ Cardinality(removals) \in Nat
        /\ R \subseteq 1..N
    BY <1>1, <1>3, EvidenceCount
  <2>3. IsFiniteSet(1..N) /\ Cardinality(1..N) = N
    BY <1>1, UpTo
  <2>4. (1..N) \cap R = R
    BY <2>2
  <2>5. Cardinality((1..N) \ R) = Cardinality(1..N) - Cardinality((1..N) \cap R)
    BY <2>3, FS_Difference
  <2>6. Len(r) = N - Cardinality(removals)
    BY <2>1, <2>2, <2>3, <2>4, <2>5
  <2>7. ASSUME NEW a \in Nat, NEW b \in Nat, NEW c, c = a - b PROVE a - c = b
    BY <2>7
  <2> QED
    BY <1>1, <2>2, <2>6, <2>7
<1>12. \A e \in removals : Justified(p, ToSet(sources), e)
  <2> SUFFICES ASSUME NEW e \in removals PROVE Justified(p, ToSet(sources), e)
    OBVIOUS
  <2> HIDE DEF R, N
  <2> QED
    BY <1>3, <1>9 DEF Justified
<1>13. /\ \E prepared \in {p} : \A e \in removals : Justified(prepared, ToSet(sources), e)
       /\ \A k, l \in DOMAIN sources : k < l => sources[k] < sources[l]
       /\ ToSet(sources) = DOMAIN parsed \ R
       /\ cleaned.stats.elements_in - cleaned.stats.elements_out = Cardinality(removals)
  BY <1>1, <1>2, <1>9, <1>10, <1>11, <1>12
<1> QED
  BY <1>2, <1>13 DEF p, sources

(* A cleaned document: every element has its own source, and no table has   *)
(* an empty row.                                                           *)
LEMMA PreparedRows ==
  ASSUME NEW elements \in ParsedElements, NEW i \in 1..Len(elements)
  PROVE  LET e == Prepared(elements)[i]
         IN  /\ e.rows \in Seq(Seq(Seq(STRING)))
             /\ e.kind = "table" => \A k \in 1..Len(e.rows) : e.rows[k] # <<>>
<1> DEFINE E == [kind : STRING, rows : Seq(Seq(Seq(STRING))), page : Nat,
                 hint : Seq(Seq(STRING))]
           old == elements[i]
           e == Prepared(elements)[i]
<1>1. old \in E /\ DOMAIN elements = 1..Len(elements)
  BY LenProperties, ElementOfSeq DEF ParsedElements
<1>2. e = [old EXCEPT !.rows = Normalize(old.kind, old.rows)]
  BY <1>1 DEF Prepared
<1>3. old.rows \in Rows(STRING) /\ "rows" \in DOMAIN old /\ "kind" \in DOMAIN old
  BY <1>1 DEF Rows
<1> HIDE DEF old
<1>4. e.rows = Normalize(old.kind, old.rows) /\ e.kind = old.kind
  BY <1>2, <1>3
<1> HIDE DEF e
<1>5. e.rows \in Seq(Seq(Seq(STRING)))
  BY <1>3, <1>4, NormalizeTyped DEF Rows
<1>6. ASSUME e.kind = "table" PROVE \A k \in 1..Len(e.rows) : e.rows[k] # <<>>
  <2>1. e.rows = Joined(old.rows)
    BY <1>4, <1>6 DEF Normalize
  <2> QED
    BY <1>3, <2>1, JoinedTyped
<1> QED
  BY <1>5, <1>6 DEF e

(* What is kept are sourced elements.                                      *)
LEMMA KeptItems ==
  ASSUME NEW p, Sequence(p), NEW removed
  PROVE  /\ Sequence(Kept(p, removed))
         /\ \A e \in ToSet(Kept(p, removed)) :
              \E i \in 1..Len(p) : e.source = i /\ e.rows = p[i].rows /\ e.kind = p[i].kind
                                   /\ e = Sourced(p)[i]
<1> DEFINE s == Sourced(p)
           T == {s[i] : i \in 1..Len(p)}
           S == {e \in ToSet(s) : e.source \notin removed}
           r == Only(s, S)
<1>1. Len(p) \in Nat /\ DOMAIN p = 1..Len(p)
  BY SequenceIs
<1>2. \A i \in 1..Len(p) : s[i].source = i /\ s[i].rows = p[i].rows /\ s[i].kind = p[i].kind
  BY <1>1 DEF Sourced
<1>3. s = [i \in 1..Len(p) |-> s[i]]
  BY <1>1 DEF Sourced
<1>4. Kept(p, removed) = r
  BY DEF Kept
<1> HIDE DEF s
<1>5. Sequence(s) /\ Len(s) = Len(p)
  BY <1>1, <1>3, IsSequence
<1>6. \A i \in 1..Len(s) : s[i] \in T
  BY <1>5
<1> HIDE DEF S, T
<1>7. s \in Seq(T)
  BY <1>5, <1>6, ItemsOf
<1>8. r \in Seq(T)
  BY <1>7, OnlyTyped
<1> HIDE DEF r
<1>9. Sequence(r) /\ ToSet(r) \subseteq T
  BY <1>8, Items
<1>10. \A e \in T : \E i \in 1..Len(p) : e.source = i /\ e.rows = p[i].rows /\ e.kind = p[i].kind
                                         /\ e = s[i]
  BY <1>2 DEF T
<1> QED
  BY <1>4, <1>9, <1>10 DEF s

-----------------------------------------------------------------------------
(* What the chunks of a document hold.                                     *)

(* What the proof needs of a cleaned document.                             *)
Clear(els, W) ==
  /\ Sequence(els)
  /\ \A e \in ToSet(els) : e.rows \in Seq(Seq(W)) /\ (e.kind = "table" => NotEmpty(e.rows) = e.rows)
  /\ \A d, e \in ToSet(els) : d.source = e.source => d = e

Spoken(els) == {e \in ToSet(els) : e.kind # "page_break" /\ ~Blank(e.rows)}

(* The units are elements with words.                                      *)
LEMMA UnitsAre ==
  ASSUME NEW els, Sequence(els)
  PROVE  Units(els) \in Seq(Spoken(els))
<1> DEFINE S == Spoken(els)
           r == Only(els, S)
<1>1. Units(els) = r
  BY DEF Units, Spoken
<1>2. Sequence(els) /\ els \in Seq(ToSet(els))
  BY DEF Sequence
<1> HIDE DEF S
<1>3. r \in Seq(ToSet(els)) /\ \A k \in 1..Len(r) : r[k] \in S
  BY <1>2, OnlyTyped
<1>4. Sequence(r)
  BY <1>3, Items
<1>5. r \in Seq(S)
  BY <1>3, <1>4, ItemsOf
<1> QED
  BY <1>1, <1>5 DEF S

(* What chunks of a document hold of their own.                            *)
OwnIn(r, cs) == [k \in DOMAIN cs |-> Own(r, cs[k])]

Tells(r, cs, text, W) ==
  /\ Sequence(cs)
  /\ \A k \in 1..Len(cs) : Own(r, cs[k]) \in Seq(W)
  /\ FlattenSeq(OwnIn(r, cs)) = text

(* From the words that chunks have of their own to those of the report.    *)
LEMMA Telling ==
  ASSUME NEW W, NEW r, NEW cs, NEW head, NEW text, Hold(cs, head, text, W),
         \A k \in 1..Len(cs) : Own(r, cs[k]) = OwnWords(cs[k], head)
  PROVE  Tells(r, cs, text, W)
<1>1. Sequence(cs) /\ Len(cs) \in Nat /\ DOMAIN cs = 1..Len(cs)
  BY SequenceIs DEF Hold
<1>2. OwnIn(r, cs) = Owned(cs, head)
  BY <1>1 DEF OwnIn, Owned
<1> QED
  BY <1>1, <1>2 DEF Hold, Tells

(* What a chunk has of its own, once its header is known.                  *)
LEMMA OwnIs ==
  ASSUME NEW r, NEW chunk
  PROVE  Own(r, chunk) = OwnWords(chunk, HeaderOf(r, chunk))
  BY DEF Own, OwnWords

(* The chunks of a block repeat no header.                                 *)
LEMMA BlockTells ==
  ASSUME NEW W, NEW r, NEW cs, NEW head, NEW text, Hold(cs, head, text, W), Unrowed(cs)
  PROVE  Tells(r, cs, text, W)
<1>1. ASSUME NEW k \in 1..Len(cs) PROVE Own(r, cs[k]) = OwnWords(cs[k], head)
  <2> DEFINE chunk == cs[k]
  <2>1. ~chunk.repeated
    BY DEF Unrowed
  <2> HIDE DEF chunk
  <2>2. Own(r, chunk) = OwnWords(chunk, head)
    BY <2>1 DEF Own, OwnWords
  <2> QED
    BY <2>2 DEF chunk
<1> QED
  BY <1>1, Telling

(* The header that a chunk of a table repeats is that of its table.        *)
LEMMA TableTells ==
  ASSUME NEW W, NEW r, NEW cs, NEW unit, NEW text, Clear(r.cleaned.elements, W),
         unit \in ToSet(r.cleaned.elements), Hold(cs, unit.rows[1], text, W), OfTable(cs, unit)
  PROVE  Tells(r, cs, text, W)
<1>1. ASSUME NEW k \in 1..Len(cs) PROVE Own(r, cs[k]) = OwnWords(cs[k], unit.rows[1])
  <2> DEFINE chunk == cs[k]
             e == CHOOSE e \in ToSet(r.cleaned.elements) : e.source \in chunk.sources
  <2>1. chunk.sources = {unit.source}
    BY DEF OfTable
  <2> HIDE DEF chunk
  <2>2. e \in ToSet(r.cleaned.elements) /\ e.source \in chunk.sources
    BY <2>1
  <2>3. HeaderOf(r, chunk) = e.rows[1]
    BY DEF HeaderOf
  <2> HIDE DEF e
  <2>4. e = unit
    BY <2>1, <2>2 DEF Clear
  <2>5. HeaderOf(r, chunk) = unit.rows[1]
    BY <2>3, <2>4
  <2> QED
    BY <2>5, OwnIs DEF chunk
<1> QED
  BY <1>1, Telling

(* Piece by piece is document by document.                                 *)
PiecesTell(r, css, texts, W) ==
  /\ Sequence(css) /\ Sequence(texts) /\ Len(texts) = Len(css)
  /\ \A i \in 1..Len(css) : Tells(r, css[i], texts[i], W)

LEMMA Assembled ==
  ASSUME NEW W, NEW r, NEW css, NEW texts, PiecesTell(r, css, texts, W)
  PROVE  FlattenSeq(OwnIn(r, FlattenSeq(css))) = FlattenSeq(texts)
<1> DEFINE N == Len(css)
           C == UNION {ToSet(css[i]) : i \in 1..N}
           g == [c \in C |-> Own(r, c)]
<1> /\ Sequence(css) /\ Sequence(texts) /\ Len(texts) = Len(css)
    /\ \A i \in 1..N : Tells(r, css[i], texts[i], W)
  BY DEF PiecesTell
<1>1. ASSUME NEW i \in 1..N PROVE css[i] \in Seq(C) /\ Sequence(css[i])
  <2> DEFINE cs == css[i]
  <2>1. Sequence(cs) /\ ToSet(cs) \subseteq C
    BY DEF Tells
  <2> HIDE DEF cs, C
  <2>2. ToSet(cs) = {cs[k] : k \in 1..Len(cs)}
    BY <2>1, SequenceIs
  <2>3. cs \in Seq(C)
    BY <2>1, <2>2, ItemsOf
  <2> QED
    BY <2>1, <2>3 DEF cs
<1>2. ASSUME NEW c \in C PROVE g[c] = Own(r, c) /\ g[c] \in Seq(W)
  <2>1. PICK i \in 1..N : c \in ToSet(css[i])
    OBVIOUS
  <2> DEFINE cs == css[i]
  <2>2. ToSet(cs) = {cs[k] : k \in 1..Len(cs)} /\ \A k \in 1..Len(cs) : Own(r, cs[k]) \in Seq(W)
    BY SequenceIs DEF Tells
  <2> QED
    BY <2>1, <2>2
<1>3. Maps(g, C, Seq(W))
  BY <1>2 DEF Maps
<1>4. css \in Seq(Seq(C))
  <2> DEFINE S == Seq(C)
  <2>1. \A i \in 1..N : css[i] \in S
    BY <1>1
  <2> HIDE DEF S, C
  <2>2. css \in Seq(S)
    BY <2>1, ItemsOf
  <2> QED
    BY <2>2 DEF S
<1>5. \A s \in Seq(C) : OwnIn(r, s) = Applied(g, s)
  <2> SUFFICES ASSUME NEW s \in Seq(C) PROVE OwnIn(r, s) = Applied(g, s)
    OBVIOUS
  <2> HIDE DEF C
  <2>1. DOMAIN s = 1..Len(s) /\ \A k \in 1..Len(s) : s[k] \in C
    BY LenProperties, ElementOfSeq
  <2>2. \A k \in DOMAIN s : g[s[k]] = Own(r, s[k])
    BY <2>1
  <2> HIDE DEF g
  <2> QED
    BY <2>2 DEF OwnIn, Applied
<1> HIDE DEF C, g
<1>6. \A i \in 1..N : texts[i] = FlattenSeq(Applied(g, css[i]))
  <2> SUFFICES ASSUME NEW i \in 1..N PROVE texts[i] = FlattenSeq(Applied(g, css[i]))
    OBVIOUS
  <2>1. FlattenSeq(OwnIn(r, css[i])) = texts[i]
    BY DEF Tells
  <2>2. OwnIn(r, css[i]) = Applied(g, css[i])
    BY <1>1, <1>5
  <2> QED
    BY <2>1, <2>2
<1>7. FlattenSeq(Applied(g, FlattenSeq(css))) = FlattenSeq(texts)
  BY <1>3, <1>4, <1>6, FlatByParts
<1>8. FlattenSeq(css) \in Seq(C)
  BY <1>4, FlatTyped
<1> QED
  BY <1>5, <1>7, <1>8

(* The chunks of one piece hold what its units owe: their words, without    *)
(* the header of a table that was sliced and does not repeat it.            *)
LEMMA PlainPieceTells ==
  ASSUME NEW W, NEW r, Clear(r.cleaned.elements, W), NEW domain, NEW config, Bounded(config),
         NEW b \in Seq(Plain(Spoken(r.cleaned.elements), config))
  PROVE  /\ Tells(r, PieceChunks(BlockPiece(b), domain, config), FlattenSeq(UnitTexts(b)), W)
         /\ Unrowed(PieceChunks(BlockPiece(b), domain, config))
<1> DEFINE V == Plain(Spoken(r.cleaned.elements), config)
           cs == PieceChunks(BlockPiece(b), domain, config)
           head == <<>>
<1>1. Sequence(b) /\ \A i \in 1..Len(b) : b[i] \in V
  <2>1. b \in Seq(V)
    OBVIOUS
  <2> HIDE DEF V
  <2> QED
    BY <2>1, Items
<1>2. \A i \in 1..Len(b) : b[i].rows \in Seq(Seq(W))
  BY <1>1 DEF Plain, Spoken, Clear
<1>3. Worded(b, W)
  BY <1>1, <1>2 DEF Worded
<1>4. PieceChunks(BlockPiece(b), domain, config)
        = PieceChunks([table |-> FALSE, units |-> b], domain, config)
  BY DEF BlockPiece
<1> HIDE DEF head
<1>5. /\ Hold(PieceChunks([table |-> FALSE, units |-> b], domain, config), head, FlattenSeq(UnitTexts(b)), W)
      /\ Unrowed(PieceChunks([table |-> FALSE, units |-> b], domain, config))
  BY <1>3, BlockHolds
<1>6. Hold(cs, head, FlattenSeq(UnitTexts(b)), W) /\ Unrowed(cs)
  BY <1>4, <1>5
<1> HIDE DEF cs
<1> QED
  BY <1>6, BlockTells DEF cs

(* The chunks of a table.                                                  *)
LEMMA TablePieceTells ==
  ASSUME NEW W, NEW r, Clear(r.cleaned.elements, W), NEW domain, NEW config,
         NEW u \in Spoken(r.cleaned.elements), IsTable(u, config)
  PROVE  LET cs == PieceChunks(TablePiece(u), domain, config)
         IN  /\ Tells(r, cs, IF ~config.repeat_header /\ StartsBelow(cs)
                             THEN Text(Tail(u.rows)) ELSE Text(u.rows), W)
             /\ OfTable(cs, u)
<1> DEFINE rows == u.rows
           cs == PieceChunks(TablePiece(u), domain, config)
           text == IF ~config.repeat_header /\ StartsBelow(cs) THEN Text(Tail(rows)) ELSE Text(rows)
<1>1. u \in ToSet(r.cleaned.elements) /\ ~Blank(rows)
  BY DEF Spoken
<1>2. rows \in Seq(Seq(W)) /\ NotEmpty(rows) = rows
  BY <1>1 DEF Clear, IsTable
<1>3. rows # <<>>
  BY <1>1, FlatEmpty DEF Blank, Text
<1>4. cs = TableChunks(u, rows, config)
  BY <1>2 DEF PieceChunks, TablePiece
<1> HIDE DEF cs, rows
<1>5. Hold(cs, rows[1], text, W) /\ OfTable(cs, u)
  BY <1>2, <1>3, <1>4, TableChunksHold
<1> HIDE DEF text
<1>6. Tells(r, cs, text, W)
  BY <1>1, <1>5, TableTells DEF rows
<1> QED
  BY <1>5, <1>6 DEF text, cs, rows

(* The chunks of the pieces, piece by piece.                               *)
ChunksOf(pieces, domain, config) == [i \in DOMAIN pieces |-> PieceChunks(pieces[i], domain, config)]

CutUp(pieces, U, domain, config) ==
  /\ Sequence(ChunksOf(pieces, domain, config))
  /\ Len(ChunksOf(pieces, domain, config)) = Len(pieces) /\ Len(pieces) \in Nat
  /\ DOMAIN pieces = 1..Len(pieces)
  /\ \A i \in 1..Len(pieces) :
       /\ ChunksOf(pieces, domain, config)[i] = PieceChunks(pieces[i], domain, config)
       /\ Sequence(PieceChunks(pieces[i], domain, config))
       /\ pieces[i] \in PieceOf(U, config)

(* The chunks of the pieces are in the order of the pieces.                *)
LEMMA ChunksOfAre ==
  ASSUME NEW W, NEW r, Clear(r.cleaned.elements, W), NEW domain, NEW config, Bounded(config),
         NEW pieces \in Seq(PieceOf(Spoken(r.cleaned.elements), config))
  PROVE  CutUp(pieces, Spoken(r.cleaned.elements), domain, config)
<1> DEFINE css == ChunksOf(pieces, domain, config)
           U == Spoken(r.cleaned.elements)
           D == PieceOf(U, config)
           N == Len(pieces)
<1>1. N \in Nat /\ DOMAIN pieces = 1..N /\ \A i \in 1..N : pieces[i] \in D
  <2> HIDE DEF D
  <2> QED
    BY LenProperties, ElementOfSeq DEF D
<1>2. css = [i \in 1..N |-> PieceChunks(pieces[i], domain, config)]
  BY <1>1 DEF ChunksOf
<1>3. css = [i \in 1..N |-> css[i]] /\ \A i \in 1..N : css[i] = PieceChunks(pieces[i], domain, config)
  BY <1>2
<1> HIDE DEF css
<1>4. Sequence(css) /\ Len(css) = N
  BY <1>1, <1>3, IsSequence
<1>5. ASSUME NEW p \in D PROVE Sequence(PieceChunks(p, domain, config))
  <2>1. CASE p \in {TablePiece(u) : u \in {u \in U : IsTable(u, config)}}
    <3>1. PICK u \in U : IsTable(u, config) /\ p = TablePiece(u)
      BY <2>1
    <3> HIDE DEF U
    <3> QED
      BY <3>1, TablePieceTells DEF Tells, U
  <2>2. CASE p \in {BlockPiece(b) : b \in Seq(Plain(U, config))}
    <3>1. PICK b \in Seq(Plain(U, config)) : p = BlockPiece(b)
      BY <2>2
    <3> QED
      BY <3>1, PlainPieceTells DEF Tells
  <2> QED
    BY <2>1, <2>2 DEF PieceOf
<1> QED
  BY <1>1, <1>3, <1>4, <1>5 DEF css, CutUp

(* Which tables lose their header, told by their own chunks.                *)
LEMMA LosingIs ==
  ASSUME NEW W, NEW r, Clear(r.cleaned.elements, W), NEW domain, NEW config, config = setup.chunker, Bounded(config),
         NEW pieces, CutUp(pieces, Spoken(r.cleaned.elements), domain, config),
         r.chunks = FlattenSeq(ChunksOf(pieces, domain, config)),
         NEW u \in Spoken(r.cleaned.elements), IsTable(u, config),
         NEW i \in 1..Len(pieces), pieces[i] = TablePiece(u)
  PROVE  LosesHeader(r, u) <=>
           ~config.repeat_header /\ StartsBelow(PieceChunks(TablePiece(u), domain, config))
<1> DEFINE U == Spoken(r.cleaned.elements)
           css == ChunksOf(pieces, domain, config)
           cs == PieceChunks(TablePiece(u), domain, config)
           N == Len(pieces)
           C == UNION {ToSet(css[j]) : j \in 1..N}
<1>1. /\ Sequence(css) /\ Len(css) = N /\ N \in Nat
      /\ \A j \in 1..N : /\ css[j] = PieceChunks(pieces[j], domain, config)
                         /\ Sequence(css[j])
                         /\ pieces[j] \in PieceOf(U, config)
  <2>1. /\ Sequence(css) /\ Len(css) = Len(pieces) /\ Len(pieces) \in Nat
        /\ \A j \in 1..Len(pieces) :
             /\ css[j] = PieceChunks(pieces[j], domain, config)
             /\ Sequence(PieceChunks(pieces[j], domain, config))
             /\ pieces[j] \in PieceOf(Spoken(r.cleaned.elements), config)
    BY DEF CutUp
  <2> HIDE DEF css
  <2> QED
    BY <2>1
<1>2. OfTable(cs, u)
  BY TablePieceTells
<1>3. css[i] = cs
  BY <1>1
<1> HIDE DEF css
<1>4. css \in Seq(Seq(C))
  <2> DEFINE S == Seq(C)
  <2>1. \A j \in 1..N : css[j] \in S
    <3> SUFFICES ASSUME NEW j \in 1..N PROVE css[j] \in S
      OBVIOUS
    <3> DEFINE c == css[j]
    <3>1. Sequence(c) /\ ToSet(c) \subseteq C
      BY <1>1
    <3> HIDE DEF c, C
    <3>2. \A k \in 1..Len(c) : c[k] \in C
      BY <3>1, SequenceIs
    <3> QED
      BY <3>1, <3>2, ItemsOf DEF c
  <2> HIDE DEF S
  <2> QED
    BY <1>1, <2>1, ItemsOf DEF S
<1> HIDE DEF C
<1>5. /\ \A j \in 1..N : ToSet(css[j]) \subseteq ToSet(FlattenSeq(css))
      /\ \A x \in ToSet(FlattenSeq(css)) : \E j \in 1..N : x \in ToSet(css[j])
  BY <1>1, <1>4, FlatItems
<1>6. r.chunks = FlattenSeq(css)
  BY DEF css
<1>7. \A c \in ToSet(cs) : c \in ToSet(r.chunks) /\ c.rows # <<>> /\ c.sources = {u.source}
  <2>1. Sequence(cs)
    BY <1>1, <1>3
  <2>2. ToSet(cs) = {cs[k] : k \in 1..Len(cs)}
    BY <2>1, SequenceIs
  <2>3. ToSet(cs) \subseteq ToSet(r.chunks)
    BY <1>3, <1>5, <1>6
  <2> HIDE DEF cs
  <2> QED
    BY <1>2, <2>2, <2>3 DEF OfTable
<1>8. ASSUME NEW c \in ToSet(r.chunks), c.rows # <<>>, c.sources = {u.source}
      PROVE  c \in ToSet(cs)
  <2>1. PICK j \in 1..N : c \in ToSet(css[j])
    BY <1>5, <1>6
  <2> DEFINE p == pieces[j]
             other == css[j]
  <2>2. other = PieceChunks(p, domain, config) /\ p \in PieceOf(U, config) /\ Sequence(other)
    BY <1>1
  <2> HIDE DEF p, other
  <2>3. PICK k \in 1..Len(other) : c = other[k]
    <3>1. ToSet(other) = {other[k] : k \in 1..Len(other)}
      BY <2>2, SequenceIs
    <3> QED
      BY <2>1, <3>1 DEF other
  <2>4. CASE p \in {TablePiece(v) : v \in {v \in U : IsTable(v, config)}}
    <3>1. PICK v \in U : IsTable(v, config) /\ p = TablePiece(v)
      BY <2>4
    <3>2. OfTable(other, v)
      <4> HIDE DEF U
      <4> QED
        BY <2>2, <3>1, TablePieceTells DEF U
    <3>3. c.sources = {v.source}
      BY <2>3, <3>2 DEF OfTable
    <3>4. v = u
      BY <1>8, <3>1, <3>3 DEF Clear, Spoken
    <3> QED
      BY <2>1, <2>2, <3>1, <3>4 DEF other
  <2>5. CASE p \in {BlockPiece(b) : b \in Seq(Plain(U, config))}
    <3>1. PICK b \in Seq(Plain(U, config)) : p = BlockPiece(b)
      BY <2>5
    <3>2. Unrowed(other)
      BY <2>2, <3>1, PlainPieceTells
    <3> QED
      BY <1>8, <2>3, <3>2 DEF Unrowed
  <2> QED
    BY <2>2, <2>4, <2>5 DEF PieceOf
<1>9. u.kind = "table" /\ config.table_aware
  BY DEF IsTable
<1>10. LosesHeader(r, u) <=>
         ~config.repeat_header
         /\ \E c \in ToSet(r.chunks) : c.rows # <<>> /\ c.sources = {u.source} /\ c.rows[1] > 0
  BY <1>9 DEF LosesHeader
<1> HIDE DEF cs
<1>11. (\E c \in ToSet(r.chunks) : c.rows # <<>> /\ c.sources = {u.source} /\ c.rows[1] > 0)
         <=> StartsBelow(cs)
  BY <1>7, <1>8 DEF StartsBelow
<1> QED
  BY <1>10, <1>11 DEF cs

(* A single part is the whole.                                             *)
LEMMA FlatOne ==
  ASSUME NEW T, NEW x \in Seq(T)
  PROVE  FlattenSeq(<<x>>) = x
<1> DEFINE none == <<>>
           S == Seq(T)
<1>1. none \in Seq(S) /\ Append(none, x) = <<x>>
  BY EmptySeq
<1>2. FlattenSeq(Append(none, x)) = FlattenSeq(none) \o x
  BY <1>1, FlatAppend
<1>3. FlattenSeq(none) = none /\ none \o x = x
  BY FlatEmpty, ConcatEmptySeq
<1> HIDE DEF none
<1> QED
  BY <1>1, <1>2, <1>3

(* What the units of a document owe.                                       *)
OwedBy(r, U) == [u \in U |-> Owed(r, u)]

(* What a unit owes is words.                                              *)
LEMMA OwedIs ==
  ASSUME NEW W, NEW r, Clear(r.cleaned.elements, W)
  PROVE  Maps(OwedBy(r, Spoken(r.cleaned.elements)), Spoken(r.cleaned.elements), Seq(W))
<1>1. ASSUME NEW u \in Spoken(r.cleaned.elements) PROVE Owed(r, u) \in Seq(W)
  <2> DEFINE rows == u.rows
  <2>1. rows \in Seq(Seq(W)) /\ ~Blank(rows)
    BY DEF Spoken, Clear
  <2> HIDE DEF rows
  <2>2. rows # <<>>
    BY <2>1, FlatEmpty DEF Blank, Text
  <2>3. Tail(rows) \in Seq(Seq(W))
    BY <2>1, <2>2, FlatTail
  <2>4. Text(rows) \in Seq(W) /\ Text(Tail(rows)) \in Seq(W)
    BY <2>1, <2>3, FlatTyped DEF Text
  <2> QED
    BY <2>4 DEF Owed, rows
<1> QED
  BY <1>1 DEF Maps, OwedBy

(* A unit in a block owes its text.                                        *)
LEMMA PlainOwes ==
  ASSUME NEW r, NEW U, NEW b \in Seq(Plain(U, setup.chunker))
  PROVE  Applied(OwedBy(r, U), b) = UnitTexts(b)
<1> DEFINE V == Plain(U, setup.chunker)
<1>1. ASSUME NEW u \in V PROVE u \in U /\ Owed(r, u) = Text(u.rows)
  <2>1. u \in U /\ ~IsTable(u, setup.chunker)
    BY DEF Plain
  <2> QED
    BY <2>1 DEF Owed, LosesHeader, IsTable
<1>2. b \in Seq(V)
  OBVIOUS
<1> HIDE DEF V
<1>3. DOMAIN b = 1..Len(b) /\ \A i \in 1..Len(b) : b[i] \in V
  BY <1>2, LenProperties, ElementOfSeq
<1>4. \A i \in DOMAIN b : OwedBy(r, U)[b[i]] = Text(b[i].rows)
  BY <1>1, <1>3 DEF OwedBy
<1> QED
  BY <1>4 DEF Applied, UnitTexts

(* What a table owes.                                                      *)
LEMMA TableOwes ==
  ASSUME NEW W, NEW r, NEW U, NEW u \in U, Owed(r, u) \in Seq(W)
  PROVE  FlattenSeq(Applied(OwedBy(r, U), <<u>>)) = Owed(r, u)
<1> DEFINE x == Owed(r, u)
           one == <<u>>
<1>1. Applied(OwedBy(r, U), one) = <<x>>
  <2>1. DOMAIN one = 1..1 /\ one[1] = u
    OBVIOUS
  <2>2. Applied(OwedBy(r, U), one) = [k \in 1..1 |-> x]
    BY <2>1 DEF Applied, OwedBy
  <2> HIDE DEF x
  <2>3. [k \in 1..1 |-> x] = <<x>>
    OBVIOUS
  <2> QED
    BY <2>2, <2>3
<1> HIDE DEF x
<1>2. x \in Seq(W)
  BY DEF x
<1>3. FlattenSeq(<<x>>) = x
  BY <1>2, FlatOne
<1> QED
  BY <1>1, <1>3 DEF x

(* Nothing of a document is lost.                                          *)
LEMMA DocumentTells ==
  ASSUME NEW W, NEW r, Clear(r.cleaned.elements, W), NEW domain,
         NEW config, config = setup.chunker, Bounded(config),
         ChunkDocument(r.cleaned.elements, domain, config).status = "chunked",
         r.chunks = ChunkDocument(r.cleaned.elements, domain, config).chunks
  PROVE  LET units == Units(r.cleaned.elements)
         IN  FlattenSeq(OwnIn(r, r.chunks)) = FlattenSeq([u \in DOMAIN units |-> Owed(r, units[u])])
<1> DEFINE els == r.cleaned.elements
           units == Units(els)
           U == Spoken(els)
           pieces == PiecesOf(units, domain, config)
           css == ChunksOf(pieces, domain, config)
           owed == OwedBy(r, U)
           parts == Applied(UnitsOf(U, config), pieces)
           N == Len(pieces)
           texts == [i \in 1..N |-> FlattenSeq(Applied(owed, pieces[i].units))]
<1>1. units \in Seq(U)
  BY UnitsAre DEF Clear
<1>2. r.chunks = FlattenSeq(css)
  BY DEF ChunkDocument, ChunkPieces, Pieces, ChunksOf
<1> HIDE DEF units
<1>3. pieces \in Seq(PieceOf(U, config)) /\ FlattenSeq(parts) = units
  BY <1>1, PiecesAre
<1> HIDE DEF pieces
<1>4. CutUp(pieces, U, domain, config)
  BY <1>3, ChunksOfAre
<1>5. /\ Sequence(css) /\ Len(css) = N /\ N \in Nat
      /\ \A i \in 1..N : /\ css[i] = PieceChunks(pieces[i], domain, config)
                         /\ pieces[i] \in PieceOf(U, config)
  BY <1>4 DEF CutUp
<1>6. Maps(owed, U, Seq(W)) /\ \A u \in U : Owed(r, u) \in Seq(W)
  <2>1. Maps(owed, U, Seq(W))
    BY OwedIs
  <2> QED
    BY <2>1 DEF Maps, OwedBy
<1>7. ASSUME NEW i \in 1..N
      PROVE  Tells(r, css[i], FlattenSeq(Applied(owed, pieces[i].units)), W)
  <2> DEFINE p == pieces[i]
             cs == css[i]
  <2>1. cs = PieceChunks(p, domain, config) /\ p \in PieceOf(U, config)
    BY <1>5
  <2>2. CASE p \in {TablePiece(u) : u \in {u \in U : IsTable(u, config)}}
    <3>1. PICK u \in U : IsTable(u, config) /\ p = TablePiece(u)
      BY <2>2
    <3>2. LosesHeader(r, u) <=>
            ~config.repeat_header /\ StartsBelow(PieceChunks(TablePiece(u), domain, config))
      BY <1>2, <1>4, <3>1, LosingIs
    <3>3. Tells(r, PieceChunks(TablePiece(u), domain, config),
                IF ~config.repeat_header /\ StartsBelow(PieceChunks(TablePiece(u), domain, config))
                THEN Text(Tail(u.rows)) ELSE Text(u.rows), W)
      BY <3>1, TablePieceTells
    <3>4. Owed(r, u) = IF ~config.repeat_header /\ StartsBelow(PieceChunks(TablePiece(u), domain, config))
                       THEN Text(Tail(u.rows)) ELSE Text(u.rows)
      BY <3>2 DEF Owed
    <3>5. p.units = <<u>>
      BY <3>1 DEF TablePiece
    <3>6. FlattenSeq(Applied(owed, <<u>>)) = Owed(r, u)
      BY <1>6, <3>1, TableOwes
    <3> QED
      BY <2>1, <3>1, <3>3, <3>4, <3>5, <3>6
  <2>3. CASE p \in {BlockPiece(b) : b \in Seq(Plain(U, config))}
    <3>1. PICK b \in Seq(Plain(U, config)) : p = BlockPiece(b)
      BY <2>3
    <3>2. Tells(r, PieceChunks(BlockPiece(b), domain, config), FlattenSeq(UnitTexts(b)), W)
      BY <3>1, PlainPieceTells
    <3>3. p.units = b
      BY <3>1 DEF BlockPiece
    <3>4. Applied(owed, b) = UnitTexts(b)
      BY <3>1, PlainOwes
    <3> QED
      BY <2>1, <3>1, <3>2, <3>3, <3>4
  <2> QED
    BY <2>1, <2>2, <2>3 DEF PieceOf
<1>8. texts = [i \in 1..N |-> texts[i]]
      /\ \A i \in 1..N : texts[i] = FlattenSeq(Applied(owed, pieces[i].units))
  OBVIOUS
<1> HIDE DEF texts, css, N
<1>9. Sequence(texts) /\ Len(texts) = N
  BY <1>5, <1>8, IsSequence
<1>10. FlattenSeq(OwnIn(r, FlattenSeq(css))) = FlattenSeq(texts)
  <2>1. \A i \in 1..Len(css) : Tells(r, css[i], texts[i], W)
    BY <1>5, <1>7, <1>8
  <2>2. Len(texts) = Len(css)
    BY <1>5, <1>9
  <2>3. Sequence(css) /\ Sequence(texts)
    BY <1>5, <1>9
  <2>4. PiecesTell(r, css, texts, W)
    BY <2>1, <2>2, <2>3 DEF PiecesTell
  <2> QED
    BY <2>4, Assembled
<1>11. /\ parts \in Seq(Seq(U)) /\ Len(parts) = N
       /\ \A i \in 1..N : parts[i] = pieces[i].units
  <2> DEFINE g == UnitsOf(U, config)
             D == PieceOf(U, config)
             S == Seq(U)
  <2>1. Maps(g, D, S)
    BY PieceUnits
  <2>2. \A q \in D : g[q] = q.units
    BY DEF UnitsOf
  <2>3. pieces \in Seq(D)
    BY <1>3
  <2> HIDE DEF g, D, S
  <2>4. /\ Applied(g, pieces) \in Seq(S) /\ Len(Applied(g, pieces)) = Len(pieces)
        /\ \A i \in 1..Len(pieces) : Applied(g, pieces)[i] = g[pieces[i]] /\ pieces[i] \in D
    BY <2>1, <2>3, AppliedIs
  <2> QED
    BY <2>2, <2>4 DEF g, S, N
<1> HIDE DEF parts, owed, U
<1>12. FlattenSeq(Applied(owed, FlattenSeq(parts))) = FlattenSeq(texts)
  <2>1. \A i \in 1..Len(parts) : texts[i] = FlattenSeq(Applied(owed, parts[i]))
    BY <1>8, <1>11
  <2>2. Len(texts) = Len(parts)
    BY <1>9, <1>11
  <2> QED
    BY <1>6, <1>9, <1>11, <2>1, <2>2, FlatByParts, SMTT(60)
<1>13. Applied(owed, units) = [u \in DOMAIN units |-> Owed(r, units[u])]
  <2>1. DOMAIN units = 1..Len(units) /\ \A i \in 1..Len(units) : units[i] \in U
    BY <1>1, LenProperties, ElementOfSeq
  <2>2. \A i \in DOMAIN units : owed[units[i]] = Owed(r, units[i])
    BY <2>1 DEF OwedBy, owed
  <2> QED
    BY <2>2 DEF Applied
<1> QED
  BY <1>2, <1>3, <1>10, <1>12, <1>13 DEF units

(* Cleaning meets what chunking needs.                                     *)
LEMMA CleanIsClear ==
  ASSUME NEW elements \in ParsedElements, NEW config
  PROVE  Clear(Clean(elements, config).elements, Seq(STRING))
<1> DEFINE p == Prepared(elements)
           removed == Elements(Removals(p, config))
           r == Kept(p, removed)
           W == Seq(STRING)
<1>1. Clean(elements, config).elements = r
  BY CleanIs
<1>2. Sequence(p) /\ Len(p) = Len(elements)
  BY PreparedIs DEF IsPrepared
<1>3. \A i \in 1..Len(p) : /\ p[i].rows \in Seq(Seq(W))
                           /\ p[i].kind = "table" => \A k \in 1..Len(p[i].rows) : p[i].rows[k] # <<>>
  BY <1>2, PreparedRows
<1> HIDE DEF p, removed
<1>4. /\ Sequence(r)
      /\ \A e \in ToSet(r) :
           \E i \in 1..Len(p) : e.source = i /\ e.rows = p[i].rows /\ e.kind = p[i].kind
                                /\ e = Sourced(p)[i]
  BY <1>2, KeptItems
<1> HIDE DEF r, W
<1>5. ASSUME NEW e \in ToSet(r)
      PROVE  e.rows \in Seq(Seq(W)) /\ (e.kind = "table" => NotEmpty(e.rows) = e.rows)
  <2> DEFINE rows == e.rows
             none == <<>>
             S == Seq(W)
  <2>1. rows \in Seq(S) /\ (e.kind = "table" => \A k \in 1..Len(rows) : rows[k] # none)
    BY <1>3, <1>4
  <2>2. NotEmpty(rows) = Without(rows, none)
    BY DEF NotEmpty
  <2> HIDE DEF rows, none, S
  <2>3. ASSUME e.kind = "table" PROVE NotEmpty(rows) = rows
    BY <2>1, <2>2, <2>3, OnlyAll
  <2> QED
    BY <2>1, <2>3 DEF rows, S
<1>6. \A d, e \in ToSet(r) : d.source = e.source => d = e
  BY <1>4
<1> QED
  BY <1>1, <1>4, <1>5, <1>6 DEF Clear, W

-----------------------------------------------------------------------------
(* Where the chunks of a document stand.                                   *)

(* Where a chunk stands in a document: on neighbours, of one section.        *)
StandsAt(units, chunk, config, lo, hi) ==
  /\ Among(units, chunk, lo, hi) /\ FitsLimit(chunk, config, lo, hi)
  /\ config.section_aware => OneSection(units, lo, hi)

StandsIn(units, chunk, config) ==
  \E lo \in 1..Len(units) : \E hi \in lo..Len(units) : StandsAt(units, chunk, config, lo, hi)

(* Two sections never meet in a piece.                                      *)
InOneSection(b, config) ==
  config.section_aware =>
    \A lo \in 1..Len(b) : \A hi \in lo..Len(b) : OneSection(b, lo, hi)

(* What stands in a piece stands in the document.                           *)
LEMMA ShiftStands ==
  ASSUME NEW b, Len(b) \in Nat, NEW units, Len(units) \in Nat, NEW o \in Nat,
         o + Len(b) <= Len(units), \A k \in 1..Len(b) : units[o + k] = b[k],
         NEW config, InOneSection(b, config), NEW chunk, Stands(b, chunk, config)
  PROVE  StandsIn(units, chunk, config)
<1>1. PICK l \in 1..Len(b) : \E h \in l..Len(b) : Among(b, chunk, l, h) /\ FitsLimit(chunk, config, l, h)
  BY DEF Stands
<1>2. PICK h \in l..Len(b) : Among(b, chunk, l, h) /\ FitsLimit(chunk, config, l, h)
  BY <1>1
<1>3. config.section_aware => OneSection(b, l, h)
  BY DEF InOneSection
<1> DEFINE lo == o + l
           hi == o + h
<1>4. lo \in 1..Len(units) /\ hi \in lo..Len(units)
  OBVIOUS
<1> DEFINE Same(i, k) == /\ units[i] = b[k] /\ units[i].source = b[k].source
                         /\ units[i].page = b[k].page /\ units[i].hint = b[k].hint
<1>5. \A i \in lo..hi : \E k \in l..h : Same(i, k)
  <2> SUFFICES ASSUME NEW i \in lo..hi PROVE \E k \in l..h : Same(i, k)
    OBVIOUS
  <2>1. i - o \in l..h /\ i - o \in 1..Len(b) /\ o + (i - o) = i
    OBVIOUS
  <2> QED
    BY <2>1
<1>6. \A k \in l..h : \E i \in lo..hi : Same(i, k)
  <2> SUFFICES ASSUME NEW k \in l..h PROVE \E i \in lo..hi : Same(i, k)
    OBVIOUS
  <2>1. o + k \in lo..hi /\ k \in 1..Len(b)
    OBVIOUS
  <2> QED
    BY <2>1
<1>7. units[lo] = b[l] /\ units[lo].hint = b[l].hint
  OBVIOUS
<1>8. lo = hi <=> l = h
  OBVIOUS
<1> HIDE DEF lo, hi
<1>9. {units[i].source : i \in lo..hi} = {b[k].source : k \in l..h}
  <2> DEFINE X == {units[i].source : i \in lo..hi}
             Y == {b[k].source : k \in l..h}
  <2>1. ASSUME NEW i \in lo..hi PROVE units[i].source \in Y
    <3>1. PICK k \in l..h : Same(i, k)
      BY <1>5
    <3> QED
      BY <3>1
  <2>2. ASSUME NEW k \in l..h PROVE b[k].source \in X
    <3>1. PICK i \in lo..hi : Same(i, k)
      BY <1>6
    <3> QED
      BY <3>1
  <2>3. \A x \in X : x \in Y
    BY <2>1
  <2>4. \A y \in Y : y \in X
    BY <2>2
  <2> HIDE DEF X, Y
  <2>5. X = Y
    BY <2>3, <2>4
  <2> QED
    BY <2>5 DEF X, Y
<1>10. {units[i].page : i \in lo..hi} = {b[k].page : k \in l..h}
  <2> DEFINE X == {units[i].page : i \in lo..hi}
             Y == {b[k].page : k \in l..h}
  <2>1. ASSUME NEW i \in lo..hi PROVE units[i].page \in Y
    <3>1. PICK k \in l..h : Same(i, k)
      BY <1>5
    <3> QED
      BY <3>1
  <2>2. ASSUME NEW k \in l..h PROVE b[k].page \in X
    <3>1. PICK i \in lo..hi : Same(i, k)
      BY <1>6
    <3> QED
      BY <3>1
  <2>3. \A x \in X : x \in Y
    BY <2>1
  <2>4. \A y \in Y : y \in X
    BY <2>2
  <2> HIDE DEF X, Y
  <2>5. X = Y
    BY <2>3, <2>4
  <2> QED
    BY <2>5 DEF X, Y
<1>11. {ToSet(Text(units[i].rows)) : i \in lo..hi} = {ToSet(Text(b[k].rows)) : k \in l..h}
  <2> DEFINE X == {ToSet(Text(units[i].rows)) : i \in lo..hi}
             Y == {ToSet(Text(b[k].rows)) : k \in l..h}
  <2>1. ASSUME NEW i \in lo..hi PROVE ToSet(Text(units[i].rows)) \in Y
    <3>1. PICK k \in l..h : units[i] = b[k]
      BY <1>5
    <3> QED
      BY <3>1
  <2>2. ASSUME NEW k \in l..h PROVE ToSet(Text(b[k].rows)) \in X
    <3>1. PICK i \in lo..hi : units[i] = b[k]
      BY <1>6
    <3> QED
      BY <3>1
  <2>3. \A x \in X : x \in Y
    BY <2>1
  <2>4. \A y \in Y : y \in X
    BY <2>2
  <2> HIDE DEF X, Y
  <2>5. X = Y
    BY <2>3, <2>4
  <2> QED
    BY <2>5 DEF X, Y
<1>12. Among(units, chunk, lo, hi)
  BY <1>2, <1>9, <1>10, <1>11 DEF Among
<1>13. FitsLimit(chunk, config, lo, hi)
  BY <1>2, <1>8 DEF FitsLimit
<1>14. config.section_aware => OneSection(units, lo, hi)
  <2> SUFFICES ASSUME config.section_aware PROVE OneSection(units, lo, hi)
    OBVIOUS
  <2>1. (\E k \in l..h : b[k].hint = <<>>) \/ \A k \in l..h : b[k].hint = b[l].hint
    BY <1>3 DEF OneSection
  <2>2. (\E i \in lo..hi : units[i].hint = <<>>) \/ \A i \in lo..hi : units[i].hint = units[lo].hint
    <3>1. CASE \E k \in l..h : b[k].hint = <<>>
      <4>1. PICK k \in l..h : b[k].hint = <<>>
        BY <3>1
      <4>2. PICK i \in lo..hi : Same(i, k)
        BY <1>6
      <4> QED
        BY <4>1, <4>2
    <3>2. CASE \A k \in l..h : b[k].hint = b[l].hint
      BY <1>5, <1>7, <3>2
    <3> QED
      BY <2>1, <3>1, <3>2
  <2> QED
    BY <2>2 DEF OneSection
<1>15. StandsAt(units, chunk, config, lo, hi)
  BY <1>12, <1>13, <1>14 DEF StandsAt
<1>16. \E h2 \in lo..Len(units) : StandsAt(units, chunk, config, lo, h2)
  BY <1>4, <1>15
<1> QED
  BY <1>4, <1>16 DEF StandsIn

(* The chunks of a block stand in it.                                      *)
LEMMA BlockPieceStands ==
  ASSUME NEW els, NEW W, Clear(els, W), NEW domain, NEW config, Bounded(config),
         config.max_tokens \in Nat,
         NEW b \in Seq(Plain(Spoken(els), config)), b # <<>>, Unbroken(b, domain, config)
  PROVE  /\ InOneSection(b, config) /\ Len(b) \in Nat
         /\ \A chunk \in ToSet(PieceChunks(BlockPiece(b), domain, config)) : Stands(b, chunk, config)
<1> DEFINE V == Plain(Spoken(els), config)
<1>1. Sequence(b) /\ \A i \in 1..Len(b) : b[i] \in V
  <2>1. b \in Seq(V)
    OBVIOUS
  <2> HIDE DEF V
  <2> QED
    BY <2>1, Items
<1>2. \A i \in 1..Len(b) : b[i].rows \in Seq(Seq(W)) /\ Text(b[i].rows) # <<>>
  BY <1>1 DEF Plain, Spoken, Clear, Blank
<1>3. Worded(b, W) /\ NoneEmpty(b) /\ Len(b) \in Nat
  BY <1>1, <1>2, SequenceIs DEF Worded, NoneEmpty
<1>4. InOneSection(b, config)
  BY <1>3, JoinedSection DEF InOneSection
<1> DEFINE p == BlockPiece(b)
<1>5. p.table = FALSE /\ p.units = b
  BY DEF BlockPiece
<1> HIDE DEF p
<1>6. PieceChunks(p, domain, config)
        = IF config.strategy = "semantic" THEN SegmentChunks(b, domain, config) ELSE Windows(b, config)
  BY <1>5 DEF PieceChunks
<1>7. CASE config.strategy = "semantic"
  BY <1>3, <1>4, <1>6, <1>7, SegmentChunksStand DEF p
<1>8. CASE config.strategy # "semantic"
  BY <1>3, <1>4, <1>6, <1>8, WindowsStand DEF p
<1> QED
  BY <1>7, <1>8

(* The slices of a table stand on it.                                      *)
LEMMA TablePieceStands ==
  ASSUME NEW els, NEW W, Clear(els, W), NEW domain, NEW config, config.chunk_size \in Nat,
         NEW u \in Spoken(els), IsTable(u, config)
  PROVE  /\ InOneSection(<<u>>, config) /\ Len(<<u>>) \in Nat
         /\ \A chunk \in ToSet(PieceChunks(TablePiece(u), domain, config)) : Stands(<<u>>, chunk, config)
<1> DEFINE rows == u.rows
           none == <<>>
           S == Seq(W)
<1>1. u \in ToSet(els) /\ ~Blank(rows)
  BY DEF Spoken
<1>2. rows \in Seq(S) /\ NotEmpty(rows) = rows
  BY <1>1 DEF Clear, IsTable
<1>3. rows # none
  BY <1>1, FlatEmpty DEF Blank, Text
<1>4. \A i \in 1..Len(rows) : rows[i] # none
  <2>1. NotEmpty(rows) = Without(rows, none)
    BY DEF NotEmpty
  <2> HIDE DEF rows, none, S
  <2> QED
    BY <1>2, <2>1, WithoutTyped
<1>5. PieceChunks(TablePiece(u), domain, config) = TableChunks(u, rows, config)
  BY <1>2 DEF PieceChunks, TablePiece
<1>6. \A chunk \in ToSet(TableChunks(u, u.rows, config)) : Stands(<<u>>, chunk, config)
  BY <1>2, <1>3, <1>4, TableChunksStand
<1>7. InOneSection(<<u>>, config) /\ Len(<<u>>) \in Nat
  <2> DEFINE b == <<u>>
  <2>1. Len(b) = 1
    OBVIOUS
  <2> HIDE DEF b
  <2>2. \A lo \in 1..Len(b) : \A hi \in lo..Len(b) : \A i \in lo..hi : i = lo
    BY <2>1
  <2>3. InOneSection(b, config)
    BY <2>2 DEF InOneSection, OneSection
  <2> QED
    BY <2>1, <2>3 DEF b
<1> QED
  BY <1>5, <1>6, <1>7

(* The chunks of a piece, whichever it is.                                  *)
LEMMA PieceStands ==
  ASSUME NEW els, NEW W, Clear(els, W), NEW domain, NEW config, Bounded(config),
         config.max_tokens \in Nat, NEW p \in JoinedPieces(Spoken(els), domain, config)
  PROVE  /\ InOneSection(p.units, config) /\ Len(p.units) \in Nat
         /\ \A chunk \in ToSet(PieceChunks(p, domain, config)) : Stands(p.units, chunk, config)
<1> DEFINE U == Spoken(els)
<1>1. /\ p \in PieceOf(U, config) /\ p.units # <<>>
      /\ p.table \/ Unbroken(p.units, domain, config)
  BY DEF JoinedPieces
<1>2. CASE p \in {TablePiece(u) : u \in {u \in U : IsTable(u, config)}}
  <2>1. PICK u \in U : IsTable(u, config) /\ p = TablePiece(u)
    BY <1>2
  <2>2. p.units = <<u>>
    BY <2>1 DEF TablePiece
  <2>3. config.chunk_size \in Nat
    BY DEF Bounded
  <2> HIDE DEF U
  <2>4. /\ InOneSection(<<u>>, config) /\ Len(<<u>>) \in Nat
        /\ \A chunk \in ToSet(PieceChunks(TablePiece(u), domain, config)) : Stands(<<u>>, chunk, config)
    BY <2>1, <2>3, TablePieceStands DEF U
  <2> QED
    BY <2>1, <2>2, <2>4
<1>3. CASE p \in {BlockPiece(b) : b \in Seq(Plain(U, config))}
  <2>1. PICK b \in Seq(Plain(U, config)) : p = BlockPiece(b)
    BY <1>3
  <2>2. p.units = b /\ p.table = FALSE
    BY <2>1 DEF BlockPiece
  <2>3. b # <<>> /\ Unbroken(b, domain, config)
    BY <1>1, <2>2
  <2> QED
    BY <2>1, <2>2, <2>3, BlockPieceStands
<1> QED
  BY <1>1, <1>2, <1>3 DEF PieceOf

(* Every chunk of a document stands on neighbours in it.                    *)
LEMMA DocumentStands ==
  ASSUME NEW W, NEW r, Clear(r.cleaned.elements, W), NEW domain,
         NEW config, Bounded(config), config.max_tokens \in Nat,
         ChunkDocument(r.cleaned.elements, domain, config).status = "chunked",
         r.chunks = ChunkDocument(r.cleaned.elements, domain, config).chunks
  PROVE  /\ Sequence(r.chunks)
         /\ \A chunk \in ToSet(r.chunks) : StandsIn(Units(r.cleaned.elements), chunk, config)
<1> DEFINE els == r.cleaned.elements
           units == Units(els)
           U == Spoken(els)
           pieces == PiecesOf(units, domain, config)
           css == ChunksOf(pieces, domain, config)
           parts == Applied(UnitsOf(U, config), pieces)
           J == JoinedPieces(U, domain, config)
           N == Len(pieces)
<1>1. units \in Seq(U)
  BY UnitsAre DEF Clear
<1>2. r.chunks = FlattenSeq(css)
  BY DEF ChunkDocument, ChunkPieces, Pieces, ChunksOf
<1> HIDE DEF units
<1>3. pieces \in Seq(PieceOf(U, config)) /\ FlattenSeq(parts) = units /\ pieces \in Seq(J)
  BY <1>1, PiecesAre, PiecesJoined
<1> HIDE DEF pieces
<1>4. CutUp(pieces, U, domain, config)
  BY <1>3, ChunksOfAre
<1>5. /\ Sequence(css) /\ Len(css) = N /\ N \in Nat
      /\ \A i \in 1..N : css[i] = PieceChunks(pieces[i], domain, config) /\ Sequence(css[i])
  BY <1>4 DEF CutUp
<1>6. \A i \in 1..N : pieces[i] \in J
  <2> HIDE DEF J
  <2> QED
    BY <1>3, ElementOfSeq
<1>7. /\ parts \in Seq(Seq(U)) /\ Len(parts) = N
      /\ \A i \in 1..N : parts[i] = pieces[i].units
  <2> DEFINE g == UnitsOf(U, config)
             D == PieceOf(U, config)
             S == Seq(U)
  <2>1. Maps(g, D, S)
    BY PieceUnits
  <2>2. \A q \in D : g[q] = q.units
    BY DEF UnitsOf
  <2>3. pieces \in Seq(D)
    BY <1>3
  <2> HIDE DEF g, D, S
  <2>4. /\ Applied(g, pieces) \in Seq(S) /\ Len(Applied(g, pieces)) = Len(pieces)
        /\ \A i \in 1..Len(pieces) : Applied(g, pieces)[i] = g[pieces[i]] /\ pieces[i] \in D
    BY <2>1, <2>3, AppliedIs
  <2> QED
    BY <2>2, <2>4 DEF g, S, N
<1>8. Len(units) \in Nat
  BY <1>1, LenProperties
<1> HIDE DEF css, parts, N
<1>9. ASSUME NEW i \in 1..N, NEW chunk \in ToSet(css[i]) PROVE StandsIn(units, chunk, config)
  <2> DEFINE p == pieces[i]
             b == parts[i]
  <2>1. PICK o \in Nat : /\ o + Len(parts[i]) <= Len(FlattenSeq(parts))
                         /\ \A k \in 1..Len(parts[i]) : FlattenSeq(parts)[o + k] = parts[i][k]
    BY <1>7, FlatPlace
  <2>2. o + Len(b) <= Len(units) /\ \A k \in 1..Len(b) : units[o + k] = b[k]
    BY <1>3, <2>1
  <2>3. b = p.units /\ p \in J /\ chunk \in ToSet(PieceChunks(p, domain, config))
    BY <1>5, <1>6, <1>7
  <2> HIDE DEF b, p, els, U
  <2>4. /\ InOneSection(p.units, config) /\ Len(p.units) \in Nat
        /\ \A c \in ToSet(PieceChunks(p, domain, config)) : Stands(p.units, c, config)
    BY <2>3, PieceStands DEF U, els
  <2>5. InOneSection(b, config) /\ Len(b) \in Nat /\ Stands(b, chunk, config)
    BY <2>3, <2>4
  <2> QED
    BY <1>8, <2>2, <2>5, ShiftStands
<1>10. /\ Sequence(FlattenSeq(css))
       /\ \A chunk \in ToSet(FlattenSeq(css)) : \E i \in 1..Len(css) : chunk \in ToSet(css[i])
  <2>1. PICK C : css \in Seq(Seq(C))
    BY <1>5, PartsTyped
  <2>2. FlattenSeq(css) \in Seq(C)
    BY <2>1, FlatTyped
  <2> QED
    BY <2>1, <2>2, FlatItems, Items
<1>11. \A chunk \in ToSet(FlattenSeq(css)) : StandsIn(units, chunk, config)
  BY <1>5, <1>9, <1>10
<1> QED
  BY <1>2, <1>10, <1>11 DEF units

(* Elements in the order of the document.                                  *)
Ascending(s) ==
  /\ \A k \in 1..Len(s) : s[k].source \in Nat
  /\ \A k, l \in 1..Len(s) : k < l => s[k].source < s[l].source

(* Cleaning keeps the order.                                               *)
LEMMA CleanAscends ==
  ASSUME NEW elements \in ParsedElements, NEW config
  PROVE  Ascending(Clean(elements, config).elements)
<1> DEFINE p == Prepared(elements)
           removed == Elements(Removals(p, config))
           r == Kept(p, removed)
<1>1. Clean(elements, config).elements = r
  BY CleanIs
<1>2. Sequence(p) /\ Len(p) \in Nat
  BY PreparedIs, SequenceIs DEF IsPrepared
<1> HIDE DEF p, removed
<1>3. PICK at : KeptAt(r, Len(p), removed, at)
  BY <1>2, KeptIs
<1> HIDE DEF r
<1>4. \A k \in 1..Len(r) : r[k].source = at[k] /\ at[k] \in Nat
  BY <1>2, <1>3 DEF KeptAt
<1>5. \A k, l \in 1..Len(r) : k < l => r[k].source < r[l].source
  BY <1>3, <1>4 DEF KeptAt
<1> QED
  BY <1>1, <1>4, <1>5 DEF Ascending

(* The units are in the order of the elements.                              *)
LEMMA UnitsAscend ==
  ASSUME NEW els, Sequence(els), Ascending(els)
  PROVE  Ascending(Units(els)) /\ Sequence(Units(els))
<1> DEFINE S == Spoken(els)
           r == Only(els, S)
<1>1. Units(els) = r
  BY DEF Units, Spoken
<1>2. PICK at : Picks(r, els, Len(els), S, at)
  BY OnlyIs
<1> HIDE DEF r, S
<1>3. /\ Sequence(r) /\ at \in [1..Len(r) -> 1..Len(els)]
      /\ \A k, l \in 1..Len(r) : k < l => at[k] < at[l]
      /\ \A k \in 1..Len(r) : r[k] = els[at[k]]
  BY <1>2 DEF Picks
<1>4. \A k \in 1..Len(r) : at[k] \in 1..Len(els) /\ r[k].source = els[at[k]].source
  BY <1>3
<1>5. Ascending(r)
  BY <1>3, <1>4 DEF Ascending
<1> QED
  BY <1>1, <1>3, <1>5

(* Elements are told apart, and ordered, by where they stand.                *)
LEMMA AscendingIs ==
  ASSUME NEW s, Len(s) \in Nat, Ascending(s)
  PROVE  /\ \A i, j \in 1..Len(s) : s[i].source = s[j].source => i = j
         /\ \A i, j \in 1..Len(s) : s[i].source < s[j].source => i < j
<1> DEFINE n == Len(s)
           at == [i \in 1..n |-> s[i].source]
<1>1. /\ n \in Nat /\ \A i \in 1..n : at[i] = s[i].source /\ at[i] \in Nat
      /\ \A i, j \in 1..n : i < j => at[i] < at[j]
  BY DEF Ascending
<1> HIDE DEF n, at
<1>2. \A i, j \in 1..n : at[i] = at[j] => i = j
  BY <1>1
<1>3. \A i, j \in 1..n : at[i] < at[j] => i < j
  BY <1>1
<1> QED
  BY <1>1, <1>2, <1>3 DEF n

(* As many elements as places.                                             *)
LEMMA StretchCount ==
  ASSUME NEW p \in Nat, NEW q \in Nat, NEW g, NEW T,
         \A i \in p..q : g[i] \in T, \A i, j \in p..q : g[i] = g[j] => i = j,
         \A t \in T : \E i \in p..q : g[i] = t
  PROVE  Cardinality(T) = Cardinality(p..q)
<1> DEFINE f == [i \in p..q |-> g[i]]
<1>1. f \in [p..q -> T]
  OBVIOUS
<1>2. \A i \in p..q : f[i] = g[i]
  OBVIOUS
<1> HIDE DEF f
<1>3. f \in Bijection(p..q, T)
  BY <1>1, <1>2 DEF Bijection, Injection, Surjection, IsInjective
<1>4. IsFiniteSet(p..q)
  BY FS_Interval
<1> QED
  BY <1>3, <1>4, FS_Bijection DEF ExistsBijection

(* A chunk that stands on neighbours is sound.                              *)
LEMMA StandingIsSound ==
  ASSUME NEW units, Sequence(units), Ascending(units), NEW chunk, StandsIn(units, chunk, setup.chunker)
  PROVE  SoundChunk(ToSet(units), chunk)
<1> DEFINE n == Len(units)
           config == setup.chunker
<1>1. n \in Nat /\ ToSet(units) = {units[i] : i \in 1..n}
  BY SequenceIs
<1>2. PICK lo \in 1..n : \E hi \in lo..n : StandsAt(units, chunk, config, lo, hi)
  BY DEF StandsIn
<1>3. PICK hi \in lo..n : StandsAt(units, chunk, config, lo, hi)
  BY <1>2
<1>4. lo \in Nat /\ hi \in Nat /\ lo \in lo..hi /\ hi \in 1..n /\ \A i \in lo..hi : i \in 1..n
  BY <1>1
<1>5. /\ chunk.text # <<>>
      /\ chunk.sources = {units[i].source : i \in lo..hi}
      /\ chunk.pages = {units[i].page : i \in lo..hi} \ {0}
      /\ ToSet(chunk.text) \subseteq UNION {ToSet(Text(units[i].rows)) : i \in lo..hi}
  BY <1>3 DEF StandsAt, Among
<1>6. /\ \A i, j \in 1..n : units[i].source = units[j].source => i = j
      /\ \A i, j \in 1..n : units[i].source < units[j].source => i < j
  BY <1>1, AscendingIs
<1> DEFINE from == {e \in ToSet(units) : e.source \in chunk.sources}
           X == {units[i] : i \in lo..hi}
           hints == {e.hint : e \in from}
<1>7. from = X
  <2>1. ASSUME NEW e \in from PROVE e \in X
    <3>1. PICK j \in 1..n : e = units[j]
      BY <1>1
    <3>2. PICK i \in lo..hi : e.source = units[i].source
      BY <1>5
    <3>3. i = j
      BY <1>4, <1>6, <3>1, <3>2
    <3> QED
      BY <3>1, <3>3
  <2>2. ASSUME NEW i \in lo..hi PROVE units[i] \in from
    BY <1>1, <1>4, <1>5
  <2>3. \A e \in from : e \in X
    BY <2>1
  <2>4. \A e \in X : e \in from
    BY <2>2
  <2> HIDE DEF from, X
  <2> QED
    BY <2>3, <2>4
<1>8. Cardinality(from) = Cardinality(lo..hi)
  <2>1. \A i \in lo..hi : units[i] \in X
    OBVIOUS
  <2>2. \A e \in X : \E i \in lo..hi : units[i] = e
    OBVIOUS
  <2>3. \A i, j \in lo..hi : units[i] = units[j] => i = j
    BY <1>4, <1>6
  <2> HIDE DEF X, from
  <2> QED
    BY <1>4, <1>7, <2>1, <2>2, <2>3, StretchCount
<1>9. Cardinality(chunk.sources) = Cardinality(lo..hi)
  <2> DEFINE place == [i \in lo..hi |-> units[i].source]
             S == chunk.sources
  <2>1. \A i \in lo..hi : place[i] = units[i].source
    OBVIOUS
  <2>2. \A i \in lo..hi : place[i] \in S
    BY <1>5, <2>1
  <2>3. \A t \in S : \E i \in lo..hi : place[i] = t
    BY <1>5, <2>1
  <2>4. \A i, j \in lo..hi : place[i] = place[j] => i = j
    BY <1>4, <1>6, <2>1
  <2>5. lo \in Nat /\ hi \in Nat
    BY <1>4
  <2> HIDE DEF place, S, n
  <2>6. Cardinality(S) = Cardinality(lo..hi)
    BY ONLY <2>2, <2>3, <2>4, <2>5, StretchCount
  <2> QED
    BY <2>6 DEF S
<1>10. lo = hi => Cardinality(lo..hi) = 1
  <2>1. lo = hi => lo..hi = {lo}
    BY <1>4
  <2> QED
    BY <2>1, FS_Singleton
<1>11. IF chunk.oversized
       THEN Cardinality(from) = 1 /\ Len(chunk.text) > Limit(chunk)
       ELSE Len(chunk.text) <= Limit(chunk)
  <2>1. LimitOf(chunk, config) = Limit(chunk)
    BY DEF LimitOf, Limit
  <2>2. IF chunk.oversized THEN lo = hi /\ Len(chunk.text) > LimitOf(chunk, config)
        ELSE Len(chunk.text) <= LimitOf(chunk, config)
    BY <1>3 DEF StandsAt, FitsLimit
  <2> HIDE DEF from
  <2> QED
    BY <1>8, <1>10, <2>1, <2>2
<1>12. ASSUME NEW e \in ToSet(units) \ from, NEW a \in chunk.sources, NEW b \in chunk.sources,
              a < e.source, e.source < b
       PROVE  FALSE
  <2>1. PICK j \in 1..n : e = units[j]
    BY <1>1
  <2>2. PICK p \in lo..hi : a = units[p].source
    BY <1>5
  <2>3. PICK q \in lo..hi : b = units[q].source
    BY <1>5
  <2>4. p < j /\ j < q
    BY <1>4, <1>6, <1>12, <2>1, <2>2, <2>3
  <2>5. j \in lo..hi
    BY <1>4, <2>4
  <2>6. e \in X
    BY <2>1, <2>5
  <2> QED
    BY <1>7, <2>6
<1>13. ToSet(chunk.text) \subseteq UNION {ToSet(Text(e.rows)) : e \in from}
  <2>1. \A w \in ToSet(chunk.text) : \E i \in lo..hi : w \in ToSet(Text(units[i].rows))
    BY <1>5
  <2>2. \A i \in lo..hi : units[i] \in X
    OBVIOUS
  <2> HIDE DEF from, X
  <2> QED
    BY <1>7, <2>1, <2>2
<1>14. chunk.pages = {e.page : e \in from} \ {0}
  <2> DEFINE A == {units[i].page : i \in lo..hi}
             B == {e.page : e \in X}
  <2>1. \A y \in A : y \in B
    OBVIOUS
  <2>2. \A y \in B : y \in A
    OBVIOUS
  <2>3. chunk.pages = A \ {0}
    BY <1>5
  <2> HIDE DEF A, B
  <2>4. A = B
    BY <2>1, <2>2
  <2> QED
    BY <1>7, <2>3, <2>4 DEF B
<1>15. config.section_aware => Cardinality(hints) <= 1 \/ <<>> \in hints
  <2> SUFFICES ASSUME config.section_aware PROVE Cardinality(hints) <= 1 \/ <<>> \in hints
    OBVIOUS
  <2>1. (\E i \in lo..hi : units[i].hint = <<>>) \/ \A i \in lo..hi : units[i].hint = units[lo].hint
    BY <1>3 DEF StandsAt, OneSection
  <2> DEFINE H == {e.hint : e \in X}
             one == units[lo].hint
  <2>2. hints = H
    <3> HIDE DEF X, from
    <3> QED
      BY <1>7
  <2>3. CASE \E i \in lo..hi : units[i].hint = <<>>
    <3>1. PICK i \in lo..hi : units[i].hint = <<>>
      BY <2>3
    <3>2. units[i].hint \in H
      OBVIOUS
    <3> QED
      BY <2>2, <3>1, <3>2
  <2>4. CASE \A i \in lo..hi : units[i].hint = units[lo].hint
    <3>1. \A h \in H : h = one
      BY <2>4
    <3>2. one \in H
      BY <1>4
    <3> HIDE DEF H, one
    <3>3. H = {one}
      BY <3>1, <3>2
    <3>4. Cardinality(H) = 1
      BY <3>3, FS_Singleton
    <3> HIDE DEF hints
    <3>5. Cardinality(hints) <= 1
      BY <2>2, <3>4
    <3> QED
      BY <3>5
  <2> QED
    BY <2>1, <2>3, <2>4
<1> HIDE DEF from
<1>16. Cardinality(from) = Cardinality(chunk.sources)
  BY <1>8, <1>9
<1>17. \A e \in ToSet(units) \ from : ~\E a, b \in chunk.sources : a < e.source /\ e.source < b
  BY <1>12
<1>18. /\ IF chunk.oversized
          THEN Cardinality(from) = 1 /\ Len(chunk.text) > Limit(chunk)
          ELSE Len(chunk.text) <= Limit(chunk)
       /\ chunk.text # <<>> /\ Cardinality(from) = Cardinality(chunk.sources)
       /\ \A e \in ToSet(units) \ from :
            ~\E a, b \in chunk.sources : a < e.source /\ e.source < b
       /\ ToSet(chunk.text) \subseteq UNION {ToSet(Text(e.rows)) : e \in from}
       /\ chunk.pages = {e.page : e \in from} \ {0}
       /\ setup.chunker.section_aware => Cardinality(hints) <= 1 \/ <<>> \in hints
  BY <1>5, <1>11, <1>13, <1>14, <1>15, <1>16, <1>17
<1> HIDE DEF hints
<1> QED
  BY <1>18 DEF SoundChunk, from, hints

-----------------------------------------------------------------------------
(* The invariant of the index report, as far as it cleans.                  *)

(* The scenario is one of them, its library knows every file and the layout *)
(* every path.                                                             *)
CorpusKnown ==
  /\ setup \in Scenarios
  /\ \A p \in DOMAIN disk : disk[p] \in DOMAIN setup.library /\ p \in DOMAIN Layout

(* A document as a scan lists it: of a known type, under an id of two        *)
(* numbers.                                                                *)
Scannable(d) == d.type \in Supported /\ \E r, b \in Nat : d.document_id = <<r, b>>
KnownTypes(documents) == \A d \in ToSet(documents) : Scannable(d)

(* What the report has still to do is known to the loaders, what it holds   *)
(* was parsed by one, and what it cleaned is the outcome of that.            *)
ReportShape ==
  job.command = "index" =>
    /\ job.step = "scan" => KnownTypes(job.documents)
    /\ job.step # "scan" => Sequence(job.todo) /\ KnownTypes(job.todo)
    /\ job.step \in {"clean", "chunk"} =>
         job.todo # <<>> /\ Scannable(job.work.document) /\ job.work.parsed \in ParsedElements
    /\ job.step = "chunk" => job.work.cleaned = Clean(job.work.parsed, setup.cleaner)

CleanInv == WorkInv /\ CorpusKnown /\ ReportShape

LEMMA InitCleanInv == Init => CleanInv
<1> SUFFICES ASSUME Init PROVE CleanInv
  OBVIOUS
<1>1. setup \in Scenarios /\ disk = setup.disk /\ job.command = "none"
  BY IdleIs DEF Init
<1>2. \A p \in DOMAIN disk : disk[p] \in DOMAIN setup.library /\ p \in DOMAIN Layout
  BY <1>1, ScenarioAssumption
<1> QED
  BY <1>1, <1>2, InitWorkInv DEF CleanInv, CorpusKnown, ReportShape

(* What does not touch the tool, the scenario and the files.                *)
LEMMA CorpusStays ==
  ASSUME CleanInv, UNCHANGED <<setup, disk>> PROVE CorpusKnown'
  BY DEF CleanInv, CorpusKnown

LEMMA ReportStays ==
  ASSUME CleanInv, UNCHANGED <<setup, job>> PROVE ReportShape'
  BY DEF CleanInv, ReportShape, KnownTypes, Scannable

(* Edits.                                                                  *)
LEMMA EditsAreKnown ==
  ASSUME CleanInv,
         \/ \E path \in setup.paths, bytes \in setup.contents : Edit(path, bytes)
         \/ \E path \in setup.paths \cap DOMAIN disk : Delete(path)
  PROVE  CorpusKnown' /\ ReportShape'
<1>1. UNCHANGED <<setup, job>>
  BY DEF Edit, Delete
<1>2. /\ setup \in Scenarios
      /\ \A p \in DOMAIN disk : disk[p] \in DOMAIN setup.library /\ p \in DOMAIN Layout
  BY DEF CleanInv, CorpusKnown
<1>3. setup.contents \subseteq DOMAIN setup.library /\ setup.paths \subseteq DOMAIN Layout
  BY <1>2, ScenarioAssumption
<1>4. \A p \in DOMAIN disk' : disk'[p] \in DOMAIN setup.library /\ p \in DOMAIN Layout
  <2>1. CASE \E path \in setup.paths, bytes \in setup.contents : Edit(path, bytes)
    <3>1. PICK path \in setup.paths, bytes \in setup.contents : Edit(path, bytes)
      BY <2>1
    <3>2. disk' = Put(disk, path, bytes)
      BY <3>1 DEF Edit
    <3> QED
      BY <1>2, <1>3, <3>2 DEF Put
  <2>2. CASE \E path \in setup.paths \cap DOMAIN disk : Delete(path)
    <3>1. PICK path : disk' = [p \in DOMAIN disk \ {path} |-> disk[p]]
      BY <2>2 DEF Delete
    <3> QED
      BY <1>2, <3>1
  <2> QED
    BY <2>1, <2>2
<1> QED
  BY <1>1, <1>2, <1>4, ReportStays DEF CorpusKnown

(* Tools that do not index.                                                *)
LEMMA NoReport ==
  ASSUME job'.command # "index" PROVE ReportShape'
  BY DEF ReportShape

LEMMA ScanKeepsReport == CleanInv /\ ScanFile => ReportShape'
<1> SUFFICES ASSUME CleanInv, ScanFile PROVE ReportShape'
  OBVIOUS
<1>1. PICK path : job' = [job EXCEPT !.todo = Tail(@),
                            !.documents = IF Hashable(path)
                                          THEN Append(@, Document(path, disk[path])) ELSE @]
  BY DEF ScanFile
<1>2. job.step = "scan" /\ DOMAIN job = JobFields /\ Sequence(job.documents)
  BY DEF ScanFile, CleanInv, WorkInv, JobShape
<1>3. /\ job'.command = job.command /\ job'.step = "scan"
      /\ job'.documents = IF Hashable(path)
                          THEN Append(job.documents, Document(path, disk[path]))
                          ELSE job.documents
  BY <1>1, <1>2 DEF JobFields
<1>4. CASE job.command = "index"
  <2>1. KnownTypes(job.documents)
    BY <1>2, <1>4 DEF CleanInv, ReportShape
  <2>2. CASE Hashable(path)
    <3>1. Scannable(Document(path, disk[path]))
      <4>1. /\ Layout[path].suffix \in Supported /\ path \in DOMAIN Layout
            /\ setup \in Scenarios /\ disk[path] \in DOMAIN setup.library
        BY <2>2 DEF Hashable, CleanInv, CorpusKnown
      <4>2. Layout[path].rank \in Nat /\ disk[path] \in Nat
        BY <4>1, LayoutAssumption, ScenarioAssumption
      <4> QED
        BY <4>1, <4>2 DEF Document, Scannable
    <3>2. ToSet(job'.documents) = ToSet(job.documents) \cup {Document(path, disk[path])}
      <4>1. job'.documents = Append(job.documents, Document(path, disk[path]))
        BY <1>3, <2>2
      <4> QED
        BY <1>2, <4>1, AppendSet
    <3> QED
      BY <1>3, <2>1, <3>1, <3>2 DEF ReportShape, KnownTypes
  <2>3. CASE ~Hashable(path)
    BY <1>3, <2>1, <2>3 DEF ReportShape
  <2> QED
    BY <2>2, <2>3
<1>5. CASE job.command # "index"
  BY <1>3, <1>5, NoReport
<1> QED
  BY <1>4, <1>5

LEMMA StartKeepsReport == CleanInv /\ StartIndexing => ReportShape'
<1> SUFFICES ASSUME CleanInv, StartIndexing PROVE ReportShape'
  OBVIOUS
<1>1. /\ job.command = "index" /\ job.step = "scan"
      /\ job' = [job EXCEPT !.step = "load", !.todo = job.documents]
  BY DEF StartIndexing, At
<1>2. DOMAIN job = JobFields /\ Sequence(job.documents) /\ KnownTypes(job.documents)
  BY <1>1 DEF CleanInv, WorkInv, JobShape, ReportShape
<1>3. job'.command = "index" /\ job'.step = "load" /\ job'.todo = job.documents
  BY <1>1, <1>2 DEF JobFields
<1> QED
  BY <1>2, <1>3 DEF ReportShape

(* What a loader returns.                                                  *)
LEMMA LoadedIsParsed ==
  ASSUME CorpusKnown, NEW d, d.type \in Supported, ParseNow(d).status = "parsed"
  PROVE  ParseNow(d).elements \in ParsedElements
<1>1. d.path \in DOMAIN disk
  <2> SUFFICES ASSUME d.path \notin DOMAIN disk PROVE FALSE
    OBVIOUS
  <2>1. ParseNow(d) = Failed("DocumentParseError")
    BY DEF ParseNow
  <2> QED
    BY <2>1 DEF Failed
<1>2. ParseNow(d) = ParseDocument(setup.library[disk[d.path]], d.type, Layout[d.path].suffix,
                                  setup.parser)
  BY <1>1 DEF ParseNow
<1>3. Layout[d.path].suffix = d.type
  <2> SUFFICES ASSUME d.type # Layout[d.path].suffix PROVE FALSE
    OBVIOUS
  <2>1. ParseNow(d) = Failed("UnsupportedSourceError")
    BY <1>2 DEF ParseDocument
  <2> QED
    BY <2>1 DEF Failed
<1> QED
  BY <1>1, <1>2, <1>3, ParsingAssumption DEF CorpusKnown

LEMMA LoadKeepsReport == CleanInv /\ LoadFile => ReportShape'
<1> SUFFICES ASSUME CleanInv, LoadFile PROVE ReportShape'
  OBVIOUS
<1> DEFINE d == Head(job.todo)
           work == [document |-> d, bytes |-> BytesNow(d), parsed |-> ParseNow(d).elements]
<1>1. /\ job.command = "index" /\ job.step = "load" /\ job.todo # <<>>
      /\ ParseNow(d).status = "parsed"
      /\ job' = [job EXCEPT !.step = "clean", !.work = work]
  BY DEF LoadFile, At
<1>2. DOMAIN job = JobFields /\ Sequence(job.todo) /\ KnownTypes(job.todo)
  BY <1>1 DEF CleanInv, WorkInv, JobShape, ReportShape
<1>3. work.parsed = ParseNow(d).elements /\ work.document = d
  OBVIOUS
<1> HIDE DEF work
<1>4. /\ job'.command = "index" /\ job'.step = "clean" /\ job'.todo = job.todo
      /\ job'.work = work
  BY <1>1, <1>2 DEF JobFields
<1>5. Scannable(d)
  BY <1>1, <1>2, TailIs DEF KnownTypes
<1>6. work.parsed \in ParsedElements
  BY <1>1, <1>3, <1>5, LoadedIsParsed DEF CleanInv, Scannable
<1>7. Scannable(job'.work.document) /\ KnownTypes(job'.todo)
  BY <1>2, <1>3, <1>4, <1>5
<1> QED
  BY <1>1, <1>2, <1>4, <1>6, <1>7 DEF ReportShape

LEMMA CleanKeepsReport == CleanInv /\ CleanFile => ReportShape'
<1> SUFFICES ASSUME CleanInv, CleanFile PROVE ReportShape'
  OBVIOUS
<1> DEFINE cleaned == Clean(job.work.parsed, setup.cleaner)
           work == [document |-> job.work.document, bytes |-> job.work.bytes,
                    parsed |-> job.work.parsed, cleaned |-> cleaned]
<1>1. /\ job.command = "index" /\ job.step = "clean" /\ setup' = setup
      /\ job' = [job EXCEPT !.step = "chunk", !.work = work]
  BY DEF CleanFile, At
<1>2. /\ DOMAIN job = JobFields /\ Sequence(job.todo) /\ KnownTypes(job.todo)
      /\ job.todo # <<>> /\ Scannable(job.work.document) /\ job.work.parsed \in ParsedElements
  BY <1>1 DEF CleanInv, WorkInv, JobShape, ReportShape
<1> HIDE DEF cleaned
<1>3. /\ work.parsed = job.work.parsed /\ work.cleaned = cleaned
      /\ work.document = job.work.document
  OBVIOUS
<1> HIDE DEF work
<1>4. /\ job'.command = "index" /\ job'.step = "chunk" /\ job'.todo = job.todo
      /\ job'.work = work
  BY <1>1, <1>2 DEF JobFields
<1>5. job'.work.cleaned = Clean(job'.work.parsed, setup'.cleaner)
  BY <1>1, <1>3, <1>4 DEF cleaned
<1> QED
  BY <1>2, <1>3, <1>4, <1>5 DEF ReportShape

LEMMA ChunkKeepsReport == CleanInv /\ ChunkFile => ReportShape'
<1> SUFFICES ASSUME CleanInv, ChunkFile PROVE ReportShape'
  OBVIOUS
<1>1. /\ job.command = "index" /\ job.step = "chunk"
      /\ \E done : job' = [job EXCEPT !.step = "load", !.todo = Tail(@), !.work = <<>>,
                                      !.done = done]
  BY DEF ChunkFile, At
<1>2. DOMAIN job = JobFields /\ Sequence(job.todo) /\ KnownTypes(job.todo) /\ job.todo # <<>>
  BY <1>1 DEF CleanInv, WorkInv, JobShape, ReportShape
<1>3. job'.command = "index" /\ job'.step = "load" /\ job'.todo = Tail(job.todo)
  BY <1>1, <1>2 DEF JobFields
<1>4. Sequence(Tail(job.todo)) /\ ToSet(Tail(job.todo)) \subseteq ToSet(job.todo)
  BY <1>2, TailIs
<1> QED
  BY <1>2, <1>3, <1>4 DEF ReportShape, KnownTypes

(* Every other step of a tool, and every death.                            *)
LEMMA BeginsKeepsReport ==
  ASSUME CleanInv,
         \/ StartScan("scan") \/ StartScan("index") \/ StartValidate \/ StartParse
  PROVE  ReportShape'
<1>1. CASE StartScan("index")
  <2>1. Begin("index", "scan", Listing(DOMAIN disk), <<>>)
    BY <1>1 DEF StartScan
  <2>2. job'.command = "index" /\ job'.step = "scan" /\ job'.documents = <<>>
    BY <2>1, Begins
  <2> QED
    BY <2>2, EmptyIs DEF ReportShape, KnownTypes
<1>2. CASE StartScan("scan") \/ StartValidate \/ StartParse
  <2>1. \E command, step, todo, documents :
          command # "index" /\ Begin(command, step, todo, documents)
    BY <1>2 DEF StartScan, StartValidate, StartParse
  <2>2. job'.command # "index"
    BY <2>1, Begins
  <2> QED
    BY <2>2, NoReport
<1> QED
  BY <1>1, <1>2

LEMMA OthersReportNothing ==
  ASSUME CleanInv,
         \/ ValidateFile \/ Validated \/ ParseFile \/ StartWriting \/ WriteOutput
         \/ WriteManifest \/ ScanFileRaises \/ ScanRaises \/ LoadFileRaises \/ ChunkFileRaises
         \/ ValidateRaises \/ WriteFailures \/ SaveIndex \/ Deaths
  PROVE  job'.command # "index"
<1>1. CASE ValidateFile \/ ParseFile \/ StartWriting \/ WriteOutput
  <2>1. job.command # "index" /\ DOMAIN job = JobFields
    BY <1>1 DEF ValidateFile, ParseFile, StartWriting, WriteOutput, At, CleanInv, WorkInv, JobShape
  <2>2. \E step, todo, done :
          job' = [job EXCEPT !.step = step, !.todo = todo, !.done = done]
    <3>1. CASE ValidateFile
      <4>1. job' = [job EXCEPT !.todo = Tail(@)]
        BY <3>1 DEF ValidateFile
      <4>2. job' = [job EXCEPT !.step = job.step, !.todo = Tail(@), !.done = job.done]
        BY <2>1, <4>1 DEF JobFields
      <4> QED
        BY <4>2
    <3>2. CASE ParseFile
      <4>1. PICK todo, done : job' = [job EXCEPT !.todo = todo, !.done = done]
        BY <3>2 DEF ParseFile
      <4>2. job' = [job EXCEPT !.step = job.step, !.todo = todo, !.done = done]
        BY <2>1, <4>1 DEF JobFields
      <4> QED
        BY <4>2
    <3>3. CASE StartWriting
      <4>1. PICK step, todo : job' = [job EXCEPT !.step = step, !.todo = todo]
        BY <3>3 DEF StartWriting
      <4>2. job' = [job EXCEPT !.step = step, !.todo = todo, !.done = job.done]
        BY <2>1, <4>1 DEF JobFields
      <4> QED
        BY <4>2
    <3>4. CASE WriteOutput
      <4>1. job' = [job EXCEPT !.todo = Tail(@)]
        BY <3>4 DEF WriteOutput
      <4>2. job' = [job EXCEPT !.step = job.step, !.todo = Tail(@), !.done = job.done]
        BY <2>1, <4>1 DEF JobFields
      <4> QED
        BY <4>2
    <3> QED
      BY <1>1, <3>1, <3>2, <3>3, <3>4
  <2>3. job'.command # "index"
    BY <2>1, <2>2 DEF JobFields
  <2> QED
    BY <2>3
<1>2. CASE ~(ValidateFile \/ ParseFile \/ StartWriting \/ WriteOutput)
  <2>1. job' = Idle
    BY <1>2 DEF Validated, WriteManifest, ScanFileRaises, ScanRaises, LoadFileRaises,
      ChunkFileRaises, Raise, ValidateRaises, WriteFailures, SaveIndex, Deaths, Die,
      TearManifest, TearOutput, TearFailures, TearSnapshot, Tears
  <2> QED
    BY <2>1, IdleIs
<1> QED
  BY <1>1, <1>2

LEMMA NextCleanInv == CleanInv /\ [Next]_vars => CleanInv'
<1> SUFFICES ASSUME CleanInv, [Next]_vars PROVE CorpusKnown' /\ ReportShape'
  BY NextWorkInv DEF CleanInv
<1>1. CASE \/ \E path \in setup.paths, bytes \in setup.contents : Edit(path, bytes)
           \/ \E path \in setup.paths \cap DOMAIN disk : Delete(path)
  BY <1>1, EditsAreKnown
<1>2. CASE \/ EditManifest \/ EditSnapshot \/ Refuse \/ QueryRaises
           \/ \E q \in DOMAIN setup.queries : Query(q)
           \/ UNCHANGED vars
  <2>1. UNCHANGED <<setup, disk, job>>
    BY <1>2 DEF EditManifest, EditSnapshot, Refuse, QueryRaises, Query, vars
  <2> QED
    BY <2>1, CorpusStays, ReportStays
<1>3. CASE Tools /\ ~(\E q \in DOMAIN setup.queries : Query(q)) /\ ~QueryRaises /\ ~Refuse
  <2>1. UNCHANGED <<setup, disk>>
    BY <1>3 DEF Tools, StartScan, ScanFile, ScanFileRaises, ScanRaises, WriteManifest,
      StartValidate, ValidateFile, ValidateRaises, Validated, StartParse, ParseFile,
      StartWriting, WriteOutput, WriteFailures, StartIndexing, LoadFile, LoadFileRaises,
      CleanFile, ChunkFile, ChunkFileRaises, SaveIndex, Raise
  <2>2. ReportShape'
    BY <1>3, ScanKeepsReport, StartKeepsReport, LoadKeepsReport, CleanKeepsReport,
       ChunkKeepsReport, BeginsKeepsReport, OthersReportNothing, NoReport DEF Tools
  <2> QED
    BY <2>1, <2>2, CorpusStays
<1>4. CASE Deaths
  <2>1. UNCHANGED <<setup, disk>>
    BY <1>4 DEF Deaths, Die, TearManifest, TearOutput, TearFailures, TearSnapshot, Tears
  <2> QED
    BY <1>4, <2>1, CorpusStays, OthersReportNothing, NoReport
<1> QED
  BY <1>1, <1>2, <1>3, <1>4 DEF Next, Edits

(* clean_parsed_document, for every document that a loader can return: every *)
(* element is kept once, in order, or removed once with evidence that is    *)
(* true of the document, and the counts say so.                             *)
THEOREM RemovalsAreJustified == Spec => []RemovalsJustified
<1>1. CleanInv => RemovalsJustified
  <2> SUFFICES ASSUME CleanInv, At("index", "chunk") PROVE RemovalsJustified
    BY DEF RemovalsJustified
  <2>1. /\ job.work.parsed \in ParsedElements
        /\ job.work.cleaned = Clean(job.work.parsed, setup.cleaner)
    BY DEF At, CleanInv, ReportShape
  <2> DEFINE cleaned == job.work.cleaned
  <2>2. \E sources \in {[k \in DOMAIN cleaned.elements |-> cleaned.elements[k].source]} :
            /\ \E prepared \in {Prepared(job.work.parsed)} :
                 \A e \in cleaned.removals : Justified(prepared, ToSet(sources), e)
            /\ \A k, l \in DOMAIN sources : k < l => sources[k] < sources[l]
            /\ ToSet(sources) = DOMAIN job.work.parsed \ Elements(cleaned.removals)
            /\ cleaned.stats.elements_in - cleaned.stats.elements_out
                 = Cardinality(cleaned.removals)
    BY <2>1, CleaningIsJustified
  <2> QED
    BY <2>2 DEF RemovalsJustified
<1> QED
  BY <1>1, InitCleanInv, NextCleanInv, PTL DEF Spec

-----------------------------------------------------------------------------
(* The invariant of the index report, as far as it chunks.                  *)

(* What the report holds of a document: the chunks of its cleaned elements. *)
IsReported(r) ==
  /\ Scannable(r.document)
  /\ Clear(r.cleaned.elements, Seq(STRING)) /\ Ascending(r.cleaned.elements)
  /\ ChunkDocument(r.cleaned.elements, r.document.domain, setup.chunker).status = "chunked"
  /\ r.chunks = ChunkDocument(r.cleaned.elements, r.document.domain, setup.chunker).chunks

Reported ==
  job.command = "index" => Sequence(job.done) /\ \A r \in ToSet(job.done) : IsReported(r)

ReportInv == CleanInv /\ Reported

(* A document chunked is one more in the report.                           *)
LEMMA ChunkKeepsReported == ReportInv /\ ChunkFile => Reported'
<1> SUFFICES ASSUME ReportInv, ChunkFile PROVE Reported'
  OBVIOUS
<1> DEFINE outcome == ChunkDocument(job.work.cleaned.elements, job.work.document.domain, setup.chunker)
           r == [document |-> job.work.document, bytes |-> job.work.bytes,
                 parsed |-> job.work.parsed, cleaned |-> job.work.cleaned,
                 chunks |-> outcome.chunks]
<1>1. /\ job.command = "index" /\ job.step = "chunk" /\ setup' = setup
      /\ outcome.status = "chunked"
      /\ job' = [job EXCEPT !.step = "load", !.todo = Tail(@), !.work = <<>>,
                            !.done = Append(@, r)]
  BY DEF ChunkFile, At, Chunked
<1>2. DOMAIN job = JobFields /\ Sequence(job.done) /\ \A d \in ToSet(job.done) : IsReported(d)
  BY <1>1 DEF ReportInv, Reported, CleanInv, WorkInv, JobShape
<1>3. /\ job.work.parsed \in ParsedElements /\ Scannable(job.work.document)
      /\ job.work.cleaned = Clean(job.work.parsed, setup.cleaner)
  BY <1>1 DEF ReportInv, CleanInv, ReportShape
<1>4. Clear(job.work.cleaned.elements, Seq(STRING)) /\ Ascending(job.work.cleaned.elements)
  BY <1>3, CleanIsClear, CleanAscends
<1>5. /\ r.cleaned = job.work.cleaned /\ r.document = job.work.document
      /\ r.chunks = outcome.chunks
  OBVIOUS
<1> HIDE DEF outcome, r
<1>6. IsReported(r)
  BY <1>1, <1>3, <1>4, <1>5 DEF IsReported, outcome
<1>7. job'.command = "index" /\ job'.done = Append(job.done, r)
  BY <1>1, <1>2 DEF JobFields
<1>8. Sequence(job'.done) /\ ToSet(job'.done) = ToSet(job.done) \cup {r}
  BY <1>2, <1>7, AppendIs, AppendSet
<1>9. \A d \in ToSet(job'.done) : IsReported(d)
  BY <1>2, <1>6, <1>8
<1>10. \A d : IsReported(d) => IsReported(d)'
  BY <1>1 DEF IsReported
<1> QED
  BY <1>7, <1>8, <1>9, <1>10 DEF Reported

(* Every other step keeps what the report holds, or ends it.                *)
LEMMA ReportRests ==
  ASSUME CleanInv, [Next]_vars, ~ChunkFile
  PROVE  /\ setup' = setup
         /\ \/ job'.command # "index"
            \/ job'.done = <<>>
            \/ job'.command = job.command /\ job'.done = job.done
<1> DEFINE Same == job'.command = job.command /\ job'.done = job.done
<1>1. CASE \/ \E path \in setup.paths, bytes \in setup.contents : Edit(path, bytes)
           \/ \E path \in setup.paths \cap DOMAIN disk : Delete(path)
           \/ EditManifest \/ EditSnapshot \/ Refuse \/ QueryRaises
           \/ \E q \in DOMAIN setup.queries : Query(q)
           \/ UNCHANGED vars
  <2>1. UNCHANGED <<setup, job>>
    BY <1>1 DEF Edit, Delete, EditManifest, EditSnapshot, Refuse, QueryRaises, Query, vars
  <2> QED
    BY <2>1
<1>2. CASE StartScan("scan") \/ StartScan("index") \/ StartValidate \/ StartParse
  <2>1. setup' = setup
    BY <1>2 DEF StartScan, StartValidate, StartParse
  <2>2. \E command, step, todo, documents : Begin(command, step, todo, documents)
    BY <1>2 DEF StartScan, StartValidate, StartParse
  <2>3. job'.done = <<>>
    BY <2>2, Begins
  <2> QED
    BY <2>1, <2>3
<1>3. CASE ScanFile \/ StartIndexing \/ LoadFile \/ CleanFile
  <2>1. setup' = setup /\ DOMAIN job = JobFields
    BY <1>3 DEF ScanFile, StartIndexing, LoadFile, CleanFile, CleanInv, WorkInv, JobShape
  <2>2. CASE ScanFile
    <3>1. \E todo, documents : job' = [job EXCEPT !.todo = todo, !.documents = documents]
      BY <2>2 DEF ScanFile
    <3> QED
      BY <2>1, <3>1 DEF JobFields
  <2>3. CASE StartIndexing
    BY <2>1, <2>3 DEF StartIndexing, JobFields
  <2>4. CASE LoadFile \/ CleanFile
    <3>1. \E step, work : job' = [job EXCEPT !.step = step, !.work = work]
      BY <2>4 DEF LoadFile, CleanFile
    <3> QED
      BY <2>1, <3>1 DEF JobFields
  <2> QED
    BY <1>3, <2>1, <2>2, <2>3, <2>4
<1>4. CASE \/ ValidateFile \/ Validated \/ ParseFile \/ StartWriting \/ WriteOutput
           \/ WriteManifest \/ ScanFileRaises \/ ScanRaises \/ LoadFileRaises \/ ChunkFileRaises
           \/ ValidateRaises \/ WriteFailures \/ SaveIndex \/ Deaths
  <2>1. setup' = setup
    BY <1>4 DEF ValidateFile, Validated, ParseFile, StartWriting, WriteOutput, WriteManifest,
      ScanFileRaises, ScanRaises, LoadFileRaises, ChunkFileRaises, ValidateRaises, WriteFailures,
      SaveIndex, Raise, Deaths, Die, TearManifest, TearOutput, TearFailures, TearSnapshot, Tears
  <2>2. job'.command # "index"
    BY <1>4, OthersReportNothing
  <2> QED
    BY <2>1, <2>2
<1> QED
  BY <1>1, <1>2, <1>3, <1>4 DEF Next, Edits, Tools

(* The invariant holds at the start, when nothing is reported.              *)
LEMMA InitReportInv == Init => ReportInv
<1> SUFFICES ASSUME Init PROVE ReportInv
  OBVIOUS
<1>1. job.command = "none"
  BY IdleIs DEF Init
<1> QED
  BY <1>1, InitCleanInv DEF ReportInv, Reported

(* The invariant of the report is inductive.                               *)
LEMMA NextReportInv == ReportInv /\ [Next]_vars => ReportInv'
<1> SUFFICES ASSUME ReportInv, [Next]_vars PROVE Reported'
  BY NextCleanInv DEF ReportInv
<1>1. CASE ChunkFile
  BY <1>1, ChunkKeepsReported
<1>2. CASE ~ChunkFile
  <2>1. setup' = setup /\ (\/ job'.command # "index"
                           \/ job'.done = <<>>
                           \/ job'.command = job.command /\ job'.done = job.done)
    BY <1>2, ReportRests DEF ReportInv
  <2>2. \A d : IsReported(d) => IsReported(d)'
    BY <2>1 DEF IsReported
  <2>3. CASE job'.done = <<>>
    BY <2>3, EmptyIs DEF Reported
  <2>4. CASE job'.command # "index"
    BY <2>4 DEF Reported
  <2>5. CASE job'.command = job.command /\ job'.done = job.done
    BY <2>2, <2>5 DEF Reported, ReportInv
  <2> QED
    BY <2>1, <2>3, <2>4, <2>5
<1> QED
  BY <1>1, <1>2

(* ChunkingEngine, for every document that a loader can return and every    *)
(* accepted configuration: what the chunks hold beyond overlaps and         *)
(* repeated headers is the cleaned document word for word, without the      *)
(* header of a table that was cut with repeat_table_header off.             *)
THEOREM OnlyHeadersAreLost == Spec => []NothingIsLost
<1>1. Init => ReportInv
  BY InitReportInv
<1>2. ReportInv => NothingIsLost
  <2> SUFFICES ASSUME ReportInv, NEW r \in ToSet(job.done), job.command = "index"
               PROVE  LET units == Units(r.cleaned.elements)
                      IN  FlattenSeq([k \in DOMAIN r.chunks |-> Own(r, r.chunks[k])])
                            = FlattenSeq([u \in DOMAIN units |-> Owed(r, units[u])])
    BY DEF NothingIsLost
  <2> DEFINE config == setup.chunker
             W == Seq(STRING)
             domain == r.document.domain
  <2>1. Bounded(config)
    BY ChunkerAssumption DEF ReportInv, CleanInv, CorpusKnown, Bounded
  <2>2. /\ Clear(r.cleaned.elements, W)
        /\ ChunkDocument(r.cleaned.elements, domain, config).status = "chunked"
        /\ r.chunks = ChunkDocument(r.cleaned.elements, domain, config).chunks
    BY DEF ReportInv, Reported, IsReported
  <2>3. config = setup.chunker
    OBVIOUS
  <2> HIDE DEF config, W, domain
  <2>4. LET units == Units(r.cleaned.elements)
        IN  FlattenSeq(OwnIn(r, r.chunks)) = FlattenSeq([u \in DOMAIN units |-> Owed(r, units[u])])
    BY <2>1, <2>2, <2>3, DocumentTells
  <2> QED
    BY <2>4 DEF OwnIn
<1> QED
  BY <1>1, <1>2, NextReportInv, PTL DEF Spec

(* ChunkingEngine, for every document that a loader can return and every    *)
(* accepted configuration: a chunk is as long as it may be, or one atom     *)
(* that says it is longer; its sources are neighbours in the cleaned        *)
(* document, its words and pages are theirs, and with section_aware two     *)
(* sections meet in it only where an element without one stands with them.  *)
THEOREM ChunksStandOnNeighbours == Spec => []ChunksAreSound
<1>1. Init => ReportInv
  BY InitReportInv
<1>2. ReportInv => ChunksAreSound
  <2> SUFFICES ASSUME ReportInv, NEW r \in ToSet(job.done), job.command = "index",
                      NEW chunk \in ToSet(r.chunks)
               PROVE  SoundChunk(ToSet(Units(r.cleaned.elements)), chunk)
    BY DEF ChunksAreSound
  <2> DEFINE config == setup.chunker
             els == r.cleaned.elements
             W == Seq(STRING)
             domain == r.document.domain
  <2>1. Bounded(config) /\ config.max_tokens \in Nat
    BY ChunkerAssumption DEF ReportInv, CleanInv, CorpusKnown, Bounded
  <2>2. /\ Clear(els, W) /\ Ascending(els)
        /\ ChunkDocument(els, domain, config).status = "chunked"
        /\ r.chunks = ChunkDocument(els, domain, config).chunks
    BY DEF ReportInv, Reported, IsReported
  <2> HIDE DEF W, domain
  <2>3. StandsIn(Units(els), chunk, config)
    BY <2>1, <2>2, DocumentStands
  <2>4. Ascending(Units(els)) /\ Sequence(Units(els))
    BY <2>2, UnitsAscend DEF Clear
  <2> DEFINE units == Units(els)
  <2>5. Ascending(units) /\ Sequence(units) /\ StandsIn(units, chunk, setup.chunker)
    BY <2>3, <2>4
  <2> HIDE DEF units
  <2>6. SoundChunk(ToSet(units), chunk)
    BY <2>5, StandingIsSound
  <2> QED
    BY <2>6 DEF units
<1> QED
  BY <1>1, <1>2, NextReportInv, PTL DEF Spec

-----------------------------------------------------------------------------
(* The invariant of the evidence.                                          *)

(* The fields of a process.                                                *)
RunFields == {"step", "n", "dataset", "examples", "config", "due", "observations",
              "resumed", "failed", "records", "attempt", "done", "pending"}

(* How many configurations have their run file, and how many their event   *)
(* in the log.                                                             *)
Saved == IF run.step = "observe" THEN run.config - 1
         ELSE IF run.step = "track" THEN run.config ELSE Len(plan.matrix)
Logged == IF run.step = "report" THEN Len(plan.matrix) ELSE run.config - 1

(* The process and the counters of runs.                                   *)
RunShape ==
  /\ DOMAIN run = RunFields
  /\ run.step \in {"observe", "track", "report"}
  /\ run.config \in 1..Len(plan.matrix)
  /\ run.n = started /\ started >= 1 /\ finished = 0
  /\ run.step # "report" => run.pending = Formats
  /\ run.step = "track" => ~run.failed

(* What the process has in memory of a configuration is in its run file.   *)
RunFiles ==
  /\ Sequence(run.done) /\ Len(run.done) = Saved
  /\ \A i \in 1..Saved :
       /\ run.done[i].n = run.n /\ run.done[i].dataset = run.dataset
       /\ plan.matrix[i].id \in DOMAIN runs
       /\ runs[plan.matrix[i].id] = Whole(run.done[i])

(* The log has every configuration the process is past and no other of     *)
(* this run; only the first can stand behind a torn line.                  *)
RunLog ==
  /\ \A i \in 1..Logged : \E k \in DOMAIN log :
       /\ IsWhole(log[k]) /\ log[k][2].n = run.n /\ log[k][2].config = plan.matrix[i].id
       /\ k > 1 /\ ~IsWhole(log[k - 1]) => i = 1
  /\ Logged >= 1 => log # <<>> /\ IsWhole(log[Len(log)])
  /\ \A k \in DOMAIN log : IsWhole(log[k]) /\ log[k][2].n = run.n =>
       \E i \in 1..Logged : log[k][2].config = plan.matrix[i].id

(* As long as no write has failed, the reports written are of this run.    *)
RunReports ==
  run.step = "report" /\ ~run.failed =>
    \A f \in Formats \ run.pending : reports[f] = Whole(Report)

(* An event is about the run file of its configuration, or about one that  *)
(* a later run replaced.                                                   *)
LogIsTrue ==
  /\ Sequence(log)
  /\ \A k \in DOMAIN log : IsWhole(log[k]) \/ log[k] = Torn
  /\ \A k \in DOMAIN log : IsWhole(log[k]) =>
       /\ log[k][2].n \in Nat /\ log[k][2].n <= started
       /\ log[k][2].config \in DOMAIN runs
       /\ runs[log[k][2].config][2].n >= log[k][2].n
       /\ runs[log[k][2].config][2].n = log[k][2].n =>
            log[k][2].metrics = runs[log[k][2].config][2].slices

(* No file is of a later run than the last one started, and no report is   *)
(* older than the summary.                                                 *)
FilesAreDated ==
  /\ \A c \in DOMAIN runs : runs[c][2].n \in Nat /\ runs[c][2].n <= started
  /\ DOMAIN reports = Formats
  /\ \A f \in Formats : IsWhole(reports[f]) => reports[f][2].n \in Nat
  /\ IsWhole(summary) =>
       /\ summary[2].n \in Nat /\ summary[2].n <= started
       /\ \A f \in Formats : IsWhole(reports[f]) => reports[f][2].n >= summary[2].n

(* The inductive invariant.                                                *)
IInv ==
  /\ IsMatrix(plan.matrix)
  /\ started \in Nat
  /\ run = Resting \/ (RunShape /\ RunFiles /\ RunLog /\ RunReports)
  /\ LogIsTrue
  /\ FilesAreDated
  /\ finished # 0 => /\ run = Resting /\ IsWhole(reports["json"])
                     /\ Complete(finished, reports["json"][2])

-----------------------------------------------------------------------------
(* Steps that leave the directory alone.                                   *)

(* EvaluationMatrix.validate_matrix, by place.                             *)
LEMMA MatrixIs ==
  ASSUME IsMatrix(plan.matrix)
  PROVE  /\ Len(plan.matrix) \in Nat /\ Len(plan.matrix) >= 1
         /\ DOMAIN plan.matrix = 1..Len(plan.matrix)
         /\ \A i, j \in 1..Len(plan.matrix) : plan.matrix[i].id = plan.matrix[j].id => i = j
         /\ ToSet(plan.matrix) = {plan.matrix[i] : i \in 1..Len(plan.matrix)}
<1>1. plan.matrix \in Seq(ToSet(plan.matrix)) /\ plan.matrix # <<>>
  BY DEF IsMatrix
<1>2. Len(plan.matrix) \in Nat /\ DOMAIN plan.matrix = 1..Len(plan.matrix)
      /\ Len(plan.matrix) # 0
  BY <1>1, LenProperties, EmptySeq
<1>3. \A i, j \in DOMAIN plan.matrix : plan.matrix[i].id = plan.matrix[j].id => i = j
  BY DEF IsMatrix
<1>4. ToSet(plan.matrix) = {plan.matrix[i] : i \in DOMAIN plan.matrix}
  BY DEF ToSet
<1> DEFINE m == plan.matrix
<1>5. Len(m) >= 1
  BY <1>2
<1>6. {m[i] : i \in DOMAIN m} = {m[i] : i \in 1..Len(m)}
  BY <1>2
<1> QED
  BY <1>2, <1>3, <1>4, <1>5, <1>6

(* What is about files only is kept with the files.                        *)
LEMMA Untouched ==
  ASSUME UNCHANGED <<plan, runs, log, reports, summary, started, finished>>
  PROVE  /\ LogIsTrue => LogIsTrue'
         /\ FilesAreDated => FilesAreDated'
         /\ Complete(finished, reports["json"][2]) => Complete(finished, reports["json"][2])'
<1>1. ReadableEvents' = ReadableEvents
  BY DEF ReadableEvents
<1>2. Complete(finished, reports["json"][2]) => Complete(finished, reports["json"][2])'
  BY <1>1 DEF Complete, Unlogged
<1> QED
  BY <1>2 DEF LogIsTrue, FilesAreDated

(* What becomes of the examples of a configuration.                         *)
LEMMA Observes ==
  ASSUME IInv, run.step = "observe", DOMAIN run' = RunFields,
         run'.step = "observe", run'.n = run.n, run'.dataset = run.dataset,
         run'.config = run.config, run'.done = run.done, run'.pending = run.pending,
         UNCHANGED <<plan, runs, log, reports, summary, started, finished>>
  PROVE  IInv'
<1>1. RunShape /\ RunFiles /\ RunLog /\ RunReports
  BY DEF IInv, Resting
<1>2. RunShape'
  BY <1>1 DEF RunShape
<1>3. RunFiles'
  BY <1>1 DEF RunFiles, Saved
<1>4. RunLog'
  BY <1>1 DEF RunLog, Logged
<1>5. RunReports'
  BY DEF RunReports
<1>6. finished' = 0
  BY <1>1 DEF RunShape
<1> QED
  BY <1>2, <1>3, <1>4, <1>5, <1>6, Untouched DEF IInv

(* A process that ends leaves its files behind.                             *)
LEMMA Ends ==
  ASSUME IInv, run # Resting, run' = Resting,
         UNCHANGED <<plan, runs, log, reports, summary, started, finished>>
  PROVE  IInv'
  BY Untouched DEF IInv, RunShape

(* A step that leaves the process and the files alone.                     *)
LEMMA Rests ==
  ASSUME IInv,
         UNCHANGED <<plan, run, runs, log, reports, summary, started, finished>>
  PROVE  IInv'
<1>1. CASE run = Resting
  BY <1>1, Untouched DEF IInv
<1>2. CASE RunShape /\ RunFiles /\ RunLog /\ RunReports
  <2>1. RunShape'
    BY <1>2 DEF RunShape
  <2>2. RunFiles'
    BY <1>2 DEF RunFiles, Saved
  <2>3. RunLog'
    BY <1>2 DEF RunLog, Logged
  <2>4. RunReports'
    BY <1>2 DEF RunReports, Report
  <2>5. finished' = 0
    BY <1>2 DEF RunShape
  <2> QED
    BY <2>1, <2>2, <2>3, <2>4, <2>5, Untouched DEF IInv
<1> QED
  BY <1>1, <1>2 DEF IInv

-----------------------------------------------------------------------------
(* A run begins and saves a configuration.                                 *)

(* A run that begins has nothing in the directory yet.                     *)
LEMMA StartIInv == IInv /\ Start => IInv'
<1> SUFFICES ASSUME IInv, Start PROVE IInv'
  OBVIOUS
<1>1. /\ run' = NewRun(started + 1, ById(Records))
      /\ started' = started + 1 /\ finished' = 0
      /\ UNCHANGED <<plan, runs, log, reports, summary>>
  BY DEF Start, directory
<1>2. started \in Nat /\ started' \in Nat /\ started' >= 1
  BY <1>1 DEF IInv
<1>3. /\ DOMAIN run' = RunFields /\ run'.step = "observe" /\ run'.n = started'
      /\ run'.config = 1 /\ run'.done = <<>> /\ run'.pending = Formats
  BY <1>1 DEF NewRun, RunFields
<1>4. RunShape'
  BY <1>1, <1>2, <1>3, MatrixIs DEF RunShape, IInv
<1>5. RunFiles'
  BY <1>3, EmptyIs DEF RunFiles, Saved
<1>6. RunLog'
  <2>1. Logged' = 0
    BY <1>3 DEF Logged
  <2>2. \A k \in DOMAIN log : IsWhole(log[k]) => log[k][2].n # started'
    BY <1>1, <1>2 DEF IInv, LogIsTrue
  <2> QED
    BY <1>1, <1>3, <2>1, <2>2 DEF RunLog
<1>7. RunReports'
  BY <1>3 DEF RunReports
<1>8. LogIsTrue' /\ FilesAreDated'
  BY <1>1, <1>2 DEF IInv, LogIsTrue, FilesAreDated
<1> QED
  BY <1>1, <1>2, <1>4, <1>5, <1>6, <1>7, <1>8 DEF IInv

(* A run file replaces the one of an earlier run, about which the log may  *)
(* still speak; of this run the log has no event for it yet.               *)
LEMMA SaveRunIInv == IInv /\ SaveRun => IInv'
<1> SUFFICES ASSUME IInv, SaveRun PROVE IInv'
  OBVIOUS
<1>1. /\ run.step = "observe" /\ ~run.failed
      /\ RunShape /\ RunFiles /\ RunLog /\ RunReports
  BY DEF SaveRun, IInv, Resting
<1>2. PICK c \in {ConfigurationRun} :
        /\ run' = [run EXCEPT !.step = "track", !.done = Append(@, c)]
        /\ runs' = Put(runs, Config.id, Whole(c))
  BY DEF SaveRun
<1>3. c.n = run.n /\ c.dataset = run.dataset
  BY <1>2 DEF ConfigurationRun
<1>4. UNCHANGED <<plan, log, reports, summary, started, finished>>
  BY DEF SaveRun, milestones
<1>5. /\ DOMAIN run' = RunFields /\ run'.step = "track" /\ run'.n = run.n
      /\ run'.dataset = run.dataset /\ run'.config = run.config
      /\ run'.failed = run.failed /\ run'.pending = run.pending
      /\ run'.done = Append(run.done, c)
  BY <1>1, <1>2 DEF RunShape, RunFields
<1> DEFINE M == plan.matrix
           k == run.config
<1>6. /\ k \in 1..Len(M) /\ Len(M) \in Nat /\ Config = M[k] /\ run.n = started
      /\ started \in Nat
      /\ \A i, j \in 1..Len(M) : M[i].id = M[j].id => i = j
  BY <1>1, MatrixIs DEF RunShape, IInv, Config
<1>7. Saved = k - 1 /\ Saved' = k /\ Logged = k - 1 /\ Logged' = k - 1
  BY <1>1, <1>4, <1>5 DEF Saved, Logged
<1>8. /\ DOMAIN runs' = DOMAIN runs \cup {M[k].id}
      /\ runs'[M[k].id] = Whole(c)
      /\ \A m \in DOMAIN runs : m # M[k].id => runs'[m] = runs[m]
  <2>1. runs' = Put(runs, M[k].id, Whole(c))
    BY <1>2, <1>6
  <2> DEFINE id == M[k].id
           file == Whole(c)
  <2>2. runs' = [m \in DOMAIN runs \cup {id} |-> IF m = id THEN file ELSE runs[m]]
    BY <2>1 DEF Put
  <2> HIDE DEF id, file
  <2>3. /\ DOMAIN runs' = DOMAIN runs \cup {id} /\ runs'[id] = file
        /\ \A m \in DOMAIN runs : m # id => runs'[m] = runs[m]
    BY <2>2
  <2> QED
    BY <2>3 DEF id, file
<1> HIDE DEF M, k
<1>9. RunShape'
  BY <1>1, <1>4, <1>5 DEF RunShape
<1>10. RunFiles'
  <2>1. /\ Sequence(run.done) /\ Len(run.done) = k - 1
    BY <1>1, <1>7 DEF RunFiles
  <2>2. /\ Sequence(run'.done) /\ Len(run'.done) = k
        /\ \A i \in 1..(k - 1) : run'.done[i] = run.done[i]
        /\ run'.done[k] = c
    BY <1>5, <1>6, <2>1, AppendIs
  <2>3. ASSUME NEW i \in 1..k
        PROVE  /\ run'.done[i].n = run'.n /\ run'.done[i].dataset = run'.dataset
               /\ M[i].id \in DOMAIN runs'
               /\ runs'[M[i].id] = Whole(run'.done[i])
    <3>1. CASE i = k
      BY <1>3, <1>5, <1>8, <2>2, <3>1
    <3>2. CASE i # k
      <4>1. i \in 1..(k - 1) /\ i \in 1..Len(M) /\ M[i].id # M[k].id
        BY <1>6, <3>2
      <4>2. /\ run.done[i].n = run.n /\ run.done[i].dataset = run.dataset
            /\ M[i].id \in DOMAIN runs /\ runs[M[i].id] = Whole(run.done[i])
        BY <1>1, <1>7, <4>1 DEF RunFiles, M
      <4> QED
        BY <1>5, <1>8, <2>2, <4>1, <4>2
    <3> QED
      BY <3>1, <3>2
  <2> QED
    BY <1>4, <1>7, <2>2, <2>3 DEF RunFiles, M
<1>11. RunLog'
  BY <1>1, <1>4, <1>5, <1>7 DEF RunLog
<1>12. RunReports'
  BY <1>5 DEF RunReports
<1>13. LogIsTrue'
  <2>1. ASSUME NEW e \in DOMAIN log, IsWhole(log[e])
        PROVE  /\ log[e][2].n \in Nat /\ log[e][2].n <= started
               /\ log[e][2].config \in DOMAIN runs'
               /\ runs'[log[e][2].config][2].n >= log[e][2].n
               /\ runs'[log[e][2].config][2].n = log[e][2].n =>
                    log[e][2].metrics = runs'[log[e][2].config][2].slices
    <3>1. /\ log[e][2].n \in Nat /\ log[e][2].n <= started
          /\ log[e][2].config \in DOMAIN runs
          /\ runs[log[e][2].config][2].n >= log[e][2].n
          /\ runs[log[e][2].config][2].n = log[e][2].n =>
               log[e][2].metrics = runs[log[e][2].config][2].slices
      BY <2>1 DEF IInv, LogIsTrue
    <3>2. CASE log[e][2].config # M[k].id
      BY <1>8, <3>1, <3>2
    <3>3. CASE log[e][2].config = M[k].id
      <4>1. log[e][2].n # run.n
        <5> SUFFICES ASSUME log[e][2].n = run.n PROVE FALSE
          OBVIOUS
        <5>1. PICK i \in 1..Logged : log[e][2].config = M[i].id
          BY <1>1, <2>1 DEF RunLog, M
        <5>2. i \in 1..Len(M) /\ i # k
          BY <1>6, <1>7, <5>1
        <5> QED
          BY <1>6, <3>3, <5>1, <5>2
      <4>2. runs'[log[e][2].config][2].n = started
        BY <1>3, <1>6, <1>8, <3>3, WholeIs
      <4> QED
        BY <1>6, <1>8, <3>1, <4>1, <4>2
    <3> QED
      BY <3>2, <3>3
  <2>2. Sequence(log) /\ \A i \in DOMAIN log : IsWhole(log[i]) \/ log[i] = Torn
    BY DEF IInv, LogIsTrue
  <2> QED
    BY <1>4, <2>1, <2>2 DEF LogIsTrue
<1>14. FilesAreDated'
  <2>1. \A m \in DOMAIN runs' : runs'[m][2].n \in Nat /\ runs'[m][2].n <= started
    BY <1>3, <1>6, <1>8, WholeIs DEF IInv, FilesAreDated
  <2> QED
    BY <1>4, <2>1 DEF IInv, FilesAreDated
<1>15. finished' = 0
  BY <1>1, <1>4 DEF RunShape
<1> QED
  BY <1>4, <1>9, <1>10, <1>11, <1>12, <1>13, <1>14, <1>15 DEF IInv

-----------------------------------------------------------------------------
(* A configuration is logged.                                              *)

(* An event is appended: it is about the run file saved last, and it       *)
(* follows a whole line unless it is the first.                            *)
LEMMA TrackIInv == IInv /\ Track => IInv'
<1> SUFFICES ASSUME IInv, Track PROVE IInv'
  OBVIOUS
<1> DEFINE M == plan.matrix
           k == run.config
           new == [n |-> run.n, config |-> Config.id, metrics |-> Last(run.done).slices]
           entry == Whole(new)
<1>1. /\ run.step = "track" /\ ~run.failed
      /\ RunShape /\ RunFiles /\ RunLog /\ RunReports
      /\ Sequence(log) /\ started \in Nat
  BY DEF Track, IInv, RunShape, Resting, LogIsTrue
<1>2. /\ log' = Append(log, entry)
      /\ UNCHANGED <<plan, runs, reports, summary, started, finished>>
  BY DEF Track, milestones, Event
<1>3. IsWhole(entry) /\ entry[2] = new
  BY WholeIs
<1>4. /\ k \in 1..Len(M) /\ Len(M) \in Nat /\ Config = M[k] /\ run.n = started
      /\ \A i, j \in 1..Len(M) : M[i].id = M[j].id => i = j
  BY <1>1, MatrixIs DEF RunShape, IInv, Config
<1>5. /\ Saved = k /\ Logged = k - 1
      /\ Sequence(run.done) /\ Len(run.done) = k
      /\ run.done[k].n = run.n
      /\ M[k].id \in DOMAIN runs /\ runs[M[k].id] = Whole(run.done[k])
  BY <1>1, <1>4 DEF Saved, Logged, RunFiles
<1>6. /\ new.n = run.n /\ new.config = M[k].id /\ new.metrics = run.done[k].slices
  BY <1>4, <1>5 DEF Last
<1> HIDE DEF M, k, new, entry
<1>7. /\ DOMAIN run' = RunFields /\ run'.n = run.n /\ run'.dataset = run.dataset
      /\ run'.done = run.done /\ run'.pending = run.pending
      /\ \/ run'.step = "observe" /\ run'.config = k + 1 /\ k + 1 \in 1..Len(M)
         \/ run'.step = "report" /\ run'.config = k /\ k = Len(M)
  <2>1. CASE k < Len(M)
    <3>1. run' = Configure(run, k + 1)
      BY <2>1 DEF Track, k, M
    <3> QED
      BY <1>1, <1>4, <2>1, <3>1 DEF Configure, RunShape, RunFields
  <2>2. CASE ~(k < Len(M))
    <3>1. run' = [run EXCEPT !.step = "report"]
      BY <2>2 DEF Track, k, M
    <3>2. k = Len(M)
      BY <1>4, <2>2
    <3> QED
      BY <1>1, <3>1, <3>2 DEF RunShape, RunFields, k
  <2> QED
    BY <2>1, <2>2
<1>8. Saved' = k /\ Logged' = k
  BY <1>2, <1>4, <1>7 DEF Saved, Logged, M
<1>9. RunShape'
  BY <1>1, <1>2, <1>7 DEF RunShape, k, M
<1>10. RunFiles'
  BY <1>1, <1>2, <1>5, <1>7, <1>8 DEF RunFiles
<1>11. /\ Sequence(log') /\ log' # <<>> /\ Len(log) \in Nat
       /\ DOMAIN log = 1..Len(log)
       /\ Len(log') = Len(log) + 1 /\ DOMAIN log' = 1..(Len(log) + 1)
       /\ \A e \in 1..Len(log) : log'[e] = log[e]
       /\ log'[Len(log) + 1] = entry
  BY <1>1, <1>2, AppendIs
<1>12. RunLog'
  <2>1. ASSUME NEW i \in 1..k
        PROVE  \E e \in DOMAIN log' :
                 /\ IsWhole(log'[e]) /\ log'[e][2].n = run'.n
                 /\ log'[e][2].config = M[i].id
                 /\ e > 1 /\ ~IsWhole(log'[e - 1]) => i = 1
    <3>1. CASE i = k
      <4>1. k > 1 => IsWhole(log[Len(log)]) /\ Len(log) >= 1
        <5>1. k > 1 => IsWhole(log[Len(log)]) /\ log # <<>>
          BY <1>1, <1>4, <1>5 DEF RunLog
        <5>2. log # <<>> => Len(log) >= 1
          BY <1>1, <1>11, EmptySeq DEF Sequence
        <5> QED
          BY <5>1, <5>2
      <4> DEFINE e == Len(log) + 1
      <4>2. /\ e \in DOMAIN log' /\ IsWhole(log'[e]) /\ log'[e][2].n = run'.n
            /\ log'[e][2].config = M[i].id
        BY <1>3, <1>6, <1>7, <1>11, <3>1
      <4>3. e > 1 /\ ~IsWhole(log'[e - 1]) => i = 1
        BY <1>4, <1>11, <3>1, <4>1
      <4> QED
        BY <4>2, <4>3
    <3>2. CASE i # k
      <4>1. i \in 1..Logged
        BY <1>4, <1>5, <3>2
      <4>2. PICK e \in DOMAIN log :
              /\ IsWhole(log[e]) /\ log[e][2].n = run.n /\ log[e][2].config = M[i].id
              /\ e > 1 /\ ~IsWhole(log[e - 1]) => i = 1
        BY <1>1, <4>1 DEF RunLog, M
      <4>3. e \in DOMAIN log' /\ log'[e] = log[e] /\ (e > 1 => log'[e - 1] = log[e - 1])
        BY <1>11
      <4> QED
        BY <1>7, <4>2, <4>3
    <3> QED
      BY <3>1, <3>2
  <2>2. IsWhole(log'[Len(log')])
    BY <1>3, <1>11
  <2>3. ASSUME NEW e \in DOMAIN log', IsWhole(log'[e]), log'[e][2].n = run'.n
        PROVE  \E i \in 1..k : log'[e][2].config = M[i].id
    <3>1. CASE e = Len(log) + 1
      BY <1>3, <1>4, <1>6, <1>11, <3>1
    <3>2. CASE e # Len(log) + 1
      <4>1. e \in DOMAIN log /\ log'[e] = log[e]
        BY <1>11, <3>2
      <4>2. \E i \in 1..(k - 1) : log[e][2].config = M[i].id
        BY <1>1, <1>5, <1>7, <2>3, <4>1 DEF RunLog, M
      <4> QED
        BY <1>4, <4>1, <4>2
    <3> QED
      BY <3>1, <3>2
  <2> QED
    BY <1>2, <1>8, <1>11, <2>1, <2>2, <2>3 DEF RunLog, M
<1>13. RunReports'
  BY <1>1, <1>7 DEF RunReports, RunShape
<1>14. LogIsTrue'
  <2>1. ASSUME NEW e \in DOMAIN log', IsWhole(log'[e])
        PROVE  /\ log'[e][2].n \in Nat /\ log'[e][2].n <= started
               /\ log'[e][2].config \in DOMAIN runs
               /\ runs[log'[e][2].config][2].n >= log'[e][2].n
               /\ runs[log'[e][2].config][2].n = log'[e][2].n =>
                    log'[e][2].metrics = runs[log'[e][2].config][2].slices
    <3>1. CASE e = Len(log) + 1
      <4>1. runs[M[k].id][2] = run.done[k]
        BY <1>5, WholeIs
      <4> QED
        BY <1>1, <1>3, <1>4, <1>5, <1>6, <1>11, <3>1, <4>1
    <3>2. CASE e # Len(log) + 1
      <4>1. e \in DOMAIN log /\ log'[e] = log[e]
        BY <1>11, <3>2
      <4> QED
        BY <2>1, <4>1 DEF IInv, LogIsTrue
    <3> QED
      BY <3>1, <3>2
  <2>2. \A e \in DOMAIN log' : IsWhole(log'[e]) \/ log'[e] = Torn
    BY <1>3, <1>11 DEF IInv, LogIsTrue
  <2> QED
    BY <1>2, <1>11, <2>1, <2>2 DEF LogIsTrue
<1>15. FilesAreDated' /\ finished' = 0 /\ IsMatrix(plan'.matrix) /\ started' \in Nat
  BY <1>1, <1>2 DEF IInv, FilesAreDated, RunShape
<1> QED
  BY <1>9, <1>10, <1>12, <1>13, <1>14, <1>15 DEF IInv

-----------------------------------------------------------------------------
(* Reports, deaths and the end of a run.                                   *)

(* A report is written, or its write fails.                                *)
LEMMA ReportStepIInv ==
  ASSUME IInv, NEW f \in Formats, WriteReport(f) \/ WriteReportFails(f)
  PROVE  IInv'
<1>1. /\ run.step = "report" /\ f \in run.pending
      /\ RunShape /\ RunFiles /\ RunLog /\ RunReports
      /\ started \in Nat /\ DOMAIN reports = Formats
  BY DEF WriteReport, WriteReportFails, IInv, Resting, FilesAreDated
<1>2. UNCHANGED <<plan, runs, log, summary, started, finished>>
  BY DEF WriteReport, WriteReportFails, milestones
<1>3. /\ DOMAIN run' = RunFields /\ run'.step = "report" /\ run'.n = run.n
      /\ run'.dataset = run.dataset /\ run'.config = run.config /\ run'.done = run.done
      /\ run'.pending = run.pending \ {f}
      /\ \/ run'.failed /\ reports' = [reports EXCEPT ![f] = Torn]
         \/ run'.failed = run.failed /\ reports' = [reports EXCEPT ![f] = Whole(Report)]
  BY <1>1 DEF WriteReport, WriteReportFails, RunShape, RunFields
<1>4. RunShape'
  BY <1>1, <1>2, <1>3 DEF RunShape
<1>5. RunFiles'
  BY <1>1, <1>2, <1>3 DEF RunFiles, Saved
<1>6. RunLog'
  BY <1>1, <1>2, <1>3 DEF RunLog, Logged
<1>7. RunReports'
  <2>1. Report' = Report
    BY <1>3 DEF Report
  <2> QED
    BY <1>1, <1>3, <2>1 DEF RunReports
<1>8. LogIsTrue'
  BY <1>2 DEF IInv, LogIsTrue
<1>9. FilesAreDated'
  <2>1. Whole(Report)[2].n = started
    BY <1>1, WholeIs DEF Report, RunShape
  <2>2. ASSUME NEW g \in Formats, IsWhole(reports'[g])
        PROVE  reports'[g][2].n \in Nat
               /\ (IsWhole(summary) => reports'[g][2].n >= summary[2].n)
    <3>1. CASE g # f
      <4>1. reports'[g] = reports[g]
        BY <1>1, <1>3, <3>1
      <4> QED
        BY <2>2, <4>1 DEF IInv, FilesAreDated
    <3>2. CASE g = f
      <4>1. reports'[g] = Torn \/ reports'[g] = Whole(Report)
        BY <1>1, <1>3, <3>2
      <4>2. reports'[g][2].n = started
        BY <2>1, <2>2, <4>1, WholeIs
      <4> QED
        BY <1>1, <4>2 DEF IInv, FilesAreDated
    <3> QED
      BY <3>1, <3>2
  <2>3. DOMAIN reports' = Formats
    BY <1>1, <1>3
  <2> QED
    BY <1>2, <2>2, <2>3 DEF IInv, FilesAreDated
<1> QED
  BY <1>1, <1>2, <1>4, <1>5, <1>6, <1>7, <1>8, <1>9 DEF IInv, RunShape

(* A death while a report or the summary is written.                        *)
LEMMA TornFilesIInv ==
  ASSUME IInv, run # Resting, run' = Resting,
         UNCHANGED <<plan, runs, log, started, finished>>,
         \/ UNCHANGED summary /\ \E f \in Formats : reports' = [reports EXCEPT ![f] = Torn]
         \/ UNCHANGED reports /\ summary' = Torn
  PROVE  IInv'
<1>1. LogIsTrue' /\ finished' = 0 /\ DOMAIN reports = Formats
  BY DEF IInv, LogIsTrue, RunShape, FilesAreDated
<1>2. FilesAreDated'
  <2>1. \A f \in Formats : IsWhole(reports'[f]) => reports'[f] = reports[f]
    BY <1>1, WholeIs
  <2>2. IsWhole(summary') => summary' = summary
    BY WholeIs
  <2>3. DOMAIN reports' = Formats
    BY <1>1
  <2> QED
    BY <2>1, <2>2, <2>3 DEF IInv, FilesAreDated
<1> QED
  BY <1>1, <1>2 DEF IInv

(* A death while the log is appended to.                                   *)
LEMMA TearLogIInv == IInv /\ TearLog => IInv'
<1> SUFFICES ASSUME IInv, TearLog PROVE IInv'
  OBVIOUS
<1>1. /\ run # Resting /\ run' = Resting /\ log' = Append(log, Torn)
      /\ UNCHANGED <<plan, runs, reports, summary, started, finished>>
  BY DEF TearLog, Tearing, End, Resting, milestones
<1>2. finished' = 0 /\ FilesAreDated'
  BY <1>1 DEF IInv, RunShape, FilesAreDated
<1>3. LogIsTrue'
  <2>1. Sequence(log)
    BY DEF IInv, LogIsTrue
  <2>2. /\ Sequence(log') /\ DOMAIN log = 1..Len(log) /\ Len(log) \in Nat
        /\ DOMAIN log' = 1..(Len(log) + 1)
        /\ \A e \in 1..Len(log) : log'[e] = log[e]
        /\ log'[Len(log) + 1] = Torn
    BY <1>1, <2>1, AppendIs
  <2>3. \A e \in DOMAIN log' : log'[e] = Torn \/ (e \in DOMAIN log /\ log'[e] = log[e])
    BY <2>2
  <2> QED
    BY <1>1, <2>2, <2>3, WholeIs DEF IInv, LogIsTrue
<1> QED
  BY <1>1, <1>2, <1>3 DEF IInv

(* The summary is written when every report is: the evidence is complete.  *)
LEMMA ReconcileIInv == IInv /\ Reconcile => IInv'
<1> SUFFICES ASSUME IInv, Reconcile PROVE IInv'
  OBVIOUS
<1> DEFINE M == plan.matrix
           facts == [n |-> run.n, dataset |-> run.dataset,
                     winners |-> Winners(run.done, DomainsOf(run.examples))]
<1>1. /\ run.step = "report" /\ ~run.failed /\ run.pending = {}
      /\ RunShape /\ RunFiles /\ RunLog /\ RunReports
      /\ started \in Nat
  BY DEF Reconcile, Written, IInv, Resting
<1>2. /\ summary' = Whole(facts) /\ finished' = run.n /\ run' = Resting
      /\ UNCHANGED <<plan, runs, log, reports, started>>
  BY DEF Reconcile, End
<1>3. facts.n = run.n /\ facts.dataset = run.dataset
  OBVIOUS
<1> HIDE DEF facts
<1>4. IsWhole(summary') /\ summary'[2].n = run.n /\ summary'[2].dataset = run.dataset
  BY <1>2, <1>3, WholeIs
<1>5. /\ Saved = Len(M) /\ Logged = Len(M) /\ run.n = started /\ started >= 1
      /\ Len(M) \in Nat /\ DOMAIN M = 1..Len(M)
      /\ ToSet(M) = {M[i] : i \in 1..Len(M)}
      /\ \A i, j \in 1..Len(M) : M[i].id = M[j].id => i = j
  BY <1>1, MatrixIs DEF Saved, Logged, RunShape, IInv
<1>6. \A f \in Formats : reports[f] = Whole(Report)
  BY <1>1 DEF RunReports
<1>7. /\ IsWhole(reports["json"]) /\ reports["json"][2] = Report
      /\ \A f \in Formats : IsWhole(reports[f]) /\ reports[f][2].n = run.n
  BY <1>6, WholeIs DEF Report, Formats
<1>8. Report.n = run.n /\ Report.dataset = run.dataset /\ Report.runs = run.done
  BY DEF Report
<1>9. FilesAreDated'
  BY <1>1, <1>2, <1>4, <1>5, <1>7 DEF IInv, FilesAreDated
<1>10. LogIsTrue'
  BY <1>2 DEF IInv, LogIsTrue
<1>11. \A k \in DOMAIN log : IsWhole(log[k]) \/ log[k] = Torn
  BY DEF IInv, LogIsTrue
<1>12. ASSUME Unlogged(run.n) # {}
       PROVE  Unlogged(run.n) = {M[1]} /\ Torn \in ToSet(log)
  <2>1. ASSUME NEW c \in Unlogged(run.n)
        PROVE  c = M[1] /\ Torn \in ToSet(log)
    <3>1. PICK i \in 1..Len(M) : c = M[i]
      BY <1>5, <2>1 DEF Unlogged
    <3>2. PICK k \in DOMAIN log :
            /\ IsWhole(log[k]) /\ log[k][2].n = run.n /\ log[k][2].config = M[i].id
            /\ k > 1 /\ ~IsWhole(log[k - 1]) => i = 1
      BY <1>1, <1>5 DEF RunLog
    <3>3. log[k][2] \notin ReadableEvents
      BY <2>1, <3>1, <3>2 DEF Unlogged
    <3>4. k > 1 /\ ~IsWhole(log[k - 1])
      BY <3>2, <3>3 DEF ReadableEvents
    <3>5. DOMAIN log = 1..Len(log) /\ Len(log) \in Nat
      BY LenProperties DEF IInv, LogIsTrue, Sequence
    <3>6. k - 1 \in DOMAIN log
      BY <3>4, <3>5
    <3>7. log[k - 1] = Torn
      BY <1>11, <3>4, <3>6
    <3> QED
      BY <3>1, <3>2, <3>4, <3>6, <3>7 DEF ToSet
  <2> QED
    BY <1>12, <2>1
<1>13. ASSUME NEW n, NEW report, n = run.n, report = Report
       PROVE  Complete(n, report)'
  <2>1. Unlogged(n)' = Unlogged(n)
    BY <1>2 DEF Unlogged, ReadableEvents
  <2>2. /\ report.n = n /\ report.dataset = run.dataset /\ report.runs = run.done
        /\ \A f \in Formats : reports'[f] = Whole(report)
        /\ IsWhole(summary') /\ summary'[2].n = n
        /\ summary'[2].dataset = report.dataset
    BY <1>2, <1>4, <1>6, <1>8, <1>13
  <2>3. /\ Sequence(run.done) /\ Len(run.done) = Len(M)
        /\ \A i \in 1..Len(M) : /\ run.done[i].n = n /\ run.done[i].dataset = report.dataset
                                /\ runs[M[i].id] = Whole(run.done[i])
    BY <1>1, <1>5, <2>2, <1>13 DEF RunFiles
  <2>4. \A r \in ToSet(report.runs) : r.n = n /\ r.dataset = report.dataset
    <3>1. DOMAIN run.done = 1..Len(M)
      BY <2>3, LenProperties DEF Sequence
    <3> QED
      BY <2>2, <2>3, <3>1 DEF ToSet
  <2>5. Unlogged(n)' # {} => Unlogged(n)' = {M[1]} /\ Torn \in ToSet(log')
    BY <1>2, <1>12, <1>13, <2>1
  <2> QED
    BY <1>2, <1>5, <2>2, <2>3, <2>4, <2>5 DEF Complete
<1>14. Complete(finished, reports["json"][2])'
  <2>1. PICK n, report : n = run.n /\ report = Report
    OBVIOUS
  <2>2. Complete(n, report)'
    BY <1>13, <2>1
  <2>3. finished' = n /\ reports'["json"][2] = report
    BY <1>2, <1>7, <2>1
  <2> QED
    BY <2>2, <2>3
<1> QED
  BY <1>1, <1>2, <1>7, <1>9, <1>10, <1>14 DEF IInv

(* An empty directory.                                                     *)
LEMMA InitIInv == EvidenceInit => IInv
<1> SUFFICES ASSUME EvidenceInit PROVE IInv
  OBVIOUS
<1>1. \A f \in Formats : ~IsWhole(reports[f])
  BY WholeIs DEF EvidenceInit
<1>2. ~IsWhole(summary)
  BY WholeIs DEF EvidenceInit
<1>3. LogIsTrue
  BY EmptyIs DEF EvidenceInit, LogIsTrue
<1>4. FilesAreDated
  BY <1>1, <1>2 DEF EvidenceInit, FilesAreDated
<1> QED
  BY <1>3, <1>4 DEF EvidenceInit, IInv

(* Every step keeps the invariant.                                         *)
LEMMA NextIInv == IInv /\ [EvidenceNext]_evidence => IInv'
<1> SUFFICES ASSUME IInv, [EvidenceNext]_evidence PROVE IInv'
  OBVIOUS
<1>1. CASE Start
  BY <1>1, StartIInv
<1>2. CASE Resume \/ RefuseCheckpoint \/ Produce \/ ProduceFails \/ Judge
  <2>1. run.step = "observe" /\ DOMAIN run = RunFields
    BY <1>2 DEF Resume, RefuseCheckpoint, Produce, ProduceFails, Judge, IInv, RunShape, Resting
  <2>2. UNCHANGED <<plan, runs, log, reports, summary, started, finished>>
    BY <1>2 DEF Resume, RefuseCheckpoint, Produce, ProduceFails, Judge, directory, milestones
  <2>3. /\ DOMAIN run' = RunFields /\ run'.step = "observe" /\ run'.n = run.n
        /\ run'.dataset = run.dataset /\ run'.config = run.config
        /\ run'.done = run.done /\ run'.pending = run.pending
    BY <1>2, <2>1 DEF Resume, RefuseCheckpoint, Produce, ProduceFails, Judge, RunFields
  <2> QED
    BY <2>1, <2>2, <2>3, Observes
<1>3. CASE JudgeRaises
  <2>1. run.step = "observe" /\ DOMAIN run = RunFields
    BY <1>3 DEF JudgeRaises, IInv, RunShape, Resting
  <2>2. UNCHANGED <<plan, runs, log, reports, summary, started, finished>>
    BY <1>3 DEF JudgeRaises, directory, milestones
  <2>3. CASE run' = Resting
    BY <2>1, <2>2, <2>3, Ends DEF Resting
  <2>4. CASE run' = [run EXCEPT !.attempt = @ + 1, !.records = <<>>]
    <3>1. /\ DOMAIN run' = RunFields /\ run'.step = "observe" /\ run'.n = run.n
          /\ run'.dataset = run.dataset /\ run'.config = run.config
          /\ run'.done = run.done /\ run'.pending = run.pending
      BY <2>1, <2>4 DEF RunFields
    <3> QED
      BY <2>1, <2>2, <3>1, Observes
  <2> QED
    BY <1>3, <2>3, <2>4 DEF JudgeRaises
<1>4. CASE ObserveRaises \/ ReportRaises \/ RunDies
  <2>1. run # Resting /\ run' = Resting
    BY <1>4 DEF ObserveRaises, ReportRaises, RunDies, End, Resting
  <2>2. UNCHANGED <<plan, runs, log, reports, summary, started, finished>>
    BY <1>4 DEF ObserveRaises, ReportRaises, RunDies, directory, milestones
  <2> QED
    BY <2>1, <2>2, Ends
<1>5. CASE SaveRun
  BY <1>5, SaveRunIInv
<1>6. CASE Track
  BY <1>6, TrackIInv
<1>7. ASSUME NEW f \in Formats, WriteReport(f) \/ WriteReportFails(f)
      PROVE  IInv'
  BY <1>7, ReportStepIInv
<1>8. CASE Reconcile
  BY <1>8, ReconcileIInv
<1>9. CASE TearLog
  BY <1>9, TearLogIInv
<1>10. CASE TearSummary \/ \E f \in Formats : TearReport(f)
  <2>1. /\ run # Resting /\ run' = Resting
        /\ UNCHANGED <<plan, runs, log, started, finished>>
        /\ \/ UNCHANGED summary
              /\ \E f \in Formats : reports' = [reports EXCEPT ![f] = Torn]
           \/ UNCHANGED reports /\ summary' = Torn
    BY <1>10 DEF TearSummary, TearReport, Tearing, End, Resting, milestones
  <2> QED
    BY <2>1, TornFilesIInv
<1>11. CASE \/ StartRaises \/ DeleteStale \/ Checks
            \/ \E d \in DOMAIN plan.datasets : EditDataset(d)
  <2>1. UNCHANGED <<plan, run, runs, log, reports, summary, started, finished>>
    BY <1>11 DEF StartRaises, DeleteStale, Checks, Compare, Gate, GateRaises, EditDataset,
                 directory, milestones
  <2> QED
    BY <2>1, Rests
<1>12. CASE UNCHANGED evidence
  BY <1>12, Rests DEF evidence, directory, milestones
<1> QED
  BY <1>1, <1>2, <1>3, <1>4, <1>5, <1>6, <1>7, <1>8, <1>9, <1>10, <1>11, <1>12
     DEF EvidenceNext, RunStep, RunDeaths

(* The invariant says what the property asks.                              *)
LEMMA EvidenceIsSupported == IInv => EvidenceAgrees
<1> SUFFICES ASSUME IInv PROVE EvidenceAgrees
  OBVIOUS
<1>1. ASSUME NEW event \in ReadableEvents
      PROVE  \E r \in {runs[event.config][2]} :
               r.n >= event.n /\ (r.n = event.n => event.metrics = r.slices)
  <2>1. PICK k \in DOMAIN log : IsWhole(log[k]) /\ event = log[k][2]
    BY <1>1 DEF ReadableEvents
  <2> QED
    BY <2>1 DEF IInv, LogIsTrue
<1> QED
  BY <1>1 DEF IInv, FilesAreDated, EvidenceAgrees

(* run_matrix, write_comparative_reports and LocalJsonExperimentTracker, for *)
(* every matrix, dataset, judge and number of runs, deaths and edits: a run  *)
(* that finished left reports, a summary, run files and a log that say the   *)
(* same; no event tells of a run file that is not there; no report that can  *)
(* be read is older than the summary.                                       *)
THEOREM EvidenceSupported == EvidenceSpec => []EvidenceAgrees
  BY InitIInv, NextIInv, EvidenceIsSupported, PTL DEF EvidenceSpec

-----------------------------------------------------------------------------
(* Fractions in lowest terms.                                              *)

Pairs(n) == Nat \X (0..n)
IsGcd(h, n) ==
  \A p \in Pairs(n) : h[p] = IF p[2] = 0 THEN p[1] ELSE h[<<p[2], p[1] % p[2]>>]

(* The remainder is smaller.                                               *)
LEMMA Remainder ==
  ASSUME NEW a \in Nat, NEW b \in Nat, b # 0
  PROVE  a % b \in 0..(b - 1) /\ a \div b \in Nat /\ a = b * (a \div b) + (a % b)
  OBVIOUS

(* The equation of Gcd has a solution for second numbers up to n.          *)
LEMMA GcdUpTo ==
  ASSUME NEW n \in Nat
  PROVE  \E h \in [Pairs(n) -> Nat] : IsGcd(h, n)
<1> DEFINE Good == {k \in 0..n : \E h \in [Pairs(k) -> Nat] : IsGcd(h, k)}
<1>1. 0 \in Good
  <2> DEFINE h == [p \in Pairs(0) |-> p[1]]
  <2>1. h \in [Pairs(0) -> Nat] /\ IsGcd(h, 0)
    BY DEF Pairs, IsGcd
  <2> QED
    BY <2>1
<1>2. ASSUME NEW k \in 0..n, k # 0, k - 1 \in Good PROVE k \in Good
  <2>1. PICK g \in [Pairs(k - 1) -> Nat] : IsGcd(g, k - 1)
    BY <1>2
  <2> DEFINE h == [p \in Pairs(k) |-> IF p[2] = k THEN g[<<k, p[1] % k>>] ELSE g[p]]
  <2>2. ASSUME NEW p \in Pairs(k), p[2] # k PROVE p \in Pairs(k - 1)
    BY <1>2, <2>2 DEF Pairs
  <2>3. ASSUME NEW p \in Pairs(k), p[2] # 0
        PROVE  /\ <<p[2], p[1] % p[2]>> \in Pairs(k - 1) /\ <<p[2], p[1] % p[2]>> \in Pairs(k)
               /\ p[1] % p[2] # k
    <3>1. p[1] \in Nat /\ p[2] \in Nat /\ p[2] <= k
      BY <2>3 DEF Pairs
    <3>2. p[1] % p[2] \in 0..(p[2] - 1)
      BY <2>3, <3>1, Remainder
    <3> QED
      BY <1>2, <3>1, <3>2 DEF Pairs
  <2>4. h \in [Pairs(k) -> Nat]
    <3>1. ASSUME NEW p \in Pairs(k) PROVE h[p] \in Nat
      <4>1. CASE p[2] = k
        BY <1>2, <2>3, <4>1
      <4>2. CASE p[2] # k
        BY <2>2, <4>2
      <4> QED
        BY <4>1, <4>2
    <3> QED
      BY <3>1
  <2>5. ASSUME NEW p \in Pairs(k)
        PROVE  h[p] = IF p[2] = 0 THEN p[1] ELSE h[<<p[2], p[1] % p[2]>>]
    <3>1. CASE p[2] = 0
      BY <1>2, <2>1, <2>2, <3>1 DEF IsGcd
    <3>2. CASE p[2] # 0
      <4> DEFINE q == <<p[2], p[1] % p[2]>>
      <4>1. q \in Pairs(k - 1) /\ q \in Pairs(k) /\ q[2] # k
        BY <2>3, <3>2
      <4>2. h[q] = g[q]
        BY <4>1
      <4>3. CASE p[2] = k
        BY <3>2, <4>2, <4>3
      <4>4. CASE p[2] # k
        BY <2>1, <2>2, <3>2, <4>2, <4>4 DEF IsGcd
      <4> QED
        BY <4>3, <4>4
    <3> QED
      BY <3>1, <3>2
  <2>6. IsGcd(h, k)
    BY <2>5 DEF IsGcd
  <2> QED
    BY <1>2, <2>4, <2>6
<1> HIDE DEF Good
<1>3. \A k \in 0..n : k \in Good
  BY <1>1, <1>2, Induction
<1> QED
  BY <1>3 DEF Good

(* Two solutions agree where both are defined.                             *)
LEMMA GcdUnique ==
  ASSUME NEW n \in Nat, NEW m \in Nat, n <= m, NEW g, IsGcd(g, n), NEW h, IsGcd(h, m)
  PROVE  \A p \in Pairs(n) : g[p] = h[p]
<1> DEFINE Good == {k \in 0..n : \A p \in Pairs(k) : g[p] = h[p]}
<1>1. 0 \in Good
  <2>1. ASSUME NEW p \in Pairs(0) PROVE g[p] = h[p]
    <3>1. p \in Pairs(n) /\ p \in Pairs(m) /\ p[2] = 0
      BY DEF Pairs
    <3> QED
      BY <3>1 DEF IsGcd
  <2> QED
    BY <2>1
<1>2. ASSUME NEW k \in 0..n, k # 0, k - 1 \in Good PROVE k \in Good
  <2> SUFFICES ASSUME NEW p \in Pairs(k) PROVE g[p] = h[p]
    OBVIOUS
  <2>1. p \in Pairs(n) /\ p \in Pairs(m) /\ p[1] \in Nat /\ p[2] \in Nat /\ p[2] <= k
    BY DEF Pairs
  <2>2. CASE p[2] = 0
    BY <2>1, <2>2 DEF IsGcd
  <2>3. CASE p[2] # 0
    <3>1. p[1] % p[2] \in 0..(p[2] - 1)
      BY <2>1, <2>3, Remainder
    <3>2. <<p[2], p[1] % p[2]>> \in Pairs(k - 1)
      BY <1>2, <2>1, <3>1 DEF Pairs
    <3> QED
      BY <1>2, <2>1, <2>3, <3>2 DEF IsGcd
  <2> QED
    BY <2>2, <2>3
<1> HIDE DEF Good
<1>3. \A k \in 0..n : k \in Good
  BY <1>1, <1>2, Induction
<1> QED
  BY <1>3 DEF Good

(* Gcd is defined.                                                         *)
LEMMA GcdIs ==
  \A p \in Nat \X Nat : Gcd[p] = IF p[2] = 0 THEN p[1] ELSE Gcd[<<p[2], p[1] % p[2]>>]
<1> DEFINE H(n) == CHOOSE h \in [Pairs(n) -> Nat] : IsGcd(h, n)
           Eq(f) == f = [p \in Nat \X Nat |->
                           IF p[2] = 0 THEN p[1] ELSE f[<<p[2], p[1] % p[2]>>]]
           g == [p \in Nat \X Nat |-> H(p[2])[p]]
<1>1. \A n \in Nat : H(n) \in [Pairs(n) -> Nat] /\ IsGcd(H(n), n)
  BY GcdUpTo
<1> HIDE DEF H
<1>2. ASSUME NEW p \in Nat \X Nat
      PROVE  g[p] = IF p[2] = 0 THEN p[1] ELSE g[<<p[2], p[1] % p[2]>>]
  <2> DEFINE a == p[1]
             b == p[2]
             q == <<b, a % b>>
  <2>1. a \in Nat /\ b \in Nat /\ p = <<a, b>> /\ p \in Pairs(b) /\ g[p] = H(b)[p]
    BY DEF Pairs
  <2>2. CASE b = 0
    BY <1>1, <2>1, <2>2 DEF IsGcd
  <2>3. CASE b # 0
    <3>1. a % b \in 0..(b - 1)
      BY <2>1, <2>3, Remainder
    <3>2. q \in Nat \X Nat /\ q \in Pairs(a % b) /\ a % b \in Nat /\ a % b <= b
      BY <2>1, <3>1 DEF Pairs
    <3>3. g[q] = H(a % b)[q]
      BY <3>2
    <3>4. H(a % b)[q] = H(b)[q]
      BY <1>1, <2>1, <3>2, GcdUnique
    <3>5. H(b)[p] = H(b)[q]
      BY <1>1, <2>1, <2>3 DEF IsGcd
    <3> QED
      BY <2>1, <2>3, <3>3, <3>4, <3>5
  <2> QED
    BY <2>2, <2>3
<1>3. Eq(g)
  <2>1. g = [p \in Nat \X Nat |-> g[p]]
    OBVIOUS
  <2> HIDE DEF g
  <2> QED
    BY <1>2, <2>1
<1>4. Gcd = CHOOSE f : Eq(f)
  BY Zenon DEF Gcd
<1>5. Eq(Gcd)
  BY <1>3, <1>4
<1> QED
  BY <1>5

(* It divides both numbers.                                                *)
LEMMA GcdDivides ==
  ASSUME NEW a \in Nat, NEW b \in Nat, a > 0 \/ b > 0
  PROVE  /\ Gcd[<<a, b>>] \in Nat \ {0}
         /\ \E k, l \in Nat : a = k * Gcd[<<a, b>>] /\ b = l * Gcd[<<a, b>>]
<1> DEFINE Divides(x, y) ==
             /\ Gcd[<<x, y>>] \in Nat \ {0}
             /\ \E k, l \in Nat : x = k * Gcd[<<x, y>>] /\ y = l * Gcd[<<x, y>>]
           Good == {n \in 0..b : \A x \in Nat, y \in 0..n : x > 0 \/ y > 0 => Divides(x, y)}
<1>1. 0 \in Good
  <2>1. ASSUME NEW x \in Nat, x > 0 PROVE Divides(x, 0)
    <3>1. Gcd[<<x, 0>>] = x
      BY GcdIs
    <3>2. x = 1 * x /\ 0 = 0 * x
      OBVIOUS
    <3> QED
      BY <2>1, <3>1, <3>2
  <2> HIDE DEF Divides
  <2>2. \A y \in 0..0 : y = 0
    OBVIOUS
  <2> QED
    BY <2>1, <2>2
<1>2. ASSUME NEW n \in 0..b, n # 0, n - 1 \in Good PROVE n \in Good
  <2>1. ASSUME NEW x \in Nat, NEW y \in 0..n, x > 0 \/ y > 0 PROVE Divides(x, y)
    <3>1. CASE y = 0
      <4>1. y \in 0..(n - 1)
        BY <1>2, <3>1
      <4> QED
        BY <1>2, <2>1, <4>1
    <3>2. CASE y # 0
      <4> DEFINE r == x % y
                 q == x \div y
                 g == Gcd[<<y, r>>]
      <4>1. y \in Nat /\ y > 0 /\ r \in 0..(y - 1) /\ q \in Nat /\ x = y * q + r
        BY <3>2, Remainder
      <4>2. r \in 0..(n - 1) /\ r \in Nat
        BY <1>2, <4>1
      <4>3. Gcd[<<x, y>>] = g
        BY <3>2, <4>1, GcdIs
      <4>4. Divides(y, r)
        BY <1>2, <4>1, <4>2
      <4>5. PICK k, l \in Nat : y = k * g /\ r = l * g
        BY <4>4
      <4>6. g \in Nat \ {0}
        BY <4>4
      <4> HIDE DEF g, r, q
      <4>7. x = (k * q + l) * g
        BY <4>1, <4>5, <4>6
      <4>8. k * q + l \in Nat
        BY <4>1
      <4> QED
        BY <4>3, <4>5, <4>6, <4>7, <4>8
    <3> QED
      BY <3>1, <3>2
  <2> HIDE DEF Divides
  <2> QED
    BY <2>1
<1> HIDE DEF Good
<1>3. \A n \in 0..b : n \in Good
  BY <1>1, <1>2, Induction
<1>4. b \in Good /\ b \in 0..b
  BY <1>3
<1>5. Divides(a, b)
  BY <1>4 DEF Good
<1> QED
  BY <1>5

(* f is the fraction n / d.                                                *)
Is(f, n, d) == IsFraction(f) /\ n \in Nat /\ d \in Nat \ {0} /\ f[1] * d = n * f[2]

(* Ratio keeps the value.                                                  *)
LEMMA RatioIs ==
  ASSUME NEW n \in Nat, NEW d \in Nat \ {0}
  PROVE  Is(Ratio(n, d), n, d)
<1> DEFINE g == Gcd[<<d, n>>]
<1>1. g \in Nat \ {0} /\ \E k, l \in Nat : d = k * g /\ n = l * g
  BY GcdDivides
<1> HIDE DEF g
<1>2. PICK k, l \in Nat : d = k * g /\ n = l * g
  BY <1>1
<1>3. d \div g = k /\ n \div g = l
  BY <1>1, <1>2
<1>4. k # 0
  BY <1>1, <1>2
<1>5. Ratio(n, d) = <<l, k>>
  BY <1>3 DEF Ratio, Lowest, g
<1>6. l * (k * g) = (l * g) * k
  BY <1>1
<1> QED
  BY <1>2, <1>4, <1>5, <1>6 DEF Is, IsFraction

(* Products of numbers.                                                    *)
LEMMA Product ==
  ASSUME NEW a \in Nat, NEW b \in Nat, NEW c \in Nat
  PROVE  /\ a * b \in Nat
         /\ a > 0 /\ b > 0 => a * b > 0
         /\ c > 0 => (a * c > b * c <=> a > b)
         /\ c > 0 => (a * c = b * c <=> a = b)
  OBVIOUS

(* The same factors in another order.                                      *)
LEMMA Regrouped ==
  ASSUME NEW a \in Nat, NEW b \in Nat, NEW c \in Nat, NEW d \in Nat
  PROVE  /\ (a * b) * (c * d) = (a * c) * (b * d) /\ (a * b) * (c * d) = (a * d) * (b * c)
         /\ (a * b) * (c * d) = (c * a) * (b * d)
         /\ a * b = b * a /\ (a + b) * c = a * c + b * c
  OBVIOUS

(* A fraction is itself.                                                   *)
LEMMA FractionIs ==
  ASSUME NEW f, IsFraction(f)
  PROVE  Is(f, f[1], f[2])
  BY DEF Is, IsFraction

(* Comparing is comparing values.                                          *)
LEMMA GreaterIs ==
  ASSUME NEW f, NEW n, NEW d, Is(f, n, d), NEW g, NEW m, NEW e, Is(g, m, e)
  PROVE  Greater(f, g) <=> n * e > m * d
<1> DEFINE a == f[1]
           b == f[2]
           p == g[1]
           q == g[2]
<1>1. /\ a \in Nat /\ b \in Nat /\ b > 0 /\ n \in Nat /\ d \in Nat /\ d > 0 /\ a * d = n * b
      /\ p \in Nat /\ q \in Nat /\ q > 0 /\ m \in Nat /\ e \in Nat /\ e > 0 /\ p * e = m * q
  BY DEF Is, IsFraction
<1>2. Greater(f, g) <=> a * q > p * b
  BY DEF Greater
<1> HIDE DEF a, b, p, q
<1>3. /\ d * e \in Nat /\ d * e > 0 /\ b * q \in Nat /\ b * q > 0
      /\ a * q \in Nat /\ p * b \in Nat /\ n * e \in Nat /\ m * d \in Nat
  BY <1>1, Product
<1>4. a * q > p * b <=> (a * q) * (d * e) > (p * b) * (d * e)
  BY <1>3, Product
<1>5. n * e > m * d <=> (n * e) * (b * q) > (m * d) * (b * q)
  BY <1>3, Product
<1>6. (a * q) * (d * e) = (a * d) * (q * e) /\ (n * e) * (b * q) = (n * b) * (e * q)
      /\ q * e = e * q
  BY <1>1, Regrouped
<1>7. (p * b) * (d * e) = (p * e) * (b * d) /\ (m * d) * (b * q) = (m * q) * (d * b)
      /\ b * d = d * b
  BY <1>1, Regrouped
<1> QED
  BY <1>1, <1>2, <1>4, <1>5, <1>6, <1>7

(* At least is not less.                                                   *)
LEMMA AtLeastIs ==
  ASSUME NEW f, IsFraction(f), NEW g, IsFraction(g)
  PROVE  AtLeast(f, g) <=> ~Greater(g, f)
  BY DEF AtLeast, Greater, IsFraction

(* Adding is adding values.                                                *)
LEMMA PlusIs ==
  ASSUME NEW f, NEW n, NEW d, Is(f, n, d), NEW g, NEW m, NEW e, Is(g, m, e)
  PROVE  Is(Plus(f, g), n * e + m * d, d * e)
<1> DEFINE a == f[1]
           b == f[2]
           p == g[1]
           q == g[2]
           s == a * q + p * b
           t == b * q
           r == Ratio(s, t)
           v == n * e + m * d
           w == d * e
<1>1. /\ a \in Nat /\ b \in Nat /\ b > 0 /\ n \in Nat /\ d \in Nat /\ d > 0 /\ a * d = n * b
      /\ p \in Nat /\ q \in Nat /\ q > 0 /\ m \in Nat /\ e \in Nat /\ e > 0 /\ p * e = m * q
  BY DEF Is, IsFraction
<1>2. Plus(f, g) = r
  BY DEF Plus
<1> HIDE DEF a, b, p, q
<1>3. /\ a * q \in Nat /\ p * b \in Nat /\ t \in Nat /\ t > 0
      /\ n * e \in Nat /\ m * d \in Nat /\ w \in Nat /\ w > 0
  BY <1>1, Product
<1>4. s \in Nat /\ v \in Nat
  BY <1>3
<1>5. s * w = v * t
  <2>1. s * w = (a * q) * (d * e) + (p * b) * (d * e)
    BY <1>3, Regrouped
  <2>2. v * t = (n * e) * (b * q) + (m * d) * (b * q)
    BY <1>3, Regrouped
  <2>3. (a * q) * (d * e) = (a * d) * (q * e) /\ (n * e) * (b * q) = (n * b) * (e * q)
        /\ q * e = e * q
    BY <1>1, Regrouped
  <2>4. (p * b) * (d * e) = (p * e) * (b * d) /\ (m * d) * (b * q) = (m * q) * (d * b)
        /\ b * d = d * b
    BY <1>1, Regrouped
  <2> QED
    BY <1>1, <2>1, <2>2, <2>3, <2>4
<1> HIDE DEF s, t, v, w, r
<1>6. Is(r, s, t)
  BY <1>3, <1>4, RatioIs DEF r
<1>7. r[1] \in Nat /\ r[2] \in Nat /\ r[2] > 0 /\ r[1] * t = s * r[2]
  BY <1>6 DEF Is, IsFraction
<1>8. r[1] * w = v * r[2]
  <2> DEFINE x == r[1]
             y == r[2]
  <2>1. x \in Nat /\ y \in Nat /\ x * t = s * y
    BY <1>7
  <2> HIDE DEF x, y
  <2>2. x * w \in Nat /\ v * y \in Nat
    BY <1>3, <1>4, <2>1, Product
  <2>3. (x * w) * t = (x * t) * w /\ (v * y) * t = (v * t) * y /\ (s * y) * w = (s * w) * y
    BY <1>3, <1>4, <2>1
  <2>4. (x * w) * t = (v * y) * t
    BY <1>5, <2>1, <2>3
  <2> QED
    BY <1>3, <2>2, <2>4, Product DEF x, y
<1>9. Is(r, v, w)
  BY <1>3, <1>4, <1>6, <1>8 DEF Is
<1> QED
  BY <1>2, <1>9 DEF v, w

-----------------------------------------------------------------------------
(* Totals and means.                                                       *)

(* A total, item by item.                                                  *)
AddsAlong(sum, s) ==
  \A i \in 0..Len(s) : sum[i] = IF i = 0 THEN Zero ELSE Plus(sum[i - 1], s[i])

(* A total adds one item after the other.                                  *)
LEMMA TotalRuns ==
  ASSUME NEW s, Sequence(s), \A i \in 1..Len(s) : IsFraction(s[i])
  PROVE  \E sum : /\ Total(s) = sum[Len(s)] /\ AddsAlong(sum, s)
                  /\ \A i \in 0..Len(s) : IsFraction(sum[i])
<1> DEFINE N == Len(s)
           F == Nat \X (Nat \ {0})
           K == [i \in 0..N |-> F]
           Eq(f) == f = [i \in 0..N |-> IF i = 0 THEN Zero ELSE Plus(f[i - 1], s[i])]
           sum == CHOOSE f : Eq(f)
           step == [i \in 1..N |-> [v \in F |-> Plus(v, s[i])]]
<1>1. N \in Nat /\ Zero \in F /\ \A i \in 0..N : K[i] = F
  BY SequenceIs DEF Zero
<1>2. ASSUME NEW v \in F, NEW i \in 1..N PROVE Plus(v, s[i]) \in F
  <2>1. Is(v, v[1], v[2]) /\ Is(s[i], s[i][1], s[i][2])
    BY FractionIs DEF IsFraction
  <2> QED
    BY <2>1, PlusIs DEF Is, IsFraction
<1>3. \A i \in 1..N : \A v \in F : step[i][v] = Plus(v, s[i])
  OBVIOUS
<1>4. \A i \in 1..N : i \in 0..N /\ i - 1 \in 0..N /\ i # 0
  BY <1>1
<1>5. \A i \in 0..N : i # 0 => i \in 1..N /\ i - 1 \in 0..N
  BY <1>1
<1>6. Total(s) = sum[N]
  BY Zenon DEF Total
<1> HIDE DEF K, step
<1>7. Keeps(step, K, N)
  <2>1. ASSUME NEW i \in 1..N PROVE \A v \in K[i - 1] : step[i][v] \in K[i]
    <3>1. K[i - 1] = F /\ K[i] = F
      BY <1>1, <1>4
    <3> HIDE DEF F
    <3> QED
      BY <1>2, <1>3, <3>1
  <2> QED
    BY <2>1 DEF Keeps
<1>8. \E X : \E g \in [0..N -> X] : Along(g, N, Zero, step, K)
  <2> DEFINE start == Zero
  <2>1. start \in K[0]
    BY <1>1
  <2> HIDE DEF start
  <2>2. \E X : \E g \in [0..N -> X] : Along(g, N, start, step, K)
    BY <1>1, <1>7, <2>1, FoldExists
  <2> QED
    BY <2>2 DEF start
<1>9. \E g : Eq(g)
  <2> PICK X : \E g \in [0..N -> X] : Along(g, N, Zero, step, K)
    BY <1>8
  <2> PICK g \in [0..N -> X] : Along(g, N, Zero, step, K)
    OBVIOUS
  <2>1. \A i \in 0..N : g[i] = IF i = 0 THEN Zero ELSE Plus(g[i - 1], s[i])
    BY <1>1, <1>3, <1>5 DEF Along
  <2>2. Eq(g)
    BY <2>1
  <2> QED
    BY <2>2
<1>10. Eq(sum)
  BY <1>9
<1> HIDE DEF sum
<1>11. \A i \in 0..N : sum[i] = IF i = 0 THEN Zero ELSE Plus(sum[i - 1], s[i])
  BY <1>10
<1>12. \A i \in 0..N : sum[i] \in K[i]
  <2>1. Follows(sum, N, step, K)
    BY <1>1, <1>3, <1>4, <1>11 DEF Follows
  <2>2. sum[0] \in K[0]
    BY <1>1, <1>11
  <2> QED
    BY <1>1, <1>7, <2>1, <2>2, FoldKept
<1>13. \A i \in 0..N : IsFraction(sum[i])
  BY <1>1, <1>12 DEF IsFraction
<1>14. AddsAlong(sum, s)
  BY <1>11 DEF AddsAlong
<1> QED
  BY <1>6, <1>13, <1>14

(* So a total of fractions is one.                                         *)
LEMMA TotalIs ==
  ASSUME NEW s, Sequence(s), \A i \in 1..Len(s) : IsFraction(s[i])
  PROVE  IsFraction(Total(s))
<1>1. Len(s) \in Nat
  BY SequenceIs
<1> QED
  BY <1>1, TotalRuns

(* The mean of fractions is their total over their number.                 *)
LEMMA MeanIs ==
  ASSUME NEW s, Sequence(s), \A i \in 1..Len(s) : IsFraction(s[i]), Len(s) # 0
  PROVE  /\ Len(s) \in Nat \ {0} /\ IsFraction(Total(s))
         /\ Is(Mean(s), Total(s)[1], Total(s)[2] * Len(s))
<1> DEFINE t == Total(s)
           n == Len(s)
<1>1. n \in Nat \ {0} /\ IsFraction(t)
  BY SequenceIs, TotalIs
<1>2. Mean(s) = Ratio(t[1], t[2] * n)
  BY DEF Mean, Over
<1> HIDE DEF t, n
<1>3. t[1] \in Nat /\ t[2] \in Nat /\ t[2] > 0
  BY <1>1 DEF IsFraction
<1>4. t[2] * n \in Nat \ {0}
  BY <1>1, <1>3, Product
<1>5. Is(Ratio(t[1], t[2] * n), t[1], t[2] * n)
  BY <1>3, <1>4, RatioIs
<1> QED
  BY <1>1, <1>2, <1>5 DEF t, n

(* A multiple of a fraction.                                               *)
LEMMA TimesIs ==
  ASSUME NEW f, IsFraction(f), NEW n \in Nat
  PROVE  Is(Times(f, n), f[1] * n, f[2])
<1>1. f[1] \in Nat /\ f[2] \in Nat \ {0}
  BY DEF IsFraction
<1>2. f[1] * n \in Nat
  BY <1>1, Product
<1> QED
  BY <1>1, <1>2, RatioIs DEF Times

(* Below and Reaches, by one relation.                                     *)
LEMMA BelowIs ==
  ASSUME NEW f, IsFraction(f), NEW g, IsFraction(g), NEW u \in BOOLEAN
  PROVE  Below(f, g, u) <=> IF u THEN ~Greater(f, g) ELSE Greater(g, f)
  BY AtLeastIs DEF Below

LEMMA ReachesIs ==
  ASSUME NEW f, IsFraction(f), NEW g, IsFraction(g), NEW u \in BOOLEAN
  PROVE  Reaches(f, g, u) <=> IF u THEN Greater(f, g) ELSE ~Greater(g, f)
  BY AtLeastIs DEF Reaches

(* What is reached clearly is reached either way.                          *)
LEMMA ReachesGrows ==
  ASSUME NEW f, IsFraction(f), NEW g, IsFraction(g)
  PROVE  \A u \in BOOLEAN : /\ Reaches(f, g, TRUE) => Reaches(f, g, u)
                            /\ Reaches(f, g, u) => Reaches(f, g, FALSE)
  BY DEF Reaches, Greater, AtLeast, IsFraction

(* A mean is below a floor when the total is below as many floors.          *)
LEMMA FloorIs ==
  ASSUME NEW f, IsFraction(f), NEW s, IsFraction(s), NEW n \in Nat \ {0},
         NEW mean, Is(mean, s[1], s[2] * n)
  PROVE  \A u \in BOOLEAN : Below(mean, f, u) <=> ~Reaches(s, Times(f, n), u)
<1>1. Is(f, f[1], f[2]) /\ Is(s, s[1], s[2]) /\ Is(Times(f, n), f[1] * n, f[2])
  BY FractionIs, TimesIs
<1>2. Greater(f, mean) <=> f[1] * (s[2] * n) > s[1] * f[2]
  BY <1>1, GreaterIs
<1>3. Greater(Times(f, n), s) <=> (f[1] * n) * s[2] > s[1] * f[2]
  BY <1>1, GreaterIs
<1>4. Greater(mean, f) <=> s[1] * f[2] > f[1] * (s[2] * n)
  BY <1>1, GreaterIs
<1>5. Greater(s, Times(f, n)) <=> s[1] * f[2] > (f[1] * n) * s[2]
  BY <1>1, GreaterIs
<1>6. f[1] * (s[2] * n) = (f[1] * n) * s[2]
  BY DEF IsFraction
<1>7. IsFraction(Times(f, n)) /\ IsFraction(mean)
  BY <1>1 DEF Is
<1>8. Greater(f, mean) <=> Greater(Times(f, n), s)
  BY <1>2, <1>3, <1>6
<1>9. Greater(mean, f) <=> Greater(s, Times(f, n))
  BY <1>4, <1>5, <1>6
<1>10. ASSUME NEW u \in BOOLEAN
       PROVE  /\ Below(mean, f, u) <=> IF u THEN ~Greater(mean, f) ELSE Greater(f, mean)
              /\ Reaches(s, Times(f, n), u)
                   <=> IF u THEN Greater(s, Times(f, n)) ELSE ~Greater(Times(f, n), s)
  BY <1>7, BelowIs, ReachesIs
<1> QED
  BY <1>8, <1>9, <1>10

(* A mean drops by more than the limit when the total drops by more than    *)
(* as many limits.                                                         *)
LEMMA DropIs ==
  ASSUME NEW d, IsFraction(d), NEW n \in Nat \ {0},
         NEW s, IsFraction(s), NEW was, Is(was, s[1], s[2] * n),
         NEW t, IsFraction(t), NEW now, Is(now, t[1], t[2] * n)
  PROVE  \A u \in BOOLEAN :
           Below(Plus(now, d), was, u) <=> ~Reaches(Plus(t, Times(d, n)), s, u)
<1> DEFINE s1 == s[1]
           s2 == s[2]
           t1 == t[1]
           t2 == t[2]
           d1 == d[1]
           d2 == d[2]
<1>1. /\ s1 \in Nat /\ s2 \in Nat /\ s2 > 0 /\ t1 \in Nat /\ t2 \in Nat /\ t2 > 0
      /\ d1 \in Nat /\ d2 \in Nat /\ d2 > 0 /\ n > 0
  BY DEF IsFraction
<1>2. Is(d, d1, d2) /\ Is(s, s1, s2) /\ Is(t, t1, t2) /\ Is(Times(d, n), d1 * n, d2)
  BY FractionIs, TimesIs
<1>3. Is(Plus(now, d), t1 * d2 + d1 * (t2 * n), (t2 * n) * d2)
  BY <1>2, PlusIs
<1>4. Is(Plus(t, Times(d, n)), t1 * d2 + (d1 * n) * t2, t2 * d2)
  BY <1>2, PlusIs
<1>5. /\ Greater(was, Plus(now, d)) <=>
           s1 * ((t2 * n) * d2) > (t1 * d2 + d1 * (t2 * n)) * (s2 * n)
      /\ Greater(Plus(now, d), was) <=>
           (t1 * d2 + d1 * (t2 * n)) * (s2 * n) > s1 * ((t2 * n) * d2)
  BY <1>3, GreaterIs
<1>6. /\ Greater(s, Plus(t, Times(d, n))) <=>
           s1 * (t2 * d2) > (t1 * d2 + (d1 * n) * t2) * s2
      /\ Greater(Plus(t, Times(d, n)), s) <=>
           (t1 * d2 + (d1 * n) * t2) * s2 > s1 * (t2 * d2)
  BY <1>2, <1>4, GreaterIs
<1>7. IsFraction(Plus(t, Times(d, n))) /\ IsFraction(Plus(now, d)) /\ IsFraction(was)
  BY <1>3, <1>4 DEF Is
<1> HIDE DEF s1, s2, t1, t2, d1, d2
<1> DEFINE x == s1 * (t2 * d2)
           v == t1 * d2 + (d1 * n) * t2
<1>8. x \in Nat /\ v \in Nat /\ v * s2 \in Nat
  <2>1. /\ t2 * d2 \in Nat /\ t1 * d2 \in Nat /\ d1 * n \in Nat
    BY <1>1, Product
  <2>2. x \in Nat /\ (d1 * n) * t2 \in Nat
    BY <1>1, <2>1, Product
  <2>3. v \in Nat
    BY <2>1, <2>2
  <2> HIDE DEF v
  <2> QED
    BY <1>1, <2>2, <2>3, Product
<1>9. s1 * ((t2 * n) * d2) = x * n /\ d1 * (t2 * n) = (d1 * n) * t2
  BY <1>1
<1> HIDE DEF x
<1>10. v * (s2 * n) = (v * s2) * n
  <2> HIDE DEF v
  <2> QED
    BY <1>1, <1>8
<1> DEFINE y == v * s2
<1> HIDE DEF y
<1>11. y \in Nat
  BY <1>8 DEF y
<1>12. (x * n > y * n <=> x > y) /\ (y * n > x * n <=> y > x)
  BY <1>1, <1>8, <1>11, Product
<1>13. Greater(was, Plus(now, d)) <=> Greater(s, Plus(t, Times(d, n)))
  BY <1>5, <1>6, <1>9, <1>10, <1>12 DEF x, y, s1, s2, t1, t2, d1, d2
<1>14. Greater(Plus(now, d), was) <=> Greater(Plus(t, Times(d, n)), s)
  BY <1>5, <1>6, <1>9, <1>10, <1>12 DEF x, y, s1, s2, t1, t2, d1, d2
<1> DEFINE goal == Plus(t, Times(d, n))
           less == Plus(now, d)
<1> HIDE DEF goal, less
<1>15. ASSUME NEW u \in BOOLEAN
       PROVE  /\ Below(less, was, u) <=> IF u THEN ~Greater(less, was) ELSE Greater(was, less)
              /\ Reaches(goal, s, u) <=> IF u THEN Greater(goal, s) ELSE ~Greater(s, goal)
  BY <1>7, BelowIs, ReachesIs DEF goal, less
<1>16. \A u \in BOOLEAN : Below(less, was, u) <=> ~Reaches(goal, s, u)
  BY <1>13, <1>14, <1>15 DEF goal, less
<1> QED
  BY <1>16 DEF goal, less

-----------------------------------------------------------------------------
(* The scores of an observation.                                           *)

(* Claims without repetition, one claim after the other.                    *)
LEMMA UniqueRuns ==
  ASSUME NEW C, NEW claims \in Seq(C)
  PROVE  \E u : /\ Unique(claims) = u[Len(claims)]
                /\ \A i \in 0..Len(claims) : u[i] \in Seq(C)
                /\ u[0] = <<>>
                /\ \A i \in 1..Len(claims) : u[i] = AddClaim(u[i - 1], claims[i])
<1> DEFINE N == Len(claims)
           S == Seq(C)
           K == [i \in 0..N |-> S]
           Eq(f) == f = [i \in 0..N |-> IF i = 0 THEN <<>> ELSE AddClaim(f[i - 1], claims[i])]
           unique == CHOOSE f : Eq(f)
           step == [i \in 1..N |-> [v \in S |-> AddClaim(v, claims[i])]]
<1>1. N \in Nat /\ <<>> \in S /\ \A i \in 0..N : K[i] = S
  BY LenProperties
<1>2. ASSUME NEW v \in S, NEW i \in 1..N PROVE AddClaim(v, claims[i]) \in S
  <2>1. claims[i] \in C
    BY Items
  <2> QED
    BY <2>1, AppendProperties DEF AddClaim
<1>3. \A i \in 1..N : \A v \in S : step[i][v] = AddClaim(v, claims[i])
  OBVIOUS
<1>4. \A i \in 1..N : i \in 0..N /\ i - 1 \in 0..N /\ i # 0
  BY <1>1
<1>5. \A i \in 0..N : i # 0 => i \in 1..N /\ i - 1 \in 0..N
  BY <1>1
<1>6. Unique(claims) = unique[N]
  BY Zenon DEF Unique
<1> HIDE DEF K, step, S
<1>7. Keeps(step, K, N)
  <2>1. ASSUME NEW i \in 1..N PROVE \A v \in K[i - 1] : step[i][v] \in K[i]
    BY <1>1, <1>2, <1>3, <1>4
  <2> QED
    BY <2>1 DEF Keeps
<1>8. \E X : \E g \in [0..N -> X] : Along(g, N, <<>>, step, K)
  <2> DEFINE start == <<>>
  <2>1. start \in K[0]
    BY <1>1
  <2> HIDE DEF start
  <2>2. \E X : \E g \in [0..N -> X] : Along(g, N, start, step, K)
    BY <1>1, <1>7, <2>1, FoldExists
  <2> QED
    BY <2>2 DEF start
<1>9. \E g : Eq(g)
  <2> PICK X : \E g \in [0..N -> X] : Along(g, N, <<>>, step, K)
    BY <1>8
  <2> PICK g \in [0..N -> X] : Along(g, N, <<>>, step, K)
    OBVIOUS
  <2>1. \A i \in 0..N : g[i] = IF i = 0 THEN <<>> ELSE AddClaim(g[i - 1], claims[i])
    BY <1>1, <1>3, <1>5 DEF Along
  <2>2. Eq(g)
    BY <2>1
  <2> QED
    BY <2>2
<1>10. Eq(unique)
  BY <1>9
<1> HIDE DEF unique
<1>11. \A i \in 0..N : unique[i] = IF i = 0 THEN <<>> ELSE AddClaim(unique[i - 1], claims[i])
  BY <1>10
<1>12. \A i \in 0..N : unique[i] \in K[i]
  <2>1. Follows(unique, N, step, K)
    BY <1>1, <1>3, <1>4, <1>11 DEF Follows
  <2>2. unique[0] \in K[0]
    BY <1>1, <1>11
  <2> QED
    BY <1>1, <1>7, <2>1, <2>2, FoldKept
<1>13. /\ \A i \in 0..N : unique[i] \in Seq(C)
       /\ unique[0] = <<>> /\ \A i \in 1..N : unique[i] = AddClaim(unique[i - 1], claims[i])
  <2>1. 0 \in 0..N
    BY <1>1
  <2> QED
    BY <1>1, <1>4, <1>11, <1>12, <2>1 DEF S
<1> QED
  BY <1>6, <1>13

(* Claims without repetition.                                              *)
LEMMA UniqueTyped ==
  ASSUME NEW C, NEW claims \in Seq(C)
  PROVE  Unique(claims) \in Seq(C)
<1>1. Len(claims) \in Nat /\ Len(claims) \in 0..Len(claims)
  BY LenProperties
<1> QED
  BY <1>1, UniqueRuns

(* The sentences of a text.                                                *)
LEMMA SaidTyped ==
  ASSUME NEW W, NEW text \in Seq(W)
  PROVE  Said(text) \in Seq(Seq(W))
<1> DEFINE N == Len(text)
           S == Seq(Seq(W))
           K == [i \in 0..N |-> {v \in S : i # 0 => v # <<>>}]
           Eq(f) == f = [i \in 0..N |-> IF i = 0 THEN <<>> ELSE Say(f[i - 1], text, i)]
           said == CHOOSE f : Eq(f)
           step == [i \in 1..N |-> [v \in K[i - 1] |-> Say(v, text, i)]]
<1>1. N \in Nat /\ <<>> \in K[0] /\ (\A v \in K[N] : v \in S)
      /\ \A i \in 1..N : text[i] \in W
  BY LenProperties, Items
<1>2. ASSUME NEW i \in 1..N, NEW v \in K[i - 1] PROVE Say(v, text, i) \in K[i]
  <2>1. v \in S /\ text[i] \in W /\ (i > 1 => v # <<>>) /\ i \in 0..N /\ i # 0
    BY <1>1
  <2>2. CASE i > 1 /\ Last(text[i - 1]) # Stop
    <3>1. Say(v, text, i) = Extended(v, text[i])
      BY <2>2 DEF Say
    <3> QED
      BY <2>1, <2>2, <3>1, ExtendedIs
  <2>3. CASE ~(i > 1 /\ Last(text[i - 1]) # Stop)
    <3>1. Say(v, text, i) = Append(v, <<text[i]>>)
      BY <2>3 DEF Say
    <3> DEFINE x == text[i]
    <3>2. x \in W
      BY <2>1
    <3> HIDE DEF x
    <3>3. Append(v, <<x>>) \in S /\ Append(v, <<x>>) # <<>>
      BY <2>1, <3>2, OpenedIs
    <3> QED
      BY <2>1, <3>1, <3>3 DEF x
  <2> QED
    BY <2>2, <2>3
<1>3. \A i \in 1..N : \A v \in K[i - 1] : step[i][v] = Say(v, text, i)
  OBVIOUS
<1>4. \A i \in 1..N : i \in 0..N /\ i - 1 \in 0..N /\ i # 0
  BY <1>1
<1>5. \A i \in 0..N : i # 0 => i \in 1..N /\ i - 1 \in 0..N
  BY <1>1
<1>6. Said(text) = said[N]
  BY Zenon DEF Said
<1> HIDE DEF K, step, S
<1>7. Keeps(step, K, N)
  BY <1>2, <1>3 DEF Keeps
<1>8. \E X : \E g \in [0..N -> X] : Along(g, N, <<>>, step, K)
  <2> DEFINE start == <<>>
  <2>1. start \in K[0]
    BY <1>1
  <2> HIDE DEF start
  <2>2. \E X : \E g \in [0..N -> X] : Along(g, N, start, step, K)
    BY <1>1, <1>7, <2>1, FoldExists
  <2> QED
    BY <2>2 DEF start
<1>9. \E g : Eq(g)
  <2> PICK X : \E g \in [0..N -> X] : Along(g, N, <<>>, step, K)
    BY <1>8
  <2> PICK g \in [0..N -> X] : Along(g, N, <<>>, step, K)
    OBVIOUS
  <2>1. \A i \in 0..N : g[i] = IF i = 0 THEN <<>> ELSE Say(g[i - 1], text, i)
    BY <1>3, <1>5 DEF Along
  <2>2. Eq(g)
    BY <2>1
  <2> QED
    BY <2>2
<1>10. Eq(said)
  BY <1>9
<1> HIDE DEF said
<1>11. \A i \in 0..N : said[i] = IF i = 0 THEN <<>> ELSE Say(said[i - 1], text, i)
  BY <1>10
<1>12. \A i \in 0..N : said[i] \in K[i]
  <2>1. Follows(said, N, step, K)
    BY <1>3, <1>4, <1>11 DEF Follows
  <2>2. said[0] \in K[0]
    BY <1>1, <1>11
  <2> QED
    BY <1>1, <1>7, <2>1, <2>2, FoldKept
<1>13. N \in 0..N
  BY <1>1
<1> QED
  BY <1>1, <1>6, <1>12, <1>13 DEF S

(* The claims of an answer are a sequence.                                *)
LEMMA ClaimsAre ==
  ASSUME NEW reply, Sequence(reply.citations), Sequence(reply.text)
  PROVE  Sequence(Claims(reply))
<1>1. Sequence(<<>>)
  BY EmptyIs
<1> DEFINE c == [i \in DOMAIN reply.citations |-> reply.citations[i].claim]
           n == Len(reply.citations)
<1>2. n \in Nat /\ c = [i \in 1..n |-> c[i]]
  BY SequenceIs
<1>3. CitedClaims(reply) = Without(c, <<>>)
  BY DEF CitedClaims
<1> HIDE DEF c
<1>4. Sequence(c)
  BY <1>2, IsSequence
<1>5. CitedClaims(reply) \in Seq(ToSet(c))
  <2> DEFINE T == ToSet(c)
  <2>1. c \in Seq(T)
    BY <1>4 DEF Sequence
  <2> HIDE DEF T
  <2> QED
    BY <1>3, <2>1, WithoutTyped DEF T
<1>6. Unique(CitedClaims(reply)) \in Seq(ToSet(c))
  BY <1>5, UniqueTyped
<1>7. Sequence(Unique(Said(reply.text)))
  <2> DEFINE W == ToSet(reply.text)
  <2>1. reply.text \in Seq(W)
    BY DEF Sequence
  <2> HIDE DEF W
  <2>2. Said(reply.text) \in Seq(Seq(W))
    BY <2>1, SaidTyped
  <2> QED
    BY <2>2, UniqueTyped, Items
<1> QED
  BY <1>1, <1>6, <1>7, Items DEF Claims

(* Faithfulness is a fraction.                                             *)
LEMMA FaithfulnessIs ==
  ASSUME NEW claims, Sequence(claims), NEW refusal, NEW texts
  PROVE  IsFraction(FaithfulnessOf(claims, refusal, texts))
<1>1. IsFraction(One) /\ IsFraction(Zero) /\ IsFraction(<<1, 2>>)
  BY DEF IsFraction, One, Zero
<1>2. CASE claims = <<>>
  BY <1>1, <1>2 DEF FaithfulnessOf
<1>3. CASE claims # <<>>
  <2> DEFINE s == [i \in DOMAIN claims |-> Support(claims[i], texts)]
             n == Len(claims)
  <2>1. n \in Nat /\ DOMAIN claims = 1..n /\ n # 0
    BY <1>3, SequenceIs, EmptySeq DEF Sequence
  <2>2. s = [i \in 1..n |-> s[i]]
    BY <2>1
  <2>3. \A i \in 1..n : IsFraction(s[i])
    BY <1>1, <2>1 DEF Support
  <2>4. FaithfulnessOf(claims, refusal, texts) = Mean(s)
    BY <1>3 DEF FaithfulnessOf
  <2> HIDE DEF s, n
  <2>5. Sequence(s) /\ Len(s) = n
    BY <2>1, <2>2, IsSequence
  <2>6. IsFraction(Mean(s))
    BY <2>1, <2>3, <2>5, MeanIs DEF Is
  <2> QED
    BY <2>4, <2>6
<1> QED
  BY <1>2, <1>3

(* The tokens of a text are finitely many.                                 *)
LEMMA FewTokens ==
  ASSUME NEW text, Sequence(text) PROVE IsFiniteSet(Tokens(text))
<1> DEFINE s == [i \in DOMAIN text |-> Bare(text[i])]
<1>1. Len(text) \in Nat /\ DOMAIN text = 1..Len(text)
  BY SequenceIs
<1>2. s = [i \in 1..Len(text) |-> s[i]] /\ ToSet(s) = {Bare(text[i]) : i \in DOMAIN text}
  BY <1>1 DEF ToSet
<1> HIDE DEF s
<1>3. Sequence(s)
  BY <1>1, <1>2, IsSequence
<1>4. IsFiniteSet(ToSet(s))
  BY <1>3, FiniteValues
<1> QED
  BY <1>2, <1>4 DEF Tokens

(* The share of a set in another.                                          *)
LEMMA ShareIs ==
  ASSUME NEW S, NEW T, IsFiniteSet(T), T # {}
  PROVE  IsFraction(Ratio(Cardinality(S \cap T), Cardinality(T)))
<1>1. IsFiniteSet(S \cap T)
  BY FS_Subset
<1>2. Cardinality(S \cap T) \in Nat /\ Cardinality(T) \in Nat /\ Cardinality(T) # 0
  BY <1>1, FS_CardinalityType, FS_EmptySet
<1> QED
  BY <1>2, RatioIs DEF Is

(* An observation as the evaluation needs it.                              *)
IsObservation(o) ==
  /\ Sequence(o.example.supporting) /\ Sequence(o.example.question) /\ Sequence(o.example.reference)
  /\ Sequence(o.answer.citations) /\ Sequence(o.answer.text) /\ Sequence(o.retrieved)

(* A record of an evaluation.                                              *)
IsRecord(r) == \A m \in Metrics : IsFraction(r.scores[m])

(* EvaluationEngine.evaluate: scores are fractions.                        *)
LEMMA RecordIs ==
  ASSUME NEW o, IsObservation(o)
  PROVE  IsRecord(RecordOf(o)) /\ RecordOf(o).id = o.example.id
<1> DEFINE retrieved == ToSet(o.retrieved)
           supporting == ToSet(o.example.supporting)
           target == Tokens(o.example.question) \cup Tokens(o.example.reference)
           scores == ScoresOf(o.example, o.answer, retrieved, o.context)
<1>1. IsFraction(One) /\ IsFraction(Zero)
  BY DEF IsFraction, One, Zero
<1>2. IsFiniteSet(retrieved) /\ IsFiniteSet(supporting)
  BY FiniteValues DEF IsObservation
<1>3. IsFiniteSet(target)
  BY FewTokens, FS_Union DEF IsObservation
<1>4. RecordOf(o).scores = scores /\ RecordOf(o).id = o.example.id
  BY DEF RecordOf, Judged
<1>5. scores = [context_precision |-> Precision(retrieved, supporting),
                context_recall |-> Recall(retrieved, supporting),
                faithfulness |-> FaithfulnessOf(Claims(o.answer), o.answer.refusal,
                                                Texts(o.context)),
                answer_relevancy |-> Relevancy(Tokens(o.answer.text), target)]
  BY DEF ScoresOf
<1> HIDE DEF retrieved, supporting, target, scores
<1>6. retrieved \cap supporting = supporting \cap retrieved
  OBVIOUS
<1>7. IsFraction(Precision(retrieved, supporting))
  BY <1>1, <1>2, <1>6, ShareIs DEF Precision
<1>8. IsFraction(Recall(retrieved, supporting))
  BY <1>1, <1>2, ShareIs DEF Recall
<1>9. IsFraction(FaithfulnessOf(Claims(o.answer), o.answer.refusal, Texts(o.context)))
  BY ClaimsAre, FaithfulnessIs DEF IsObservation
<1>10. IsFraction(Relevancy(Tokens(o.answer.text), target))
  BY <1>1, <1>3, ShareIs DEF Relevancy
<1>11. \A m \in Metrics : IsFraction(scores[m])
  BY <1>5, <1>7, <1>8, <1>9, <1>10 DEF Metrics
<1> QED
  BY <1>4, <1>11 DEF IsRecord

-----------------------------------------------------------------------------
(* The examples by id.                                                    *)

(* load_evaluation_jsonl: an accepted data set has every id once; the        *)
(* examples by id are its examples, each once.                             *)
LEMMA ByIdIs ==
  ASSUME NEW ds, IsDataset(ds), ~InvalidDataset(ds)
  PROVE  /\ Sequence(ById(ds)) /\ ToSet(ById(ds)) = ToSet(ds)
         /\ Len(ById(ds)) = Cardinality(ToSet(ds))
         /\ \A i, j \in 1..Len(ById(ds)) : ById(ds)[i].id = ById(ds)[j].id => i = j
         /\ \A e, f \in ToSet(ds) : e.id = f.id => e = f
<1> DEFINE S == ToSet(ds)
           n == Cardinality(S)
           below == [x \in S |-> {y \in S : y.id < x.id}]
           F(i) == CHOOSE x \in S : Cardinality({y \in S : y.id < x.id}) = i - 1
           at == [i \in 1..n |-> F(i)]
<1>1. ds \in Seq(S) /\ \A e \in S : e.id \in Nat
  BY DEF IsDataset, IsList
<1>2. Sequence(ds)
  BY <1>1 DEF Sequence
<1>3. \A e, f \in S : e.id = f.id => e = f
  <2>1. \A i, j \in DOMAIN ds : i # j => ds[i].id # ds[j].id
    BY DEF InvalidDataset
  <2>2. S = {ds[i] : i \in DOMAIN ds}
    BY DEF ToSet
  <2> QED
    BY <2>1, <2>2
<1>4. IsFiniteSet(S) /\ n \in Nat
  BY <1>2, FiniteValues, FS_CardinalityType
<1>5. ById(ds) = at
  BY DEF ById, Ordered
<1> HIDE DEF S
<1>6. \A x, y \in S : y \in below[x] <=> y.id < x.id
  OBVIOUS
<1>7. \A x \in S : below[x] = {y \in S : y.id < x.id}
  OBVIOUS
<1>8. below \in [S -> SUBSET S]
  OBVIOUS
<1> HIDE DEF below
<1>9. IsOrder(S, below)
  BY <1>1, <1>3, <1>4, <1>6, <1>8 DEF IsOrder
<1>10. ASSUME NEW i \in 1..n, NEW x \in S, Cardinality(below[x]) = i - 1
       PROVE  at[i] \in S /\ Cardinality(below[at[i]]) = i - 1
  <2>1. Cardinality({y \in S : y.id < x.id}) = i - 1
    BY <1>7, <1>10
  <2>2. at[i] = F(i)
    OBVIOUS
  <2>3. F(i) \in S /\ Cardinality({y \in S : y.id < F(i).id}) = i - 1
    BY <2>1
  <2> HIDE DEF at, F
  <2> QED
    BY <1>7, <2>2, <2>3
<1> HIDE DEF F
<1>11. at = [i \in 1..n |-> at[i]]
  OBVIOUS
<1> HIDE DEF at
<1>12. PlacesIn(at, S, below)
  BY <1>10, <1>11 DEF PlacesIn
<1>13. /\ Sequence(at) /\ Len(at) = n /\ ToSet(at) = S
       /\ \A i, j \in 1..Len(at) : at[i] = at[j] => i = j
  BY <1>9, <1>12, SortedIs
<1>14. \A i \in 1..Len(at) : at[i] \in S
  BY <1>13, SequenceIs
<1>15. \A i, j \in 1..Len(at) : at[i].id = at[j].id => i = j
  BY <1>3, <1>13, <1>14
<1> QED
  BY <1>3, <1>5, <1>13, <1>15 DEF S

-----------------------------------------------------------------------------
(* The slices of a run file.                                               *)

(* A run over an accepted data set, with records of its examples.          *)
Known(r) ==
  /\ r.dataset \in DOMAIN plan.datasets /\ ~InvalidDataset(plan.datasets[r.dataset])
  /\ Sequence(r.records)
  /\ \A record \in ToSet(r.records) :
       /\ IsRecord(record)
       /\ \E e \in ToSet(ById(plan.datasets[r.dataset])) : record.id = e.id
  /\ r.slices = Slices(r.records, SliceDomains(ById(plan.datasets[r.dataset])))

DomainsIn(r) == SliceDomains(ById(plan.datasets[r.dataset]))

(* Records are in the domains of their examples.                           *)
LEMMA OfIs ==
  ASSUME plan \in Plans, NEW r, Known(r), NEW d
  PROVE  Of(r, d) = InDomain(r.records, DomainsIn(r), d)
<1> DEFINE ds == plan.datasets[r.dataset]
           E == ToSet(ById(ds))
<1>1. IsDataset(ds) /\ ~InvalidDataset(ds)
  BY PlanAssumption DEF Known
<1>2. /\ E \subseteq ToSet(ds)
      /\ \A e, f \in ToSet(ds) : e.id = f.id => e = f
  BY <1>1, ByIdIs
<1>3. ASSUME NEW record \in ToSet(r.records)
      PROVE  record.id \in IdsIn(r, d) <=> d \in {Everything, DomainsIn(r)[record.id]}
  <2>1. PICK e \in E : record.id = e.id
    BY DEF Known
  <2>2. \A f \in ToSet(ds) : f.id = record.id <=> f = e
    BY <1>2, <2>1
  <2>3. DomainsIn(r)[record.id] = e.domain
    <3>1. e = CHOOSE f \in E : f.id = record.id
      BY <1>2, <2>1, <2>2
    <3>2. record.id \in {f.id : f \in E}
      BY <2>1
    <3>3. DomainsIn(r) = [id \in {f.id : f \in E} |-> (CHOOSE f \in E : f.id = id).domain]
      BY DEF DomainsIn, SliceDomains
    <3> HIDE DEF E
    <3> QED
      BY <3>1, <3>2, <3>3
  <2>4. record.id \in IdsIn(r, d) <=> d \in {Everything, e.domain}
    <3>1. e \in ToSet(ds)
      BY <1>2
    <3>2. Examples(r) = ToSet(ds)
      BY DEF Examples
    <3> HIDE DEF ds, E
    <3> QED
      BY <2>1, <2>2, <3>1, <3>2 DEF IdsIn
  <2> QED
    BY <2>3, <2>4
<1>4. {record \in ToSet(r.records) : record.id \in IdsIn(r, d)}
        = {record \in ToSet(r.records) : d \in {Everything, DomainsIn(r)[record.id]}}
  BY <1>3
<1> QED
  BY <1>4 DEF Of, InDomain

(* aggregate_metric_slices: the slices there are and what is in them.       *)
LEMMA SlicesAre ==
  ASSUME plan \in Plans, NEW r, Known(r), NEW m, NEW d
  PROVE  /\ Sequence(Of(r, d)) /\ \A k \in 1..Len(Of(r, d)) : IsRecord(Of(r, d)[k])
         /\ <<m, d>> \in DOMAIN r.slices <=> m \in Sliced /\ (d = Everything \/ Of(r, d) # <<>>)
         /\ <<m, d>> \in DOMAIN r.slices => r.slices[<<m, d>>] = SliceOf(Of(r, d), m)
<1> DEFINE doms == DomainsIn(r)
           S == ToSet(r.records)
           T == {rec \in S : d \in {Everything, doms[rec.id]}}
           here == Of(r, d)
           keys == Sliced \X ({Everything} \cup {doms[rec.id] : rec \in S})
<1>1. here = Only(r.records, T) /\ here = InDomain(r.records, doms, d)
  BY OfIs DEF InDomain
<1>2. Sequence(r.records) /\ \A rec \in S : IsRecord(rec)
  BY DEF Known
<1>3. r.slices = [key \in keys |-> SliceOf(InDomain(r.records, doms, key[2]), key[1])]
  BY DEF Known, Slices, DomainsIn
<1>4. Len(r.records) \in Nat /\ S = {r.records[i] : i \in 1..Len(r.records)}
  BY <1>2, SequenceIs
<1> HIDE DEF here, doms
<1>5. PICK at : Picks(here, r.records, Len(r.records), T, at)
  BY <1>1, <1>2, OnlyIs
<1>6. Sequence(here) /\ \A k \in 1..Len(here) : IsRecord(here[k])
  BY <1>2, <1>5 DEF Picks
<1>7. here # <<>> <=> T # {}
  <2>1. ASSUME here # <<>> PROVE T # {}
    <3>1. Len(here) \in Nat /\ Len(here) # 0
      BY <1>6, <2>1, SequenceIs, EmptySeq DEF Sequence
    <3>2. 1 \in 1..Len(here)
      BY <3>1
    <3> QED
      BY <1>5, <3>2 DEF Picks
  <2>2. ASSUME NEW rec \in T PROVE here # <<>>
    <3>1. PICK i \in 1..Len(r.records) : rec = r.records[i]
      BY <1>4
    <3>2. \E k \in 1..Len(here) : at[k] = i
      BY <1>5, <3>1 DEF Picks
    <3> QED
      BY <3>2, EmptyIs
  <2> QED
    BY <2>1, <2>2
<1>8. <<m, d>> \in keys <=> m \in Sliced /\ (d = Everything \/ T # {})
  BY DEF Sliced
<1>9. <<m, d>> \in keys => r.slices[<<m, d>>] = SliceOf(InDomain(r.records, doms, d), m)
  BY <1>3
<1> QED
  BY <1>1, <1>3, <1>6, <1>7, <1>8, <1>9 DEF here

(* The sum of a slice, and its mean.                                       *)
LEMMA SumIs ==
  ASSUME NEW s, Sequence(s), \A k \in 1..Len(s) : IsRecord(s[k]), NEW m \in Sliced,
         Len(s) # 0
  PROVE  /\ SliceOf(s, m).count = Len(s) /\ Len(s) \in Nat \ {0}
         /\ IsFraction(Sums(s, m))
         /\ Is(SliceOf(s, m).mean, Sums(s, m)[1], Sums(s, m)[2] * Len(s))
<1> DEFINE f == [i \in DOMAIN s |-> ResultOf(s[i], m)]
<1>1. Len(s) \in Nat /\ DOMAIN s = 1..Len(s)
  BY SequenceIs
<1>2. f = [i \in 1..Len(s) |-> f[i]]
  BY <1>1
<1>3. \A i \in 1..Len(s) : IsFraction(f[i])
  <2>1. IsFraction(One) /\ IsFraction(Zero)
    BY DEF IsFraction, One, Zero
  <2> QED
    BY <1>1, <2>1 DEF ResultOf, IsRecord, Sliced
<1>4. Sums(s, m) = Total(f) /\ SliceOf(s, m).mean = Mean(f) /\ SliceOf(s, m).count = Len(s)
  BY DEF Sums, SliceOf
<1> HIDE DEF f
<1>5. Sequence(f) /\ Len(f) = Len(s)
  BY <1>1, <1>2, IsSequence
<1> QED
  BY <1>1, <1>3, <1>4, <1>5, MeanIs

(* compare_metric_slices: a threshold is violated when the records do not   *)
(* meet it.                                                                *)
LEMMA StatusIs ==
  ASSUME plan \in Plans, NEW a, Known(a), NEW b, Known(b), NEW t, IsThreshold(t)
  PROVE  /\ \A u \in BOOLEAN :
              Status(a.slices, b.slices, t, u) \in Violating <=> ~Meets(a, b, t, u)
         /\ \A u \in BOOLEAN : /\ Meets(a, b, t, TRUE) => Meets(a, b, t, u)
                              /\ Meets(a, b, t, u) => Meets(a, b, t, FALSE)
<1> DEFINE m == t.slice[1]
           d == t.slice[2]
           key == <<m, d>>
           A == Of(a, d)
           B == Of(b, d)
           was == a.slices[key]
           is == b.slices[key]
<1>1. t.slice = key /\ t.min_samples \in Nat \ {0} /\ IsFraction(t.max_drop)
      /\ (t.min_score = <<>> \/ IsFraction(t.min_score))
  BY DEF IsThreshold
<1>2. /\ Sequence(A) /\ \A k \in 1..Len(A) : IsRecord(A[k])
      /\ key \in DOMAIN a.slices <=> m \in Sliced /\ (d = Everything \/ A # <<>>)
      /\ key \in DOMAIN a.slices => was = SliceOf(A, m)
  BY SlicesAre
<1>3. /\ Sequence(B) /\ \A k \in 1..Len(B) : IsRecord(B[k])
      /\ key \in DOMAIN b.slices <=> m \in Sliced /\ (d = Everything \/ B # <<>>)
      /\ key \in DOMAIN b.slices => is = SliceOf(B, m)
  BY SlicesAre
<1>4. \A u : Meets(a, b, t, u) <=>
        /\ m \in Sliced /\ A # <<>> /\ Len(A) = Len(B) /\ Len(B) >= t.min_samples
        /\ t.min_score # <<>> => Reaches(Sums(B, m), Times(t.min_score, Len(B)), u)
        /\ Reaches(Plus(Sums(B, m), Times(t.max_drop, Len(B))), Sums(A, m), u)
  BY DEF Meets
<1>5. \A u : Status(a.slices, b.slices, t, u) =
        IF key \notin DOMAIN a.slices \cap DOMAIN b.slices THEN "missing_metric"
        ELSE IF ~Comparable(was, is, t) THEN "sample_size_mismatch"
        ELSE IF Degrades(was, is, t, u) THEN "degradation"
        ELSE IF Below(was.mean, is.mean, u) THEN "improvement" ELSE "stable"
  BY <1>1 DEF Status
<1>6. /\ Len(A) \in Nat /\ Len(B) \in Nat
      /\ A = <<>> <=> Len(A) = 0
      /\ B = <<>> <=> Len(B) = 0
  BY <1>2, <1>3, LenProperties, EmptySeq DEF Sequence
<1> DEFINE present == key \in DOMAIN a.slices /\ key \in DOMAIN b.slices
<1>7. \A u : Status(a.slices, b.slices, t, u) \in Violating <=>
        ~present \/ ~Comparable(was, is, t) \/ Degrades(was, is, t, u)
  BY <1>5 DEF Violating
<1> HIDE DEF key, m, d, A, B, was, is
<1>8. CASE ~(m \in Sliced /\ A # <<>> /\ Len(A) = Len(B) /\ Len(B) >= t.min_samples)
  <2>1. \A u : ~Meets(a, b, t, u)
    BY <1>4, <1>8
  <2>2. ASSUME present PROVE ~Comparable(was, is, t)
    <3>1. m \in Sliced /\ was = SliceOf(A, m) /\ is = SliceOf(B, m)
      BY <1>2, <1>3, <2>2
    <3>2. was.count = Len(A) /\ is.count = Len(B)
      BY <3>1 DEF SliceOf
    <3> QED
      BY <1>1, <1>6, <1>8, <3>1, <3>2 DEF Comparable
  <2> QED
    BY <1>7, <2>1, <2>2
<1>9. CASE m \in Sliced /\ A # <<>> /\ Len(A) = Len(B) /\ Len(B) >= t.min_samples
  <2> DEFINE n == Len(B)
             sA == Sums(A, m)
             sB == Sums(B, m)
  <2>1. present /\ was = SliceOf(A, m) /\ is = SliceOf(B, m) /\ Len(A) # 0 /\ Len(B) # 0
    BY <1>2, <1>3, <1>6, <1>9
  <2>2. /\ was.count = n /\ is.count = n /\ n \in Nat \ {0}
        /\ IsFraction(sA) /\ IsFraction(sB)
        /\ Is(was.mean, sA[1], sA[2] * n) /\ Is(is.mean, sB[1], sB[2] * n)
    BY <1>2, <1>3, <1>9, <2>1, SumIs
  <2> HIDE DEF n, sA, sB, present
  <2>3. Comparable(was, is, t)
    BY <1>1, <1>9, <2>2 DEF Comparable, n
  <2>4. ASSUME NEW u \in BOOLEAN
        PROVE  Status(a.slices, b.slices, t, u) \in Violating <=> ~Meets(a, b, t, u)
    <3>1. IsFraction(t.min_score) =>
            (Below(is.mean, t.min_score, u) <=> ~Reaches(sB, Times(t.min_score, n), u))
      BY <2>2, FloorIs
    <3>2. Below(Plus(is.mean, t.max_drop), was.mean, u)
            <=> ~Reaches(Plus(sB, Times(t.max_drop, n)), sA, u)
      BY <1>1, <2>2, DropIs
    <3>3. Degrades(was, is, t, u) <=>
            ~(/\ t.min_score # <<>> => Reaches(sB, Times(t.min_score, n), u)
              /\ Reaches(Plus(sB, Times(t.max_drop, n)), sA, u))
      BY <1>1, <3>1, <3>2 DEF Degrades
    <3> QED
      BY <1>4, <1>7, <1>9, <2>1, <2>3, <3>3 DEF n, sA, sB
  <2>5. ASSUME NEW u \in BOOLEAN
        PROVE  /\ Meets(a, b, t, TRUE) => Meets(a, b, t, u)
               /\ Meets(a, b, t, u) => Meets(a, b, t, FALSE)
    <3> DEFINE R(v) == t.min_score # <<>> => Reaches(sB, Times(t.min_score, n), v)
               Q(v) == Reaches(Plus(sB, Times(t.max_drop, n)), sA, v)
    <3>1. (R(TRUE) => R(u)) /\ (R(u) => R(FALSE))
      <4>1. CASE t.min_score = <<>>
        BY <4>1
      <4>2. CASE IsFraction(t.min_score)
        <5>1. IsFraction(Times(t.min_score, n))
          BY <2>2, <4>2, TimesIs DEF Is
        <5>2. \A v \in BOOLEAN :
                /\ Reaches(sB, Times(t.min_score, n), TRUE) => Reaches(sB, Times(t.min_score, n), v)
                /\ Reaches(sB, Times(t.min_score, n), v) => Reaches(sB, Times(t.min_score, n), FALSE)
          BY <2>2, <5>1, ReachesGrows
        <5> QED
          BY <5>2
      <4> QED
        BY <1>1, <4>1, <4>2
    <3>2. IsFraction(Plus(sB, Times(t.max_drop, n)))
      <4>1. PICK x, y : Is(Times(t.max_drop, n), x, y)
        BY <1>1, <2>2, TimesIs
      <4>2. Is(Plus(sB, Times(t.max_drop, n)), sB[1] * y + x * sB[2], sB[2] * y)
        BY <2>2, <4>1, FractionIs, PlusIs
      <4> QED
        BY <4>2 DEF Is
    <3>3. (Q(TRUE) => Q(u)) /\ (Q(u) => Q(FALSE))
      BY <2>2, <3>2, ReachesGrows
    <3>4. \A v : Meets(a, b, t, v) <=> R(v) /\ Q(v)
      BY <1>4, <1>9 DEF n, sA, sB
    <3> HIDE DEF R, Q
    <3> QED
      BY <3>1, <3>3, <3>4
  <2> QED
    BY <2>4, <2>5
<1>10. \A u : ~(m \in Sliced /\ A # <<>> /\ Len(A) = Len(B) /\ Len(B) >= t.min_samples)
                => ~Meets(a, b, t, u)
  BY <1>4
<1> QED
  BY <1>8, <1>9, <1>10

-----------------------------------------------------------------------------
(* What the gate finds.                                                    *)

(* evaluation_gate: with one of three answers flagged, the floors decide.   *)
LEMMA GateIs ==
  ASSUME NEW s, Sequence(s), \A k \in 1..Len(s) : IsRecord(s[k]), Len(s) = 3, Flagged(s) = 1
  PROVE  /\ \A unlucky : GateViolations(Aggregates(s), HallucinationSummary(s), unlucky) = {} <=>
              \A m \in Metrics : Reaches(Sums(s, m), Times(Minimums[m], 3), m \in unlucky)
         /\ \A m \in Metrics : \A u \in BOOLEAN :
              /\ Reaches(Sums(s, m), Times(Minimums[m], 3), TRUE)
                   => Reaches(Sums(s, m), Times(Minimums[m], 3), u)
              /\ Reaches(Sums(s, m), Times(Minimums[m], 3), u)
                   => Reaches(Sums(s, m), Times(Minimums[m], 3), FALSE)
<1> DEFINE h == HallucinationSummary(s)
           g == Aggregates(s)
<1>1. h.total = 3 /\ h.rate = Ratio(1, 3)
  BY DEF HallucinationSummary
<1>2. ~Greater(Ratio(1, 3), <<17, 50>>)
  <2>1. Is(Ratio(1, 3), 1, 3) /\ Is(<<17, 50>>, 17, 50)
    BY RatioIs, FractionIs DEF IsFraction
  <2>2. Greater(Ratio(1, 3), <<17, 50>>) <=> 1 * 50 > 17 * 3
    BY <2>1, GreaterIs
  <2> QED
    BY <2>2
<1> HIDE DEF h, g
<1>3. \A unlucky : GateViolations(g, h, unlucky) = BelowFloor(g, unlucky)
  BY <1>1, <1>2 DEF GateViolations, When
<1>4. ASSUME NEW m \in Metrics
      PROVE  /\ \A u \in BOOLEAN :
                  Below(g[m].mean, Minimums[m], u)
                    <=> ~Reaches(Sums(s, m), Times(Minimums[m], 3), u)
             /\ \A u \in BOOLEAN :
                  /\ Reaches(Sums(s, m), Times(Minimums[m], 3), TRUE)
                       => Reaches(Sums(s, m), Times(Minimums[m], 3), u)
                  /\ Reaches(Sums(s, m), Times(Minimums[m], 3), u)
                       => Reaches(Sums(s, m), Times(Minimums[m], 3), FALSE)
  <2>1. m \in Sliced /\ m # "hallucination" /\ IsFraction(Minimums[m])
    BY DEF Sliced, Metrics, Minimums, IsFraction
  <2>2. g[m].mean = SliceOf(s, m).mean
    <3>1. \A i \in DOMAIN s : ResultOf(s[i], m) = s[i].scores[m]
      BY <2>1 DEF ResultOf
    <3>2. [i \in DOMAIN s |-> ResultOf(s[i], m)] = [i \in DOMAIN s |-> s[i].scores[m]]
      BY <3>1
    <3> QED
      BY <3>2 DEF g, Aggregates, SliceOf
  <2>3. /\ IsFraction(Sums(s, m))
        /\ Is(g[m].mean, Sums(s, m)[1], Sums(s, m)[2] * 3)
    <3> DEFINE n == Len(s)
    <3>1. n # 0 /\ n = 3
      OBVIOUS
    <3>2. /\ IsFraction(Sums(s, m))
          /\ Is(SliceOf(s, m).mean, Sums(s, m)[1], Sums(s, m)[2] * Len(s))
      BY <2>1, <3>1, SumIs
    <3> QED
      BY <2>2, <3>2
  <2>4. \A u \in BOOLEAN :
          Below(g[m].mean, Minimums[m], u) <=> ~Reaches(Sums(s, m), Times(Minimums[m], 3), u)
    <3> DEFINE three == 3
    <3>1. three \in Nat \ {0} /\ Is(g[m].mean, Sums(s, m)[1], Sums(s, m)[2] * three)
      BY <2>3
    <3> HIDE DEF three
    <3>2. \A u \in BOOLEAN :
            Below(g[m].mean, Minimums[m], u) <=> ~Reaches(Sums(s, m), Times(Minimums[m], three), u)
      BY <2>1, <2>3, <3>1, FloorIs
    <3> QED
      BY <3>2 DEF three
  <2>5. IsFraction(Times(Minimums[m], 3))
    BY <2>1, TimesIs DEF Is
  <2> QED
    BY <2>3, <2>4, <2>5, ReachesGrows
<1>5. \A unlucky : BelowFloor(g, unlucky) = {} <=>
        \A m \in Metrics : ~Below(g[m].mean, Minimums[m], m \in unlucky)
  BY DEF BelowFloor
<1>6. ASSUME NEW unlucky
      PROVE  GateViolations(g, h, unlucky) = {} <=>
               \A m \in Metrics : Reaches(Sums(s, m), Times(Minimums[m], 3), m \in unlucky)
  <2>1. ASSUME NEW m \in Metrics
        PROVE  Below(g[m].mean, Minimums[m], m \in unlucky)
                 <=> ~Reaches(Sums(s, m), Times(Minimums[m], 3), m \in unlucky)
    <3>1. (m \in unlucky) \in BOOLEAN
      OBVIOUS
    <3> QED
      BY <1>4, <3>1
  <2> QED
    BY <1>3, <1>5, <2>1
<1> QED
  BY <1>4, <1>6 DEF h, g

-----------------------------------------------------------------------------
(* What is observed.                                                       *)

IsExample(e) == Sequence(e.supporting) /\ Sequence(e.question) /\ Sequence(e.reference)

(* The examples of an accepted data set are lists of words.                *)
LEMMA ExamplesAre ==
  ASSUME plan \in Plans, NEW d \in DOMAIN plan.datasets, ~InvalidDataset(plan.datasets[d])
  PROVE  /\ Sequence(ById(plan.datasets[d]))
         /\ \A e \in ToSet(ById(plan.datasets[d])) : IsExample(e)
<1> DEFINE ds == plan.datasets[d]
<1>1. IsDataset(ds)
  BY PlanAssumption
<1>2. Sequence(ById(ds)) /\ ToSet(ById(ds)) \subseteq ToSet(ds)
  BY <1>1, ByIdIs
<1>3. \A e \in ToSet(ds) : IsExample(e)
  BY <1>1 DEF IsDataset, IsExample, IsList, Sequence
<1> QED
  BY <1>2, <1>3

(* What _supported_observation builds is an observation.                   *)
LEMMA ObservedIs ==
  ASSUME NEW e, IsExample(e), NEW text, Sequence(text), NEW citations, Sequence(citations),
         NEW refusal, NEW support, Sequence(support), NEW distracts
  PROVE  IsObservation(Observed(e, Answer(text, citations, refusal), support, distracts))
<1> DEFINE o == Observed(e, Answer(text, citations, refusal), support, distracts)
<1>1. /\ o.example = e /\ o.answer.text = text /\ o.answer.citations = citations
      /\ o.retrieved = IF distracts THEN Append(support, Distractor) ELSE support
  BY DEF Observed, Answer
<1> HIDE DEF o
<1>2. Sequence(o.retrieved)
  BY <1>1, AppendIs
<1>3. IsObservation(o)
  BY <1>1, <1>2 DEF IsObservation, IsExample
<1> QED
  BY <1>3 DEF o

(* The fixture provider: whatever it does, an observation.                 *)
LEMMA ProvidesIs ==
  ASSUME plan \in Plans, NEW e, IsExample(e)
  PROVE  /\ IsObservation(Refusal(e)) /\ Refusal(e).example = e
         /\ \A support, distracts : Sequence(support) =>
              /\ IsObservation(SupportedAnswer(e, support, distracts))
              /\ SupportedAnswer(e, support, distracts).example = e
         /\ IsObservation(Invents(e, "legal")) /\ Invents(e, "legal").example = e
<1>1. IsObservation(Refusal(e)) /\ Refusal(e).example = e
  <2>1. Sequence(<<>>)
    BY EmptyIs
  <2>2. Sequence(Refused)
    BY TwoItems DEF Refused
  <2>3. Refusal(e) = Observed(e, Answer(Refused, <<>>, TRUE), <<>>, TRUE)
    BY DEF Refusal
  <2> DEFINE none == <<>>
  <2> HIDE DEF none
  <2>4. Sequence(none)
    BY <2>1 DEF none
  <2>5. IsObservation(Observed(e, Answer(Refused, none, TRUE), none, TRUE))
    BY <2>2, <2>4, ObservedIs
  <2>6. Refusal(e).example = e
    BY DEF Refusal, Observed
  <2> QED
    BY <2>3, <2>5, <2>6 DEF none
<1>2. ASSUME NEW support, NEW distracts, Sequence(support)
      PROVE  /\ IsObservation(SupportedAnswer(e, support, distracts))
             /\ SupportedAnswer(e, support, distracts).example = e
  <2>1. Sequence(e.reference)
    BY DEF IsExample
  <2> DEFINE text == e.reference
             cited == <<Cites(support[1], e.reference)>>
             o == Observed(e, Answer(text, cited, FALSE), support, distracts)
  <2>2. Sequence(cited)
    BY OneItem
  <2>3. SupportedAnswer(e, support, distracts) = o
    BY DEF SupportedAnswer
  <2> HIDE DEF text, cited
  <2>4. Sequence(text)
    BY <2>1 DEF text
  <2>5. IsObservation(o)
    BY <1>2, <2>2, <2>4, ObservedIs
  <2>6. o.example = e
    BY DEF Observed
  <2> HIDE DEF o
  <2> QED
    BY <2>3, <2>5, <2>6
<1>3. IsObservation(Invents(e, "legal")) /\ Invents(e, "legal").example = e
  <2> DEFINE text == plan.texts["legal"] \o plan.invented
             cited == <<Cites("legal", plan.texts["legal"]), Cites("legal", plan.invented)>>
             support == <<"legal">>
             o == Observed(e, Answer(text, cited, FALSE), support, FALSE)
  <2>1. Sequence(text)
    <3> DEFINE a == plan.texts["legal"]
               b == plan.invented
               T == ToSet(a) \cup ToSet(b)
    <3>1. Sequence(a) /\ Sequence(b)
      BY PlanAssumption DEF IsList, Sequence
    <3> HIDE DEF a, b
    <3>2. a \in Seq(T) /\ b \in Seq(T)
      <4>1. \A i \in 1..Len(a) : a[i] \in T
        BY <3>1, SequenceIs
      <4>2. \A i \in 1..Len(b) : b[i] \in T
        BY <3>1, SequenceIs
      <4> HIDE DEF T
      <4> QED
        BY <3>1, <4>1, <4>2, ItemsOf
    <3> HIDE DEF T
    <3>3. a \o b \in Seq(T)
      BY <3>2, ConcatProperties
    <3>4. Sequence(a \o b)
      BY <3>3, Items
    <3> QED
      BY <3>4 DEF a, b
  <2>2. Sequence(cited)
    BY TwoItems
  <2>3. Sequence(support)
    BY OneItem
  <2>4. Invents(e, "legal") = o
    BY DEF Invents
  <2> HIDE DEF text, cited, support
  <2>5. IsObservation(o)
    BY <2>1, <2>2, <2>3, ObservedIs
  <2>6. o.example = e
    BY DEF Observed
  <2> HIDE DEF o
  <2> QED
    BY <2>4, <2>5, <2>6
<1> QED
  BY <1>1, <1>2, <1>3

(* It observes the example it was asked about.                             *)
LEMMA ObserveIs ==
  ASSUME plan \in Plans, NEW e, IsExample(e), NEW config
  PROVE  IsObservation(Observe(e, config)) /\ Observe(e, config).example = e
<1>1. Sequence(<<"fin">>) /\ Sequence(<<"legal">>) /\ Sequence(<<"paper">>)
      /\ Sequence(<<"paper", "trial">>)
  BY OneItem, TwoItems
<1>2. CASE e.id = 1
  <2>1. Observe(e, config) = IF config.chunking = "fixed_256" THEN Refusal(e)
          ELSE SupportedAnswer(e, <<"fin">>, config.pipeline = "dense_bm25_rrf")
    BY <1>2 DEF Observe
  <2> QED
    BY <1>1, <2>1, ProvidesIs
<1>3. CASE e.id = 2
  <2>1. Observe(e, config) = IF config.chunking = "semantic" THEN Invents(e, "legal")
          ELSE SupportedAnswer(e, <<"legal">>, config.pipeline # "hybrid_rerank")
    BY <1>3 DEF Observe
  <2> QED
    BY <1>1, <2>1, ProvidesIs
<1>4. CASE e.id # 1 /\ e.id # 2
  <2> DEFINE support == IF config.pipeline = "dense_only" THEN <<"paper">> ELSE <<"paper", "trial">>
  <2>1. Observe(e, config) = SupportedAnswer(e, support, config.pipeline = "dense_bm25_rrf")
    BY <1>4 DEF Observe
  <2>2. Sequence(support)
    BY <1>1
  <2> HIDE DEF support
  <2> QED
    BY <2>1, <2>2, ProvidesIs
<1> QED
  BY <1>2, <1>3, <1>4

(* The fixture of the gate.                                                *)
LEMMA FixtureIs ==
  ASSUME plan \in Plans, NEW e, IsExample(e)
  PROVE  IsObservation(Fixture(e))
<1>1. Sequence(plan.texts["fin"]) /\ Sequence(plan.texts["paper"])
  BY PlanAssumption DEF IsList, Sequence
<1>2. ASSUME NEW c, NEW distracts, Sequence(plan.texts[c])
      PROVE  IsObservation(Observed(e, Answer(plan.texts[c], <<Cites(c, plan.texts[c])>>, FALSE),
                                    <<c>>, distracts))
  BY <1>2, OneItem, ObservedIs
<1>3. CASE e.id = 1
  <2>1. Fixture(e) = Observed(e, Answer(plan.texts["fin"], <<Cites("fin", plan.texts["fin"])>>,
                                        FALSE), <<"fin">>, TRUE)
    BY <1>3 DEF Fixture
  <2> QED
    BY <1>1, <1>2, <2>1
<1>4. CASE e.id = 2
  BY <1>4, ProvidesIs DEF Fixture
<1>5. CASE e.id # 1 /\ e.id # 2
  BY <1>1, <1>2, <1>5 DEF Fixture
<1> QED
  BY <1>3, <1>4, <1>5

(* The records of the gate are records.                                    *)
LEMMA FixtureRecordsAre ==
  ASSUME plan \in Plans, NEW examples, Sequence(examples), \A e \in ToSet(examples) : IsExample(e)
  PROVE  /\ Sequence(FixtureRecords(examples))
         /\ \A k \in 1..Len(FixtureRecords(examples)) : IsRecord(FixtureRecords(examples)[k])
<1> DEFINE s == FixtureRecords(examples)
           n == Len(examples)
<1>1. n \in Nat /\ DOMAIN examples = 1..n /\ \A i \in 1..n : examples[i] \in ToSet(examples)
  BY SequenceIs
<1>2. s = [i \in 1..n |-> RecordOf(Fixture(examples[i]))]
  BY <1>1 DEF FixtureRecords
<1> HIDE DEF s, n
<1>3. s = [i \in 1..n |-> s[i]] /\ \A i \in 1..n : s[i] = RecordOf(Fixture(examples[i]))
  BY <1>2
<1>4. Sequence(s) /\ Len(s) = n
  BY <1>1, <1>3, IsSequence
<1>5. \A i \in 1..n : IsRecord(s[i])
  BY <1>1, <1>3, FixtureIs, RecordIs
<1> QED
  BY <1>4, <1>5 DEF s

-----------------------------------------------------------------------------
(* The invariant of the gate.                                              *)

(* What a process has in memory is about its examples.                     *)
InHand(due, observations, records, examples) ==
  /\ Sequence(due) /\ ToSet(due) \subseteq ToSet(examples)
  /\ Sequence(observations)
  /\ \A o \in ToSet(observations) :
       IsObservation(o) /\ \E e \in ToSet(examples) : o.example = e
  /\ Sequence(records)
  /\ \A record \in ToSet(records) :
       IsRecord(record) /\ \E e \in ToSet(examples) : record.id = e.id

RunIsKnown ==
  /\ run.dataset \in DOMAIN plan.datasets /\ ~InvalidDataset(plan.datasets[run.dataset])
  /\ run.examples = ById(plan.datasets[run.dataset])
  /\ InHand(run.due, run.observations, run.records, run.examples)

CheckpointsKnown ==
  \A slot \in DOMAIN checkpoints : IsObservation(checkpoints[slot].observation)

RunFilesKnown == \A c \in DOMAIN runs : Known(runs[c][2])

GateInv ==
  /\ IInv
  /\ plan \in Plans /\ dataset \in DOMAIN plan.datasets
  /\ run = Resting \/ RunIsKnown
  /\ CheckpointsKnown /\ RunFilesKnown
  /\ GateIsSound

(* A record that is known stays known.                                     *)
LEMMA FilesStay ==
  ASSUME RunFilesKnown, UNCHANGED <<plan, runs>> PROVE RunFilesKnown'
  BY DEF RunFilesKnown, Known

(* Whether records meet a threshold depends on nothing that changes.        *)
LEMMA MeetsStays ==
  ASSUME UNCHANGED plan, NEW a, NEW b, NEW t, NEW c
  PROVE  Meets(a, b, t, c)' <=> Meets(a, b, t, c)
<1>1. ASSUME NEW r, NEW d PROVE Of(r, d)' = Of(r, d)
  BY DEF Of, IdsIn, Examples
<1> QED
  BY <1>1 DEF Meets

(* Passable, for a verdict.                                                *)
LEMMA PassableIs ==
  ASSUME UNCHANGED plan, NEW v, verdict' = v, NEW clearly
  PROVE  Passable(clearly)' <=>
           \/ /\ v.tool = "compare"
              /\ \A t \in plan.thresholds : Meets(v.baseline, v.candidate, t, clearly)
           \/ /\ v.tool = "gate"
              /\ Len(v.records) = 3
              /\ \A m \in Metrics :
                   Reaches(Sums(v.records, m), Times(Minimums[m], 3), clearly)
<1>1. PICK a, b : a = v.baseline /\ b = v.candidate
  OBVIOUS
<1>2. \A t : Meets(a, b, t, clearly)' <=> Meets(a, b, t, clearly)
  BY MeetsStays
<1> QED
  BY <1>1, <1>2 DEF Passable

(* A verdict that is sound stays sound.                                    *)
LEMMA VerdictStays ==
  ASSUME GateIsSound, UNCHANGED <<plan, verdict>> PROVE GateIsSound'
<1>1. PICK v : v = verdict
  OBVIOUS
<1>2. \A c : Passable(c) <=>
        \/ /\ v.tool = "compare"
           /\ \A t \in plan.thresholds : Meets(v.baseline, v.candidate, t, c)
        \/ /\ v.tool = "gate"
           /\ Len(v.records) = 3
           /\ \A m \in Metrics : Reaches(Sums(v.records, m), Times(Minimums[m], 3), c)
  BY <1>1 DEF Passable
<1>3. \A c : Passable(c)' <=> Passable(c)
  BY <1>1, <1>2, PassableIs
<1> QED
  BY <1>3 DEF GateIsSound

(* A process goes on with its data set.                                    *)
LEMMA HandStays ==
  ASSUME RunIsKnown, UNCHANGED plan, run'.dataset = run.dataset, run'.examples = run.examples,
         InHand(run'.due, run'.observations, run'.records, run.examples)
  PROVE  RunIsKnown'
  BY DEF RunIsKnown

(* An empty directory.                                                     *)
LEMMA InitGateInv == EvidenceInit => GateInv
<1> SUFFICES ASSUME EvidenceInit PROVE GateInv
  OBVIOUS
<1>1. plan \in Plans /\ dataset = 1 /\ run = Resting /\ verdict = NoVerdict
      /\ checkpoints = <<>> /\ runs = <<>>
  BY DEF EvidenceInit
<1>2. dataset \in DOMAIN plan.datasets
  BY <1>1, PlanAssumption
<1>3. CheckpointsKnown /\ RunFilesKnown
  BY <1>1, EmptyIs DEF CheckpointsKnown, RunFilesKnown
<1>4. GateIsSound
  BY <1>1 DEF GateIsSound
<1> QED
  BY <1>1, <1>2, <1>3, <1>4, InitIInv DEF GateInv

(* The next example is one of the examples.                                *)
LEMMA DueIs ==
  ASSUME GateInv, run.step = "observe", run.due # <<>>
  PROVE  /\ RunIsKnown /\ DOMAIN run = RunFields
         /\ IsExample(Head(run.due)) /\ Head(run.due) \in ToSet(run.examples)
         /\ InHand(Tail(run.due), run.observations, run.records, run.examples)
<1>1. RunIsKnown /\ DOMAIN run = RunFields
  BY DEF GateInv, IInv, RunShape, Resting
<1>2. /\ Sequence(Tail(run.due)) /\ Head(run.due) \in ToSet(run.due)
      /\ ToSet(run.due) = {Head(run.due)} \cup ToSet(Tail(run.due))
  BY <1>1, TailIs DEF RunIsKnown, InHand
<1>3. \A e \in ToSet(run.examples) : IsExample(e)
  BY <1>1, ExamplesAre DEF RunIsKnown, GateInv
<1> QED
  BY <1>1, <1>2, <1>3 DEF RunIsKnown, InHand

(* One more observation.                                                   *)
LEMMA HandGrows ==
  ASSUME NEW due, NEW observations, NEW records, NEW examples,
         InHand(due, observations, records, examples),
         NEW o, IsObservation(o), o.example \in ToSet(examples)
  PROVE  InHand(due, Append(observations, o), records, examples)
<1>1. Sequence(Append(observations, o))
      /\ ToSet(Append(observations, o)) = ToSet(observations) \cup {o}
  BY AppendIs, AppendSet DEF InHand
<1> QED
  BY <1>1 DEF InHand

(* _produce_one.                                                           *)
LEMMA ResumeKnown == GateInv /\ Resume => RunIsKnown'
<1> SUFFICES ASSUME GateInv, Resume PROVE RunIsKnown'
  OBVIOUS
<1> DEFINE o == checkpoints[Slot(Head(run.due))].observation
<1>1. /\ run.step = "observe" /\ run.due # <<>>
      /\ Slot(Head(run.due)) \in DOMAIN checkpoints
      /\ o.example = Head(run.due)
      /\ run' = [run EXCEPT !.due = Tail(@), !.resumed = @ + 1, !.observations = Append(@, o)]
      /\ UNCHANGED plan
  BY DEF Resume, Fits
<1>2. IsObservation(o)
  BY <1>1 DEF GateInv, CheckpointsKnown
<1> HIDE DEF o
<1>3. InHand(Tail(run.due), Append(run.observations, o), run.records, run.examples)
  BY <1>1, <1>2, DueIs, HandGrows
<1>4. /\ run'.due = Tail(run.due) /\ run'.observations = Append(run.observations, o)
      /\ run'.records = run.records /\ run'.dataset = run.dataset /\ run'.examples = run.examples
  BY <1>1, DueIs DEF RunFields
<1> QED
  BY <1>1, <1>3, <1>4, DueIs, HandStays

(* A new observation goes to memory and to its checkpoint.                 *)
LEMMA ProduceKnown == GateInv /\ Produce => RunIsKnown' /\ CheckpointsKnown'
<1> SUFFICES ASSUME GateInv, Produce PROVE RunIsKnown' /\ CheckpointsKnown'
  OBVIOUS
<1>1. PICK o : /\ o = Observe(Head(run.due), Config)
               /\ run' = [run EXCEPT !.due = Tail(@), !.observations = Append(@, o)]
               /\ checkpoints' = Put(checkpoints, Slot(Head(run.due)), Checkpoint(Scope, o))
  BY DEF Produce
<1>2. run.step = "observe" /\ run.due # <<>> /\ UNCHANGED plan
  BY DEF Produce
<1>3. IsObservation(o) /\ o.example = Head(run.due)
  BY <1>1, <1>2, DueIs, ObserveIs DEF GateInv
<1>4. InHand(Tail(run.due), Append(run.observations, o), run.records, run.examples)
  BY <1>2, <1>3, DueIs, HandGrows
<1>5. /\ run'.due = Tail(run.due) /\ run'.observations = Append(run.observations, o)
      /\ run'.records = run.records /\ run'.dataset = run.dataset /\ run'.examples = run.examples
  BY <1>1, <1>2, DueIs DEF RunFields
<1>6. RunIsKnown'
  BY <1>2, <1>4, <1>5, DueIs, HandStays
<1>7. CheckpointsKnown'
  <2>1. Checkpoint(Scope, o).observation = o
    BY DEF Checkpoint
  <2> DEFINE c == Checkpoint(Scope, o)
             s == Slot(Head(run.due))
  <2> HIDE DEF c, s
  <2>2. /\ DOMAIN checkpoints' = DOMAIN checkpoints \cup {s}
        /\ \A t \in DOMAIN checkpoints' : checkpoints'[t] = IF t = s THEN c ELSE checkpoints[t]
    BY <1>1 DEF Put, c, s
  <2> QED
    BY <1>3, <2>1, <2>2 DEF CheckpointsKnown, GateInv, c
<1> QED
  BY <1>6, <1>7

(* An example that fails leaves memory with one example less.              *)
LEMMA FailsKnown == GateInv /\ (RefuseCheckpoint \/ ProduceFails) => RunIsKnown'
<1> SUFFICES ASSUME GateInv, RefuseCheckpoint \/ ProduceFails PROVE RunIsKnown'
  OBVIOUS
<1>1. /\ run.step = "observe" /\ run.due # <<>> /\ UNCHANGED plan
      /\ run' = [run EXCEPT !.due = Tail(@), !.failed = TRUE]
  BY DEF RefuseCheckpoint, ProduceFails
<1>2. /\ run'.due = Tail(run.due) /\ run'.observations = run.observations
      /\ run'.records = run.records /\ run'.dataset = run.dataset /\ run'.examples = run.examples
  BY <1>1, DueIs DEF RunFields
<1> QED
  BY <1>1, <1>2, DueIs, HandStays

(* EvaluationEngine.evaluate: one more record, or all are thrown away.      *)
LEMMA JudgeKnown == GateInv /\ Judge => RunIsKnown'
<1> SUFFICES ASSUME GateInv, Judge PROVE RunIsKnown'
  OBVIOUS
<1> DEFINE k == Len(run.records) + 1
           r == RecordOf(run.observations[k])
<1>1. /\ run.step = "observe" /\ Len(run.records) < Len(run.observations) /\ UNCHANGED plan
      /\ run' = [run EXCEPT !.records = Append(@, r)]
  BY DEF Judge
<1>2. RunIsKnown /\ DOMAIN run = RunFields
  BY <1>1 DEF GateInv, IInv, RunShape, Resting
<1>3. InHand(run.due, run.observations, run.records, run.examples)
  BY <1>2 DEF RunIsKnown
<1>4. run.observations[k] \in ToSet(run.observations)
  <2>1. /\ Len(run.records) \in Nat /\ Len(run.observations) \in Nat
        /\ ToSet(run.observations) = {run.observations[i] : i \in 1..Len(run.observations)}
    BY <1>3, SequenceIs DEF InHand
  <2> QED
    BY <1>1, <2>1
<1>5. IsRecord(r) /\ \E e \in ToSet(run.examples) : r.id = e.id
  BY <1>3, <1>4, RecordIs DEF InHand
<1> HIDE DEF r, k
<1>6. /\ Sequence(Append(run.records, r))
      /\ ToSet(Append(run.records, r)) = ToSet(run.records) \cup {r}
  BY <1>3, AppendIs, AppendSet DEF InHand
<1>7. InHand(run.due, run.observations, Append(run.records, r), run.examples)
  BY <1>3, <1>5, <1>6 DEF InHand
<1>8. /\ run'.due = run.due /\ run'.observations = run.observations
      /\ run'.records = Append(run.records, r)
      /\ run'.dataset = run.dataset /\ run'.examples = run.examples
  BY <1>1, <1>2 DEF RunFields
<1> QED
  BY <1>1, <1>2, <1>7, <1>8, HandStays

(* A judge that raises ends the process or starts the examples over.       *)
LEMMA JudgeRaisesKnown == GateInv /\ JudgeRaises => run' = Resting \/ RunIsKnown'
<1> SUFFICES ASSUME GateInv, JudgeRaises, run' # Resting PROVE RunIsKnown'
  OBVIOUS
<1>1. /\ run.step = "observe" /\ UNCHANGED plan
      /\ run' = [run EXCEPT !.attempt = @ + 1, !.records = <<>>]
  BY DEF JudgeRaises
<1>2. RunIsKnown /\ DOMAIN run = RunFields
  BY <1>1 DEF GateInv, IInv, RunShape, Resting
<1>3. InHand(run.due, run.observations, <<>>, run.examples)
  BY <1>2, EmptyIs DEF RunIsKnown, InHand
<1>4. /\ run'.due = run.due /\ run'.observations = run.observations /\ run'.records = <<>>
      /\ run'.dataset = run.dataset /\ run'.examples = run.examples
  BY <1>1, <1>2 DEF RunFields
<1> QED
  BY <1>1, <1>2, <1>3, <1>4, HandStays

(* A configuration begins.                                                 *)
LEMMA AllDue ==
  ASSUME NEW examples, Sequence(examples) PROVE InHand(examples, <<>>, <<>>, examples)
  BY EmptyIs DEF InHand

(* A process that starts has every example due.                            *)
LEMMA StartKnown == GateInv /\ Start => RunIsKnown'
<1> SUFFICES ASSUME GateInv, Start PROVE RunIsKnown'
  OBVIOUS
<1> DEFINE examples == ById(plan.datasets[dataset])
<1>1. /\ ~InvalidDataset(plan.datasets[dataset]) /\ UNCHANGED plan
      /\ run' = NewRun(started + 1, examples)
  BY DEF Start, Records
<1>2. Sequence(examples)
  BY <1>1, ExamplesAre DEF GateInv
<1> HIDE DEF examples
<1>3. InHand(examples, <<>>, <<>>, examples)
  BY <1>2, AllDue
<1>4. /\ run'.due = examples /\ run'.observations = <<>> /\ run'.records = <<>>
      /\ run'.dataset = dataset /\ run'.examples = examples
  BY <1>1 DEF NewRun
<1> QED
  BY <1>1, <1>3, <1>4 DEF RunIsKnown, GateInv, examples

(* A process goes on with the next configuration, or reports.              *)
LEMMA TrackKnown == GateInv /\ Track => RunIsKnown'
<1> SUFFICES ASSUME GateInv, Track PROVE RunIsKnown'
  OBVIOUS
<1>1. run.step = "track" /\ UNCHANGED plan
  BY DEF Track
<1>2. RunIsKnown /\ DOMAIN run = RunFields
  BY <1>1 DEF GateInv, IInv, RunShape, Resting
<1>3. CASE run' = Configure(run, run.config + 1)
  <2>1. Sequence(run.examples)
    BY <1>2, ExamplesAre DEF RunIsKnown, GateInv
  <2>2. InHand(run.examples, <<>>, <<>>, run.examples)
    BY <2>1, AllDue
  <2>3. /\ run'.due = run.examples /\ run'.observations = <<>> /\ run'.records = <<>>
        /\ run'.dataset = run.dataset /\ run'.examples = run.examples
    BY <1>2, <1>3 DEF Configure, RunFields
  <2> QED
    BY <1>1, <1>2, <2>2, <2>3, HandStays
<1>4. CASE run' = [run EXCEPT !.step = "report"]
  <2>1. /\ run'.due = run.due /\ run'.observations = run.observations
        /\ run'.records = run.records
        /\ run'.dataset = run.dataset /\ run'.examples = run.examples
    BY <1>2, <1>4 DEF RunFields
  <2> QED
    BY <1>1, <1>2, <2>1, HandStays DEF RunIsKnown
<1> QED
  BY <1>3, <1>4 DEF Track

(* A run file has what was judged.                                         *)
LEMMA SaveKnown == GateInv /\ SaveRun => RunIsKnown' /\ RunFilesKnown'
<1> SUFFICES ASSUME GateInv, SaveRun PROVE RunIsKnown' /\ RunFilesKnown'
  OBVIOUS
<1>1. PICK c : /\ c = ConfigurationRun
               /\ run' = [run EXCEPT !.step = "track", !.done = Append(@, c)]
               /\ runs' = Put(runs, Config.id, Whole(c))
  BY DEF SaveRun
<1>2. run.step = "observe" /\ UNCHANGED plan
  BY DEF SaveRun
<1>3. RunIsKnown /\ DOMAIN run = RunFields
  BY <1>2 DEF GateInv, IInv, RunShape, Resting
<1>4. RunIsKnown'
  <2>1. /\ run'.due = run.due /\ run'.observations = run.observations
        /\ run'.records = run.records
        /\ run'.dataset = run.dataset /\ run'.examples = run.examples
    BY <1>1, <1>3 DEF RunFields
  <2> QED
    BY <1>2, <1>3, <2>1, HandStays DEF RunIsKnown
<1>5. c.dataset = run.dataset /\ c.records = run.records
      /\ c.slices = Slices(run.records, SliceDomains(run.examples))
  BY <1>1 DEF ConfigurationRun
<1>6. Known(c)
  BY <1>3, <1>5 DEF Known, RunIsKnown, InHand
<1>7. RunFilesKnown'
  <2> DEFINE s == Config.id
             w == Whole(c)
  <2>1. /\ DOMAIN runs' = DOMAIN runs \cup {s}
        /\ \A t \in DOMAIN runs' : runs'[t] = IF t = s THEN w ELSE runs[t]
    BY <1>1 DEF Put
  <2>2. w[2] = c
    BY WholeIs
  <2> HIDE DEF s, w
  <2>3. ASSUME NEW t \in DOMAIN runs' PROVE Known(runs'[t][2])
    BY <1>6, <2>1, <2>2, <2>3 DEF GateInv, RunFilesKnown
  <2>4. PICK saved : saved = runs'
    OBVIOUS
  <2>5. \A t \in DOMAIN saved : Known(saved[t][2])
    BY <2>3, <2>4
  <2> QED
    BY <1>2, <2>4, <2>5 DEF RunFilesKnown, Known
<1> QED
  BY <1>4, <1>7

-----------------------------------------------------------------------------
(* The gate.                                                               *)

(* compare_runs: the verdict is right by the records of the two run files.  *)
LEMMA CompareIsSound ==
  ASSUME GateInv, NEW b \in DOMAIN runs, NEW c \in DOMAIN runs,
         NEW mode \in {"pr_fast", "nightly_full"}, Compare(b, c, mode)
  PROVE  GateIsSound'
<1>1. PICK unlucky, V, before, after, v :
        /\ V = Violations(runs[b][2].slices, runs[c][2].slices, plan.thresholds, unlucky)
        /\ before = runs[b][2] /\ after = runs[c][2]
        /\ v = [tool |-> "compare", mode |-> mode, baseline |-> before, candidate |-> after,
                fails |-> V # {} /\ mode = "pr_fast", alerts |-> V # {} /\ mode = "nightly_full"]
        /\ verdict' = v /\ UNCHANGED plan
  BY DEF Compare
<1>2. Known(before) /\ Known(after)
  BY <1>1 DEF GateInv, RunFilesKnown
<1>3. plan \in Plans /\ \A t \in plan.thresholds : IsThreshold(t)
  BY PlanAssumption DEF GateInv
<1>4. /\ V = {} <=> \A t \in plan.thresholds : Meets(before, after, t, t \in unlucky)
      /\ \A t \in plan.thresholds :
           /\ Meets(before, after, t, TRUE) => Meets(before, after, t, t \in unlucky)
           /\ Meets(before, after, t, t \in unlucky) => Meets(before, after, t, FALSE)
  <2>1. V = {t \in plan.thresholds :
               Status(before.slices, after.slices, t, t \in unlucky) \in Violating}
    BY <1>1 DEF Violations
  <2>2. ASSUME NEW t \in plan.thresholds
        PROVE  /\ Status(before.slices, after.slices, t, t \in unlucky) \in Violating
                    <=> ~Meets(before, after, t, t \in unlucky)
               /\ Meets(before, after, t, TRUE) => Meets(before, after, t, t \in unlucky)
               /\ Meets(before, after, t, t \in unlucky) => Meets(before, after, t, FALSE)
    <3>1. (t \in unlucky) \in BOOLEAN
      OBVIOUS
    <3> QED
      BY <1>2, <1>3, <3>1, StatusIs
  <2> QED
    BY <2>1, <2>2
<1>5. v.tool = "compare" /\ v.baseline = before /\ v.candidate = after /\ v.mode = mode
  BY <1>1
<1>6. v.fails <=> V # {} /\ mode = "pr_fast"
  BY <1>1
<1>7. v.alerts <=> V # {} /\ mode = "nightly_full"
  BY <1>1
<1>8. Passable(TRUE)' => V = {}
  BY <1>1, <1>4, <1>5, PassableIs
<1>9. V = {} => Passable(FALSE)'
  BY <1>1, <1>4, <1>5, PassableIs
<1>10. /\ ~Passable(FALSE)' => verdict'.fails \/ verdict'.alerts
       /\ Passable(TRUE)' => ~verdict'.fails /\ ~verdict'.alerts
  BY <1>1, <1>6, <1>7, <1>8, <1>9
<1> QED
  BY <1>1, <1>5, <1>6, <1>7, <1>10 DEF GateIsSound

(* evaluation_gate: the verdict is right by the records of the fixture.     *)
LEMMA GateVerdictIsSound ==
  ASSUME GateInv, NEW mode \in {"pr", "nightly"}, Gate(mode)
  PROVE  GateIsSound'
<1>1. /\ ~InvalidDataset(plan.datasets[dataset]) /\ UNCHANGED plan
      /\ plan \in Plans /\ dataset \in DOMAIN plan.datasets
  BY DEF Gate, Records, GateInv
<1>2. PICK unlucky, records, V, v :
        /\ records = FixtureRecords(ById(plan.datasets[dataset]))
        /\ ~FixtureRaises(plan.datasets[dataset], records)
        /\ V = GateViolations(Aggregates(records), HallucinationSummary(records), unlucky)
        /\ v = GateVerdict(mode, records, V) /\ verdict' = v
  BY DEF Gate, Records
<1>3. Sequence(records) /\ \A k \in 1..Len(records) : IsRecord(records[k])
  BY <1>1, <1>2, ExamplesAre, FixtureRecordsAre
<1>4. Len(records) = 3 /\ Flagged(records) = 1
  BY <1>2 DEF FixtureRaises
<1> DEFINE Ok(m, c) == Reaches(Sums(records, m), Times(Minimums[m], 3), c)
<1>5. /\ V = {} <=> \A m \in Metrics : Ok(m, m \in unlucky)
      /\ \A m \in Metrics : /\ Ok(m, TRUE) => Ok(m, m \in unlucky)
                            /\ Ok(m, m \in unlucky) => Ok(m, FALSE)
  <2>1. V = {} <=> \A m \in Metrics : Ok(m, m \in unlucky)
    BY <1>2, <1>3, <1>4, GateIs
  <2>2. \A m \in Metrics : \A u \in BOOLEAN : (Ok(m, TRUE) => Ok(m, u)) /\ (Ok(m, u) => Ok(m, FALSE))
    BY <1>3, <1>4, GateIs
  <2> HIDE DEF Ok
  <2>3. \A m \in Metrics : (m \in unlucky) \in BOOLEAN
    OBVIOUS
  <2> QED
    BY <2>1, <2>2, <2>3
<1>6. v.tool = "gate" /\ v.records = records /\ v.mode = mode
  BY <1>2 DEF GateVerdict
<1>7. v.fails <=> V # {} /\ mode = "pr"
  BY <1>2 DEF GateVerdict
<1>8. v.alerts <=> V # {} /\ mode = "nightly"
  BY <1>2 DEF GateVerdict
<1>9. \A c : Passable(c)' <=> \A m \in Metrics : Ok(m, c)
  BY <1>1, <1>2, <1>4, <1>6, PassableIs
<1> HIDE DEF Ok
<1>10. Passable(TRUE)' => V = {}
  BY <1>5, <1>9
<1>11. V = {} => Passable(FALSE)'
  BY <1>5, <1>9
<1>12. /\ ~Passable(FALSE)' => verdict'.fails \/ verdict'.alerts
       /\ Passable(TRUE)' => ~verdict'.fails /\ ~verdict'.alerts
  BY <1>2, <1>7, <1>8, <1>10, <1>11
<1> QED
  BY <1>2, <1>6, <1>7, <1>8, <1>12 DEF GateIsSound

(* A gate whose fixture report raised fails.                               *)
LEMMA RaisedIsSound ==
  ASSUME NEW mode, GateRaises(mode) PROVE GateIsSound'
<1>1. PICK v : v = [tool |-> "raised", mode |-> mode, fails |-> TRUE, alerts |-> FALSE]
               /\ verdict' = v /\ UNCHANGED plan
  BY DEF GateRaises
<1>2. v.tool = "raised" /\ v.fails /\ ~v.alerts
  BY <1>1
<1>3. ~Passable(TRUE)'
  BY <1>1, <1>2, PassableIs
<1> QED
  BY <1>1, <1>2, <1>3 DEF GateIsSound

(* What a step leaves alone.                                               *)
LEMMA CheckpointsStay ==
  ASSUME CheckpointsKnown, UNCHANGED checkpoints PROVE CheckpointsKnown'
  BY DEF CheckpointsKnown

(* Another tool leaves the process alone.                                  *)
LEMMA ProcessStays ==
  ASSUME run = Resting \/ RunIsKnown, UNCHANGED <<plan, run>>
  PROVE  run' = Resting \/ RunIsKnown'
  BY DEF RunIsKnown

(* A process that reports, and its end.                                    *)
LEMMA ReportingKnown ==
  ASSUME GateInv, NEW f, WriteReport(f) \/ WriteReportFails(f)
  PROVE  RunIsKnown'
<1>1. run.step = "report" /\ UNCHANGED plan
  BY DEF WriteReport, WriteReportFails
<1>2. RunIsKnown /\ DOMAIN run = RunFields
  BY <1>1 DEF GateInv, IInv, RunShape, Resting
<1>3. /\ run'.due = run.due /\ run'.observations = run.observations
      /\ run'.records = run.records
      /\ run'.dataset = run.dataset /\ run'.examples = run.examples
  BY <1>2 DEF WriteReport, WriteReportFails, RunFields
<1> QED
  BY <1>1, <1>2, <1>3, HandStays DEF RunIsKnown

(* No step changes the plan.                                               *)
LEMMA PlanStays == [EvidenceNext]_evidence => UNCHANGED plan
  BY DEF EvidenceNext, evidence, Start, StartRaises, RunStep, Resume, RefuseCheckpoint, Produce,
         ProduceFails, ObserveRaises, Judge, JudgeRaises, SaveRun, Track, WriteReport,
         WriteReportFails, ReportRaises, Reconcile, RunDeaths, RunDies, TearLog, TearSummary,
         TearReport, Tearing, Checks, Compare, Gate, GateRaises, EditDataset, DeleteStale

(* Every step keeps the invariant.                                         *)
LEMMA NextGateInv == GateInv /\ [EvidenceNext]_evidence => GateInv'
<1> SUFFICES ASSUME GateInv, [EvidenceNext]_evidence PROVE GateInv'
  OBVIOUS
<1>1. IInv' /\ plan \in Plans /\ dataset \in DOMAIN plan.datasets
  BY NextIInv DEF GateInv
<1>2. plan' = plan
  BY PlanStays
<1>3. dataset' \in DOMAIN plan'.datasets
  BY <1>1, <1>2
     DEF EvidenceNext, evidence, Start, StartRaises, RunStep, Resume, RefuseCheckpoint, Produce,
         ProduceFails, ObserveRaises, Judge, JudgeRaises, SaveRun, Track, WriteReport,
         WriteReportFails, ReportRaises, Reconcile, RunDeaths, RunDies, TearLog, TearSummary,
         TearReport, Tearing, Checks, Compare, Gate, GateRaises, EditDataset, DeleteStale
<1>4. CASE Checks
  <2>1. GateIsSound'
    BY <1>4, CompareIsSound, GateVerdictIsSound, RaisedIsSound DEF Checks
  <2>2. UNCHANGED <<plan, run, checkpoints, runs>>
    BY <1>4 DEF Checks, Compare, Gate, GateRaises, directory
  <2> QED
    BY <1>1, <1>2, <1>3, <2>1, <2>2, ProcessStays, CheckpointsStay, FilesStay DEF GateInv
<1>5. ASSUME UNCHANGED verdict, run' = Resting \/ RunIsKnown', CheckpointsKnown', RunFilesKnown'
      PROVE  GateInv'
  BY <1>1, <1>2, <1>3, <1>5, VerdictStays DEF GateInv
<1>6. CASE Start
  BY <1>2, <1>5, <1>6, StartKnown, CheckpointsStay, FilesStay DEF Start, directory, GateInv
<1>7. CASE Resume
  BY <1>2, <1>5, <1>7, ResumeKnown, CheckpointsStay, FilesStay DEF Resume, directory, GateInv
<1>8. CASE Produce
  BY <1>2, <1>5, <1>8, ProduceKnown, FilesStay DEF Produce, GateInv
<1>9. CASE RefuseCheckpoint \/ ProduceFails
  BY <1>2, <1>5, <1>9, FailsKnown, CheckpointsStay, FilesStay
     DEF RefuseCheckpoint, ProduceFails, directory, GateInv
<1>10. CASE Judge
  BY <1>2, <1>5, <1>10, JudgeKnown, CheckpointsStay, FilesStay DEF Judge, directory, GateInv
<1>11. CASE JudgeRaises
  BY <1>2, <1>5, <1>11, JudgeRaisesKnown, CheckpointsStay, FilesStay
     DEF JudgeRaises, directory, GateInv
<1>12. CASE SaveRun
  BY <1>2, <1>5, <1>12, SaveKnown, CheckpointsStay DEF SaveRun, GateInv
<1>13. CASE Track
  BY <1>2, <1>5, <1>13, TrackKnown, CheckpointsStay, FilesStay DEF Track, GateInv
<1>14. ASSUME NEW f \in Formats, WriteReport(f) \/ WriteReportFails(f) PROVE GateInv'
  BY <1>2, <1>5, <1>14, ReportingKnown, CheckpointsStay, FilesStay
     DEF WriteReport, WriteReportFails, GateInv
<1>15. CASE ObserveRaises \/ ReportRaises \/ Reconcile \/ RunDeaths
  <2>1. UNCHANGED <<plan, verdict, checkpoints, runs>> /\ run' = Resting
    BY <1>15 DEF ObserveRaises, ReportRaises, Reconcile, RunDeaths, RunDies, TearLog, TearSummary,
                 TearReport, Tearing, End, directory
  <2> QED
    BY <1>5, <2>1, CheckpointsStay, FilesStay DEF GateInv
<1>16. CASE DeleteStale
  <2>1. UNCHANGED <<plan, run, verdict, runs>>
    BY <1>16 DEF DeleteStale
  <2>2. \A slot \in DOMAIN checkpoints' :
          slot \in DOMAIN checkpoints /\ checkpoints'[slot] = checkpoints[slot]
    BY <1>16 DEF DeleteStale
  <2>3. CheckpointsKnown'
    BY <2>2 DEF CheckpointsKnown, GateInv
  <2> QED
    BY <1>5, <2>1, <2>3, ProcessStays, FilesStay DEF GateInv
<1>17. CASE StartRaises \/ (\E d \in DOMAIN plan.datasets : EditDataset(d)) \/ UNCHANGED evidence
  <2>1. UNCHANGED <<plan, run, verdict, checkpoints, runs>>
    BY <1>17 DEF StartRaises, EditDataset, evidence, directory
  <2> QED
    BY <1>5, <2>1, ProcessStays, CheckpointsStay, FilesStay DEF GateInv
<1> QED
  BY <1>4, <1>6, <1>7, <1>8, <1>9, <1>10, <1>11, <1>12, <1>13, <1>14, <1>15, <1>16, <1>17
     DEF EvidenceNext, RunStep

(* compare_metric_slices and evaluation_gate, for every dataset, matrix and  *)
(* thresholds and every history of runs, edits and deaths: a check fails or  *)
(* alerts when the records do not reach a threshold or a floor, and does    *)
(* neither when they exceed all of them; on the boundary the rounding of     *)
(* floats decides.  A pull request is blocked, a nightly run only alerts.   *)
THEOREM GateIsRight == EvidenceSpec => []GateIsSound
<1>1. GateInv => GateIsSound
  BY DEF GateInv
<1> QED
  BY <1>1, InitGateInv, NextGateInv, PTL DEF EvidenceSpec

-----------------------------------------------------------------------------
(* Lowest terms.                                                           *)

(* A remainder is known by its bounds.                                     *)
LEMMA RemainderIs ==
  ASSUME NEW a \in Nat, NEW b \in Nat \ {0}, NEW q \in Nat, NEW r \in 0..(b - 1), a = b * q + r
  PROVE  a % b = r
<1> DEFINE s == a % b
           t == a \div b
<1>1. s \in 0..(b - 1) /\ t \in Nat /\ a = b * t + s
  BY Remainder
<1> HIDE DEF s, t
<1>2. CASE t > q
  <2>1. t - q \in Nat /\ t - q >= 1
    BY <1>1, <1>2
  <2>2. b * (t - q) >= b
    BY <2>1
  <2>3. b * (t - q) = b * t - b * q
    BY <1>1
  <2> QED
    BY <1>1, <2>2, <2>3
<1>3. CASE t < q
  <2>1. q - t \in Nat /\ q - t >= 1
    BY <1>1, <1>3
  <2>2. b * (q - t) >= b
    BY <2>1
  <2>3. b * (q - t) = b * q - b * t
    BY <1>1
  <2> QED
    BY <1>1, <2>2, <2>3
<1>4. CASE t = q
  <2> DEFINE u == b * q
  <2>1. u \in Nat /\ a = u + s /\ a = u + r
    BY <1>1, <1>4, Product
  <2> HIDE DEF u
  <2>2. s = r
    BY <1>1, <2>1
  <2> QED
    BY <2>2 DEF s
<1> QED
  BY <1>1, <1>2, <1>3, <1>4

(* And it grows with both numbers.                                         *)
LEMMA RemainderTimes ==
  ASSUME NEW k \in Nat \ {0}, NEW a \in Nat, NEW b \in Nat \ {0}
  PROVE  (k * a) % (k * b) = k * (a % b)
<1> DEFINE q == a \div b
           r == a % b
<1>1. r \in 0..(b - 1) /\ q \in Nat /\ a = b * q + r
  BY Remainder
<1> HIDE DEF q, r
<1>2. k * a \in Nat /\ k * b \in Nat \ {0} /\ k * r \in Nat
  BY <1>1, Product
<1>3. k * a = (k * b) * q + k * r
  BY <1>1
<1>4. k * r < k * b
  <2>1. b - r \in Nat /\ b - r >= 1
    BY <1>1
  <2>2. k * (b - r) >= 1
    BY <2>1
  <2>3. k * (b - r) = k * b - k * r
    BY <1>1
  <2> QED
    BY <1>2, <2>2, <2>3
<1> DEFINE A == k * a
           B == k * b
           R == k * r
<1>5. A \in Nat /\ B \in Nat \ {0} /\ R \in 0..(B - 1) /\ A = B * q + R
  BY <1>2, <1>3, <1>4
<1> HIDE DEF A, B, R
<1>6. A % B = R
  BY <1>1, <1>5, RemainderIs
<1> QED
  BY <1>6 DEF A, B, R, r

(* The divisor grows with both numbers.                                    *)
LEMMA GcdTimes ==
  ASSUME NEW k \in Nat \ {0}, NEW a \in Nat, NEW b \in Nat
  PROVE  Gcd[<<k * a, k * b>>] = k * Gcd[<<a, b>>]
<1> DEFINE Good == {n \in 0..b : \A x \in Nat, y \in 0..n :
                                   Gcd[<<k * x, k * y>>] = k * Gcd[<<x, y>>]}
<1>1. ASSUME NEW x \in Nat PROVE Gcd[<<k * x, k * 0>>] = k * Gcd[<<x, 0>>]
  <2>1. k * 0 = 0 /\ k * x \in Nat
    BY Product
  <2>2. Gcd[<<x, 0>>] = x /\ Gcd[<<k * x, 0>>] = k * x
    BY <2>1, GcdIs
  <2> QED
    BY <2>1, <2>2
<1>2. 0 \in Good
  <2>1. \A y \in 0..0 : y = 0
    OBVIOUS
  <2> QED
    BY <1>1, <2>1
<1>3. ASSUME NEW n \in 0..b, n # 0, n - 1 \in Good PROVE n \in Good
  <2>1. ASSUME NEW x \in Nat, NEW y \in 0..n
        PROVE  Gcd[<<k * x, k * y>>] = k * Gcd[<<x, y>>]
    <3>1. CASE y = 0
      BY <1>1, <3>1
    <3>2. CASE y # 0
      <4> DEFINE r == x % y
                 X == k * x
                 Y == k * y
      <4>1. y \in Nat \ {0} /\ r \in 0..(y - 1)
        BY <3>2, Remainder
      <4>2. r \in 0..(n - 1) /\ r \in Nat
        BY <1>3, <4>1
      <4>3. Gcd[<<x, y>>] = Gcd[<<y, r>>]
        BY <4>1, GcdIs
      <4>4. Gcd[<<k * y, k * r>>] = k * Gcd[<<y, r>>]
        BY <1>3, <4>1, <4>2
      <4>5. X \in Nat /\ Y \in Nat \ {0}
        BY <4>1, Product
      <4>7. X % Y = k * r
        BY <4>1, RemainderTimes
      <4> HIDE DEF X, Y, r
      <4>6. Gcd[<<X, Y>>] = Gcd[<<Y, X % Y>>]
        BY <4>5, GcdIs
      <4> QED
        BY <4>3, <4>4, <4>6, <4>7 DEF X, Y
    <3> QED
      BY <3>1, <3>2
  <2> QED
    BY <2>1
<1> HIDE DEF Good
<1>4. \A n \in 0..b : n \in Good
  BY <1>2, <1>3, Induction
<1>5. b \in Good /\ b \in 0..b
  BY <1>4
<1> QED
  BY <1>5 DEF Good

(* A ratio is the same after both numbers grew alike.                      *)
LEMMA RatioTimes ==
  ASSUME NEW k \in Nat \ {0}, NEW n \in Nat, NEW d \in Nat \ {0}
  PROVE  Ratio(k * n, k * d) = Ratio(n, d)
<1> DEFINE g == Gcd[<<d, n>>]
<1>1. g \in Nat \ {0} /\ \E i, j \in Nat : d = i * g /\ n = j * g
  BY GcdDivides
<1>2. Gcd[<<k * d, k * n>>] = k * g
  BY GcdTimes
<1> HIDE DEF g
<1>3. PICK i, j \in Nat : d = i * g /\ n = j * g
  BY <1>1
<1>4. d \div g = i /\ n \div g = j
  BY <1>1, <1>3
<1> DEFINE h == k * g
<1>5. h \in Nat \ {0}
  BY <1>1, Product
<1>6. k * d = i * h /\ k * n = j * h
  BY <1>1, <1>3
<1> HIDE DEF h
<1>7. (i * h) \div h = i /\ (j * h) \div h = j
  BY <1>5
<1>8. Ratio(n, d) = <<j, i>>
  BY <1>4 DEF Ratio, Lowest, g
<1>9. Gcd[<<k * d, k * n>>] = h
  BY <1>2 DEF h
<1>10. Ratio(k * n, k * d) = <<(k * n) \div h, (k * d) \div h>>
  BY <1>9 DEF Ratio, Lowest
<1> QED
  BY <1>6, <1>7, <1>8, <1>10

(* A fraction that is its own ratio.                                       *)
IsLowest(f) == IsFraction(f) /\ Ratio(f[1], f[2]) = f

(* Ratios are.                                                             *)
LEMMA RatioLowest ==
  ASSUME NEW n \in Nat, NEW d \in Nat \ {0}
  PROVE  IsLowest(Ratio(n, d))
<1> DEFINE g == Gcd[<<d, n>>]
<1>1. g \in Nat \ {0} /\ \E i, j \in Nat : d = i * g /\ n = j * g
  BY GcdDivides
<1> HIDE DEF g
<1>2. PICK i, j \in Nat : d = i * g /\ n = j * g
  BY <1>1
<1>3. d \div g = i /\ n \div g = j /\ i # 0 /\ d = g * i /\ n = g * j
  BY <1>1, <1>2
<1>4. Ratio(n, d) = <<j, i>>
  BY <1>3 DEF Ratio, Lowest, g
<1>5. Ratio(g * j, g * i) = Ratio(j, i)
  BY <1>1, <1>3, RatioTimes
<1>6. Ratio(j, i) = <<j, i>>
  BY <1>3, <1>4, <1>5
<1> QED
  BY <1>3, <1>4, <1>6 DEF IsLowest, IsFraction

(* Nothing and everything are.                                             *)
LEMMA NumbersAreLowest == IsLowest(Zero) /\ IsLowest(One)
<1>1. Gcd[<<1, 0>>] = 1
  BY GcdIs
<1>2. Gcd[<<1, 1>>] = Gcd[<<1, 1 % 1>>] /\ 1 % 1 = 0
  BY GcdIs
<1>3. 0 \div 1 = 0 /\ 1 \div 1 = 1
  OBVIOUS
<1>4. Ratio(0, 1) = <<0, 1>> /\ Ratio(1, 1) = <<1, 1>>
  BY <1>1, <1>2, <1>3 DEF Ratio, Lowest
<1> QED
  BY <1>4 DEF IsLowest, IsFraction, Zero, One

(* In lowest terms there is one fraction of a value.                       *)
LEMMA LowestIs ==
  ASSUME NEW f, IsLowest(f), NEW g, IsLowest(g), f[1] * g[2] = g[1] * f[2]
  PROVE  f = g
<1> DEFINE a == f[1]
           b == f[2]
           p == g[1]
           q == g[2]
<1>1. /\ a \in Nat /\ b \in Nat \ {0} /\ p \in Nat /\ q \in Nat \ {0}
      /\ Ratio(a, b) = f /\ Ratio(p, q) = g /\ a * q = p * b
  BY DEF IsLowest, IsFraction
<1> HIDE DEF a, b, p, q
<1>2. Ratio(q * a, q * b) = f
  BY <1>1, RatioTimes
<1>3. Ratio(b * p, b * q) = g
  BY <1>1, RatioTimes
<1>4. q * a = b * p /\ q * b = b * q
  BY <1>1
<1> QED
  BY <1>2, <1>3, <1>4

-----------------------------------------------------------------------------
(* Parts of totals.                                                        *)

(* A total is in lowest terms.                                             *)
LEMMA TotalLowest ==
  ASSUME NEW s, Sequence(s), \A i \in 1..Len(s) : IsFraction(s[i])
  PROVE  IsLowest(Total(s))
<1>1. Len(s) \in Nat
  BY SequenceIs
<1>2. PICK sum : /\ Total(s) = sum[Len(s)] /\ AddsAlong(sum, s)
                 /\ \A i \in 0..Len(s) : IsFraction(sum[i])
  BY TotalRuns
<1>3. CASE Len(s) = 0
  BY <1>2, <1>3, NumbersAreLowest DEF AddsAlong
<1>4. CASE Len(s) # 0
  <2> DEFINE f == sum[Len(s) - 1]
             g == s[Len(s)]
  <2>1. Len(s) - 1 \in 0..Len(s) /\ Len(s) \in 0..Len(s) /\ Len(s) \in 1..Len(s)
    BY <1>1, <1>4
  <2>2. IsFraction(f) /\ IsFraction(g) /\ Total(s) = Plus(f, g)
    BY <1>2, <1>4, <2>1 DEF AddsAlong
  <2> HIDE DEF f, g
  <2>3. /\ f[1] \in Nat /\ f[2] \in Nat /\ f[2] > 0
        /\ g[1] \in Nat /\ g[2] \in Nat /\ g[2] > 0
    BY <2>2 DEF IsFraction
  <2>4. /\ f[1] * g[2] \in Nat /\ g[1] * f[2] \in Nat
        /\ f[2] * g[2] \in Nat /\ f[2] * g[2] > 0
    BY <2>3, Product
  <2>5. f[1] * g[2] + g[1] * f[2] \in Nat /\ f[2] * g[2] \in Nat \ {0}
    BY <2>4
  <2> QED
    BY <2>2, <2>5, RatioLowest DEF Plus
<1> QED
  BY <1>3, <1>4

(* A mean, as often as there are items, is the total.                      *)
LEMMA MeanTimes ==
  ASSUME NEW s, Sequence(s), \A i \in 1..Len(s) : IsFraction(s[i]), Len(s) # 0
  PROVE  Times(Mean(s), Len(s)) = Total(s)
<1> DEFINE t == Total(s)
           n == Len(s)
           m == Mean(s)
           x == Times(m, n)
<1>1. n \in Nat \ {0} /\ Is(m, t[1], t[2] * n)
  BY MeanIs
<1>2. IsLowest(t)
  BY TotalLowest
<1> HIDE DEF t, n, m
<1>3. Is(x, m[1] * n, m[2])
  BY <1>1, TimesIs DEF Is
<1>4. IsLowest(x)
  <2>1. m[1] * n \in Nat /\ m[2] \in Nat \ {0}
    BY <1>1, Product DEF Is, IsFraction
  <2> QED
    BY <2>1, RatioLowest DEF Times
<1> HIDE DEF x
<1> DEFINE x1 == x[1]
           x2 == x[2]
           m1 == m[1]
           m2 == m[2]
           t1 == t[1]
           t2 == t[2]
<1>5. /\ x1 \in Nat /\ x2 \in Nat /\ m1 \in Nat /\ m2 \in Nat /\ m2 > 0
      /\ t1 \in Nat /\ t2 \in Nat
      /\ x1 * m2 = (m1 * n) * x2 /\ m1 * (t2 * n) = t1 * m2
  BY <1>1, <1>2, <1>3 DEF Is, IsFraction, IsLowest
<1>6. x1 * t2 = t1 * x2
  <2> HIDE DEF x1, x2, m1, m2, t1, t2
  <2>1. x1 * t2 \in Nat /\ t1 * x2 \in Nat
    BY <1>5, Product
  <2>2. (x1 * t2) * m2 = (x1 * m2) * t2 /\ ((m1 * n) * x2) * t2 = (m1 * (t2 * n)) * x2
        /\ (t1 * m2) * x2 = (t1 * x2) * m2
    BY <1>1, <1>5
  <2>3. (x1 * t2) * m2 = (t1 * x2) * m2
    BY <1>5, <2>2
  <2> QED
    BY <1>5, <2>1, <2>3, Product
<1>7. x = t
  BY <1>2, <1>4, <1>6, LowestIs
<1> QED
  BY <1>7 DEF x, t, m, n

-----------------------------------------------------------------------------
(* A mean of means.                                                        *)

(* f is the n-th part of g.                                                *)
PartOf(f, g, n) == IsFraction(g) /\ Is(f, g[1], g[2] * n)

(* Parts add up.                                                           *)
LEMMA PlusParts ==
  ASSUME NEW n \in Nat \ {0}, NEW f, NEW s, PartOf(f, s, n), NEW g, NEW t, PartOf(g, t, n)
  PROVE  PartOf(Plus(f, g), Plus(s, t), n)
<1> DEFINE s1 == s[1]
           s2 == s[2]
           t1 == t[1]
           t2 == t[2]
           F == Plus(f, g)
           P == Plus(s, t)
           V == s1 * t2 + t1 * s2
           W == s2 * t2
<1>1. /\ s1 \in Nat /\ s2 \in Nat /\ s2 > 0 /\ t1 \in Nat /\ t2 \in Nat /\ t2 > 0
  BY DEF PartOf, IsFraction
<1>2. Is(f, s1, s2 * n) /\ Is(g, t1, t2 * n) /\ Is(s, s1, s2) /\ Is(t, t1, t2)
  BY FractionIs DEF PartOf
<1>3. Is(F, s1 * (t2 * n) + t1 * (s2 * n), (s2 * n) * (t2 * n)) /\ Is(P, V, W)
  BY <1>2, PlusIs
<1> HIDE DEF F, P, s1, s2, t1, t2
<1>4. W \in Nat /\ W > 0 /\ V \in Nat
  <2>1. W \in Nat /\ W > 0 /\ s1 * t2 \in Nat /\ t1 * s2 \in Nat
    BY <1>1, Product
  <2> QED
    BY <2>1
<1>5. s1 * (t2 * n) + t1 * (s2 * n) = V * n /\ (s2 * n) * (t2 * n) = (W * n) * n
  BY <1>1
<1> HIDE DEF V, W
<1> DEFINE F1 == F[1]
           F2 == F[2]
           P1 == P[1]
           P2 == P[2]
<1>6. /\ F1 \in Nat /\ F2 \in Nat /\ F2 > 0 /\ P1 \in Nat /\ P2 \in Nat /\ P2 > 0
      /\ F1 * ((W * n) * n) = (V * n) * F2 /\ P1 * W = V * P2
  BY <1>3, <1>5 DEF Is, IsFraction
<1> HIDE DEF F1, F2, P1, P2
<1>7. F1 * (P2 * n) = P1 * F2
  <2> DEFINE k == W * n
             L == F1 * (P2 * n)
             R == P1 * F2
  <2>1. k \in Nat /\ k > 0 /\ P2 * n \in Nat
    BY <1>4, <1>6, Product
  <2>2. L \in Nat /\ R \in Nat
    BY <1>6, <2>1, Product
  <2>3. L * k = (F1 * ((W * n) * n)) * P2
    BY <1>4, <1>6
  <2>4. ((V * n) * F2) * P2 = ((V * P2) * n) * F2
    BY <1>4, <1>6
  <2>5. R * k = ((P1 * W) * n) * F2
    BY <1>4, <1>6
  <2>6. L * k = R * k
    BY <1>6, <2>3, <2>4, <2>5
  <2> HIDE DEF k, L, R
  <2>7. L = R
    BY <2>1, <2>2, <2>6, Product
  <2> QED
    BY <2>7 DEF L, R
<1>8. P2 * n \in Nat \ {0}
  BY <1>6, Product
<1>9. IsFraction(F) /\ IsFraction(P)
  BY <1>3 DEF Is
<1>10. PartOf(F, P, n)
  BY <1>6, <1>7, <1>8, <1>9 DEF PartOf, Is, F1, F2, P1, P2
<1> QED
  BY <1>10 DEF F, P

(* So do lists of them.                                                    *)
LEMMA TotalParts ==
  ASSUME NEW n \in Nat \ {0}, NEW f, Sequence(f), NEW s, Sequence(s), Len(f) = Len(s),
         \A i \in 1..Len(s) : PartOf(f[i], s[i], n)
  PROVE  PartOf(Total(f), Total(s), n)
<1> DEFINE N == Len(s)
<1>1. N \in Nat /\ Len(f) = N
  BY SequenceIs
<1>2. \A i \in 1..N : IsFraction(f[i]) /\ IsFraction(s[i])
  BY DEF PartOf, Is
<1>3. PICK F : Total(f) = F[N] /\ AddsAlong(F, f)
  BY <1>1, <1>2, TotalRuns
<1>4. PICK S : Total(s) = S[N] /\ AddsAlong(S, s)
  BY <1>1, <1>2, TotalRuns
<1> DEFINE Good == {i \in 0..N : PartOf(F[i], S[i], n)}
<1>5. 0 \in Good
  <2>1. F[0] = Zero /\ S[0] = Zero
    BY <1>1, <1>3, <1>4 DEF AddsAlong
  <2>2. PartOf(Zero, Zero, n)
    BY DEF PartOf, Is, IsFraction, Zero
  <2> QED
    BY <1>1, <2>1, <2>2
<1>6. ASSUME NEW i \in 0..N, i # 0, i - 1 \in Good PROVE i \in Good
  <2>1. i \in 1..N
    BY <1>1, <1>6
  <2>2. F[i] = Plus(F[i - 1], f[i]) /\ S[i] = Plus(S[i - 1], s[i])
    BY <1>1, <1>3, <1>4, <1>6 DEF AddsAlong
  <2> QED
    BY <1>6, <2>1, <2>2, PlusParts
<1> HIDE DEF Good
<1>7. \A i \in 0..N : i \in Good
  BY <1>1, <1>5, <1>6, Induction
<1>8. N \in 0..N
  BY <1>1
<1> QED
  BY <1>3, <1>4, <1>7, <1>8 DEF Good

(* A part of a part.                                                       *)
LEMMA MeanParts ==
  ASSUME NEW n \in Nat \ {0}, NEW f, Sequence(f), NEW s, Sequence(s), Len(f) = Len(s),
         \A i \in 1..Len(s) : PartOf(f[i], s[i], n), Len(s) # 0
  PROVE  PartOf(Mean(f), Total(s), n * Len(s))
<1> DEFINE F == Total(f)
           T == Total(s)
           k == Len(s)
           m == Mean(f)
<1>1. PartOf(F, T, n)
  BY TotalParts
<1>2. k \in Nat \ {0} /\ Is(m, F[1], F[2] * k)
  BY MeanIs DEF PartOf, Is
<1> HIDE DEF F, T, k, m
<1> DEFINE m1 == m[1]
           m2 == m[2]
           F1 == F[1]
           F2 == F[2]
           T1 == T[1]
           T2 == T[2]
<1>3. /\ F1 \in Nat /\ F2 \in Nat /\ F2 > 0 /\ T1 \in Nat /\ T2 \in Nat /\ T2 > 0
      /\ m1 \in Nat /\ m2 \in Nat /\ m2 > 0
      /\ m1 * (F2 * k) = F1 * m2 /\ F1 * (T2 * n) = T1 * F2
  BY <1>1, <1>2 DEF Is, IsFraction, PartOf
<1>4. m1 * (T2 * (n * k)) = T1 * m2
  <2> HIDE DEF m1, m2, F1, F2, T1, T2
  <2> DEFINE L == m1 * (T2 * (n * k))
             R == T1 * m2
  <2>1. n * k \in Nat
    BY <1>2, Product
  <2>2. T2 * (n * k) \in Nat
    BY <1>3, <2>1, Product
  <2>3. L \in Nat /\ R \in Nat
    BY <1>3, <2>2, Product
  <2>4. L * F2 = (m1 * (F2 * k)) * (T2 * n) /\ (F1 * m2) * (T2 * n) = (F1 * (T2 * n)) * m2
        /\ R * F2 = (T1 * F2) * m2
    BY <1>2, <1>3
  <2>5. L * F2 = R * F2
    BY <1>3, <2>4
  <2> HIDE DEF L, R
  <2>6. L = R
    BY <1>3, <2>3, <2>5, Product
  <2> QED
    BY <2>6 DEF L, R
<1>5. T2 * (n * k) \in Nat \ {0}
  <2>1. n * k \in Nat /\ n * k > 0
    BY <1>2, Product
  <2> QED
    BY <1>3, <2>1, Product
<1>6. PartOf(m, T, n * k)
  BY <1>1, <1>2, <1>3, <1>4, <1>5 DEF PartOf, Is
<1> QED
  BY <1>6 DEF m, T, k

(* Parts are ordered as what they are parts of.                            *)
LEMMA PartsInOrder ==
  ASSUME NEW n \in Nat \ {0}, NEW f, NEW s, PartOf(f, s, n), NEW g, NEW t, PartOf(g, t, n)
  PROVE  AtLeast(f, g) <=> AtLeast(s, t)
<1> DEFINE s1 == s[1]
           s2 == s[2]
           t1 == t[1]
           t2 == t[2]
<1>1. /\ s1 \in Nat /\ s2 \in Nat /\ t1 \in Nat /\ t2 \in Nat
      /\ IsFraction(f) /\ IsFraction(g) /\ IsFraction(s) /\ IsFraction(t)
      /\ Is(f, s1, s2 * n) /\ Is(g, t1, t2 * n)
  BY DEF PartOf, IsFraction, Is
<1>2. Greater(g, f) <=> t1 * (s2 * n) > s1 * (t2 * n)
  BY <1>1, GreaterIs
<1>3. AtLeast(f, g) <=> ~Greater(g, f)
  BY <1>1, AtLeastIs
<1>4. AtLeast(s, t) <=> ~(t1 * s2 > s1 * t2)
  BY <1>1 DEF AtLeast
<1> HIDE DEF s1, s2, t1, t2
<1> DEFINE x == t1 * s2
           y == s1 * t2
<1>5. x \in Nat /\ y \in Nat
  BY <1>1, Product
<1>6. t1 * (s2 * n) = x * n /\ s1 * (t2 * n) = y * n
  BY <1>1
<1> HIDE DEF x, y
<1>7. x * n > y * n <=> x > y
  BY <1>5, Product
<1> QED
  BY <1>2, <1>3, <1>4, <1>6, <1>7 DEF x, y

-----------------------------------------------------------------------------
(* Counting records.                                                       *)

(* As many items are taken as are there.                                   *)
LEMMA OnlyCount ==
  ASSUME NEW s, Sequence(s), NEW S
  PROVE  Len(Only(s, S)) = Cardinality({i \in 1..Len(s) : s[i] \in S})
<1> DEFINE r == Only(s, S)
           T == {i \in 1..Len(s) : s[i] \in S}
<1>1. PICK at : Picks(r, s, Len(s), S, at)
  BY OnlyIs
<1>2. Len(r) \in Nat
  BY <1>1, SequenceIs DEF Picks
<1> HIDE DEF r
<1>3. \A k \in 1..Len(r) : at[k] \in T
  BY <1>1 DEF Picks
<1>4. \A k, l \in 1..Len(r) : at[k] = at[l] => k = l
  <2>1. ASSUME NEW k \in 1..Len(r), NEW l \in 1..Len(r), at[k] = at[l] PROVE k = l
    <3>1. at[k] \in 1..Len(s) /\ ~(at[k] < at[l]) /\ ~(at[l] < at[k])
      BY <1>1, <2>1 DEF Picks
    <3>2. ~(k < l) /\ ~(l < k)
      BY <1>1, <3>1 DEF Picks
    <3> QED
      BY <1>2, <3>2
  <2> QED
    BY <2>1
<1>5. \A i \in T : \E k \in 1..Len(r) : at[k] = i
  BY <1>1 DEF Picks
<1> HIDE DEF T
<1>6. Cardinality(T) = Cardinality(1..Len(r))
  <2>1. at \in [1..Len(r) -> T]
    BY <1>1, <1>3 DEF Picks
  <2>2. at \in Bijection(1..Len(r), T)
    BY <1>4, <1>5, <2>1 DEF Bijection, Injection, Surjection, IsInjective
  <2>3. IsFiniteSet(1..Len(r))
    BY <1>2, FS_Interval
  <2> QED
    BY <2>2, <2>3, FS_Bijection DEF ExistsBijection
<1>7. Cardinality(1..Len(r)) = Len(r)
  BY <1>2, FS_Interval
<1> QED
  BY <1>6, <1>7 DEF r, T

(* When all are taken, nothing changes.                                    *)
LEMMA OnlyItself ==
  ASSUME NEW s, Sequence(s)
  PROVE  Only(s, ToSet(s)) = s
<1> DEFINE S == ToSet(s)
<1>1. \E x : x \notin S
  <2> DEFINE R == {y \in S : y \notin y}
  <2>1. R \in R <=> R \in S /\ R \notin R
    OBVIOUS
  <2>2. R \notin S
    BY <2>1
  <2> QED
    BY <2>2
<1>2. PICK x : x \notin S
  BY <1>1
<1>3. s \in Seq(S) /\ \A i \in 1..Len(s) : s[i] \in S
  BY SequenceIs DEF Sequence
<1>4. \A i \in 1..Len(s) : s[i] # x
  BY <1>2, <1>3
<1>5. S \ {x} = S
  BY <1>2
<1> HIDE DEF S
<1>6. Without(s, x) = s
  BY <1>3, <1>4, OnlyAll
<1> QED
  BY <1>5, <1>6 DEF Without, S

(* The share of marked items is the mean of their marks.                    *)
LEMMA MarksMean ==
  ASSUME NEW n \in Nat \ {0}, NEW marked, NEW s, Sequence(s), Len(s) = n,
         \A i \in 1..n : s[i] = IF i \in marked THEN One ELSE Zero
  PROVE  Mean(s) = Ratio(Cardinality({i \in 1..n : i \in marked}), n)
<1> DEFINE C(i) == Cardinality({j \in 1..i : j \in marked})
<1>1. \A i \in 1..n : IsFraction(s[i])
  BY NumbersAreLowest DEF IsLowest
<1>2. PICK sum : Total(s) = sum[n] /\ AddsAlong(sum, s)
  BY <1>1, TotalRuns
<1>3. C(0) = 0
  <2>1. {j \in 1..0 : j \in marked} = {}
    OBVIOUS
  <2> QED
    BY <2>1, FS_EmptySet
<1>4. ASSUME NEW i \in 1..n
      PROVE  C(i - 1) \in Nat /\ C(i) = IF i \in marked THEN C(i - 1) + 1 ELSE C(i - 1)
  <2> DEFINE P == {j \in 1..(i - 1) : j \in marked}
             Q == {j \in 1..i : j \in marked}
  <2>1. IsFiniteSet(1..(i - 1)) /\ P \subseteq 1..(i - 1)
    BY FS_Interval
  <2>2. IsFiniteSet(P) /\ Cardinality(P) \in Nat
    BY <2>1, FS_Subset, FS_CardinalityType
  <2>3. i \notin P
    OBVIOUS
  <2>4. Q = IF i \in marked THEN P \cup {i} ELSE P
    OBVIOUS
  <2> HIDE DEF P, Q
  <2>5. Cardinality(P \cup {i}) = Cardinality(P) + 1
    BY <2>2, <2>3, FS_AddElement
  <2>6. Cardinality(Q) = IF i \in marked THEN Cardinality(P) + 1 ELSE Cardinality(P)
    BY <2>4, <2>5
  <2> QED
    BY <2>2, <2>6 DEF P, Q
<1> HIDE DEF C
<1> DEFINE Good == {i \in 0..n : Is(sum[i], C(i), 1)}
<1>5. Is(Zero, 0, 1) /\ Is(One, 1, 1)
  BY DEF Is, IsFraction, Zero, One
<1>6. 0 \in Good
  BY <1>2, <1>3, <1>5 DEF AddsAlong
<1>7. ASSUME NEW i \in 0..n, i # 0, i - 1 \in Good PROVE i \in Good
  <2>1. i \in 1..n
    BY <1>7
  <2> DEFINE c == C(i - 1)
  <2>2. sum[i] = Plus(sum[i - 1], s[i]) /\ Is(sum[i - 1], c, 1)
        /\ c \in Nat /\ C(i) = IF i \in marked THEN c + 1 ELSE c
    BY <1>2, <1>4, <1>7, <2>1 DEF AddsAlong
  <2> HIDE DEF c
  <2>3. CASE i \in marked
    <3>1. Is(sum[i], c * 1 + 1 * 1, 1 * 1)
      BY <1>5, <2>1, <2>2, <2>3, PlusIs
    <3>2. c * 1 + 1 * 1 = c + 1 /\ 1 * 1 = 1
      BY <2>2
    <3> QED
      BY <2>2, <2>3, <3>1, <3>2
  <2>4. CASE i \notin marked
    <3>1. Is(sum[i], c * 1 + 0 * 1, 1 * 1)
      BY <1>5, <2>1, <2>2, <2>4, PlusIs
    <3>2. c * 1 + 0 * 1 = c /\ 1 * 1 = 1
      BY <2>2
    <3> QED
      BY <2>2, <2>4, <3>1, <3>2
  <2> QED
    BY <2>3, <2>4
<1> HIDE DEF Good
<1>8. \A i \in 0..n : i \in Good
  BY <1>6, <1>7, Induction
<1>9. Is(Total(s), C(n), 1)
  BY <1>2, <1>8 DEF Good
<1> DEFINE m == Mean(s)
           t == Total(s)
           c == C(n)
           q == Ratio(c, n)
<1>10. Is(m, t[1], t[2] * n)
  BY <1>1, MeanIs
<1>11. c \in Nat /\ t[1] \in Nat /\ t[2] \in Nat /\ t[2] > 0 /\ t[1] * 1 = c * t[2]
  BY <1>9 DEF Is, IsFraction
<1>12. IsLowest(m)
  <2>1. t[2] * n \in Nat \ {0}
    BY <1>11, Product
  <2>2. m = Ratio(t[1], t[2] * n)
    BY DEF Mean, Over
  <2> HIDE DEF t, m, c
  <2> QED
    BY <1>11, <2>1, <2>2, RatioLowest
<1> HIDE DEF m, t, c
<1>13. IsLowest(q) /\ Is(q, c, n)
  BY <1>11, RatioLowest, RatioIs
<1> HIDE DEF q
<1> DEFINE m1 == m[1]
           m2 == m[2]
           t1 == t[1]
           t2 == t[2]
           q1 == q[1]
           q2 == q[2]
<1>14. /\ m1 \in Nat /\ m2 \in Nat /\ m2 > 0 /\ q1 \in Nat /\ q2 \in Nat /\ q2 > 0
       /\ t1 \in Nat /\ t2 \in Nat /\ t2 > 0 /\ t1 = c * t2
       /\ m1 * (t2 * n) = t1 * m2 /\ q1 * n = c * q2
  <2>1. m1 \in Nat /\ m2 \in Nat /\ m2 > 0 /\ q1 \in Nat /\ q2 \in Nat /\ q2 > 0
    BY <1>10, <1>13 DEF Is, IsFraction
  <2>2. m1 * (t2 * n) = t1 * m2 /\ q1 * n = c * q2
    BY <1>10, <1>13 DEF Is
  <2>3. t1 * 1 = t1
    BY <1>11
  <2> QED
    BY <1>11, <2>1, <2>2, <2>3
<1>15. m1 * q2 = q1 * m2
  <2> HIDE DEF m1, m2, t1, t2, q1, q2
  <2> DEFINE k == t2 * n
             L == m1 * q2
             R == q1 * m2
  <2>1. k \in Nat /\ k > 0 /\ L \in Nat /\ R \in Nat
    BY <1>14, Product
  <2>2. L * k = (m1 * (t2 * n)) * q2
    BY <1>14
  <2>3. (t1 * m2) * q2 = ((c * t2) * m2) * q2
    BY <1>14
  <2>4. ((c * t2) * m2) * q2 = ((c * q2) * t2) * m2
    BY <1>11, <1>14
  <2>5. R * k = ((q1 * n) * t2) * m2
    BY <1>14
  <2>6. L * k = R * k
    BY <1>14, <2>2, <2>3, <2>4, <2>5
  <2> HIDE DEF k, L, R
  <2>7. L = R
    BY <2>1, <2>6, Product
  <2> QED
    BY <2>7 DEF L, R
<1>16. m = q
  BY <1>12, <1>13, <1>15, LowestIs
<1> QED
  BY <1>16 DEF m, q, c, C

-----------------------------------------------------------------------------
(* What a configuration run says.                                          *)

(* The examples of a run, by id.                                           *)
ByIdIn(r) == ById(plan.datasets[r.dataset])

(* A configuration run of a data set: a record for every example of what    *)
(* the provider observed, and what the engine and the taxonomy make of it.  *)
IsRun(r) ==
  /\ r.dataset \in DOMAIN plan.datasets /\ ~InvalidDataset(plan.datasets[r.dataset])
  /\ Sequence(r.records) /\ Len(r.records) = Len(ByIdIn(r))
  /\ \A i \in 1..Len(ByIdIn(r)) :
       /\ r.records[i] = RecordOf(Observe(ByIdIn(r)[i], r.config))
       /\ r.failures[ByIdIn(r)[i].id] =
            FailureCategories(Observe(ByIdIn(r)[i], r.config), r.records[i], r.config)
  /\ r.aggregates = Aggregates(r.records)
  /\ r.hallucination = HallucinationSummary(r.records)
  /\ r.slices = Slices(r.records, DomainsIn(r))
  /\ r.resumed \in Nat /\ r.produced = Len(ByIdIn(r)) - r.resumed

(* Its data set.                                                           *)
LEMMA RunOver ==
  ASSUME plan \in Plans, NEW r, IsRun(r)
  PROVE  /\ Sequence(ByIdIn(r)) /\ ToSet(ByIdIn(r)) = Examples(r)
         /\ Len(ByIdIn(r)) = Cardinality(Examples(r)) /\ Len(ByIdIn(r)) \in Nat \ {0}
         /\ \A i \in 1..Len(ByIdIn(r)) : IsExample(ByIdIn(r)[i]) /\ ByIdIn(r)[i] \in Examples(r)
         /\ \A i, j \in 1..Len(ByIdIn(r)) : ByIdIn(r)[i].id = ByIdIn(r)[j].id => i = j
         /\ \A e, f \in Examples(r) : e.id = f.id => e = f
<1> DEFINE ds == plan.datasets[r.dataset]
           E == ById(ds)
<1>1. IsDataset(ds) /\ ~InvalidDataset(ds)
  BY PlanAssumption DEF IsRun
<1>2. /\ Sequence(E) /\ ToSet(E) = ToSet(ds) /\ Len(E) = Cardinality(ToSet(ds))
      /\ \A i, j \in 1..Len(E) : E[i].id = E[j].id => i = j
      /\ \A e, f \in ToSet(ds) : e.id = f.id => e = f
  BY <1>1, ByIdIs
<1>3. \A e \in ToSet(E) : IsExample(e)
  BY ExamplesAre DEF IsRun
<1>4. ds # <<>> /\ Sequence(ds)
  BY <1>1 DEF InvalidDataset, IsDataset, IsList, Sequence
<1>5. Len(E) # 0
  <2>1. Len(ds) \in Nat /\ Len(ds) # 0
    BY <1>4, SequenceIs, EmptySeq DEF Sequence
  <2>2. 1 \in 1..Len(ds)
    BY <2>1
  <2>3. ds[1] \in ToSet(ds)
    BY <1>4, <2>2, SequenceIs
  <2>4. IsFiniteSet(ToSet(ds))
    BY <1>4, FiniteValues
  <2> HIDE DEF ds, E
  <2> QED
    BY <1>2, <2>3, <2>4, FS_EmptySet
<1>6. ByIdIn(r) = E /\ Examples(r) = ToSet(ds)
  BY DEF ByIdIn, Examples
<1> HIDE DEF E, ds
<1>7. Len(E) \in Nat /\ \A i \in 1..Len(E) : E[i] \in ToSet(E)
  BY <1>2, SequenceIs
<1> QED
  BY <1>2, <1>3, <1>5, <1>6, <1>7

(* Its records.                                                            *)
LEMMA RunRecords ==
  ASSUME plan \in Plans, NEW r, IsRun(r)
  PROVE  /\ Known(r)
         /\ \A i \in 1..Len(ByIdIn(r)) : IsRecord(r.records[i]) /\ r.records[i].id = ByIdIn(r)[i].id
         /\ {record.id : record \in ToSet(r.records)} = {e.id : e \in Examples(r)}
<1> DEFINE E == ByIdIn(r)
           n == Len(E)
           R == r.records
<1>1. /\ Sequence(E) /\ ToSet(E) = Examples(r) /\ n \in Nat
      /\ \A i \in 1..n : IsExample(E[i]) /\ E[i] \in Examples(r)
  BY RunOver
<1>2. /\ Sequence(R) /\ Len(R) = n
      /\ \A i \in 1..n : R[i] = RecordOf(Observe(E[i], r.config))
  BY DEF IsRun
<1>3. ASSUME NEW i \in 1..n PROVE IsRecord(R[i]) /\ R[i].id = E[i].id
  <2> DEFINE e == E[i]
             o == Observe(e, r.config)
  <2>1. IsObservation(o) /\ o.example = e
    BY <1>1, ObserveIs
  <2> HIDE DEF o
  <2>2. IsRecord(RecordOf(o)) /\ RecordOf(o).id = e.id
    BY <2>1, RecordIs
  <2> QED
    BY <1>2, <2>2 DEF o
<1> HIDE DEF E, n, R
<1>4. ToSet(R) = {R[i] : i \in 1..n} /\ ToSet(E) = {E[i] : i \in 1..n}
  BY <1>1, <1>2, SequenceIs DEF n
<1>5. {record.id : record \in ToSet(R)} = {e.id : e \in Examples(r)}
  <2>1. \A x : x \in {record.id : record \in ToSet(R)} <=> \E i \in 1..n : x = R[i].id
    BY <1>4
  <2>2. \A x : x \in {e.id : e \in Examples(r)} <=> \E i \in 1..n : x = E[i].id
    BY <1>1, <1>4
  <2> QED
    BY <1>3, <2>1, <2>2
<1>6. \A record \in ToSet(R) : IsRecord(record) /\ \E e \in ToSet(E) : record.id = e.id
  BY <1>1, <1>3, <1>4
<1>7. Known(r)
  BY <1>2, <1>6 DEF Known, IsRun, E, R, ByIdIn, DomainsIn
<1> QED
  BY <1>3, <1>5, <1>7 DEF E, n, R

(* As many records as examples, in every domain.                           *)
LEMMA RunCounts ==
  ASSUME plan \in Plans, NEW r, IsRun(r), NEW d
  PROVE  Len(Of(r, d)) = Cardinality(IdsIn(r, d)) /\ Len(Of(r, d)) \in Nat
<1> DEFINE E == ByIdIn(r)
           n == Len(E)
           R == r.records
           T == {record \in ToSet(R) : record.id \in IdsIn(r, d)}
           I == {i \in 1..n : E[i].id \in IdsIn(r, d)}
           f == [i \in I |-> E[i].id]
<1>1. /\ Sequence(E) /\ ToSet(E) = Examples(r) /\ n \in Nat
      /\ \A i, j \in 1..n : E[i].id = E[j].id => i = j
  BY RunOver
<1>2. Sequence(R) /\ Len(R) = n /\ \A i \in 1..n : R[i].id = E[i].id
  BY RunRecords DEF IsRun
<1>3. Of(r, d) = Only(R, T)
  BY DEF Of
<1>4. Len(Of(r, d)) = Cardinality({i \in 1..n : R[i] \in T})
  BY <1>2, <1>3, OnlyCount
<1>5. {i \in 1..n : R[i] \in T} = I
  <2>1. \A i \in 1..n : R[i] \in ToSet(R)
    BY <1>2, SequenceIs
  <2> HIDE DEF n, E, R
  <2> QED
    BY <1>2, <2>1
<1>6. \A x \in IdsIn(r, d) : \E i \in 1..n : x = E[i].id
  <2>1. \A x \in IdsIn(r, d) : \E e \in Examples(r) : x = e.id
    BY DEF IdsIn
  <2>2. ToSet(E) = {E[i] : i \in 1..n}
    BY <1>1, SequenceIs
  <2> HIDE DEF E, n
  <2> QED
    BY <1>1, <2>1, <2>2
<1>7. IsFiniteSet(I) /\ Cardinality(I) \in Nat
  <2>1. IsFiniteSet(1..n) /\ I \subseteq 1..n
    BY <1>1, FS_Interval
  <2> HIDE DEF I, n
  <2> QED
    BY <2>1, FS_Subset, FS_CardinalityType
<1> HIDE DEF E, n, R, T
<1>8. f \in [I -> IdsIn(r, d)] /\ \A i \in I : f[i] = E[i].id /\ i \in 1..n
  OBVIOUS
<1>9. \A x \in IdsIn(r, d) : \E i \in I : E[i].id = x
  BY <1>6
<1> HIDE DEF f, I
<1>10. f \in Bijection(I, IdsIn(r, d))
  BY <1>1, <1>8, <1>9 DEF Bijection, Injection, Surjection, IsInjective
<1>11. Cardinality(I) = Cardinality(IdsIn(r, d))
  BY <1>7, <1>10, FS_Bijection DEF ExistsBijection
<1> QED
  BY <1>4, <1>5, <1>7, <1>11

(* No domain of the data set is empty.                                     *)
LEMMA RunCovers ==
  ASSUME plan \in Plans, NEW r, IsRun(r),
         NEW d \in {Everything} \cup {e.domain : e \in Examples(r)}
  PROVE  Len(Of(r, d)) \in Nat \ {0}
<1>1. Len(Of(r, d)) = Cardinality(IdsIn(r, d)) /\ Len(Of(r, d)) \in Nat
  BY RunCounts
<1>2. \E e \in Examples(r) : d \in {Everything, e.domain}
  <2>1. 1 \in 1..Len(ByIdIn(r))
    BY RunOver
  <2>2. ByIdIn(r)[1] \in Examples(r)
    BY <2>1, RunOver
  <2> QED
    BY <2>2
<1>3. PICK e \in Examples(r) : d \in {Everything, e.domain}
  BY <1>2
<1>4. e.id \in IdsIn(r, d)
  BY <1>3 DEF IdsIn
<1>5. Len(Of(r, d)) # 0
  <2> SUFFICES ASSUME Len(Of(r, d)) = 0 PROVE FALSE
    BY <1>1
  <2> DEFINE T == {record \in ToSet(r.records) : record.id \in IdsIn(r, d)}
  <2>1. Of(r, d) = Only(r.records, T)
    BY DEF Of
  <2>2. Sequence(r.records)
    BY DEF IsRun
  <2>3. PICK record \in ToSet(r.records) : record.id = e.id
    <3>1. e.id \in {x.id : x \in ToSet(r.records)}
      BY <1>3, RunRecords
    <3> QED
      BY <3>1
  <2>4. PICK i \in 1..Len(r.records) : record = r.records[i]
    BY <2>2, SequenceIs
  <2>5. record \in T
    BY <1>4, <2>3
  <2> HIDE DEF T
  <2>6. PICK at : Picks(Of(r, d), r.records, Len(r.records), T, at)
    BY <2>1, <2>2, OnlyIs
  <2>7. \E k \in 1..Len(Of(r, d)) : at[k] = i
    BY <2>4, <2>5, <2>6 DEF Picks
  <2> QED
    BY <2>7
<1> QED
  BY <1>1, <1>5

DomainsOver(r) == {e.domain : e \in Examples(r)}

(* The slices of a run: every metric, overall and in every domain.          *)
LEMMA RunSlices ==
  ASSUME plan \in Plans, NEW r, IsRun(r)
  PROVE  /\ DOMAIN r.slices = Sliced \X ({Everything} \cup DomainsOver(r))
         /\ \A key \in DOMAIN r.slices :
              r.slices[key] = SliceOf(Of(r, key[2]), key[1])
<1> DEFINE D == {Everything} \cup DomainsOver(r)
           doms == DomainsIn(r)
           S == {doms[rec.id] : rec \in ToSet(r.records)}
<1>1. DOMAIN r.slices = Sliced \X ({Everything} \cup S)
  BY DEF IsRun, Slices
<1>2. ASSUME NEW e \in Examples(r) PROVE e.id \in DOMAIN doms /\ doms[e.id] = e.domain
  <2> DEFINE E == ToSet(ById(plan.datasets[r.dataset]))
             ids == {x.id : x \in E}
  <2>1. E = Examples(r) /\ \A x, y \in Examples(r) : x.id = y.id => x = y
    BY RunOver DEF ByIdIn
  <2>2. doms = [id \in ids |-> (CHOOSE x \in E : x.id = id).domain]
    BY DEF DomainsIn, SliceDomains
  <2> HIDE DEF E
  <2>3. e.id \in ids
    BY <2>1
  <2>4. e = CHOOSE x \in E : x.id = e.id
    BY <2>1
  <2> HIDE DEF ids, doms
  <2> QED
    BY <2>2, <2>3, <2>4
<1>3. S = DomainsOver(r)
  <2>1. {rec.id : rec \in ToSet(r.records)} = {e.id : e \in Examples(r)}
    BY RunRecords
  <2>2. ASSUME NEW rec \in ToSet(r.records) PROVE doms[rec.id] \in DomainsOver(r)
    <3>1. rec.id \in {e.id : e \in Examples(r)}
      BY <2>1
    <3>2. PICK e \in Examples(r) : rec.id = e.id
      BY <3>1
    <3> QED
      BY <1>2, <3>2 DEF DomainsOver
  <2>3. ASSUME NEW e \in Examples(r) PROVE e.domain \in S
    <3>1. e.id \in {rec.id : rec \in ToSet(r.records)}
      BY <2>1
    <3>2. PICK rec \in ToSet(r.records) : rec.id = e.id
      BY <3>1
    <3> QED
      BY <1>2, <3>2
  <2>4. \A x \in S : x \in DomainsOver(r)
    BY <2>2
  <2>5. \A x \in DomainsOver(r) : x \in S
    BY <2>3 DEF DomainsOver
  <2> HIDE DEF S
  <2> QED
    BY <2>4, <2>5
<1> HIDE DEF S, doms
<1>4. ASSUME NEW m \in Sliced, NEW d \in D PROVE r.slices[<<m, d>>] = SliceOf(Of(r, d), m)
  <2>1. <<m, d>> \in DOMAIN r.slices
    BY <1>1, <1>3
  <2>2. Known(r)
    BY RunRecords
  <2> QED
    BY <2>1, <2>2, SlicesAre
<1>5. DOMAIN r.slices = Sliced \X D
  BY <1>1, <1>3
<1> HIDE DEF D
<1>6. ASSUME NEW key \in DOMAIN r.slices PROVE r.slices[key] = SliceOf(Of(r, key[2]), key[1])
  <2>1. key[1] \in Sliced /\ key[2] \in D /\ key = <<key[1], key[2]>>
    BY <1>5
  <2>2. PICK m, d : m = key[1] /\ d = key[2] /\ key = <<m, d>>
    BY <2>1
  <2>3. r.slices[<<m, d>>] = SliceOf(Of(r, d), m)
    BY <1>4, <2>1, <2>2
  <2> QED
    BY <2>2, <2>3
<1> QED
  BY <1>5, <1>6 DEF D

(* A slice: as many as there are examples, and its mean, as often, is the    *)
(* sum of the scores.                                                      *)
LEMMA SliceAdds ==
  ASSUME plan \in Plans, NEW r, IsRun(r), NEW m \in Sliced,
         NEW d \in {Everything} \cup DomainsOver(r)
  PROVE  /\ SliceOf(Of(r, d), m).count = Cardinality(IdsIn(r, d))
         /\ Cardinality(IdsIn(r, d)) \in Nat \ {0}
         /\ Times(SliceOf(Of(r, d), m).mean, Cardinality(IdsIn(r, d))) = Sums(Of(r, d), m)
         /\ PartOf(SliceOf(Of(r, d), m).mean, Sums(Of(r, d), m), Cardinality(IdsIn(r, d)))
<1> DEFINE s == Of(r, d)
           n == Cardinality(IdsIn(r, d))
           f == [i \in DOMAIN s |-> ResultOf(s[i], m)]
<1>1. Len(s) = n /\ n \in Nat \ {0}
  BY RunCounts, RunCovers DEF DomainsOver
<1>2. Sequence(s) /\ \A k \in 1..Len(s) : IsRecord(s[k])
  BY RunRecords, SlicesAre
<1>3. SliceOf(s, m).count = Len(s) /\ SliceOf(s, m).mean = Mean(f) /\ Sums(s, m) = Total(f)
  BY DEF SliceOf, Sums
<1>4. IsFraction(Sums(s, m)) /\ Is(SliceOf(s, m).mean, Sums(s, m)[1], Sums(s, m)[2] * Len(s))
  BY <1>1, <1>2, SumIs
<1>5. DOMAIN s = 1..Len(s) /\ Len(s) \in Nat
  BY <1>2, SequenceIs
<1>6. f = [i \in 1..Len(s) |-> f[i]]
  BY <1>5
<1>7. \A i \in 1..Len(s) : IsFraction(f[i])
  <2>1. IsFraction(One) /\ IsFraction(Zero)
    BY DEF IsFraction, One, Zero
  <2> HIDE DEF s
  <2> QED
    BY <1>2, <1>5, <2>1 DEF ResultOf, IsRecord, Sliced
<1> HIDE DEF f, s, n
<1>8. Sequence(f) /\ Len(f) = n
  BY <1>1, <1>5, <1>6, IsSequence
<1>9. Times(Mean(f), Len(f)) = Total(f)
  BY <1>1, <1>7, <1>8, MeanTimes
<1> QED
  BY <1>1, <1>3, <1>4, <1>8, <1>9 DEF PartOf, s, n

(* Overall is over all the records.                                        *)
LEMMA OverallIs ==
  ASSUME plan \in Plans, NEW r, IsRun(r)
  PROVE  Of(r, Everything) = r.records
<1>1. Sequence(r.records)
  BY DEF IsRun
<1>2. IdsIn(r, Everything) = {e.id : e \in Examples(r)}
  BY DEF IdsIn
<1>3. {record.id : record \in ToSet(r.records)} = {e.id : e \in Examples(r)}
  BY RunRecords
<1>4. \A record \in ToSet(r.records) : record.id \in IdsIn(r, Everything)
  BY <1>2, <1>3
<1>5. {record \in ToSet(r.records) : record.id \in IdsIn(r, Everything)} = ToSet(r.records)
  BY <1>4
<1> QED
  BY <1>1, <1>5, OnlyItself DEF Of

(* EvaluationEngine.evaluate: the aggregates are the overall slices.        *)
LEMMA RunAggregates ==
  ASSUME plan \in Plans, NEW r, IsRun(r), NEW m \in Metrics
  PROVE  r.aggregates[m] = SliceOf(Of(r, Everything), m)
<1> DEFINE R == r.records
<1>1. Of(r, Everything) = R
  BY OverallIs
<1>2. m # "hallucination"
  BY DEF Metrics
<1>3. r.aggregates[m] = [count |-> Len(R), mean |-> Mean([i \in DOMAIN R |-> R[i].scores[m]])]
  BY DEF IsRun, Aggregates
<1> HIDE DEF R
<1>4. SliceOf(R, m) = [count |-> Len(R), mean |-> Mean([i \in DOMAIN R |-> ResultOf(R[i], m)])]
  BY DEF SliceOf
<1>5. [i \in DOMAIN R |-> ResultOf(R[i], m)] = [i \in DOMAIN R |-> R[i].scores[m]]
  BY <1>2 DEF ResultOf
<1> QED
  BY <1>1, <1>3, <1>4, <1>5

(* And the rate of the flagged examples is the mean of the flags.           *)
LEMMA RunRate ==
  ASSUME plan \in Plans, NEW r, IsRun(r)
  PROVE  r.hallucination.rate = SliceOf(Of(r, Everything), "hallucination").mean
<1> DEFINE R == r.records
           n == Len(R)
           marked == {i \in 1..n : R[i].hallucinated}
           F == {x \in ToSet(R) : x.hallucinated}
           f == [i \in DOMAIN R |-> ResultOf(R[i], "hallucination")]
<1>1. Of(r, Everything) = R
  BY OverallIs
<1>2. Sequence(R) /\ n \in Nat \ {0} /\ DOMAIN R = 1..n /\ \A i \in 1..n : R[i] \in ToSet(R)
  <2>1. Sequence(R) /\ n = Len(ByIdIn(r)) /\ Len(ByIdIn(r)) \in Nat \ {0}
    BY RunOver DEF IsRun
  <2> QED
    BY <2>1, SequenceIs
<1>3. r.hallucination.rate = Ratio(Len(Only(R, F)), n)
  BY DEF IsRun, HallucinationSummary, Flagged
<1> HIDE DEF R
<1>4. SliceOf(R, "hallucination").mean = Mean(f)
  BY DEF SliceOf
<1>5. \A i \in 1..n : f[i] = IF i \in marked THEN One ELSE Zero
  BY <1>2 DEF ResultOf
<1>6. f = [i \in 1..n |-> f[i]]
  BY <1>2
<1>7. Len(Only(R, F)) = Cardinality({i \in 1..n : R[i] \in F})
  BY <1>2, OnlyCount
<1>8. {i \in 1..n : R[i] \in F} = {i \in 1..n : i \in marked}
  BY <1>2
<1> HIDE DEF f, n, F, marked
<1>9. Sequence(f) /\ Len(f) = n
  BY <1>2, <1>6, IsSequence
<1>10. Mean(f) = Ratio(Cardinality({i \in 1..n : i \in marked}), n)
  BY <1>2, <1>5, <1>9, MarksMean
<1> QED
  BY <1>1, <1>3, <1>4, <1>7, <1>8, <1>10

(* run_configuration, EvaluationEngine.evaluate and aggregate_metric_slices. *)
LEMMA RunAddsUp ==
  ASSUME plan \in Plans, NEW r, IsRun(r)
  PROVE  AddsUp(r, DomainsOver(r))
<1>1. Len(r.records) = Cardinality(Examples(r)) /\ r.resumed + r.produced = Len(r.records)
  BY RunOver DEF IsRun
<1>2. {record.id : record \in ToSet(r.records)} = IdsIn(r, Everything)
  <2>1. IdsIn(r, Everything) = {e.id : e \in Examples(r)}
    BY DEF IdsIn
  <2> QED
    BY <2>1, RunRecords
<1>3. /\ DOMAIN r.slices = Sliced \X ({Everything} \cup DomainsOver(r))
      /\ \A key \in DOMAIN r.slices : r.slices[key] = SliceOf(Of(r, key[2]), key[1])
  BY RunSlices
<1>4. ASSUME NEW key \in DOMAIN r.slices
      PROVE  /\ r.slices[key].count = Cardinality(IdsIn(r, key[2]))
             /\ Times(r.slices[key].mean, r.slices[key].count) = Sums(Of(r, key[2]), key[1])
  <2>1. key[1] \in Sliced /\ key[2] \in {Everything} \cup DomainsOver(r)
    BY <1>3
  <2>2. PICK m, d : m = key[1] /\ d = key[2]
    OBVIOUS
  <2>3. /\ SliceOf(Of(r, d), m).count = Cardinality(IdsIn(r, d))
        /\ Times(SliceOf(Of(r, d), m).mean, Cardinality(IdsIn(r, d))) = Sums(Of(r, d), m)
    BY <2>1, <2>2, SliceAdds
  <2>4. r.slices[key] = SliceOf(Of(r, d), m)
    BY <1>3, <2>2
  <2> QED
    BY <2>2, <2>3, <2>4
<1>5. ASSUME NEW m \in Sliced PROVE r.slices[<<m, Everything>>] = SliceOf(Of(r, Everything), m)
  <2> DEFINE key == <<m, Everything>>
  <2>1. key \in DOMAIN r.slices /\ key[1] = m /\ key[2] = Everything
    BY <1>3
  <2> HIDE DEF key
  <2>2. r.slices[key] = SliceOf(Of(r, Everything), m)
    BY <1>3, <2>1
  <2> QED
    BY <2>2 DEF key
<1>6. \A m \in Metrics : r.aggregates[m] = r.slices[<<m, Everything>>]
  BY <1>5, RunAggregates DEF Sliced
<1>7. r.hallucination.rate = r.slices[<<"hallucination", Everything>>].mean
  BY <1>5, RunRate DEF Sliced
<1> QED
  BY <1>1, <1>2, <1>3, <1>4, <1>6, <1>7 DEF AddsUp

-----------------------------------------------------------------------------
(* When an answer is flagged.                                              *)

(* Of one claim, and of two.                                               *)
LEMMA UniqueFew ==
  ASSUME NEW a, NEW b
  PROVE  Unique(<<a>>) = <<a>> /\ Unique(<<a, b>>) = IF a = b THEN <<a>> ELSE <<a, b>>
<1>1. AddClaim(<<>>, a) = <<a>>
  <2>1. a \notin ToSet(<<>>)
    BY EmptyIs
  <2> QED
    BY <2>1 DEF AddClaim
<1>2. AddClaim(<<a>>, b) = IF a = b THEN <<a>> ELSE <<a, b>>
  <2>1. b \in ToSet(<<a>>) <=> a = b
    BY DEF ToSet
  <2>2. Append(<<a>>, b) = <<a, b>>
    <3> DEFINE one == <<a>>
               x == Append(one, b)
               y == <<a, b>>
    <3>1. Sequence(one) /\ Len(one) = 1 /\ one[1] = a
      BY OneItem
    <3>2. Sequence(y) /\ Len(y) = 2 /\ y[1] = a /\ y[2] = b
      BY TwoItems
    <3> HIDE DEF one, y
    <3>3. Sequence(x) /\ Len(x) = 2 /\ x[1] = a /\ x[2] = b
      <4>1. /\ Sequence(x) /\ Len(x) = Len(one) + 1
            /\ \A i \in 1..Len(one) : x[i] = one[i]
            /\ x[Len(one) + 1] = b
        BY <3>1, AppendIs
      <4> HIDE DEF x
      <4>2. Len(one) + 1 = 2 /\ 1 \in 1..Len(one)
        BY <3>1
      <4> QED
        BY <3>1, <4>1, <4>2
    <3> HIDE DEF x
    <3>4. x = [i \in 1..2 |-> x[i]] /\ y = [i \in 1..2 |-> y[i]]
      BY <3>2, <3>3, SequenceIs
    <3>5. \A i \in 1..2 : x[i] = y[i]
      BY <3>2, <3>3
    <3>6. x = y
      BY <3>4, <3>5
    <3> QED
      BY <3>6 DEF x, y, one
  <2> QED
    BY <2>1, <2>2 DEF AddClaim
<1>3. Unique(<<a>>) = <<a>>
  <2> DEFINE s == <<a>>
  <2>1. s \in Seq({a}) /\ Len(s) = 1 /\ s[1] = a
    OBVIOUS
  <2> HIDE DEF s
  <2>2. PICK u : /\ Unique(s) = u[Len(s)] /\ u[0] = <<>>
                 /\ \A i \in 1..Len(s) : u[i] = AddClaim(u[i - 1], s[i])
    BY <2>1, UniqueRuns
  <2>3. u[1] = AddClaim(u[0], s[1])
    <3>1. 1 \in 1..Len(s) /\ 1 - 1 = 0
      BY <2>1
    <3> QED
      BY <2>2, <3>1
  <2>4. Unique(s) = <<a>>
    BY <1>1, <2>1, <2>2, <2>3
  <2> QED
    BY <2>4 DEF s
<1>4. Unique(<<a, b>>) = IF a = b THEN <<a>> ELSE <<a, b>>
  <2> DEFINE s == <<a, b>>
  <2>1. s \in Seq({a, b}) /\ Len(s) = 2 /\ s[1] = a /\ s[2] = b
    OBVIOUS
  <2> HIDE DEF s
  <2>2. PICK u : /\ Unique(s) = u[Len(s)] /\ u[0] = <<>>
                 /\ \A i \in 1..Len(s) : u[i] = AddClaim(u[i - 1], s[i])
    BY <2>1, UniqueRuns
  <2>3. u[1] = AddClaim(u[0], s[1]) /\ u[2] = AddClaim(u[1], s[2])
    <3>1. 1 \in 1..Len(s) /\ 1 - 1 = 0 /\ 2 \in 1..Len(s) /\ 2 - 1 = 1
      BY <2>1
    <3> QED
      BY <2>2, <3>1
  <2>4. Unique(s) = IF a = b THEN <<a>> ELSE <<a, b>>
    BY <1>1, <1>2, <2>1, <2>2, <2>3
  <2> QED
    BY <2>4 DEF s
<1> QED
  BY <1>3, <1>4

(* A mean of fractions whose total is known.                               *)
LEMMA MeanOf ==
  ASSUME NEW s, Sequence(s), \A i \in 1..Len(s) : IsFraction(s[i]), Len(s) # 0,
         NEW p, NEW q, Is(Total(s), p, q)
  PROVE  Is(Mean(s), p, q * Len(s))
<1> DEFINE t == Total(s)
           m == Mean(s)
           n == Len(s)
           t1 == t[1]
           t2 == t[2]
           m1 == m[1]
           m2 == m[2]
<1>1. n \in Nat \ {0} /\ Is(m, t1, t2 * n)
  BY MeanIs
<1>2. /\ m1 \in Nat /\ m2 \in Nat /\ m2 > 0 /\ t1 \in Nat /\ t2 \in Nat /\ t2 > 0
      /\ p \in Nat /\ q \in Nat /\ q > 0
      /\ m1 * (t2 * n) = t1 * m2 /\ t1 * q = p * t2
  BY <1>1 DEF Is, IsFraction
<1> HIDE DEF t, m, n
<1>3. m1 * (q * n) = p * m2
  <2> HIDE DEF m1, m2, t1, t2
  <2> DEFINE L == m1 * (q * n)
             R == p * m2
  <2>1. q * n \in Nat
    BY <1>1, <1>2, Product
  <2>2. L \in Nat /\ R \in Nat
    BY <1>2, <2>1, Product
  <2>3. L * t2 = (m1 * (t2 * n)) * q
    BY <1>1, <1>2
  <2>4. (t1 * m2) * q = (t1 * q) * m2
    BY <1>2
  <2>5. R * t2 = (p * t2) * m2
    BY <1>2
  <2>6. L * t2 = R * t2
    BY <1>2, <2>3, <2>4, <2>5
  <2> HIDE DEF L, R
  <2>7. L = R
    BY <1>2, <2>2, <2>6, Product
  <2> QED
    BY <2>7 DEF L, R
<1>4. q * n \in Nat \ {0}
  BY <1>1, <1>2, Product
<1>5. Is(m, p, q * n)
  BY <1>1, <1>2, <1>3, <1>4 DEF Is
<1> QED
  BY <1>5 DEF m, n

(* A score: nothing, a half or everything.                                 *)
Halves(f) == IF f = One THEN 2 ELSE IF f = Zero THEN 0 ELSE 1
IsScore(f) == f \in {One, <<1, 2>>, Zero}

LEMMA ScoreIs ==
  ASSUME NEW f, IsScore(f)
  PROVE  Is(f, Halves(f), 2) /\ Halves(f) \in {0, 1, 2} /\ (Halves(f) = 2 <=> f = One)
         /\ IsFraction(f)
  BY DEF IsScore, Is, IsFraction, Halves, One, Zero

(* DeterministicRuleJudge: one or two claims are below the threshold when    *)
(* one of them is not fully supported.                                     *)
LEMMA FewBelow ==
  ASSUME NEW s, Sequence(s), Len(s) \in {1, 2}, \A i \in 1..Len(s) : IsScore(s[i])
  PROVE  Hallucinated(Mean(s)) <=> \E i \in 1..Len(s) : s[i] # One
<1>1. \A i \in 1..Len(s) : IsFraction(s[i])
  BY ScoreIs
<1>2. PICK sum : Total(s) = sum[Len(s)] /\ AddsAlong(sum, s)
  BY <1>1, TotalRuns
<1>3. Is(Threshold, 4, 5) /\ Is(Zero, 0, 1)
  BY DEF Is, IsFraction, Threshold, Zero
<1>4. sum[0] = Zero /\ sum[1] = Plus(sum[0], s[1])
  <2>1. 0 \in 0..Len(s) /\ 1 \in 0..Len(s) /\ 1 - 1 = 0
    OBVIOUS
  <2> QED
    BY <1>2, <2>1 DEF AddsAlong
<1> DEFINE p == Halves(s[1])
<1>5. 1 \in 1..Len(s)
  OBVIOUS
<1>6. Is(s[1], p, 2) /\ p \in {0, 1, 2} /\ (p = 2 <=> s[1] = One)
  BY <1>5, ScoreIs
<1> HIDE DEF p
<1>7. Is(sum[1], 0 * 2 + p * 1, 1 * 2)
  BY <1>3, <1>4, <1>6, PlusIs
<1>8. 0 * 2 + p * 1 = p /\ 1 * 2 = 2
  BY <1>6
<1>9. Is(sum[1], p, 2)
  BY <1>7, <1>8
<1>10. CASE Len(s) = 1
  <2>1. Is(Total(s), p, 2)
    BY <1>2, <1>9, <1>10
  <2>2. Is(Mean(s), p, 2 * Len(s))
    <3> DEFINE k == 2
    <3>1. Is(Total(s), p, k) /\ Len(s) # 0
      BY <1>10, <2>1
    <3> HIDE DEF k
    <3>2. Is(Mean(s), p, k * Len(s))
      BY <1>1, <3>1, MeanOf
    <3> QED
      BY <3>2 DEF k
  <2>3. Is(Mean(s), p, 2)
    BY <1>10, <2>2
  <2>4. Greater(Threshold, Mean(s)) <=> 4 * 2 > p * 5
    BY <1>3, <2>3, GreaterIs
  <2>5. 4 * 2 > p * 5 <=> p # 2
    BY <1>6
  <2> QED
    BY <1>6, <1>10, <2>4, <2>5 DEF Hallucinated
<1>11. CASE Len(s) = 2
  <2>1. sum[2] = Plus(sum[1], s[2])
    <3>1. 2 \in 0..Len(s) /\ 2 - 1 = 1
      BY <1>11
    <3> QED
      BY <1>2, <3>1 DEF AddsAlong
  <2> DEFINE q == Halves(s[2])
  <2>2. Is(s[2], q, 2) /\ q \in {0, 1, 2} /\ (q = 2 <=> s[2] = One)
    BY <1>11, ScoreIs
  <2> HIDE DEF q
  <2>3. Is(sum[2], p * 2 + q * 2, 2 * 2)
    BY <1>9, <2>1, <2>2, PlusIs
  <2>4. Is(Total(s), p * 2 + q * 2, 4)
    BY <1>2, <1>11, <2>3
  <2> DEFINE w == p * 2 + q * 2
  <2>5. w \in {0, 2, 4, 6, 8} /\ (w = 8 <=> p = 2 /\ q = 2)
    BY <1>6, <2>2
  <2>6. Is(Total(s), w, 4)
    BY <2>4
  <2> HIDE DEF w
  <2>7. Is(Mean(s), w, 4 * Len(s))
    <3> DEFINE k == 4
    <3>1. Is(Total(s), w, k) /\ Len(s) # 0
      BY <1>11, <2>6
    <3> HIDE DEF k
    <3>2. Is(Mean(s), w, k * Len(s))
      BY <1>1, <3>1, MeanOf
    <3> QED
      BY <3>2 DEF k
  <2>8. Is(Mean(s), w, 8)
    BY <1>11, <2>7
  <2>9. Greater(Threshold, Mean(s)) <=> 4 * 8 > w * 5
    BY <1>3, <2>8, GreaterIs
  <2>10. 4 * 8 > w * 5 <=> w # 8
    BY <2>5
  <2> QED
    BY <1>6, <1>11, <2>2, <2>5, <2>9, <2>10 DEF Hallucinated
<1> QED
  BY <1>10, <1>11

(* The claims of an answer that cites once or twice.                        *)
LEMMA CitedIs ==
  ASSUME NEW reply, ~reply.refusal, NEW c, NEW x, x # <<>>, NEW d, NEW y, y # <<>>
  PROVE  /\ reply.citations = <<Cites(c, x)>> => Claims(reply) = <<x>>
         /\ reply.citations = <<Cites(c, x), Cites(d, y)>> =>
              Claims(reply) = IF x = y THEN <<x>> ELSE <<x, y>>
<1> DEFINE all == [i \in DOMAIN reply.citations |-> reply.citations[i].claim]
<1>1. CitedClaims(reply) = Without(all, <<>>)
  BY DEF CitedClaims
<1>2. CitedClaims(reply) # <<>> => Claims(reply) = Unique(CitedClaims(reply))
  BY DEF Claims
<1>3. ASSUME reply.citations = <<Cites(c, x)>> PROVE Claims(reply) = <<x>>
  <2> DEFINE s == <<x>>
  <2>1. all = s
    BY <1>3 DEF Cites
  <2>2. s \in Seq({x}) /\ s # <<>> /\ \A i \in 1..Len(s) : s[i] # <<>>
    OBVIOUS
  <2> DEFINE none == <<>>
  <2> HIDE DEF s, all, none
  <2>3. Without(s, none) = s
    <3>1. \A i \in 1..Len(s) : s[i] # none
      BY <2>2 DEF none
    <3> QED
      BY <2>2, <3>1, OnlyAll
  <2>4. Claims(reply) = Unique(s)
    BY <1>1, <1>2, <2>1, <2>2, <2>3 DEF none
  <2> QED
    BY <2>4, UniqueFew DEF s
<1>4. ASSUME reply.citations = <<Cites(c, x), Cites(d, y)>>
      PROVE  Claims(reply) = IF x = y THEN <<x>> ELSE <<x, y>>
  <2> DEFINE s == <<x, y>>
  <2>1. all = s
    BY <1>4 DEF Cites
  <2>2. s \in Seq({x, y}) /\ s # <<>> /\ \A i \in 1..Len(s) : s[i] # <<>>
    OBVIOUS
  <2> DEFINE none == <<>>
  <2> HIDE DEF s, all, none
  <2>3. Without(s, none) = s
    <3>1. \A i \in 1..Len(s) : s[i] # none
      BY <2>2 DEF none
    <3> DEFINE T == {x, y}
    <3>2. s \in Seq(T)
      BY <2>2
    <3> HIDE DEF T
    <3> QED
      BY <3>1, <3>2, OnlyAll
  <2>4. Claims(reply) = Unique(s)
    BY <1>1, <1>2, <2>1, <2>2, <2>3 DEF none
  <2> QED
    BY <2>4, UniqueFew DEF s
<1> QED
  BY <1>3, <1>4

(* A claim is fully supported when a text says it.                         *)
LEMMA SupportIs ==
  ASSUME NEW claim, NEW texts
  PROVE  /\ IsScore(Support(claim, texts))
         /\ Support(claim, texts) = One <=> \E t \in texts : Says(t, claim)
  BY DEF Support, IsScore, One, Zero

(* One or two claims are below the threshold when no text says one of them.  *)
LEMMA ClaimsBelow ==
  ASSUME NEW claims, Sequence(claims), Len(claims) \in {1, 2}, NEW texts, NEW refusal
  PROVE  Hallucinated(FaithfulnessOf(claims, refusal, texts)) <=>
           \E i \in 1..Len(claims) : ~\E t \in texts : Says(t, claims[i])
<1> DEFINE s == [i \in DOMAIN claims |-> Support(claims[i], texts)]
           n == Len(claims)
<1>1. DOMAIN claims = 1..n /\ n \in {1, 2} /\ claims # <<>>
  BY SequenceIs, EmptyIs
<1>2. FaithfulnessOf(claims, refusal, texts) = Mean(s)
  BY <1>1 DEF FaithfulnessOf
<1>3. s = [i \in 1..n |-> s[i]] /\ \A i \in 1..n : s[i] = Support(claims[i], texts)
  BY <1>1
<1> HIDE DEF s, n
<1>4. n \in Nat
  BY <1>1
<1>5. Sequence(s) /\ Len(s) = n
  BY <1>3, <1>4, IsSequence
<1>6. \A i \in 1..n : IsScore(s[i]) /\ (s[i] = One <=> \E t \in texts : Says(t, claims[i]))
  BY <1>3, SupportIs
<1>7. Hallucinated(Mean(s)) <=> \E i \in 1..n : s[i] # One
  BY <1>1, <1>5, <1>6, FewBelow
<1> QED
  BY <1>2, <1>6, <1>7 DEF n

(* EvaluationEngine.evaluate: an answer with one or two cited claims is      *)
(* flagged when no text it was shown says one of them.                     *)
LEMMA CitingFlagged ==
  ASSUME NEW o, ~o.answer.refusal, NEW c, NEW x, x # <<>>, NEW d, NEW y, y # <<>>,
         \/ o.answer.citations = <<Cites(c, x)>>
         \/ o.answer.citations = <<Cites(c, x), Cites(d, y)>>
  PROVE  RecordOf(o).hallucinated <=> Unsaid(o)
<1> DEFINE claims == Claims(o.answer)
           texts == Texts(o.context)
           f == FaithfulnessOf(claims, o.answer.refusal, texts)
<1>1. RecordOf(o).hallucinated <=> Hallucinated(f)
  BY DEF RecordOf, Judged, ScoresOf
<1>2. Unsaid(o) <=> \E i \in DOMAIN o.answer.citations :
                      ~\E t \in texts : Says(t, o.answer.citations[i].claim)
  BY DEF Unsaid
<1>3. PICK reply : reply = o.answer
  OBVIOUS
<1>4. claims = Claims(reply) /\ ~reply.refusal
  BY <1>3
<1> HIDE DEF claims, f
<1>5. CASE o.answer.citations = <<Cites(c, x)>>
  <2>1. claims = <<x>>
    BY <1>3, <1>4, <1>5, CitedIs
  <2>2. Sequence(claims) /\ Len(claims) = 1 /\ claims[1] = x
    BY <2>1, OneItem
  <2>3. Hallucinated(f) <=> \E i \in 1..Len(claims) : ~\E t \in texts : Says(t, claims[i])
    BY <2>2, ClaimsBelow DEF f
  <2>4. (\E i \in 1..Len(claims) : ~\E t \in texts : Says(t, claims[i]))
          <=> ~\E t \in texts : Says(t, x)
    <3>1. 1 \in 1..Len(claims) /\ \A i \in 1..Len(claims) : i = 1
      BY <2>2
    <3> QED
      BY <2>2, <3>1
  <2>5. Unsaid(o) <=> ~\E t \in texts : Says(t, x)
    <3>1. DOMAIN o.answer.citations = {1} /\ o.answer.citations[1].claim = x
      BY <1>5 DEF Cites
    <3> QED
      BY <1>2, <3>1
  <2> QED
    BY <1>1, <2>3, <2>4, <2>5
<1>6. CASE o.answer.citations = <<Cites(c, x), Cites(d, y)>>
  <2>1. claims = IF x = y THEN <<x>> ELSE <<x, y>>
    BY <1>3, <1>4, <1>6, CitedIs
  <2> DEFINE said(z) == \E t \in texts : Says(t, z)
  <2>2. Sequence(claims) /\ Len(claims) \in {1, 2}
        /\ ((\E i \in 1..Len(claims) : ~said(claims[i])) <=> ~said(x) \/ ~said(y))
    <3> HIDE DEF said
    <3>1. CASE x = y
      <4>1. claims = <<x>>
        BY <2>1, <3>1
      <4>2. Sequence(claims) /\ Len(claims) = 1 /\ claims[1] = x
        BY <4>1, OneItem
      <4>3. 1 \in 1..Len(claims) /\ \A i \in 1..Len(claims) : i = 1
        BY <4>2
      <4> QED
        BY <3>1, <4>2, <4>3
    <3>2. CASE x # y
      <4>1. claims = <<x, y>>
        BY <2>1, <3>2
      <4>2. Sequence(claims) /\ Len(claims) = 2 /\ claims[1] = x /\ claims[2] = y
        BY <4>1, TwoItems
      <4>3. 1 \in 1..Len(claims) /\ 2 \in 1..Len(claims)
            /\ \A i \in 1..Len(claims) : i = 1 \/ i = 2
        BY <4>2
      <4> QED
        BY <4>2, <4>3
    <3> QED
      BY <3>1, <3>2
  <2>3. Hallucinated(f) <=> \E i \in 1..Len(claims) : ~\E t \in texts : Says(t, claims[i])
    BY <2>2, ClaimsBelow DEF f
  <2>4. Unsaid(o) <=> ~said(x) \/ ~said(y)
    <3>1. /\ DOMAIN o.answer.citations = {1, 2}
          /\ o.answer.citations[1].claim = x /\ o.answer.citations[2].claim = y
      BY <1>6 DEF Cites
    <3> QED
      BY <1>2, <3>1
  <2> QED
    BY <1>1, <2>2, <2>3, <2>4
<1> QED
  BY <1>5, <1>6

(* A refusal is not.                                                       *)
LEMMA RefusingFlagged ==
  ASSUME NEW o, o.answer.refusal
  PROVE  RecordOf(o).hallucinated <=> Unsaid(o)
<1> DEFINE f == FaithfulnessOf(Claims(o.answer), o.answer.refusal, Texts(o.context))
<1>1. RecordOf(o).hallucinated <=> Hallucinated(f)
  BY DEF RecordOf, Judged, ScoresOf
<1>2. f = One
  BY DEF FaithfulnessOf, Claims
<1>3. ~Greater(Threshold, One)
  BY DEF Greater, Threshold, One
<1> QED
  BY <1>1, <1>2, <1>3 DEF Hallucinated, Unsaid

(* classify_failure: the causes of a record.                               *)
LEMMA CausesExplain ==
  ASSUME NEW o, NEW record, NEW config, record.hallucinated <=> Unsaid(o),
         ~CitationFails(o.answer, Cited(o.answer), o.context)
  PROVE  Explains(FailureCategories(o, record, config), record, o)
<1> DEFINE named == NamedCauses(o, record, config)
<1>1. "generation_unsupported_claim" \in named <=> record.hallucinated
  BY DEF NamedCauses, RetrievalCauses, When
<1>2. "citation_failure" \notin named /\ "unknown" \notin named
  BY DEF NamedCauses, RetrievalCauses, When
<1>3. FailureCategories(o, record, config) = Causes(named, record)
  BY DEF FailureCategories
<1> HIDE DEF named
<1>4. /\ record.hallucinated <=> "generation_unsupported_claim" \in Causes(named, record)
      /\ "citation_failure" \notin Causes(named, record)
      /\ "unknown" \in Causes(named, record) => Causes(named, record) = {"unknown"}
      /\ Degraded(record) => Causes(named, record) # {}
  BY <1>1, <1>2 DEF Causes
<1> QED
  BY <1>3, <1>4 DEF Explains, Degraded

(* What the fixture provider observes is explained.                        *)
Explained(o, config) == Explains(FailureCategories(o, RecordOf(o), config), RecordOf(o), o)

(* A refusal.                                                              *)
LEMMA RefusalExplained ==
  ASSUME NEW e, NEW config PROVE Explained(Refusal(e), config)
<1> DEFINE o == Refusal(e)
<1>1. o.answer.refusal
  BY DEF Refusal, Observed, Answer
<1> HIDE DEF o
<1>2. RecordOf(o).hallucinated <=> Unsaid(o)
  BY <1>1, RefusingFlagged
<1>3. ~CitationFails(o.answer, Cited(o.answer), o.context)
  BY <1>1 DEF CitationFails
<1> DEFINE record == RecordOf(o)
<1> HIDE DEF record
<1>4. Explains(FailureCategories(o, record, config), record, o)
  <2>1. record.hallucinated <=> Unsaid(o)
    BY <1>2 DEF record
  <2> QED
    BY <1>3, <2>1, CausesExplain
<1> QED
  BY <1>4 DEF Explained, o, record

(* An answer that makes a claim of its chunk, or two.                       *)
ClaimsOn(c, citations) ==
  \E x, y : /\ x # <<>> /\ y # <<>>
            /\ citations \in {<<Cites(c, x)>>, <<Cites(c, x), Cites(c, y)>>}

(* It is explained, with its chunk among those that were shown.             *)
LEMMA AnswerExplained ==
  ASSUME NEW e, NEW text, NEW citations, NEW support, NEW distracts, NEW config,
         NEW c, c \in ToSet(support), ClaimsOn(c, citations)
  PROVE  Explained(Observed(e, Answer(text, citations, FALSE), support, distracts), config)
<1>0. PICK x, y : /\ x # <<>> /\ y # <<>>
                  /\ \/ citations = <<Cites(c, x)>>
                     \/ citations = <<Cites(c, x), Cites(c, y)>>
  BY DEF ClaimsOn
<1> DEFINE o == Observed(e, Answer(text, citations, FALSE), support, distracts)
<1>1. /\ ~o.answer.refusal /\ o.answer.citations = citations
      /\ o.answer.cited = <<citations[1].chunk>>
      /\ o.context = Shown(support, distracts)
  BY DEF Observed, Answer
<1> HIDE DEF o
<1>2. RecordOf(o).hallucinated <=> Unsaid(o)
  BY <1>0, <1>1, CitingFlagged
<1>3. Cited(o.answer) = {c}
  <2>1. /\ citations[1].chunk = c /\ 1 \in DOMAIN citations
        /\ \A i \in DOMAIN citations : citations[i].chunk = c
    BY <1>0 DEF Cites
  <2>2. ToSet(<<c>>) = {c}
    BY DEF ToSet
  <2>3. {citations[i].chunk : i \in DOMAIN citations} = {c}
    BY <2>1
  <2> QED
    BY <1>1, <2>1, <2>2, <2>3 DEF Cited
<1>4. DOMAIN o.context = ToSet(support) \cup When(distracts, Distractor)
  BY <1>1 DEF Shown
<1>5. ~CitationFails(o.answer, Cited(o.answer), o.context)
  BY <1>3, <1>4 DEF CitationFails
<1> DEFINE record == RecordOf(o)
<1> HIDE DEF record
<1>6. Explains(FailureCategories(o, record, config), record, o)
  <2>1. record.hallucinated <=> Unsaid(o)
    BY <1>2 DEF record
  <2> QED
    BY <1>5, <2>1, CausesExplain
<1> QED
  BY <1>6 DEF Explained, o, record

(* What supports the reference.                                            *)
LEMMA SupportedExplained ==
  ASSUME NEW e, e.reference # <<>>, NEW support, support[1] \in ToSet(support),
         NEW distracts, NEW config
  PROVE  Explained(SupportedAnswer(e, support, distracts), config)
<1> DEFINE x == e.reference
           c == support[1]
           citations == <<Cites(c, x)>>
<1>1. SupportedAnswer(e, support, distracts)
        = Observed(e, Answer(x, citations, FALSE), support, distracts)
  BY DEF SupportedAnswer
<1>2. c \in ToSet(support) /\ ClaimsOn(c, citations)
  BY DEF ClaimsOn
<1> HIDE DEF x, c, citations
<1>3. Explained(Observed(e, Answer(x, citations, FALSE), support, distracts), config)
  BY <1>2, AnswerExplained
<1> QED
  BY <1>1, <1>3

(* What is invented.                                                       *)
LEMMA InventedExplained ==
  ASSUME plan \in Plans, NEW e, NEW config
  PROVE  Explained(Invents(e, "legal"), config)
<1> DEFINE x == plan.texts["legal"]
           y == plan.invented
           c == "legal"
           citations == <<Cites(c, x), Cites(c, y)>>
           text == x \o y
           support == <<c>>
<1>1. Invents(e, "legal") = Observed(e, Answer(text, citations, FALSE), support, FALSE)
  BY DEF Invents
<1>2. x # <<>> /\ y # <<>>
  BY PlanAssumption
<1>3. c \in ToSet(support)
  BY DEF ToSet
<1> HIDE DEF x, y, c, text, support
<1>4. ClaimsOn(c, citations)
  BY <1>2 DEF ClaimsOn
<1> HIDE DEF citations
<1>5. Explained(Observed(e, Answer(text, citations, FALSE), support, FALSE), config)
  BY <1>3, <1>4, AnswerExplained
<1> QED
  BY <1>1, <1>5 DEF citations, x, y, c, text, support

(* Whatever it does.                                                       *)
LEMMA ObserveExplained ==
  ASSUME plan \in Plans, NEW e, e.reference # <<>>, NEW config
  PROVE  Explained(Observe(e, config), config)
<1>1. ASSUME NEW c, NEW d
      PROVE  <<c>>[1] \in ToSet(<<c>>) /\ <<c, d>>[1] \in ToSet(<<c, d>>)
  BY DEF ToSet
<1>2. CASE e.id = 1
  <2> DEFINE support == <<"fin">>
             distracts == config.pipeline = "dense_bm25_rrf"
  <2>1. Observe(e, config) = IF config.chunking = "fixed_256" THEN Refusal(e)
          ELSE SupportedAnswer(e, support, distracts)
    BY <1>2 DEF Observe
  <2>2. support[1] \in ToSet(support)
    BY <1>1
  <2> HIDE DEF support, distracts
  <2> QED
    BY <2>1, <2>2, RefusalExplained, SupportedExplained
<1>3. CASE e.id = 2
  <2> DEFINE support == <<"legal">>
             distracts == config.pipeline # "hybrid_rerank"
  <2>1. Observe(e, config) = IF config.chunking = "semantic" THEN Invents(e, "legal")
          ELSE SupportedAnswer(e, support, distracts)
    BY <1>3 DEF Observe
  <2>2. support[1] \in ToSet(support)
    BY <1>1
  <2> HIDE DEF support, distracts
  <2> QED
    BY <2>1, <2>2, InventedExplained, SupportedExplained
<1>4. CASE e.id # 1 /\ e.id # 2
  <2> DEFINE support == IF config.pipeline = "dense_only" THEN <<"paper">> ELSE <<"paper", "trial">>
             distracts == config.pipeline = "dense_bm25_rrf"
  <2>1. Observe(e, config) = SupportedAnswer(e, support, distracts)
    BY <1>4 DEF Observe
  <2>2. support[1] \in ToSet(support)
    BY <1>1
  <2> HIDE DEF support, distracts
  <2> QED
    BY <2>1, <2>2, SupportedExplained
<1> QED
  BY <1>2, <1>3, <1>4

-----------------------------------------------------------------------------
(* The winners.                                                            *)

(* A mean of four parts.                                                   *)
LEMMA FourParts ==
  ASSUME NEW n \in Nat \ {0}, NEW f1, NEW s1, PartOf(f1, s1, n), NEW f2, NEW s2, PartOf(f2, s2, n),
         NEW f3, NEW s3, PartOf(f3, s3, n), NEW f4, NEW s4, PartOf(f4, s4, n)
  PROVE  PartOf(Mean(<<f1, f2, f3, f4>>), Total(<<s1, s2, s3, s4>>), n * 4)
<1> DEFINE f == <<f1, f2, f3, f4>>
           s == <<s1, s2, s3, s4>>
<1>1. f \in Seq({f1, f2, f3, f4}) /\ s \in Seq({s1, s2, s3, s4})
  OBVIOUS
<1>2. Sequence(f) /\ Sequence(s) /\ Len(f) = 4 /\ Len(s) = 4
  <2>1. Sequence(f)
    <3> DEFINE T == {f1, f2, f3, f4}
    <3>1. f \in Seq(T)
      BY <1>1
    <3> HIDE DEF T, f
    <3> QED
      BY <3>1, Items
  <2>2. Sequence(s)
    <3> DEFINE T == {s1, s2, s3, s4}
    <3>1. s \in Seq(T)
      BY <1>1
    <3> HIDE DEF T, s
    <3> QED
      BY <3>1, Items
  <2> QED
    BY <2>1, <2>2
<1>3. \A i \in 1..4 : PartOf(f[i], s[i], n)
  <2>1. \A i \in 1..4 : i = 1 \/ i = 2 \/ i = 3 \/ i = 4
    OBVIOUS
  <2>2. /\ f[1] = f1 /\ f[2] = f2 /\ f[3] = f3 /\ f[4] = f4
        /\ s[1] = s1 /\ s[2] = s2 /\ s[3] = s3 /\ s[4] = s4
    OBVIOUS
  <2> HIDE DEF f, s
  <2> QED
    BY <2>1, <2>2
<1> HIDE DEF f, s
<1>4. \A i \in 1..Len(s) : PartOf(f[i], s[i], n)
  BY <1>2, <1>3
<1>5. Len(s) # 0 /\ Len(f) = Len(s)
  BY <1>2
<1>6. PartOf(Mean(f), Total(s), n * Len(s))
  BY <1>2, <1>4, <1>5, MeanParts
<1> QED
  BY <1>2, <1>6 DEF f, s

(* The composite score of a configuration in a domain is a part of what its  *)
(* records merit there, the same part for every configuration.              *)
LEMMA CompositeIs ==
  ASSUME plan \in Plans, NEW r, IsRun(r), NEW d \in DomainsOver(r)
  PROVE  PartOf(Composite(r.slices, d), Merit(r, d), Cardinality(IdsIn(r, d)) * 4)
<1> DEFINE n == Cardinality(IdsIn(r, d))
<1>1. ASSUME NEW m \in Sliced
      PROVE  n \in Nat \ {0} /\ PartOf(r.slices[<<m, d>>].mean, Sums(Of(r, d), m), n)
  <2> DEFINE key == <<m, d>>
  <2>1. key \in DOMAIN r.slices /\ key[1] = m /\ key[2] = d
    BY RunSlices
  <2> HIDE DEF key
  <2>2. r.slices[key] = SliceOf(Of(r, d), m)
    BY <2>1, RunSlices
  <2>3. PartOf(SliceOf(Of(r, d), m).mean, Sums(Of(r, d), m), n) /\ n \in Nat \ {0}
    BY SliceAdds
  <2> QED
    BY <2>2, <2>3 DEF key
<1> HIDE DEF n
<1> DEFINE f(m) == r.slices[<<m, d>>].mean
           s(m) == Sums(Of(r, d), m)
<1>2. /\ n \in Nat \ {0}
      /\ PartOf(f("context_precision"), s("context_precision"), n)
      /\ PartOf(f("context_recall"), s("context_recall"), n)
      /\ PartOf(f("faithfulness"), s("faithfulness"), n)
      /\ PartOf(f("answer_relevancy"), s("answer_relevancy"), n)
  BY <1>1 DEF Sliced, Metrics
<1>3. Composite(r.slices, d)
        = Mean(<<f("context_precision"), f("context_recall"), f("faithfulness"),
                 f("answer_relevancy")>>)
  BY DEF Composite
<1>4. Merit(r, d) = Total(<<s("context_precision"), s("context_recall"), s("faithfulness"),
                            s("answer_relevancy")>>)
  BY DEF Merit
<1> HIDE DEF f, s
<1>5. PartOf(Mean(<<f("context_precision"), f("context_recall"), f("faithfulness"),
                    f("answer_relevancy")>>),
             Total(<<s("context_precision"), s("context_recall"), s("faithfulness"),
                     s("answer_relevancy")>>), n * 4)
  BY <1>2, FourParts
<1> QED
  BY <1>3, <1>4, <1>5 DEF n

(* phase15_evaluation_reconciliation: the best composites are deserved.     *)
LEMMA BestDeserve ==
  ASSUME plan \in Plans, NEW done, NEW d, NEW ds,
         \A i \in DOMAIN done : IsRun(done[i]) /\ done[i].dataset = ds,
         d \in {e.domain : e \in ToSet(plan.datasets[ds])},
         \A i, j \in DOMAIN done : done[i].config.id = done[j].config.id => i = j
  PROVE  Deserved({done[i].config.id : i \in BestOf(Composites(done, d))}, done, d)
<1> DEFINE I == DOMAIN done
           won == {done[i].config.id : i \in BestOf(Composites(done, d))}
           n == Cardinality({e.id : e \in {e \in ToSet(plan.datasets[ds]) :
                                             d \in {Everything, e.domain}}})
           C(i) == Composite(done[i].slices, d)
           M(i) == Merit(done[i], d)
<1>1. ASSUME NEW i \in I PROVE PartOf(C(i), M(i), n * 4) /\ n \in Nat \ {0}
  <2>1. PICK r : r = done[i]
    OBVIOUS
  <2>2. IsRun(r) /\ r.dataset = ds
    BY <2>1
  <2>3. Examples(r) = ToSet(plan.datasets[ds])
    BY <2>2 DEF Examples
  <2>4. d \in DomainsOver(r) /\ Cardinality(IdsIn(r, d)) = n
    BY <2>3 DEF DomainsOver, IdsIn
  <2> HIDE DEF n
  <2>5. PartOf(Composite(r.slices, d), Merit(r, d), n * 4)
    BY <2>2, <2>4, CompositeIs
  <2>6. n \in Nat \ {0}
    BY <2>2, <2>4, RunCounts, RunCovers DEF DomainsOver
  <2> QED
    BY <2>1, <2>5, <2>6
<1> HIDE DEF n, C, M
<1>2. ASSUME NEW i \in I, NEW j \in I PROVE AtLeast(C(i), C(j)) <=> AtLeast(M(i), M(j))
  <2> DEFINE k == n * 4
             fi == C(i)
             fj == C(j)
             si == M(i)
             sj == M(j)
  <2>1. PartOf(fi, si, k) /\ PartOf(fj, sj, k) /\ k \in Nat \ {0}
    BY <1>1
  <2> HIDE DEF k, fi, fj, si, sj
  <2>2. AtLeast(fi, fj) <=> AtLeast(si, sj)
    BY <2>1, PartsInOrder
  <2> QED
    BY <2>2 DEF fi, fj, si, sj
<1> DEFINE comps == Composites(done, d)
           merits == [i \in DOMAIN done |-> Merit(done[i], d)]
<1>3. /\ DOMAIN comps = I /\ \A i \in I : comps[i] = C(i)
      /\ \A i \in I : merits[i] = M(i)
  BY DEF Composites, C, M
<1> HIDE DEF comps, I
<1>4. \A i \in I : i \in BestOf(comps) <=> \A j \in I : AtLeast(merits[i], merits[j])
  <2> HIDE DEF merits
  <2>1. BestOf(comps) = {i \in I : \A j \in I : AtLeast(comps[i], comps[j])}
    BY <1>3 DEF BestOf
  <2> QED
    BY <1>2, <1>3, <2>1
<1>5. \A i \in I : done[i].config.id \in won <=> i \in BestOf(comps)
  <2>1. BestOf(comps) \subseteq I
    BY <1>3 DEF BestOf
  <2>2. won = {done[i].config.id : i \in BestOf(comps)}
    BY DEF comps
  <2> HIDE DEF won
  <2> QED
    BY <2>1, <2>2 DEF I
<1> HIDE DEF won
<1>6. \A i \in DOMAIN done : done[i].config.id \in won <=>
        \A j \in DOMAIN done : AtLeast(merits[i], merits[j])
  BY <1>4, <1>5 DEF I
<1>7. Deserved(won, done, d)
  BY <1>6 DEF Deserved
<1> QED
  BY <1>7 DEF won

-----------------------------------------------------------------------------
(* The invariant of the summary.                                           *)

(* A checkpoint is what the provider observed of an example of its data set *)
(* under its configuration.                                                *)
Genuine(slot, checkpoint) ==
  \E d \in DOMAIN plan.datasets, config \in ToSet(plan.matrix) :
    /\ checkpoint.scope = <<d, config>> /\ ~InvalidDataset(plan.datasets[d])
    /\ \E e \in ToSet(plan.datasets[d]) :
         slot = <<config.id, e.id>> /\ checkpoint.observation = Observe(e, config)

(* As long as no example has failed, those observed come before those due.  *)
Observing(examples, config, due, observations) ==
  /\ Len(examples) = Len(observations) + Len(due)
  /\ \A i \in 1..Len(due) : due[i] = examples[Len(observations) + i]
  /\ \A i \in 1..Len(observations) : observations[i] = Observe(examples[i], config)

(* The records are judgements of the first observations.                   *)
Judging(observations, records) ==
  /\ Len(records) <= Len(observations)
  /\ \A i \in 1..Len(records) : records[i] = RecordOf(observations[i])

(* What a process has in memory.                                           *)
Honest(r) ==
  /\ r.resumed \in Nat
  /\ r.step = "observe" =>
       /\ Judging(r.observations, r.records)
       /\ ~r.failed =>
            Observing(r.examples, plan.matrix[r.config], r.due, r.observations)

(* The files and the process say what was observed.                        *)
CheckpointsTrue ==
  \A slot \in DOMAIN checkpoints : \A c \in {checkpoints[slot]} : Genuine(slot, c)
RunIsTrue == \A r \in {run} : r = Resting \/ Honest(r)
RunFilesTrue ==
  \A c \in DOMAIN runs : \A r \in {runs[c][2]} : IsRun(r) /\ r.config.id = c

(* The summary of a run that has finished is made from its report.          *)
WinnersTrue ==
  finished # 0 =>
    /\ \A i \in DOMAIN plan.matrix : plan.matrix[i].id \in DOMAIN runs
    /\ \A report \in {reports["json"][2]} :
         /\ Sequence(report.runs)
         /\ summary[2].winners = Winners(report.runs, DomainsOf(ById(plan.datasets[report.dataset])))

FaithInv ==
  GateInv /\ CheckpointsTrue /\ RunIsTrue /\ RunFilesTrue /\ WinnersTrue

(* What depends on the plan only stays.                                    *)
LEMMA ObserveStays ==
  ASSUME UNCHANGED plan, NEW e, NEW config PROVE Observe(e, config)' = Observe(e, config)
  BY DEF Observe, Refusal, SupportedAnswer, Invents, Observed, Shown

(* A checkpoint stays one.                                                 *)
LEMMA GenuineStays ==
  ASSUME UNCHANGED plan, NEW slot, NEW c PROVE Genuine(slot, c)' <=> Genuine(slot, c)
<1>1. \A e, config : Observe(e, config)' = Observe(e, config)
  BY ObserveStays
<1> QED
  BY <1>1 DEF Genuine

(* What a process has in memory stays true.                                *)
LEMMA HonestStays ==
  ASSUME UNCHANGED plan, NEW r PROVE Honest(r)' <=> Honest(r)
<1>1. \A e, config : Observe(e, config)' = Observe(e, config)
  BY ObserveStays
<1> QED
  BY <1>1 DEF Honest, Observing

(* A run file stays one of its data set.                                   *)
LEMMA IsRunStays ==
  ASSUME UNCHANGED plan, NEW r PROVE IsRun(r)' <=> IsRun(r)
<1>1. \A e, config : Observe(e, config)' = Observe(e, config)
  BY ObserveStays
<1>2. ByIdIn(r)' = ByIdIn(r) /\ DomainsIn(r)' = DomainsIn(r)
  BY DEF ByIdIn, DomainsIn
<1> QED
  BY <1>1, <1>2 DEF IsRun

(* What a step leaves alone says what it said.                             *)
LEMMA TruthStays ==
  ASSUME UNCHANGED plan
  PROVE  /\ CheckpointsTrue /\ UNCHANGED checkpoints => CheckpointsTrue'
         /\ RunIsTrue /\ UNCHANGED run => RunIsTrue'
         /\ RunFilesTrue /\ UNCHANGED runs => RunFilesTrue'
         /\ run' = Resting => RunIsTrue'
         /\ WinnersTrue /\ UNCHANGED <<runs, reports, summary, finished>> => WinnersTrue'
<1>1. CheckpointsTrue /\ UNCHANGED checkpoints => CheckpointsTrue'
  BY GenuineStays DEF CheckpointsTrue
<1>2. RunIsTrue /\ UNCHANGED run => RunIsTrue'
  BY HonestStays DEF RunIsTrue
<1>3. RunFilesTrue /\ UNCHANGED runs => RunFilesTrue'
  BY IsRunStays DEF RunFilesTrue
<1>4. run' = Resting => RunIsTrue'
  BY DEF RunIsTrue
<1>5. WinnersTrue /\ UNCHANGED <<runs, reports, summary, finished>> => WinnersTrue'
  BY DEF WinnersTrue
<1> QED
  BY <1>1, <1>2, <1>3, <1>4, <1>5

(* While a process runs, no run has finished.                              *)
LEMMA NoneFinished ==
  ASSUME FaithInv, run # Resting, UNCHANGED finished PROVE WinnersTrue'
  BY DEF FaithInv, GateInv, IInv, RunShape, WinnersTrue

(* A process that says the truth after a step.                              *)
LEMMA TrueAfter ==
  ASSUME UNCHANGED plan, NEW r, run' = r, Honest(r) PROVE RunIsTrue'
  BY HonestStays DEF RunIsTrue

-----------------------------------------------------------------------------
(* Its steps.                                                              *)

(* What is known of a process.                                             *)
LEMMA InHands ==
  ASSUME FaithInv, run # Resting
  PROVE  /\ RunIsKnown /\ RunShape /\ RunFiles /\ RunReports /\ DOMAIN run = RunFields
         /\ Honest(run) /\ Sequence(run.examples)
         /\ Sequence(run.due) /\ Sequence(run.observations) /\ Sequence(run.records)
         /\ run.dataset \in DOMAIN plan.datasets /\ ~InvalidDataset(plan.datasets[run.dataset])
         /\ IsDataset(plan.datasets[run.dataset])
         /\ run.examples = ById(plan.datasets[run.dataset])
         /\ Config \in ToSet(plan.matrix)
<1>1. RunIsKnown /\ RunShape /\ RunFiles /\ RunReports /\ Honest(run) /\ plan \in Plans
  BY DEF FaithInv, GateInv, IInv, RunIsTrue
<1>2. Sequence(run.examples)
  BY <1>1, ExamplesAre DEF RunIsKnown
<1>3. IsDataset(plan.datasets[run.dataset])
  BY <1>1, PlanAssumption DEF RunIsKnown
<1>4. Config \in ToSet(plan.matrix)
  BY <1>1, MatrixIs DEF FaithInv, GateInv, IInv, RunShape, Config
<1> QED
  BY <1>1, <1>2, <1>3, <1>4 DEF RunIsKnown, InHand, RunShape

(* One more example is observed.                                           *)
LEMMA ObservingGrows ==
  ASSUME NEW examples, NEW config, NEW due, NEW observations,
         Sequence(examples), Sequence(due), Sequence(observations),
         Observing(examples, config, due, observations), due # <<>>
  PROVE  Observing(examples, config, Tail(due), Append(observations, Observe(Head(due), config)))
<1> DEFINE o == Observe(Head(due), config)
           s == Append(observations, o)
           t == Tail(due)
           n == Len(observations)
           k == Len(due)
<1>1. /\ n \in Nat /\ Len(s) = n + 1 /\ \A i \in 1..n : s[i] = observations[i]
      /\ s[n + 1] = o
  BY AppendIs
<1>2. /\ k \in Nat /\ k >= 1 /\ Len(t) = k - 1 /\ \A i \in 1..(k - 1) : t[i] = due[i + 1]
      /\ Head(due) = due[1]
  BY TailIs, SequenceIs
<1>3. /\ Len(examples) = n + k
      /\ \A i \in 1..k : due[i] = examples[n + i]
      /\ \A i \in 1..n : observations[i] = Observe(examples[i], config)
  BY DEF Observing
<1>4. o = Observe(examples[n + 1], config)
  <2>1. due[1] = examples[n + 1]
    BY <1>2, <1>3
  <2> QED
    BY <1>2, <2>1
<1> HIDE DEF o, s, t, n, k
<1>5. Len(examples) = Len(s) + Len(t)
  BY <1>1, <1>2, <1>3
<1>6. ASSUME NEW i \in 1..Len(t) PROVE t[i] = examples[Len(s) + i]
  <2>1. i \in 1..(k - 1) /\ i + 1 \in 1..k /\ n + (i + 1) = Len(s) + i
    BY <1>1, <1>2
  <2> QED
    BY <1>2, <1>3, <2>1
<1>7. ASSUME NEW i \in 1..Len(s) PROVE s[i] = Observe(examples[i], config)
  <2>1. i \in 1..n \/ i = n + 1
    BY <1>1
  <2> QED
    BY <1>1, <1>3, <1>4, <2>1
<1>8. Observing(examples, config, t, s)
  BY <1>5, <1>6, <1>7 DEF Observing
<1> QED
  BY <1>8 DEF o, s, t

(* More observations leave what was judged.                                *)
LEMMA JudgingStays ==
  ASSUME NEW observations, Sequence(observations), NEW records, Sequence(records),
         Judging(observations, records), NEW o
  PROVE  Judging(Append(observations, o), records)
<1> DEFINE s == Append(observations, o)
           n == Len(observations)
           k == Len(records)
<1>1. n \in Nat /\ Len(s) = n + 1 /\ \A i \in 1..n : s[i] = observations[i]
  BY AppendIs
<1>2. k \in Nat
  BY SequenceIs
<1>3. k <= n /\ \A i \in 1..k : records[i] = RecordOf(observations[i])
  BY DEF Judging
<1> HIDE DEF s, n, k
<1>4. k <= Len(s) /\ \A i \in 1..k : i \in 1..n
  BY <1>1, <1>2, <1>3
<1> QED
  BY <1>1, <1>3, <1>4 DEF Judging, s, n, k

(* One more example is judged.                                             *)
LEMMA JudgingGrows ==
  ASSUME NEW observations, Sequence(observations), NEW records, Sequence(records),
         Judging(observations, records), Len(records) < Len(observations)
  PROVE  Judging(observations, Append(records, RecordOf(observations[Len(records) + 1])))
<1> DEFINE k == Len(records)
           r == RecordOf(observations[k + 1])
           s == Append(records, r)
           n == Len(observations)
<1>1. /\ k \in Nat /\ Len(s) = k + 1 /\ \A i \in 1..k : s[i] = records[i]
      /\ s[k + 1] = r
  BY AppendIs
<1>2. n \in Nat
  BY SequenceIs
<1>3. k < n /\ \A i \in 1..k : records[i] = RecordOf(observations[i])
  BY DEF Judging
<1>4. r = RecordOf(observations[k + 1])
  OBVIOUS
<1> HIDE DEF r, s, n, k
<1>5. Len(s) <= n /\ \A i \in 1..Len(s) : i \in 1..k \/ i = k + 1
  BY <1>1, <1>2, <1>3
<1>6. Judging(observations, s)
  BY <1>1, <1>3, <1>4, <1>5 DEF Judging, n
<1> QED
  BY <1>6 DEF s, r, k

(* A process goes on observing.                                            *)
LEMMA HonestGrows ==
  ASSUME FaithInv, run.step = "observe", run.due # <<>>, NEW o, NEW n \in Nat,
         o = Observe(Head(run.due), Config),
         NEW r, r.due = Tail(run.due), r.observations = Append(run.observations, o),
         r.records = run.records, r.examples = run.examples, r.config = run.config,
         r.failed = run.failed, r.resumed = n
  PROVE  Honest(r)
<1>1. /\ Honest(run) /\ Sequence(run.examples) /\ Sequence(run.due)
      /\ Sequence(run.observations) /\ Sequence(run.records)
  BY InHands DEF Resting
<1>2. Judging(r.observations, r.records)
  BY <1>1, JudgingStays DEF Honest
<1>3. ASSUME ~run.failed
      PROVE  Observing(r.examples, plan.matrix[r.config], r.due, r.observations)
  <2>1. Observing(run.examples, Config, run.due, run.observations)
    BY <1>1, <1>3 DEF Honest, Config
  <2>2. Observing(run.examples, Config, Tail(run.due), Append(run.observations, o))
    BY <1>1, <2>1, ObservingGrows
  <2> QED
    BY <2>2 DEF Config
<1> QED
  BY <1>2, <1>3 DEF Honest

(* A process that starts has observed nothing.                             *)
LEMMA StartTrue == FaithInv /\ Start => RunIsTrue'
<1> SUFFICES ASSUME FaithInv, Start PROVE RunIsTrue'
  OBVIOUS
<1> DEFINE examples == ById(plan.datasets[dataset])
           r == NewRun(started + 1, examples)
<1>1. /\ ~InvalidDataset(plan.datasets[dataset]) /\ UNCHANGED plan /\ run' = r
  BY DEF Start, Records
<1>2. Sequence(examples)
  BY <1>1, ExamplesAre DEF FaithInv, GateInv
<1>3. /\ r.resumed = 0 /\ r.observations = <<>> /\ r.records = <<>>
      /\ r.due = examples /\ r.examples = examples
  BY DEF NewRun
<1> HIDE DEF examples, r
<1>4. Len(<<>>) = 0
  BY EmptyIs
<1>5. Len(examples) \in Nat
  BY <1>2, SequenceIs
<1>6. Judging(r.observations, r.records)
  BY <1>3, <1>4 DEF Judging
<1>7. Observing(r.examples, plan.matrix[r.config], r.due, r.observations)
  BY <1>3, <1>4, <1>5 DEF Observing
<1>8. Honest(r)
  BY <1>3, <1>6, <1>7 DEF Honest
<1> QED
  BY <1>1, <1>8, TrueAfter

(* The next example and its data set.                                      *)
LEMMA NextIs ==
  ASSUME FaithInv, run.step = "observe", run.due # <<>>
  PROVE  /\ Head(run.due) \in ToSet(plan.datasets[run.dataset])
         /\ \A e, f \in ToSet(plan.datasets[run.dataset]) : e.id = f.id => e = f
<1>1. /\ IsDataset(plan.datasets[run.dataset]) /\ ~InvalidDataset(plan.datasets[run.dataset])
      /\ run.examples = ById(plan.datasets[run.dataset])
  BY InHands DEF Resting
<1>2. Head(run.due) \in ToSet(run.examples)
  BY DueIs DEF FaithInv
<1> QED
  BY <1>1, <1>2, ByIdIs

(* _produce_one: what is resumed is what would be observed.                 *)
LEMMA ResumeTrue == FaithInv /\ Resume => RunIsTrue'
<1> SUFFICES ASSUME FaithInv, Resume PROVE RunIsTrue'
  OBVIOUS
<1> DEFINE slot == Slot(Head(run.due))
<1>1. PICK c, o, r :
        /\ c = checkpoints[slot] /\ o = c.observation /\ r = run'
        /\ run.step = "observe" /\ run.due # <<>> /\ slot \in DOMAIN checkpoints
        /\ c.scope = Scope
        /\ r = [run EXCEPT !.due = Tail(@), !.resumed = @ + 1, !.observations = Append(@, o)]
        /\ UNCHANGED plan
  BY DEF Resume, Fits
<1>2. Honest(run) /\ DOMAIN run = RunFields
  BY <1>1, InHands DEF Resting
<1>3. o = Observe(Head(run.due), Config)
  <2>1. Genuine(slot, c)
    BY <1>1 DEF FaithInv, CheckpointsTrue
  <2>2. PICK d \in DOMAIN plan.datasets, config \in ToSet(plan.matrix) :
          /\ c.scope = <<d, config>>
          /\ \E e \in ToSet(plan.datasets[d]) :
               slot = <<config.id, e.id>> /\ o = Observe(e, config)
    BY <1>1, <2>1 DEF Genuine
  <2>3. d = run.dataset /\ config = Config
    BY <1>1, <2>2 DEF Scope
  <2>4. PICK e \in ToSet(plan.datasets[d]) :
          slot = <<config.id, e.id>> /\ o = Observe(e, config)
    BY <2>2
  <2>5. e.id = Head(run.due).id
    BY <2>4 DEF Slot
  <2>6. e = Head(run.due)
    BY <1>1, <2>3, <2>5, NextIs
  <2> QED
    BY <2>3, <2>4, <2>6
<1>4. run.resumed \in Nat
  BY <1>2 DEF Honest
<1> HIDE DEF slot
<1>5. PICK n : n = run.resumed + 1
  OBVIOUS
<1>6. /\ r.due = Tail(run.due) /\ r.observations = Append(run.observations, o)
      /\ r.records = run.records /\ r.examples = run.examples /\ r.config = run.config
      /\ r.failed = run.failed /\ r.resumed = n /\ n \in Nat
  BY <1>1, <1>2, <1>4, <1>5 DEF RunFields
<1>7. Honest(r)
  BY <1>1, <1>3, <1>6, HonestGrows
<1> QED
  BY <1>1, <1>7, TrueAfter

(* What is produced goes to memory and to its checkpoint.                  *)
LEMMA ProduceTrue == FaithInv /\ Produce => RunIsTrue' /\ CheckpointsTrue'
<1> SUFFICES ASSUME FaithInv, Produce PROVE RunIsTrue' /\ CheckpointsTrue'
  OBVIOUS
<1>1. PICK o, r, s, c :
        /\ o = Observe(Head(run.due), Config) /\ s = Slot(Head(run.due)) /\ c = Checkpoint(Scope, o)
        /\ r = run' /\ r = [run EXCEPT !.due = Tail(@), !.observations = Append(@, o)]
        /\ checkpoints' = Put(checkpoints, s, c)
        /\ run.step = "observe" /\ run.due # <<>> /\ UNCHANGED plan
  BY DEF Produce
<1>2. Honest(run) /\ DOMAIN run = RunFields /\ run.dataset \in DOMAIN plan.datasets
      /\ ~InvalidDataset(plan.datasets[run.dataset]) /\ Config \in ToSet(plan.matrix)
  BY <1>1, InHands DEF Resting
<1>3. PICK n : n = run.resumed /\ n \in Nat
  BY <1>2 DEF Honest
<1>4. /\ r.due = Tail(run.due) /\ r.observations = Append(run.observations, o)
      /\ r.records = run.records /\ r.examples = run.examples /\ r.config = run.config
      /\ r.failed = run.failed /\ r.resumed = n
  BY <1>1, <1>2, <1>3 DEF RunFields
<1>5. Honest(r)
  BY <1>1, <1>3, <1>4, HonestGrows
<1>6. Genuine(s, c)
  <2>1. c.scope = <<run.dataset, Config>> /\ c.observation = o
    BY <1>1 DEF Checkpoint, Scope
  <2>2. s = <<Config.id, Head(run.due).id>>
    BY <1>1 DEF Slot
  <2>3. Head(run.due) \in ToSet(plan.datasets[run.dataset])
    BY <1>1, NextIs
  <2> QED
    BY <1>1, <1>2, <2>1, <2>2, <2>3 DEF Genuine
<1>7. /\ DOMAIN checkpoints' = DOMAIN checkpoints \cup {s}
      /\ \A t \in DOMAIN checkpoints' : checkpoints'[t] = IF t = s THEN c ELSE checkpoints[t]
  BY <1>1 DEF Put
<1>8. \A t \in DOMAIN checkpoints' : Genuine(t, checkpoints'[t])
  <2>1. PICK new : new = checkpoints'
    OBVIOUS
  <2>2. \A t \in DOMAIN checkpoints : Genuine(t, checkpoints[t])
    BY DEF FaithInv, CheckpointsTrue
  <2>3. \A t \in DOMAIN new : Genuine(t, new[t])
    BY <1>6, <1>7, <2>1, <2>2
  <2> QED
    BY <2>1, <2>3
<1>9. CheckpointsTrue'
  BY <1>1, <1>8, GenuineStays DEF CheckpointsTrue
<1> QED
  BY <1>1, <1>5, <1>9, TrueAfter

(* An example that fails.                                                  *)
LEMMA FailsTrue == FaithInv /\ (RefuseCheckpoint \/ ProduceFails) => RunIsTrue'
<1> SUFFICES ASSUME FaithInv, RefuseCheckpoint \/ ProduceFails PROVE RunIsTrue'
  OBVIOUS
<1>1. PICK r : /\ r = run' /\ r = [run EXCEPT !.due = Tail(@), !.failed = TRUE]
               /\ run.step = "observe" /\ UNCHANGED plan
  BY DEF RefuseCheckpoint, ProduceFails
<1>2. Honest(run) /\ DOMAIN run = RunFields
  BY <1>1, InHands DEF Resting
<1>3. /\ r.observations = run.observations /\ r.records = run.records
      /\ r.failed /\ r.resumed = run.resumed
  BY <1>1, <1>2 DEF RunFields
<1>4. Honest(r)
  BY <1>1, <1>2, <1>3 DEF Honest
<1> QED
  BY <1>1, <1>4, TrueAfter

(* EvaluationEngine.evaluate.                                              *)
LEMMA JudgeTrue == FaithInv /\ (Judge \/ JudgeRaises) => RunIsTrue'
<1> SUFFICES ASSUME FaithInv, Judge \/ JudgeRaises PROVE RunIsTrue'
  OBVIOUS
<1>1. run.step = "observe" /\ UNCHANGED plan
  BY DEF Judge, JudgeRaises
<1>2. /\ Honest(run) /\ DOMAIN run = RunFields
      /\ Sequence(run.observations) /\ Sequence(run.records)
  BY <1>1, InHands DEF Resting
<1>3. ASSUME NEW records, NEW r, r = run', Judging(run.observations, records),
             /\ r.records = records /\ r.observations = run.observations /\ r.due = run.due
             /\ r.examples = run.examples /\ r.config = run.config
             /\ r.failed = run.failed /\ r.resumed = run.resumed
      PROVE  RunIsTrue'
  <2>1. Honest(r)
    BY <1>1, <1>2, <1>3 DEF Honest
  <2> QED
    BY <1>1, <1>3, <2>1, TrueAfter
<1>4. CASE Judge
  <2>1. PICK records, r :
          /\ records = Append(run.records, RecordOf(run.observations[Len(run.records) + 1]))
          /\ r = run' /\ r = [run EXCEPT !.records = records]
    BY <1>4 DEF Judge
  <2>2. Judging(run.observations, records)
    BY <1>1, <1>2, <1>4, <2>1, JudgingGrows DEF Honest, Judge
  <2> QED
    BY <1>2, <1>3, <2>1, <2>2 DEF RunFields
<1>5. CASE JudgeRaises /\ run' # Resting
  <2>1. PICK r : r = run' /\ r = [run EXCEPT !.attempt = @ + 1, !.records = <<>>]
    BY <1>5 DEF JudgeRaises
  <2>2. Judging(run.observations, <<>>)
    BY <1>2, EmptyIs, SequenceIs DEF Judging
  <2> QED
    BY <1>2, <1>3, <2>1, <2>2 DEF RunFields
<1>6. CASE run' = Resting
  BY <1>1, <1>6, TruthStays
<1> QED
  BY <1>4, <1>5, <1>6

(* A process that tracks, reports or begins another configuration.          *)
LEMMA TrackTrue == FaithInv /\ Track => RunIsTrue'
<1> SUFFICES ASSUME FaithInv, Track PROVE RunIsTrue'
  OBVIOUS
<1>1. PICK r : r = run' /\ run.step = "track" /\ UNCHANGED plan
  BY DEF Track
<1>2. Honest(run) /\ DOMAIN run = RunFields /\ Sequence(run.examples)
  BY <1>1, InHands DEF Resting
<1>3. CASE run' = Configure(run, run.config + 1)
  <2>1. /\ r.due = run.examples /\ r.observations = <<>> /\ r.records = <<>>
        /\ r.resumed = 0 /\ r.examples = run.examples
    BY <1>1, <1>2, <1>3 DEF Configure, RunFields
  <2>2. Len(<<>>) = 0 /\ Len(run.examples) \in Nat
    BY <1>2, EmptyIs, SequenceIs
  <2>3. Judging(r.observations, r.records)
    BY <2>1, <2>2 DEF Judging
  <2>4. Observing(r.examples, plan.matrix[r.config], r.due, r.observations)
    BY <2>1, <2>2 DEF Observing
  <2>5. Honest(r)
    BY <2>1, <2>3, <2>4 DEF Honest
  <2> QED
    BY <1>1, <2>5, TrueAfter
<1>4. CASE run' = [run EXCEPT !.step = "report"]
  <2>1. r.step = "report" /\ r.resumed = run.resumed
    BY <1>1, <1>2, <1>4 DEF RunFields
  <2>2. Honest(r)
    BY <1>2, <2>1 DEF Honest
  <2> QED
    BY <1>1, <2>2, TrueAfter
<1> QED
  BY <1>3, <1>4 DEF Track

(* A process that writes a report.                                         *)
LEMMA ReportTrue ==
  ASSUME FaithInv, NEW f, WriteReport(f) \/ WriteReportFails(f) PROVE RunIsTrue'
<1>1. PICK r : r = run' /\ run.step = "report" /\ UNCHANGED plan
  BY DEF WriteReport, WriteReportFails
<1>2. Honest(run) /\ DOMAIN run = RunFields
  BY <1>1, InHands DEF Resting
<1>3. r.step = "report" /\ r.resumed = run.resumed
  BY <1>1, <1>2 DEF WriteReport, WriteReportFails, RunFields
<1>4. Honest(r)
  BY <1>2, <1>3 DEF Honest
<1> QED
  BY <1>1, <1>4, TrueAfter

(* The causes of an example, when no other has its id.                      *)
LEMMA CausesAre ==
  ASSUME NEW records, Sequence(records), NEW observations, NEW config,
         NEW i \in 1..Len(records),
         \A j \in 1..Len(records) : records[j].id = records[i].id => j = i
  PROVE  FailureRecords(observations, records, config)[records[i].id]
           = FailureCategories(observations[i], records[i], config)
<1> DEFINE id == records[i].id
           F(j) == FailureCategories(observations[j], records[j], config)
           ids == {r.id : r \in ToSet(records)}
<1>1. DOMAIN records = 1..Len(records) /\ ToSet(records) = {records[j] : j \in 1..Len(records)}
  BY SequenceIs
<1>2. id \in ids
  BY <1>1
<1>3. {j \in DOMAIN records : records[j].id = id} = {i}
  BY <1>1
<1>4. FailureRecords(observations, records, config)[id]
        = UNION {F(j) : j \in {j \in DOMAIN records : records[j].id = id}}
  <2> HIDE DEF F, id
  <2>1. FailureRecords(observations, records, config)
          = [x \in ids |-> UNION {F(j) : j \in {j \in DOMAIN records : records[j].id = x}}]
    BY DEF FailureRecords, F
  <2> HIDE DEF ids
  <2> QED
    BY <1>2, <2>1
<1> HIDE DEF F, id
<1>5. UNION {F(j) : j \in {i}} = F(i)
  OBVIOUS
<1> QED
  BY <1>3, <1>4, <1>5 DEF F, id

(* What the process saves is a run over its data set.                       *)
LEMMA SavedIsRun ==
  ASSUME FaithInv, run.step = "observe", run.due = <<>>, ~run.failed,
         Len(run.records) = Len(run.observations)
  PROVE  IsRun(ConfigurationRun) /\ ConfigurationRun.config = Config
<1> DEFINE E == run.examples
           R == run.records
           O == run.observations
           n == Len(E)
<1>1. /\ Honest(run) /\ Sequence(E) /\ Sequence(O) /\ Sequence(R)
      /\ run.dataset \in DOMAIN plan.datasets /\ ~InvalidDataset(plan.datasets[run.dataset])
      /\ IsDataset(plan.datasets[run.dataset])
      /\ E = ById(plan.datasets[run.dataset]) /\ plan \in Plans
  BY InHands DEF Resting, FaithInv, GateInv
<1>2. n \in Nat /\ Len(O) \in Nat /\ Len(R) = n /\ Len(O) = n
      /\ \A i \in 1..n : O[i] = Observe(E[i], Config) /\ R[i] = RecordOf(O[i])
  <2>1. Observing(E, Config, run.due, O) /\ Judging(O, R)
    BY <1>1 DEF Honest, Config
  <2>2. Len(run.due) = 0 /\ Len(O) \in Nat
    BY <1>1, EmptyIs, SequenceIs
  <2> HIDE DEF E, O, R
  <2>3. Len(E) = Len(O) /\ Len(R) = Len(O)
    BY <2>1, <2>2 DEF Observing, O, R
  <2> QED
    BY <2>1, <2>2, <2>3 DEF Observing, Judging
<1>3. \A i \in 1..n : IsExample(E[i])
  BY <1>1, ExamplesAre, SequenceIs
<1>4. \A i, j \in 1..n : E[i].id = E[j].id => i = j
  BY <1>1, ByIdIs
<1> HIDE DEF E, R, O, n
<1>5. ASSUME NEW i \in 1..n PROVE R[i].id = E[i].id
  <2> DEFINE e == E[i]
             o == Observe(e, Config)
  <2>1. IsObservation(o) /\ o.example = e
    BY <1>1, <1>3, ObserveIs
  <2> HIDE DEF o
  <2>2. RecordOf(o).id = e.id
    BY <2>1, RecordIs
  <2> QED
    BY <1>2, <2>2 DEF o
<1>6. ASSUME NEW i \in 1..n
      PROVE  FailureRecords(O, R, Config)[E[i].id] = FailureCategories(O[i], R[i], Config)
  <2>1. \A j \in 1..Len(R) : R[j].id = R[i].id => j = i
    BY <1>2, <1>4, <1>5
  <2>2. i \in 1..Len(R)
    BY <1>2
  <2>3. FailureRecords(O, R, Config)[R[i].id] = FailureCategories(O[i], R[i], Config)
    BY <1>1, <2>1, <2>2, CausesAre
  <2> QED
    BY <1>5, <2>3
<1>7. PICK r : r = ConfigurationRun
  OBVIOUS
<1>8. /\ r.dataset = run.dataset /\ r.config = Config /\ r.records = R
      /\ r.aggregates = Aggregates(R) /\ r.hallucination = HallucinationSummary(R)
      /\ r.slices = Slices(R, SliceDomains(E)) /\ r.failures = FailureRecords(O, R, Config)
      /\ r.resumed = run.resumed /\ r.produced = n - run.resumed
  BY <1>7 DEF ConfigurationRun, E, R, O, n
<1>9. ByIdIn(r) = E /\ DomainsIn(r) = SliceDomains(E)
  BY <1>1, <1>8 DEF ByIdIn, DomainsIn
<1>10. r.resumed \in Nat
  BY <1>1, <1>8 DEF Honest
<1>11. /\ r.dataset \in DOMAIN plan.datasets /\ ~InvalidDataset(plan.datasets[r.dataset])
       /\ Sequence(r.records) /\ Len(r.records) = n
  BY <1>1, <1>2, <1>8
<1>12. ASSUME NEW i \in 1..n
       PROVE  /\ r.records[i] = RecordOf(Observe(E[i], r.config))
              /\ r.failures[E[i].id] =
                   FailureCategories(Observe(E[i], r.config), r.records[i], r.config)
  BY <1>2, <1>6, <1>8
<1>13. IsRun(r)
  BY <1>8, <1>9, <1>10, <1>11, <1>12 DEF IsRun, n
<1> QED
  BY <1>7, <1>8, <1>13

(* What is saved replaces the run file of its configuration.               *)
LEMMA SaveTrue == FaithInv /\ SaveRun => RunIsTrue' /\ RunFilesTrue'
<1> SUFFICES ASSUME FaithInv, SaveRun PROVE RunIsTrue' /\ RunFilesTrue'
  OBVIOUS
<1>0. PICK c : /\ c = ConfigurationRun
               /\ run' = [run EXCEPT !.step = "track", !.done = Append(@, c)]
               /\ runs' = Put(runs, Config.id, Whole(c))
  BY DEF SaveRun
<1>1. PICK r, s, w :
        /\ r = run' /\ s = Config.id /\ w = Whole(c)
        /\ r = [run EXCEPT !.step = "track", !.done = Append(@, c)]
        /\ runs' = Put(runs, s, w)
  BY <1>0
<1>2. /\ run.step = "observe" /\ run.due = <<>> /\ ~run.failed
      /\ Len(run.records) = Len(run.observations) /\ UNCHANGED plan
  BY DEF SaveRun
<1>3. Honest(run) /\ DOMAIN run = RunFields
  BY <1>2, InHands DEF Resting
<1>4. r.step = "track" /\ r.resumed = run.resumed
  BY <1>1, <1>3 DEF RunFields
<1>5. Honest(r)
  BY <1>3, <1>4 DEF Honest
<1>6. IsRun(c) /\ c.config.id = s /\ w[2] = c
  BY <1>0, <1>1, <1>2, SavedIsRun, WholeIs
<1>7. PICK new : new = runs'
  OBVIOUS
<1>8. DOMAIN new = DOMAIN runs \cup {s} /\ \A t \in DOMAIN new : new[t] = IF t = s THEN w ELSE runs[t]
  BY <1>1, <1>7 DEF Put
<1>9. \A t \in DOMAIN runs : IsRun(runs[t][2]) /\ runs[t][2].config.id = t
  BY DEF FaithInv, RunFilesTrue
<1>10. \A t \in DOMAIN new : IsRun(new[t][2]) /\ new[t][2].config.id = t
  BY <1>6, <1>8, <1>9
<1>11. RunFilesTrue'
  BY <1>2, <1>7, <1>10, IsRunStays DEF RunFilesTrue
<1> QED
  BY <1>1, <1>2, <1>5, <1>11, TrueAfter

(* _summary: the winners are those of the report.                          *)
LEMMA ReconcileTrue == FaithInv /\ Reconcile => WinnersTrue'
<1> SUFFICES ASSUME FaithInv, Reconcile PROVE WinnersTrue'
  OBVIOUS
<1>1. /\ run.step = "report" /\ run.pending = {} /\ ~run.failed
      /\ UNCHANGED <<plan, runs, reports>>
  BY DEF Reconcile, Written
<1>2. /\ RunFiles /\ RunReports /\ RunShape
      /\ run.examples = ById(plan.datasets[run.dataset])
  BY <1>1, InHands DEF Resting
<1>3. PICK report, after : /\ report = Report /\ after = summary'
        /\ after = Whole([n |-> run.n, dataset |-> run.dataset,
                          winners |-> Winners(run.done, DomainsOf(run.examples))])
  BY DEF Reconcile
<1>4. reports["json"] = Whole(report)
  BY <1>1, <1>2, <1>3 DEF RunReports, Formats
<1>5. reports["json"][2] = report
  BY <1>4, WholeIs
<1>6. report.runs = run.done /\ report.dataset = run.dataset
  BY <1>3 DEF Report
<1>7. after[2].winners = Winners(report.runs, DomainsOf(ById(plan.datasets[report.dataset])))
  BY <1>2, <1>3, <1>6, WholeIs
<1>8. Sequence(report.runs) /\ \A i \in DOMAIN plan.matrix : plan.matrix[i].id \in DOMAIN runs
  BY <1>1, <1>2, <1>6, MatrixIs DEF RunFiles, Saved, FaithInv, GateInv, IInv
<1> QED
  BY <1>1, <1>3, <1>5, <1>7, <1>8 DEF WinnersTrue

(* An empty directory says nothing.                                        *)
LEMMA InitFaithInv == EvidenceInit => FaithInv
<1> SUFFICES ASSUME EvidenceInit PROVE FaithInv
  OBVIOUS
<1>1. run = Resting /\ checkpoints = <<>> /\ runs = <<>> /\ finished = 0
  BY DEF EvidenceInit
<1>2. CheckpointsTrue /\ RunFilesTrue
  BY <1>1, EmptyIs DEF CheckpointsTrue, RunFilesTrue
<1>3. RunIsTrue /\ WinnersTrue
  BY <1>1 DEF RunIsTrue, WinnersTrue
<1> QED
  BY <1>2, <1>3, InitGateInv DEF FaithInv

(* Every step keeps the invariant.                                         *)
LEMMA NextFaithInv == FaithInv /\ [EvidenceNext]_evidence => FaithInv'
<1> SUFFICES ASSUME FaithInv, [EvidenceNext]_evidence PROVE FaithInv'
  OBVIOUS
<1>1. UNCHANGED plan
  BY PlanStays
<1>2. GateInv'
  BY NextGateInv DEF FaithInv
<1>3. CASE Start
  <2>1. UNCHANGED <<checkpoints, runs>> /\ finished' = 0
    BY <1>3 DEF Start, directory
  <2>2. WinnersTrue'
    BY <2>1 DEF WinnersTrue
  <2> QED
    BY <1>1, <1>2, <1>3, <2>1, <2>2, StartTrue, TruthStays DEF FaithInv
<1>4. ASSUME run # Resting, UNCHANGED finished, RunIsTrue', CheckpointsTrue', RunFilesTrue'
      PROVE  FaithInv'
  BY <1>2, <1>4, NoneFinished DEF FaithInv
<1>5. ASSUME run # Resting, UNCHANGED <<finished, checkpoints, runs>>, RunIsTrue' PROVE FaithInv'
  BY <1>1, <1>4, <1>5, TruthStays DEF FaithInv
<1>6. CASE Resume
  BY <1>5, <1>6, ResumeTrue DEF Resume, directory, milestones, Resting
<1>7. CASE Produce
  <2>1. RunFilesTrue'
    BY <1>1, <1>7, TruthStays DEF Produce, FaithInv
  <2> QED
    BY <1>4, <1>7, <2>1, ProduceTrue DEF Produce, milestones, Resting
<1>8. CASE RefuseCheckpoint \/ ProduceFails
  BY <1>5, <1>8, FailsTrue DEF RefuseCheckpoint, ProduceFails, directory, milestones, Resting
<1>9. CASE Judge \/ JudgeRaises
  BY <1>5, <1>9, JudgeTrue DEF Judge, JudgeRaises, directory, milestones, Resting
<1>10. CASE SaveRun
  <2>1. CheckpointsTrue'
    BY <1>1, <1>10, TruthStays DEF SaveRun, FaithInv
  <2> QED
    BY <1>4, <1>10, <2>1, SaveTrue DEF SaveRun, milestones, Resting
<1>11. CASE Track
  BY <1>5, <1>11, TrackTrue DEF Track, milestones, Resting
<1>12. ASSUME NEW f \in Formats, WriteReport(f) \/ WriteReportFails(f) PROVE FaithInv'
  <2>1. run # Resting /\ UNCHANGED <<finished, checkpoints, runs>>
    BY <1>12 DEF WriteReport, WriteReportFails, milestones, Resting
  <2>2. RunIsTrue'
    BY <1>12, ReportTrue
  <2> QED
    BY <1>5, <2>1, <2>2
<1>13. CASE Reconcile
  <2>1. UNCHANGED <<checkpoints, runs>> /\ run' = Resting
    BY <1>13 DEF Reconcile, End
  <2> QED
    BY <1>1, <1>2, <1>13, <2>1, ReconcileTrue, TruthStays DEF FaithInv
<1>14. CASE ObserveRaises \/ ReportRaises \/ RunDeaths
  <2>1. UNCHANGED <<checkpoints, runs, finished>> /\ run' = Resting
    BY <1>14 DEF ObserveRaises, ReportRaises, RunDeaths, RunDies, TearLog, TearSummary,
                 TearReport, Tearing, End, directory, milestones
  <2>2. run # Resting
    BY <1>14 DEF ObserveRaises, ReportRaises, RunDeaths, RunDies, TearLog, TearSummary,
                 TearReport, Tearing, Resting
  <2> QED
    BY <1>1, <1>5, <2>1, <2>2, TruthStays
<1>15. CASE DeleteStale
  <2>1. UNCHANGED <<run, runs, reports, summary, finished>>
    BY <1>15 DEF DeleteStale, milestones
  <2>2. PICK new : new = checkpoints'
    OBVIOUS
  <2>3. \A slot \in DOMAIN new : slot \in DOMAIN checkpoints /\ new[slot] = checkpoints[slot]
    BY <1>15, <2>2 DEF DeleteStale
  <2>4. \A slot \in DOMAIN new : Genuine(slot, new[slot])
    BY <2>3 DEF CheckpointsTrue, FaithInv
  <2>5. CheckpointsTrue'
    BY <1>1, <2>2, <2>4, GenuineStays DEF CheckpointsTrue
  <2> QED
    BY <1>1, <1>2, <2>1, <2>5, TruthStays DEF FaithInv
<1>16. CASE \/ StartRaises \/ Checks \/ (\E d \in DOMAIN plan.datasets : EditDataset(d))
            \/ UNCHANGED evidence
  <2>1. UNCHANGED <<run, checkpoints, runs, reports, summary, finished>>
    BY <1>16 DEF StartRaises, Checks, Compare, Gate, GateRaises, EditDataset, evidence,
                 directory, milestones
  <2> QED
    BY <1>1, <1>2, <2>1, TruthStays DEF FaithInv
<1> QED
  BY <1>3, <1>6, <1>7, <1>8, <1>9, <1>10, <1>11, <1>12, <1>13, <1>14, <1>15, <1>16
     DEF EvidenceNext, RunStep

-----------------------------------------------------------------------------
(* What the files say.                                                     *)

(* A checkpoint of a record explains it.                                   *)
LEMMA RecordExplained ==
  ASSUME FaithInv, NEW r, IsRun(r), NEW record \in ToSet(r.records),
         NEW observation \in Observations(r, record.id)
  PROVE  Explains(r.failures[record.id], record, observation)
<1>1. plan \in Plans
  BY DEF FaithInv, GateInv
<1>2. PICK i \in 1..Len(ByIdIn(r)) : record = r.records[i]
  BY SequenceIs DEF IsRun
<1>3. PICK e : e = ByIdIn(r)[i]
  OBVIOUS
<1>4. /\ e \in Examples(r) /\ record.id = e.id
      /\ \A x, y \in Examples(r) : x.id = y.id => x = y
  BY <1>1, <1>2, <1>3, RunOver, RunRecords
<1>5. observation = Observe(e, r.config)
  <2>1. PICK slot \in DOMAIN checkpoints :
          /\ slot = <<r.config.id, e.id>> /\ checkpoints[slot].scope = <<r.dataset, r.config>>
          /\ observation = checkpoints[slot].observation
    BY <1>4 DEF Observations
  <2>2. Genuine(slot, checkpoints[slot])
    BY DEF FaithInv, CheckpointsTrue
  <2>3. PICK d \in DOMAIN plan.datasets, config \in ToSet(plan.matrix) :
          /\ checkpoints[slot].scope = <<d, config>>
          /\ \E f \in ToSet(plan.datasets[d]) :
               slot = <<config.id, f.id>> /\ checkpoints[slot].observation = Observe(f, config)
    BY <2>2 DEF Genuine
  <2>4. d = r.dataset /\ config = r.config
    BY <2>1, <2>3
  <2>5. PICK f \in ToSet(plan.datasets[d]) :
          slot = <<config.id, f.id>> /\ checkpoints[slot].observation = Observe(f, config)
    BY <2>3
  <2>6. f.id = e.id /\ f \in Examples(r)
    BY <2>1, <2>4, <2>5 DEF Examples
  <2> QED
    BY <1>4, <2>1, <2>4, <2>5, <2>6
<1>6. /\ record = RecordOf(observation)
      /\ r.failures[record.id] = FailureCategories(observation, record, r.config)
  BY <1>2, <1>3, <1>4, <1>5 DEF IsRun
<1>7. e.reference # <<>>
  BY <1>1, <1>4, PlanAssumption DEF Examples, IsDataset, IsRun
<1>8. Explained(Observe(e, r.config), r.config)
  BY <1>1, <1>7, ObserveExplained
<1> QED
  BY <1>5, <1>6, <1>8 DEF Explained

(* The winners of a finished run are deserved.                              *)
LEMMA WinnersDeserve ==
  ASSUME FaithInv, finished # 0, NEW d \in DOMAIN summary[2].winners
  PROVE  Deserved(summary[2].winners[d], reports["json"][2].runs, d)
<1>1. PICK report, done, ds :
        report = reports["json"][2] /\ done = report.runs /\ ds = report.dataset
  OBVIOUS
<1>2. plan \in Plans /\ IsMatrix(plan.matrix) /\ Complete(finished, report)
  BY <1>1 DEF FaithInv, GateInv, IInv
<1>3. /\ Sequence(done) /\ \A i \in DOMAIN plan.matrix : plan.matrix[i].id \in DOMAIN runs
      /\ summary[2].winners = Winners(done, DomainsOf(ById(plan.datasets[ds])))
  BY <1>1 DEF FaithInv, WinnersTrue
<1>4. DOMAIN done = DOMAIN plan.matrix /\ Len(plan.matrix) >= 1 /\ Len(plan.matrix) \in Nat
      /\ DOMAIN plan.matrix = 1..Len(plan.matrix)
      /\ \A i, j \in DOMAIN plan.matrix : plan.matrix[i].id = plan.matrix[j].id => i = j
  BY <1>1, <1>2, <1>3, MatrixIs, SequenceIs DEF Complete
<1>5. ASSUME NEW i \in DOMAIN done
      PROVE  IsRun(done[i]) /\ done[i].dataset = ds /\ done[i].config.id = plan.matrix[i].id
  <2>1. plan.matrix[i].id \in DOMAIN runs /\ runs[plan.matrix[i].id] = Whole(done[i])
    BY <1>1, <1>2, <1>3, <1>4 DEF Complete
  <2>2. runs[plan.matrix[i].id][2] = done[i]
    BY <2>1, WholeIs
  <2>3. IsRun(done[i]) /\ done[i].config.id = plan.matrix[i].id
    BY <2>1, <2>2 DEF FaithInv, RunFilesTrue
  <2>4. done[i] \in ToSet(done)
    BY <1>3, SequenceIs
  <2>5. done[i].dataset = ds
    BY <1>1, <1>2, <2>4 DEF Complete
  <2> QED
    BY <2>3, <2>5
<1>6. \A i, j \in DOMAIN done : done[i].config.id = done[j].config.id => i = j
  BY <1>4, <1>5
<1>7. d \in {e.domain : e \in ToSet(plan.datasets[ds])}
  <2>1. IsRun(done[1]) /\ done[1].dataset = ds
    BY <1>4, <1>5
  <2>2. IsDataset(plan.datasets[ds]) /\ ~InvalidDataset(plan.datasets[ds])
    BY <1>2, <2>1, PlanAssumption DEF IsRun
  <2>3. ToSet(ById(plan.datasets[ds])) \subseteq ToSet(plan.datasets[ds])
    BY <2>2, ByIdIs
  <2>4. d \in DomainsOf(ById(plan.datasets[ds]))
    BY <1>3 DEF Winners
  <2> QED
    BY <2>3, <2>4 DEF DomainsOf
<1>8. Deserved({done[i].config.id : i \in BestOf(Composites(done, d))}, done, d)
  <2>1. PICK saved, domain, over : saved = done /\ domain = d /\ over = ds
    OBVIOUS
  <2>2. /\ \A i \in DOMAIN saved : IsRun(saved[i]) /\ saved[i].dataset = over
        /\ domain \in {e.domain : e \in ToSet(plan.datasets[over])}
        /\ \A i, j \in DOMAIN saved : saved[i].config.id = saved[j].config.id => i = j
    BY <1>5, <1>6, <1>7, <2>1
  <2>3. Deserved({saved[i].config.id : i \in BestOf(Composites(saved, domain))}, saved, domain)
    BY <1>2, <2>2, BestDeserve
  <2> QED
    BY <2>1, <2>3
<1>9. summary[2].winners[d] = {done[i].config.id : i \in BestOf(Composites(done, d))}
  BY <1>3 DEF Winners
<1> QED
  BY <1>1, <1>8, <1>9

(* run_matrix, aggregate_metric_slices, classify_failure and the summary,  *)
(* for every dataset, matrix and history of runs, resumed checkpoints,     *)
(* edits and deaths: a run file has one record per example and its slices  *)
(* add up to the scores of these records, an example is flagged exactly    *)
(* when its answer claims what no text it was shown says, what is degraded *)
(* is explained, and the winners of a finished run have the best scores.   *)
THEOREM SummaryFaithful == EvidenceSpec => []SummaryIsFaithful
<1>1. FaithInv => SummaryIsFaithful
  <2> SUFFICES ASSUME FaithInv PROVE SummaryIsFaithful
    OBVIOUS
  <2>1. ASSUME NEW c \in DOMAIN runs
        PROVE  \E r \in {runs[c][2]} :
                 /\ AddsUp(r, {e.domain : e \in Examples(r)})
                 /\ \A record \in ToSet(r.records) :
                      \A observation \in Observations(r, record.id) :
                        Explains(r.failures[record.id], record, observation)
    <3>1. PICK r : r = runs[c][2]
      OBVIOUS
    <3>2. IsRun(r) /\ plan \in Plans
      BY <3>1 DEF FaithInv, RunFilesTrue, GateInv
    <3>3. AddsUp(r, {e.domain : e \in Examples(r)})
      BY <3>2, RunAddsUp DEF DomainsOver
    <3> QED
      BY <3>1, <3>2, <3>3, RecordExplained
  <2> QED
    BY <2>1, WinnersDeserve DEF SummaryIsFaithful
<1> QED
  BY <1>1, InitFaithInv, NextFaithInv, PTL DEF EvidenceSpec

-----------------------------------------------------------------------------
(* What an edited snapshot still is.                                       *)

(* A snapshot with the fingerprints of one that was built.                  *)
FromBuilt(s, B) ==
  /\ HasFields(s)
  /\ \E b \in B : /\ s.config_fingerprint = b.config_fingerprint
                  /\ s.index_fingerprint = b.index_fingerprint

(* An entry that may stand for another: of the same chunk.                  *)
StandsFor(x, e) == x = [f \in EntryFields |-> x[f]] /\ Weighed(x) /\ x.chunk = e.chunk

(* Editing entries one by one leaves them numbered.                         *)
LEMMA StillNumbered ==
  ASSUME NEW s, HasFields(s), NEW t, t = [f \in IndexFields |-> t[f]],
         Sequence(t.entries), Len(t.entries) = Len(s.entries),
         \A i \in 1..Len(s.entries) : StandsFor(t.entries[i], s.entries[i])
  PROVE  HasFields(t)
<1>1. Shelved(s.entries)
  BY DEF HasFields
<1>2. Shelved(t.entries)
  BY <1>1 DEF Shelved, StandsFor
<1> QED
  BY <1>2 DEF HasFields, StandsFor

(* Another length or other counts.                                        *)
LEMMA EntryEdited ==
  ASSUME NEW e, StandsFor(e, e), NEW x,
         \/ \E length \in Nat : x = [e EXCEPT !.document_length = length]
         \/ \E counts : /\ x = [e EXCEPT !.term_frequencies = counts]
                        /\ \A t \in DOMAIN counts : counts[t] \in Nat
  PROVE  StandsFor(x, e)
<1>1. e = [f \in EntryFields |-> e[f]] /\ Weighed(e)
  BY DEF StandsFor
<1>2. CASE \E length \in Nat : x = [e EXCEPT !.document_length = length]
  <2>1. PICK length \in Nat : x = [e EXCEPT !.document_length = length]
    BY <1>2
  <2>2. /\ x = [f \in EntryFields |-> x[f]] /\ x.chunk = e.chunk /\ x.tokens = e.tokens
        /\ x.document_length = length /\ x.term_frequencies = e.term_frequencies
    BY <1>1, <2>1 DEF EntryFields
  <2> QED
    BY <1>1, <2>2 DEF StandsFor, Weighed
<1>3. CASE \E counts : /\ x = [e EXCEPT !.term_frequencies = counts]
                      /\ \A t \in DOMAIN counts : counts[t] \in Nat
  <2>1. PICK counts : /\ x = [e EXCEPT !.term_frequencies = counts]
                      /\ \A t \in DOMAIN counts : counts[t] \in Nat
    BY <1>3
  <2>2. /\ x = [f \in EntryFields |-> x[f]] /\ x.chunk = e.chunk /\ x.tokens = e.tokens
        /\ x.document_length = e.document_length /\ x.term_frequencies = counts
    BY <1>1, <2>1 DEF EntryFields
  <2> QED
    BY <1>1, <2>1, <2>2 DEF StandsFor, Weighed
<1> QED
  BY <1>2, <1>3

(* A count stays a number.                                                 *)
LEMMA RecountedAre ==
  ASSUME NEW old, \A u \in DOMAIN old : old[u] \in Nat, NEW terms,
         NEW counts \in Recounted(old, terms)
  PROVE  \A u \in DOMAIN counts : counts[u] \in Nat
<1>1. CASE counts = [u \in DOMAIN old |-> old[u] + 1]
  BY <1>1
<1>2. CASE \E v \in DOMAIN old : counts = [u \in DOMAIN old \ {v} |-> old[u]]
  BY <1>2
<1>3. CASE \E v \in terms \ DOMAIN old : counts = Put(old, v, 1)
  <2>1. PICK v : counts = [u \in DOMAIN old \cup {v} |-> IF u = v THEN 1 ELSE old[u]]
    BY <1>3 DEF Put
  <2> QED
    BY <2>1
<1> QED
  BY <1>1, <1>2, <1>3 DEF Recounted

(* Edits that no check sees leave the entries numbered.                     *)
LEMMA UnnoticedIs ==
  ASSUME NEW s, HasFields(s), s.entries # <<>>, NEW t \in Unnoticed(s)
  PROVE  /\ HasFields(t) /\ t.config_fingerprint = s.config_fingerprint
         /\ t.index_fingerprint = s.index_fingerprint
<1> DEFINE entries == s.entries
           n == Len(entries)
           first == entries[1]
           tables == Recounted(first.term_frequencies, DOMAIN s.document_frequencies)
<1>1. /\ s = [f \in IndexFields |-> s[f]] /\ Shelved(entries)
      /\ \A i \in 1..n : entries[i] = [f \in EntryFields |-> entries[i][f]]
  BY DEF HasFields
<1>2. /\ Sequence(entries) /\ n \in Nat /\ DOMAIN entries = 1..n
      /\ \A i \in 1..n : Weighed(entries[i])
  BY <1>1, SequenceIs DEF Shelved
<1>3. 1 \in 1..n
  BY <1>2, EmptySeq DEF Sequence
<1>4. PICK edited \in Relengthed(entries)
             \cup {[entries EXCEPT ![1].term_frequencies = counts] : counts \in tables} :
        t = [s EXCEPT !.entries = edited, !.average_document_length = Average(edited)]
  BY DEF Unnoticed
<1>5. \A i \in 1..n : StandsFor(entries[i], entries[i])
  BY <1>1, <1>2 DEF StandsFor
<1>6. edited = [i \in 1..n |-> edited[i]] /\ \A i \in 1..n : StandsFor(edited[i], entries[i])
  <2>1. StandsFor(first, first) /\ Weighed(first) /\ first.document_length \in Nat
    BY <1>1, <1>2, <1>3 DEF Weighed, StandsFor
  <2>2. CASE edited = [entries EXCEPT ![1].document_length = @ + 1]
    <3> DEFINE x == [first EXCEPT !.document_length = first.document_length + 1]
    <3>1. StandsFor(x, first)
      <4> HIDE DEF first
      <4>1. first.document_length + 1 \in Nat
        BY <2>1
      <4>2. \E length \in Nat : x = [first EXCEPT !.document_length = length]
        BY <4>1
      <4> QED
        BY <2>1, <4>2, EntryEdited
    <3>2. edited = [entries EXCEPT ![1] = x]
      BY <2>2
    <3> HIDE DEF x, entries, first, n
    <3>3. /\ edited = [i \in 1..n |-> edited[i]] /\ edited[1] = x
          /\ \A i \in 1..n : i # 1 => edited[i] = entries[i]
      BY <1>2, <1>3, <3>2
    <3> QED
      BY <1>5, <3>1, <3>3 DEF first
  <2>3. ASSUME NEW k \in 2..n,
               edited = [entries EXCEPT ![1].document_length = 0,
                                        ![k].document_length = @ + entries[1].document_length]
        PROVE  /\ edited = [i \in 1..n |-> edited[i]]
               /\ \A i \in 1..n : StandsFor(edited[i], entries[i])
    <3> DEFINE e == entries[k]
               x == [first EXCEPT !.document_length = 0]
               y == [e EXCEPT !.document_length = e.document_length + first.document_length]
    <3>1. k \in 1..n /\ k # 1
      BY <1>2
    <3>2. StandsFor(e, e) /\ e.document_length \in Nat
      BY <1>1, <1>2, <3>1 DEF Weighed, StandsFor
    <3>3. StandsFor(x, first)
      <4> HIDE DEF first
      <4>1. \E length \in Nat : x = [first EXCEPT !.document_length = length]
        OBVIOUS
      <4> QED
        BY <2>1, <4>1, EntryEdited
    <3>4. e.document_length + first.document_length \in Nat
      BY <2>1, <3>2
    <3>5. StandsFor(y, e)
      <4> HIDE DEF first, e
      <4>1. \E length \in Nat : y = [e EXCEPT !.document_length = length]
        BY <3>4
      <4> QED
        BY <3>2, <4>1, EntryEdited
    <3>6. edited = [[entries EXCEPT ![1] = x] EXCEPT ![k] = y]
      BY <2>3, <3>1
    <3> HIDE DEF x, y, e, entries, first, n
    <3>7. /\ edited = [i \in 1..n |-> edited[i]] /\ edited[1] = x /\ edited[k] = y
          /\ \A i \in 1..n : i # 1 /\ i # k => edited[i] = entries[i]
      BY <1>2, <1>3, <3>1, <3>6
    <3> QED
      BY <1>5, <3>3, <3>5, <3>7 DEF first, e
  <2>4. ASSUME NEW counts \in tables, edited = [entries EXCEPT ![1].term_frequencies = counts]
        PROVE  /\ edited = [i \in 1..n |-> edited[i]]
               /\ \A i \in 1..n : StandsFor(edited[i], entries[i])
    <3> DEFINE x == [first EXCEPT !.term_frequencies = counts]
    <3>1. \A u \in DOMAIN counts : counts[u] \in Nat
      <4>1. \A u \in DOMAIN first.term_frequencies : first.term_frequencies[u] \in Nat
        BY <2>1 DEF Weighed
      <4> HIDE DEF first
      <4> QED
        BY <2>4, <4>1, RecountedAre
    <3>2. StandsFor(x, first)
      <4> HIDE DEF first
      <4>1. \E c : /\ x = [first EXCEPT !.term_frequencies = c]
                  /\ \A u \in DOMAIN c : c[u] \in Nat
        BY <3>1
      <4> QED
        BY <2>1, <4>1, EntryEdited
    <3>3. edited = [entries EXCEPT ![1] = x]
      BY <2>4
    <3> HIDE DEF x, entries, first, n
    <3>4. /\ edited = [i \in 1..n |-> edited[i]] /\ edited[1] = x
          /\ \A i \in 1..n : i # 1 => edited[i] = entries[i]
      BY <1>2, <1>3, <3>3
    <3> QED
      BY <1>5, <3>2, <3>4 DEF first
  <2> HIDE DEF tables, first
  <2>5. \/ edited \in Relengthed(entries)
        \/ \E counts \in tables : edited = [entries EXCEPT ![1].term_frequencies = counts]
    BY <1>4
  <2>6. edited \in Relengthed(entries) =>
          \/ edited = [entries EXCEPT ![1].document_length = @ + 1]
          \/ \E k \in 2..n :
               edited = [entries EXCEPT ![1].document_length = 0,
                                        ![k].document_length = @ + entries[1].document_length]
    BY DEF Relengthed
  <2> QED
    BY <2>2, <2>3, <2>4, <2>5, <2>6
<1> HIDE DEF entries, n, first, tables
<1>7. Sequence(edited) /\ Len(edited) = n
  BY <1>2, <1>6, IsSequence
<1>8. /\ t = [f \in IndexFields |-> t[f]] /\ t.entries = edited
      /\ t.config_fingerprint = s.config_fingerprint /\ t.index_fingerprint = s.index_fingerprint
  BY <1>1, <1>4 DEF IndexFields
<1>9. HasFields(t)
  <2>1. /\ Sequence(t.entries) /\ Len(t.entries) = Len(s.entries)
        /\ \A i \in 1..Len(s.entries) : StandsFor(t.entries[i], s.entries[i])
    BY <1>6, <1>7, <1>8 DEF entries, n
  <2> QED
    BY <1>8, <2>1, StillNumbered
<1> QED
  BY <1>8, <1>9

(* So do the others.                                                       *)
LEMMA NoticedIs ==
  ASSUME NEW s, HasFields(s), s.entries # <<>>, NEW t \in Noticed(s)
  PROVE  /\ HasFields(t) /\ t.config_fingerprint = s.config_fingerprint
         /\ t.index_fingerprint = s.index_fingerprint
<1> DEFINE entries == s.entries
           n == Len(entries)
           rest == Tail(entries)
<1>1. /\ s = [f \in IndexFields |-> s[f]] /\ Shelved(entries)
      /\ \A i \in 1..n : entries[i] = [f \in EntryFields |-> entries[i][f]]
  BY DEF HasFields
<1>2. /\ Sequence(entries) /\ n \in Nat /\ n <= MaxEntries /\ DOMAIN entries = 1..n
      /\ \A i \in 1..n : Weighed(entries[i])
      /\ \A i, j \in 1..n : entries[i].chunk.chunk_id = entries[j].chunk.chunk_id => i = j
  BY <1>1, SequenceIs DEF Shelved
<1>3. 1 \in 1..n
  BY <1>2, EmptySeq DEF Sequence
<1>4. CASE \/ t = [s EXCEPT !.document_count = @ + 1]
           \/ t = [s EXCEPT !.config.variant = "bm25"]
  <2>1. /\ t = [f \in IndexFields |-> t[f]] /\ t.entries = s.entries
        /\ t.config_fingerprint = s.config_fingerprint /\ t.index_fingerprint = s.index_fingerprint
    BY <1>1, <1>4 DEF IndexFields
  <2> QED
    BY <1>1, <2>1 DEF HasFields
<1>5. CASE t = [s EXCEPT !.entries = rest, !.document_frequencies = Frequencies(rest),
                         !.average_document_length = Average(rest), !.document_count = @ - 1]
  <2> HIDE DEF rest
  <2>1. /\ t = [f \in IndexFields |-> t[f]] /\ t.entries = rest
        /\ t.config_fingerprint = s.config_fingerprint /\ t.index_fingerprint = s.index_fingerprint
    BY <1>1, <1>5 DEF IndexFields
  <2> HIDE DEF entries
  <2>2. Sequence(rest) /\ Len(rest) = n - 1 /\ \A i \in 1..(n - 1) : rest[i] = entries[i + 1]
    <3>1. entries \in Seq(ToSet(entries)) /\ entries # <<>>
      BY <1>2, <1>3, EmptySeq DEF Sequence
    <3>2. /\ rest \in Seq(ToSet(entries)) /\ Len(rest) = Len(entries) - 1
          /\ \A i \in 1..(Len(entries) - 1) : rest[i] = entries[i + 1]
      BY <3>1, HeadTailProperties DEF rest
    <3> QED
      BY <3>2, Items
  <2> HIDE DEF n
  <2>3. \A i \in 1..(n - 1) : i + 1 \in 1..n /\ rest[i] = entries[i + 1]
    BY <1>2, <2>2
  <2>4. /\ \A i \in 1..(n - 1) : Weighed(rest[i]) /\ rest[i] = [f \in EntryFields |-> rest[i][f]]
        /\ \A i, j \in 1..(n - 1) : rest[i].chunk.chunk_id = rest[j].chunk.chunk_id => i = j
    <3>1. ASSUME NEW i \in 1..(n - 1), NEW j \in 1..(n - 1),
                 rest[i].chunk.chunk_id = rest[j].chunk.chunk_id
          PROVE  i = j
      <4>1. i + 1 = j + 1
        BY <1>2, <2>3, <3>1
      <4> QED
        BY <4>1
    <3> QED
      BY <1>1, <1>2, <2>3, <3>1
  <2>5. n - 1 <= MaxEntries
    BY <1>2 DEF MaxEntries
  <2>6. Shelved(rest)
    BY <2>2, <2>4, <2>5 DEF Shelved
  <2> QED
    BY <2>1, <2>2, <2>4, <2>6 DEF HasFields
<1>6. \/ t = [s EXCEPT !.document_count = @ + 1]
      \/ t = [s EXCEPT !.config.variant = "bm25"]
      \/ t = [s EXCEPT !.entries = rest, !.document_frequencies = Frequencies(rest),
                       !.average_document_length = Average(rest), !.document_count = @ - 1]
  BY DEF Noticed
<1> QED
  BY <1>4, <1>5, <1>6

(* Entries with one fingerprint differ in their counts and lengths alone.    *)
LEMMA OneIndex ==
  ASSUME NEW s, HasFields(s), Intact(s), NEW b, IsBuilt(b),
         s.config_fingerprint = b.config_fingerprint, s.index_fingerprint = b.index_fingerprint
  PROVE  Uncounted(s) = Uncounted(b) /\ Consistent(s)
<1> DEFINE x == s.entries
           y == b.entries
           n == Len(x)
           P(e) == <<e.chunk, e.domain, e.date, e.tokens>>
           X == [i \in DOMAIN x |-> P(x[i])]
           Y == [i \in DOMAIN y |-> P(y[i])]
<1>1. /\ s = [f \in IndexFields |-> s[f]] /\ b = [f \in IndexFields |-> b[f]]
      /\ Shelved(x) /\ Shelved(y)
      /\ \A i \in 1..Len(x) : x[i] = [f \in EntryFields |-> x[i][f]]
      /\ \A i \in 1..Len(y) : y[i] = [f \in EntryFields |-> y[i][f]]
  BY DEF HasFields, IsBuilt
<1>2. /\ Len(x) \in Nat /\ DOMAIN x = 1..Len(x) /\ Sequence(x)
      /\ Len(y) \in Nat /\ DOMAIN y = 1..Len(y) /\ Sequence(y)
  BY <1>1, SequenceIs DEF Shelved
<1>3. /\ s.config_fingerprint = s.config
      /\ s.index_fingerprint = IndexFingerprint(s.config_fingerprint, x)
      /\ s.document_frequencies = Frequencies(x)
      /\ s.average_document_length = Average(x) /\ s.document_count = Len(x)
      /\ b.config_fingerprint = b.config
      /\ b.index_fingerprint = IndexFingerprint(b.config_fingerprint, y)
      /\ b.document_frequencies = Frequencies(y)
      /\ b.average_document_length = Average(y) /\ b.document_count = Len(y)
  BY DEF Intact, IsBuilt
<1>4. Consistent(s)
  BY <1>1, <1>3 DEF Consistent
<1>5. X = Y
  <2>1. <<s.config_fingerprint, X>> = <<b.config_fingerprint, Y>>
    BY <1>3 DEF IndexFingerprint
  <2> HIDE DEF X, Y
  <2> QED
    BY <2>1
<1>6. DOMAIN x = DOMAIN y /\ Len(y) = n
  <2>1. DOMAIN X = DOMAIN x /\ DOMAIN Y = DOMAIN y
    OBVIOUS
  <2>2. 1..Len(x) = 1..Len(y)
    BY <1>2, <1>5, <2>1
  <2> DEFINE p == Len(x)
             q == Len(y)
  <2>3. p \in Nat /\ q \in Nat /\ 1..p = 1..q
    BY <1>2, <2>2
  <2> HIDE DEF p, q
  <2>4. p = q
    <3>1. p \in 1..p \/ p = 0
      BY <2>3
    <3>2. q \in 1..q \/ q = 0
      BY <2>3
    <3>3. p <= q /\ q <= p
      BY <2>3, <3>1, <3>2
    <3> QED
      BY <2>3, <3>3
  <2> QED
    BY <1>2, <2>4 DEF p, q
<1> HIDE DEF x, y
<1>7. ASSUME NEW i \in 1..n
      PROVE  /\ x[i].chunk = y[i].chunk /\ x[i].domain = y[i].domain /\ x[i].date = y[i].date
             /\ x[i].tokens = y[i].tokens
  <2>1. X[i] = P(x[i]) /\ Y[i] = P(y[i])
    BY <1>2, <1>6
  <2>2. P(x[i]) = P(y[i])
    BY <1>5, <2>1
  <2>3. x[i].chunk = y[i].chunk /\ x[i].domain = y[i].domain /\ x[i].date = y[i].date
        /\ x[i].tokens = y[i].tokens
    BY <2>2
  <2> QED
    BY <2>3
<1> HIDE DEF X, Y, P
<1>8. Frequencies(x) = Frequencies(y)
  <2>1. Terms(x) = Terms(y)
    <3>1. {ToSet(x[i].tokens) : i \in DOMAIN x} = {ToSet(y[i].tokens) : i \in DOMAIN y}
      BY <1>2, <1>6, <1>7
    <3> QED
      BY <3>1 DEF Terms
  <2>2. ASSUME NEW t
        PROVE  {i \in DOMAIN x : t \in ToSet(x[i].tokens)} = {i \in DOMAIN y : t \in ToSet(y[i].tokens)}
    BY <1>2, <1>6, <1>7
  <2> QED
    BY <2>1, <2>2 DEF Frequencies
<1> DEFINE NoCounts(e) == [e EXCEPT !.term_frequencies = <<>>, !.document_length = 0]
           u == [i \in DOMAIN x |-> NoCounts(x[i])]
           v == [i \in DOMAIN y |-> NoCounts(y[i])]
<1>10. ASSUME NEW i \in 1..n PROVE NoCounts(x[i]) = NoCounts(y[i])
  <2> DEFINE c == x[i]
             d == y[i]
  <2>1. c = [f \in EntryFields |-> c[f]] /\ d = [f \in EntryFields |-> d[f]]
    BY <1>1, <1>6 DEF x, y
  <2>2. /\ c.chunk = d.chunk /\ c.domain = d.domain /\ c.date = d.date
        /\ c.tokens = d.tokens
    BY <1>7
  <2> HIDE DEF c, d
  <2>3. \A f \in EntryFields : f \notin {"term_frequencies", "document_length"} => c[f] = d[f]
    BY <2>2 DEF EntryFields
  <2>4. /\ NoCounts(c) = [f \in EntryFields |-> IF f = "term_frequencies" THEN <<>>
                                             ELSE IF f = "document_length" THEN 0 ELSE c[f]]
        /\ NoCounts(d) = [f \in EntryFields |-> IF f = "term_frequencies" THEN <<>>
                                             ELSE IF f = "document_length" THEN 0 ELSE d[f]]
    BY <2>1
  <2>5. NoCounts(c) = NoCounts(d)
    BY <2>3, <2>4
  <2> QED
    BY <2>5 DEF c, d
<1> HIDE DEF NoCounts
<1>11. u = v
  BY <1>2, <1>6, <1>10
<1>12. /\ Uncounted(s) = [s EXCEPT !.average_document_length = <<0, 1>>, !.entries = u]
       /\ Uncounted(b) = [b EXCEPT !.average_document_length = <<0, 1>>, !.entries = v]
  BY DEF Uncounted, NoCounts, x, y
<1> HIDE DEF u, v
<1> DEFINE bare(r, w) ==
             [f \in IndexFields |-> IF f = "entries" THEN w
                                    ELSE IF f = "average_document_length" THEN <<0, 1>> ELSE r[f]]
<1>13. \A f \in IndexFields : f \notin {"entries", "average_document_length"} => s[f] = b[f]
  BY <1>3, <1>6, <1>8 DEF IndexFields
<1>14. Uncounted(s) = bare(s, u) /\ Uncounted(b) = bare(b, v)
  BY <1>1, <1>12 DEF IndexFields
<1>15. Uncounted(s) = Uncounted(b)
  BY <1>11, <1>13, <1>14
<1> QED
  BY <1>4, <1>15

-----------------------------------------------------------------------------
(* What a query returns.                                                  *)

(* Its results are chunks that pass the filter, each once.                  *)
PassesFilter(s, q, ids, results) ==
  /\ Cardinality(ids) = Len(results) /\ Cardinality(ids) <= q.top_k
  /\ ids \subseteq {e.chunk.chunk_id : e \in Passing(s, q)}

LEMMA ResultsPass ==
  ASSUME NEW s, Consistent(s), NEW q, Sequence(q.text), q.top_k \in Nat,
         NEW results, results = Results(s, q),
         NEW ids, ids = {results[k].chunk_id : k \in DOMAIN results}
  PROVE  PassesFilter(s, q, ids, results)
<1> DEFINE query == Lexical(q.text)
           n == Len(results)
<1>1. Sequence(query)
  BY LexicalIs
<1>2. results = Search(s, query, q.top_k, q.filter)
  BY DEF Results
<1> HIDE DEF query
<1>3. Filtered(results, s, q.top_k, q.filter)
  BY <1>1, <1>2, SearchFilters
<1>4. /\ Sequence(results) /\ n <= q.top_k
      /\ \A i \in 1..n : \E e \in ToSet(s.entries) :
           Matches(e, q.filter) /\ results[i].chunk_id = e.chunk.chunk_id
      /\ \A i, j \in 1..n : results[i].chunk_id = results[j].chunk_id => i = j
  BY <1>3 DEF Filtered
<1>5. n \in Nat /\ DOMAIN results = 1..n
  BY <1>4, SequenceIs
<1>6. Cardinality(ids) = n
  <2> DEFINE g == [k \in 1..n |-> results[k].chunk_id]
  <2>1. g \in [1..n -> ids] /\ \A k \in 1..n : g[k] = results[k].chunk_id
    BY <1>5
  <2>2. \A x \in ids : \E k \in 1..n : g[k] = x
    BY <1>5
  <2> DEFINE I == 1..n
  <2> HIDE DEF g, I, n
  <2>3. g \in Bijection(I, ids)
    <3>1. g \in [I -> ids]
      BY <2>1 DEF I
    <3>2. \A k, l \in I : g[k] = g[l] => k = l
      BY <1>4, <2>1 DEF I, n
    <3>3. \A x \in ids : \E k \in I : g[k] = x
      BY <2>2 DEF I
    <3> QED
      BY <3>1, <3>2, <3>3 DEF Bijection, Injection, Surjection, IsInjective
  <2>4. IsFiniteSet(I) /\ Cardinality(I) = n
    BY <1>5, FS_Interval DEF I
  <2> QED
    BY <2>3, <2>4, FS_Bijection DEF ExistsBijection
<1>7. ids \subseteq {e.chunk.chunk_id : e \in Passing(s, q)}
  BY <1>4, <1>5 DEF Passing
<1> QED
  BY <1>4, <1>6, <1>7 DEF PassesFilter

(* In an index as it was built, they are the best.                          *)
LEMMA ResultsAre ==
  ASSUME NEW s, Searchable(s), NEW q, Sequence(q.text), q.top_k \in Nat,
         NEW results, results = Results(s, q),
         NEW ids, ids = {results[k].chunk_id : k \in DOMAIN results}
  PROVE  ExactResults(s, q, ids, results)
<1> DEFINE query == Lexical(q.text)
           E == Findable(s, query, q.filter)
           F(e) == HitOf(s, query, e)
           n == Len(results)
<1>1. Sequence(query)
  BY LexicalIs
<1>2. results = Search(s, query, q.top_k, q.filter)
  BY DEF Results
<1> HIDE DEF query
<1>3. Answered(results, s, query, q.top_k, q.filter)
  BY <1>1, <1>2, SearchIs
<1>4. /\ Sequence(results)
      /\ \A i \in 1..n : \E e \in E : results[i] = F(e)
      /\ \A i, j \in 1..n : results[i].chunk_id = results[j].chunk_id => i = j
      /\ \A e \in E : \/ \E i \in 1..n : results[i] = F(e)
                      \/ n = q.top_k /\ \A i \in 1..n : results[i].score >= Score(s, e, query)
  BY <1>3 DEF Answered
<1>5. \A e : F(e).chunk_id = e.chunk.chunk_id
  BY DEF HitOf
<1> HIDE DEF F
<1>6. n \in Nat /\ DOMAIN results = 1..n
  BY <1>4, SequenceIs
<1>7. ids \subseteq {e.chunk.chunk_id : e \in E}
  BY <1>4, <1>5, <1>6
<1>8. ASSUME NEW e \in E, e.chunk.chunk_id \notin ids
      PROVE  /\ n = q.top_k
             /\ \E score \in {Score(s, e, query)} : \A k \in DOMAIN results : results[k].score >= score
  <2>1. ~\E i \in 1..n : results[i] = F(e)
    BY <1>5, <1>6, <1>8
  <2> QED
    BY <1>4, <1>6, <2>1
<1>9. E = {e \in Passing(s, q) : ToSet(Lexical(q.text)) \cap ToSet(e.tokens) # {}}
  BY DEF Findable, Passing, query
<1> HIDE DEF E
<1> QED
  BY <1>7, <1>8, <1>9 DEF ExactResults, query

-----------------------------------------------------------------------------
(* The invariant of the index.                                             *)

BuiltAre == \A b \in built : IsBuilt(b)
SnapshotIs == IsWhole(snapshot) => FromBuilt(snapshot[2], built)

(* An answer is what a search on an intact snapshot returned.               *)
AnswerOf(a, B) ==
  /\ FromBuilt(a.snapshot, B) /\ Intact(a.snapshot)
  /\ a.query \in DOMAIN setup.queries
  /\ a.results = Results(a.snapshot, setup.queries[a.query])

AnswerIs == answer.query # 0 => AnswerOf(answer, built)

IndexInv == ReportInv /\ BuiltAre /\ SnapshotIs /\ AnswerIs

LEMMA InitIndexInv == Init => IndexInv
<1> SUFFICES ASSUME Init PROVE IndexInv
  OBVIOUS
<1>1. built = {} /\ snapshot = Absent /\ answer.query = 0
  BY DEF Init, NoAnswer
<1> QED
  BY <1>1, InitReportInv, WholeIs DEF IndexInv, BuiltAre, SnapshotIs, AnswerIs

(* What the report hands to the index.                                     *)
LEMMA InputsAre ==
  ASSUME ReportInv, job.command = "index"
  PROVE  /\ Sequence(IndexInputs)
         /\ \A i \in 1..Len(IndexInputs) : IsInput(IndexInputs[i])
<1> DEFINE N == Len(job.done)
           inputs == IndexInputs
<1>1. Sequence(job.done) /\ \A r \in ToSet(job.done) : IsReported(r)
  BY DEF ReportInv, Reported
<1>2. N \in Nat /\ DOMAIN job.done = 1..N /\ ToSet(job.done) = {job.done[i] : i \in 1..N}
  BY <1>1, SequenceIs
<1>3. inputs = [i \in 1..N |-> inputs[i]] /\ \A i \in 1..N : inputs[i] = IndexInput(job.done[i])
  BY <1>2 DEF IndexInputs
<1> HIDE DEF inputs
<1>4. Sequence(inputs) /\ Len(inputs) = N
  BY <1>2, <1>3, IsSequence
<1>5. ASSUME NEW r \in ToSet(job.done) PROVE IsInput(IndexInput(r))
  <2> DEFINE config == setup.chunker
             els == r.cleaned.elements
             W == Seq(STRING)
             domain == r.document.domain
             id == r.document.document_id
             d == IndexInput(r)
             cs == d.chunks
             m == Len(r.chunks)
  <2>1. Bounded(config) /\ config.max_tokens \in Nat
    BY ChunkerAssumption DEF ReportInv, CleanInv, CorpusKnown, Bounded
  <2>2. /\ Clear(els, W) /\ Scannable(r.document)
        /\ ChunkDocument(els, domain, config).status = "chunked"
        /\ r.chunks = ChunkDocument(els, domain, config).chunks
    BY <1>1 DEF IsReported
  <2> HIDE DEF W, domain, config
  <2>3. Sequence(r.chunks) /\ \A chunk \in ToSet(r.chunks) : StandsIn(Units(els), chunk, config)
    BY <2>1, <2>2, DocumentStands
  <2>4. \A chunk \in ToSet(r.chunks) : Sequence(chunk.text)
    BY <2>3 DEF StandsIn, StandsAt, Among
  <2>5. /\ m \in Nat /\ DOMAIN r.chunks = 1..m
        /\ \A k \in 1..m : Sequence(r.chunks[k].text)
    BY <2>3, <2>4, SequenceIs
  <2>6. d.document_id = id /\ cs = [k \in 1..m |-> cs[k]]
    BY <2>5 DEF IndexInput
  <2>7. \A k \in 1..m : cs[k].chunk_id = Append(id, k) /\ cs[k].text = r.chunks[k].text
    BY <2>5 DEF IndexInput
  <2> HIDE DEF d
  <2>8. Sequence(cs) /\ Len(cs) = m
    BY <2>5, <2>6, IsSequence
  <2>9. \E x, y \in Nat : d.document_id = <<x, y>>
    BY <2>2, <2>6 DEF Scannable
  <2>10. IsInput(d)
    BY <2>5, <2>6, <2>7, <2>8, <2>9 DEF IsInput
  <2> QED
    BY <2>10 DEF d
<1>6. \A i \in 1..N : IsInput(inputs[i])
  BY <1>2, <1>3, <1>5
<1> QED
  BY <1>4, <1>6 DEF inputs

(* Saving an index.                                                        *)
LEMMA SaveIsBuilt ==
  ASSUME IndexInv, SaveIndex
  PROVE  BuiltAre' /\ SnapshotIs' /\ UNCHANGED <<setup, answer>> /\ built \subseteq built'
<1>1. PICK s : /\ s = Snapshot(IndexInputs, setup.sparse) /\ Intact(s) /\ Len(s.entries) <= MaxEntries
               /\ snapshot' = Whole(s) /\ built' = built \cup {s}
  BY DEF SaveIndex
<1>2. job.command = "index" /\ ~Rejected(IndexInputs) /\ UNCHANGED <<setup, answer>>
  BY DEF SaveIndex, At
<1>3. IsBuilt(s)
  BY <1>1, <1>2, InputsAre, BuiltIs DEF IndexInv
<1>4. FromBuilt(s, built')
  BY <1>1, <1>3 DEF FromBuilt, IsBuilt
<1>5. BuiltAre'
  BY <1>1, <1>3 DEF IndexInv, BuiltAre
<1>6. SnapshotIs'
  BY <1>1, <1>4, WholeIs DEF SnapshotIs
<1> QED
  BY <1>1, <1>2, <1>5, <1>6

(* Editing the snapshot.                                                   *)
LEMMA EditIsFromBuilt ==
  ASSUME IndexInv, EditSnapshot
  PROVE  SnapshotIs' /\ UNCHANGED <<setup, built, answer>>
<1>1. IsWhole(snapshot) /\ snapshot[2].entries # <<>> /\ UNCHANGED <<setup, built, answer>>
  BY DEF EditSnapshot, history
<1>2. PICK t \in Unnoticed(snapshot[2]) \cup Noticed(snapshot[2]) : snapshot' = Whole(t)
  BY DEF EditSnapshot
<1> DEFINE s == snapshot[2]
<1>3. FromBuilt(s, built)
  BY <1>1 DEF IndexInv, SnapshotIs
<1>4. t \in Unnoticed(s) \cup Noticed(s) /\ s.entries # <<>>
  BY <1>1, <1>2
<1> HIDE DEF s
<1>5. /\ HasFields(t) /\ t.config_fingerprint = s.config_fingerprint
      /\ t.index_fingerprint = s.index_fingerprint
  BY <1>3, <1>4, UnnoticedIs, NoticedIs DEF FromBuilt
<1>6. FromBuilt(t, built)
  BY <1>3, <1>5 DEF FromBuilt
<1> QED
  BY <1>1, <1>2, <1>6, WholeIs DEF SnapshotIs

(* A query.                                                                *)
LEMMA QueryAnswers ==
  ASSUME IndexInv, NEW q \in DOMAIN setup.queries, Query(q)
  PROVE  AnswerIs' /\ UNCHANGED <<setup, built, snapshot>>
<1>1. /\ Loadable /\ UNCHANGED <<setup, built, snapshot>>
      /\ answer' = [query |-> q, snapshot |-> snapshot[2],
                    results |-> Results(snapshot[2], setup.queries[q])]
  BY DEF Query, files, history
<1>2. IsWhole(snapshot) /\ Intact(snapshot[2]) /\ FromBuilt(snapshot[2], built)
  BY <1>1 DEF Loadable, IndexInv, SnapshotIs
<1> DEFINE s == snapshot[2]
           results == Results(s, setup.queries[q])
<1>3. Intact(s) /\ FromBuilt(s, built) /\ answer' = [query |-> q, snapshot |-> s, results |-> results]
  BY <1>1, <1>2
<1>4. results = Results(s, setup'.queries[q])
  BY <1>1
<1> HIDE DEF s, results
<1>5. answer'.query = q /\ answer'.snapshot = s /\ answer'.results = results
  BY <1>3
<1>6. AnswerOf(answer, built)'
  BY <1>1, <1>3, <1>4, <1>5 DEF AnswerOf
<1> QED
  BY <1>1, <1>6 DEF AnswerIs

(* Other steps leave the index and the answer.                             *)
LEMMA IndexRests ==
  ASSUME IndexInv, [Next]_vars, ~SaveIndex, ~EditSnapshot,
         ~\E q \in DOMAIN setup.queries : Query(q)
  PROVE  /\ UNCHANGED <<setup, built, answer>>
         /\ snapshot' = snapshot \/ ~IsWhole(snapshot')
<1>1. CASE \/ \E path \in setup.paths, bytes \in setup.contents : Edit(path, bytes)
           \/ \E path \in setup.paths \cap DOMAIN disk : Delete(path)
           \/ EditManifest
  BY <1>1 DEF Edit, Delete, EditManifest, files
<1>2. CASE UNCHANGED vars
  BY <1>2 DEF vars
<1>3. CASE Tools
  BY <1>3 DEF Tools, StartScan, ScanFile, ScanFileRaises, ScanRaises, WriteManifest,
      StartValidate, ValidateFile, ValidateRaises, Validated, StartParse, ParseFile,
      StartWriting, WriteOutput, WriteFailures, StartIndexing, LoadFile, LoadFileRaises,
      CleanFile, ChunkFile, ChunkFileRaises, Raise, Refuse, QueryRaises, files, history
<1>4. CASE Deaths
  BY <1>4, WholeIs DEF Deaths, Die, TearManifest, TearOutput, TearFailures, TearSnapshot, Tears,
      files, history
<1> QED
  BY <1>1, <1>2, <1>3, <1>4 DEF Next, Edits

LEMMA FromMore ==
  ASSUME NEW s, NEW B, NEW C, FromBuilt(s, B), B \subseteq C PROVE FromBuilt(s, C)
  BY DEF FromBuilt

LEMMA AnswerStays ==
  ASSUME IndexInv, UNCHANGED <<setup, answer>>, built \subseteq built' PROVE AnswerIs'
<1> SUFFICES ASSUME answer.query # 0 PROVE AnswerOf(answer, built)'
  BY DEF AnswerIs
<1>1. AnswerOf(answer, built)
  BY DEF IndexInv, AnswerIs
<1>2. FromBuilt(answer.snapshot, built')
  BY <1>1, FromMore DEF AnswerOf
<1> QED
  BY <1>1, <1>2 DEF AnswerOf

(* The invariant of the index is inductive.                                *)
LEMMA NextIndexInv == IndexInv /\ [Next]_vars => IndexInv'
<1> SUFFICES ASSUME IndexInv, [Next]_vars PROVE BuiltAre' /\ SnapshotIs' /\ AnswerIs'
  BY NextReportInv DEF IndexInv
<1>1. CASE SaveIndex
  BY <1>1, SaveIsBuilt, AnswerStays
<1>2. CASE EditSnapshot
  <2>1. SnapshotIs' /\ UNCHANGED <<setup, built, answer>>
    BY <1>2, EditIsFromBuilt
  <2> QED
    BY <2>1, AnswerStays DEF IndexInv, BuiltAre
<1>3. CASE \E q \in DOMAIN setup.queries : Query(q)
  <2>1. AnswerIs' /\ UNCHANGED <<setup, built, snapshot>>
    BY <1>3, QueryAnswers
  <2> QED
    BY <2>1 DEF IndexInv, BuiltAre, SnapshotIs
<1>4. CASE ~SaveIndex /\ ~EditSnapshot /\ ~\E q \in DOMAIN setup.queries : Query(q)
  <2>1. /\ UNCHANGED <<setup, built, answer>>
        /\ snapshot' = snapshot \/ ~IsWhole(snapshot')
    BY <1>4, IndexRests
  <2>2. SnapshotIs'
    BY <2>1 DEF IndexInv, SnapshotIs
  <2> QED
    BY <2>1, <2>2, AnswerStays DEF IndexInv, BuiltAre
<1> QED
  BY <1>1, <1>2, <1>3, <1>4

(* BM25SparseIndex.load and search, whatever was edited in the snapshot     *)
(* file, and whatever died while it was written: an answer comes from an    *)
(* index that was built, but for term counts and lengths, of which nothing   *)
(* detects an edit; it names every chunk once, and those that pass the       *)
(* filter.  If the file is as it was saved, its results have a term of the   *)
(* query, and one that is left out scores no higher than any of as many as   *)
(* were asked for.                                                         *)
THEOREM AnswersExact == Spec => []AnswersAreExact
<1>1. IndexInv => AnswersAreExact
  <2> SUFFICES ASSUME IndexInv, answer.query # 0,
                      NEW ids, ids = {answer.results[k].chunk_id : k \in DOMAIN answer.results},
                      NEW q, q = setup.queries[answer.query]
               PROVE  /\ Uncounted(answer.snapshot) \in {Uncounted(b) : b \in built}
                      /\ Cardinality(ids) = Len(answer.results) /\ Cardinality(ids) <= q.top_k
                      /\ ids \subseteq {e.chunk.chunk_id : e \in Passing(answer.snapshot, q)}
                      /\ answer.snapshot \in built =>
                           ExactResults(answer.snapshot, q, ids, answer.results)
    BY DEF AnswersAreExact
  <2> DEFINE s == answer.snapshot
             results == answer.results
  <2>1. AnswerOf(answer, built)
    BY DEF IndexInv, AnswerIs
  <2>2. HasFields(s) /\ Intact(s) /\ results = Results(s, q)
    BY <2>1 DEF AnswerOf, FromBuilt
  <2>3. PICK b \in built : /\ s.config_fingerprint = b.config_fingerprint
                           /\ s.index_fingerprint = b.index_fingerprint
    BY <2>1 DEF AnswerOf, FromBuilt
  <2>4. IsBuilt(b)
    BY DEF IndexInv, BuiltAre
  <2>5. q.top_k \in Nat /\ Sequence(q.text)
    <3>1. setup \in Scenarios /\ answer.query \in DOMAIN setup.queries
      BY <2>1 DEF AnswerOf, IndexInv, ReportInv, CleanInv, CorpusKnown
    <3>2. q.top_k \in Nat \ {0} /\ q.text \in Seq(ToSet(q.text))
      BY <3>1, ScenarioAssumption
    <3> QED
      BY <3>2 DEF Sequence
  <2> HIDE DEF s, results
  <2>6. Uncounted(s) = Uncounted(b) /\ Consistent(s)
    BY <2>2, <2>3, <2>4, OneIndex
  <2>7. ids = {results[k].chunk_id : k \in DOMAIN results}
    BY DEF results
  <2>8. PassesFilter(s, q, ids, results)
    BY <2>2, <2>5, <2>6, <2>7, ResultsPass
  <2>9. ASSUME s \in built PROVE ExactResults(s, q, ids, results)
    <3>1. IsBuilt(s)
      BY <2>9 DEF IndexInv, BuiltAre
    <3>2. Searchable(s)
      BY <2>6, <3>1 DEF IsBuilt, Searchable
    <3> QED
      BY <2>2, <2>5, <2>7, <3>2, ResultsAre
  <2> QED
    BY <2>6, <2>8, <2>9 DEF s, results, PassesFilter
<1> QED
  BY <1>1, InitIndexInv, NextIndexInv, PTL DEF Spec

=============================================================================
