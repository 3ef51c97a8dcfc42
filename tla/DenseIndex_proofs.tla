------------------------- MODULE DenseIndex_proofs -------------------------
(***************************************************************************)
(* Proofs about DenseIndex for every number of clients and operations, every*)
(* content of the versions, every size of batches and pages, and every      *)
(* failure between two remote calls.                                        *)
(*                                                                         *)
(* The invariant says of each operation, at the call it awaits, what it may *)
(* rely on.  It is a predicate of the operation and of the parts of the     *)
(* collection, so that a step of one client and what it means to the others *)
(* are separate facts.                                                      *)
(***************************************************************************)
EXTENDS DenseIndex, FiniteSetTheorems, WellFoundedInduction, TLAPS

Ensuring == {"exists", "create", "info", "index"}
Using == {"embed", "scroll", "delete", "upsert", "query"}

Kept(po) == {ch \in Chunks : po[ch] # None}
First(v, n) == {Content[v][i] : i \in 1..n}

(* The collection is ensured before it is used.                             *)
Ready(o, co, ix) ==
  /\ o.pc \in Using \cup {"index"} => co = "good"
  /\ o.pc = "index" => Fields \ ix \subseteq o.left
  /\ o.pc \in Using => ix = Fields

(* The calls belong to the stage, and the stages to the kind.               *)
Staged(o) ==
  /\ o.stage = "search" <=> o.kind = "search"
  /\ o.stage = "check" <=> o.kind = "check"
  /\ o.stage = "delete" => o.kind \in {"delete", "replace"}
  /\ o.pc = "embed" => o.stage \in {"write", "search"}
  /\ o.pc = "upsert" => o.stage = "write"
  /\ o.pc = "query" => o.stage = "search"
  /\ o.pc = "scroll" => o.stage \in {"delete", "check"}
  /\ o.pc = "delete" => o.stage = "delete"
  /\ o.pc = "done" /\ o.kind = "replace" => o.stage = "write"
  /\ o.pc \in Ensuring /\ o.stage # "write" => o.got = {}
  /\ o.pc \in {"embed", "upsert"} => o.at < Texts(o)

(* A scroll has read the chunks up to its offset.                           *)
Scrolling(o, po) ==
  /\ o.pc = "scroll" => o.got = {ch \in Kept(po) : ch <= o.at}
  /\ o.pc = "delete" \/ (o.pc = "done" /\ o.kind = "check") => o.got = Kept(po)

(* A replacement that writes finds a part of its version and nothing else.  *)
Half(o, po) ==
  o.stage = "write" /\ o.kind = "replace" =>
    /\ \A ch \in Chunks : po[ch] \in {o.version, None}
    /\ \E n \in 0..Len(Content[o.version]) : Kept(po) = First(o.version, n)

(* What upsert_document has written.                                        *)
Writing(o, po) ==
  o.stage = "write" =>
    /\ o.pc = "upsert" =>
         \A i \in 1..o.at : po[Content[o.version][i]] = o.version
    /\ o.pc = "done" =>
         \A i \in 1..Len(Content[o.version]) : po[Content[o.version][i]] = o.version
    /\ o.kind = "replace" =>
         /\ o.pc \in Ensuring \cup {"embed"} => Kept(po) = {}
         /\ o.pc = "upsert" => Kept(po) = First(o.version, o.at)
         /\ o.pc = "done" => Kept(po) = First(o.version, Len(Content[o.version]))

Sound(o, dis, co, ix, po) ==
  /\ Ready(o, co, ix) /\ Staged(o)
  /\ ~dis => Scrolling(o, po) /\ Half(o, po) /\ Writing(o, po)

IInv ==
  /\ TypeOK
  /\ \A c \in Clients :
       op[c] # None => Sound(op[c], disturbed[c], coll, indexes, points)

-----------------------------------------------------------------------------
(* Least and greatest elements                                              *)

LEMMA MinExists ==
  ASSUME NEW S \in SUBSET Nat, S # {}
  PROVE  \E x \in S : \A y \in S : x <= y
<1> DEFINE less == {ss \in Nat \X Nat : ss[1] < ss[2]}
<1>1. IsWellFoundedOn(less, Nat)
  BY NatLessThanWellFounded, Zenon DEF OpToRel
<1> HIDE DEF less
<1>2. PICK x \in S : \A y \in S : ~ (<<y, x>> \in less)
  BY <1>1, WFMin
<1>3. \A y \in S : ~ (y < x)
  BY <1>2 DEF less
<1> QED
  BY <1>3

LEMMA MaxExists ==
  ASSUME NEW n \in Nat, NEW S \in SUBSET (0..n), S # {}
  PROVE  Max(S) \in S /\ \A y \in S : y <= Max(S)
<1> DEFINE T == {n - x : x \in S}
<1>1. T \in SUBSET Nat /\ T # {}
  <2>1. \A x \in S : x \in 0..n /\ n - x \in Nat
    OBVIOUS
  <2> QED
    BY <2>1
<1>2. PICK t \in T : \A u \in T : t <= u
  BY <1>1, MinExists
<1>3. PICK x \in S : t = n - x
  BY <1>2
<1>4. \A y \in S : x >= y
  <2>1. TAKE y \in S
  <2>2. n - y \in T
    BY <2>1
  <2> QED
    BY <1>2, <1>3, <2>1, <2>2, SMTT(60)
<1>5. \E m \in S : \A y \in S : m >= y
  BY <1>4
<1> QED
  BY <1>5 DEF Max

LEMMA BatchEnd ==
  ASSUME NEW a \in Nat, NEW u \in Nat \ {0}, NEW l \in Nat, a < l,
         NEW b, b = IF a + u < l THEN a + u ELSE l
  PROVE  Min({a + u, l}) = b /\ b \in Nat /\ a <= b /\ b <= l
<1>1. b \in {a + u, l} /\ \A y \in {a + u, l} : b =< y
  OBVIOUS
<1>2. Min({a + u, l}) \in {a + u, l} /\ \A y \in {a + u, l} : Min({a + u, l}) =< y
  BY <1>1 DEF Min
<1> QED
  BY <1>1, <1>2

-----------------------------------------------------------------------------
(* Pages and batches                                                        *)

(* The stored chunks between an offset and a chunk.                         *)
Between(at, n) == {d \in Stored : at < d /\ d < n}

LEMMA StoredFacts ==
  /\ Stored \subseteq Nat /\ Stored \subseteq 0..MaxChunk /\ MaxChunk \in Nat
  /\ \A at, n \in Nat : /\ IsFiniteSet(Between(at, n))
                        /\ Cardinality(Between(at, n)) \in Nat
<1>1. Stored \subseteq 0..MaxChunk /\ MaxChunk \in Nat
  BY ContentAssumption DEF Stored, Chunks
<1>2. IsFiniteSet(0..MaxChunk)
  BY <1>1, FS_Interval
<1>3. IsFiniteSet(Stored)
  BY <1>1, <1>2, FS_Subset
<1>4. \A at, n \in Nat : Between(at, n) \in SUBSET Stored
  BY DEF Between
<1> QED
  BY <1>1, <1>3, <1>4, FS_Subset, FS_CardinalityType

LEMMA StoredNat == \A ch \in Stored : ch \in Nat
  BY StoredFacts

LEMMA PageFacts ==
  ASSUME NEW at \in Nat, Page(at) # Beyond(at)
  PROVE  /\ Max(Page(at)) \in Nat /\ at < Max(Page(at))
         /\ Page(at) = {ch \in Stored : at < ch /\ ch <= Max(Page(at))}
<1>1. /\ PageSize \in Nat \ {0}
      /\ Page(at) \subseteq Beyond(at) /\ Beyond(at) \subseteq Stored
  BY BatchAssumption DEF Page, Beyond
<1>2. \A ch \in Stored :
        ch \in Page(at) <=> at < ch /\ Cardinality(Between(at, ch)) < PageSize
  BY DEF Page, Between
<1>3. Page(at) # {}
  <2>1. Beyond(at) \in SUBSET Nat /\ Beyond(at) # {}
    BY <1>1, StoredFacts
  <2>2. PICK m \in Beyond(at) : \A y \in Beyond(at) : m <= y
    BY <2>1, MinExists
  <2>3. m \in Stored /\ at < m
    BY <2>2 DEF Beyond
  <2>4. \A d \in Stored : at < d => m <= d
    BY <2>2 DEF Beyond
  <2>5. Between(at, m) = {}
    <3>1. \A d \in Stored : d \in Nat
      BY StoredFacts
    <3>2. \A d \in Stored : ~ (at < d /\ d < m)
      BY <2>3, <2>4, <3>1
    <3> QED
      BY <3>2 DEF Between
  <2>6. Cardinality(Between(at, m)) = 0
    BY <2>5, FS_EmptySet
  <2> QED
    BY <1>1, <1>2, <2>3, <2>6
<1> DEFINE m == Max(Page(at))
<1>4. m \in Page(at) /\ \A y \in Page(at) : y <= m
  <2>1. Page(at) \in SUBSET (0..MaxChunk)
    BY <1>1, StoredFacts
  <2> QED
    BY <1>3, <2>1, StoredFacts, MaxExists
<1> HIDE DEF m
<1>5. m \in Stored /\ m \in Nat /\ at < m /\ Cardinality(Between(at, m)) < PageSize
  BY <1>1, <1>2, <1>4, StoredFacts
<1>6. ASSUME NEW ch \in Stored, at < ch, ch <= m
      PROVE  ch \in Page(at)
  <2>1. ch \in Nat
    BY StoredFacts
  <2>2. Between(at, ch) \in SUBSET Between(at, m)
    <3>1. \A d \in Stored : d < ch => d < m
      BY <1>5, <1>6, <2>1, StoredFacts
    <3> QED
      BY <3>1 DEF Between
  <2>3. Cardinality(Between(at, ch)) <= Cardinality(Between(at, m))
    BY <1>5, <2>2, StoredFacts, FS_Subset
  <2>4. Cardinality(Between(at, ch)) < PageSize
    BY <1>1, <1>5, <2>1, <2>3, StoredFacts
  <2> QED
    BY <1>2, <1>6, <2>4
<1>7. Page(at) = {ch \in Stored : at < ch /\ ch <= m}
  BY <1>1, <1>2, <1>4, <1>6
<1> QED
  BY <1>5, <1>7 DEF m

LEMMA BatchElements ==
  ASSUME NEW v \in Versions, NEW a \in Nat, NEW b \in Nat,
         b <= Len(Content[v])
  PROVE  ToSet(SubSeq(Content[v], a + 1, b)) = {Content[v][i] : i \in (a + 1)..b}
<1>1. Content[v] \in Seq(Chunks) /\ Len(Content[v]) \in Nat
  BY ContentAssumption
<1> DEFINE s == SubSeq(Content[v], a + 1, b)
<1>2. CASE a + 1 <= b
  <2>1. DOMAIN s = 1..(b - a) /\ \A i \in 1..(b - a) : s[i] = Content[v][a + i]
    BY <1>1, <1>2
  <2> HIDE DEF s
  <2>2. \A i \in (a + 1)..b : i - a \in 1..(b - a) /\ a + (i - a) = i
    OBVIOUS
  <2>3. \A i \in 1..(b - a) : a + i \in (a + 1)..b
    OBVIOUS
  <2>4. ToSet(s) \subseteq {Content[v][i] : i \in (a + 1)..b}
    BY <2>1, <2>3 DEF ToSet
  <2>5. {Content[v][i] : i \in (a + 1)..b} \subseteq ToSet(s)
    <3> SUFFICES ASSUME NEW i \in (a + 1)..b PROVE Content[v][i] \in ToSet(s)
      OBVIOUS
    <3>1. i - a \in DOMAIN s /\ s[i - a] = Content[v][i]
      BY <2>1, <2>2
    <3> QED
      BY <3>1 DEF ToSet
  <2> QED
    BY <2>4, <2>5 DEF s
<1>3. CASE ~(a + 1 <= b)
  <2>1. DOMAIN s = {} /\ (a + 1)..b = {}
    BY <1>1, <1>3
  <2> QED
    BY <2>1 DEF ToSet
<1> QED
  BY <1>2, <1>3

-----------------------------------------------------------------------------
(* Where an operation goes                                                  *)

(* An operation that failed promises only that it has not mixed versions.   *)
LEMMA FailedSound ==
  ASSUME NEW o \in Operation, Staged(o), NEW dis, NEW co, NEW ix, NEW po,
         ~dis => Half(o, po)
  PROVE  Failed(o) \in Operation /\ Sound(Failed(o), dis, co, ix, po)
<1>1. Failed(o) \in Operation
  BY DEF Failed, Goto, Operation
<1>2. /\ Failed(o).pc = "failed" /\ Failed(o).kind = o.kind
      /\ Failed(o).version = o.version /\ Failed(o).stage = o.stage
  BY DEF Failed, Goto, Operation
<1> QED
  BY <1>1, <1>2 DEF Sound, Ready, Staged, Scrolling, Half, Writing, Using, Ensuring

LEMMA EnsuredSound ==
  ASSUME NEW o \in Operation, Staged(o), o.pc \in Ensuring, NEW dis, NEW po,
         ~dis => Half(o, po) /\ Writing(o, po)
  PROVE  Ensured(o) \in Operation /\ Sound(Ensured(o), dis, "good", Fields, po)
<1> DEFINE e == Ensured(o)
<1>0. o.version \in Versions /\ Len(Content[o.version]) \in Nat
      /\ (Content[o.version] # <<>> => Len(Content[o.version]) > 0)
  BY ContentAssumption DEF Operation
<1>1. PICK pc \in {"done", "embed", "scroll"} :
        /\ e = [o EXCEPT !.pc = pc, !.at = 0]
        /\ pc = "done" <=> o.stage = "write" /\ Content[o.version] = <<>>
        /\ pc = "embed" <=> o.stage = "search" \/ (o.stage = "write" /\ Content[o.version] # <<>>)
  BY DEF Ensured, Goto, Operation
<1> HIDE DEF e
<1>2. /\ e \in Operation /\ e.pc = pc /\ e.at = 0 /\ e.kind = o.kind /\ e.stage = o.stage
      /\ e.version = o.version /\ e.got = o.got
  BY <1>1 DEF Operation, Calls
<1>3. Staged(e) /\ Ready(e, "good", Fields)
  BY <1>0, <1>1, <1>2 DEF Ready, Staged, Texts, Using, Ensuring, Operation
<1>4. Scrolling(e, po)
  <2>1. e.pc = "scroll" => e.got = {}
    BY <1>1, <1>2 DEF Staged, Ensuring, Operation
  <2>2. {ch \in Kept(po) : ch <= 0} = {}
    BY ContentAssumption DEF Kept, Chunks
  <2>3. e.pc = "done" => e.kind # "check"
    BY <1>1, <1>2 DEF Staged
  <2> QED
    BY <1>1, <1>2, <2>1, <2>2, <2>3 DEF Scrolling
<1>5. ~dis => Half(e, po) /\ Writing(e, po)
  <2> SUFFICES ASSUME Half(o, po), Writing(o, po) PROVE Half(e, po) /\ Writing(e, po)
    OBVIOUS
  <2>1. Half(e, po)
    BY <1>2 DEF Half
  <2>2. ASSUME pc = "done" PROVE Len(Content[o.version]) = 0
    BY <1>1, <2>2
  <2>3. First(o.version, 0) = {}
    BY DEF First
  <2>4. o.stage = "write" /\ o.kind = "replace" => Kept(po) = {}
    BY DEF Writing, Ensuring
  <2>5. Writing(e, po)
    <3>1. CASE pc = "done"
      <4>1. e.pc = "done" /\ Len(Content[e.version]) = 0
        BY <1>2, <2>2, <3>1
      <4>2. First(e.version, Len(Content[e.version])) = {}
        BY <1>2, <2>3, <4>1
      <4>3. e.kind = "replace" /\ e.stage = "write" => Kept(po) = {}
        BY <1>2, <2>4
      <4>4. 1..Len(Content[e.version]) = {}
        BY <4>1
      <4>5. \A i \in 1..Len(Content[e.version]) : po[Content[e.version][i]] = e.version
        BY <4>4
      <4> QED
        BY <4>1, <4>2, <4>3, <4>5 DEF Writing, Ensuring
    <3>2. CASE pc \in {"embed", "scroll"}
      BY <1>1, <1>2, <2>4, <3>2 DEF Writing, Ensuring
    <3> QED
      BY <3>1, <3>2
  <2> QED
    BY <2>1, <2>5
<1> QED
  BY <1>2, <1>3, <1>4, <1>5 DEF e, Sound

(* Another call of ensure_collection, or the first use.                     *)
LEMMA IndexingSound ==
  ASSUME NEW o \in Operation, Staged(o), o.pc \in Ensuring, NEW dis, NEW po,
         NEW ix \in SUBSET Fields, Fields \ ix \subseteq o.left,
         ~dis => Half(o, po) /\ Writing(o, po)
  PROVE  Indexing(o) \in Operation /\ Sound(Indexing(o), dis, "good", ix, po)
<1>1. CASE o.left = {}
  <2>1. ix = Fields /\ Indexing(o) = Ensured(o)
    BY <1>1 DEF Indexing
  <2> QED
    BY <2>1, EnsuredSound
<1>2. CASE o.left # {}
  <2> DEFINE e == Goto(o, "index")
  <2>1. /\ e \in Operation /\ e.pc = "index" /\ e.left = o.left /\ e.kind = o.kind
        /\ e.stage = o.stage /\ e.version = o.version /\ e.got = o.got
    BY DEF Goto, Operation, Calls
  <2> HIDE DEF e
  <2>2. Ready(e, "good", ix) /\ Staged(e) /\ Scrolling(e, po)
    BY <2>1 DEF Ready, Staged, Scrolling, Using, Ensuring
  <2>3. ~dis => Half(e, po) /\ Writing(e, po)
    BY <2>1 DEF Half, Writing, Ensuring
  <2>4. Indexing(o) = e
    BY <1>2 DEF Indexing, e
  <2> QED
    BY <2>1, <2>2, <2>3, <2>4 DEF Sound
<1> QED
  BY <1>1, <1>2

(* What a step of one client leaves of what another relies on.              *)
LEMMA OthersSound ==
  ASSUME NEW o, NEW dis, NEW now, NEW co, NEW co2, NEW ix, NEW ix2, NEW po, NEW po2,
         Sound(o, dis, co, ix, po), co2 \in {co, "good"},
         ix \subseteq ix2, ix2 \subseteq Fields, ~now => ~dis /\ po2 = po
  PROVE  Sound(o, now, co2, ix2, po2)
  BY DEF Sound, Ready, Staged

(* A call of one client, answered or not.                                   *)
LEMMA Answered ==
  ASSUME IInv, NEW c \in Clients, op[c] # None,
         coll' \in {coll, "good"}, indexes \subseteq indexes', indexes' \subseteq Fields,
         points' \in [Chunks -> Versions \cup {None}],
         disturbed' \in [Clients -> BOOLEAN],
         \A d \in Clients : disturbed'[d] <=> disturbed[d] \/ (d # c /\ points' # points),
         started' = started,
         NEW next \in Operation,
         Sound(next, disturbed[c], coll', indexes', points'),
         ~disturbed[c] => Half(op[c], points'),
         Answer(c, next)
  PROVE  IInv'
<1>1. op[c] \in Operation /\ Staged(op[c])
  BY DEF IInv, TypeOK, Sound
<1>2. /\ Failed(op[c]) \in Operation
      /\ Sound(Failed(op[c]), disturbed[c], coll', indexes', points')
  BY <1>1, FailedSound
<1>3. PICK new \in {next, Failed(op[c])} : op' = [op EXCEPT ![c] = new]
  BY DEF Answer
<1>4. new \in Operation /\ Sound(new, disturbed'[c], coll', indexes', points')
  BY <1>2 DEF IInv, TypeOK, Sound
<1>5. \A d \in Clients \ {c} : op'[d] = op[d]
  BY <1>3 DEF IInv, TypeOK
<1>6. ASSUME NEW d \in Clients, op'[d] # None
      PROVE  Sound(op'[d], disturbed'[d], coll', indexes', points')
  <2>1. CASE d = c
    BY <1>3, <1>4, <2>1 DEF IInv, TypeOK
  <2>2. CASE d # c
    <3>1. Sound(op[d], disturbed[d], coll, indexes, points)
      BY <1>5, <1>6, <2>2 DEF IInv
    <3>2. ~disturbed'[d] => ~disturbed[d] /\ points' = points
      BY <2>2
    <3> QED
      BY <1>5, <2>2, <3>1, <3>2, OthersSound
  <2> QED
    BY <2>1, <2>2
<1>7. TypeOK'
  <2>1. op' \in [Clients -> Operation \cup {None}]
    BY <1>3, <1>4 DEF IInv, TypeOK
  <2>2. \A d \in Clients :
          op'[d] # None /\ op'[d].pc \in {"embed", "upsert"} => op'[d].at < Texts(op'[d])
    BY <1>6 DEF Sound, Staged
  <2>3. (\A d \in Clients :
          At(d, "embed") \/ At(d, "upsert") => op[d].at < Texts(op[d]))'
    BY <2>2 DEF At, Texts
  <2> QED
    BY <2>1, <2>3 DEF IInv, TypeOK
<1> QED
  BY <1>6, <1>7 DEF IInv

-----------------------------------------------------------------------------
(* The steps                                                                *)

(* What is known of the operation at its call.                              *)
LEMMA Known ==
  ASSUME IInv, NEW c \in Clients, op[c] # None
  PROVE  /\ op[c] \in Operation /\ Staged(op[c]) /\ Ready(op[c], coll, indexes)
         /\ ~disturbed[c] => /\ Scrolling(op[c], points) /\ Half(op[c], points)
                             /\ Writing(op[c], points)
         /\ disturbed[c] \in BOOLEAN /\ indexes \subseteq Fields
         /\ op[c].version \in Versions /\ Content[op[c].version] \in Seq(Chunks)
         /\ Len(Content[op[c].version]) \in Nat /\ op[c].version # None
  BY ContentAssumption DEF IInv, TypeOK, Sound, Operation

(* A call that changes nothing on the server.                               *)
LEMMA Reads ==
  ASSUME IInv, NEW c \in Clients, op[c] # None,
         UNCHANGED <<coll, indexes, points, disturbed, started>>,
         NEW next \in Operation,
         Sound(next, disturbed[c], coll, indexes, points),
         Answer(c, next)
  PROVE  IInv'
<1>1. ~disturbed[c] => Half(op[c], points')
  BY Known
<1>2. /\ points' \in [Chunks -> Versions \cup {None}] /\ disturbed' \in [Clients -> BOOLEAN]
      /\ indexes' \subseteq Fields
  BY DEF IInv, TypeOK
<1> QED
  BY <1>1, <1>2, Answered

LEMMA GivesUp ==
  ASSUME IInv, NEW c \in Clients, op[c] # None,
         op' = [op EXCEPT ![c] = Failed(op[c])],
         UNCHANGED <<coll, indexes, points, disturbed, started>>
  PROVE  IInv'
<1>1. Answer(c, Failed(op[c]))
  BY DEF Answer
<1>2. /\ Failed(op[c]) \in Operation
      /\ Sound(Failed(op[c]), disturbed[c], coll, indexes, points)
  BY Known, FailedSound
<1> QED
  BY <1>1, <1>2, Reads

LEMMA BeginStep ==
  ASSUME IInv, NEW c \in Clients, NEW kind \in Kinds, NEW v \in Versions, Begin(c, kind, v)
  PROVE  IInv'
<1> DEFINE new == [kind |-> kind, version |-> v, stage |-> FirstStage(kind),
                   pc |-> "exists", left |-> {}, got |-> {}, at |-> 0]
<1>1. /\ op' = [op EXCEPT ![c] = new] /\ disturbed' = [disturbed EXCEPT ![c] = FALSE]
      /\ started' \in 0..MaxOps /\ UNCHANGED <<coll, indexes, points>>
  BY ContentAssumption DEF Begin, IInv, TypeOK
<1>2. FirstStage(kind) \in {"write", "delete", "check", "search"}
  BY DEF FirstStage, Kinds
<1>3. new \in Operation
  BY <1>2 DEF Operation, Calls
<1>4. Staged(new) /\ Ready(new, coll, indexes) /\ Scrolling(new, points)
  BY DEF Staged, Ready, Scrolling, Using, Ensuring, FirstStage, Kinds
<1>5. Half(new, points) /\ Writing(new, points)
  <2>1. ~(new.stage = "write" /\ new.kind = "replace")
    BY DEF FirstStage
  <2> QED
    BY <2>1 DEF Half, Writing
<1> HIDE DEF new
<1>6. \A d \in Clients : op'[d] # None =>
        Sound(op'[d], disturbed'[d], coll', indexes', points')
  BY <1>1, <1>4, <1>5 DEF Sound, IInv, TypeOK
<1>7. op' \in [Clients -> Operation \cup {None}]
  BY <1>1, <1>3 DEF IInv, TypeOK
<1>8. (\A d \in Clients : At(d, "embed") \/ At(d, "upsert") => op[d].at < Texts(op[d]))'
  BY <1>6 DEF Sound, Staged, At, Texts
<1> QED
  BY <1>1, <1>6, <1>7, <1>8 DEF IInv, TypeOK

(* ensure_collection                                                        *)

LEMMA EnsuringSound ==
  ASSUME NEW o \in Operation, Staged(o), o.pc \in Ensuring, NEW dis, NEW po, NEW co, NEW ix,
         ~dis => Half(o, po) /\ Writing(o, po), NEW pc \in {"create", "info"}
  PROVE  Goto(o, pc) \in Operation /\ Sound(Goto(o, pc), dis, co, ix, po)
<1> DEFINE e == Goto(o, pc)
<1>1. /\ e \in Operation /\ e.pc = pc /\ e.kind = o.kind
      /\ e.stage = o.stage /\ e.version = o.version /\ e.got = o.got
  BY DEF Goto, Operation, Calls
<1> HIDE DEF e
<1>2. Ready(e, co, ix) /\ Staged(e) /\ Scrolling(e, po)
  BY <1>1 DEF Ready, Staged, Scrolling, Using, Ensuring
<1>3. ~dis => Half(e, po) /\ Writing(e, po)
  BY <1>1 DEF Half, Writing, Ensuring
<1> QED
  BY <1>1, <1>2, <1>3 DEF Sound, e

LEMMA ExistsStep ==
  ASSUME IInv, NEW c \in Clients, Exists(c)
  PROVE  IInv'
<1>1. op[c] # None /\ op[c].pc \in Ensuring
  BY DEF Exists, At, Ensuring
<1>2. PICK pc \in {"create", "info"} : Answer(c, Goto(op[c], pc))
  BY DEF Exists
<1>3. /\ Goto(op[c], pc) \in Operation
      /\ Sound(Goto(op[c], pc), disturbed[c], coll, indexes, points)
  BY <1>1, Known, EnsuringSound
<1> QED
  BY <1>1, <1>2, <1>3, Reads DEF Exists

LEMMA CreateStep ==
  ASSUME IInv, NEW c \in Clients, Create(c)
  PROVE  IInv'
<1>1. op[c] # None /\ op[c].pc \in Ensuring
  BY DEF Create, At, Ensuring
<1>2. /\ coll' = "good" /\ UNCHANGED <<indexes, points, disturbed, started>>
      /\ Answer(c, Goto(op[c], "info"))
  BY DEF Create
<1>3. /\ Goto(op[c], "info") \in Operation
      /\ Sound(Goto(op[c], "info"), disturbed[c], "good", indexes, points)
  BY <1>1, Known, EnsuringSound
<1>4. /\ points' \in [Chunks -> Versions \cup {None}] /\ disturbed' \in [Clients -> BOOLEAN]
      /\ indexes' \subseteq Fields
  BY <1>2 DEF IInv, TypeOK
<1>5. ~disturbed[c] => Half(op[c], points')
  BY <1>1, <1>2, Known
<1> QED
  BY <1>1, <1>2, <1>3, <1>4, <1>5, Answered

LEMMA InfoStep ==
  ASSUME IInv, NEW c \in Clients, Info(c)
  PROVE  IInv'
<1> DEFINE o == op[c]
           m == [o EXCEPT !.left = Fields \ indexes]
<1>1. o # None /\ o.pc = "info" /\ coll = "good"
  BY DEF Info, At
<1>2. o \in Operation
  BY <1>1, Known
<1>3. /\ m \in Operation /\ m.pc = "info" /\ m.left = Fields \ indexes /\ m.kind = o.kind
      /\ m.stage = o.stage /\ m.version = o.version /\ m.got = o.got
  BY <1>1, <1>2 DEF Operation
<1>4. Answer(c, Indexing(m)) /\ UNCHANGED <<coll, indexes, points, disturbed, started>>
  BY DEF Info
<1> HIDE DEF m
<1>5. Staged(m)
  BY <1>1, <1>3, Known DEF Staged
<1>6. ~disturbed[c] => Half(m, points) /\ Writing(m, points)
  BY <1>1, <1>3, Known DEF Half, Writing
<1>7. Indexing(m) \in Operation /\ Sound(Indexing(m), disturbed[c], "good", indexes, points)
  BY <1>1, <1>3, <1>5, <1>6, Known, IndexingSound DEF Ensuring
<1> QED
  BY <1>1, <1>4, <1>7, Reads

LEMMA CreateIndexStep ==
  ASSUME IInv, NEW c \in Clients, CreateIndex(c)
  PROVE  IInv'
<1> DEFINE o == op[c]
<1>1. o # None /\ o.pc = "index" /\ UNCHANGED <<coll, points, disturbed, started>>
  BY DEF CreateIndex, At
<1>2. PICK f \in o.left : /\ indexes' = indexes \cup {f}
                          /\ Answer(c, Indexing([o EXCEPT !.left = @ \ {f}]))
  BY DEF CreateIndex
<1>3. o \in Operation /\ coll = "good" /\ Fields \ indexes \subseteq o.left
  BY <1>1, Known DEF Ready
<1> DEFINE m == [o EXCEPT !.left = @ \ {f}]
<1>4. /\ m \in Operation /\ m.pc = "index" /\ m.left = o.left \ {f} /\ m.kind = o.kind
      /\ m.stage = o.stage /\ m.version = o.version /\ m.got = o.got
  BY <1>1, <1>3 DEF Operation
<1>5. Answer(c, Indexing(m))
  BY <1>2
<1> HIDE DEF m
<1>6. indexes' \in SUBSET Fields /\ Fields \ indexes' \subseteq m.left
  BY <1>1, <1>2, <1>3, <1>4, Known DEF Operation
<1>7. Staged(m)
  BY <1>1, <1>4, Known DEF Staged
<1>8. ~disturbed[c] => Half(m, points) /\ Writing(m, points)
  BY <1>1, <1>4, Known DEF Half, Writing
<1>9. Indexing(m) \in Operation /\ Sound(Indexing(m), disturbed[c], "good", indexes', points)
  BY <1>1, <1>4, <1>6, <1>7, <1>8, Known, IndexingSound DEF Ensuring
<1>10. points' \in [Chunks -> Versions \cup {None}] /\ disturbed' \in [Clients -> BOOLEAN]
  BY <1>1 DEF IInv, TypeOK
<1>11. ~disturbed[c] => Half(o, points')
  BY <1>1, Known
<1> QED
  BY <1>1, <1>2, <1>3, <1>5, <1>6, <1>9, <1>10, <1>11, Answered

(* upsert_document and search                                               *)

LEMMA FirstNone ==
  ASSUME NEW v
  PROVE  First(v, 0) = {}
  BY DEF First

LEMMA EmbedStep ==
  ASSUME IInv, NEW c \in Clients, Embed(c)
  PROVE  IInv'
<1> DEFINE o == op[c]
           n == o.at + EmbedBatch
<1>1. /\ o # None /\ o.pc = "embed" /\ UNCHANGED <<coll, indexes, points, disturbed, started>>
      /\ Answer(c, IF n < Texts(o) THEN [o EXCEPT !.at = n] ELSE Embedded(o))
  BY DEF Embed, At
<1>2. /\ o \in Operation /\ coll = "good" /\ indexes = Fields
      /\ o.stage \in {"write", "search"} /\ o.at \in Nat /\ o.at < Texts(o) /\ n \in Nat
  BY <1>1, Known, BatchAssumption DEF Ready, Staged, Using, Operation
<1>3. PICK pc \in {"embed", "upsert", "query"}, at \in Nat :
        /\ Answer(c, [o EXCEPT !.pc = pc, !.at = at])
        /\ at < Texts(o)
        /\ pc = "upsert" => o.stage = "write" /\ at = 0
        /\ pc = "query" => o.stage = "search"
  <2>1. CASE n < Texts(o)
    <3>1. Answer(c, [o EXCEPT !.pc = "embed", !.at = n])
      <4>1. [o EXCEPT !.at = n] = [o EXCEPT !.pc = "embed", !.at = n]
        BY <1>1, <1>2 DEF Operation
      <4> QED
        BY <1>1, <2>1, <4>1
    <3> QED
      BY <1>2, <2>1, <3>1
  <2>2. CASE ~(n < Texts(o))
    <3>1. Answer(c, Embedded(o))
      BY <1>1, <2>2
    <3>2. 0 < Texts(o)
      BY <1>2, Known, <1>1 DEF Texts
    <3>3. CASE o.stage = "search"
      BY <3>1, <3>2, <3>3 DEF Embedded, Goto
    <3>4. CASE o.stage = "write"
      BY <3>1, <3>2, <3>4 DEF Embedded, Goto
    <3> QED
      BY <1>2, <3>3, <3>4
  <2> QED
    BY <2>1, <2>2
<1> DEFINE e == [o EXCEPT !.pc = pc, !.at = at]
<1>4. /\ e \in Operation /\ e.pc = pc /\ e.at = at /\ e.kind = o.kind /\ e.stage = o.stage
      /\ e.version = o.version /\ e.got = o.got
  BY <1>2, <1>3 DEF Operation, Calls
<1> HIDE DEF e
<1>5. Staged(e) /\ Ready(e, coll, indexes) /\ Scrolling(e, points)
  BY <1>1, <1>2, <1>3, <1>4, Known DEF Staged, Ready, Scrolling, Ensuring, Using, Texts
<1>6. ASSUME ~disturbed[c] PROVE Half(e, points) /\ Writing(e, points)
  <2>1. Half(o, points) /\ Writing(o, points)
    BY <1>1, <1>6, Known
  <2>2. Half(e, points)
    BY <1>4, <2>1 DEF Half
  <2>3. o.stage = "write" /\ o.kind = "replace" => Kept(points) = {}
    BY <1>1, <2>1 DEF Writing
  <2>4. pc = "upsert" => 1..e.at = {} /\ First(e.version, e.at) = {}
    BY <1>3, <1>4, FirstNone
  <2>5. Writing(e, points)
    BY <1>3, <1>4, <2>3, <2>4 DEF Writing, Ensuring
  <2> QED
    BY <2>2, <2>5
<1>7. Sound(e, disturbed[c], coll, indexes, points)
  BY <1>5, <1>6 DEF Sound
<1> QED
  BY <1>1, <1>3, <1>4, <1>7, Reads DEF e

LEMMA QueryStep ==
  ASSUME IInv, NEW c \in Clients, Query(c)
  PROVE  IInv'
<1> DEFINE o == op[c]
           e == Goto(o, "done")
<1>1. /\ o # None /\ o.pc = "query" /\ UNCHANGED <<coll, indexes, points, disturbed, started>>
      /\ Answer(c, e)
  BY DEF Query, At
<1>2. o \in Operation /\ o.stage = "search" /\ o.kind = "search"
  BY <1>1, Known DEF Staged
<1>3. e \in Operation /\ e.pc = "done" /\ e.stage = "search" /\ e.kind = "search"
  BY <1>2 DEF Goto, Operation
<1> HIDE DEF e
<1>4. Sound(e, disturbed[c], coll, indexes, points)
  BY <1>3 DEF Sound, Ready, Staged, Scrolling, Half, Writing, Ensuring, Using
<1> QED
  BY <1>1, <1>3, <1>4, Reads

(* A batch more of the version is written.                                  *)
LEMMA BatchWritten ==
  ASSUME NEW v \in Versions, v # None, NEW po \in [Chunks -> Versions \cup {None}],
         NEW a \in Nat, NEW b \in Nat, a <= b, b <= Len(Content[v]),
         NEW batch, batch = ToSet(SubSeq(Content[v], a + 1, b)),
         NEW po2, po2 = [ch \in Chunks |-> IF ch \in batch THEN v ELSE po[ch]]
  PROVE  /\ Kept(po) = First(v, a) => Kept(po2) = First(v, b)
         /\ (\A ch \in Chunks : po[ch] \in {v, None}) =>
              \A ch \in Chunks : po2[ch] \in {v, None}
<1>1. batch = {Content[v][i] : i \in (a + 1)..b}
  BY BatchElements
<1>2. \A i \in 1..b : Content[v][i] \in Chunks
  BY ContentAssumption
<1>3. \A i \in 1..b : i \in 1..a \/ i \in (a + 1)..b
  OBVIOUS
<1>5. ASSUME Kept(po) = First(v, a)
      PROVE  Kept(po2) = First(v, b)
  <2>1. Kept(po2) = First(v, a) \cup batch
    <3>1. batch \subseteq Chunks
      BY <1>1, <1>2
    <3>2. \A ch \in Chunks : po2[ch] # None <=> ch \in batch \/ po[ch] # None
      OBVIOUS
    <3>3. Kept(po2) = Kept(po) \cup batch
      BY <3>1, <3>2 DEF Kept
    <3> QED
      BY <1>5, <3>3
  <2>2. First(v, a) \cup batch = First(v, b)
    <3>1. \A i \in 1..a : i \in 1..b
      OBVIOUS
    <3>2. \A i \in (a + 1)..b : i \in 1..b
      OBVIOUS
    <3> QED
      BY <1>1, <1>3, <3>1, <3>2 DEF First
  <2> QED
    BY <2>1, <2>2
<1>6. ASSUME \A ch \in Chunks : po[ch] \in {v, None}
      PROVE  \A ch \in Chunks : po2[ch] \in {v, None}
  BY <1>6
<1> QED
  BY <1>5, <1>6

LEMMA UpsertStep ==
  ASSUME IInv, NEW c \in Clients, Upsert(c)
  PROVE  IInv'
<1> DEFINE o == op[c]
           v == o.version
           n == o.at + UpsertBatch
           size == Len(Content[v])
           b == IF n < size THEN n ELSE size
           po2 == [ch \in Chunks |-> IF ch \in Batch(o) THEN v ELSE points[ch]]
<1>1. /\ o # None /\ o.pc = "upsert" /\ UNCHANGED <<coll, indexes, started>>
      /\ points' = po2
      /\ disturbed' = [d \in Clients |-> disturbed[d] \/ (d # c /\ po2 # points)]
      /\ Answer(c, IF n < Texts(o) THEN [o EXCEPT !.at = n] ELSE Goto(o, "done"))
  BY DEF Upsert, Mutate, At
<1>2. /\ o \in Operation /\ coll = "good" /\ indexes = Fields /\ o.stage = "write"
      /\ o.at \in Nat /\ n \in Nat /\ size \in Nat /\ o.at < size /\ Texts(o) = size
      /\ v \in Versions /\ v # None
  BY <1>1, Known, BatchAssumption DEF Ready, Staged, Using, Operation, Texts
<1>3. /\ b \in Nat /\ o.at <= b /\ b <= size
      /\ Batch(o) = ToSet(SubSeq(Content[v], o.at + 1, b))
  <2>1. Min({n, size}) = b /\ b \in Nat /\ o.at <= b /\ b <= size
    <3>1. UpsertBatch \in Nat \ {0} /\ b = IF o.at + UpsertBatch < size THEN n ELSE size
      BY BatchAssumption
    <3> HIDE DEF b, o, size
    <3> QED
      BY <1>2, <3>1, BatchEnd
  <2> HIDE DEF b
  <2>2. Batch(o) = ToSet(SubSeq(Content[v], o.at + 1, b))
    BY <2>1 DEF Batch
  <2> QED
    BY <2>1, <2>2
<1>4. points \in [Chunks -> Versions \cup {None}] /\ disturbed \in [Clients -> BOOLEAN]
  BY DEF IInv, TypeOK
<1>5. /\ (\A i \in 1..o.at : points[Content[v][i]] = v) => \A i \in 1..b : po2[Content[v][i]] = v
      /\ Kept(points) = First(v, o.at) => Kept(po2) = First(v, b)
      /\ (\A ch \in Chunks : points[ch] \in {v, None}) => \A ch \in Chunks : po2[ch] \in {v, None}
  <2> HIDE DEF b
  <2>1. po2 = [ch \in Chunks |-> IF ch \in Batch(o) THEN v ELSE points[ch]]
    OBVIOUS
  <2>2. size = Len(Content[v])
    OBVIOUS
  <2> HIDE DEF po2, v, size, o
  <2>3. o.at \in Nat /\ b \in Nat /\ o.at <= b /\ b <= Len(Content[v])
    BY <1>2, <1>3, <2>2
  <2>4. v \in Versions /\ v # None /\ points \in [Chunks -> Versions \cup {None}]
    BY <1>2, <1>4
  <2>5. Batch(o) = ToSet(SubSeq(Content[v], o.at + 1, b))
    BY <1>3
  <2>6. ASSUME \A i \in 1..o.at : points[Content[v][i]] = v
        PROVE  \A i \in 1..b : po2[Content[v][i]] = v
    <3>1. Batch(o) = {Content[v][i] : i \in (o.at + 1)..b}
      BY <2>3, <2>4, <2>5, BatchElements
    <3>2. TAKE i \in 1..b
    <3>3. Content[v][i] \in Chunks
      BY <2>3, <2>4, <3>2, ContentAssumption
    <3>4. CASE i \in 1..o.at
      BY <2>1, <2>6, <3>3, <3>4
    <3>5. CASE i \in (o.at + 1)..b
      BY <2>1, <3>1, <3>3, <3>5
    <3>6. i \in 1..o.at \/ i \in (o.at + 1)..b
      BY <2>3, <3>2
    <3> QED
      BY <3>4, <3>5, <3>6
  <2>7. Kept(points) = First(v, o.at) => Kept(po2) = First(v, b)
    BY <2>1, <2>3, <2>4, <2>5, BatchWritten
  <2>8. (\A ch \in Chunks : points[ch] \in {v, None}) => \A ch \in Chunks : po2[ch] \in {v, None}
    BY <2>1, <2>3, <2>4, <2>5, BatchWritten
  <2> QED
    BY <2>6, <2>7, <2>8
<1>6. po2 \in [Chunks -> Versions \cup {None}]
  BY <1>2, <1>4
<1>7. ASSUME ~disturbed[c]
      PROVE  /\ \A i \in 1..b : po2[Content[v][i]] = v
             /\ o.kind = "replace" => /\ Kept(po2) = First(v, b)
                                      /\ \A ch \in Chunks : po2[ch] \in {v, None}
  BY <1>1, <1>2, <1>5, <1>7, Known DEF Writing, Half
<1> HIDE DEF po2
<1>8. ~disturbed[c] => Half(o, po2)
  BY <1>2, <1>3, <1>7 DEF Half
<1>9. PICK e \in Operation :
        /\ Answer(c, e) /\ e.kind = o.kind /\ e.stage = "write" /\ e.version = v
        /\ \/ e.pc = "upsert" /\ e.at = b /\ b < size
           \/ e.pc = "done" /\ b = size
  <2>1. CASE n < size
    <3> DEFINE e == [o EXCEPT !.at = n]
    <3>1. /\ e \in Operation /\ e.kind = o.kind /\ e.stage = "write" /\ e.version = v
          /\ e.pc = "upsert" /\ e.at = b /\ b < size
      BY <1>1, <1>2, <2>1 DEF Operation
    <3>2. Answer(c, e)
      BY <1>1, <1>2, <2>1
    <3> QED
      BY <3>1, <3>2
  <2>2. CASE ~(n < size)
    <3> DEFINE e == Goto(o, "done")
    <3>1. /\ e \in Operation /\ e.kind = o.kind /\ e.stage = "write" /\ e.version = v
          /\ e.pc = "done" /\ b = size
      BY <1>1, <1>2, <2>2 DEF Operation, Goto
    <3>2. Answer(c, e)
      BY <1>1, <1>2, <2>2
    <3> QED
      BY <3>1, <3>2
  <2> QED
    BY <2>1, <2>2
<1> HIDE DEF b
<1>10. Staged(e) /\ Ready(e, coll, indexes)
  BY <1>1, <1>2, <1>9, Known DEF Staged, Ready, Using, Ensuring, Texts
<1>11. ~disturbed[c] => Scrolling(e, po2) /\ Half(e, po2) /\ Writing(e, po2)
  <2> SUFFICES ASSUME ~disturbed[c] PROVE Scrolling(e, po2) /\ Half(e, po2) /\ Writing(e, po2)
    OBVIOUS
  <2>1. Scrolling(e, po2)
    BY <1>1, <1>2, <1>9, Known DEF Scrolling, Staged
  <2>2. Half(e, po2)
    BY <1>3, <1>7, <1>9 DEF Half
  <2>3. Writing(e, po2)
    BY <1>7, <1>9 DEF Writing, Ensuring
  <2> QED
    BY <2>1, <2>2, <2>3
<1>12. Sound(e, disturbed[c], coll, indexes, po2)
  BY <1>10, <1>11 DEF Sound
<1> QED
  BY <1>1, <1>2, <1>4, <1>6, <1>8, <1>9, <1>12, Answered

(* delete_document, replace_document and check_document_consistency         *)

LEMMA ScrollStep ==
  ASSUME IInv, NEW c \in Clients, Scroll(c)
  PROVE  IInv'
<1> DEFINE o == op[c]
           page == Page(o.at)
           next == [o EXCEPT !.got = @ \cup page]
<1>1. /\ o # None /\ o.pc = "scroll" /\ UNCHANGED <<coll, indexes, points, disturbed, started>>
      /\ Answer(c, IF page = Beyond(o.at) THEN Scrolled(next) ELSE [next EXCEPT !.at = Max(page)])
  BY DEF Scroll, At
<1>2. /\ o \in Operation /\ coll = "good" /\ indexes = Fields /\ o.at \in Nat
      /\ o.stage \in {"delete", "check"}
  BY <1>1, Known DEF Ready, Staged, Using, Operation
<1>3. page \subseteq Chunks /\ page \subseteq Stored /\ Stored = Kept(points)
  BY DEF Page, Stored, Kept
<1>4. ~disturbed[c] => o.got = {ch \in Kept(points) : ch <= o.at}
  BY <1>1, Known DEF Scrolling
<1>5. PICK e \in Operation :
        /\ Answer(c, e) /\ e.kind = o.kind /\ e.stage = o.stage
        /\ \/ e.pc = "scroll" /\ (~disturbed[c] => e.got = {ch \in Kept(points) : ch <= e.at})
           \/ /\ e.pc = IF o.stage = "delete" THEN "delete" ELSE "done"
              /\ ~disturbed[c] => e.got = Kept(points)
  <2>1. CASE page = Beyond(o.at)
    <3> DEFINE e == Scrolled(next)
    <3>1. /\ e \in Operation /\ e.kind = o.kind /\ e.stage = o.stage /\ e.got = o.got \cup page
          /\ e.pc = IF o.stage = "delete" THEN "delete" ELSE "done"
      BY <1>2, <1>3 DEF Scrolled, Goto, Operation, Calls
    <3>2. Answer(c, e)
      BY <1>1, <2>1
    <3>3. ~disturbed[c] => o.got \cup page = Kept(points)
      <4>1. \A ch \in Stored : ch <= o.at \/ ch > o.at
        BY <1>2, StoredNat
      <4> QED
        BY <1>3, <1>4, <2>1, <4>1 DEF Beyond
    <3> HIDE DEF e
    <3> QED
      BY <3>1, <3>2, <3>3
  <2>2. CASE page # Beyond(o.at)
    <3> DEFINE e == [next EXCEPT !.at = Max(page)]
    <3>1. /\ Max(page) \in Nat /\ o.at < Max(page)
          /\ page = {ch \in Stored : o.at < ch /\ ch <= Max(page)}
      BY <1>2, <2>2, PageFacts
    <3>2. /\ e \in Operation /\ e.kind = o.kind /\ e.stage = o.stage /\ e.got = o.got \cup page
          /\ e.pc = "scroll" /\ e.at = Max(page)
      BY <1>1, <1>2, <1>3, <3>1 DEF Operation
    <3>3. Answer(c, e)
      BY <1>1, <2>2
    <3>4. ~disturbed[c] => o.got \cup page = {ch \in Kept(points) : ch <= Max(page)}
      <4>1. \A ch \in Stored : ch <= Max(page) <=> ch <= o.at \/ (o.at < ch /\ ch <= Max(page))
        BY <1>2, <3>1, StoredNat
      <4> HIDE DEF page
      <4> QED
        BY <1>3, <1>4, <3>1, <4>1
    <3> HIDE DEF e
    <3> QED
      BY <3>2, <3>3, <3>4
  <2> QED
    BY <2>1, <2>2
<1>6. Staged(e) /\ Ready(e, coll, indexes)
  BY <1>1, <1>2, <1>5, Known DEF Staged, Ready, Using, Ensuring
<1>7. ~disturbed[c] => Scrolling(e, points) /\ Half(e, points) /\ Writing(e, points)
  BY <1>2, <1>5, <1>6 DEF Scrolling, Half, Writing
<1>8. Sound(e, disturbed[c], coll, indexes, points)
  BY <1>6, <1>7 DEF Sound
<1> QED
  BY <1>1, <1>5, <1>8, Reads

LEMMA DeleteStep ==
  ASSUME IInv, NEW c \in Clients, Delete(c)
  PROVE  IInv'
<1> DEFINE o == op[c]
           none == [ch \in Chunks |-> None]
<1>1. /\ o # None /\ o.pc = "delete" /\ UNCHANGED <<coll, indexes, started>>
      /\ points' = none
      /\ disturbed' = [d \in Clients |-> disturbed[d] \/ (d # c /\ none # points)]
      /\ Answer(c, IF o.kind = "delete" THEN Goto(o, "done")
                   ELSE [Goto(o, "exists") EXCEPT !.stage = "write"])
  BY DEF Delete, Mutate, At
<1>2. /\ o \in Operation /\ coll = "good" /\ indexes = Fields
      /\ o.stage = "delete" /\ o.kind \in {"delete", "replace"}
  BY <1>1, Known DEF Ready, Staged, Using
<1>3. PICK e \in Operation :
        /\ Answer(c, e) /\ e.kind = o.kind
        /\ \/ e.kind = "delete" /\ e.pc = "done" /\ e.stage = "delete"
           \/ e.kind = "replace" /\ e.pc = "exists" /\ e.stage = "write"
  <2>1. CASE o.kind = "delete"
    <3> DEFINE e == Goto(o, "done")
    <3>1. e \in Operation /\ e.kind = "delete" /\ e.pc = "done" /\ e.stage = "delete"
      BY <1>2, <2>1 DEF Goto, Operation
    <3> QED
      BY <1>1, <2>1, <3>1
  <2>2. CASE o.kind = "replace"
    <3> DEFINE e == [Goto(o, "exists") EXCEPT !.stage = "write"]
    <3>1. e \in Operation /\ e.kind = "replace" /\ e.pc = "exists" /\ e.stage = "write"
      BY <1>2, <2>2 DEF Goto, Operation, Calls
    <3> QED
      BY <1>1, <2>2, <3>1
  <2> QED
    BY <1>2, <2>1, <2>2
<1>4. Kept(none) = {} /\ none \in [Chunks -> Versions \cup {None}]
  BY DEF Kept
<1>5. Staged(e) /\ Ready(e, coll, indexes) /\ Scrolling(e, none)
  BY <1>2, <1>3 DEF Staged, Ready, Scrolling, Using, Ensuring
<1>6. Half(e, none)
  <2>1. First(e.version, 0) = {} /\ 0 \in 0..Len(Content[e.version])
    BY FirstNone, ContentAssumption DEF Operation
  <2> QED
    BY <1>4, <2>1 DEF Half
<1>7. Writing(e, none)
  BY <1>3, <1>4 DEF Writing, Ensuring
<1>8. Sound(e, disturbed[c], coll, indexes, none)
  BY <1>5, <1>6, <1>7 DEF Sound
<1>9. Half(o, none)
  BY <1>2 DEF Half
<1>10. disturbed \in [Clients -> BOOLEAN] /\ indexes \subseteq Fields
  BY DEF IInv, TypeOK
<1> HIDE DEF none
<1> QED
  BY <1>1, <1>3, <1>4, <1>8, <1>9, <1>10, Answered

-----------------------------------------------------------------------------

LEMMA InitIInv == Init => IInv
  BY ContentAssumption DEF Init, IInv, TypeOK, At

LEMMA NextIInv == IInv /\ [Next]_vars => IInv'
<1> SUFFICES ASSUME IInv, [Next]_vars PROVE IInv'
  OBVIOUS
<1>1. CASE UNCHANGED vars
  BY <1>1 DEF IInv, TypeOK, At, Texts, vars
<1>2. ASSUME NEW c \in Clients, Step(c) PROVE IInv'
  <2>1. CASE Lost(c) \/ CreateConflict(c) \/ InfoStale(c)
    BY <2>1, GivesUp DEF Lost, CreateConflict, InfoStale, Active, At
  <2> QED
    BY <1>2, <2>1, ExistsStep, CreateStep, InfoStep, CreateIndexStep, EmbedStep, UpsertStep,
       QueryStep, ScrollStep, DeleteStep DEF Step
<1> QED
  BY <1>1, <1>2, BeginStep DEF Next

LEMMA Invariant == Spec => []IInv
  BY InitIInv, NextIInv, PTL DEF Spec

(* Types; an upsert or an embedding is within the version it writes.        *)
THEOREM TypeCorrect == Spec => []TypeOK
<1>1. IInv => TypeOK
  BY DEF IInv
<1> QED
  BY <1>1, Invariant, PTL

(* ensure_collection: no operation uses the collection before it has the    *)
(* right schema and all its indexes, whoever created or lost what.          *)
THEOREM EnsuredBeforeUse == Spec => []ReadyBeforeUse
<1>1. IInv => ReadyBeforeUse
  BY DEF IInv, Sound, Ready, ReadyBeforeUse, Active, Using
<1> QED
  BY <1>1, Invariant, PTL

LEMMA FirstIsSubSeq ==
  ASSUME NEW v \in Versions, NEW n \in 0..Len(Content[v])
  PROVE  First(v, n) = ToSet(SubSeq(Content[v], 1, n))
<1>1. n \in Nat /\ n <= Len(Content[v]) /\ 0 \in Nat /\ 0 + 1 = 1
  BY ContentAssumption
<1>2. ToSet(SubSeq(Content[v], 0 + 1, n)) = {Content[v][i] : i \in (0 + 1)..n}
  BY <1>1, BatchElements
<1> QED
  BY <1>1, <1>2 DEF First

LEMMA AllIsToSet ==
  ASSUME NEW v \in Versions
  PROVE  First(v, Len(Content[v])) = ToSet(Content[v])
  BY ContentAssumption DEF First, ToSet

(* upsert_document, replace_document: what an undisturbed writer leaves is  *)
(* complete and exact, and while it writes it never mixes two versions.     *)
THEOREM WritesCorrect == Spec => []WritesAreExact
<1>1. ASSUME IInv PROVE UpsertIsComplete
  <2> SUFFICES ASSUME NEW c \in Clients, At(c, "done"), op[c].stage = "write", ~disturbed[c]
               PROVE  \A ch \in ToSet(Content[op[c].version]) : points[ch] = op[c].version
    BY DEF UpsertIsComplete
  <2> DEFINE v == op[c].version
  <2>1. v \in Versions /\ \A i \in 1..Len(Content[v]) : points[Content[v][i]] = v
    BY <1>1, Known DEF At, Writing
  <2>2. ToSet(Content[v]) = {Content[v][i] : i \in 1..Len(Content[v])}
    BY <2>1, AllIsToSet DEF First
  <2> QED
    BY <2>1, <2>2
<1>2. ASSUME IInv PROVE ReplaceIsExact
  <2> SUFFICES ASSUME NEW c \in Clients, At(c, "done"), op[c].kind = "replace", ~disturbed[c]
               PROVE  points = Rows(op[c].version)
    BY DEF ReplaceIsExact
  <2> DEFINE v == op[c].version
  <2>1. op[c].stage = "write" /\ v \in Versions
    BY <1>2, Known DEF At, Staged
  <2>2. Kept(points) = ToSet(Content[v]) /\ \A ch \in Chunks : points[ch] \in {v, None}
    BY <1>2, <2>1, Known, AllIsToSet DEF At, Writing, Half
  <2>3. \A ch \in Chunks : points[ch] = IF ch \in ToSet(Content[v]) THEN v ELSE None
    BY <2>2 DEF Kept
  <2>4. points \in [Chunks -> Versions \cup {None}]
    BY <1>2 DEF IInv, TypeOK
  <2> QED
    BY <2>3, <2>4 DEF Rows
<1>3. ASSUME IInv PROVE ReplaceNeverMixes
  <2> SUFFICES ASSUME NEW c \in Clients, op[c] # None, ~disturbed[c],
                      op[c].kind = "replace", op[c].stage = "write"
               PROVE  LET v == op[c].version
                      IN  /\ \A ch \in Chunks : points[ch] \in {v, None}
                          /\ \E n \in 0..Len(Content[v]) :
                               Stored = ToSet(SubSeq(Content[v], 1, n))
    BY DEF ReplaceNeverMixes
  <2> DEFINE v == op[c].version
  <2>1. /\ v \in Versions /\ \A ch \in Chunks : points[ch] \in {v, None}
        /\ \E n \in 0..Len(Content[v]) : Kept(points) = First(v, n)
    BY <1>3, Known DEF Half
  <2>2. Stored = Kept(points)
    BY DEF Stored, Kept
  <2> QED
    BY <2>1, <2>2, FirstIsSubSeq
<1>4. IInv => WritesAreExact
  BY <1>1, <1>2, <1>3 DEF WritesAreExact
<1> QED
  BY <1>4, Invariant, PTL

(* _document_chunk_ids: what a count or a consistency check is about is     *)
(* every stored chunk of the document, whatever the page size.              *)
THEOREM ScrollCorrect == Spec => []ScrollIsExact
<1>1. ASSUME IInv PROVE ScrollIsExact
  <2> SUFFICES ASSUME NEW c \in Clients, ~disturbed[c],
                      At(c, "delete") \/ (At(c, "done") /\ op[c].kind = "check")
               PROVE  op[c].got = Stored
    BY DEF ScrollIsExact
  <2>1. op[c].got = Kept(points)
    BY <1>1, Known DEF At, Scrolling
  <2> QED
    BY <2>1 DEF Stored, Kept
<1>2. IInv => ScrollIsExact
  BY <1>1
<1> QED
  BY <1>2, Invariant, PTL

=============================================================================
