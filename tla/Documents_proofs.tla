-------------------------- MODULE Documents_proofs ---------------------------
(***************************************************************************)
(* Documents are cleaned, cut into chunks, and the chunks indexed.          *)
(*                                                                         *)
(* Cleaning: normalization keeps rows of words (NormalizeTyped), and after   *)
(* every element assigned the clusters of near duplicates hold the elements  *)
(* seen, each with those that resemble its first (Clustered, ClustersAre).   *)
(*                                                                         *)
(* Chunking keeps the text, for every document and every configuration the  *)
(* program accepts: what the chunks of a piece hold beyond the overlap with *)
(* the chunk before them and a repeated header is the text of its units.    *)
(*                                                                         *)
(*   sentences, groups, windows, rows and pieces flatten to what was cut    *)
(*   (SentencesAre, GroupsIs, WindowsMeet, RowGroupsAre, PiecesAre), each   *)
(*   an invariant of the loop that gathers them (FoldExists, FoldKept);     *)
(*   the words of the parts are then the words of the whole (FlatByParts),  *)
(*   which gives the chunks of a block (BlockHolds: SegmentChunksHold or    *)
(*   WindowsHold) and of a table (TableChunksHold).                         *)
(*                                                                         *)
(* A chunk stands on neighbours (Stands): the items of a whole are visited   *)
(* part by part (FlatWalk), so a stretch of them comes from neighbouring     *)
(* parts (StretchIs), and a window or a group is such a stretch of what the  *)
(* units of its piece give (WindowsStand, SegmentChunksStand), a slice of a  *)
(* table one of that table (TableChunksStand).  Its length is kept by the    *)
(* same loops (GroupsSmall, RowGroupsFew), and no boundary is inside a piece *)
(* (PiecesJoined).                                                          *)
(*                                                                         *)
(* The sparse index of the chunks: what has a term of the query has a        *)
(* positive score (MatchesScore, from LnGrows and SaturationIs); scores and  *)
(* then ids order the results strictly (IdsAreOrdered, RankedIs), so that    *)
(* those kept are the best (BestAre, SearchIs); and an index that is built   *)
(* has an entry per chunk id (IdsName, BuiltIs).                            *)
(*                                                                         *)
(* The sections on sequences and on sorting serve Offline_proofs too.       *)
(***************************************************************************)
EXTENDS Parsing, Cleaning, Chunking, SparseIndex, FiniteSetTheorems, SequenceTheorems,
        WellFoundedInduction, TLAPS

-----------------------------------------------------------------------------
(* Sequences.                                                              *)

(* A sequence, whatever its items are.                                     *)
Sequence(s) == s \in Seq(ToSet(s))

(* A sequence by place.                                                    *)
LEMMA SequenceIs ==
  ASSUME NEW s, Sequence(s)
  PROVE  /\ Len(s) \in Nat /\ DOMAIN s = 1..Len(s)
         /\ ToSet(s) = {s[i] : i \in 1..Len(s)}
         /\ s = [i \in 1..Len(s) |-> s[i]]
<1>1. s \in Seq(ToSet(s))
  BY DEF Sequence
<1>2. Len(s) \in Nat /\ DOMAIN s = 1..Len(s) /\ s = [i \in 1..Len(s) |-> s[i]]
  BY <1>1, LenProperties
<1>3. ToSet(s) = {s[i] : i \in DOMAIN s}
  BY DEF ToSet
<1> QED
  BY <1>2, <1>3

(* Any function on 1..n is one.                                            *)
LEMMA IsSequence ==
  ASSUME NEW n \in Nat, NEW s, s = [i \in 1..n |-> s[i]]
  PROVE  Sequence(s) /\ Len(s) = n
<1>1. DOMAIN s = 1..n
  OBVIOUS
<1>2. \A i \in 1..n : s[i] \in ToSet(s)
  BY <1>1 DEF ToSet
<1>3. s \in [1..n -> ToSet(s)]
  BY <1>2
<1>4. s \in Seq(ToSet(s))
  BY <1>3, SeqDef
<1> QED
  BY <1>1, <1>4, LenProperties DEF Sequence

(* The items but the first.                                                *)
LEMMA TailIs ==
  ASSUME NEW s, Sequence(s), s # <<>>
  PROVE  /\ Sequence(Tail(s)) /\ Len(Tail(s)) = Len(s) - 1 /\ Len(s) >= 1
         /\ \A i \in 1..(Len(s) - 1) : Tail(s)[i] = s[i + 1]
         /\ Head(s) \in ToSet(s) /\ Head(s) = s[1]
         /\ ToSet(s) = {Head(s)} \cup ToSet(Tail(s))
<1>1. s \in Seq(ToSet(s))
  BY DEF Sequence
<1>2. /\ Tail(s) \in Seq(ToSet(s)) /\ Len(Tail(s)) = Len(s) - 1
      /\ \A i \in 1..Len(Tail(s)) : Tail(s)[i] = s[i + 1]
      /\ Head(s) = s[1] /\ Len(s) \in Nat /\ Len(s) # 0
  BY <1>1, HeadTailProperties, LenProperties, EmptySeq
<1>3. Sequence(Tail(s))
  <2>1. Tail(s) = [i \in 1..Len(Tail(s)) |-> Tail(s)[i]] /\ Len(Tail(s)) \in Nat
    BY <1>2, LenProperties
  <2> QED
    BY <2>1, IsSequence
<1>4. ToSet(s) = {s[i] : i \in 1..Len(s)} /\ ToSet(Tail(s)) = {Tail(s)[i] : i \in 1..Len(Tail(s))}
  BY <1>3, SequenceIs
<1>5. Len(s) >= 1 /\ 1 \in 1..Len(s) /\ Len(Tail(s)) = Len(s) - 1
  BY <1>2
<1>6. Head(s) \in ToSet(s)
  BY <1>2, <1>4, <1>5
<1>7. ToSet(Tail(s)) \subseteq ToSet(s)
  <2>1. \A i \in 1..Len(Tail(s)) : i + 1 \in 1..Len(s)
    BY <1>2
  <2> QED
    BY <1>2, <1>4, <2>1
<1>8. ASSUME NEW i \in 1..Len(s) PROVE s[i] \in {Head(s)} \cup ToSet(Tail(s))
  <2>1. CASE i = 1
    BY <1>2, <2>1
  <2>2. CASE i # 1
    <3>1. i - 1 \in 1..Len(Tail(s)) /\ (i - 1) + 1 = i
      BY <1>2, <2>2
    <3> QED
      BY <1>2, <1>4, <3>1
  <2> QED
    BY <2>1, <2>2
<1> QED
  BY <1>2, <1>3, <1>4, <1>5, <1>6, <1>7, <1>8

(* The items and one more.                                                 *)
LEMMA AppendIs ==
  ASSUME NEW s, Sequence(s), NEW e
  PROVE  /\ Sequence(Append(s, e)) /\ Append(s, e) # <<>>
         /\ Len(s) \in Nat /\ DOMAIN s = 1..Len(s)
         /\ Len(Append(s, e)) = Len(s) + 1 /\ DOMAIN Append(s, e) = 1..(Len(s) + 1)
         /\ \A i \in 1..Len(s) : Append(s, e)[i] = s[i]
         /\ Append(s, e)[Len(s) + 1] = e
  BY AppendProperties DEF Sequence, ToSet

(* The empty sequence.                                                     *)
LEMMA EmptyIs == Sequence(<<>>) /\ Len(<<>>) = 0 /\ DOMAIN <<>> = {} /\ ToSet(<<>>) = {}
  BY EmptySeq DEF Sequence, ToSet

(* The items of an appended sequence.                                      *)
LEMMA AppendSet ==
  ASSUME NEW s, Sequence(s), NEW x PROVE ToSet(Append(s, x)) = ToSet(s) \cup {x}
<1>1. /\ Sequence(Append(s, x)) /\ Len(Append(s, x)) = Len(s) + 1 /\ Len(s) \in Nat
      /\ \A i \in 1..Len(s) : Append(s, x)[i] = s[i]
      /\ Append(s, x)[Len(s) + 1] = x
  BY AppendIs
<1>2. /\ ToSet(Append(s, x)) = {Append(s, x)[i] : i \in 1..(Len(s) + 1)}
      /\ ToSet(s) = {s[i] : i \in 1..Len(s)}
  BY <1>1, SequenceIs
<1>3. \A i \in 1..(Len(s) + 1) : i \in 1..Len(s) \/ i = Len(s) + 1
  BY <1>1
<1>4. 1..Len(s) \subseteq 1..(Len(s) + 1) /\ Len(s) + 1 \in 1..(Len(s) + 1)
  BY <1>1
<1> QED
  BY <1>1, <1>2, <1>3, <1>4

(* Recursion along the numbers up to n.                                     *)

(* Induction up to n, for a set in place of a predicate.                    *)
LEMMA Induction ==
  ASSUME NEW n \in Nat, NEW S, 0 \in S,
         \A k \in 0..n : k # 0 /\ k - 1 \in S => k \in S
  PROVE  \A k \in 0..n : k \in S
<1> SUFFICES ASSUME \E k \in 0..n : k \notin S PROVE FALSE
  OBVIOUS
<1> DEFINE Bad == {k \in 0..n : k \notin S}
<1>1. Bad \subseteq Nat /\ Bad # {}
  OBVIOUS
<1> HIDE DEF Bad
<1>2. PICK k \in Bad : \A i \in Bad : ~(<<i, k>> \in OpToRel(<, Nat))
  BY <1>1, NatLessThanWellFounded, WFMin
<1>3. k \in 0..n /\ k \notin S /\ k # 0
  BY <1>2 DEF Bad
<1>4. k - 1 \in 0..n /\ k - 1 \notin S
  BY <1>3
<1>5. k - 1 \in Bad
  BY <1>4 DEF Bad
<1>6. <<k - 1, k>> \in OpToRel(<, Nat)
  BY <1>3 DEF OpToRel
<1> QED
  BY <1>2, <1>5, <1>6

(* A recursion along 0..n over values of S has a value at every place, and  *)
(* only one.                                                               *)
Recursion(g, n, start, step) ==
  \A i \in 0..n : g[i] = IF i = 0 THEN start ELSE step[i][g[i - 1]]

(* A function defined by recursion exists.                                 *)
LEMMA RecursionExists ==
  ASSUME NEW n \in Nat, NEW S, NEW start \in S, NEW step \in [1..n -> [S -> S]]
  PROVE  \E g \in [0..n -> S] : Recursion(g, n, start, step)
<1> DEFINE Good == {k \in 0..n : \E g \in [0..k -> S] : Recursion(g, k, start, step)}
<1>1. 0 \in Good
  <2> DEFINE g == [i \in 0..0 |-> start]
  <2>1. g \in [0..0 -> S] /\ Recursion(g, 0, start, step)
    BY DEF Recursion
  <2> QED
    BY <2>1
<1>2. ASSUME NEW k \in 0..n, k # 0, k - 1 \in Good
      PROVE  k \in Good
  <2>1. PICK g \in [0..(k - 1) -> S] : Recursion(g, k - 1, start, step)
    BY <1>2
  <2> DEFINE h == [i \in 0..k |-> IF i = k THEN step[k][g[k - 1]] ELSE g[i]]
  <2>2. k \in 1..n /\ k - 1 \in 0..(k - 1)
    BY <1>2
  <2>3. step[k][g[k - 1]] \in S
    BY <2>1, <2>2
  <2>4. h \in [0..k -> S]
    BY <2>1, <2>2, <2>3
  <2>5. ASSUME NEW i \in 0..k
        PROVE  h[i] = IF i = 0 THEN start ELSE step[i][h[i - 1]]
    <3>1. CASE i = k
      <4>1. h[i] = step[k][g[k - 1]] /\ h[i - 1] = g[k - 1] /\ i # 0
        BY <2>2, <3>1
      <4> QED
        BY <3>1, <4>1
    <3>2. CASE i # k
      <4>1. i \in 0..(k - 1) /\ h[i] = g[i] /\ (i # 0 => h[i - 1] = g[i - 1])
        BY <2>2, <3>2
      <4> QED
        BY <2>1, <4>1 DEF Recursion
    <3> QED
      BY <3>1, <3>2
  <2>6. Recursion(h, k, start, step)
    BY <2>5 DEF Recursion
  <2> QED
    BY <1>2, <2>4, <2>6
<1> HIDE DEF Good
<1>3. \A k \in 0..n : k \in Good
  BY <1>1, <1>2, Induction
<1>4. n \in 0..n
  OBVIOUS
<1> QED
  BY <1>3, <1>4 DEF Good

(* r has the items of s up to place n that are in S: at says where.         *)
Picks(r, s, n, S, at) ==
  /\ Sequence(r) /\ at \in [1..Len(r) -> 1..n]
  /\ \A k, l \in 1..Len(r) : k < l => at[k] < at[l]
  /\ \A k \in 1..Len(r) : r[k] = s[at[k]] /\ r[k] \in S
  /\ \A i \in 1..n : s[i] \in S => \E k \in 1..Len(r) : at[k] = i

(* One more item.                                                          *)
LEMMA PicksNext ==
  ASSUME NEW s, NEW S, NEW n \in Nat, n # 0, NEW r, NEW at, Picks(r, s, n - 1, S, at)
  PROVE  \E to : Picks(IF s[n] \in S THEN Append(r, s[n]) ELSE r, s, n, S, to)
<1> DEFINE L == Len(r)
<1>1. L \in Nat /\ Sequence(r)
  BY SequenceIs DEF Picks
<1>2. CASE s[n] \in S
  <2> DEFINE q == Append(r, s[n])
             to == [k \in 1..(L + 1) |-> IF k = L + 1 THEN n ELSE at[k]]
  <2>1. /\ Sequence(q) /\ Len(q) = L + 1 /\ q[L + 1] = s[n]
        /\ \A k \in 1..L : q[k] = r[k]
    BY <1>1, AppendIs
  <2> HIDE DEF q
  <2>2. \A k \in 1..L : at[k] \in 1..(n - 1) /\ to[k] = at[k]
    BY <1>1 DEF Picks
  <2>3. to[L + 1] = n /\ to \in [1..(L + 1) -> 1..n]
    <3>1. L + 1 \in 1..(L + 1) /\ to[L + 1] = n
      BY <1>1
    <3>2. ASSUME NEW k \in 1..(L + 1), k # L + 1 PROVE at[k] \in 1..n
      <4>1. k \in 1..L
        BY <1>1, <3>2
      <4>2. at[k] \in 1..(n - 1)
        BY <2>2, <4>1
      <4> QED
        BY <4>2
    <3>3. n \in 1..n
      OBVIOUS
    <3> QED
      BY <3>1, <3>2, <3>3
  <2> HIDE DEF to
  <2>4. ASSUME NEW k \in 1..(L + 1), NEW l \in 1..(L + 1), k < l PROVE to[k] < to[l]
    <3>1. k \in 1..L /\ at[k] \in 1..(n - 1) /\ to[k] = at[k]
      BY <1>1, <2>2, <2>4
    <3>2. CASE l = L + 1
      BY <2>3, <3>1, <3>2
    <3>3. CASE l # L + 1
      <4>1. l \in 1..L
        BY <1>1, <3>3
      <4>2. at[k] < at[l] /\ to[l] = at[l]
        BY <2>2, <2>4, <3>1, <4>1 DEF Picks
      <4> QED
        BY <3>1, <4>2
    <3> QED
      BY <3>2, <3>3
  <2>5. ASSUME NEW k \in 1..(L + 1) PROVE q[k] = s[to[k]] /\ q[k] \in S
    <3>1. CASE k = L + 1
      BY <1>2, <2>1, <2>3, <3>1
    <3>2. CASE k # L + 1
      <4>1. k \in 1..L
        BY <1>1, <3>2
      <4> QED
        BY <2>1, <2>2, <4>1 DEF Picks
    <3> QED
      BY <3>1, <3>2
  <2>6. ASSUME NEW i \in 1..n, s[i] \in S PROVE \E k \in 1..(L + 1) : to[k] = i
    <3>1. CASE i = n
      BY <1>1, <2>3, <3>1
    <3>2. CASE i # n
      <4>1. PICK k \in 1..L : at[k] = i
        BY <2>6, <3>2 DEF Picks
      <4>2. k \in 1..(L + 1) /\ to[k] = i
        BY <1>1, <2>2, <4>1
      <4> QED
        BY <4>2
    <3> QED
      BY <3>1, <3>2
  <2>7. Picks(q, s, n, S, to)
    BY <2>1, <2>3, <2>4, <2>5, <2>6 DEF Picks
  <2> QED
    BY <1>2, <2>7 DEF q
<1>3. CASE s[n] \notin S
  <2>1. at \in [1..L -> 1..n]
    BY DEF Picks
  <2>2. \A i \in 1..n : s[i] \in S => i \in 1..(n - 1)
    BY <1>3
  <2>3. Picks(r, s, n, S, at)
    BY <2>1, <2>2 DEF Picks
  <2> QED
    BY <1>3, <2>3
<1> QED
  BY <1>2, <1>3

(* A filter picks items in their order.                                    *)
LEMMA OnlyIs ==
  ASSUME NEW s, Sequence(s), NEW S
  PROVE  \E at : Picks(Only(s, S), s, Len(s), S, at)
<1> DEFINE N == Len(s)
           D == ToSet(s)
           Taken(c, n) == IF s[n] \in S THEN Append(c, s[n]) ELSE c
           Eq(f) == f = [n \in 0..N |->
                           IF n = 0 THEN <<>>
                           ELSE IF s[n] \in S THEN Append(f[n - 1], s[n])
                           ELSE f[n - 1]]
           chosen == CHOOSE f : Eq(f)
           step == [n \in 1..N |-> [c \in Seq(D) |-> Taken(c, n)]]
<1>1. N \in Nat /\ \A n \in 1..N : s[n] \in D
  BY SequenceIs
<1>2. Only(s, S) = chosen[N]
  BY Zenon DEF Only
<1>3. \E f : Eq(f) /\ f \in [0..N -> Seq(D)]
  <2>1. ASSUME NEW n \in 1..N, NEW c \in Seq(D) PROVE Taken(c, n) \in Seq(D)
    BY <1>1, AppendProperties
  <2>2. step \in [1..N -> [Seq(D) -> Seq(D)]]
    BY <2>1
  <2>3. \A n \in 1..N : \A c \in Seq(D) : step[n][c] = Taken(c, n)
    OBVIOUS
  <2> HIDE DEF step
  <2>4. <<>> \in Seq(D)
    BY EmptySeq
  <2>5. PICK g \in [0..N -> Seq(D)] : Recursion(g, N, <<>>, step)
    BY <1>1, <2>2, <2>4, RecursionExists
  <2>6. ASSUME NEW n \in 0..N PROVE g[n] = IF n = 0 THEN <<>> ELSE Taken(g[n - 1], n)
    <3>1. CASE n = 0
      BY <2>5, <3>1 DEF Recursion
    <3>2. CASE n # 0
      <4>1. n \in 1..N /\ n - 1 \in 0..N
        BY <1>1, <3>2
      <4>2. g[n] = step[n][g[n - 1]] /\ g[n - 1] \in Seq(D)
        BY <2>5, <3>2, <4>1 DEF Recursion
      <4> QED
        BY <2>3, <3>2, <4>1, <4>2
    <3> QED
      BY <3>1, <3>2
  <2>7. Eq(g)
    BY <2>5, <2>6
  <2> QED
    BY <2>5, <2>7
<1>4. Eq(chosen)
  BY <1>3
<1>5. \A n \in 0..N : chosen[n] = IF n = 0 THEN <<>> ELSE Taken(chosen[n - 1], n)
  BY <1>4
<1> HIDE DEF chosen, step
<1> DEFINE Good == {n \in 0..N : \E at : Picks(chosen[n], s, n, S, at)}
<1>6. 0 \in Good
  <2>1. 0 \in 0..N /\ chosen[0] = <<>>
    BY <1>1, <1>5
  <2> DEFINE none == [k \in 1..0 |-> 0]
  <2>2. none \in [1..0 -> 1..0]
    OBVIOUS
  <2>3. Picks(<<>>, s, 0, S, none)
    BY <2>2, EmptyIs DEF Picks
  <2> QED
    BY <2>1, <2>3
<1>7. ASSUME NEW n \in 0..N, n # 0, n - 1 \in Good PROVE n \in Good
  <2>1. PICK at : Picks(chosen[n - 1], s, n - 1, S, at)
    BY <1>7
  <2>2. n \in Nat /\ chosen[n] = Taken(chosen[n - 1], n)
    BY <1>1, <1>5, <1>7
  <2>3. \E to : Picks(Taken(chosen[n - 1], n), s, n, S, to)
    BY <1>7, <2>1, <2>2, PicksNext
  <2> QED
    BY <2>2, <2>3
<1> HIDE DEF Good
<1>8. \A n \in 0..N : n \in Good
  BY <1>1, <1>6, <1>7, Induction
<1> QED
  BY <1>1, <1>2, <1>8 DEF Good

-----------------------------------------------------------------------------
(* What the items of a sequence are.                                       *)

(* The items of a typed sequence are of the type.                          *)
LEMMA Items ==
  ASSUME NEW T, NEW s \in Seq(T)
  PROVE  Sequence(s) /\ ToSet(s) \subseteq T /\ \A i \in 1..Len(s) : s[i] \in T
<1>1. s = [i \in 1..Len(s) |-> s[i]] /\ Len(s) \in Nat /\ \A i \in 1..Len(s) : s[i] \in T
  BY LenProperties, ElementOfSeq
<1>2. Sequence(s)
  BY <1>1, IsSequence
<1>3. ToSet(s) = {s[i] : i \in 1..Len(s)}
  BY <1>2, SequenceIs
<1> QED
  BY <1>1, <1>2, <1>3

(* A sequence is typed when its items are.                                 *)
LEMMA ItemsOf ==
  ASSUME NEW T, NEW s, Sequence(s), \A i \in 1..Len(s) : s[i] \in T
  PROVE  s \in Seq(T)
<1>1. Len(s) \in Nat /\ s = [i \in 1..Len(s) |-> s[i]]
  BY SequenceIs
<1>2. s \in [1..Len(s) -> T]
  BY <1>1
<1> QED
  BY <1>1, <1>2, SeqDef

(* What passes a filter.                                                   *)
LEMMA OnlyTyped ==
  ASSUME NEW T, NEW s \in Seq(T), NEW S
  PROVE  Only(s, S) \in Seq(T) /\ \A k \in 1..Len(Only(s, S)) : Only(s, S)[k] \in S
<1> DEFINE r == Only(s, S)
<1>1. Sequence(s) /\ \A i \in 1..Len(s) : s[i] \in T
  BY Items
<1>2. PICK at : Picks(r, s, Len(s), S, at)
  BY <1>1, OnlyIs
<1> HIDE DEF r
<1>3. Sequence(r) /\ \A k \in 1..Len(r) : at[k] \in 1..Len(s) /\ r[k] = s[at[k]] /\ r[k] \in S
  BY <1>2 DEF Picks
<1>4. r \in Seq(T)
  BY <1>1, <1>3, ItemsOf
<1> QED
  BY <1>3, <1>4 DEF r

(* What is left when an item is taken out.                                 *)
LEMMA WithoutTyped ==
  ASSUME NEW T, NEW s \in Seq(T), NEW item
  PROVE  /\ Without(s, item) \in Seq(T)
         /\ \A k \in 1..Len(Without(s, item)) : Without(s, item)[k] # item
<1> QED
  BY OnlyTyped DEF Without

-----------------------------------------------------------------------------
(* Parts and the whole.                                                    *)

(* Flattening adds part after part.                                        *)
LEMMA FlatIs ==
  ASSUME NEW T, NEW rows \in Seq(Seq(T))
  PROVE  \E f \in [0..Len(rows) -> Seq(T)] :
           /\ FlattenSeq(rows) = f[Len(rows)] /\ f[0] = <<>>
           /\ \A i \in 1..Len(rows) : f[i] = f[i - 1] \o rows[i]
<1> DEFINE N == Len(rows)
           S == Seq(T)
           Eq(f) == f = [i \in 1..N |-> IF i = 1 THEN rows[i] ELSE f[i - 1] \o rows[i]]
           flatten == CHOOSE f : Eq(f)
<1>1. N \in Nat /\ \A i \in 1..N : rows[i] \in S
  BY LenProperties, ElementOfSeq
<1>2. CASE N = 0
  <2>1. FlattenSeq(rows) = rows
    BY <1>2 DEF FlattenSeq
  <2>2. rows = <<>> /\ <<>> \in S
    BY <1>2, EmptySeq
  <2> DEFINE f == [i \in 0..N |-> <<>>]
  <2>3. /\ f \in [0..N -> S] /\ FlattenSeq(rows) = f[N] /\ f[0] = <<>>
        /\ \A i \in 1..N : f[i] = f[i - 1] \o rows[i]
    BY <1>2, <2>1, <2>2
  <2> QED
    BY <2>3
<1>3. CASE N # 0
  <2>1. FlattenSeq(rows) = flatten[N]
    BY <1>3, Zenon DEF FlattenSeq
  <2> DEFINE step == [i \in 1..(N - 1) |-> [v \in S |-> v \o rows[i + 1]]]
  <2>2. N - 1 \in Nat /\ N \in 1..N /\ 1 \in 1..N /\ rows[1] \in S
    BY <1>1, <1>3
  <2>3. ASSUME NEW i \in 1..(N - 1), NEW v \in S PROVE v \o rows[i + 1] \in S
    <3>1. i + 1 \in 1..N
      BY <1>1
    <3>2. rows[i + 1] \in S
      BY <1>1, <3>1
    <3> QED
      BY <3>2, ConcatProperties
  <2>4. step \in [1..(N - 1) -> [S -> S]]
    BY <2>3
  <2>5. \A i \in 1..(N - 1) : \A v \in S : step[i][v] = v \o rows[i + 1]
    OBVIOUS
  <2> HIDE DEF step, S
  <2>6. PICK g \in [0..(N - 1) -> S] : Recursion(g, N - 1, rows[1], step)
    BY <2>2, <2>4, RecursionExists
  <2> DEFINE h == [i \in 1..N |-> g[i - 1]]
  <2>7. ASSUME NEW i \in 1..N
        PROVE  h[i] = (IF i = 1 THEN rows[i] ELSE h[i - 1] \o rows[i]) /\ h[i] \in S
    <3>1. i - 1 \in 0..(N - 1) /\ h[i] = g[i - 1]
      BY <1>1
    <3>2. CASE i = 1
      <4>1. i - 1 = 0 /\ 0 \in 0..(N - 1)
        BY <3>1, <3>2
      <4>2. g[0] = rows[1]
        BY <2>6, <4>1 DEF Recursion
      <4> QED
        BY <2>2, <3>1, <3>2, <4>1, <4>2
    <3>3. CASE i # 1
      <4>1. i - 1 \in 1..(N - 1) /\ i - 1 \in 1..N /\ i - 1 # 0 /\ (i - 1) + 1 = i
            /\ (i - 1) - 1 \in 0..(N - 1)
        BY <1>1, <3>3
      <4>2. g[i - 1] = step[i - 1][g[(i - 1) - 1]] /\ g[(i - 1) - 1] \in S
        BY <2>6, <3>1, <4>1 DEF Recursion
      <4>3. h[i - 1] = g[(i - 1) - 1]
        BY <4>1
      <4>4. step[i - 1][g[(i - 1) - 1]] = g[(i - 1) - 1] \o rows[i]
        BY <2>5, <4>1, <4>2
      <4> QED
        BY <2>6, <3>1, <3>3, <4>2, <4>3, <4>4
    <3> QED
      BY <3>2, <3>3
  <2>8. h = [i \in 1..N |-> IF i = 1 THEN rows[i] ELSE h[i - 1] \o rows[i]]
    BY <2>7
  <2>9. Eq(h)
    BY <2>8
  <2>10. Eq(flatten)
    BY <2>9
  <2> HIDE DEF flatten, h
  <2>11. \A i \in 1..N : flatten[i] = IF i = 1 THEN rows[i] ELSE flatten[i - 1] \o rows[i]
    BY <2>10
  <2> DEFINE Good == {k \in 0..N : k # 0 => flatten[k] \in S}
  <2>12. 0 \in Good
    BY <1>1
  <2>13. ASSUME NEW k \in 0..N, k # 0, k - 1 \in Good PROVE k \in Good
    <3>1. k \in 1..N
      BY <1>1, <2>13
    <3>2. CASE k = 1
      BY <2>2, <2>11, <3>1, <3>2
    <3>3. CASE k # 1
      <4>1. flatten[k - 1] \in S /\ rows[k] \in S
        BY <1>1, <2>13, <3>1, <3>3
      <4>2. flatten[k - 1] \o rows[k] \in S
        BY <4>1, ConcatProperties DEF S
      <4> QED
        BY <2>11, <3>1, <3>3, <4>2
    <3> QED
      BY <3>2, <3>3
  <2> HIDE DEF Good
  <2>14. \A k \in 0..N : k \in Good
    BY <1>1, <2>12, <2>13, Induction
  <2> DEFINE f == [i \in 0..N |-> IF i = 0 THEN <<>> ELSE flatten[i]]
  <2>15. \A i \in 1..N : flatten[i] \in S
    BY <1>1, <2>14 DEF Good
  <2>16. f \in [0..N -> S] /\ f[0] = <<>> /\ f[N] = flatten[N]
    BY <1>1, <1>3, <2>15, EmptySeq DEF S
  <2>17. ASSUME NEW i \in 1..N PROVE f[i] = f[i - 1] \o rows[i]
    <3>1. i \in 0..N /\ i - 1 \in 0..N /\ i # 0 /\ f[i] = flatten[i]
      BY <1>1
    <3>2. CASE i = 1
      <4>1. f[i - 1] = <<>> /\ flatten[i] = rows[i]
        BY <2>11, <3>1, <3>2
      <4>2. <<>> \o rows[i] = rows[i]
        BY <1>1, ConcatEmptySeq
      <4> QED
        BY <3>1, <4>1, <4>2
    <3>3. CASE i # 1
      <4>1. i - 1 # 0
        BY <3>1, <3>3
      <4>2. f[i - 1] = flatten[i - 1]
        BY <3>1, <4>1
      <4>3. flatten[i] = flatten[i - 1] \o rows[i]
        BY <2>11, <3>3
      <4> QED
        BY <3>1, <4>2, <4>3
    <3> QED
      BY <3>2, <3>3
  <2> HIDE DEF f
  <2>18. FlattenSeq(rows) = f[N]
    BY <2>1, <2>16
  <2> QED
    BY <2>16, <2>17, <2>18 DEF S
<1> QED
  BY <1>2, <1>3

(* The items of the whole are of the type of the items of the parts.       *)
LEMMA FlatTyped ==
  ASSUME NEW T, NEW rows \in Seq(Seq(T))
  PROVE  FlattenSeq(rows) \in Seq(T)
<1>1. PICK f \in [0..Len(rows) -> Seq(T)] : FlattenSeq(rows) = f[Len(rows)]
  BY FlatIs
<1>2. Len(rows) \in 0..Len(rows)
  BY LenProperties
<1> QED
  BY <1>1, <1>2

(* No parts, no whole.                                                     *)
LEMMA FlatEmpty == FlattenSeq(<<>>) = <<>>
  BY EmptyIs DEF FlattenSeq

(* The first k items of a sequence.                                        *)
Prefix(s, k) == SubSeq(s, 1, k)

(* Prefixes grow by one item at a time.                                    *)
LEMMA PrefixIs ==
  ASSUME NEW T, NEW s \in Seq(T)
  PROVE  /\ Len(s) \in Nat /\ Prefix(s, 0) = <<>> /\ Prefix(s, Len(s)) = s
         /\ \A k \in 0..Len(s) : Prefix(s, k) \in Seq(T) /\ Len(Prefix(s, k)) = k
         /\ \A k \in 1..Len(s) : Prefix(s, k) = Append(Prefix(s, k - 1), s[k]) /\ s[k] \in T
<1> DEFINE N == Len(s)
<1>1. N \in Nat /\ \A i \in 1..N : s[i] \in T
  BY LenProperties, ElementOfSeq
<1>2. ASSUME NEW k \in 0..N
      PROVE  /\ Prefix(s, k) \in Seq(T) /\ Len(Prefix(s, k)) = k
             /\ \A i \in 1..k : Prefix(s, k)[i] = s[i]
  <2>1. \A i \in 1..k : s[i] \in T
    BY <1>1
  <2> QED
    BY <1>1, <2>1, SubSeqProperties DEF Prefix
<1>3. Prefix(s, 0) = <<>>
  <2>1. 0 \in 0..N
    BY <1>1
  <2> QED
    BY <1>2, <2>1, EmptySeq
<1>4. Prefix(s, N) = s
  <2>1. N \in 0..N
    BY <1>1
  <2>2. Prefix(s, N) \in Seq(T) /\ Len(Prefix(s, N)) = N /\ \A i \in 1..N : Prefix(s, N)[i] = s[i]
    BY <1>2, <2>1
  <2> QED
    BY <2>2, SeqEqual
<1>5. ASSUME NEW k \in 1..N PROVE Prefix(s, k) = Append(Prefix(s, k - 1), s[k])
  <2>1. k \in 0..N /\ k - 1 \in 0..N /\ s[k] \in T
    BY <1>1
  <2> DEFINE p == Prefix(s, k)
             q == Prefix(s, k - 1)
  <2>2. p \in Seq(T) /\ Len(p) = k /\ \A i \in 1..k : p[i] = s[i]
    BY <1>2, <2>1
  <2>3. q \in Seq(T) /\ Len(q) = k - 1 /\ \A i \in 1..(k - 1) : q[i] = s[i]
    BY <1>2, <2>1
  <2> HIDE DEF p, q
  <2>4. /\ Append(q, s[k]) \in Seq(T) /\ Len(Append(q, s[k])) = Len(q) + 1
        /\ Append(q, s[k])[Len(q) + 1] = s[k]
        /\ \A i \in 1..Len(q) : Append(q, s[k])[i] = q[i]
    BY <2>1, <2>3, AppendProperties
  <2>5. ASSUME NEW i \in 1..k PROVE p[i] = Append(q, s[k])[i]
    <3>1. CASE i = k
      BY <2>2, <2>3, <2>4, <3>1
    <3>2. CASE i # k
      <4>1. i \in 1..(k - 1) /\ i \in 1..Len(q)
        BY <2>3, <3>2
      <4> QED
        BY <2>2, <2>3, <2>4, <4>1
    <3> QED
      BY <3>1, <3>2
  <2>6. Len(Append(q, s[k])) = k
    BY <2>3, <2>4
  <2>7. p = Append(q, s[k])
    BY <2>2, <2>4, <2>5, <2>6, SeqEqual
  <2> QED
    BY <2>7 DEF p, q
<1> QED
  BY <1>1, <1>2, <1>3, <1>4, <1>5

(* One part more.                                                          *)
LEMMA FlatAppend ==
  ASSUME NEW T, NEW rows \in Seq(Seq(T)), NEW part \in Seq(T)
  PROVE  FlattenSeq(Append(rows, part)) = FlattenSeq(rows) \o part
<1> DEFINE N == Len(rows)
           more == Append(rows, part)
<1>1. /\ N \in Nat /\ more \in Seq(Seq(T)) /\ Len(more) = N + 1 /\ more[N + 1] = part
      /\ \A i \in 1..N : more[i] = rows[i]
  BY AppendProperties, LenProperties
<1> HIDE DEF more
<1>2. PICK f \in [0..N -> Seq(T)] :
           /\ FlattenSeq(rows) = f[N] /\ f[0] = <<>>
           /\ \A i \in 1..N : f[i] = f[i - 1] \o rows[i]
  BY FlatIs
<1>3. PICK g \in [0..Len(more) -> Seq(T)] :
           /\ FlattenSeq(more) = g[Len(more)] /\ g[0] = <<>>
           /\ \A i \in 1..Len(more) : g[i] = g[i - 1] \o more[i]
  BY <1>1, FlatIs
<1> DEFINE Good == {k \in 0..N : g[k] = f[k]}
<1>4. 0 \in Good
  BY <1>1, <1>2, <1>3
<1>5. ASSUME NEW k \in 0..N, k # 0, k - 1 \in Good PROVE k \in Good
  <2>1. k \in 1..N /\ k \in 1..Len(more) /\ g[k - 1] = f[k - 1]
    BY <1>1, <1>5
  <2> QED
    BY <1>1, <1>2, <1>3, <2>1
<1> HIDE DEF Good
<1>6. \A k \in 0..N : k \in Good
  BY <1>1, <1>4, <1>5, Induction
<1>7. N \in 0..N /\ N + 1 \in 1..Len(more) /\ (N + 1) - 1 = N
  BY <1>1
<1>8. g[N] = f[N]
  BY <1>6, <1>7 DEF Good
<1>9. g[N + 1] = g[N] \o part
  BY <1>1, <1>3, <1>7
<1> QED
  BY <1>1, <1>2, <1>3, <1>8, <1>9 DEF more

(* Two lists of parts, one after the other.                                *)
LEMMA FlatConcat ==
  ASSUME NEW T, NEW a \in Seq(Seq(T)), NEW b \in Seq(Seq(T))
  PROVE  FlattenSeq(a \o b) = FlattenSeq(a) \o FlattenSeq(b)
<1> DEFINE S == Seq(T)
           N == Len(b)
           Good == {k \in 0..N : FlattenSeq(a \o Prefix(b, k))
                                   = FlattenSeq(a) \o FlattenSeq(Prefix(b, k))}
<1>1. /\ N \in Nat /\ Prefix(b, 0) = <<>> /\ Prefix(b, N) = b
      /\ \A k \in 0..N : Prefix(b, k) \in Seq(S)
      /\ \A k \in 1..N : Prefix(b, k) = Append(Prefix(b, k - 1), b[k]) /\ b[k] \in S
  BY PrefixIs
<1>2. 0 \in Good
  <2> DEFINE e == Prefix(b, 0)
  <2>1. FlattenSeq(a) \in S /\ FlattenSeq(e) = <<>> /\ e = <<>>
    BY <1>1, FlatTyped, FlatEmpty
  <2>2. a \o e = a
    BY <2>1, ConcatEmptySeq
  <2>3. FlattenSeq(a) \o FlattenSeq(e) = FlattenSeq(a)
    BY <2>1, ConcatEmptySeq
  <2> HIDE DEF e
  <2>4. FlattenSeq(a \o e) = FlattenSeq(a) \o FlattenSeq(e)
    BY <2>2, <2>3
  <2> QED
    BY <1>1, <2>4 DEF e
<1>3. ASSUME NEW k \in 0..N, k # 0, k - 1 \in Good PROVE k \in Good
  <2>1. k \in 1..N /\ k - 1 \in 0..N
    BY <1>1, <1>3
  <2> DEFINE p == Prefix(b, k - 1)
             x == b[k]
  <2>2. p \in Seq(S) /\ x \in S /\ Prefix(b, k) = Append(p, x)
    BY <1>1, <2>1
  <2>3. FlattenSeq(a \o p) = FlattenSeq(a) \o FlattenSeq(p)
    BY <1>3
  <2> HIDE DEF p, x
  <2>4. a \o Append(p, x) = Append(a \o p, x) /\ a \o p \in Seq(S)
    <3> DEFINE one == <<x>>
    <3>1. Append(p, x) = p \o one /\ a \o p \in Seq(S) /\ one \in Seq(S)
      BY <2>2, AppendIsConcat, ConcatProperties
    <3>2. Append(a \o p, x) = (a \o p) \o one
      BY <2>2, <3>1, AppendIsConcat
    <3> HIDE DEF one, S
    <3>3. a \in Seq(S)
      BY DEF S
    <3>4. (a \o p) \o one = a \o (p \o one)
      BY <2>2, <3>1, <3>3, ConcatAssociative, SMTT(60)
    <3> QED
      BY <3>1, <3>2, <3>4
  <2>5. FlattenSeq(a \o Append(p, x)) = FlattenSeq(a \o p) \o x
    BY <2>2, <2>4, FlatAppend
  <2>6. FlattenSeq(Append(p, x)) = FlattenSeq(p) \o x
    BY <2>2, FlatAppend
  <2>7. FlattenSeq(a) \in Seq(T) /\ FlattenSeq(p) \in Seq(T) /\ x \in Seq(T)
    BY <2>2, FlatTyped
  <2>8. (FlattenSeq(a) \o FlattenSeq(p)) \o x = FlattenSeq(a) \o (FlattenSeq(p) \o x)
    BY <2>7, ConcatAssociative
  <2> QED
    BY <2>1, <2>2, <2>3, <2>5, <2>6, <2>8
<1> HIDE DEF Good
<1>4. \A k \in 0..N : k \in Good
  BY <1>1, <1>2, <1>3, Induction
<1>5. N \in 0..N
  BY <1>1
<1>6. FlattenSeq(a \o Prefix(b, N)) = FlattenSeq(a) \o FlattenSeq(Prefix(b, N))
  BY <1>4, <1>5 DEF Good
<1> QED
  BY <1>1, <1>6

(* The words of a text.                                                    *)
LEMMA TextTyped ==
  ASSUME NEW T, NEW rows \in Seq(Seq(T))
  PROVE  Text(rows) \in Seq(T)
  BY FlatTyped DEF Text

(* A function on every item of a sequence.                                 *)
Applied(g, s) == [k \in DOMAIN s |-> g[s[k]]]

Maps(g, D, V) == g \in [D -> V]

(* A sequence mapped is as long, and typed by the values.                  *)
LEMMA AppliedIs ==
  ASSUME NEW D, NEW V, NEW g, Maps(g, D, V), NEW s \in Seq(D)
  PROVE  /\ Applied(g, s) \in Seq(V) /\ Len(Applied(g, s)) = Len(s) /\ Len(s) \in Nat
         /\ \A k \in 1..Len(s) : Applied(g, s)[k] = g[s[k]] /\ s[k] \in D
<1>1. Len(s) \in Nat /\ DOMAIN s = 1..Len(s) /\ \A k \in 1..Len(s) : s[k] \in D
  BY LenProperties, ElementOfSeq
<1> DEFINE q == Applied(g, s)
<1>2. q = [k \in 1..Len(s) |-> g[s[k]]]
  BY <1>1 DEF Applied
<1>3. q \in [1..Len(s) -> V]
  BY <1>1, <1>2 DEF Maps
<1> HIDE DEF q
<1>4. q \in Seq(V)
  BY <1>1, <1>3, SeqDef
<1>5. Len(q) = Len(s)
  BY <1>1, <1>3, <1>4, LenProperties
<1> QED
  BY <1>1, <1>2, <1>4, <1>5 DEF q

(* Mapping a concatenation.                                                *)
LEMMA AppliedConcat ==
  ASSUME NEW D, NEW V, NEW g, Maps(g, D, V), NEW s \in Seq(D), NEW t \in Seq(D)
  PROVE  Applied(g, s \o t) = Applied(g, s) \o Applied(g, t)
<1> DEFINE N == Len(s)
           M == Len(t)
           st == s \o t
           a == Applied(g, s)
           b == Applied(g, t)
           c == Applied(g, st)
<1>1. /\ st \in Seq(D) /\ Len(st) = N + M
      /\ \A i \in 1..(N + M) : st[i] = IF i <= N THEN s[i] ELSE t[i - N]
  BY ConcatProperties
<1>2. /\ a \in Seq(V) /\ Len(a) = N /\ N \in Nat
      /\ \A k \in 1..N : a[k] = g[s[k]]
  BY AppliedIs
<1>3. /\ b \in Seq(V) /\ Len(b) = M /\ M \in Nat
      /\ \A k \in 1..M : b[k] = g[t[k]]
  BY AppliedIs
<1> HIDE DEF st
<1>4. /\ c \in Seq(V) /\ Len(c) = N + M
      /\ \A k \in 1..(N + M) : c[k] = g[st[k]]
  <2>1. st \in Seq(D)
    BY <1>1
  <2>2. c \in Seq(V) /\ Len(c) = Len(st) /\ \A k \in 1..Len(st) : c[k] = g[st[k]]
    BY <2>1, AppliedIs
  <2> QED
    BY <1>1, <2>2
<1> HIDE DEF a, b, c, N, M
<1>5. /\ a \o b \in Seq(V) /\ Len(a \o b) = N + M
      /\ \A i \in 1..(N + M) : (a \o b)[i] = IF i <= N THEN a[i] ELSE b[i - N]
  BY <1>2, <1>3, ConcatProperties, ZenonT(60)
<1>6. ASSUME NEW i \in 1..(N + M) PROVE c[i] = (a \o b)[i]
  <2>1. CASE i <= N
    <3>1. i \in 1..N
      BY <1>2, <2>1
    <3> QED
      <4>1. i \in 1..(N + M)
        OBVIOUS
      <4>2. st[i] = s[i]
        BY <1>1, <2>1, <4>1
      <4>3. c[i] = g[st[i]]
        BY <1>4, <4>1
      <4>4. a[i] = g[s[i]]
        BY <1>2, <3>1
      <4>5. (a \o b)[i] = a[i]
        BY <1>5, <2>1, <4>1
      <4> QED
        BY <4>2, <4>3, <4>4, <4>5
  <2>2. CASE ~(i <= N)
    <3>1. i - N \in 1..M
      BY <1>2, <1>3, <2>2
    <3> QED
      BY <1>1, <1>3, <1>4, <1>5, <2>2, <3>1
  <2> QED
    BY <2>1, <2>2
<1>7. c = a \o b
  BY <1>4, <1>5, <1>6, SeqEqual
<1> QED
  BY <1>7 DEF a, b, c, st

(* Mapping the whole is mapping its parts.                                 *)
LEMMA AppliedFlat ==
  ASSUME NEW D, NEW V, NEW g, Maps(g, D, V), NEW css \in Seq(Seq(D)),
         NEW q \in Seq(Seq(V)), Len(q) = Len(css),
         \A i \in 1..Len(css) : q[i] = Applied(g, css[i])
  PROVE  Applied(g, FlattenSeq(css)) = FlattenSeq(q)
<1> DEFINE N == Len(css)
           P(k) == Prefix(css, k)
           Q(k) == Prefix(q, k)
           Good == {k \in 0..N : Applied(g, FlattenSeq(P(k))) = FlattenSeq(Q(k))}
<1>1. /\ N \in Nat /\ P(0) = <<>> /\ P(N) = css
      /\ \A k \in 0..N : P(k) \in Seq(Seq(D))
      /\ \A k \in 1..N : P(k) = Append(P(k - 1), css[k]) /\ css[k] \in Seq(D)
  BY PrefixIs
<1>2. /\ Q(0) = <<>> /\ Q(N) = q
      /\ \A k \in 0..N : Q(k) \in Seq(Seq(V))
      /\ \A k \in 1..N : Q(k) = Append(Q(k - 1), q[k]) /\ q[k] \in Seq(V)
  BY PrefixIs
<1>3. 0 \in Good
  <2>1. Applied(g, <<>>) = <<>>
    <3>1. <<>> \in Seq(D) /\ Len(<<>>) = 0
      BY EmptySeq
    <3> DEFINE e == <<>>
    <3>2. e \in Seq(D)
      BY <3>1
    <3> HIDE DEF e
    <3>3. Applied(g, e) \in Seq(V) /\ Len(Applied(g, e)) = Len(e)
      BY <3>2, AppliedIs
    <3> QED
      BY <3>1, <3>3, EmptySeq DEF e
  <2>2. Applied(g, FlattenSeq(<<>>)) = FlattenSeq(<<>>)
    BY <2>1, FlatEmpty
  <2>3. 0 \in 0..N
    BY <1>1
  <2> QED
    BY <1>1, <1>2, <2>2, <2>3
<1> HIDE DEF P, Q
<1>4. ASSUME NEW k \in 0..N, k # 0, k - 1 \in Good PROVE k \in Good
  <2>1. k \in 1..N /\ k - 1 \in 0..N
    BY <1>1, <1>4
  <2>2. P(k - 1) \in Seq(Seq(D)) /\ css[k] \in Seq(D) /\ P(k) = Append(P(k - 1), css[k])
    BY <1>1, <2>1
  <2>3. Q(k - 1) \in Seq(Seq(V)) /\ q[k] \in Seq(V) /\ Q(k) = Append(Q(k - 1), q[k])
    BY <1>2, <2>1
  <2>4. FlattenSeq(P(k)) = FlattenSeq(P(k - 1)) \o css[k] /\ FlattenSeq(P(k - 1)) \in Seq(D)
    BY <2>2, FlatAppend, FlatTyped
  <2>5. FlattenSeq(Q(k)) = FlattenSeq(Q(k - 1)) \o q[k]
    BY <2>3, FlatAppend
  <2>6. Applied(g, FlattenSeq(P(k - 1)) \o css[k])
          = Applied(g, FlattenSeq(P(k - 1))) \o Applied(g, css[k])
    BY <2>2, <2>4, AppliedConcat, SMTT(60)
  <2>7. Applied(g, FlattenSeq(P(k - 1))) = FlattenSeq(Q(k - 1))
    BY <1>4
  <2>8. q[k] = Applied(g, css[k])
    BY <2>1
  <2> QED
    BY <2>4, <2>5, <2>6, <2>7, <2>8
<1> HIDE DEF Good
<1>5. \A k \in 0..N : k \in Good
  BY <1>1, <1>3, <1>4, Induction
<1>6. N \in 0..N
  BY <1>1
<1>7. Applied(g, FlattenSeq(P(N))) = FlattenSeq(Q(N))
  BY <1>5, <1>6 DEF Good
<1> QED
  BY <1>1, <1>2, <1>7

(* Parts of parts.                                                         *)
LEMMA FlatFlat ==
  ASSUME NEW T, NEW parts \in Seq(Seq(Seq(T))), NEW q \in Seq(Seq(T)), Len(q) = Len(parts),
         \A i \in 1..Len(parts) : q[i] = FlattenSeq(parts[i])
  PROVE  FlattenSeq(FlattenSeq(parts)) = FlattenSeq(q)
<1> DEFINE N == Len(parts)
           S == Seq(T)
           P(k) == Prefix(parts, k)
           Q(k) == Prefix(q, k)
           Good == {k \in 0..N : FlattenSeq(FlattenSeq(P(k))) = FlattenSeq(Q(k))}
<1>1. /\ N \in Nat /\ P(0) = <<>> /\ P(N) = parts
      /\ \A k \in 0..N : P(k) \in Seq(Seq(S))
      /\ \A k \in 1..N : P(k) = Append(P(k - 1), parts[k]) /\ parts[k] \in Seq(S)
  BY PrefixIs
<1>2. /\ Q(0) = <<>> /\ Q(N) = q
      /\ \A k \in 0..N : Q(k) \in Seq(S)
      /\ \A k \in 1..N : Q(k) = Append(Q(k - 1), q[k]) /\ q[k] \in S
  BY PrefixIs
<1>3. 0 \in Good
  <2>1. FlattenSeq(FlattenSeq(<<>>)) = FlattenSeq(<<>>)
    BY FlatEmpty
  <2>2. 0 \in 0..N
    BY <1>1
  <2> QED
    BY <1>1, <1>2, <2>1, <2>2
<1> HIDE DEF P, Q
<1>4. ASSUME NEW k \in 0..N, k # 0, k - 1 \in Good PROVE k \in Good
  <2>1. k \in 1..N /\ k - 1 \in 0..N
    BY <1>1, <1>4
  <2>2. P(k - 1) \in Seq(Seq(S)) /\ parts[k] \in Seq(S) /\ P(k) = Append(P(k - 1), parts[k])
    BY <1>1, <2>1
  <2>3. Q(k - 1) \in Seq(S) /\ q[k] \in S /\ Q(k) = Append(Q(k - 1), q[k])
    BY <1>2, <2>1
  <2>4. FlattenSeq(P(k)) = FlattenSeq(P(k - 1)) \o parts[k] /\ FlattenSeq(P(k - 1)) \in Seq(S)
    BY <2>2, FlatAppend, FlatTyped
  <2>5. FlattenSeq(Q(k)) = FlattenSeq(Q(k - 1)) \o q[k]
    BY <2>3, FlatAppend
  <2>6. FlattenSeq(FlattenSeq(P(k - 1)) \o parts[k])
          = FlattenSeq(FlattenSeq(P(k - 1))) \o FlattenSeq(parts[k])
    BY <2>2, <2>4, FlatConcat
  <2>7. FlattenSeq(FlattenSeq(P(k - 1))) = FlattenSeq(Q(k - 1))
    BY <1>4
  <2>8. q[k] = FlattenSeq(parts[k])
    BY <2>1
  <2> QED
    BY <2>4, <2>5, <2>6, <2>7, <2>8
<1> HIDE DEF Good
<1>5. \A k \in 0..N : k \in Good
  BY <1>1, <1>3, <1>4, Induction
<1>6. N \in 0..N
  BY <1>1
<1>7. FlattenSeq(FlattenSeq(P(N))) = FlattenSeq(Q(N))
  BY <1>5, <1>6 DEF Good
<1> QED
  BY <1>1, <1>2, <1>7

(* What is gathered from the items of all the parts is gathered part by     *)
(* part.                                                                   *)
LEMMA FlatByParts ==
  ASSUME NEW D, NEW T, NEW g, Maps(g, D, Seq(T)), NEW css \in Seq(Seq(D)),
         NEW q, Sequence(q), Len(q) = Len(css),
         \A i \in 1..Len(css) : q[i] = FlattenSeq(Applied(g, css[i]))
  PROVE  FlattenSeq(Applied(g, FlattenSeq(css))) = FlattenSeq(q)
<1> DEFINE N == Len(css)
           m == [i \in 1..N |-> Applied(g, css[i])]
<1>1. N \in Nat /\ \A i \in 1..N : css[i] \in Seq(D)
  BY LenProperties, ElementOfSeq
<1>2. \A i \in 1..N : Applied(g, css[i]) \in Seq(Seq(T))
  BY <1>1, AppliedIs
<1>3. m \in Seq(Seq(Seq(T))) /\ Len(m) = N
  <2>1. m \in [1..N -> Seq(Seq(T))]
    BY <1>2
  <2>2. m \in Seq(Seq(Seq(T)))
    <3> DEFINE S == Seq(Seq(T))
    <3>1. m \in [1..N -> S]
      BY <2>1
    <3> HIDE DEF S, m
    <3>2. m \in Seq(S)
      BY <1>1, <3>1, SeqDef
    <3> QED
      BY <3>2 DEF S
  <2> HIDE DEF m
  <2>3. DOMAIN m = 1..N
    BY <2>1
  <2> QED
    BY <1>1, <2>2, <2>3, LenProperties
<1>4. \A i \in 1..N : m[i] = Applied(g, css[i])
  OBVIOUS
<1> HIDE DEF m
<1>5. Applied(g, FlattenSeq(css)) = FlattenSeq(m)
  <2>1. m \in Seq(Seq(Seq(T))) /\ Len(m) = Len(css)
        /\ \A i \in 1..Len(css) : m[i] = Applied(g, css[i])
    BY <1>3, <1>4
  <2> DEFINE V == Seq(T)
  <2>2. Maps(g, D, V) /\ m \in Seq(Seq(V))
    BY <2>1
  <2> HIDE DEF V
  <2> QED
    BY <2>1, <2>2, AppliedFlat, SMTT(60)
<1>6. \A i \in 1..N : q[i] = FlattenSeq(m[i])
  BY <1>4
<1>7. q \in Seq(Seq(T))
  <2>1. \A i \in 1..Len(q) : q[i] \in Seq(T)
    BY <1>2, FlatTyped
  <2> QED
    BY <2>1, ItemsOf
<1>8. FlattenSeq(FlattenSeq(m)) = FlattenSeq(q)
  BY <1>3, <1>6, <1>7, FlatFlat
<1> QED
  BY <1>5, <1>8

(* Both halves are in a concatenation.                                     *)
LEMMA ConcatItems ==
  ASSUME NEW T, NEW a \in Seq(T), NEW b \in Seq(T)
  PROVE  ToSet(a) \subseteq ToSet(a \o b) /\ ToSet(b) \subseteq ToSet(a \o b)
<1> DEFINE s == a \o b
           n == Len(a)
           m == Len(b)
<1>1. /\ s \in Seq(T) /\ Len(s) = n + m /\ n \in Nat /\ m \in Nat
      /\ \A i \in 1..(n + m) : s[i] = IF i <= n THEN a[i] ELSE b[i - n]
  BY ConcatProperties, LenProperties
<1>2. Sequence(s) /\ Sequence(a) /\ Sequence(b)
  BY <1>1, Items
<1> HIDE DEF s, n, m
<1>3. ToSet(s) = {s[i] : i \in 1..(n + m)}
  BY <1>1, <1>2, SequenceIs
<1>4. ToSet(a) = {a[i] : i \in 1..n} /\ ToSet(b) = {b[i] : i \in 1..m}
  BY <1>2, SequenceIs DEF n, m
<1>5. ASSUME NEW i \in 1..n PROVE a[i] \in ToSet(s)
  <2>1. i \in 1..(n + m) /\ i <= n
    BY <1>1
  <2>2. s[i] = a[i]
    BY <1>1, <2>1
  <2> QED
    BY <1>3, <2>1, <2>2
<1>6. ASSUME NEW i \in 1..m PROVE b[i] \in ToSet(s)
  <2>1. n + i \in 1..(n + m) /\ ~(n + i <= n) /\ (n + i) - n = i
    BY <1>1
  <2>2. s[n + i] = b[(n + i) - n]
    BY <1>1, <2>1
  <2> QED
    BY <1>3, <2>1, <2>2
<1> QED
  BY <1>4, <1>5, <1>6 DEF s

(* What is in a part is in the whole, and the other way round.              *)
LEMMA FlatItems ==
  ASSUME NEW T, NEW css \in Seq(Seq(T))
  PROVE  /\ \A i \in 1..Len(css) : ToSet(css[i]) \subseteq ToSet(FlattenSeq(css))
         /\ \A x \in ToSet(FlattenSeq(css)) : \E i \in 1..Len(css) : x \in ToSet(css[i])
<1> DEFINE N == Len(css)
           S == Seq(T)
           F(k) == FlattenSeq(Prefix(css, k))
           Good == {k \in 0..N : \A i \in 1..k : ToSet(css[i]) \subseteq ToSet(F(k))}
<1>1. /\ N \in Nat /\ Prefix(css, 0) = <<>> /\ Prefix(css, N) = css
      /\ \A k \in 0..N : Prefix(css, k) \in Seq(S)
      /\ \A k \in 1..N : Prefix(css, k) = Append(Prefix(css, k - 1), css[k]) /\ css[k] \in S
  BY PrefixIs
<1>2. 0 \in Good
  BY <1>1
<1>3. ASSUME NEW k \in 0..N, k # 0, k - 1 \in Good PROVE k \in Good
  <2>1. k \in 1..N /\ k - 1 \in 0..N
    BY <1>1, <1>3
  <2> DEFINE p == Prefix(css, k - 1)
             x == css[k]
             a == FlattenSeq(p)
  <2>2. p \in Seq(S) /\ x \in S /\ Prefix(css, k) = Append(p, x)
    BY <1>1, <2>1
  <2> HIDE DEF p
  <2>3. F(k) = a \o x /\ a \in Seq(T)
    BY <2>2, FlatAppend, FlatTyped
  <2>4. ToSet(a) \subseteq ToSet(F(k)) /\ ToSet(x) \subseteq ToSet(F(k))
    <3> HIDE DEF a, x
    <3> QED
      BY <2>2, <2>3, ConcatItems
  <2>5. \A i \in 1..(k - 1) : ToSet(css[i]) \subseteq ToSet(a)
    BY <1>3 DEF p
  <2>6. \A i \in 1..k : i \in 1..(k - 1) \/ i = k
    BY <1>1
  <2> HIDE DEF a, F
  <2>7. \A i \in 1..k : ToSet(css[i]) \subseteq ToSet(F(k))
    BY <2>4, <2>5, <2>6
  <2> QED
    BY <2>7
<1> HIDE DEF Good
<1>4. \A k \in 0..N : k \in Good
  BY <1>1, <1>2, <1>3, Induction
<1>5. N \in 0..N
  BY <1>1
<1>6. \A i \in 1..N : ToSet(css[i]) \subseteq ToSet(FlattenSeq(css))
  BY <1>1, <1>4, <1>5 DEF Good
<1>7. ASSUME NEW x \in ToSet(FlattenSeq(css)) PROVE \E i \in 1..N : x \in ToSet(css[i])
  <2> DEFINE U == UNION {ToSet(css[i]) : i \in 1..N}
             V == Seq(U)
  <2>1. Sequence(css)
    BY Items
  <2>2. \A i \in 1..N : css[i] \in V
    <3> SUFFICES ASSUME NEW i \in 1..N PROVE css[i] \in V
      OBVIOUS
    <3> DEFINE c == css[i]
    <3>1. c \in Seq(T) /\ ToSet(c) \subseteq U
      BY <1>1
    <3> HIDE DEF c, U
    <3>2. Sequence(c) /\ ToSet(c) = {c[j] : j \in 1..Len(c)}
      BY <3>1, Items, SequenceIs
    <3>3. c \in Seq(U)
      BY <3>1, <3>2, ItemsOf
    <3> QED
      BY <3>3 DEF c
  <2> HIDE DEF U
  <2>3. css \in Seq(V)
    <3> HIDE DEF V
    <3> QED
      BY <2>1, <2>2, ItemsOf
  <2>4. FlattenSeq(css) \in Seq(U)
    BY <2>3, FlatTyped DEF V
  <2>5. x \in U
    BY <2>4, Items
  <2> QED
    BY <2>5 DEF U
<1> QED
  BY <1>6, <1>7

(* A filter that everything passes.                                        *)
LEMMA OnlyAll ==
  ASSUME NEW T, NEW s \in Seq(T), NEW item, \A i \in 1..Len(s) : s[i] # item
  PROVE  Without(s, item) = s
<1> DEFINE N == Len(s)
           S == ToSet(s) \ {item}
           Eq(f) == f = [n \in 0..N |->
                           IF n = 0 THEN <<>>
                           ELSE IF s[n] \in S THEN Append(f[n - 1], s[n])
                           ELSE f[n - 1]]
           chosen == CHOOSE f : Eq(f)
           g == [n \in 0..N |-> Prefix(s, n)]
           Good == {n \in 0..N : chosen[n] = Prefix(s, n)}
<1>1. N \in Nat /\ Prefix(s, 0) = <<>> /\ Prefix(s, N) = s
      /\ \A k \in 1..N : Prefix(s, k) = Append(Prefix(s, k - 1), s[k])
  BY PrefixIs
<1>2. \A n \in 1..N : s[n] \in S
  BY Items, SequenceIs
<1>3. Only(s, S) = chosen[N]
  BY Zenon DEF Only
<1>4. Without(s, item) = Only(s, S)
  BY DEF Without
<1> HIDE DEF S
<1>5. Eq(g)
  <2>1. \A n \in 0..N : n # 0 => n \in 1..N /\ n - 1 \in 0..N
    BY <1>1
  <2>2. \A n \in 0..N : n # 0 => g[n] = Append(g[n - 1], s[n])
    BY <1>1, <2>1
  <2>3. \A n \in 0..N : g[n] = IF n = 0 THEN <<>>
                               ELSE IF s[n] \in S THEN Append(g[n - 1], s[n])
                               ELSE g[n - 1]
    BY <1>1, <1>2, <2>1, <2>2
  <2>4. g = [n \in 0..N |-> g[n]]
    OBVIOUS
  <2> HIDE DEF g
  <2> QED
    BY <2>3, <2>4
<1>6. Eq(chosen)
  BY <1>5
<1> HIDE DEF chosen, g
<1>7. \A n \in 0..N : chosen[n] = IF n = 0 THEN <<>>
                               ELSE IF s[n] \in S THEN Append(chosen[n - 1], s[n])
                               ELSE chosen[n - 1]
  BY <1>6
<1>8. 0 \in Good
  BY <1>1, <1>7
<1>9. ASSUME NEW n \in 0..N, n # 0, n - 1 \in Good PROVE n \in Good
  <2>1. n \in 1..N
    BY <1>1, <1>9
  <2>2. chosen[n] = Append(chosen[n - 1], s[n]) /\ chosen[n - 1] = Prefix(s, n - 1)
    BY <1>2, <1>7, <1>9, <2>1
  <2> QED
    BY <1>1, <2>1, <2>2
<1> HIDE DEF Good
<1>10. \A n \in 0..N : n \in Good
  BY <1>1, <1>8, <1>9, Induction
<1>11. N \in 0..N
  BY <1>1
<1> QED
  BY <1>1, <1>3, <1>4, <1>10, <1>11 DEF Good

-----------------------------------------------------------------------------
(* Folds along a sequence.                                                 *)

(* A recursion along 0..n that stays in the set of its place.               *)
Keeps(step, K, n) == \A i \in 1..n : \A v \in K[i - 1] : step[i][v] \in K[i]
Along(g, n, start, step, K) ==
  /\ \A i \in 0..n : g[i] = IF i = 0 THEN start ELSE step[i][g[i - 1]]
  /\ \A i \in 0..n : g[i] \in K[i]
Follows(f, n, step, K) ==
  \A i \in 1..n : f[i - 1] \in K[i - 1] => f[i] = step[i][f[i - 1]]

(* A loop over a sequence, with what it keeps, is defined.                 *)
LEMMA FoldExists ==
  ASSUME NEW n \in Nat, NEW K, NEW start \in K[0], NEW step, Keeps(step, K, n)
  PROVE  \E X : \E g \in [0..n -> X] : Along(g, n, start, step, K)
<1> DEFINE Is(g, k) == /\ g = [i \in 0..k |-> IF i = 0 THEN start ELSE step[i][g[i - 1]]]
                       /\ \A i \in 0..k : g[i] \in K[i]
           Good == {k \in 0..n : \E g : Is(g, k)}
<1>1. 0 \in Good
  <2> DEFINE g == [i \in 0..0 |-> start]
  <2>1. Is(g, 0)
    OBVIOUS
  <2>2. 0 \in 0..n
    OBVIOUS
  <2> HIDE DEF g, Is
  <2> QED
    BY <2>1, <2>2
<1>2. ASSUME NEW k \in 0..n, k # 0, k - 1 \in Good PROVE k \in Good
  <2>1. PICK g : Is(g, k - 1)
    BY <1>2
  <2>2. k \in 1..n /\ k - 1 \in 0..(k - 1)
    BY <1>2
  <2> DEFINE new == step[k][g[k - 1]]
             h == [i \in 0..k |-> IF i = k THEN new ELSE g[i]]
  <2>3. new \in K[k]
    BY <2>1, <2>2 DEF Keeps
  <2> HIDE DEF new
  <2>4. \A i \in 0..k : i # k => i \in 0..(k - 1) /\ h[i] = g[i]
    BY <1>2
  <2>5. h[k] = new /\ h[k - 1] = g[k - 1]
    BY <1>2, <2>2
  <2>6. ASSUME NEW i \in 0..k
        PROVE  h[i] = (IF i = 0 THEN start ELSE step[i][h[i - 1]]) /\ h[i] \in K[i]
    <3>1. CASE i = k
      BY <2>2, <2>3, <2>5, <3>1 DEF new
    <3>2. CASE i # k
      <4>1. i \in 0..(k - 1) /\ h[i] = g[i]
        BY <2>4, <3>2
      <4>2. CASE i = 0
        BY <2>1, <4>1, <4>2
      <4>3. CASE i # 0
        <5>1. i - 1 \in 0..k /\ i - 1 # k
          BY <1>2, <4>1, <4>3
        <5>2. h[i - 1] = g[i - 1]
          BY <2>4, <5>1
        <5> QED
          BY <2>1, <4>1, <4>3, <5>2
      <4> QED
        BY <4>2, <4>3
    <3> QED
      BY <3>1, <3>2
  <2>7. Is(h, k)
    <3>1. h = [i \in 0..k |-> h[i]]
      OBVIOUS
    <3> HIDE DEF h
    <3> QED
      BY <2>6, <3>1
  <2> QED
    BY <1>2, <2>7
<1> HIDE DEF Good
<1>3. \A k \in 0..n : k \in Good
  BY <1>1, <1>2, Induction
<1>4. n \in 0..n
  OBVIOUS
<1>5. PICK g : Is(g, n)
  BY <1>3, <1>4 DEF Good
<1> DEFINE X == {g[i] : i \in 0..n}
<1>6. g \in [0..n -> X]
  BY <1>5
<1>7. Along(g, n, start, step, K)
  BY <1>5 DEF Along
<1> QED
  BY <1>6, <1>7

(* What every step of a loop keeps holds all along it.                     *)
LEMMA FoldKept ==
  ASSUME NEW n \in Nat, NEW K, NEW step, Keeps(step, K, n),
         NEW f, f[0] \in K[0], Follows(f, n, step, K)
  PROVE  \A i \in 0..n : f[i] \in K[i]
<1> DEFINE Good == {k \in 0..n : f[k] \in K[k]}
<1>1. 0 \in Good
  OBVIOUS
<1>2. ASSUME NEW k \in 0..n, k # 0, k - 1 \in Good PROVE k \in Good
  <2>1. k \in 1..n /\ f[k - 1] \in K[k - 1]
    BY <1>2
  <2> QED
    BY <2>1 DEF Keeps, Follows
<1> HIDE DEF Good
<1>3. \A k \in 0..n : k \in Good
  BY <1>1, <1>2, Induction
<1> QED
  BY <1>3 DEF Good

(* The last part of a sequence of parts.                                   *)
LEMMA LastPart ==
  ASSUME NEW S, NEW v \in Seq(S), v # <<>>
  PROVE  Front(v) \in Seq(S) /\ Last(v) \in S /\ v = Append(Front(v), Last(v))
<1>1. Len(v) \in Nat /\ Len(v) # 0
  BY LenProperties, EmptySeq
<1>2. Len(v) \in 1..Len(v) /\ Len(v) - 1 \in 0..Len(v)
  BY <1>1
<1>3. /\ Prefix(v, Len(v)) = v /\ Prefix(v, Len(v) - 1) \in Seq(S) /\ v[Len(v)] \in S
      /\ Prefix(v, Len(v)) = Append(Prefix(v, Len(v) - 1), v[Len(v)])
  BY <1>2, PrefixIs
<1> QED
  BY <1>3 DEF Prefix, Front, Last

(* Extending the last part adds one item to the whole.                     *)
LEMMA ExtendedIs ==
  ASSUME NEW W, NEW v \in Seq(Seq(W)), v # <<>>, NEW x \in W
  PROVE  /\ Extended(v, x) \in Seq(Seq(W)) /\ Extended(v, x) # <<>>
         /\ FlattenSeq(Extended(v, x)) = Append(FlattenSeq(v), x)
<1> DEFINE S == Seq(W)
           a == Front(v)
           b == Last(v)
           one == <<x>>
<1>1. a \in Seq(S) /\ b \in S /\ v = Append(a, b)
  BY LastPart
<1>2. one \in S
  OBVIOUS
<1> HIDE DEF a, b
<1>3. FlattenSeq(a) \in S /\ FlattenSeq(v) = FlattenSeq(a) \o b
  BY <1>1, FlatTyped, FlatAppend
<1>4. Append(b, x) \in S /\ Append(b, x) = b \o one
  BY <1>1, AppendProperties, AppendIsConcat
<1>5. Extended(v, x) = Append(a, Append(b, x))
  BY DEF Extended, a, b
<1>6. /\ FlattenSeq(Append(a, Append(b, x))) = FlattenSeq(a) \o Append(b, x)
      /\ Append(a, Append(b, x)) \in Seq(S) /\ Append(a, Append(b, x)) # <<>>
  <2> DEFINE more == Append(b, x)
  <2>1. more \in S
    BY <1>4
  <2> HIDE DEF more
  <2>2. FlattenSeq(Append(a, more)) = FlattenSeq(a) \o more
    BY <1>1, <2>1, FlatAppend
  <2>3. Append(a, more) \in Seq(S) /\ Append(a, more) # <<>>
    <3> HIDE DEF S
    <3> QED
      BY <1>1, <2>1, AppendProperties
  <2> QED
    BY <2>2, <2>3 DEF more
<1>7. FlattenSeq(v) \in S
  BY FlatTyped
<1>8. Append(FlattenSeq(v), x) = FlattenSeq(v) \o one
  BY <1>7, AppendIsConcat
<1> HIDE DEF one
<1>9. (FlattenSeq(a) \o b) \o one = FlattenSeq(a) \o (b \o one)
  BY <1>1, <1>2, <1>3, ConcatAssociative
<1> QED
  BY <1>3, <1>4, <1>5, <1>6, <1>8, <1>9

(* A new part with one item.                                               *)
LEMMA OpenedIs ==
  ASSUME NEW W, NEW v \in Seq(Seq(W)), NEW x \in W
  PROVE  /\ Append(v, <<x>>) \in Seq(Seq(W)) /\ Append(v, <<x>>) # <<>>
         /\ FlattenSeq(Append(v, <<x>>)) = Append(FlattenSeq(v), x)
<1>1. <<x>> \in Seq(W) /\ FlattenSeq(v) \in Seq(W)
  BY FlatTyped
<1>2. FlattenSeq(Append(v, <<x>>)) = FlattenSeq(v) \o <<x>>
  BY <1>1, FlatAppend
<1>3. Append(FlattenSeq(v), x) = FlattenSeq(v) \o <<x>>
  BY <1>1, AppendIsConcat
<1> QED
  BY <1>1, <1>2, <1>3, AppendProperties

(* The sentences of the first i words, for every i.                         *)
SplitRun(f, text, W) ==
  /\ f[0] = <<>>
  /\ \A i \in 1..Len(text) : f[i] = AddWord(f[i - 1], text, i)
  /\ \A i \in 0..Len(text) : f[i] \in Seq(Seq(W)) /\ (i # 0 => f[i] # <<>>)

(* Sentences are gathered word by word, and are the text, cut.              *)
LEMMA SplitRuns ==
  ASSUME NEW W, NEW text \in Seq(W)
  PROVE  \E f : /\ SplitRun(f, text, W) /\ Split(text) = f[Len(text)]
                /\ FlattenSeq(Split(text)) = text
<1> DEFINE N == Len(text)
           K == [i \in 0..N |-> {v \in Seq(Seq(W)) : /\ i # 0 => v # <<>>
                                                     /\ FlattenSeq(v) = Prefix(text, i)}]
           Eq(f) == f = [i \in 0..N |-> IF i = 0 THEN <<>> ELSE AddWord(f[i - 1], text, i)]
           sentences == CHOOSE f : Eq(f)
           step == [i \in 1..N |-> [v \in K[i - 1] |-> AddWord(v, text, i)]]
<1>1. /\ N \in Nat /\ Prefix(text, 0) = <<>> /\ Prefix(text, N) = text
      /\ \A i \in 1..N : Prefix(text, i) = Append(Prefix(text, i - 1), text[i]) /\ text[i] \in W
  BY PrefixIs
<1>2. ASSUME NEW i \in 1..N, NEW v \in K[i - 1] PROVE AddWord(v, text, i) \in K[i]
  <2>1. i \in 0..N /\ i - 1 \in 0..N /\ i # 0
    BY <1>1
  <2>2. /\ v \in Seq(Seq(W)) /\ FlattenSeq(v) = Prefix(text, i - 1) /\ text[i] \in W
        /\ i > 1 => v # <<>>
    BY <1>1, <2>1
  <2>3. Prefix(text, i) = Append(FlattenSeq(v), text[i])
    BY <1>1, <2>2
  <2>4. CASE i > 1 /\ ~SentenceEnds(text, i - 1)
    <3>1. AddWord(v, text, i) = Extended(v, text[i])
      BY <2>4 DEF AddWord
    <3> QED
      BY <2>1, <2>2, <2>3, <2>4, <3>1, ExtendedIs
  <2>5. CASE ~(i > 1 /\ ~SentenceEnds(text, i - 1))
    <3>1. AddWord(v, text, i) = Append(v, <<text[i]>>)
      BY <2>5 DEF AddWord
    <3> DEFINE x == text[i]
    <3>2. x \in W
      BY <2>2
    <3> HIDE DEF x
    <3>3. /\ Append(v, <<x>>) \in Seq(Seq(W)) /\ Append(v, <<x>>) # <<>>
          /\ FlattenSeq(Append(v, <<x>>)) = Append(FlattenSeq(v), x)
      BY <2>2, <3>2, OpenedIs
    <3> QED
      BY <2>1, <2>3, <3>1, <3>3 DEF x
  <2> QED
    BY <2>4, <2>5
<1>3. <<>> \in K[0]
  BY <1>1, FlatEmpty, EmptySeq
<1>4. \A i \in 1..N : \A v \in K[i - 1] : step[i][v] = AddWord(v, text, i)
  OBVIOUS
<1>5. Split(text) = sentences[N]
  BY Zenon DEF Split
<1>6. \A v \in K[N] : v \in Seq(Seq(W)) /\ FlattenSeq(v) = text
  BY <1>1
<1> HIDE DEF K, step
<1>7. Keeps(step, K, N)
  BY <1>2, <1>4 DEF Keeps
<1>8. \E X : \E g \in [0..N -> X] : Along(g, N, <<>>, step, K)
  <2> DEFINE start == <<>>
  <2>1. start \in K[0]
    BY <1>3
  <2> HIDE DEF start
  <2>2. \E X : \E g \in [0..N -> X] : Along(g, N, start, step, K)
    BY <1>1, <1>7, <2>1, FoldExists
  <2> QED
    BY <2>2 DEF start
<1>9. \E g : Eq(g)
  <2> PICK X : \E g \in [0..N -> X] : Along(g, N, <<>>, step, K)
    BY <1>8
  <2> PICK g \in [0..N -> X] : Along(g, N, <<>>, step, K)
    OBVIOUS
  <2>1. \A i \in 0..N : i # 0 => i \in 1..N /\ i - 1 \in 0..N
    BY <1>1
  <2>2. \A i \in 0..N : g[i] = IF i = 0 THEN <<>> ELSE AddWord(g[i - 1], text, i)
    BY <1>4, <2>1 DEF Along
  <2>3. Eq(g)
    BY <2>2
  <2> QED
    BY <2>3
<1>10. Eq(sentences)
  BY <1>9
<1> HIDE DEF sentences
<1>11. \A i \in 0..N : sentences[i] = IF i = 0 THEN <<>> ELSE AddWord(sentences[i - 1], text, i)
  BY <1>10
<1>12. \A i \in 0..N : sentences[i] \in K[i]
  <2>1. \A i \in 1..N : i \in 0..N /\ i # 0
    BY <1>1
  <2>2. Follows(sentences, N, step, K)
    BY <1>4, <1>11, <2>1 DEF Follows
  <2>3. sentences[0] \in K[0]
    BY <1>1, <1>3, <1>11
  <2> QED
    BY <1>1, <1>7, <2>2, <2>3, FoldKept
<1>13. N \in 0..N
  BY <1>1
<1>14. \A i \in 0..N : sentences[i] \in Seq(Seq(W)) /\ (i # 0 => sentences[i] # <<>>)
  BY <1>12 DEF K
<1>15. 0 \in 0..N /\ \A i \in 1..N : i \in 0..N /\ i # 0
  BY <1>1
<1>16. SplitRun(sentences, text, W)
  BY <1>11, <1>14, <1>15 DEF SplitRun
<1>17. FlattenSeq(sentences[N]) = text
  BY <1>6, <1>12, <1>13
<1> QED
  BY <1>5, <1>16, <1>17

(* Sentences are the text, cut.                                            *)
LEMMA SplitIs ==
  ASSUME NEW W, NEW text \in Seq(W)
  PROVE  Split(text) \in Seq(Seq(W)) /\ FlattenSeq(Split(text)) = text
<1> DEFINE n == Len(text)
<1>1. PICK f : SplitRun(f, text, W) /\ Split(text) = f[n] /\ FlattenSeq(Split(text)) = text
  BY SplitRuns
<1>2. n \in 0..n
  BY LenProperties
<1>3. f[n] \in Seq(Seq(W))
  BY <1>1, <1>2 DEF SplitRun
<1> QED
  BY <1>1, <1>3

-----------------------------------------------------------------------------
(* Groups of alike sentences.                                              *)

(* The groups of the first i segments, for every i.                         *)
GroupsRun(f, segments, config, W) ==
  /\ f[0] = <<>>
  /\ \A i \in 1..Len(segments) : f[i] = AddSegment(f[i - 1], segments, i, config)
  /\ \A i \in 0..Len(segments) : f[i] \in Seq(Seq(W)) /\ (i # 0 => f[i] # <<>>)

(* Groups are gathered segment by segment, and are the segments, cut.       *)
LEMMA GroupsRuns ==
  ASSUME NEW W, NEW segments \in Seq(W), NEW config
  PROVE  \E f : /\ GroupsRun(f, segments, config, W) /\ Groups(segments, config) = f[Len(segments)]
                /\ FlattenSeq(Groups(segments, config)) = segments
<1> DEFINE N == Len(segments)
           K == [i \in 0..N |-> {v \in Seq(Seq(W)) : /\ i # 0 => v # <<>>
                                                     /\ FlattenSeq(v) = Prefix(segments, i)}]
           Eq(f) == f = [i \in 0..N |-> IF i = 0 THEN <<>> ELSE AddSegment(f[i - 1], segments, i, config)]
           groups == CHOOSE f : Eq(f)
           step == [i \in 1..N |-> [v \in K[i - 1] |-> AddSegment(v, segments, i, config)]]
<1>1. /\ N \in Nat /\ Prefix(segments, 0) = <<>> /\ Prefix(segments, N) = segments
      /\ \A i \in 1..N : Prefix(segments, i) = Append(Prefix(segments, i - 1), segments[i]) /\ segments[i] \in W
  BY PrefixIs
<1>2. ASSUME NEW i \in 1..N, NEW v \in K[i - 1] PROVE AddSegment(v, segments, i, config) \in K[i]
  <2>1. i \in 0..N /\ i - 1 \in 0..N /\ i # 0
    BY <1>1
  <2>2. /\ v \in Seq(Seq(W)) /\ FlattenSeq(v) = Prefix(segments, i - 1) /\ segments[i] \in W
    BY <1>1, <2>1
  <2>3. Prefix(segments, i) = Append(FlattenSeq(v), segments[i])
    BY <1>1, <2>2
  <2>4. CASE v # <<>> /\ AddSegment(v, segments, i, config) = Extended(v, segments[i])
    BY <2>1, <2>2, <2>3, <2>4, ExtendedIs
  <2>5. CASE AddSegment(v, segments, i, config) = Append(v, <<segments[i]>>)
    <3> DEFINE x == segments[i]
    <3>2. x \in W
      BY <2>2
    <3> HIDE DEF x
    <3>3. /\ Append(v, <<x>>) \in Seq(Seq(W)) /\ Append(v, <<x>>) # <<>>
          /\ FlattenSeq(Append(v, <<x>>)) = Append(FlattenSeq(v), x)
      BY <2>2, <3>2, OpenedIs
    <3> QED
      BY <2>1, <2>3, <2>5, <3>3 DEF x
  <2>6. \/ v # <<>> /\ AddSegment(v, segments, i, config) = Extended(v, segments[i])
        \/ AddSegment(v, segments, i, config) = Append(v, <<segments[i]>>)
    BY DEF AddSegment
  <2> QED
    BY <2>4, <2>5, <2>6
<1>3. <<>> \in K[0]
  BY <1>1, FlatEmpty, EmptySeq
<1>4. \A i \in 1..N : \A v \in K[i - 1] : step[i][v] = AddSegment(v, segments, i, config)
  OBVIOUS
<1>5. Groups(segments, config) = groups[N]
  BY Zenon DEF Groups
<1>6. \A v \in K[N] : v \in Seq(Seq(W)) /\ FlattenSeq(v) = segments
  BY <1>1
<1> HIDE DEF K, step
<1>7. Keeps(step, K, N)
  BY <1>2, <1>4 DEF Keeps
<1>8. \E X : \E g \in [0..N -> X] : Along(g, N, <<>>, step, K)
  <2> DEFINE start == <<>>
  <2>1. start \in K[0]
    BY <1>3
  <2> HIDE DEF start
  <2>2. \E X : \E g \in [0..N -> X] : Along(g, N, start, step, K)
    BY <1>1, <1>7, <2>1, FoldExists
  <2> QED
    BY <2>2 DEF start
<1>9. \E g : Eq(g)
  <2> PICK X : \E g \in [0..N -> X] : Along(g, N, <<>>, step, K)
    BY <1>8
  <2> PICK g \in [0..N -> X] : Along(g, N, <<>>, step, K)
    OBVIOUS
  <2>1. \A i \in 0..N : i # 0 => i \in 1..N /\ i - 1 \in 0..N
    BY <1>1
  <2>2. \A i \in 0..N : g[i] = IF i = 0 THEN <<>> ELSE AddSegment(g[i - 1], segments, i, config)
    BY <1>4, <2>1 DEF Along
  <2>3. Eq(g)
    BY <2>2
  <2> QED
    BY <2>3
<1>10. Eq(groups)
  BY <1>9
<1> HIDE DEF groups
<1>11. \A i \in 0..N : groups[i] = IF i = 0 THEN <<>> ELSE AddSegment(groups[i - 1], segments, i, config)
  BY <1>10
<1>12. \A i \in 0..N : groups[i] \in K[i]
  <2>1. \A i \in 1..N : i \in 0..N /\ i # 0
    BY <1>1
  <2>2. Follows(groups, N, step, K)
    BY <1>4, <1>11, <2>1 DEF Follows
  <2>3. groups[0] \in K[0]
    BY <1>1, <1>3, <1>11
  <2> QED
    BY <1>1, <1>7, <2>2, <2>3, FoldKept
<1>13. N \in 0..N
  BY <1>1
<1>14. \A i \in 0..N : groups[i] \in Seq(Seq(W)) /\ (i # 0 => groups[i] # <<>>)
  BY <1>12 DEF K
<1>15. 0 \in 0..N /\ \A i \in 1..N : i \in 0..N /\ i # 0
  BY <1>1
<1>16. GroupsRun(groups, segments, config, W)
  BY <1>11, <1>14, <1>15 DEF GroupsRun
<1>17. FlattenSeq(groups[N]) = segments
  BY <1>6, <1>12, <1>13
<1> QED
  BY <1>5, <1>16, <1>17

(* Groups are the segments, gathered.                                      *)
LEMMA GroupsIs ==
  ASSUME NEW W, NEW segments \in Seq(W), NEW config
  PROVE  Groups(segments, config) \in Seq(Seq(W)) /\ FlattenSeq(Groups(segments, config)) = segments
<1> DEFINE n == Len(segments)
<1>1. PICK f : /\ GroupsRun(f, segments, config, W) /\ Groups(segments, config) = f[n]
               /\ FlattenSeq(Groups(segments, config)) = segments
  BY GroupsRuns
<1>2. n \in 0..n
  BY LenProperties
<1>3. f[n] \in Seq(Seq(W))
  BY <1>1, <1>2 DEF GroupsRun
<1> QED
  BY <1>1, <1>3

(* Elements whose rows are words of W.                                     *)
Worded(units, W) ==
  Sequence(units) /\ \A u \in 1..Len(units) : units[u].rows \in Seq(Seq(W))

UnitTexts(units) == [u \in DOMAIN units |-> Text(units[u].rows)]

(* The texts of units, by place.                                           *)
LEMMA TextsAre ==
  ASSUME NEW W, NEW units, Worded(units, W)
  PROVE  /\ UnitTexts(units) \in Seq(Seq(W)) /\ Len(UnitTexts(units)) = Len(units)
         /\ Len(units) \in Nat /\ DOMAIN units = 1..Len(units)
         /\ \A u \in 1..Len(units) : UnitTexts(units)[u] = Text(units[u].rows)
                                     /\ Text(units[u].rows) \in Seq(W)
<1>1. Len(units) \in Nat /\ DOMAIN units = 1..Len(units)
  BY SequenceIs DEF Worded
<1>2. \A u \in 1..Len(units) : Text(units[u].rows) \in Seq(W)
  BY FlatTyped DEF Worded, Text
<1> DEFINE q == UnitTexts(units)
<1>3. q = [u \in 1..Len(units) |-> Text(units[u].rows)]
  BY <1>1 DEF UnitTexts
<1>4. q = [u \in 1..Len(units) |-> q[u]] /\ \A u \in 1..Len(units) : q[u] = Text(units[u].rows)
  BY <1>3
<1> HIDE DEF q
<1>5. Sequence(q) /\ Len(q) = Len(units)
  BY <1>1, <1>4, IsSequence
<1>6. q \in Seq(Seq(W))
  <2>1. \A u \in 1..Len(q) : q[u] \in Seq(W)
    BY <1>2, <1>4, <1>5
  <2> QED
    BY <1>5, <2>1, ItemsOf
<1> QED
  BY <1>1, <1>2, <1>4, <1>5, <1>6 DEF q

(* The sentences of a unit as segments.                                    *)
LEMMA SentencesAre ==
  ASSUME NEW W, NEW text \in Seq(W), NEW domain, NEW config
  PROVE  /\ Sentences(text, domain, config) \in Seq(Seq(W))
         /\ FlattenSeq(Sentences(text, domain, config)) = text
<1>1. CASE Sentences(text, domain, config) = Split(text)
  BY <1>1, SplitIs
<1>2. CASE Sentences(text, domain, config) = <<text>>
  <2> DEFINE none == <<>>
  <2>1. none \in Seq(Seq(W)) /\ FlattenSeq(none) = <<>>
    BY FlatEmpty
  <2>2. Append(none, text) = <<text>> /\ <<text>> \in Seq(Seq(W))
    OBVIOUS
  <2>3. <<>> \o text = text
    BY ConcatEmptySeq
  <2> HIDE DEF none
  <2>4. FlattenSeq(Append(none, text)) = FlattenSeq(none) \o text
    BY <2>1, FlatAppend
  <2> QED
    BY <1>2, <2>1, <2>2, <2>3, <2>4
<1> QED
  BY <1>1, <1>2 DEF Sentences

Segment(W, A, B) == [text : Seq(W), source : A, page : B]
TextOf(D) == [s \in D |-> s.text]

(* Segments have texts.                                                    *)
LEMMA TextMaps ==
  ASSUME NEW W, NEW A, NEW B
  PROVE  Maps(TextOf(Segment(W, A, B)), Segment(W, A, B), Seq(W))
<1>1. \A s \in Segment(W, A, B) : s.text \in Seq(W)
  BY DEF Segment
<1> QED
  BY <1>1 DEF Maps, TextOf

From(unit, A, B) == unit.source \in A /\ unit.page \in B

(* The segments of a unit are its sentences.                               *)
LEMMA SegmentsOfAre ==
  ASSUME NEW W, NEW A, NEW B, NEW unit, From(unit, A, B),
         NEW sentences \in Seq(Seq(W))
  PROVE  /\ SegmentsOf(unit, sentences) \in Seq(Segment(W, A, B))
         /\ Applied(TextOf(Segment(W, A, B)), SegmentsOf(unit, sentences)) = sentences
<1> DEFINE q == SegmentsOf(unit, sentences)
           D == Segment(W, A, B)
           N == Len(sentences)
           t == Applied(TextOf(D), q)
<1>1. /\ N \in Nat /\ DOMAIN sentences = 1..N /\ \A k \in 1..N : sentences[k] \in Seq(W)
      /\ sentences = [k \in 1..N |-> sentences[k]]
  BY LenProperties, ElementOfSeq
<1>2. q = [k \in 1..N |-> [text |-> sentences[k], source |-> unit.source, page |-> unit.page]]
  BY <1>1 DEF SegmentsOf
<1>3. ASSUME NEW k \in 1..N PROVE q[k] \in D /\ q[k].text = sentences[k]
  BY <1>1, <1>2 DEF Segment, From
<1>4. q = [k \in 1..N |-> q[k]]
  BY <1>2
<1> HIDE DEF q, D
<1>5. Sequence(q) /\ Len(q) = N
  BY <1>1, <1>4, IsSequence
<1>6. q \in Seq(D)
  BY <1>3, <1>5, ItemsOf
<1>7. Maps(TextOf(D), D, Seq(W))
  BY TextMaps DEF D
<1>8. /\ t \in Seq(Seq(W)) /\ Len(t) = Len(q)
      /\ \A k \in 1..Len(q) : t[k] = TextOf(D)[q[k]] /\ q[k] \in D
  BY <1>6, <1>7, AppliedIs
<1> HIDE DEF t
<1>9. \A k \in 1..N : t[k] = sentences[k]
  BY <1>3, <1>5, <1>8 DEF TextOf
<1>10. Len(t) = Len(sentences) /\ \A k \in 1..Len(t) : t[k] = sentences[k]
  BY <1>5, <1>8, <1>9
<1>11. t = sentences
  BY <1>8, <1>10, SeqEqual
<1> QED
  BY <1>6, <1>11 DEF q, D, t

(* A sequence from what its places hold.                                   *)
LEMMA Listed ==
  ASSUME NEW T, NEW n \in Nat, NEW s, s = [i \in 1..n |-> s[i]], \A i \in 1..n : s[i] \in T
  PROVE  s \in Seq(T) /\ Len(s) = n
<1>1. Sequence(s) /\ Len(s) = n
  BY IsSequence
<1> QED
  BY <1>1, ItemsOf

(* The words of the segments of a block are those of its units.            *)
LEMMA SegmentsAre ==
  ASSUME NEW W, NEW units, Worded(units, W), NEW domain, NEW config
  PROVE  \E A, B : /\ Segments(units, domain, config) \in Seq(Segment(W, A, B))
                   /\ FlattenSeq(Applied(TextOf(Segment(W, A, B)), Segments(units, domain, config)))
                        = FlattenSeq(UnitTexts(units))
<1> DEFINE N == Len(units)
           A == {units[u].source : u \in 1..N}
           B == {units[u].page : u \in 1..N}
           D == Segment(W, A, B)
           said(u) == Sentences(Text(units[u].rows), domain, config)
           css == [u \in DOMAIN units |-> SegmentsOf(units[u], said(u))]
           q == UnitTexts(units)
<1>1. /\ q \in Seq(Seq(W)) /\ Len(q) = N /\ N \in Nat /\ DOMAIN units = 1..N
      /\ \A u \in 1..N : q[u] = Text(units[u].rows) /\ Text(units[u].rows) \in Seq(W)
  BY TextsAre
<1>2. \A u \in 1..N : said(u) \in Seq(Seq(W)) /\ FlattenSeq(said(u)) = q[u]
  BY <1>1, SentencesAre
<1>3. \A u \in 1..N : units[u].source \in A /\ units[u].page \in B
  OBVIOUS
<1>4. css = [u \in 1..N |-> css[u]] /\ \A u \in 1..N : css[u] = SegmentsOf(units[u], said(u))
  BY <1>1
<1>5. Segments(units, domain, config) = FlattenSeq(css)
  BY DEF Segments
<1> HIDE DEF css, q, A, B, said, N
<1>6. ASSUME NEW u \in 1..N
      PROVE  css[u] \in Seq(D) /\ Applied(TextOf(D), css[u]) = said(u)
  <2>1. SegmentsOf(units[u], said(u)) \in Seq(D)
        /\ Applied(TextOf(D), SegmentsOf(units[u], said(u))) = said(u)
    <3> DEFINE unit == units[u]
               s == said(u)
    <3>1. s \in Seq(Seq(W)) /\ From(unit, A, B)
      BY <1>2, <1>3 DEF From
    <3> HIDE DEF unit, s
    <3>2. /\ SegmentsOf(unit, s) \in Seq(Segment(W, A, B))
          /\ Applied(TextOf(Segment(W, A, B)), SegmentsOf(unit, s)) = s
      BY <3>1, SegmentsOfAre
    <3> QED
      BY <3>2 DEF unit, s
  <2> QED
    BY <1>4, <2>1
<1> HIDE DEF D
<1>7. css \in Seq(Seq(D)) /\ Len(css) = N
  <2> DEFINE S == Seq(D)
  <2>1. \A u \in 1..N : css[u] \in S
    BY <1>6
  <2> HIDE DEF S
  <2>2. css \in Seq(S) /\ Len(css) = N
    BY <1>1, <1>4, <2>1, Listed
  <2> QED
    BY <2>2 DEF S
<1>8. Maps(TextOf(D), D, Seq(W))
  BY TextMaps DEF D
<1>9. FlattenSeq(Applied(TextOf(D), FlattenSeq(css))) = FlattenSeq(q)
  <2>1. Sequence(q) /\ Len(q) = Len(css)
    BY <1>1, <1>7, Items
  <2>2. \A u \in 1..Len(css) : q[u] = FlattenSeq(Applied(TextOf(D), css[u]))
    BY <1>2, <1>6, <1>7
  <2> DEFINE g == TextOf(D)
  <2>3. Maps(g, D, Seq(W)) /\ \A u \in 1..Len(css) : q[u] = FlattenSeq(Applied(g, css[u]))
    BY <1>8, <2>2
  <2> HIDE DEF g
  <2>4. FlattenSeq(Applied(g, FlattenSeq(css))) = FlattenSeq(q)
    BY <1>7, <2>1, <2>3, FlatByParts
  <2> QED
    BY <2>4 DEF g
<1>10. FlattenSeq(css) \in Seq(D)
  BY <1>7, FlatTyped
<1> QED
  BY <1>5, <1>9, <1>10 DEF D, q

(* The words of a group are those of its segments.                         *)
LEMMA WordsInIs ==
  ASSUME NEW W, NEW A, NEW B, NEW segments \in Seq(Segment(W, A, B))
  PROVE  /\ WordsIn(segments) = FlattenSeq(Applied(TextOf(Segment(W, A, B)), segments))
         /\ WordsIn(segments) \in Seq(W)
<1> DEFINE D == Segment(W, A, B)
           g == TextOf(D)
           N == Len(segments)
           q == [k \in DOMAIN segments |-> segments[k].text]
<1>1. N \in Nat /\ DOMAIN segments = 1..N /\ \A k \in 1..N : segments[k] \in D
  BY LenProperties, ElementOfSeq
<1>2. q = [k \in 1..N |-> g[segments[k]]]
  BY <1>1 DEF TextOf
<1>3. Applied(g, segments) = [k \in 1..N |-> g[segments[k]]]
  BY <1>1 DEF Applied
<1>4. WordsIn(segments) = FlattenSeq(q)
  BY DEF WordsIn
<1> HIDE DEF q
<1>5. q = Applied(g, segments)
  BY <1>2, <1>3
<1>6. Maps(g, D, Seq(W))
  BY TextMaps
<1> HIDE DEF g, D
<1>7. segments \in Seq(D)
  BY DEF D
<1>8. Applied(g, segments) \in Seq(Seq(W))
  <2> DEFINE V == Seq(W)
  <2>1. Maps(g, D, V)
    BY <1>6
  <2> HIDE DEF V
  <2>2. Applied(g, segments) \in Seq(V)
    BY <1>7, <2>1, AppliedIs
  <2> QED
    BY <2>2 DEF V
<1>9. FlattenSeq(Applied(g, segments)) \in Seq(W)
  BY <1>8, FlatTyped
<1> QED
  BY <1>4, <1>5, <1>9 DEF g, D

(* What a chunk holds beyond a repeated header, head, or an overlap.        *)
OwnWords(chunk, head) ==
  SubSeq(chunk.text, 1 + IF chunk.repeated THEN Len(head) ELSE chunk.overlap, Len(chunk.text))

Owned(cs, head) == [k \in DOMAIN cs |-> OwnWords(cs[k], head)]

(* The chunks hold the text, once.                                         *)
Hold(cs, head, text, W) ==
  /\ Sequence(cs)
  /\ \A k \in 1..Len(cs) : OwnWords(cs[k], head) \in Seq(W)
  /\ FlattenSeq(Owned(cs, head)) = text

(* Chunks hold a text when what each has of its own is a part of it.       *)
LEMMA Holding ==
  ASSUME NEW W, NEW cs, Sequence(cs), NEW head, NEW text,
         NEW q \in Seq(Seq(W)), Len(q) = Len(cs), FlattenSeq(q) = text,
         \A k \in 1..Len(cs) : OwnWords(cs[k], head) = q[k]
  PROVE  Hold(cs, head, text, W)
<1> DEFINE o == Owned(cs, head)
<1>1. Len(cs) \in Nat /\ DOMAIN cs = 1..Len(cs)
  BY SequenceIs
<1>2. DOMAIN q = 1..Len(q) /\ q = [k \in 1..Len(q) |-> q[k]] /\ \A k \in 1..Len(q) : q[k] \in Seq(W)
  BY LenProperties, ElementOfSeq
<1>3. o = [k \in 1..Len(cs) |-> OwnWords(cs[k], head)]
  BY <1>1 DEF Owned
<1> HIDE DEF o
<1>4. o = q
  BY <1>2, <1>3
<1>5. \A k \in 1..Len(cs) : OwnWords(cs[k], head) \in Seq(W)
  BY <1>2
<1> QED
  BY <1>4, <1>5 DEF Hold, o

(* A chunk without overlap or repeated header is all its own.              *)
LEMMA AllOwned ==
  ASSUME NEW W, NEW chunk, chunk.text \in Seq(W), chunk.overlap = 0, ~chunk.repeated, NEW head
  PROVE  OwnWords(chunk, head) = chunk.text
<1> DEFINE s == chunk.text
<1>1. OwnWords(chunk, head) = SubSeq(s, 1, Len(s))
  BY DEF OwnWords
<1>2. Prefix(s, Len(s)) = s
  <2> s \in Seq(W)
    OBVIOUS
  <2> HIDE DEF s
  <2> QED
    BY PrefixIs
<1> QED
  BY <1>1, <1>2 DEF Prefix

(* Chunks of a block: no rows, no repeated header.                         *)
Unrowed(cs) == \A k \in 1..Len(cs) : cs[k].rows = <<>> /\ cs[k].repeated = FALSE

(* Groups of similar sentences hold the words of their block.               *)
LEMMA SegmentChunksHold ==
  ASSUME NEW W, NEW units, Worded(units, W), NEW domain, NEW config, NEW head
  PROVE  /\ Hold(SegmentChunks(units, domain, config), head, FlattenSeq(UnitTexts(units)), W)
         /\ Unrowed(SegmentChunks(units, domain, config))
<1> DEFINE segments == Segments(units, domain, config)
           text == FlattenSeq(UnitTexts(units))
<1>1. PICK A, B : /\ segments \in Seq(Segment(W, A, B))
                  /\ FlattenSeq(Applied(TextOf(Segment(W, A, B)), segments)) = text
  BY SegmentsAre
<1> HIDE DEF segments, text
<1> DEFINE D == Segment(W, A, B)
           g == TextOf(D)
           groups == Groups(segments, config)
           cs == GroupsToChunks(groups, config)
           N == Len(groups)
           q == [k \in 1..N |-> WordsIn(groups[k])]
<1>2. groups \in Seq(Seq(D)) /\ FlattenSeq(groups) = segments
  <2>1. segments \in Seq(D)
    BY <1>1
  <2> HIDE DEF D
  <2> QED
    BY <2>1, GroupsIs
<1>3. SegmentChunks(units, domain, config) = cs
  BY DEF SegmentChunks, ChunkSegments, segments
<1> HIDE DEF groups
<1>4. N \in Nat /\ DOMAIN groups = 1..N /\ \A k \in 1..N : groups[k] \in Seq(D)
  <2> DEFINE S == Seq(D)
  <2>1. groups \in Seq(S)
    BY <1>2
  <2> HIDE DEF S
  <2>2. N \in Nat /\ DOMAIN groups = 1..N /\ \A k \in 1..N : groups[k] \in S
    BY <2>1, LenProperties, ElementOfSeq
  <2> QED
    BY <2>2 DEF S
<1>5. \A k \in 1..N : WordsIn(groups[k]) = FlattenSeq(Applied(g, groups[k])) /\ WordsIn(groups[k]) \in Seq(W)
  <2> SUFFICES ASSUME NEW k \in 1..N
               PROVE  WordsIn(groups[k]) = FlattenSeq(Applied(g, groups[k])) /\ WordsIn(groups[k]) \in Seq(W)
    OBVIOUS
  <2> DEFINE s == groups[k]
  <2>1. s \in Seq(Segment(W, A, B))
    BY <1>4
  <2> HIDE DEF s
  <2>2. WordsIn(s) = FlattenSeq(Applied(TextOf(Segment(W, A, B)), s)) /\ WordsIn(s) \in Seq(W)
    BY <2>1, WordsInIs
  <2> QED
    BY <2>2 DEF s
<1>6. /\ cs = [k \in 1..N |-> cs[k]]
      /\ \A k \in 1..N : cs[k] = GroupOf(groups[k], q[k], config)
      /\ q = [k \in 1..N |-> q[k]] /\ \A k \in 1..N : q[k] = WordsIn(groups[k])
  BY <1>4 DEF GroupsToChunks
<1>7. q \in Seq(Seq(W)) /\ Len(q) = N
  <2> DEFINE S == Seq(W)
  <2>1. \A k \in 1..N : q[k] \in S
    BY <1>5
  <2> HIDE DEF S, q
  <2>2. q \in Seq(S) /\ Len(q) = N
    BY <1>4, <1>6, <2>1, Listed
  <2> QED
    BY <2>2 DEF S
<1> HIDE DEF cs, q
<1>8. Sequence(cs) /\ Len(cs) = N
  BY <1>4, <1>6, IsSequence
<1>9. FlattenSeq(q) = text
  <2>1. Maps(g, D, Seq(W))
    BY TextMaps
  <2>2. \A k \in 1..Len(groups) : q[k] = FlattenSeq(Applied(g, groups[k]))
    BY <1>5, <1>6
  <2>3. FlattenSeq(Applied(g, segments)) = text
    BY <1>1
  <2> HIDE DEF g, D
  <2>4. Sequence(q) /\ Len(q) = Len(groups)
    BY <1>7, Items
  <2>5. FlattenSeq(Applied(g, FlattenSeq(groups))) = FlattenSeq(q)
    BY <1>2, <2>1, <2>2, <2>4, FlatByParts
  <2> QED
    BY <1>2, <2>3, <2>5
<1>10. ASSUME NEW k \in 1..N PROVE OwnWords(cs[k], head) = q[k] /\ cs[k].rows = <<>> /\ cs[k].repeated = FALSE
  <2> DEFINE chunk == GroupOf(groups[k], q[k], config)
  <2>1. chunk.text = q[k] /\ chunk.overlap = 0 /\ ~chunk.repeated /\ q[k] \in Seq(W)
        /\ chunk.rows = <<>> /\ chunk.repeated = FALSE
    <3> DEFINE group == groups[k]
               words == q[k]
    <3>1. words \in Seq(W)
      BY <1>5, <1>6
    <3> HIDE DEF group, words
    <3>2. /\ GroupOf(group, words, config).text = words
          /\ GroupOf(group, words, config).overlap = 0
          /\ GroupOf(group, words, config).repeated = FALSE
          /\ GroupOf(group, words, config).rows = <<>>
      BY DEF GroupOf, Chunk
    <3> QED
      BY <3>1, <3>2 DEF group, words
  <2>2. cs[k] = chunk
    BY <1>6
  <2> HIDE DEF chunk
  <2>3. OwnWords(chunk, head) = chunk.text
    BY <2>1, AllOwned
  <2> QED
    BY <2>1, <2>2, <2>3
<1>11. Hold(cs, head, text, W)
  BY <1>7, <1>8, <1>9, <1>10, Holding
<1>12. Unrowed(cs)
  BY <1>8, <1>10 DEF Unrowed
<1> QED
  BY <1>3, <1>11, <1>12 DEF text

-----------------------------------------------------------------------------
(* Tables.                                                                 *)

(* The first part and the others.                                          *)
LEMMA FlatTail ==
  ASSUME NEW T, NEW s \in Seq(Seq(T)), s # <<>>
  PROVE  /\ Tail(s) \in Seq(Seq(T)) /\ s[1] \in Seq(T)
         /\ Len(Tail(s)) = Len(s) - 1 /\ \A i \in 1..(Len(s) - 1) : Tail(s)[i] = s[i + 1]
         /\ Len(s) \in Nat /\ Len(s) >= 1
         /\ FlattenSeq(s) = s[1] \o FlattenSeq(Tail(s))
<1> DEFINE S == Seq(T)
           t == Tail(s)
           x == s[1]
           one == <<x>>
           none == <<>>
<1>1. Sequence(s) /\ \A i \in 1..Len(s) : s[i] \in S
  BY Items
<1>2. /\ Sequence(t) /\ Len(t) = Len(s) - 1 /\ Len(s) >= 1 /\ Len(s) \in Nat
      /\ \A i \in 1..(Len(s) - 1) : t[i] = s[i + 1]
  BY <1>1, TailIs, SequenceIs
<1>3. x \in S /\ \A i \in 1..Len(t) : t[i] \in S
  <2>1. 1 \in 1..Len(s) /\ \A i \in 1..Len(t) : i + 1 \in 1..Len(s) /\ i \in 1..(Len(s) - 1)
    BY <1>2
  <2> QED
    BY <1>1, <1>2, <2>1
<1> HIDE DEF S, t, x
<1>4. t \in Seq(S)
  BY <1>2, <1>3, ItemsOf
<1>5. one \in Seq(S) /\ Len(one) = 1 /\ one[1] = x
  BY <1>3
<1> HIDE DEF one
<1>6. s = one \o t
  <2>1. /\ one \o t \in Seq(S) /\ Len(one \o t) = 1 + Len(t)
        /\ \A i \in 1..(1 + Len(t)) : (one \o t)[i] = IF i <= 1 THEN one[i] ELSE t[i - 1]
    <3>1. /\ one \o t \in Seq(S) /\ Len(one \o t) = Len(one) + Len(t)
          /\ \A i \in 1..(Len(one) + Len(t)) :
               (one \o t)[i] = IF i <= Len(one) THEN one[i] ELSE t[i - Len(one)]
      BY <1>4, <1>5, ConcatProperties
    <3> QED
      BY <1>5, <3>1
  <2>2. ASSUME NEW i \in 1..Len(s) PROVE (one \o t)[i] = s[i]
    <3>1. CASE i = 1
      <4>1. 1 \in 1..(1 + Len(t)) /\ (1 <= 1)
        BY <1>2
      <4> QED
        BY <1>5, <2>1, <3>1, <4>1 DEF x
    <3>2. CASE i # 1
      <4>1. i \in 1..(1 + Len(t)) /\ ~(i <= 1) /\ i - 1 \in 1..(Len(s) - 1) /\ (i - 1) + 1 = i
        BY <1>2, <3>2
      <4> QED
        BY <1>2, <2>1, <4>1
    <3> QED
      BY <3>1, <3>2
  <2>3. s \in Seq(S) /\ Len(one \o t) = Len(s)
    BY <1>2, <2>1 DEF S
  <2> QED
    BY <2>1, <2>2, <2>3, SeqEqual
<1>7. FlattenSeq(one) = x
  <2>1. none \in Seq(S) /\ FlattenSeq(none) = none
    BY FlatEmpty
  <2>2. one = Append(none, x)
    BY DEF one
  <2>3. none \o x = x
    BY <1>3, ConcatEmptySeq DEF S
  <2> HIDE DEF none
  <2>4. FlattenSeq(Append(none, x)) = FlattenSeq(none) \o x
    BY <1>3, <2>1, FlatAppend DEF S
  <2> QED
    BY <2>1, <2>2, <2>3, <2>4
<1>8. FlattenSeq(one \o t) = FlattenSeq(one) \o FlattenSeq(t)
  BY <1>4, <1>5, FlatConcat DEF S
<1>9. t \in Seq(S) /\ x \in S /\ FlattenSeq(s) = x \o FlattenSeq(t)
  BY <1>3, <1>4, <1>6, <1>7, <1>8
<1> QED
  BY <1>2, <1>9 DEF S, t, x

(* The places of the data rows of a table.                                  *)
DataRows(rows) == [i \in 1..(Len(rows) - 1) |-> i + 1]

(* What the groups of the first n data rows are.                           *)
Gathered(rows, n) ==
  {c \in [groups : Seq(Seq(2..Len(rows))), current : Seq(2..Len(rows))] :
     /\ n # 0 => c.current # <<>>
     /\ \A g \in 1..Len(c.groups) : c.groups[g] # <<>>
     /\ FlattenSeq(Append(c.groups, c.current)) = Prefix(DataRows(rows), n)}

(* The numbers of the data rows.                                           *)
LEMMA DataRowsAre ==
  ASSUME NEW rows, Len(rows) \in Nat, Len(rows) >= 1
  PROVE  /\ DataRows(rows) \in Seq(2..Len(rows)) /\ Len(DataRows(rows)) = Len(rows) - 1
         /\ \A i \in 1..(Len(rows) - 1) : DataRows(rows)[i] = i + 1
<1> DEFINE q == DataRows(rows)
           n == Len(rows) - 1
<1>1. n \in Nat /\ q = [i \in 1..n |-> q[i]] /\ \A i \in 1..n : q[i] = i + 1
  BY DEF DataRows
<1>2. \A i \in 1..n : q[i] \in 2..Len(rows)
  BY <1>1
<1> HIDE DEF q
<1>3. q \in Seq(2..Len(rows)) /\ Len(q) = n
  BY <1>1, <1>2, Listed
<1> QED
  BY <1>1, <1>3 DEF q

(* A row more, in the group that is open or in a new one.                  *)
LEMMA AddRowGathers ==
  ASSUME NEW rows, Len(rows) \in Nat, Len(rows) >= 1, NEW config,
         NEW n \in 1..(Len(rows) - 1), NEW c \in Gathered(rows, n - 1)
  PROVE  AddRow(c, rows, n + 1, config) \in Gathered(rows, n)
<1> DEFINE R == 2..Len(rows)
           S == Seq(R)
           r == n + 1
           one == <<r>>
           groups == c.groups
           current == c.current
           before == Append(groups, current)
           d == AddRow(c, rows, r, config)
           more == Append(current, r)
<1>1. /\ groups \in Seq(S) /\ current \in S /\ c = [groups |-> groups, current |-> current]
      /\ n - 1 # 0 => current # <<>>
      /\ \A g \in 1..Len(groups) : groups[g] # <<>>
      /\ FlattenSeq(before) = Prefix(DataRows(rows), n - 1)
  BY DEF Gathered
<1>2. r \in R /\ n # 0 /\ n \in 1..Len(DataRows(rows))
  BY DataRowsAre
<1>3. Prefix(DataRows(rows), n) = Append(Prefix(DataRows(rows), n - 1), r)
  <2> DEFINE q == DataRows(rows)
  <2>1. q \in Seq(R) /\ Len(q) = Len(rows) - 1 /\ q[n] = n + 1
    BY DataRowsAre
  <2> HIDE DEF q, R
  <2>2. Prefix(q, n) = Append(Prefix(q, n - 1), q[n])
    BY <1>2, <2>1, PrefixIs
  <2> QED
    BY <2>1, <2>2 DEF q
<1>4. \/ d = [groups |-> before, current |-> one] /\ current # <<>>
      \/ d = [groups |-> groups, current |-> more]
  BY <1>1 DEF AddRow
<1> HIDE DEF R, r, d
<1>5. one \in S /\ one # <<>> /\ more \in S /\ more # <<>> /\ more = current \o one
      /\ before \in Seq(S)
  BY <1>1, <1>2, AppendProperties, AppendIsConcat
<1> HIDE DEF groups, current, one, more
<1>6. FlattenSeq(before) \in S /\ FlattenSeq(groups) \in S
      /\ FlattenSeq(before) = FlattenSeq(groups) \o current
  BY <1>1, <1>5, FlatTyped, FlatAppend
<1>7. FlattenSeq(before) \o one = Prefix(DataRows(rows), n)
  BY <1>1, <1>3, <1>6, AppendIsConcat, <1>2 DEF one
<1>8. CASE d = [groups |-> before, current |-> one] /\ current # <<>>
  <2>1. FlattenSeq(Append(before, one)) = FlattenSeq(before) \o one
    BY <1>5, FlatAppend
  <2>2. \A g \in 1..Len(before) : before[g] # <<>>
    <3> HIDE DEF S
    <3>1. /\ Len(before) = Len(groups) + 1 /\ before[Len(groups) + 1] = current
          /\ \A g \in 1..Len(groups) : before[g] = groups[g]
      BY <1>1, AppendProperties
    <3>2. Len(groups) \in Nat
      BY <1>1, LenProperties
    <3>3. \A g \in 1..Len(before) : g \in 1..Len(groups) \/ g = Len(groups) + 1
      BY <3>1, <3>2
    <3> QED
      BY <1>1, <1>8, <3>1, <3>3
  <2> HIDE DEF before
  <2> QED
    BY <1>2, <1>5, <1>7, <1>8, <2>1, <2>2, SMTT(60) DEF Gathered, d, S, R, r
<1>9. CASE d = [groups |-> groups, current |-> more]
  <2>1. FlattenSeq(Append(groups, more)) = FlattenSeq(groups) \o more
    BY <1>1, <1>5, FlatAppend
  <2>2. (FlattenSeq(groups) \o current) \o one = FlattenSeq(groups) \o (current \o one)
    <3>1. FlattenSeq(groups) \in Seq(R) /\ current \in Seq(R) /\ one \in Seq(R)
      BY <1>1, <1>5, <1>6
    <3> HIDE DEF S
    <3> QED
      BY <3>1, ConcatAssociative, SMTT(60)
  <2>3. FlattenSeq(Append(groups, more)) = Prefix(DataRows(rows), n)
    BY <1>5, <1>6, <1>7, <2>1, <2>2
  <2>4. /\ groups \in Seq(S) /\ more \in S /\ more # <<>>
        /\ \A g \in 1..Len(groups) : groups[g] # <<>>
    BY <1>1, <1>5
  <2> HIDE DEF before
  <2> QED
    BY <1>9, <2>3, <2>4 DEF Gathered, d, S, R, r
<1> QED
  BY <1>4, <1>8, <1>9

(* The groups of the first n data rows, for every n.                        *)
RowsRun(f, rows, config) ==
  /\ f[0] = [groups |-> <<>>, current |-> <<>>]
  /\ \A n \in 1..(Len(rows) - 1) : f[n] = AddRow(f[n - 1], rows, n + 1, config)
  /\ \A n \in 0..(Len(rows) - 1) : f[n] \in Gathered(rows, n)

(* The groups of rows are gathered row by row, and are the data rows, cut.  *)
LEMMA RowGroupsRuns ==
  ASSUME NEW rows, Len(rows) \in Nat, Len(rows) >= 2, NEW config
  PROVE  /\ \E f : RowsRun(f, rows, config) /\ RowGroups(rows, config) = LastGroup(f[Len(rows) - 1])
         /\ RowGroups(rows, config) \in Seq(Seq(2..Len(rows)))
         /\ \A g \in 1..Len(RowGroups(rows, config)) : RowGroups(rows, config)[g] # <<>>
         /\ FlattenSeq(RowGroups(rows, config)) = DataRows(rows)
<1> DEFINE N == Len(rows) - 1
           K == [n \in 0..N |-> Gathered(rows, n)]
           start == [groups |-> <<>>, current |-> <<>>]
           Eq(f) == f = [n \in 0..N |-> IF n = 0 THEN start
                                        ELSE AddRow(f[n - 1], rows, n + 1, config)]
           cut == CHOOSE f : Eq(f)
           step == [n \in 1..N |-> [v \in K[n - 1] |-> AddRow(v, rows, n + 1, config)]]
<1>1. N \in Nat /\ N >= 1 /\ Len(rows) >= 1 /\ N # 0 /\ N \in 0..N
  <2>1. N \in Nat /\ N >= 1 /\ Len(rows) >= 1
    OBVIOUS
  <2> HIDE DEF N
  <2> QED
    BY <2>1
<1>2. ASSUME NEW n \in 1..N, NEW v \in K[n - 1] PROVE AddRow(v, rows, n + 1, config) \in K[n]
  <2>1. n \in 0..N /\ n - 1 \in 0..N
    BY <1>1
  <2> QED
    BY <1>1, <2>1, AddRowGathers
<1>3. start \in K[0]
  <2> DEFINE none == <<>>
             S == Seq(2..Len(rows))
  <2>1. none \in S /\ none \in Seq(S) /\ Len(none) = 0
    BY EmptySeq
  <2>2. FlattenSeq(none) = none /\ none \o none = none
    BY <2>1, FlatEmpty, ConcatEmptySeq
  <2>3. Prefix(DataRows(rows), 0) = none
    <3> DEFINE q == DataRows(rows)
               R == 2..Len(rows)
    <3>1. q \in Seq(R)
      BY <1>1, DataRowsAre
    <3> HIDE DEF q, R
    <3> QED
      BY <3>1, PrefixIs DEF q
  <2>0. \A g \in 1..Len(none) : none[g] # <<>>
    BY <2>1
  <2> HIDE DEF none, S
  <2>4. FlattenSeq(Append(none, none)) = FlattenSeq(none) \o none
    BY <2>1, FlatAppend DEF S
  <2>5. FlattenSeq(Append(none, none)) = Prefix(DataRows(rows), 0)
    BY <2>2, <2>3, <2>4
  <2>6. [groups |-> none, current |-> none] \in Gathered(rows, 0)
    <3> DEFINE c == [groups |-> none, current |-> none]
    <3>1. c \in [groups : Seq(S), current : S] /\ c.groups = none /\ c.current = none
      BY <2>1
    <3> HIDE DEF c
    <3> QED
      BY <2>0, <2>5, <3>1 DEF Gathered, S, c
  <2> QED
    BY <1>1, <2>6 DEF none
<1>4. \A n \in 1..N : \A v \in K[n - 1] : step[n][v] = AddRow(v, rows, n + 1, config)
  OBVIOUS
<1>5. RowGroups(rows, config) = LastGroup(cut[N])
  BY Zenon DEF RowGroups
<1>6. ASSUME NEW c \in K[N]
      PROVE  /\ LastGroup(c) \in Seq(Seq(2..Len(rows)))
             /\ \A g \in 1..Len(LastGroup(c)) : LastGroup(c)[g] # <<>>
             /\ FlattenSeq(LastGroup(c)) = DataRows(rows)
  <2> DEFINE S == Seq(2..Len(rows))
  <2>1. c \in Gathered(rows, N) /\ N # 0
    <3>1. N \in 0..N /\ N # 0
      BY <1>1
    <3>2. K[N] = Gathered(rows, N)
      BY <3>1
    <3> HIDE DEF K
    <3> QED
      BY <3>1, <3>2
  <2>2. /\ c.groups \in Seq(S) /\ c.current \in S /\ c.current # <<>>
        /\ \A g \in 1..Len(c.groups) : c.groups[g] # <<>>
        /\ FlattenSeq(Append(c.groups, c.current)) = Prefix(DataRows(rows), N)
    BY <2>1 DEF Gathered
  <2>3. Prefix(DataRows(rows), N) = DataRows(rows)
    <3> DEFINE q == DataRows(rows)
               R == 2..Len(rows)
    <3>1. q \in Seq(R) /\ Len(q) = N
      BY <1>1, DataRowsAre
    <3> HIDE DEF q, R
    <3>2. Prefix(q, Len(q)) = q
      BY <3>1, PrefixIs
    <3> QED
      BY <3>1, <3>2 DEF q
  <2> HIDE DEF S
  <2> DEFINE a == c.groups
             b == c.current
             s == Append(a, b)
  <2>4. /\ s \in Seq(S) /\ Len(s) = Len(a) + 1 /\ s[Len(a) + 1] = b
        /\ \A g \in 1..Len(a) : s[g] = a[g]
    BY <2>2, AppendProperties
  <2>5. \A g \in 1..Len(s) : g \in 1..Len(a) \/ g = Len(a) + 1
    <3>1. Len(a) \in Nat
      BY <2>2, LenProperties
    <3> QED
      BY <2>4, <3>1
  <2>6. LastGroup(c) = s
    BY DEF LastGroup
  <2> QED
    BY <2>2, <2>3, <2>4, <2>5, <2>6 DEF S
<1> HIDE DEF K, step, N, start
<1>7. Keeps(step, K, N)
  BY <1>2, <1>4 DEF Keeps
<1>8. \E X : \E g \in [0..N -> X] : Along(g, N, start, step, K)
  BY <1>1, <1>3, <1>7, FoldExists
<1>9. \E g : Eq(g)
  <2> PICK X : \E g \in [0..N -> X] : Along(g, N, start, step, K)
    BY <1>8
  <2> PICK g \in [0..N -> X] : Along(g, N, start, step, K)
    OBVIOUS
  <2>1. \A n \in 0..N : n # 0 => n \in 1..N /\ n - 1 \in 0..N
    BY <1>1
  <2>2. \A n \in 0..N : g[n] = IF n = 0 THEN start ELSE AddRow(g[n - 1], rows, n + 1, config)
    BY <1>4, <2>1 DEF Along
  <2>3. Eq(g)
    BY <2>2
  <2> QED
    BY <2>3
<1>10. Eq(cut)
  BY <1>9
<1> HIDE DEF cut
<1>11. \A n \in 0..N : cut[n] = IF n = 0 THEN start ELSE AddRow(cut[n - 1], rows, n + 1, config)
  BY <1>10
<1>12. \A n \in 0..N : cut[n] \in K[n]
  <2>1. \A n \in 1..N : n \in 0..N /\ n # 0
    BY <1>1
  <2>2. Follows(cut, N, step, K)
    BY <1>4, <1>11, <2>1 DEF Follows
  <2>3. cut[0] \in K[0]
    BY <1>1, <1>3, <1>11
  <2> QED
    BY <1>1, <1>7, <2>2, <2>3, FoldKept
<1>13. N \in 0..N
  BY <1>1
<1>14. \A n \in 0..N : cut[n] \in Gathered(rows, n)
  BY <1>12 DEF K
<1>15. 0 \in 0..N /\ \A n \in 1..N : n \in 0..N /\ n # 0
  BY <1>1
<1>16. RowsRun(cut, rows, config)
  BY <1>11, <1>14, <1>15 DEF RowsRun, N, start
<1>17. cut[N] \in K[N]
  BY <1>12, <1>13
<1>18. \E f : RowsRun(f, rows, config) /\ RowGroups(rows, config) = LastGroup(f[Len(rows) - 1])
  BY <1>5, <1>16 DEF N
<1> QED
  BY <1>5, <1>6, <1>17, <1>18

(* The groups of rows are the data rows, cut.                              *)
LEMMA RowGroupsAre ==
  ASSUME NEW rows, Len(rows) \in Nat, Len(rows) >= 2, NEW config
  PROVE  /\ RowGroups(rows, config) \in Seq(Seq(2..Len(rows)))
         /\ \A g \in 1..Len(RowGroups(rows, config)) : RowGroups(rows, config)[g] # <<>>
         /\ FlattenSeq(RowGroups(rows, config)) = DataRows(rows)
<1> QED
  BY RowGroupsRuns

(* What follows a.                                                         *)
LEMMA Behind ==
  ASSUME NEW W, NEW a \in Seq(W), NEW b \in Seq(W)
  PROVE  SubSeq(a \o b, 1 + Len(a), Len(a \o b)) = b
<1> DEFINE s == a \o b
           n == Len(a)
           m == Len(b)
           t == SubSeq(s, 1 + n, Len(s))
<1>1. /\ s \in Seq(W) /\ Len(s) = n + m /\ n \in Nat /\ m \in Nat
      /\ \A i \in 1..(n + m) : s[i] = IF i <= n THEN a[i] ELSE b[i - n]
  BY ConcatProperties, LenProperties
<1> HIDE DEF s, n, m
<1>2. \A i \in (1 + n)..Len(s) : s[i] \in W
  <2>1. \A i \in 1..Len(s) : s[i] \in W
    BY <1>1, ElementOfSeq
  <2> QED
    BY <1>1, <2>1
<1>3. /\ t \in Seq(W)
      /\ Len(t) = (IF 1 + n <= Len(s) THEN Len(s) - (1 + n) + 1 ELSE 0)
      /\ \A i \in 1..(Len(s) - (1 + n) + 1) : t[i] = s[(1 + n) + i - 1]
  <2>1. 1 + n \in 1..(Len(s) + 1) /\ Len(s) \in 0..Len(s)
    BY <1>1
  <2> QED
    BY <1>1, <1>2, <2>1, SubSeqProperties
<1> HIDE DEF t
<1>4. Len(t) = m
  BY <1>1, <1>3
<1>5. ASSUME NEW i \in 1..m PROVE t[i] = b[i]
  <2>1. i \in 1..(Len(s) - (1 + n) + 1) /\ (1 + n) + i - 1 = n + i /\ n + i \in 1..(n + m)
        /\ ~(n + i <= n) /\ (n + i) - n = i
    BY <1>1
  <2>2. t[i] = s[n + i]
    BY <1>3, <2>1
  <2>3. s[n + i] = b[(n + i) - n]
    BY <1>1, <2>1
  <2> QED
    BY <2>1, <2>2, <2>3
<1>6. t = b
  <2>1. t \in Seq(W) /\ b \in Seq(W) /\ Len(t) = Len(b) /\ \A i \in 1..Len(t) : t[i] = b[i]
    BY <1>3, <1>4, <1>5 DEF m
  <2> QED
    BY <2>1, SeqEqual
<1> QED
  BY <1>6 DEF t, s, n

(* The first data row of a group, by number.                               *)
StartsBelow(cs) == \E chunk \in ToSet(cs) : chunk.rows[1] > 0

OfTable(cs, unit) ==
  \A k \in 1..Len(cs) : cs[k].rows # <<>> /\ cs[k].sources = {unit.source}

(* The data rows, group by group.                                          *)
RowsOf(rows, group) == FlattenSeq([k \in DOMAIN group |-> rows[group[k]]])

(* The rows of the groups are the data rows, and there is a group.         *)
LEMMA RowsInGroups ==
  ASSUME NEW W, NEW rows \in Seq(Seq(W)), Len(rows) >= 2, NEW config
  PROVE  \E X \in Seq(Seq(W)) :
           /\ Len(X) = Len(RowGroups(rows, config)) /\ Len(X) \in Nat /\ Len(X) >= 1
           /\ \A g \in 1..Len(X) : X[g] = RowsOf(rows, RowGroups(rows, config)[g])
           /\ FlattenSeq(X) = FlattenSeq(Tail(rows))
<1> DEFINE groups == RowGroups(rows, config)
           N == Len(groups)
           L == Len(rows)
           R == 2..L
           g == [r \in R |-> rows[r]]
           X == [k \in 1..N |-> FlattenSeq(Applied(g, groups[k]))]
           order == DataRows(rows)
           rest == Tail(rows)
<1>1. L \in Nat /\ \A r \in 1..L : rows[r] \in Seq(W)
  BY LenProperties, ElementOfSeq
<1>2. /\ groups \in Seq(Seq(R)) /\ FlattenSeq(groups) = order
      /\ order \in Seq(R) /\ Len(order) = L - 1 /\ \A i \in 1..(L - 1) : order[i] = i + 1
  BY <1>1, RowGroupsAre, DataRowsAre
<1>3. Maps(g, R, Seq(W)) /\ \A r \in R : g[r] = rows[r]
  <2>1. \A r \in R : r \in 1..L
    BY <1>1
  <2> QED
    BY <1>1, <2>1 DEF Maps
<1>4. rest \in Seq(Seq(W)) /\ Len(rest) = L - 1 /\ \A i \in 1..(L - 1) : rest[i] = rows[i + 1]
  <2>1. rows # <<>>
    BY <1>1, EmptySeq
  <2> QED
    BY <2>1, FlatTail
<1>5. X = [k \in 1..N |-> X[k]] /\ \A k \in 1..N : X[k] = FlattenSeq(Applied(g, groups[k]))
  OBVIOUS
<1> HIDE DEF groups, order, rest, R, g, L, X
<1>6. N \in Nat /\ \A k \in 1..N : groups[k] \in Seq(R)
  <2> DEFINE S == Seq(R)
  <2>1. groups \in Seq(S)
    BY <1>2
  <2> HIDE DEF S
  <2>2. N \in Nat /\ \A k \in 1..N : groups[k] \in S
    BY <2>1, LenProperties, ElementOfSeq
  <2> QED
    BY <2>2 DEF S
<1> HIDE DEF N
<1>7. ASSUME NEW k \in 1..N
      PROVE  X[k] = RowsOf(rows, groups[k]) /\ X[k] \in Seq(W)
  <2> DEFINE group == groups[k]
             a == Applied(g, group)
             V == Seq(W)
  <2>1. group \in Seq(R) /\ Maps(g, R, V)
    BY <1>3, <1>6
  <2> HIDE DEF group
  <2>2. DOMAIN group = 1..Len(group) /\ \A i \in 1..Len(group) : group[i] \in R
    BY <2>1, LenProperties, ElementOfSeq
  <2>3. a = [i \in 1..Len(group) |-> g[group[i]]]
    BY <2>2 DEF Applied
  <2>4. a = [i \in DOMAIN group |-> rows[group[i]]]
    BY <1>3, <2>2, <2>3
  <2>5. a \in Seq(V)
    <3> HIDE DEF V
    <3> QED
      BY <2>1, AppliedIs
  <2> HIDE DEF a
  <2>6. FlattenSeq(a) \in Seq(W)
    BY <2>5, FlatTyped
  <2>7. RowsOf(rows, group) = FlattenSeq(a)
    BY <2>4 DEF RowsOf
  <2> QED
    BY <1>5, <2>6, <2>7 DEF a, group
<1>8. X \in Seq(Seq(W)) /\ Len(X) = N
  <2> DEFINE S == Seq(W)
  <2>1. \A k \in 1..N : X[k] \in S
    BY <1>7
  <2> HIDE DEF S
  <2>2. X \in Seq(S) /\ Len(X) = N
    BY <1>5, <1>6, <2>1, Listed
  <2> QED
    BY <2>2 DEF S
<1>9. Applied(g, order) = rest
  <2> DEFINE V == Seq(W)
             a == Applied(g, order)
  <2>1. Maps(g, R, V) /\ rest \in Seq(V)
    BY <1>3, <1>4
  <2> HIDE DEF V
  <2>2. a \in Seq(V) /\ Len(a) = Len(order) /\ \A i \in 1..Len(order) : a[i] = g[order[i]]
    BY <1>2, <2>1, AppliedIs
  <2> HIDE DEF a
  <2>3. \A i \in 1..Len(order) : i \in 1..(L - 1) /\ i + 1 \in R
    BY <1>1, <1>2 DEF R
  <2>4. \A i \in 1..Len(order) : a[i] = rest[i]
    BY <1>2, <1>3, <1>4, <2>2, <2>3
  <2>5. Len(a) = Len(rest)
    BY <1>2, <1>4, <2>2
  <2>6. a = rest
    BY <2>1, <2>2, <2>4, <2>5, SeqEqual
  <2> QED
    BY <2>6 DEF a
<1>10. FlattenSeq(X) = FlattenSeq(rest)
  <2>1. Sequence(X) /\ Len(X) = Len(groups)
    BY <1>8, Items DEF N
  <2>2. \A k \in 1..Len(groups) : X[k] = FlattenSeq(Applied(g, groups[k]))
    BY <1>5 DEF N
  <2>3. FlattenSeq(Applied(g, FlattenSeq(groups))) = FlattenSeq(X)
    <3>1. groups \in Seq(Seq(R)) /\ Maps(g, R, Seq(W))
      BY <1>2, <1>3
    <3> QED
      BY <2>1, <2>2, <3>1, FlatByParts
  <2> QED
    BY <1>2, <1>9, <2>3
<1>11. N >= 1
  <2> SUFFICES ASSUME N = 0 PROVE FALSE
    BY <1>6
  <2>1. groups = <<>>
    BY <1>2, EmptySeq DEF N
  <2>2. order = <<>>
    BY <1>2, <2>1, FlatEmpty
  <2> QED
    <3>1. Len(order) = 0
      BY <2>2, EmptySeq
    <3> QED
      <4>1. L \in Nat /\ Len(order) = L - 1
        BY <1>1, <1>2
      <4>2. L >= 2
        BY DEF L
      <4> HIDE DEF L
      <4> QED
        BY <3>1, <4>1, <4>2
<1> QED
  BY <1>6, <1>7, <1>8, <1>10, <1>11 DEF groups, N, rest

(* A header before the first part.                                         *)
LEMMA FlatHeaded ==
  ASSUME NEW W, NEW X \in Seq(Seq(W)), NEW q \in Seq(Seq(W)), Len(q) = Len(X), Len(X) >= 1,
         NEW h \in Seq(W), q[1] = h \o X[1], \A g \in 2..Len(X) : q[g] = X[g]
  PROVE  FlattenSeq(q) = h \o FlattenSeq(X)
<1> DEFINE tq == Tail(q)
           tx == Tail(X)
           first == X[1]
<1>1. X # <<>> /\ q # <<>>
  BY EmptySeq
<1>2. /\ tx \in Seq(Seq(W)) /\ first \in Seq(W) /\ Len(tx) = Len(X) - 1 /\ Len(X) \in Nat
      /\ \A i \in 1..(Len(X) - 1) : tx[i] = X[i + 1]
      /\ FlattenSeq(X) = first \o FlattenSeq(tx)
  BY <1>1, FlatTail
<1>3. /\ tq \in Seq(Seq(W)) /\ Len(tq) = Len(q) - 1
      /\ \A i \in 1..(Len(q) - 1) : tq[i] = q[i + 1]
      /\ FlattenSeq(q) = q[1] \o FlattenSeq(tq)
  BY <1>1, FlatTail
<1> HIDE DEF tq, tx, first
<1>4. tq = tx
  <2>1. \A i \in 1..Len(tq) : i \in 1..(Len(X) - 1) /\ i \in 1..(Len(q) - 1) /\ i + 1 \in 2..Len(X)
    BY <1>2, <1>3
  <2>2. \A i \in 1..Len(tq) : tq[i] = tx[i]
    BY <1>2, <1>3, <2>1
  <2>3. Len(tq) = Len(tx)
    BY <1>2, <1>3
  <2> QED
    BY <1>2, <1>3, <2>2, <2>3, SeqEqual
<1>5. q[1] = h \o first
  BY DEF first
<1>6. FlattenSeq(tx) \in Seq(W)
  BY <1>2, FlatTyped
<1>7. (h \o first) \o FlattenSeq(tx) = h \o (first \o FlattenSeq(tx))
  <2> DEFINE others == FlattenSeq(tx)
  <2>1. first \in Seq(W) /\ others \in Seq(W) /\ h \in Seq(W)
    BY <1>2, <1>6
  <2> HIDE DEF others
  <2>2. (h \o first) \o others = h \o (first \o others)
    BY <2>1, ConcatAssociative, SMTT(30)
  <2> QED
    BY <2>2 DEF others
<1> QED
  BY <1>2, <1>3, <1>4, <1>5, <1>7

(* A table that fits, or has one row.                                      *)
LEMMA WholeTableHolds ==
  ASSUME NEW W, NEW unit, NEW rows \in Seq(Seq(W)), NEW to, NEW oversized, NEW head
  PROVE  LET cs == <<Cut(unit, Text(rows), 0, to, oversized, FALSE)>>
         IN  Hold(cs, head, Text(rows), W) /\ OfTable(cs, unit) /\ ~StartsBelow(cs)
<1> DEFINE text == Text(rows)
           chunk == Cut(unit, text, 0, to, oversized, FALSE)
           cs == <<chunk>>
           q == <<text>>
           none == <<>>
<1>1. text \in Seq(W)
  BY FlatTyped DEF Text
<1>2. /\ chunk.text = text /\ chunk.sources = {unit.source} /\ chunk.rows = <<0, to>>
      /\ chunk.overlap = 0 /\ chunk.repeated = FALSE
  BY DEF Cut, Chunk
<1> HIDE DEF text, chunk
<1>3. Sequence(cs) /\ Len(cs) = 1 /\ cs[1] = chunk /\ ToSet(cs) = {chunk}
  <2>1. cs = [i \in 1..1 |-> cs[i]] /\ 1 \in Nat
    OBVIOUS
  <2>2. cs[1] = chunk
    OBVIOUS
  <2> HIDE DEF cs
  <2>3. Sequence(cs) /\ Len(cs) = 1
    BY <2>1, IsSequence
  <2>4. ToSet(cs) = {cs[i] : i \in 1..1}
    BY <2>3, SequenceIs
  <2> QED
    BY <2>2, <2>3, <2>4
<1>4. q \in Seq(Seq(W)) /\ Len(q) = 1 /\ q[1] = text
  BY <1>1
<1>5. FlattenSeq(q) = text
  <2>1. none \in Seq(Seq(W)) /\ FlattenSeq(none) = none
    BY FlatEmpty
  <2>2. q = Append(none, text)
    OBVIOUS
  <2>3. none \o text = text
    BY <1>1, ConcatEmptySeq
  <2> HIDE DEF none
  <2>4. FlattenSeq(Append(none, text)) = FlattenSeq(none) \o text
    BY <1>1, <2>1, FlatAppend
  <2> QED
    BY <2>1, <2>2, <2>3, <2>4
<1>6. OwnWords(chunk, head) = text
  BY <1>1, <1>2, AllOwned
<1> HIDE DEF cs, q
<1>7. Hold(cs, head, text, W)
  <2>1. \A k \in 1..Len(cs) : OwnWords(cs[k], head) = q[k]
    BY <1>3, <1>4, <1>6
  <2> QED
    BY <1>3, <1>4, <1>5, <2>1, Holding
<1>8. OfTable(cs, unit)
  <2>1. chunk.rows # <<>>
    BY <1>2
  <2> QED
    <3>1. \A k \in 1..Len(cs) : cs[k] = chunk
      BY <1>3
    <3> QED
      BY <1>2, <2>1, <3>1 DEF OfTable
<1>9. ~StartsBelow(cs)
  BY <1>2, <1>3 DEF StartsBelow
<1> QED
  BY <1>7, <1>8, <1>9 DEF cs, chunk, text

(* One group of rows: its chunk begins behind the header.                   *)
LEMMA GroupOwns ==
  ASSUME NEW W, NEW unit, NEW rows \in Seq(Seq(W)), Len(rows) >= 2, NEW config,
         NEW group, group # <<>>, group \in Seq(2..Len(rows)), NEW g \in Nat, g >= 1,
         RowsOf(rows, group) \in Seq(W)
  PROVE  LET content == TableText(rows, group, config)
             chunk == GroupChunk(unit, content, group, g, config)
         IN  /\ OwnWords(chunk, rows[1])
                  = IF g = 1 /\ config.repeat_header THEN rows[1] \o RowsOf(rows, group)
                    ELSE RowsOf(rows, group)
             /\ chunk.rows # <<>> /\ chunk.sources = {unit.source} /\ chunk.rows[1] > 0
<1> DEFINE h == rows[1]
           x == RowsOf(rows, group)
           content == TableText(rows, group, config)
           chunk == GroupChunk(unit, content, group, g, config)
           none == <<>>
<1>1. h \in Seq(W) /\ x \in Seq(W)
  <2>1. Len(rows) \in Nat /\ 1 \in 1..Len(rows)
    BY LenProperties
  <2> QED
    BY <2>1, ElementOfSeq
<1>2. content = (IF config.repeat_header THEN h ELSE none) \o x
  BY DEF TableText, RowsOf
<1>3. Head(group) >= 2 /\ Head(group) \in Int
  <2>1. Head(group) \in 2..Len(rows) /\ Len(rows) \in Nat
    BY LenProperties, HeadTailProperties
  <2> QED
    BY <2>1
<1> HIDE DEF h, x
<1>4. /\ chunk.text = content /\ chunk.sources = {unit.source}
      /\ chunk.rows = <<Head(group) - 1, Last(group)>> /\ chunk.overlap = 0
      /\ chunk.repeated <=> g > 1 /\ config.repeat_header
  <2> HIDE DEF content
  <2> QED
    BY DEF GroupChunk, Cut, Chunk
<1> HIDE DEF content, chunk
<1>5. chunk.rows # <<>> /\ chunk.sources = {unit.source} /\ chunk.rows[1] > 0
  <2> DEFINE to == Last(group)
             from == Head(group) - 1
  <2>1. chunk.rows = <<from, to>> /\ from > 0
    BY <1>3, <1>4
  <2> HIDE DEF from, to
  <2> QED
    BY <1>4, <2>1
<1>6. CASE ~config.repeat_header
  <2>1. content = x
    <3>1. content = none \o x
      BY <1>2, <1>6
    <3> QED
      BY <1>1, <3>1, ConcatEmptySeq
  <2>2. OwnWords(chunk, h) = chunk.text
    <3>1. chunk.text \in Seq(W) /\ chunk.overlap = 0 /\ ~chunk.repeated
      BY <1>1, <1>4, <1>6, <2>1
    <3> QED
      BY <3>1, AllOwned
  <2> QED
    BY <1>4, <1>5, <1>6, <2>1, <2>2 DEF chunk, content, h, x
<1>7. CASE config.repeat_header /\ g = 1
  <2>1. content = h \o x /\ h \o x \in Seq(W)
    BY <1>1, <1>2, <1>7, ConcatProperties
  <2>2. OwnWords(chunk, h) = chunk.text
    <3>1. chunk.text \in Seq(W) /\ chunk.overlap = 0 /\ ~chunk.repeated
      BY <1>4, <1>7, <2>1
    <3> QED
      BY <3>1, AllOwned
  <2> QED
    BY <1>4, <1>5, <1>7, <2>1, <2>2 DEF chunk, content, h, x
<1>8. CASE config.repeat_header /\ g # 1
  <2>1. content = h \o x /\ g > 1
    BY <1>2, <1>8
  <2>2. OwnWords(chunk, h) = SubSeq(h \o x, 1 + Len(h), Len(h \o x))
    BY <1>4, <1>8, <2>1 DEF OwnWords
  <2>3. OwnWords(chunk, h) = x
    BY <1>1, <2>2, Behind
  <2> QED
    BY <1>5, <1>8, <2>3 DEF chunk, content, h, x
<1> QED
  BY <1>6, <1>7, <1>8

(* A table in groups of rows: its header is lost unless it is repeated.     *)
LEMMA CutTableHolds ==
  ASSUME NEW W, NEW unit, NEW rows \in Seq(Seq(W)), Len(rows) >= 2, NEW config
  PROVE  LET cs == GroupChunks(unit, rows, RowGroups(rows, config), config)
         IN  /\ Hold(cs, rows[1], IF config.repeat_header THEN Text(rows) ELSE Text(Tail(rows)), W)
             /\ OfTable(cs, unit) /\ StartsBelow(cs)
<1> DEFINE groups == RowGroups(rows, config)
           cs == GroupChunks(unit, rows, groups, config)
           h == rows[1]
           L == Len(rows)
           R == 2..L
<1>1. PICK X \in Seq(Seq(W)) :
           /\ Len(X) = Len(groups) /\ Len(X) \in Nat /\ Len(X) >= 1
           /\ \A g \in 1..Len(X) : X[g] = RowsOf(rows, groups[g])
           /\ FlattenSeq(X) = FlattenSeq(Tail(rows))
  BY RowsInGroups
<1>2. L \in Nat /\ h \in Seq(W) /\ rows # <<>> /\ FlattenSeq(rows) = h \o FlattenSeq(Tail(rows))
      /\ Tail(rows) \in Seq(Seq(W))
  <2>1. rows # <<>>
    BY EmptySeq
  <2> QED
    BY <2>1, FlatTail
<1>3. groups \in Seq(Seq(R)) /\ \A g \in 1..Len(groups) : groups[g] # <<>>
  BY <1>2, RowGroupsAre
<1> HIDE DEF groups, R
<1> DEFINE N == Len(groups)
<1>4. DOMAIN groups = 1..N /\ \A g \in 1..N : groups[g] \in Seq(R)
  <2> DEFINE S == Seq(R)
  <2>1. groups \in Seq(S)
    BY <1>3
  <2> HIDE DEF S
  <2>2. DOMAIN groups = 1..N /\ \A g \in 1..N : groups[g] \in S
    BY <2>1, LenProperties, ElementOfSeq
  <2> QED
    BY <2>2 DEF S
<1>5. \A g \in 1..N : X[g] \in Seq(W)
  <2> DEFINE S == Seq(W)
  <2>1. X \in Seq(S)
    OBVIOUS
  <2> HIDE DEF S
  <2>2. \A g \in 1..Len(X) : X[g] \in S
    BY <2>1, ElementOfSeq
  <2> QED
    BY <1>1, <2>2 DEF S
<1>6. /\ cs = [g \in 1..N |-> cs[g]]
      /\ \A g \in 1..N : cs[g] = GroupChunk(unit, TableText(rows, groups[g], config), groups[g], g, config)
  BY <1>4 DEF GroupChunks
<1> HIDE DEF cs
<1>7. Sequence(cs) /\ Len(cs) = N
  <2>1. N \in Nat
    BY <1>1
  <2> HIDE DEF N
  <2> QED
    BY <1>6, <2>1, IsSequence
<1> HIDE DEF N, h
<1>8. ASSUME NEW g \in 1..N
      PROVE  /\ OwnWords(cs[g], h) = IF g = 1 /\ config.repeat_header THEN h \o X[g] ELSE X[g]
             /\ cs[g].rows # <<>> /\ cs[g].sources = {unit.source} /\ cs[g].rows[1] > 0
  <2> DEFINE group == groups[g]
             content == TableText(rows, group, config)
             chunk == GroupChunk(unit, content, group, g, config)
  <2>1. group # <<>> /\ group \in Seq(2..Len(rows)) /\ g \in Nat /\ g >= 1
    BY <1>1, <1>3, <1>4 DEF R, N
  <2>2. X[g] = RowsOf(rows, group) /\ RowsOf(rows, group) \in Seq(W)
    BY <1>1, <1>5 DEF N
  <2>3. cs[g] = chunk
    BY <1>6
  <2> HIDE DEF group
  <2>4. /\ OwnWords(chunk, rows[1])
             = IF g = 1 /\ config.repeat_header THEN rows[1] \o RowsOf(rows, group)
               ELSE RowsOf(rows, group)
        /\ chunk.rows # <<>> /\ chunk.sources = {unit.source} /\ chunk.rows[1] > 0
    BY <2>1, <2>2, GroupOwns
  <2> HIDE DEF chunk
  <2> QED
    BY <2>2, <2>3, <2>4 DEF h
<1>9. OfTable(cs, unit)
  BY <1>7, <1>8 DEF OfTable
<1>10. 1 \in 1..N /\ Len(X) = N
  BY <1>1 DEF N
<1>11. StartsBelow(cs)
  <2>1. cs[1] \in ToSet(cs)
    BY <1>7, <1>10, SequenceIs
  <2> QED
    BY <1>8, <1>10, <2>1 DEF StartsBelow
<1>12. CASE ~config.repeat_header
  <2>1. \A g \in 1..Len(cs) : OwnWords(cs[g], h) = X[g]
    BY <1>7, <1>8, <1>12
  <2>2. Len(X) = Len(cs) /\ FlattenSeq(X) = Text(Tail(rows))
    BY <1>1, <1>7, <1>10 DEF Text
  <2>3. Hold(cs, h, Text(Tail(rows)), W)
    BY <1>7, <2>1, <2>2, Holding
  <2> QED
    BY <1>9, <1>11, <1>12, <2>3 DEF cs, groups, h
<1>13. CASE config.repeat_header
  <2> DEFINE q == [g \in 1..N |-> IF g = 1 THEN h \o X[g] ELSE X[g]]
  <2>1. N \in Nat /\ q = [g \in 1..N |-> q[g]]
    BY <1>1, <1>10
  <2>2. ASSUME NEW g \in 1..N PROVE q[g] \in Seq(W)
    <3>1. X[g] \in Seq(W) /\ h \in Seq(W)
      BY <1>2, <1>5 DEF N
    <3> DEFINE x == X[g]
    <3>2. h \o x \in Seq(W)
      <4> HIDE DEF x
      <4>1. x \in Seq(W)
        BY <3>1 DEF x
      <4> QED
        BY <3>1, <4>1, ConcatProperties
    <3> QED
      BY <3>1, <3>2
  <2>3. q[1] = h \o X[1] /\ \A g \in 2..Len(X) : q[g] = X[g]
    BY <1>1, <1>10
  <2>4. \A g \in 1..N : OwnWords(cs[g], h) = q[g]
    BY <1>8, <1>13
  <2> HIDE DEF q
  <2>5. q \in Seq(Seq(W)) /\ Len(q) = N
    <3> DEFINE S == Seq(W)
    <3>1. \A g \in 1..N : q[g] \in S
      BY <2>2
    <3> HIDE DEF S
    <3>2. q \in Seq(S) /\ Len(q) = N
      BY <2>1, <3>1, Listed
    <3> QED
      BY <3>2 DEF S
  <2>6. FlattenSeq(q) = h \o FlattenSeq(X)
    <3>1. Len(q) = Len(X) /\ Len(X) >= 1 /\ h \in Seq(W)
      BY <1>1, <1>2, <1>10, <2>5
    <3> QED
      BY <2>3, <2>5, <3>1, FlatHeaded
  <2>7. FlattenSeq(q) = Text(rows)
    BY <1>1, <1>2, <2>6 DEF Text
  <2>8. Len(q) = Len(cs) /\ \A g \in 1..Len(cs) : OwnWords(cs[g], h) = q[g]
    BY <1>7, <2>4, <2>5
  <2>9. Hold(cs, h, Text(rows), W)
    BY <1>7, <2>5, <2>7, <2>8, Holding
  <2> QED
    BY <1>9, <1>11, <1>13, <2>9 DEF cs, groups, h
<1> QED
  BY <1>12, <1>13

(* The chunks of a table.                                                  *)
LEMMA TableChunksHold ==
  ASSUME NEW W, NEW unit, NEW rows \in Seq(Seq(W)), rows # <<>>, NEW config
  PROVE  LET cs == TableChunks(unit, rows, config)
         IN  /\ Hold(cs, rows[1], IF ~config.repeat_header /\ StartsBelow(cs)
                                  THEN Text(Tail(rows)) ELSE Text(rows), W)
             /\ OfTable(cs, unit)
<1> DEFINE cs == TableChunks(unit, rows, config)
           h == rows[1]
<1>1. CASE Len(Text(rows)) <= config.chunk_size \/ Len(rows) = 1
  <2> DEFINE to == Len(rows)
             oversized == Len(Text(rows)) > config.chunk_size
             one == <<Cut(unit, Text(rows), 0, to, oversized, FALSE)>>
  <2>1. cs = one
    BY <1>1 DEF TableChunks
  <2> HIDE DEF to, oversized, cs, h
  <2>2. Hold(one, h, Text(rows), W) /\ OfTable(one, unit) /\ ~StartsBelow(one)
    BY WholeTableHolds
  <2> HIDE DEF one
  <2> QED
    BY <2>1, <2>2 DEF cs, h
<1>2. CASE ~(Len(Text(rows)) <= config.chunk_size \/ Len(rows) = 1)
  <2>1. cs = GroupChunks(unit, rows, RowGroups(rows, config), config)
    BY <1>2 DEF TableChunks
  <2>2. Len(rows) >= 2
    <3>1. Len(rows) \in Nat /\ Len(rows) # 0
      BY LenProperties, EmptySeq
    <3> QED
      <4>1. Len(rows) # 1
        BY <1>2
      <4> QED
        BY <3>1, <4>1
  <2> HIDE DEF cs
  <2>3. /\ Hold(cs, h, IF config.repeat_header THEN Text(rows) ELSE Text(Tail(rows)), W)
        /\ OfTable(cs, unit) /\ StartsBelow(cs)
    BY <2>1, <2>2, CutTableHolds
  <2> QED
    BY <2>3 DEF cs
<1> QED
  BY <1>1, <1>2

-----------------------------------------------------------------------------
(* Windows.                                                                *)

(* The items from place a to place b.                                      *)
LEMMA SliceIs ==
  ASSUME NEW T, NEW s \in Seq(T), NEW a \in Nat, NEW b \in Nat, a >= 1, b <= Len(s), a <= b + 1
  PROVE  /\ SubSeq(s, a, b) \in Seq(T) /\ Len(SubSeq(s, a, b)) = b - a + 1
         /\ \A i \in 1..(b - a + 1) : SubSeq(s, a, b)[i] = s[a + i - 1]
<1> DEFINE t == SubSeq(s, a, b)
<1>1. Len(s) \in Nat /\ \A i \in 1..Len(s) : s[i] \in T
  BY LenProperties, ElementOfSeq
<1>2. \A i \in a..b : s[i] \in T
  BY <1>1
<1>3. /\ t \in Seq(T) /\ Len(t) = (IF a <= b THEN b - a + 1 ELSE 0)
      /\ \A i \in 1..(b - a + 1) : t[i] = s[a + i - 1]
  BY <1>2, SubSeqProperties
<1> HIDE DEF t
<1>4. Len(t) = b - a + 1
  BY <1>3
<1> QED
  BY <1>3, <1>4 DEF t

(* A slice, but for its first items.                                       *)
LEMMA SliceOfSlice ==
  ASSUME NEW T, NEW s \in Seq(T), NEW a \in Nat, NEW b \in Nat, a >= 1, b <= Len(s), a <= b + 1,
         NEW d \in Nat, d <= b - a + 1
  PROVE  SubSeq(SubSeq(s, a, b), 1 + d, Len(SubSeq(s, a, b))) = SubSeq(s, a + d, b)
<1> DEFINE t == SubSeq(s, a, b)
           m == b - a + 1
           u == SubSeq(t, 1 + d, m)
           v == SubSeq(s, a + d, b)
<1>1. m \in Nat /\ d <= m /\ 1 + d \in Nat /\ a + d \in Nat /\ a + d >= 1 /\ a + d <= b + 1
      /\ 1 + d >= 1 /\ 1 + d <= m + 1
  OBVIOUS
<1>2. t \in Seq(T) /\ Len(t) = m /\ \A i \in 1..m : t[i] = s[a + i - 1]
  BY SliceIs
<1>3. v \in Seq(T) /\ Len(v) = b - (a + d) + 1 /\ \A i \in 1..(b - (a + d) + 1) : v[i] = s[(a + d) + i - 1]
  BY <1>1, SliceIs
<1> HIDE DEF t, v, m
<1>4. u \in Seq(T) /\ Len(u) = m - (1 + d) + 1 /\ \A i \in 1..(m - (1 + d) + 1) : u[i] = t[(1 + d) + i - 1]
  <2>1. m <= Len(t)
    BY <1>1, <1>2
  <2> QED
    BY <1>1, <1>2, <2>1, SliceIs
<1> HIDE DEF u
<1>5. m - (1 + d) + 1 = b - (a + d) + 1 /\ b - (a + d) + 1 = m - d
  BY DEF m
<1>6. ASSUME NEW i \in 1..(m - d) PROVE u[i] = v[i]
  <2>1. i \in 1..(m - (1 + d) + 1) /\ i \in 1..(b - (a + d) + 1)
    BY <1>5
  <2>2. (1 + d) + i - 1 \in 1..m
    BY <1>1
  <2>3. u[i] = t[(1 + d) + i - 1] /\ v[i] = s[(a + d) + i - 1]
    BY <1>3, <1>4, <2>1
  <2>4. t[(1 + d) + i - 1] = s[a + ((1 + d) + i - 1) - 1]
    BY <1>2, <2>2
  <2>5. a + ((1 + d) + i - 1) - 1 = (a + d) + i - 1
    OBVIOUS
  <2> QED
    BY <2>3, <2>4, <2>5
<1>7. u = v
  <2>1. Len(u) = m - d /\ Len(v) = m - d
    BY <1>3, <1>4, <1>5
  <2>2. Len(u) = Len(v) /\ \A i \in 1..Len(u) : u[i] = v[i]
    BY <1>6, <2>1
  <2> QED
    BY <1>3, <1>4, <2>2, SeqEqual
<1> QED
  BY <1>2, <1>7 DEF t, u, v

(* Consecutive slices are the whole.                                       *)
LEMMA Covered ==
  ASSUME NEW T, NEW s \in Seq(T), NEW q \in Seq(Seq(T)), NEW e,
         \A j \in 0..Len(q) : e[j] \in 0..Len(s), e[0] = 0, e[Len(q)] = Len(s),
         \A j \in 1..Len(q) : e[j - 1] <= e[j] /\ q[j] = SubSeq(s, e[j - 1] + 1, e[j])
  PROVE  FlattenSeq(q) = s
<1> DEFINE M == Len(q)
           P(j) == FlattenSeq(Prefix(q, j))
           Good == {j \in 0..M : P(j) = Prefix(s, e[j])}
<1>1. /\ M \in Nat /\ Prefix(q, 0) = <<>> /\ Prefix(q, M) = q
      /\ \A j \in 0..M : Prefix(q, j) \in Seq(Seq(T))
      /\ \A j \in 1..M : Prefix(q, j) = Append(Prefix(q, j - 1), q[j]) /\ q[j] \in Seq(T)
  BY PrefixIs
<1>2. Len(s) \in Nat /\ Prefix(s, 0) = <<>> /\ Prefix(s, Len(s)) = s
      /\ \A j \in 0..Len(s) : Prefix(s, j) \in Seq(T)
  BY PrefixIs
<1>3. 0 \in Good
  <2>1. P(0) = <<>>
    BY <1>1, FlatEmpty
  <2>2. 0 \in 0..M
    BY <1>1
  <2> HIDE DEF P
  <2> QED
    BY <1>2, <2>1, <2>2
<1>4. ASSUME NEW j \in 0..M, j # 0, j - 1 \in Good PROVE j \in Good
  <2>1. j \in 1..M /\ j - 1 \in 0..M
    BY <1>1, <1>4
  <2>2. P(j - 1) = Prefix(s, e[j - 1])
    BY <1>4
  <2>3. P(j) = P(j - 1) \o q[j]
    <3> DEFINE p == Prefix(q, j - 1)
               x == q[j]
    <3>1. p \in Seq(Seq(T)) /\ x \in Seq(T) /\ Prefix(q, j) = Append(p, x)
      BY <1>1, <2>1
    <3> HIDE DEF p, x
    <3>2. FlattenSeq(Append(p, x)) = FlattenSeq(p) \o x
      BY <3>1, FlatAppend
    <3> QED
      BY <3>1, <3>2 DEF p, x
  <2> DEFINE a == e[j - 1]
             b == e[j]
  <2>4. a \in 0..Len(s) /\ b \in 0..Len(s) /\ a <= b /\ q[j] = SubSeq(s, a + 1, b)
    BY <2>1
  <2> HIDE DEF a, b, P
  <2>5. SubSeq(s, 1, a) \o SubSeq(s, a + 1, b) = SubSeq(s, 1, b)
    <3> DEFINE one == 1
    <3>1. one \in 1..(Len(s) + 1) /\ a \in (one - 1)..Len(s) /\ b \in a..Len(s)
      BY <1>2, <2>4
    <3> HIDE DEF one
    <3>2. SubSeq(s, one, a) \o SubSeq(s, a + 1, b) = SubSeq(s, one, b)
      BY <3>1, ConcatAdjacentSubSeq
    <3> QED
      BY <3>2 DEF one
  <2>6. P(j) = Prefix(s, b)
    BY <2>2, <2>3, <2>4, <2>5 DEF Prefix, a
  <2> QED
    BY <2>6 DEF b
<1> HIDE DEF Good
<1>5. \A j \in 0..M : j \in Good
  BY <1>1, <1>3, <1>4, Induction
<1>6. M \in 0..M
  BY <1>1
<1>7. P(M) = Prefix(s, e[M])
  BY <1>5, <1>6 DEF Good
<1> QED
  BY <1>1, <1>2, <1>7

Bounded(config) ==
  config.chunk_size \in Nat /\ config.overlap \in Nat /\ config.overlap < config.chunk_size

(* Where the windows over n words start: k steps got to the end or to place *)
(* k.                                                                      *)
Steps(n, k, config) ==
  {v \in Seq(Nat) :
     /\ Len(v) >= 1 /\ v[1] = 0
     /\ \A j \in 1..(Len(v) - 1) : /\ v[j + 1] = v[j] + config.chunk_size - config.overlap
                                   /\ v[j] + config.chunk_size < n
     /\ v[Len(v)] + config.chunk_size >= n \/ v[Len(v)] >= k}

(* A step of the windows: where the next starts, or the end is reached.    *)
LEMMA NextStartIs ==
  ASSUME NEW n \in Nat, NEW config, Bounded(config), NEW k \in 1..n, NEW v \in Steps(n, k - 1, config)
  PROVE  NextStart(v, n, config) \in Steps(n, k, config)
<1> DEFINE size == config.chunk_size
           overlap == config.overlap
           L == Len(v)
           last == v[L]
           next == last + size - overlap
           w == Append(v, next)
<1>1. size \in Nat /\ overlap \in Nat /\ overlap < size
  BY DEF Bounded
<1>2. /\ v \in Seq(Nat) /\ L >= 1 /\ v[1] = 0
      /\ \A j \in 1..(L - 1) : v[j + 1] = v[j] + size - overlap /\ v[j] + size < n
      /\ last + size >= n \/ last >= k - 1
  BY DEF Steps
<1>3. NextStart(v, n, config) = IF last + size >= n THEN v ELSE w
  BY DEF NextStart, Last
<1> HIDE DEF size, overlap
<1>4. L \in Nat /\ \A j \in 1..L : v[j] \in Nat
  BY <1>2, LenProperties, ElementOfSeq
<1> HIDE DEF L
<1>5. L \in 1..L
  BY <1>2, <1>4
<1>6. last \in Nat
  BY <1>4, <1>5
<1> HIDE DEF last
<1>7. CASE last + size >= n
  BY <1>2, <1>3, <1>7 DEF Steps, size, overlap, L, last
<1>8. CASE ~(last + size >= n)
  <2>1. next \in Nat /\ next >= k /\ last + size < n
    BY <1>1, <1>2, <1>6, <1>8
  <2> HIDE DEF next
  <2>2. /\ w \in Seq(Nat) /\ Len(w) = L + 1 /\ w[L + 1] = next
        /\ \A i \in 1..L : w[i] = v[i]
    BY <1>2, <2>1, AppendProperties DEF L
  <2> HIDE DEF w
  <2>3. w[1] = 0 /\ w[L] = last
    BY <1>2, <1>4, <1>5, <2>2 DEF last
  <2>4. ASSUME NEW j \in 1..L PROVE w[j + 1] = w[j] + size - overlap /\ w[j] + size < n
    <3>1. CASE j = L
      BY <2>1, <2>2, <2>3, <3>1 DEF next
    <3>2. CASE j # L
      <4>1. j \in 1..(L - 1) /\ j + 1 \in 1..L
        BY <1>4, <3>2
      <4>2. w[j] = v[j] /\ w[j + 1] = v[j + 1]
        BY <2>2, <4>1
      <4> QED
        BY <1>2, <4>1, <4>2
    <3> QED
      BY <3>1, <3>2
  <2>5. Len(w) >= 1 /\ Len(w) - 1 = L /\ w[Len(w)] = next
    BY <1>2, <1>4, <2>2
  <2>6. w \in Steps(n, k, config)
    BY <2>1, <2>2, <2>3, <2>4, <2>5 DEF Steps, size, overlap
  <2> QED
    BY <1>3, <1>8, <2>6
<1> QED
  BY <1>7, <1>8

(* The windows start at the beginning, overlap, and reach the end.         *)
LEMMA WindowStartsAre ==
  ASSUME NEW n \in Nat, NEW config, Bounded(config)
  PROVE  WindowStarts(n, config) \in Steps(n, n, config)
<1> DEFINE K == [k \in 0..n |-> Steps(n, k, config)]
           start == <<0>>
           Eq(f) == f = [k \in 0..n |-> IF k = 0 THEN start ELSE NextStart(f[k - 1], n, config)]
           starts == CHOOSE f : Eq(f)
           step == [k \in 1..n |-> [v \in K[k - 1] |-> NextStart(v, n, config)]]
<1>1. n \in 0..n /\ 0 \in 0..n
  OBVIOUS
<1>2. ASSUME NEW k \in 1..n, NEW v \in K[k - 1] PROVE NextStart(v, n, config) \in K[k]
  <2>1. k \in 0..n /\ k - 1 \in 0..n
    OBVIOUS
  <2> QED
    BY <2>1, NextStartIs
<1>3. start \in K[0]
  <2>1. start \in Seq(Nat) /\ Len(start) = 1 /\ start[1] = 0
    OBVIOUS
  <2> HIDE DEF start
  <2>2. start \in Steps(n, 0, config)
    <3>1. /\ start \in Seq(Nat) /\ Len(start) >= 1 /\ start[1] = 0
          /\ start[Len(start)] >= 0
          /\ 1..(Len(start) - 1) = {}
      BY <2>1
    <3> QED
      BY <3>1 DEF Steps
  <2> QED
    BY <1>1, <2>2
<1>4. \A k \in 1..n : \A v \in K[k - 1] : step[k][v] = NextStart(v, n, config)
  OBVIOUS
<1>5. WindowStarts(n, config) = starts[n]
  BY Zenon DEF WindowStarts
<1>6. K[n] = Steps(n, n, config)
  BY <1>1
<1> HIDE DEF K, step, start
<1>7. Keeps(step, K, n)
  BY <1>2, <1>4 DEF Keeps
<1>8. \E X : \E g \in [0..n -> X] : Along(g, n, start, step, K)
  BY <1>3, <1>7, FoldExists
<1>9. \E g : Eq(g)
  <2> PICK X : \E g \in [0..n -> X] : Along(g, n, start, step, K)
    BY <1>8
  <2> PICK g \in [0..n -> X] : Along(g, n, start, step, K)
    OBVIOUS
  <2>1. \A k \in 0..n : k # 0 => k \in 1..n /\ k - 1 \in 0..n
    OBVIOUS
  <2>2. \A k \in 0..n : g[k] = IF k = 0 THEN start ELSE NextStart(g[k - 1], n, config)
    BY <1>4, <2>1 DEF Along
  <2>3. Eq(g)
    BY <2>2
  <2> QED
    BY <2>3
<1>10. Eq(starts)
  BY <1>9
<1> HIDE DEF starts
<1>11. \A k \in 0..n : starts[k] = IF k = 0 THEN start ELSE NextStart(starts[k - 1], n, config)
  BY <1>10
<1>12. \A k \in 0..n : starts[k] \in K[k]
  <2>1. \A k \in 1..n : k \in 0..n /\ k # 0
    OBVIOUS
  <2>2. Follows(starts, n, step, K)
    BY <1>4, <1>11, <2>1 DEF Follows
  <2>3. starts[0] \in K[0]
    BY <1>1, <1>3, <1>11
  <2> QED
    BY <1>7, <2>2, <2>3, FoldKept
<1> QED
  BY <1>1, <1>5, <1>6, <1>12

Ref(W, A, B) == [word : W, source : A, page : B]

(* The words of references, by place.                                      *)
LEMMA WordsOfIs ==
  ASSUME NEW W, NEW A, NEW B, NEW refs \in Seq(Ref(W, A, B))
  PROVE  /\ WordsOf(refs) \in Seq(W) /\ Len(WordsOf(refs)) = Len(refs) /\ Len(refs) \in Nat
         /\ \A i \in 1..Len(refs) : WordsOf(refs)[i] = refs[i].word
<1> DEFINE q == WordsOf(refs)
           n == Len(refs)
<1>1. n \in Nat /\ DOMAIN refs = 1..n /\ \A i \in 1..n : refs[i] \in Ref(W, A, B)
  BY LenProperties, ElementOfSeq
<1>2. q = [i \in 1..n |-> refs[i].word]
  BY <1>1 DEF WordsOf
<1>3. q = [i \in 1..n |-> q[i]] /\ \A i \in 1..n : q[i] = refs[i].word /\ q[i] \in W
  BY <1>1, <1>2 DEF Ref
<1> HIDE DEF q
<1>4. q \in Seq(W) /\ Len(q) = n
  BY <1>1, <1>3, Listed
<1> QED
  BY <1>1, <1>3, <1>4 DEF q

(* The words of a slice are a slice of the words.                          *)
LEMMA SliceWords ==
  ASSUME NEW W, NEW A, NEW B, NEW refs \in Seq(Ref(W, A, B)),
         NEW a \in Nat, NEW b \in Nat, a >= 1, b <= Len(refs), a <= b + 1
  PROVE  /\ WordsOf(SubSeq(refs, a, b)) = SubSeq(WordsOf(refs), a, b)
         /\ Len(SubSeq(refs, a, b)) = b - a + 1
<1> DEFINE R == Ref(W, A, B)
           s == SubSeq(refs, a, b)
           words == WordsOf(refs)
           t == WordsOf(s)
           u == SubSeq(words, a, b)
           m == b - a + 1
<1>1. /\ words \in Seq(W) /\ Len(words) = Len(refs) /\ Len(refs) \in Nat
      /\ \A i \in 1..Len(refs) : words[i] = refs[i].word
  BY WordsOfIs
<1>2. s \in Seq(R) /\ Len(s) = m /\ \A i \in 1..m : s[i] = refs[a + i - 1]
  <2> refs \in Seq(R)
    OBVIOUS
  <2> HIDE DEF R
  <2> QED
    BY SliceIs
<1> HIDE DEF s, words
<1>3. t \in Seq(W) /\ Len(t) = Len(s) /\ \A i \in 1..Len(s) : t[i] = s[i].word
  BY <1>2, WordsOfIs
<1>4. u \in Seq(W) /\ Len(u) = m /\ \A i \in 1..m : u[i] = words[a + i - 1]
  <2>1. b <= Len(words)
    BY <1>1
  <2> QED
    BY <1>1, <2>1, SliceIs
<1> HIDE DEF t, u
<1>5. ASSUME NEW i \in 1..m PROVE t[i] = u[i]
  <2>1. a + i - 1 \in 1..Len(refs)
    BY <1>1
  <2>2. t[i] = s[i].word /\ s[i] = refs[a + i - 1]
    BY <1>2, <1>3
  <2>3. u[i] = words[a + i - 1]
    BY <1>4
  <2> QED
    BY <1>1, <2>1, <2>2, <2>3
<1>6. Len(t) = Len(u) /\ \A i \in 1..Len(t) : t[i] = u[i]
  BY <1>2, <1>3, <1>4, <1>5
<1>7. t = u
  BY <1>3, <1>4, <1>6, SeqEqual
<1> QED
  BY <1>2, <1>7 DEF t, u, s, words

(* A window and what it shares with the one before it.                      *)
Until(start, n, config) == Least(start + config.chunk_size, n)
Shared(start, n, config) ==
  IF start = 0 THEN 0 ELSE Least(config.overlap, Until(start, n, config) - start)

(* What a window has of its own is a slice of the words.                   *)
LEMMA WindowOwns ==
  ASSUME NEW W, NEW A, NEW B, NEW refs \in Seq(Ref(W, A, B)), NEW config, Bounded(config),
         NEW start \in Nat, start <= Len(refs), NEW head
  PROVE  /\ OwnWords(WindowChunk(Window(refs, start, config), start, config), head)
              = SubSeq(WordsOf(refs), start + 1 + Shared(start, Len(refs), config), Until(start, Len(refs), config))
         /\ WindowChunk(Window(refs, start, config), start, config).rows = <<>>
<1> DEFINE n == Len(refs)
           size == config.chunk_size
           e == Until(start, n, config)
           d == Shared(start, n, config)
           window == Window(refs, start, config)
           chunk == WindowChunk(window, start, config)
           words == WordsOf(refs)
           a == start + 1
<1>1. /\ words \in Seq(W) /\ Len(words) = n /\ n \in Nat
  BY WordsOfIs
<1>2. size \in Nat /\ config.overlap \in Nat /\ config.overlap < size
  BY DEF Bounded
<1>3. e = Least(start + size, n) /\ e \in Nat /\ e <= n /\ start <= e
  BY <1>1, <1>2 DEF Until, Least
<1>4. window = SubSeq(refs, a, e)
  BY <1>3 DEF Window
<1>5. d = (IF start = 0 THEN 0 ELSE Least(config.overlap, e - start)) /\ d \in Nat /\ d <= e - start
  <2> HIDE DEF e
  <2>1. Shared(start, n, config) = IF start = 0 THEN 0 ELSE Least(config.overlap, e - start)
    BY DEF Shared, e
  <2> QED
    BY <1>2, <1>3, <2>1 DEF Least
<1> HIDE DEF e, d, n, words, size
<1>6. WordsOf(window) = SubSeq(words, a, e) /\ Len(window) = e - a + 1
  <2>1. a \in Nat /\ e \in Nat /\ a >= 1 /\ e <= Len(refs) /\ a <= e + 1
    BY <1>3 DEF n
  <2> HIDE DEF a
  <2> QED
    BY <1>4, <2>1, SliceWords DEF words
<1> DEFINE text == WordsOf(window)
<1>7. /\ chunk.text = text /\ chunk.repeated = FALSE /\ chunk.rows = <<>>
      /\ chunk.overlap = IF start = 0 THEN 0 ELSE Least(config.overlap, Len(window))
  <2> HIDE DEF text, window
  <2>1. /\ chunk.text = WordsOf(window) /\ chunk.repeated = FALSE /\ chunk.rows = <<>>
        /\ chunk.overlap = IF start = 0 THEN 0 ELSE Least(config.overlap, Len(window))
    BY DEF WindowChunk, Chunk
  <2> QED
    BY <2>1 DEF text
<1>8. chunk.overlap = d
  <2>1. e - a + 1 = e - start
    BY <1>3
  <2>2. Len(window) = e - start
    BY <1>6, <2>1
  <2> HIDE DEF chunk, window, a
  <2> QED
    BY <1>5, <1>7, <2>2
<1> HIDE DEF chunk, window
<1>9. OwnWords(chunk, head) = SubSeq(text, 1 + d, Len(text))
  BY <1>7, <1>8 DEF OwnWords
<1>10. SubSeq(SubSeq(words, a, e), 1 + d, Len(SubSeq(words, a, e))) = SubSeq(words, a + d, e)
  <2>1. a \in Nat /\ e \in Nat /\ a >= 1 /\ e <= Len(words) /\ a <= e + 1 /\ d \in Nat /\ d <= e - a + 1
    BY <1>1, <1>3, <1>5
  <2> HIDE DEF a
  <2> QED
    BY <1>1, <2>1, SliceOfSlice
<1>11. OwnWords(chunk, head) = SubSeq(words, a + d, e)
  BY <1>6, <1>9, <1>10
<1> QED
  BY <1>7, <1>11 DEF chunk, window, words, d, e, n

(* Where a window begins to hold words of its own is where the one before   *)
(* it ended.                                                               *)
LEMMA WindowsMeet ==
  ASSUME NEW n \in Nat, NEW config, Bounded(config), NEW v \in Steps(n, n, config)
  PROVE  /\ \A j \in 1..Len(v) : /\ v[j] \in Nat /\ v[j] <= n
                                 /\ Until(v[j], n, config) \in 0..n
                                 /\ v[j] + Shared(v[j], n, config) <= Until(v[j], n, config)
         /\ v[1] + Shared(v[1], n, config) = 0
         /\ \A j \in 2..Len(v) :
              v[j] + Shared(v[j], n, config) = Until(v[j - 1], n, config)
         /\ Until(v[Len(v)], n, config) = n /\ Len(v) \in Nat /\ Len(v) >= 1
<1> DEFINE size == config.chunk_size
           overlap == config.overlap
           L == Len(v)
<1>1. size \in Nat /\ overlap \in Nat /\ overlap < size
  BY DEF Bounded
<1>2. /\ v \in Seq(Nat) /\ L >= 1 /\ v[1] = 0
      /\ \A j \in 1..(L - 1) : v[j + 1] = v[j] + size - overlap /\ v[j] + size < n
      /\ v[L] + size >= n \/ v[L] >= n
  BY DEF Steps
<1>3. L \in Nat /\ \A j \in 1..L : v[j] \in Nat
  BY <1>2, LenProperties, ElementOfSeq
<1>4. \A start \in Nat : /\ Until(start, n, config) = Least(start + size, n)
                         /\ Shared(start, n, config)
                              = IF start = 0 THEN 0 ELSE Least(overlap, Until(start, n, config) - start)
  BY DEF Until, Shared
<1> HIDE DEF size, overlap, L
<1>5. \A j \in 2..L : j - 1 \in 1..(L - 1) /\ j - 1 \in 1..L /\ (j - 1) + 1 = j /\ j \in 1..L
  BY <1>3
<1>6. \A j \in 2..L : /\ v[j] = v[j - 1] + size - overlap /\ v[j - 1] + size < n
                      /\ v[j - 1] \in Nat /\ v[j] \in Nat
  BY <1>2, <1>3, <1>5
<1>7. \A j \in 1..L : v[j] <= n
  <2>1. \A j \in 2..L : v[j] <= n
    BY <1>1, <1>6
  <2>2. \A j \in 1..L : j = 1 \/ j \in 2..L
    BY <1>3
  <2>3. v[1] <= n
    BY <1>2
  <2> QED
    BY <2>1, <2>2, <2>3
<1>8. ASSUME NEW j \in 1..L
      PROVE  /\ Until(v[j], n, config) \in 0..n
             /\ v[j] + Shared(v[j], n, config) <= Until(v[j], n, config)
  <2> DEFINE s == v[j]
             e == Until(s, n, config)
             d == Shared(s, n, config)
  <2>1. s \in Nat /\ s <= n
    BY <1>3, <1>7
  <2> HIDE DEF s
  <2>2. e = Least(s + size, n) /\ d = IF s = 0 THEN 0 ELSE Least(overlap, e - s)
    BY <1>4, <2>1
  <2> HIDE DEF e, d
  <2>3. e \in 0..n /\ s + d <= e
    BY <1>1, <2>1, <2>2 DEF Least
  <2> QED
    BY <2>3 DEF e, d, s
<1>9. v[1] + Shared(v[1], n, config) = 0
  <2>1. Shared(0, n, config) = 0
    BY <1>4
  <2> QED
    BY <1>2, <2>1
<1>10. ASSUME NEW j \in 2..L
       PROVE  v[j] + Shared(v[j], n, config) = Until(v[j - 1], n, config)
  <2> DEFINE s == v[j]
             p == v[j - 1]
             e == Until(s, n, config)
             d == Shared(s, n, config)
             f == Until(p, n, config)
  <2>1. s \in Nat /\ p \in Nat /\ s = p + size - overlap /\ p + size < n
    BY <1>6
  <2> HIDE DEF s, p
  <2>2. /\ e = Least(s + size, n) /\ d = IF s = 0 THEN 0 ELSE Least(overlap, e - s)
        /\ f = Least(p + size, n)
    BY <1>4, <2>1
  <2> HIDE DEF e, d, f
  <2>3. s # 0 /\ f = p + size
    BY <1>1, <2>1, <2>2 DEF Least
  <2>4. d = overlap
    BY <1>1, <2>1, <2>2, <2>3 DEF Least
  <2>5. s + d = f
    BY <1>1, <2>1, <2>3, <2>4
  <2> QED
    BY <2>5 DEF d, f, s, p
<1>11. Until(v[L], n, config) = n
  <2> DEFINE s == v[L]
  <2>1. L \in 1..L
    BY <1>2, <1>3
  <2>2. s \in Nat /\ s + size >= n
    BY <1>1, <1>2, <1>3, <2>1
  <2> HIDE DEF s
  <2>3. Until(s, n, config) = n
    <3>1. Until(s, n, config) = Least(s + size, n)
      BY <1>4, <2>2
    <3>2. Least(s + size, n) = n
      BY <1>1, <2>2 DEF Least
    <3> QED
      BY <3>1, <3>2
  <2> QED
    BY <2>3 DEF s
<1> QED
  BY <1>2, <1>3, <1>7, <1>8, <1>9, <1>10, <1>11 DEF L

(* The windows over the words of a block hold them.                        *)
LEMMA WindowsHold ==
  ASSUME NEW W, NEW A, NEW B, NEW refs \in Seq(Ref(W, A, B)), NEW config, Bounded(config), NEW head
  PROVE  /\ Hold(RefWindows(refs, config), head, WordsOf(refs), W)
         /\ Unrowed(RefWindows(refs, config))
<1> DEFINE n == Len(refs)
           words == WordsOf(refs)
           v == WindowStarts(n, config)
           M == Len(v)
           cs == WindowsFrom(refs, v, config)
           e == [j \in 0..M |-> IF j = 0 THEN 0 ELSE Until(v[j], n, config)]
           q == [j \in 1..M |-> SubSeq(words, e[j - 1] + 1, e[j])]
<1>1. words \in Seq(W) /\ Len(words) = n /\ n \in Nat
  BY WordsOfIs
<1>2. v \in Steps(n, n, config)
  BY <1>1, WindowStartsAre
<1>3. RefWindows(refs, config) = cs
  BY DEF RefWindows
<1> HIDE DEF v
<1>4. /\ \A j \in 1..M : /\ v[j] \in Nat /\ v[j] <= n
                         /\ Until(v[j], n, config) \in 0..n
                         /\ v[j] + Shared(v[j], n, config) <= Until(v[j], n, config)
      /\ v[1] + Shared(v[1], n, config) = 0
      /\ \A j \in 2..M : v[j] + Shared(v[j], n, config) = Until(v[j - 1], n, config)
      /\ Until(v[M], n, config) = n /\ M \in Nat /\ M >= 1
  BY <1>1, <1>2, WindowsMeet
<1>5. DOMAIN v = 1..M
  <2>1. v \in Seq(Nat)
    BY <1>2 DEF Steps
  <2> QED
    BY <2>1, LenProperties
<1>6. /\ cs = [j \in 1..M |-> cs[j]]
      /\ \A j \in 1..M : cs[j] = WindowChunk(Window(refs, v[j], config), v[j], config)
  BY <1>5 DEF WindowsFrom
<1> HIDE DEF cs, M
<1>7. Sequence(cs) /\ Len(cs) = M
  BY <1>4, <1>6, IsSequence
<1>8. /\ e[0] = 0 /\ e[M] = n
      /\ \A j \in 0..M : e[j] \in 0..n
      /\ \A j \in 1..M : e[j] = Until(v[j], n, config)
  BY <1>1, <1>4
<1>9. q = [j \in 1..M |-> q[j]] /\ \A j \in 1..M : q[j] = SubSeq(words, e[j - 1] + 1, e[j])
  <2> HIDE DEF e, words
  <2> QED
    OBVIOUS
<1> HIDE DEF e, q
<1>10. ASSUME NEW j \in 1..M
       PROVE  e[j - 1] = v[j] + Shared(v[j], n, config) /\ e[j - 1] <= e[j] /\ e[j - 1] \in 0..n
  <2>1. j - 1 \in 0..M
    BY <1>4
  <2>2. e[j - 1] = v[j] + Shared(v[j], n, config)
    <3>1. CASE j = 1
      BY <1>4, <1>8, <3>1
    <3>2. CASE j # 1
      <4>1. j \in 2..M /\ j - 1 \in 1..M
        BY <1>4, <3>2
      <4> QED
        BY <1>4, <1>8, <4>1
    <3> QED
      BY <3>1, <3>2
  <2> QED
    BY <1>4, <1>8, <2>1, <2>2
<1>11. ASSUME NEW j \in 1..M PROVE q[j] \in Seq(W)
  <2> DEFINE a == e[j - 1] + 1
             b == e[j]
  <2>1. a \in Nat /\ b \in Nat /\ a >= 1 /\ b <= Len(words) /\ a <= b + 1
    <3>1. j \in 0..M
      BY <1>4
    <3>2. e[j] \in 0..n /\ e[j - 1] \in 0..n /\ e[j - 1] <= e[j]
      BY <1>8, <1>10, <3>1
    <3> QED
      BY <1>1, <3>2
  <2>2. q[j] = SubSeq(words, a, b)
    BY <1>9
  <2> HIDE DEF a, b, words
  <2>3. SubSeq(words, a, b) \in Seq(W)
    BY <1>1, <2>1, SliceIs
  <2> QED
    BY <2>2, <2>3
<1>12. q \in Seq(Seq(W)) /\ Len(q) = M
  <2> DEFINE S == Seq(W)
  <2>1. \A j \in 1..M : q[j] \in S
    BY <1>11
  <2> HIDE DEF S
  <2>2. q \in Seq(S) /\ Len(q) = M
    BY <1>4, <1>9, <2>1, Listed
  <2> QED
    BY <2>2 DEF S
<1>13. FlattenSeq(q) = words
  <2>1. /\ \A j \in 0..Len(q) : e[j] \in 0..Len(words)
        /\ e[0] = 0 /\ e[Len(q)] = Len(words)
        /\ \A j \in 1..Len(q) : e[j - 1] <= e[j] /\ q[j] = SubSeq(words, e[j - 1] + 1, e[j])
    BY <1>1, <1>8, <1>9, <1>10, <1>12
  <2> HIDE DEF words
  <2> QED
    BY <1>1, <1>12, <2>1, Covered
<1>14. ASSUME NEW j \in 1..M PROVE OwnWords(cs[j], head) = q[j] /\ cs[j].rows = <<>> /\ cs[j].repeated = FALSE
  <2> DEFINE start == v[j]
             chunk == WindowChunk(Window(refs, start, config), start, config)
  <2>1. start \in Nat /\ start <= Len(refs) /\ cs[j] = chunk
    BY <1>4, <1>6
  <2> HIDE DEF start
  <2>2. OwnWords(chunk, head)
          = SubSeq(WordsOf(refs), start + 1 + Shared(start, Len(refs), config), Until(start, Len(refs), config))
    BY <2>1, WindowOwns
  <2>6. chunk.rows = <<>> /\ chunk.repeated = FALSE
    BY DEF WindowChunk, Chunk
  <2>3. Shared(start, n, config) \in Int /\ start \in Int
    <3>1. Shared(start, n, config) \in Int
      BY <1>1, <2>1 DEF Shared, Until, Least, Bounded
    <3> QED
      BY <2>1, <3>1
  <2>4. start + 1 + Shared(start, n, config) = (start + Shared(start, n, config)) + 1
    BY <2>3
  <2>5. e[j - 1] + 1 = start + 1 + Shared(start, n, config) /\ e[j] = Until(start, n, config)
    BY <1>8, <1>10, <2>4 DEF start
  <2> HIDE DEF chunk
  <2> QED
    BY <1>9, <2>1, <2>2, <2>5, <2>6
<1>15. Unrowed(cs)
  BY <1>7, <1>14 DEF Unrowed
<1>16. Hold(cs, head, words, W)
  <2>1. Len(q) = Len(cs) /\ \A k \in 1..Len(cs) : OwnWords(cs[k], head) = q[k]
    BY <1>7, <1>12, <1>14
  <2> HIDE DEF words
  <2> QED
    BY <1>7, <1>12, <1>13, <2>1, Holding
<1> QED
  BY <1>3, <1>15, <1>16

WordOf(D) == [x \in D |-> x.word]

(* References have words.                                                  *)
LEMMA WordMaps ==
  ASSUME NEW W, NEW A, NEW B
  PROVE  Maps(WordOf(Ref(W, A, B)), Ref(W, A, B), W)
<1>1. \A x \in Ref(W, A, B) : x.word \in W
  BY DEF Ref
<1> QED
  BY <1>1 DEF Maps, WordOf

(* The references of a unit carry its words.                               *)
LEMMA RefsOfAre ==
  ASSUME NEW W, NEW A, NEW B, NEW unit, From(unit, A, B), NEW text \in Seq(W)
  PROVE  /\ RefsOf(unit, text) \in Seq(Ref(W, A, B))
         /\ Applied(WordOf(Ref(W, A, B)), RefsOf(unit, text)) = text
<1> DEFINE q == RefsOf(unit, text)
           D == Ref(W, A, B)
           N == Len(text)
           t == Applied(WordOf(D), q)
<1>1. N \in Nat /\ DOMAIN text = 1..N /\ \A k \in 1..N : text[k] \in W
  BY LenProperties, ElementOfSeq
<1>2. q = [k \in 1..N |-> [word |-> text[k], source |-> unit.source, page |-> unit.page]]
  BY <1>1 DEF RefsOf
<1>3. ASSUME NEW k \in 1..N PROVE q[k] \in D /\ q[k].word = text[k]
  BY <1>1, <1>2 DEF Ref, From
<1>4. q = [k \in 1..N |-> q[k]]
  BY <1>2
<1> HIDE DEF q, D
<1>5. Sequence(q) /\ Len(q) = N
  BY <1>1, <1>4, IsSequence
<1>6. q \in Seq(D)
  BY <1>3, <1>5, ItemsOf
<1>7. Maps(WordOf(D), D, W)
  BY WordMaps DEF D
<1>8. /\ t \in Seq(W) /\ Len(t) = Len(q)
      /\ \A k \in 1..Len(q) : t[k] = WordOf(D)[q[k]] /\ q[k] \in D
  BY <1>6, <1>7, AppliedIs
<1> HIDE DEF t
<1>9. \A k \in 1..N : t[k] = text[k]
  BY <1>3, <1>5, <1>8 DEF WordOf
<1>10. Len(t) = Len(text) /\ \A k \in 1..Len(t) : t[k] = text[k]
  BY <1>5, <1>8, <1>9
<1>11. t = text
  BY <1>8, <1>10, SeqEqual
<1> QED
  BY <1>6, <1>11 DEF q, D, t

(* The words of a block, with where they come from.                        *)
LEMMA RefsAre ==
  ASSUME NEW W, NEW units, Worded(units, W)
  PROVE  \E A, B : /\ Refs(units) \in Seq(Ref(W, A, B))
                   /\ WordsOf(Refs(units)) = FlattenSeq(UnitTexts(units))
<1> DEFINE N == Len(units)
           A == {units[u].source : u \in 1..N}
           B == {units[u].page : u \in 1..N}
           D == Ref(W, A, B)
           css == [u \in DOMAIN units |-> RefsOf(units[u], Text(units[u].rows))]
           q == UnitTexts(units)
           refs == FlattenSeq(css)
           g == WordOf(D)
<1>1. /\ q \in Seq(Seq(W)) /\ Len(q) = N /\ N \in Nat /\ DOMAIN units = 1..N
      /\ \A u \in 1..N : q[u] = Text(units[u].rows) /\ Text(units[u].rows) \in Seq(W)
  BY TextsAre
<1>2. \A u \in 1..N : units[u].source \in A /\ units[u].page \in B
  OBVIOUS
<1>3. css = [u \in 1..N |-> css[u]] /\ \A u \in 1..N : css[u] = RefsOf(units[u], Text(units[u].rows))
  BY <1>1
<1>4. Refs(units) = refs
  BY DEF Refs
<1> HIDE DEF css, q, A, B, N
<1>5. ASSUME NEW u \in 1..N
      PROVE  css[u] \in Seq(D) /\ Applied(g, css[u]) = q[u]
  <2> DEFINE unit == units[u]
             text == Text(unit.rows)
  <2>1. text \in Seq(W) /\ From(unit, A, B) /\ css[u] = RefsOf(unit, text) /\ q[u] = text
    BY <1>1, <1>2, <1>3 DEF From
  <2> HIDE DEF unit, text
  <2>2. /\ RefsOf(unit, text) \in Seq(Ref(W, A, B))
        /\ Applied(WordOf(Ref(W, A, B)), RefsOf(unit, text)) = text
    BY <2>1, RefsOfAre
  <2> QED
    BY <2>1, <2>2
<1>6. Maps(g, D, W)
  BY WordMaps
<1> HIDE DEF D, g
<1>7. css \in Seq(Seq(D)) /\ Len(css) = N
  <2> DEFINE S == Seq(D)
  <2>1. \A u \in 1..N : css[u] \in S
    BY <1>5
  <2> HIDE DEF S
  <2>2. css \in Seq(S) /\ Len(css) = N
    BY <1>1, <1>3, <2>1, Listed
  <2> QED
    BY <2>2 DEF S
<1>8. Applied(g, FlattenSeq(css)) = FlattenSeq(q)
  <2>1. q \in Seq(Seq(W)) /\ Len(q) = Len(css)
        /\ \A u \in 1..Len(css) : q[u] = Applied(g, css[u])
    BY <1>1, <1>5, <1>7
  <2>2. css \in Seq(Seq(D))
    BY <1>7
  <2> HIDE DEF refs
  <2>3. Maps(g, D, W)
    BY <1>6
  <2> QED
    <3> HIDE DEF css, q
    <3>1. \A texts \in Seq(Seq(W)) :
            /\ Len(texts) = Len(css)
            /\ \A u \in 1..Len(css) : texts[u] = Applied(g, css[u])
            => Applied(g, FlattenSeq(css)) = FlattenSeq(texts)
      BY ONLY <2>2, <2>3, AppliedFlat
    <3> QED
      BY ONLY <2>1, <3>1
<1>9. refs \in Seq(D)
  BY <1>7, FlatTyped
<1> HIDE DEF refs
<1>10. WordsOf(refs) = Applied(g, refs)
  <2>1. DOMAIN refs = 1..Len(refs) /\ \A i \in 1..Len(refs) : refs[i] \in D
    BY <1>9, LenProperties, ElementOfSeq
  <2>2. \A i \in 1..Len(refs) : g[refs[i]] = refs[i].word
    BY <2>1 DEF g, WordOf
  <2> QED
    BY <2>1, <2>2 DEF WordsOf, Applied
<1>11. WordsOf(refs) = FlattenSeq(q)
  BY <1>8, <1>10 DEF refs
<1> QED
  BY <1>4, <1>9, <1>11 DEF D, q

(* A block of units, in windows or in groups of sentences.                  *)
LEMMA BlockHolds ==
  ASSUME NEW W, NEW units, Worded(units, W), NEW domain, NEW config, Bounded(config), NEW head
  PROVE  LET piece == [table |-> FALSE, units |-> units]
             cs == PieceChunks(piece, domain, config)
         IN  Hold(cs, head, FlattenSeq(UnitTexts(units)), W) /\ Unrowed(cs)
<1> DEFINE piece == [table |-> FALSE, units |-> units]
           cs == PieceChunks(piece, domain, config)
<1>1. cs = IF config.strategy = "semantic" THEN SegmentChunks(units, domain, config)
           ELSE Windows(units, config)
  BY DEF PieceChunks
<1> HIDE DEF cs
<1>2. CASE config.strategy = "semantic"
  <2>1. cs = SegmentChunks(units, domain, config)
    BY <1>1, <1>2
  <2> QED
    BY <2>1, SegmentChunksHold DEF cs
<1>3. CASE config.strategy # "semantic"
  <2> DEFINE refs == Refs(units)
             text == FlattenSeq(UnitTexts(units))
  <2>1. cs = RefWindows(refs, config)
    BY <1>1, <1>3 DEF Windows
  <2>2. PICK A, B : refs \in Seq(Ref(W, A, B)) /\ WordsOf(refs) = text
    BY RefsAre
  <2> HIDE DEF refs, text
  <2>3. /\ Hold(RefWindows(refs, config), head, WordsOf(refs), W)
        /\ Unrowed(RefWindows(refs, config))
    BY <2>2, WindowsHold
  <2> QED
    BY <2>1, <2>2, <2>3 DEF cs, text
<1> QED
  BY <1>2, <1>3

-----------------------------------------------------------------------------
(* Pieces of a document.                                                   *)

(* One more item, and what it is mapped to.                                *)
LEMMA AppliedAppend ==
  ASSUME NEW D, NEW V, NEW g, Maps(g, D, Seq(V)), NEW s \in Seq(D), NEW x \in D
  PROVE  /\ Append(s, x) \in Seq(D)
         /\ FlattenSeq(Applied(g, Append(s, x))) = FlattenSeq(Applied(g, s)) \o g[x]
         /\ FlattenSeq(Applied(g, s)) \in Seq(V) /\ g[x] \in Seq(V)
<1> DEFINE S == Seq(V)
           one == <<x>>
           a == Applied(g, s)
           y == g[x]
           b == Applied(g, one)
<1>1. one \in Seq(D) /\ Append(s, x) = s \o one /\ Append(s, x) \in Seq(D)
  BY AppendIsConcat, AppendProperties
<1>2. Len(one) = 1 /\ one[1] = x
  OBVIOUS
<1>3. y \in S
  BY DEF Maps
<1> HIDE DEF one, S, y
<1>4. Maps(g, D, S)
  BY DEF S
<1>5. a \in Seq(S)
  BY <1>4, AppliedIs
<1>6. b \in Seq(S) /\ Len(b) = Len(one) /\ \A k \in 1..Len(one) : b[k] = g[one[k]]
  BY <1>1, <1>4, AppliedIs
<1>7. Applied(g, s \o one) = a \o b
  BY <1>1, <1>4, AppliedConcat
<1> HIDE DEF a, b
<1>8. Append(a, y) = a \o b
  <2> DEFINE last == <<y>>
  <2>1. Append(a, y) = a \o last
    BY <1>3, <1>5, AppendIsConcat
  <2>2. last \in Seq(S) /\ Len(last) = 1 /\ last[1] = y
    BY <1>3
  <2> HIDE DEF last
  <2>3. Len(b) = Len(last) /\ \A k \in 1..Len(b) : b[k] = last[k]
    BY <1>2, <1>6, <2>2 DEF y
  <2>4. b = last
    BY <1>6, <2>2, <2>3, SeqEqual
  <2> QED
    BY <2>1, <2>4
<1>9. FlattenSeq(Append(a, y)) = FlattenSeq(a) \o y
  BY <1>3, <1>5, FlatAppend DEF S
<1>10. FlattenSeq(a) \in Seq(V)
  BY <1>5, FlatTyped DEF S
<1> QED
  BY <1>1, <1>3, <1>7, <1>8, <1>9, <1>10 DEF a, y, S

(* Tables stand alone.                                                     *)
IsTable(unit, config) == unit.kind = "table" /\ config.table_aware
Plain(U, config) == {u \in U : ~IsTable(u, config)}
TablePiece(u) == [table |-> TRUE, units |-> <<u>>]
BlockPiece(b) == [table |-> FALSE, units |-> b]
PieceOf(U, config) ==
  {TablePiece(u) : u \in {u \in U : IsTable(u, config)}}
    \cup {BlockPiece(b) : b \in Seq(Plain(U, config))}
UnitsOf(U, config) == [p \in PieceOf(U, config) |-> p.units]

(* The units gathered so far.                                              *)
GatheredUnits(acc, U, config) ==
  FlattenSeq(Applied(UnitsOf(U, config), acc.pieces)) \o acc.block

Gathering(U, config, s) ==
  {acc \in [pieces : Seq(PieceOf(U, config)), block : Seq(Plain(U, config))] :
     GatheredUnits(acc, U, config) = s}

(* Pieces have units.                                                      *)
LEMMA PieceUnits ==
  ASSUME NEW U, NEW config
  PROVE  Maps(UnitsOf(U, config), PieceOf(U, config), Seq(U))
<1>1. Seq(Plain(U, config)) \subseteq Seq(U)
  <2> SUFFICES ASSUME NEW b \in Seq(Plain(U, config)) PROVE b \in Seq(U)
    OBVIOUS
  <2> DEFINE V == Plain(U, config)
  <2>1. Sequence(b) /\ \A i \in 1..Len(b) : b[i] \in V
    BY Items
  <2>2. \A i \in 1..Len(b) : b[i] \in U
    BY <2>1 DEF Plain
  <2> QED
    BY <2>1, <2>2, ItemsOf
<1>2. \A p \in PieceOf(U, config) : p.units \in Seq(U)
  <2> SUFFICES ASSUME NEW p \in PieceOf(U, config) PROVE p.units \in Seq(U)
    OBVIOUS
  <2>1. CASE p \in {TablePiece(u) : u \in {u \in U : IsTable(u, config)}}
    <3>1. PICK u \in U : p = TablePiece(u)
      BY <2>1
    <3>2. p.units = <<u>>
      BY <3>1 DEF TablePiece
    <3> QED
      BY <3>2
  <2>2. CASE p \in {BlockPiece(b) : b \in Seq(Plain(U, config))}
    <3>1. PICK b \in Seq(Plain(U, config)) : p = BlockPiece(b)
      BY <2>2
    <3>2. p.units = b
      BY <3>1 DEF BlockPiece
    <3> QED
      BY <1>1, <3>2
  <2> QED
    BY <2>1, <2>2 DEF PieceOf
<1> QED
  BY <1>2 DEF Maps, UnitsOf

(* What the pieces are made of.                                            *)
LEMMA PieceIs ==
  ASSUME NEW U, NEW config
  PROVE  /\ \A u \in U : IsTable(u, config) =>
              /\ TablePiece(u) \in PieceOf(U, config)
              /\ UnitsOf(U, config)[TablePiece(u)] = <<u>>
         /\ \A b \in Seq(Plain(U, config)) :
              /\ BlockPiece(b) \in PieceOf(U, config)
              /\ UnitsOf(U, config)[BlockPiece(b)] = b
<1> SUFFICES /\ \A u \in U : IsTable(u, config) =>
                  TablePiece(u) \in PieceOf(U, config) /\ TablePiece(u).units = <<u>>
             /\ \A b \in Seq(Plain(U, config)) :
                  BlockPiece(b) \in PieceOf(U, config) /\ BlockPiece(b).units = b
  BY DEF UnitsOf
<1> QED
  BY DEF PieceOf, TablePiece, BlockPiece

(* Closing the block.                                                      *)
LEMMA FlushIs ==
  ASSUME NEW U, NEW config, NEW s, NEW acc \in Gathering(U, config, s)
  PROVE  Flush(acc) \in Gathering(U, config, s) /\ Flush(acc).block = <<>>
<1> DEFINE D == PieceOf(U, config)
           g == UnitsOf(U, config)
           V == Plain(U, config)
           pieces == acc.pieces
           block == acc.block
           p == BlockPiece(block)
           none == <<>>
           new == [pieces |-> Append(pieces, p), block |-> none]
<1>1. /\ pieces \in Seq(D) /\ block \in Seq(V)
      /\ FlattenSeq(Applied(g, pieces)) \o block = s
  BY DEF Gathering, GatheredUnits
<1>2. CASE block = <<>>
  BY <1>2 DEF Flush
<1>3. CASE block # <<>>
  <2>1. Flush(acc) = new
    BY <1>3 DEF Flush, BlockPiece
  <2>2. p \in D /\ g[p] = block
    BY <1>1, PieceIs
  <2>3. Maps(g, D, Seq(U))
    BY PieceUnits
  <2> HIDE DEF p, g, D
  <2>4. /\ Append(pieces, p) \in Seq(D)
        /\ FlattenSeq(Applied(g, Append(pieces, p))) = FlattenSeq(Applied(g, pieces)) \o g[p]
        /\ FlattenSeq(Applied(g, pieces)) \in Seq(U) /\ g[p] \in Seq(U)
    BY <1>1, <2>2, <2>3, AppliedAppend
  <2> DEFINE total == FlattenSeq(Applied(g, Append(pieces, p)))
  <2>5. total = s /\ total \in Seq(U)
    <3>1. total = s
      BY <1>1, <2>2, <2>4
    <3>2. FlattenSeq(Applied(g, pieces)) \o g[p] \in Seq(U)
      BY <2>4, ConcatProperties
    <3> QED
      BY <2>4, <3>1, <3>2
  <2>6. total \o none = s
    BY <2>5, ConcatEmptySeq
  <2>7. new.pieces = Append(pieces, p) /\ new.block = none /\ none \in Seq(V)
    OBVIOUS
  <2>8. new \in [pieces : Seq(D), block : Seq(V)]
    BY <2>4
  <2> HIDE DEF new, none
  <2>9. GatheredUnits(new, U, config) = s
    BY <2>6, <2>7 DEF GatheredUnits, g
  <2> HIDE DEF V
  <2>10. new \in Gathering(U, config, s)
    BY <2>8, <2>9 DEF Gathering, D, V
  <2> QED
    BY <2>1, <2>7, <2>10 DEF none
<1> QED
  BY <1>2, <1>3

(* One more piece.                                                         *)
LEMMA WithPiece ==
  ASSUME NEW A, NEW B, NEW acc \in [pieces : A, block : B], NEW x
  PROVE  [acc EXCEPT !.pieces = Append(@, x)] = [pieces |-> Append(acc.pieces, x), block |-> acc.block]
  OBVIOUS

(* One more unit in the block.                                             *)
LEMMA WithUnit ==
  ASSUME NEW A, NEW B, NEW acc \in [pieces : A, block : B], NEW x
  PROVE  [acc EXCEPT !.block = Append(@, x)] = [pieces |-> acc.pieces, block |-> Append(acc.block, x)]
  OBVIOUS

(* A table gathered as a piece of its own.                                 *)
LEMMA AddTableGathers ==
  ASSUME NEW U, NEW config, NEW s \in Seq(U), NEW acc \in Gathering(U, config, s), acc.block = <<>>,
         NEW unit \in U, IsTable(unit, config)
  PROVE  [acc EXCEPT !.pieces = Append(@, TablePiece(unit))] \in Gathering(U, config, Append(s, unit))
<1> DEFINE D == PieceOf(U, config)
           g == UnitsOf(U, config)
           V == Plain(U, config)
           pieces == acc.pieces
           p == TablePiece(unit)
           one == <<unit>>
           none == <<>>
           new == [pieces |-> Append(pieces, p), block |-> none]
<1>1. /\ pieces \in Seq(D) /\ acc = [pieces |-> pieces, block |-> none]
      /\ FlattenSeq(Applied(g, pieces)) \o none = s
  BY DEF Gathering, GatheredUnits
<1>2. p \in D /\ g[p] = one /\ one \in Seq(U)
  BY PieceIs
<1>3. Maps(g, D, Seq(U))
  BY PieceUnits
<1>4. [acc EXCEPT !.pieces = Append(@, p)] = new
  <2>1. acc \in [pieces : Seq(D), block : Seq(V)]
    BY DEF Gathering
  <2> HIDE DEF D, V, p
  <2>2. [acc EXCEPT !.pieces = Append(@, p)] = [pieces |-> Append(acc.pieces, p), block |-> acc.block]
    BY <2>1, WithPiece
  <2> QED
    BY <2>2
<1>5. Append(s, unit) = s \o one
  BY AppendIsConcat
<1> HIDE DEF p, g, D, one
<1>6. /\ Append(pieces, p) \in Seq(D)
      /\ FlattenSeq(Applied(g, Append(pieces, p))) = FlattenSeq(Applied(g, pieces)) \o g[p]
      /\ FlattenSeq(Applied(g, pieces)) \in Seq(U) /\ g[p] \in Seq(U)
  BY <1>1, <1>2, <1>3, AppliedAppend
<1> DEFINE total == FlattenSeq(Applied(g, Append(pieces, p)))
<1>7. total = s \o one /\ total \in Seq(U)
  <2>1. FlattenSeq(Applied(g, pieces)) = s
    BY <1>1, <1>6, ConcatEmptySeq
  <2>2. total = s \o one
    BY <1>2, <1>6, <2>1
  <2>3. s \o one \in Seq(U)
    BY <1>2, ConcatProperties
  <2> QED
    BY <2>2, <2>3
<1>8. total \o none = s \o one
  BY <1>7, ConcatEmptySeq
<1>9. new.pieces = Append(pieces, p) /\ new.block = none /\ none \in Seq(V)
      /\ new \in [pieces : Seq(D), block : Seq(V)]
  BY <1>6
<1> HIDE DEF new, none
<1>10. GatheredUnits(new, U, config) = s \o one
  BY <1>8, <1>9 DEF GatheredUnits, g
<1> HIDE DEF V
<1>11. new \in Gathering(U, config, s \o one)
  BY <1>9, <1>10 DEF Gathering, D, V
<1> QED
  BY <1>4, <1>5, <1>11 DEF p

(* A unit gathered in the block.                                           *)
LEMMA AddPlainGathers ==
  ASSUME NEW U, NEW config, NEW s \in Seq(U), NEW acc \in Gathering(U, config, s),
         NEW unit \in U, ~IsTable(unit, config)
  PROVE  [acc EXCEPT !.block = Append(@, unit)] \in Gathering(U, config, Append(s, unit))
<1> DEFINE D == PieceOf(U, config)
           g == UnitsOf(U, config)
           V == Plain(U, config)
           pieces == acc.pieces
           block == acc.block
           one == <<unit>>
           more == Append(block, unit)
           new == [pieces |-> pieces, block |-> more]
           before == FlattenSeq(Applied(g, pieces))
<1>1. /\ pieces \in Seq(D) /\ block \in Seq(V) /\ acc = [pieces |-> pieces, block |-> block]
      /\ before \o block = s
  BY DEF Gathering, GatheredUnits
<1>2. unit \in V
  BY DEF Plain
<1>3. [acc EXCEPT !.block = Append(@, unit)] = new
  <2>1. acc \in [pieces : Seq(D), block : Seq(V)]
    BY DEF Gathering
  <2> HIDE DEF D, V
  <2>2. [acc EXCEPT !.block = Append(@, unit)] = [pieces |-> acc.pieces, block |-> Append(acc.block, unit)]
    BY <2>1, WithUnit
  <2> QED
    BY <2>2
<1>4. before \in Seq(U)
  <2>1. Maps(g, D, Seq(U))
    BY PieceUnits
  <2> DEFINE S == Seq(U)
  <2>2. Maps(g, D, S)
    BY <2>1
  <2> HIDE DEF S, g, D
  <2>3. Applied(g, pieces) \in Seq(S)
    BY <1>1, <2>2, AppliedIs
  <2> QED
    BY <2>3, FlatTyped DEF S
<1>5. block \in Seq(U)
  <2>1. Sequence(block) /\ \A i \in 1..Len(block) : block[i] \in V
    <3> HIDE DEF V
    <3> QED
      BY <1>1, Items
  <2>2. \A i \in 1..Len(block) : block[i] \in U
    BY <2>1 DEF Plain
  <2> QED
    BY <2>1, <2>2, ItemsOf
<1>6. more \in Seq(V) /\ more = block \o one /\ Append(s, unit) = s \o one /\ one \in Seq(U)
  <2> HIDE DEF V
  <2> QED
    BY <1>1, <1>2, AppendIsConcat, AppendProperties
<1> HIDE DEF before, g, D, V, one, more, block
<1>7. before \o more = s \o one
  <2>1. (before \o block) \o one = before \o (block \o one)
    BY <1>4, <1>5, <1>6, ConcatAssociative
  <2> QED
    BY <1>1, <1>6, <2>1
<1>8. new.pieces = pieces /\ new.block = more /\ new \in [pieces : Seq(D), block : Seq(V)]
  BY <1>1, <1>6
<1> HIDE DEF new
<1>9. GatheredUnits(new, U, config) = s \o one
  BY <1>7, <1>8 DEF GatheredUnits, before, g
<1>10. new \in Gathering(U, config, s \o one)
  BY <1>8, <1>9 DEF Gathering, D, V
<1> QED
  BY <1>3, <1>6, <1>10

(* A unit gathered, whichever it is.                                       *)
LEMMA AddUnitGathers ==
  ASSUME NEW U, NEW config, NEW domain, NEW s \in Seq(U), NEW acc \in Gathering(U, config, s),
         NEW unit \in U
  PROVE  AddUnit(acc, unit, domain, config) \in Gathering(U, config, Append(s, unit))
<1>1. Flush(acc) \in Gathering(U, config, s) /\ Flush(acc).block = <<>>
  BY FlushIs
<1>2. CASE IsTable(unit, config)
  <2> DEFINE a == Flush(acc)
  <2>1. AddUnit(acc, unit, domain, config) = [a EXCEPT !.pieces = Append(@, TablePiece(unit))]
    BY <1>2 DEF AddUnit, IsTable, TablePiece
  <2> HIDE DEF a
  <2>2. a \in Gathering(U, config, s) /\ a.block = <<>>
    BY <1>1 DEF a
  <2> QED
    BY <1>2, <2>1, <2>2, AddTableGathers
<1>3. CASE ~IsTable(unit, config)
  <2> DEFINE a == Break(acc, unit, domain, config)
  <2>1. AddUnit(acc, unit, domain, config) = [a EXCEPT !.block = Append(@, unit)]
    BY <1>3 DEF AddUnit, IsTable
  <2>2. a \in Gathering(U, config, s)
    BY <1>1 DEF Break
  <2> HIDE DEF a
  <2> QED
    BY <1>3, <2>1, <2>2, AddPlainGathers
<1> QED
  BY <1>2, <1>3

(* The pieces of the first n units, for every n.                            *)
PiecesRun(f, units, domain, config, U) ==
  /\ f[0] = [pieces |-> <<>>, block |-> <<>>]
  /\ \A n \in 1..Len(units) : f[n] = AddUnit(f[n - 1], units[n], domain, config)
  /\ \A n \in 0..Len(units) : f[n] \in Gathering(U, config, Prefix(units, n))

(* Pieces are gathered unit by unit, and are the units, cut.                *)
LEMMA PiecesRuns ==
  ASSUME NEW U, NEW units \in Seq(U), NEW domain, NEW config
  PROVE  /\ \E f : /\ PiecesRun(f, units, domain, config, U)
                    /\ PiecesOf(units, domain, config) = Flush(f[Len(units)]).pieces
         /\ PiecesOf(units, domain, config) \in Seq(PieceOf(U, config))
         /\ FlattenSeq(Applied(UnitsOf(U, config), PiecesOf(units, domain, config))) = units
<1> DEFINE N == Len(units)
           K == [n \in 0..N |-> Gathering(U, config, Prefix(units, n))]
           start == [pieces |-> <<>>, block |-> <<>>]
           Eq(f) == f = [n \in 0..N |-> IF n = 0 THEN start
                                        ELSE AddUnit(f[n - 1], units[n], domain, config)]
           acc == CHOOSE f : Eq(f)
           step == [n \in 1..N |-> [v \in K[n - 1] |-> AddUnit(v, units[n], domain, config)]]
<1>1. /\ N \in Nat /\ Prefix(units, 0) = <<>> /\ Prefix(units, N) = units
      /\ \A n \in 0..N : Prefix(units, n) \in Seq(U)
      /\ \A n \in 1..N : Prefix(units, n) = Append(Prefix(units, n - 1), units[n]) /\ units[n] \in U
  BY PrefixIs
<1>2. ASSUME NEW n \in 1..N, NEW v \in K[n - 1] PROVE AddUnit(v, units[n], domain, config) \in K[n]
  <2>1. n \in 0..N /\ n - 1 \in 0..N
    BY <1>1
  <2> DEFINE s == Prefix(units, n - 1)
             unit == units[n]
  <2>2. s \in Seq(U) /\ unit \in U /\ v \in Gathering(U, config, s) /\ Prefix(units, n) = Append(s, unit)
    BY <1>1, <2>1
  <2>3. K[n] = Gathering(U, config, Prefix(units, n))
    BY <2>1
  <2> HIDE DEF s, unit, K
  <2>4. AddUnit(v, unit, domain, config) \in Gathering(U, config, Append(s, unit))
    BY <2>2, AddUnitGathers
  <2> QED
    BY <2>2, <2>3, <2>4 DEF unit
<1>3. start \in K[0]
  <2> DEFINE none == <<>>
             D == PieceOf(U, config)
             g == UnitsOf(U, config)
  <2>1. Applied(g, none) = none
    BY DEF Applied
  <2>2. FlattenSeq(none) = none
    BY FlatEmpty
  <2>3. none \o none = none /\ none \in Seq(D) /\ none \in Seq(Plain(U, config))
    OBVIOUS
  <2>4. start.pieces = none /\ start.block = none
        /\ start \in [pieces : Seq(D), block : Seq(Plain(U, config))]
    OBVIOUS
  <2> HIDE DEF none, start
  <2>5. GatheredUnits(start, U, config) = none
    BY <2>1, <2>2, <2>3, <2>4 DEF GatheredUnits
  <2>6. start \in Gathering(U, config, none)
    BY <2>4, <2>5 DEF Gathering
  <2>7. K[0] = Gathering(U, config, Prefix(units, 0))
    BY <1>1
  <2> HIDE DEF K
  <2> QED
    BY <1>1, <2>6, <2>7 DEF none
<1>4. \A n \in 1..N : \A v \in K[n - 1] : step[n][v] = AddUnit(v, units[n], domain, config)
  OBVIOUS
<1>5. PiecesOf(units, domain, config) = Flush(acc[N]).pieces
  BY Zenon DEF PiecesOf
<1>6. ASSUME NEW v \in K[N]
      PROVE  /\ Flush(v).pieces \in Seq(PieceOf(U, config))
             /\ FlattenSeq(Applied(UnitsOf(U, config), Flush(v).pieces)) = units
  <2>1. v \in Gathering(U, config, units)
    <3>1. N \in 0..N
      BY <1>1
    <3>2. K[N] = Gathering(U, config, Prefix(units, N))
      BY <3>1
    <3> HIDE DEF K
    <3> QED
      BY <1>1, <3>2
  <2> DEFINE a == Flush(v)
             D == PieceOf(U, config)
             g == UnitsOf(U, config)
  <2>2. a \in Gathering(U, config, units) /\ a.block = <<>>
    BY <2>1, FlushIs
  <2> HIDE DEF a
  <2>3. a.pieces \in Seq(D) /\ FlattenSeq(Applied(g, a.pieces)) \o <<>> = units
    BY <2>2 DEF Gathering, GatheredUnits
  <2>4. FlattenSeq(Applied(g, a.pieces)) \in Seq(U)
    <3> DEFINE S == Seq(U)
    <3>1. Maps(g, D, S)
      BY PieceUnits
    <3> HIDE DEF S, g, D
    <3>2. Applied(g, a.pieces) \in Seq(S)
      BY <2>3, <3>1, AppliedIs
    <3> QED
      BY <3>2, FlatTyped DEF S
  <2>5. FlattenSeq(Applied(g, a.pieces)) = units
    BY <2>3, <2>4, ConcatEmptySeq
  <2> QED
    BY <2>3, <2>5 DEF a
<1> HIDE DEF K, step, start
<1>7. Keeps(step, K, N)
  BY <1>2, <1>4 DEF Keeps
<1>8. \E X : \E g \in [0..N -> X] : Along(g, N, start, step, K)
  BY <1>1, <1>3, <1>7, FoldExists
<1>9. \E g : Eq(g)
  <2> PICK X : \E g \in [0..N -> X] : Along(g, N, start, step, K)
    BY <1>8
  <2> PICK g \in [0..N -> X] : Along(g, N, start, step, K)
    OBVIOUS
  <2>1. \A n \in 0..N : n # 0 => n \in 1..N /\ n - 1 \in 0..N
    BY <1>1
  <2>2. \A n \in 0..N : g[n] = IF n = 0 THEN start ELSE AddUnit(g[n - 1], units[n], domain, config)
    BY <1>4, <2>1 DEF Along
  <2>3. Eq(g)
    BY <2>2
  <2> QED
    BY <2>3
<1>10. Eq(acc)
  BY <1>9
<1> HIDE DEF acc
<1>11. \A n \in 0..N : acc[n] = IF n = 0 THEN start ELSE AddUnit(acc[n - 1], units[n], domain, config)
  BY <1>10
<1>12. \A n \in 0..N : acc[n] \in K[n]
  <2>1. \A n \in 1..N : n \in 0..N /\ n # 0
    BY <1>1
  <2>2. Follows(acc, N, step, K)
    BY <1>4, <1>11, <2>1 DEF Follows
  <2>3. acc[0] \in K[0]
    BY <1>1, <1>3, <1>11
  <2> QED
    BY <1>1, <1>7, <2>2, <2>3, FoldKept
<1>13. N \in 0..N
  BY <1>1
<1>14. \A n \in 0..N : acc[n] \in Gathering(U, config, Prefix(units, n))
  BY <1>12 DEF K
<1>15. 0 \in 0..N /\ \A n \in 1..N : n \in 0..N /\ n # 0
  BY <1>1
<1>16. PiecesRun(acc, units, domain, config, U)
  BY <1>11, <1>14, <1>15 DEF PiecesRun, start
<1>17. acc[N] \in K[N]
  BY <1>12, <1>13
<1>18. \E f : /\ PiecesRun(f, units, domain, config, U)
              /\ PiecesOf(units, domain, config) = Flush(f[Len(units)]).pieces
  BY <1>5, <1>16
<1> QED
  BY <1>5, <1>6, <1>17, <1>18

(* The pieces are the units, cut.                                          *)
LEMMA PiecesAre ==
  ASSUME NEW U, NEW units \in Seq(U), NEW domain, NEW config
  PROVE  /\ PiecesOf(units, domain, config) \in Seq(PieceOf(U, config))
         /\ FlattenSeq(Applied(UnitsOf(U, config), PiecesOf(units, domain, config))) = units
<1> QED
  BY PiecesRuns

-----------------------------------------------------------------------------
(* Where the items of a whole come from.                                   *)

(* A walk along 1..m that stays or goes one on with every step.             *)
Walk(at, n, m) ==
  /\ at \in [1..n -> 1..m]
  /\ \A k \in 1..(n - 1) : at[k + 1] \in {at[k], at[k] + 1}

(* Places p to q of the walk visit a range.                                *)
RangeVisited(at, p, q) == at[p] <= at[q] /\ {at[k] : k \in p..q} = at[p]..at[q]

(* A stretch of a walk visits a range.                                     *)
LEMMA WalkRange ==
  ASSUME NEW n \in Nat, NEW m \in Nat, NEW at, Walk(at, n, m), NEW c \in 1..n, NEW d \in c..n
  PROVE  RangeVisited(at, c, d)
<1> DEFINE Good == {k \in 0..(n - c) : /\ at[c] <= at[c + k]
                                       /\ {at[j] : j \in c..(c + k)} = at[c]..at[c + k]}
<1>1. \A k \in 1..n : at[k] \in 1..m
  BY DEF Walk
<1>2. 0 \in Good
  <2>1. c..(c + 0) = {c} /\ c + 0 = c /\ 0 \in 0..(n - c)
    OBVIOUS
  <2>2. at[c]..at[c] = {at[c]} /\ at[c] <= at[c]
    BY <1>1
  <2> QED
    BY <2>1, <2>2
<1>3. ASSUME NEW k \in 0..(n - c), k # 0, k - 1 \in Good PROVE k \in Good
  <2>1. /\ k - 1 \in 0..(n - c) /\ c + (k - 1) \in 1..(n - 1) /\ c + k \in 1..n
        /\ (c + (k - 1)) + 1 = c + k
    BY <1>3
  <2> DEFINE a == at[c + (k - 1)]
             b == at[c + k]
             low == at[c]
  <2>2. b \in {a, a + 1} /\ a \in 1..m /\ b \in 1..m /\ low \in 1..m
    BY <1>1, <2>1 DEF Walk
  <2>3. low <= a /\ {at[j] : j \in c..(c + (k - 1))} = low..a
    BY <1>3
  <2>4. c..(c + k) = c..(c + (k - 1)) \cup {c + k}
    BY <2>1
  <2>5. {at[j] : j \in c..(c + k)} = {at[j] : j \in c..(c + (k - 1))} \cup {b}
    BY <2>4
  <2> HIDE DEF a, b, low
  <2>6. low <= b /\ (low..a) \cup {b} = low..b
    BY <2>2, <2>3
  <2> QED
    BY <2>3, <2>5, <2>6 DEF b, low
<1>4. n - c \in Nat
  OBVIOUS
<1> HIDE DEF Good
<1>5. \A k \in 0..(n - c) : k \in Good
  BY <1>2, <1>3, <1>4, Induction
<1>6. d - c \in 0..(n - c) /\ c + (d - c) = d
  OBVIOUS
<1> QED
  BY <1>5, <1>6 DEF Good, RangeVisited

(* The first i parts, and the walk through them.                           *)
Visits(at, s, ss, i) ==
  /\ Walk(at, Len(s), i)
  /\ \A k \in 1..Len(s) : s[k] \in ToSet(ss[at[k]])
  /\ i # 0 => Len(s) # 0 /\ at[Len(s)] = i

(* The walk goes on through one part more.                                 *)
LEMMA VisitsNext ==
  ASSUME NEW T, NEW s \in Seq(T), NEW ss, NEW i \in Nat, i # 0, ss[i] \in Seq(T), ss[i] # <<>>,
         NEW at, Visits(at, s, ss, i - 1)
  PROVE  \E to : Visits(to, s \o ss[i], ss, i)
<1> DEFINE n == Len(s)
           m == Len(ss[i])
           r == s \o ss[i]
           to == [k \in 1..(n + m) |-> IF k <= n THEN at[k] ELSE i]
<1>1. /\ n \in Nat /\ m \in Nat /\ m # 0 /\ Len(r) = n + m
      /\ \A k \in 1..(n + m) : r[k] = IF k <= n THEN s[k] ELSE ss[i][k - n]
  <2> DEFINE x == ss[i]
  <2>1. x \in Seq(T) /\ x # <<>> 
    OBVIOUS
  <2> HIDE DEF x
  <2>2. Len(s) \in Nat /\ Len(x) \in Nat /\ Len(x) # 0
    BY <2>1, EmptySeq, LenProperties
  <2>3. /\ Len(s \o x) = Len(s) + Len(x)
        /\ \A k \in 1..(Len(s) + Len(x)) : (s \o x)[k] = IF k <= Len(s) THEN s[k] ELSE x[k - Len(s)]
    BY <2>1, ConcatProperties
  <2> QED
    BY <2>2, <2>3 DEF x
<1>2. /\ \A k \in 1..n : at[k] \in 1..(i - 1) /\ s[k] \in ToSet(ss[at[k]])
      /\ \A k \in 1..(n - 1) : at[k + 1] \in {at[k], at[k] + 1}
      /\ i - 1 # 0 => n # 0 /\ at[n] = i - 1
  BY DEF Visits, Walk
<1>3. \A k \in 1..m : ss[i][k] \in ToSet(ss[i])
  <2> DEFINE x == ss[i]
  <2>1. x \in Seq(T)
    OBVIOUS
  <2> HIDE DEF x
  <2>2. DOMAIN x = 1..Len(x)
    BY <2>1, LenProperties
  <2>3. \A k \in 1..Len(x) : x[k] \in ToSet(x)
    BY <2>2 DEF ToSet
  <2> QED
    BY <2>3 DEF x
<1> HIDE DEF r, m, n
<1>4. /\ \A k \in 1..(n + m) : to[k] = IF k <= n THEN at[k] ELSE i
      /\ to \in [1..(n + m) -> 1..i]
  BY <1>1, <1>2
<1>5. n = 0 => i = 1
  BY <1>2
<1> HIDE DEF to
<1>6. \A k \in 1..(n + m - 1) : to[k + 1] \in {to[k], to[k] + 1}
  <2> SUFFICES ASSUME NEW k \in 1..(n + m - 1) PROVE to[k + 1] \in {to[k], to[k] + 1}
    OBVIOUS
  <2>0. k \in 1..(n + m) /\ k + 1 \in 1..(n + m)
    BY <1>1
  <2>1. CASE k + 1 <= n
    <3>1. k \in 1..(n - 1) /\ to[k + 1] = at[k + 1] /\ to[k] = at[k]
      BY <1>1, <1>4, <2>0, <2>1
    <3> QED
      BY <1>2, <3>1
  <2>2. CASE k = n
    <3>1. to[k + 1] = i /\ to[k] = at[n] /\ n # 0 /\ n \in 1..n
      BY <1>1, <1>4, <2>0, <2>2
    <3>2. at[n] = i - 1
      BY <1>2, <3>1
    <3> QED
      BY <3>1, <3>2
  <2>3. CASE k > n
    BY <1>1, <1>4, <2>0, <2>3
  <2> QED
    BY <1>1, <2>1, <2>2, <2>3
<1>7. \A k \in 1..(n + m) : r[k] \in ToSet(ss[to[k]])
  <2> SUFFICES ASSUME NEW k \in 1..(n + m) PROVE r[k] \in ToSet(ss[to[k]])
    OBVIOUS
  <2>1. CASE k <= n
    <3>1. k \in 1..n
      BY <1>1, <2>1
    <3> QED
      BY <1>1, <1>2, <1>4, <2>1, <3>1
  <2>2. CASE k > n
    <3>1. k - n \in 1..m
      BY <1>1, <2>2
    <3>2. to[k] = i /\ r[k] = ss[i][k - n]
      BY <1>1, <1>4, <2>2
    <3> QED
      BY <1>3, <3>1, <3>2 DEF m
  <2> QED
    BY <1>1, <2>1, <2>2
<1>8. to[n + m] = i /\ n + m # 0
  BY <1>1, <1>4
<1>9. Visits(to, r, ss, i)
  BY <1>1, <1>4, <1>6, <1>7, <1>8 DEF Visits, Walk
<1> QED
  BY <1>9 DEF r

(* Through parts that are not empty the whole walks, part after part.      *)
LEMMA FlatWalk ==
  ASSUME NEW T, NEW ss \in Seq(Seq(T)), \A i \in 1..Len(ss) : ss[i] # <<>>
  PROVE  \E at : Visits(at, FlattenSeq(ss), ss, Len(ss))
<1> DEFINE n == Len(ss)
<1>1. PICK f \in [0..n -> Seq(T)] :
        /\ FlattenSeq(ss) = f[n] /\ f[0] = <<>>
        /\ \A i \in 1..n : f[i] = f[i - 1] \o ss[i]
  BY FlatIs
<1>2. n \in Nat /\ \A i \in 1..n : ss[i] \in Seq(T)
  <2> DEFINE S == Seq(T)
  <2>1. ss \in Seq(S)
    OBVIOUS
  <2> HIDE DEF S
  <2>2. Len(ss) \in Nat /\ \A i \in 1..Len(ss) : ss[i] \in S
    BY <2>1, LenProperties, ElementOfSeq
  <2> QED
    BY <2>2 DEF S
<1> DEFINE Good == {i \in 0..n : \E at : Visits(at, f[i], ss, i)}
<1>3. 0 \in Good
  <2> DEFINE at == [k \in 1..0 |-> 1]
  <2>1. at \in [1..0 -> 1..0] /\ 1..0 = {}
    OBVIOUS
  <2>2. Len(f[0]) = 0 /\ 0 \in 0..n
    BY <1>1, <1>2, EmptySeq
  <2>3. \A k \in 1..(0 - 1) : FALSE
    OBVIOUS
  <2> HIDE DEF at
  <2>4. Visits(at, f[0], ss, 0)
    BY <2>1, <2>2, <2>3 DEF Visits, Walk
  <2> QED
    BY <2>2, <2>4
<1>4. ASSUME NEW i \in 0..n, i # 0, i - 1 \in Good PROVE i \in Good
  <2>1. PICK at : Visits(at, f[i - 1], ss, i - 1)
    BY <1>4
  <2>2. i \in 1..n /\ i - 1 \in 0..n /\ i \in Nat
    BY <1>2, <1>4
  <2>3. f[i - 1] \in Seq(T) /\ ss[i] \in Seq(T) /\ ss[i] # <<>> /\ f[i] = f[i - 1] \o ss[i]
    BY <1>1, <1>2, <2>2
  <2>4. \E to : Visits(to, f[i - 1] \o ss[i], ss, i)
    BY <1>4, <2>1, <2>2, <2>3, VisitsNext
  <2> QED
    BY <2>3, <2>4
<1> HIDE DEF Good
<1>5. \A i \in 0..n : i \in Good
  BY <1>2, <1>3, <1>4, Induction
<1>6. n \in 0..n
  BY <1>2
<1> QED
  BY <1>1, <1>5, <1>6 DEF Good

(* The items of a part stand together in the whole, before those of the      *)
(* parts behind it.                                                        *)
LEMMA FlatPlaces ==
  ASSUME NEW T, NEW ss \in Seq(Seq(T))
  PROVE  \E o \in [1..Len(ss) -> Nat] :
           /\ \A i \in 1..Len(ss) :
                /\ o[i] + Len(ss[i]) <= Len(FlattenSeq(ss))
                /\ \A k \in 1..Len(ss[i]) : FlattenSeq(ss)[o[i] + k] = ss[i][k]
           /\ \A i, j \in 1..Len(ss) : i < j => o[i] + Len(ss[i]) <= o[j]
<1> DEFINE n == Len(ss)
<1>1. PICK f \in [0..n -> Seq(T)] :
        /\ FlattenSeq(ss) = f[n] /\ f[0] = <<>>
        /\ \A j \in 1..n : f[j] = f[j - 1] \o ss[j]
  BY FlatIs
<1>2. n \in Nat /\ \A j \in 1..n : ss[j] \in Seq(T)
  <2> DEFINE S == Seq(T)
  <2>1. ss \in Seq(S)
    OBVIOUS
  <2> HIDE DEF S
  <2>2. Len(ss) \in Nat /\ \A j \in 1..Len(ss) : ss[j] \in S
    BY <2>1, LenProperties, ElementOfSeq
  <2> QED
    BY <2>2 DEF S
<1>3. \A j \in 1..n :
        /\ Len(f[j - 1]) \in Nat /\ Len(ss[j]) \in Nat
        /\ Len(f[j]) = Len(f[j - 1]) + Len(ss[j])
        /\ \A k \in 1..Len(f[j - 1]) : f[j][k] = f[j - 1][k]
        /\ \A k \in 1..Len(ss[j]) : f[j][Len(f[j - 1]) + k] = ss[j][k]
  <2> SUFFICES ASSUME NEW j \in 1..n
               PROVE  /\ Len(f[j - 1]) \in Nat /\ Len(ss[j]) \in Nat
                      /\ Len(f[j]) = Len(f[j - 1]) + Len(ss[j])
                      /\ \A k \in 1..Len(f[j - 1]) : f[j][k] = f[j - 1][k]
                      /\ \A k \in 1..Len(ss[j]) : f[j][Len(f[j - 1]) + k] = ss[j][k]
    OBVIOUS
  <2> DEFINE a == f[j - 1]
             b == ss[j]
  <2>1. j - 1 \in 0..n
    BY <1>2
  <2>2. a \in Seq(T) /\ b \in Seq(T) /\ f[j] = a \o b
    BY <1>1, <1>2, <2>1
  <2> HIDE DEF a, b
  <2>3. /\ Len(a) \in Nat /\ Len(b) \in Nat /\ Len(a \o b) = Len(a) + Len(b)
        /\ \A k \in 1..(Len(a) + Len(b)) : (a \o b)[k] = IF k <= Len(a) THEN a[k] ELSE b[k - Len(a)]
    BY <2>2, LenProperties, ConcatProperties
  <2>4. \A k \in 1..Len(a) : (a \o b)[k] = a[k]
    BY <2>3
  <2>5. ASSUME NEW k \in 1..Len(b) PROVE (a \o b)[Len(a) + k] = b[k]
    <3>1. Len(a) + k \in 1..(Len(a) + Len(b)) /\ ~(Len(a) + k <= Len(a)) /\ (Len(a) + k) - Len(a) = k
      BY <2>3
    <3> QED
      BY <2>3, <3>1
  <2> QED
    BY <2>2, <2>3, <2>4, <2>5 DEF a, b
<1> DEFINE places == [i \in 1..n |-> Len(f[i - 1])]
<1>4. ASSUME NEW i \in 1..n
      PROVE  /\ Len(f[i - 1]) \in Nat
             /\ \A j \in i..n : /\ Len(f[i - 1]) + Len(ss[i]) <= Len(f[j])
                               /\ \A k \in 1..Len(ss[i]) : f[j][Len(f[i - 1]) + k] = ss[i][k]
  <2> DEFINE m == Len(ss[i])
             o == Len(f[i - 1])
             At(j) == /\ Len(f[j]) \in Nat /\ o + m <= Len(f[j])
                      /\ \A k \in 1..m : f[j][o + k] = ss[i][k]
             Good == {d \in 0..(n - i) : At(i + d)}
  <2>1. /\ o \in Nat /\ m \in Nat /\ Len(f[i]) = o + m
        /\ \A k \in 1..m : f[i][o + k] = ss[i][k]
    BY <1>3
  <2> HIDE DEF o, m
  <2>2. At(i)
    BY <2>1
  <2>3. 0 \in Good
    <3>1. i + 0 = i /\ 0 \in 0..(n - i)
      BY <1>2
    <3> QED
      BY <2>2, <3>1
  <2>4. ASSUME NEW d \in 0..(n - i), d # 0, d - 1 \in Good PROVE d \in Good
    <3> DEFINE j == i + d
    <3>1. j \in 1..n /\ j - 1 = i + (d - 1)
      BY <1>2, <2>4
    <3>2. At(j - 1)
      BY <2>4, <3>1
    <3> HIDE DEF j
    <3>3. /\ Len(f[j - 1]) \in Nat /\ o + m <= Len(f[j - 1])
          /\ \A k \in 1..m : f[j - 1][o + k] = ss[i][k]
      BY <3>2
    <3>4. /\ Len(ss[j]) \in Nat /\ Len(f[j]) = Len(f[j - 1]) + Len(ss[j])
          /\ \A k \in 1..Len(f[j - 1]) : f[j][k] = f[j - 1][k]
      BY <1>3, <3>1
    <3>5. ASSUME NEW k \in 1..m PROVE f[j][o + k] = ss[i][k]
      <4>1. o + k \in 1..Len(f[j - 1])
        BY <2>1, <3>3
      <4> QED
        BY <3>3, <3>4, <4>1
    <3>6. Len(f[j]) \in Nat /\ o + m <= Len(f[j])
      <4> DEFINE x == Len(f[j])
                 y == Len(f[j - 1])
                 z == Len(ss[j])
      <4>1. x = y + z /\ y \in Nat /\ z \in Nat /\ o + m <= y
        BY <3>3, <3>4
      <4> HIDE DEF x, y, z
      <4>2. x \in Nat /\ o + m <= x
        BY <2>1, <4>1
      <4> QED
        BY <4>2 DEF x
    <3>7. At(j)
      BY <3>5, <3>6
    <3> QED
      BY <3>7 DEF j
  <2>5. n - i \in Nat
    BY <1>2
  <2> HIDE DEF Good
  <2>6. \A d \in 0..(n - i) : d \in Good
    BY <2>3, <2>4, <2>5, Induction
  <2>7. \A j \in i..n : j - i \in 0..(n - i) /\ i + (j - i) = j
    BY <1>2
  <2>8. ASSUME NEW j \in i..n PROVE At(j)
    <3>1. j - i \in Good /\ i + (j - i) = j
      BY <2>6, <2>7
    <3> QED
      BY <3>1 DEF Good
  <2> QED
    BY <2>1, <2>8 DEF o, m
<1>5. places \in [1..n -> Nat] /\ \A i \in 1..n : places[i] = Len(f[i - 1])
  BY <1>4
<1> HIDE DEF places
<1>6. \A i \in 1..n : i \in i..n /\ n \in i..n /\ \A j \in 1..n : i < j => j - 1 \in i..n
  BY <1>2
<1>7. ASSUME NEW i \in 1..n
      PROVE  /\ places[i] + Len(ss[i]) <= Len(f[n])
             /\ \A k \in 1..Len(ss[i]) : f[n][places[i] + k] = ss[i][k]
  BY <1>4, <1>5, <1>6
<1>8. ASSUME NEW i \in 1..n, NEW j \in 1..n, i < j PROVE places[i] + Len(ss[i]) <= places[j]
  BY <1>4, <1>5, <1>6, <1>8
<1> DEFINE Apart(o) ==
             /\ \A i \in 1..n : /\ o[i] + Len(ss[i]) <= Len(FlattenSeq(ss))
                               /\ \A k \in 1..Len(ss[i]) : FlattenSeq(ss)[o[i] + k] = ss[i][k]
             /\ \A i, j \in 1..n : i < j => o[i] + Len(ss[i]) <= o[j]
<1>9. Apart(places)
  BY <1>1, <1>7, <1>8
<1>10. \E o \in [1..n -> Nat] : Apart(o)
  BY <1>5, <1>9
<1> QED
  BY <1>10

(* One part of them.                                                       *)
LEMMA FlatPlace ==
  ASSUME NEW T, NEW ss \in Seq(Seq(T)), NEW i \in 1..Len(ss)
  PROVE  \E o \in Nat : /\ o + Len(ss[i]) <= Len(FlattenSeq(ss))
                        /\ \A k \in 1..Len(ss[i]) : FlattenSeq(ss)[o + k] = ss[i][k]
<1>1. PICK o \in [1..Len(ss) -> Nat] :
        /\ o[i] + Len(ss[i]) <= Len(FlattenSeq(ss))
        /\ \A k \in 1..Len(ss[i]) : FlattenSeq(ss)[o[i] + k] = ss[i][k]
  BY FlatPlaces
<1>2. o[i] \in Nat
  OBVIOUS
<1> QED
  BY <1>1, <1>2

-----------------------------------------------------------------------------
(* Chunks that stand on neighbouring units.                                *)

LimitOf(chunk, config) ==
  IF config.strategy = "semantic" /\ chunk.rows = <<>> THEN config.max_tokens ELSE config.chunk_size

(* The words, elements and pages of a chunk are those of units lo to hi.    *)
Among(b, chunk, lo, hi) ==
  /\ Sequence(chunk.text) /\ chunk.text # <<>>
  /\ chunk.sources = {b[i].source : i \in lo..hi}
  /\ chunk.pages = {b[i].page : i \in lo..hi} \ {0}
  /\ ToSet(chunk.text) \subseteq UNION {ToSet(Text(b[i].rows)) : i \in lo..hi}

FitsLimit(chunk, config, lo, hi) ==
  IF chunk.oversized THEN lo = hi /\ Len(chunk.text) > LimitOf(chunk, config)
  ELSE Len(chunk.text) <= LimitOf(chunk, config)

Stands(b, chunk, config) ==
  \E lo \in 1..Len(b) : \E hi \in lo..Len(b) : Among(b, chunk, lo, hi) /\ FitsLimit(chunk, config, lo, hi)

(* The items of a part come from one unit.                                 *)
Tagged(ss, b) ==
  \A u \in 1..Len(ss) : \A x \in ToSet(ss[u]) : x.source = b[u].source /\ x.page = b[u].page

(* Items p to q come from the units lo to hi.                              *)
ComeFrom(s, p, q, ss, b, lo, hi) ==
  /\ {s[k].source : k \in p..q} = {b[i].source : i \in lo..hi}
  /\ {s[k].page : k \in p..q} = {b[i].page : i \in lo..hi}
  /\ \A k \in p..q : \E i \in lo..hi : s[k] \in ToSet(ss[i])
  /\ p = q => lo = hi

(* A stretch of what the units give comes from neighbours among them.      *)
LEMMA StretchIs ==
  ASSUME NEW T, NEW ss \in Seq(Seq(T)), \A u \in 1..Len(ss) : ss[u] # <<>>,
         NEW b, Tagged(ss, b),
         NEW s, s = FlattenSeq(ss), NEW p \in 1..Len(s), NEW q \in p..Len(s)
  PROVE  \E lo \in 1..Len(ss) : \E hi \in lo..Len(ss) : ComeFrom(s, p, q, ss, b, lo, hi)
<1> DEFINE n == Len(s)
           m == Len(ss)
<1>1. PICK at : Visits(at, s, ss, m)
  BY FlatWalk
<1>2. n \in Nat /\ m \in Nat
  <2>1. s \in Seq(T)
    BY FlatTyped
  <2> QED
    BY <2>1, LenProperties
<1>3. /\ Walk(at, n, m) /\ \A k \in 1..n : s[k] \in ToSet(ss[at[k]]) /\ at[k] \in 1..m
  BY <1>1 DEF Visits, Walk
<1> HIDE DEF n, m
<1>4. p \in 1..n /\ q \in p..n /\ q \in 1..n
  BY <1>2 DEF n
<1>5. at[p] <= at[q] /\ {at[k] : k \in p..q} = at[p]..at[q]
  <2>1. n \in Nat /\ m \in Nat /\ Walk(at, n, m) /\ p \in 1..n /\ q \in p..n
    BY <1>2, <1>3, <1>4
  <2>2. RangeVisited(at, p, q)
    BY ONLY <2>1, WalkRange
  <2> QED
    BY <2>2 DEF RangeVisited
<1> DEFINE lo == at[p]
           hi == at[q]
<1>6. lo \in 1..m /\ hi \in lo..m
  BY <1>2, <1>3, <1>4, <1>5
<1>7. \A k \in p..q : /\ k \in 1..n /\ at[k] \in lo..hi /\ at[k] \in 1..m
                      /\ s[k] \in ToSet(ss[at[k]])
                      /\ s[k].source = b[at[k]].source /\ s[k].page = b[at[k]].page
  <2> SUFFICES ASSUME NEW k \in p..q
               PROVE  /\ k \in 1..n /\ at[k] \in lo..hi /\ at[k] \in 1..m
                      /\ s[k] \in ToSet(ss[at[k]])
                      /\ s[k].source = b[at[k]].source /\ s[k].page = b[at[k]].page
    OBVIOUS
  <2>1. k \in 1..n
    BY <1>2, <1>4
  <2>2. at[k] \in lo..hi
    BY <1>5
  <2>3. at[k] \in 1..m /\ s[k] \in ToSet(ss[at[k]])
    BY <1>3, <2>1
  <2>4. s[k].source = b[at[k]].source /\ s[k].page = b[at[k]].page
    BY <2>3 DEF Tagged, m
  <2> QED
    BY <2>1, <2>2, <2>3, <2>4
<1>8. \A i \in lo..hi : \E k \in p..q : at[k] = i
  BY <1>5
<1> HIDE DEF lo, hi
<1>9. /\ {s[k].source : k \in p..q} = {b[i].source : i \in lo..hi}
      /\ {s[k].page : k \in p..q} = {b[i].page : i \in lo..hi}
      /\ \A k \in p..q : \E i \in lo..hi : s[k] \in ToSet(ss[i])
  <2>1. \A k \in p..q : \E i \in lo..hi : i = at[k] /\ s[k].source = b[i].source /\ s[k].page = b[i].page
    BY <1>7
  <2>2. \A i \in lo..hi : \E k \in p..q : s[k].source = b[i].source /\ s[k].page = b[i].page
    BY <1>7, <1>8
  <2>3. {s[k].source : k \in p..q} = {b[i].source : i \in lo..hi}
    <3> DEFINE X == {s[k].source : k \in p..q}
               Y == {b[i].source : i \in lo..hi}
    <3>1. \A x \in X : x \in Y
      BY <2>1
    <3>2. \A y \in Y : y \in X
      BY <2>2
    <3> HIDE DEF X, Y
    <3>3. X = Y
      BY <3>1, <3>2
    <3> QED
      BY <3>3 DEF X, Y
  <2>4. {s[k].page : k \in p..q} = {b[i].page : i \in lo..hi}
    <3> DEFINE X == {s[k].page : k \in p..q}
               Y == {b[i].page : i \in lo..hi}
    <3>1. \A x \in X : x \in Y
      BY <2>1
    <3>2. \A y \in Y : y \in X
      BY <2>2
    <3> HIDE DEF X, Y
    <3>3. X = Y
      BY <3>1, <3>2
    <3> QED
      BY <3>3 DEF X, Y
  <2> QED
    BY <1>7, <2>1, <2>3, <2>4
<1>10. p = q => lo = hi
  BY DEF lo, hi
<1>11. ComeFrom(s, p, q, ss, b, lo, hi)
  BY <1>9, <1>10 DEF ComeFrom
<1> QED
  BY <1>6, <1>11 DEF m

(* Units with words.                                                       *)
NoneEmpty(units) == \A u \in 1..Len(units) : Text(units[u].rows) # <<>>

(* The references of a block, unit by unit.                                *)
LEMMA RefsByUnit ==
  ASSUME NEW W, NEW units, Worded(units, W), NoneEmpty(units)
  PROVE  \E A, B : \E css \in Seq(Seq(Ref(W, A, B))) :
           /\ Refs(units) = FlattenSeq(css) /\ Len(css) = Len(units) /\ Tagged(css, units)
           /\ \A u \in 1..Len(css) : /\ css[u] # <<>>
                                     /\ \A x \in ToSet(css[u]) : x.word \in ToSet(Text(units[u].rows))
<1> DEFINE N == Len(units)
           A == {units[u].source : u \in 1..N}
           B == {units[u].page : u \in 1..N}
           D == Ref(W, A, B)
           css == [u \in DOMAIN units |-> RefsOf(units[u], Text(units[u].rows))]
<1>1. /\ N \in Nat /\ DOMAIN units = 1..N
      /\ \A u \in 1..N : Text(units[u].rows) \in Seq(W)
  BY TextsAre
<1>2. css = [u \in 1..N |-> css[u]] /\ \A u \in 1..N : css[u] = RefsOf(units[u], Text(units[u].rows))
  BY <1>1
<1>3. Refs(units) = FlattenSeq(css)
  BY DEF Refs
<1>4. \A u \in 1..N : From(units[u], A, B)
  BY DEF From
<1> HIDE DEF css, A, B
<1>5. \A u \in 1..N : css[u] \in Seq(D)
  BY <1>1, <1>2, <1>4, RefsOfAre
<1> HIDE DEF N
<1>6. css \in Seq(Seq(D)) /\ Len(css) = N
  <2> DEFINE S == Seq(D)
  <2>1. \A u \in 1..N : css[u] \in S
    BY <1>5
  <2> HIDE DEF S
  <2>2. css \in Seq(S) /\ Len(css) = N
    BY <1>1, <1>2, <2>1, Listed
  <2> QED
    BY <2>2 DEF S
<1>7. ASSUME NEW u \in 1..N
      PROVE  /\ css[u] # <<>>
             /\ \A x \in ToSet(css[u]) : /\ x.word \in ToSet(Text(units[u].rows))
                                         /\ x.source = units[u].source /\ x.page = units[u].page
  <2> DEFINE text == Text(units[u].rows)
             unit == units[u]
             r == css[u]
             n == Len(text)
  <2>1. text \in Seq(W) /\ text # <<>> /\ r = RefsOf(unit, text)
    BY <1>1, <1>2 DEF NoneEmpty, N
  <2> HIDE DEF text, r, unit
  <2>2. DOMAIN text = 1..n /\ n \in Nat /\ n # 0
    BY <2>1, LenProperties, EmptySeq
  <2>3. r = [i \in 1..n |-> [word |-> text[i], source |-> unit.source, page |-> unit.page]]
    BY <2>1, <2>2 DEF RefsOf
  <2>4. DOMAIN r = 1..n /\ \A i \in 1..n : /\ r[i].word = text[i]
                                           /\ r[i].source = unit.source /\ r[i].page = unit.page
    BY <2>3
  <2>5. 1 \in DOMAIN r /\ r # <<>>
    BY <2>2, <2>4
  <2>6. \A i \in 1..n : text[i] \in ToSet(text)
    BY <2>2 DEF ToSet
  <2>7. \A x \in ToSet(r) : x.word \in ToSet(text) /\ x.source = unit.source /\ x.page = unit.page
    BY <2>4, <2>6 DEF ToSet
  <2> QED
    BY <2>5, <2>7 DEF text, r, unit
<1>8. Tagged(css, units)
  BY <1>6, <1>7 DEF Tagged
<1>9. /\ css \in Seq(Seq(Ref(W, A, B))) /\ Len(css) = Len(units)
      /\ \A u \in 1..Len(css) : /\ css[u] # <<>>
                                /\ \A x \in ToSet(css[u]) : x.word \in ToSet(Text(units[u].rows))
  BY <1>6, <1>7 DEF N
<1> HIDE DEF D
<1> QED
  BY <1>3, <1>8, <1>9

(* A part is items p to q of the whole.                                    *)
IsPart(part, s, p, q) ==
  /\ p \in 1..Len(s) /\ q \in p..Len(s) /\ (Len(part) = 1 => p = q)
  /\ Sources(part) = {s[k].source : k \in p..q}
  /\ PagesIn(part) = {s[k].page : k \in p..q}
  /\ \A x \in ToSet(part) : \E k \in p..q : x = s[k]

(* The items of a part, in the whole it stands in.                         *)
LEMMA PartIs ==
  ASSUME NEW T, NEW s \in Seq(T), NEW part \in Seq(T), part # <<>>, NEW o \in Nat,
         o + Len(part) <= Len(s), \A k \in 1..Len(part) : s[o + k] = part[k]
  PROVE  IsPart(part, s, o + 1, o + Len(part))
<1> DEFINE m == Len(part)
           p == o + 1
           q == o + m
<1>1. m \in Nat /\ m # 0 /\ DOMAIN part = 1..m /\ Len(s) \in Nat
  BY LenProperties, EmptySeq
<1>2. \A k \in 1..m : o + k \in p..q /\ s[o + k] = part[k]
  BY <1>1
<1>3. \A k \in p..q : k - o \in 1..m /\ o + (k - o) = k
  BY <1>1
<1>4. p \in 1..Len(s) /\ q \in p..Len(s) /\ (m = 1 => p = q)
  BY <1>1
<1> HIDE DEF m, p, q
<1>5. \A k \in p..q : \E i \in 1..m : s[k] = part[i]
  <2> TAKE k \in p..q
  <2>1. k - o \in 1..m /\ s[k] = part[k - o]
    BY <1>2, <1>3
  <2> QED
    BY <2>1
<1>6. \A i \in 1..m : \E k \in p..q : s[k] = part[i]
  BY <1>2
<1>7. Sources(part) = {s[k].source : k \in p..q}
  <2> DEFINE X == {part[i].source : i \in 1..m}
             Y == {s[k].source : k \in p..q}
  <2>1. \A x \in X : x \in Y
    BY <1>6
  <2>2. \A y \in Y : y \in X
    BY <1>5
  <2>3. Sources(part) = X
    BY <1>1 DEF Sources
  <2> HIDE DEF X, Y
  <2>4. X = Y
    BY <2>1, <2>2
  <2> QED
    BY <2>3, <2>4 DEF Y
<1>8. PagesIn(part) = {s[k].page : k \in p..q}
  <2> DEFINE X == {part[i].page : i \in 1..m}
             Y == {s[k].page : k \in p..q}
  <2>1. \A x \in X : x \in Y
    BY <1>6
  <2>2. \A y \in Y : y \in X
    BY <1>5
  <2>3. PagesIn(part) = X
    BY <1>1 DEF PagesIn
  <2> HIDE DEF X, Y
  <2>4. X = Y
    BY <2>1, <2>2
  <2> QED
    BY <2>3, <2>4 DEF Y
<1>9. \A x \in ToSet(part) : \E k \in p..q : x = s[k]
  BY <1>1, <1>6 DEF ToSet
<1> QED
  BY <1>4, <1>7, <1>8, <1>9 DEF IsPart, m, p, q

(* The items of a part come from the units lo to hi.                       *)
FromTo(part, ss, b, lo, hi) ==
  /\ Sources(part) = {b[i].source : i \in lo..hi}
  /\ PagesIn(part) = {b[i].page : i \in lo..hi}
  /\ \A x \in ToSet(part) : \E i \in lo..hi : x \in ToSet(ss[i])
  /\ Len(part) = 1 => lo = hi

(* A part of what the units give comes from neighbours among them.         *)
LEMMA PartStretch ==
  ASSUME NEW T, NEW ss \in Seq(Seq(T)), \A u \in 1..Len(ss) : ss[u] # <<>>,
         NEW b, Tagged(ss, b),
         NEW part \in Seq(T), part # <<>>, NEW o \in Nat, o + Len(part) <= Len(FlattenSeq(ss)),
         \A k \in 1..Len(part) : FlattenSeq(ss)[o + k] = part[k]
  PROVE  \E lo \in 1..Len(ss) : \E hi \in lo..Len(ss) : FromTo(part, ss, b, lo, hi)
<1> DEFINE s == FlattenSeq(ss)
           p == o + 1
           q == o + Len(part)
<1>1. s \in Seq(T)
  BY FlatTyped
<1>2. s = FlattenSeq(ss) /\ o + Len(part) <= Len(s) /\ \A k \in 1..Len(part) : s[o + k] = part[k]
  OBVIOUS
<1> HIDE DEF s
<1>3. IsPart(part, s, p, q)
  BY <1>1, <1>2, PartIs
<1> HIDE DEF p, q
<1>4. p \in 1..Len(s) /\ q \in p..Len(s)
  BY <1>3 DEF IsPart
<1>5. \E lo \in 1..Len(ss) : \E hi \in lo..Len(ss) : ComeFrom(s, p, q, ss, b, lo, hi)
  BY <1>2, <1>4, StretchIs
<1>6. ASSUME NEW lo \in 1..Len(ss), NEW hi \in lo..Len(ss), ComeFrom(s, p, q, ss, b, lo, hi)
      PROVE  FromTo(part, ss, b, lo, hi)
  <2>1. \A x \in ToSet(part) : \E i \in lo..hi : x \in ToSet(ss[i])
    BY <1>3, <1>6 DEF IsPart, ComeFrom
  <2> QED
    BY <1>3, <1>6, <2>1 DEF IsPart, ComeFrom, FromTo
<1> QED
  BY <1>5, <1>6

(* A window starts before the end of the words.                            *)
LEMMA StartsInside ==
  ASSUME NEW n \in Nat, n # 0, NEW config, Bounded(config), NEW v \in Steps(n, n, config),
         NEW k \in 1..Len(v)
  PROVE  v[k] \in Nat /\ v[k] < n
<1>1. /\ v \in Seq(Nat) /\ v[1] = 0
      /\ \A j \in 1..(Len(v) - 1) : /\ v[j + 1] = v[j] + config.chunk_size - config.overlap
                                    /\ v[j] + config.chunk_size < n
  BY DEF Steps
<1>2. Len(v) \in Nat /\ \A j \in 1..Len(v) : v[j] \in Nat
  BY <1>1, LenProperties, ElementOfSeq
<1>3. CASE k = 1
  BY <1>1, <1>3
<1>4. CASE k # 1
  <2>1. k - 1 \in 1..(Len(v) - 1) /\ (k - 1) + 1 = k /\ k - 1 \in 1..Len(v)
    BY <1>2, <1>4
  <2> DEFINE x == v[k - 1]
             y == v[k]
             size == config.chunk_size
             overlap == config.overlap
  <2>2. y = x + size - overlap /\ x + size < n /\ x \in Nat /\ y \in Nat
    BY <1>1, <1>2, <2>1
  <2>3. size \in Nat /\ overlap \in Nat
    BY DEF Bounded
  <2> HIDE DEF x, y, size, overlap
  <2>4. y < n
    BY <2>2, <2>3
  <2> QED
    BY <2>2, <2>4 DEF y
<1> QED
  BY <1>3, <1>4

(* The windows of a block stand on neighbouring units.                     *)
LEMMA WindowsStand ==
  ASSUME NEW W, NEW units, Worded(units, W), NoneEmpty(units), units # <<>>,
         NEW config, Bounded(config), config.strategy # "semantic"
  PROVE  \A chunk \in ToSet(Windows(units, config)) : Stands(units, chunk, config)
<1>1. PICK A, B : \E css \in Seq(Seq(Ref(W, A, B))) :
        /\ Refs(units) = FlattenSeq(css) /\ Len(css) = Len(units) /\ Tagged(css, units)
        /\ \A u \in 1..Len(css) : /\ css[u] # <<>>
                                  /\ \A x \in ToSet(css[u]) : x.word \in ToSet(Text(units[u].rows))
  BY RefsByUnit
<1> DEFINE D == Ref(W, A, B)
<1>2. PICK css \in Seq(Seq(D)) :
        /\ Refs(units) = FlattenSeq(css) /\ Len(css) = Len(units) /\ Tagged(css, units)
        /\ \A u \in 1..Len(css) : /\ css[u] # <<>>
                                  /\ \A x \in ToSet(css[u]) : x.word \in ToSet(Text(units[u].rows))
  BY <1>1
<1> DEFINE refs == Refs(units)
           n == Len(refs)
           v == WindowStarts(n, config)
           size == config.chunk_size
<1>3. refs \in Seq(D) /\ n \in Nat
  <2>1. FlattenSeq(css) \in Seq(D)
    BY FlatTyped
  <2> QED
    BY <1>2, <2>1, LenProperties
<1>4. n # 0
  <2>1. Len(units) \in Nat /\ Len(units) # 0
    <3>1. Sequence(units)
      BY DEF Worded
    <3> QED
      BY <3>1, EmptySeq, IsSequence, SequenceIs DEF Sequence
  <2>2. 1 \in 1..Len(css) /\ css[1] # <<>>
    BY <1>2, <2>1
  <2>3. ToSet(css[1]) \subseteq ToSet(refs)
    BY <1>2, <2>2, FlatItems
  <2>4. ToSet(css[1]) # {}
    <3> DEFINE S == Seq(D)
    <3>1. css[1] \in S
      <4> HIDE DEF S
      <4>1. css \in Seq(S)
        BY DEF S
      <4> QED
        BY <2>2, <4>1, ElementOfSeq
    <3>2. css[1] \in Seq(D) 
      BY <3>1
    <3> DEFINE x == css[1]
    <3> HIDE DEF x
    <3>3. x \in Seq(D) /\ x # <<>>
      BY <2>2, <3>2 DEF x
    <3>4. Len(x) \in Nat /\ Len(x) # 0 /\ DOMAIN x = 1..Len(x)
      BY <3>3, LenProperties, EmptySeq
    <3>5. 1 \in DOMAIN x
      BY <3>4
    <3>6. x[1] \in ToSet(x)
      BY <3>5 DEF ToSet
    <3> QED
      BY <3>6 DEF x
  <2>5. ToSet(refs) # {}
    BY <2>3, <2>4
  <2> QED
    BY <1>3, <2>5, SequenceIs, Items
<1>5. size \in Nat /\ size # 0
  BY DEF Bounded
<1>6. v \in Steps(n, n, config)
  BY <1>3, WindowStartsAre
<1>7. Windows(units, config) = WindowsFrom(refs, v, config)
  BY DEF Windows, RefWindows
<1> HIDE DEF refs, n, v, size
<1>8. v \in Seq(Nat) /\ DOMAIN v = 1..Len(v)
  BY <1>6, LenProperties DEF Steps
<1>9. ASSUME NEW k \in 1..Len(v)
      PROVE  Stands(units, WindowChunk(Window(refs, v[k], config), v[k], config), config)
  <2> DEFINE start == v[k]
             e == Least(start + size, n)
             window == Window(refs, start, config)
             chunk == WindowChunk(window, start, config)
  <2>1. start \in Nat /\ start < n
    BY <1>3, <1>4, <1>6, StartsInside
  <2> HIDE DEF start
  <2>2. e \in Nat /\ start < e /\ e <= n /\ e <= start + size
    BY <1>3, <1>5, <2>1 DEF Least
  <2>3. window = SubSeq(refs, start + 1, e)
    BY DEF Window, size, n
  <2> HIDE DEF e
  <2>4. /\ window \in Seq(D) /\ Len(window) = e - start
        /\ \A i \in 1..(e - start) : window[i] = refs[start + i]
    <3> DEFINE a == start + 1
    <3>1. a \in Nat /\ a >= 1 /\ a <= e + 1 /\ e <= Len(refs)
      BY <2>1, <2>2 DEF n
    <3>2. e - a + 1 = e - start /\ \A i \in 1..(e - start) : a + i - 1 = start + i
      BY <2>1, <2>2
    <3> HIDE DEF a, D
    <3>3. /\ SubSeq(refs, a, e) \in Seq(D) /\ Len(SubSeq(refs, a, e)) = e - a + 1
          /\ \A i \in 1..(e - a + 1) : SubSeq(refs, a, e)[i] = refs[a + i - 1]
      BY <1>3, <2>2, <3>1, SliceIs
    <3> QED
      BY <2>3, <3>2, <3>3 DEF a
  <2> HIDE DEF window
  <2>5. Len(window) \in Nat /\ Len(window) # 0 /\ window # <<>> /\ start + Len(window) <= n /\ Len(window) <= size
    BY <1>5, <2>1, <2>2, <2>4, EmptySeq
  <2>0. \E lo \in 1..Len(css) : \E hi \in lo..Len(css) : FromTo(window, css, units, lo, hi)
    <3>1. /\ start + Len(window) <= Len(FlattenSeq(css))
          /\ \A j \in 1..Len(window) : FlattenSeq(css)[start + j] = window[j]
      BY <1>2, <2>4, <2>5 DEF refs, n
    <3> HIDE DEF D
    <3> QED
      BY <1>2, <2>1, <2>4, <2>5, <3>1, PartStretch
  <2> PICK lo \in 1..Len(css) : \E hi \in lo..Len(css) : FromTo(window, css, units, lo, hi)
    BY <2>0
  <2> PICK hi \in lo..Len(css) : FromTo(window, css, units, lo, hi)
    OBVIOUS
  <2>6. /\ Sources(window) = {units[i].source : i \in lo..hi}
        /\ PagesIn(window) = {units[i].page : i \in lo..hi}
        /\ \A x \in ToSet(window) : \E i \in lo..hi : x \in ToSet(css[i])
    BY DEF FromTo
  <2>7. /\ chunk.text = WordsOf(window) /\ chunk.sources = Sources(window)
        /\ chunk.pages = PagesIn(window) \ {0} /\ chunk.rows = <<>> /\ chunk.oversized = FALSE
    BY DEF WindowChunk, Chunk
  <2>8. /\ WordsOf(window) \in Seq(W) /\ Len(WordsOf(window)) = Len(window)
        /\ \A i \in 1..Len(window) : WordsOf(window)[i] = window[i].word
    BY <2>4, WordsOfIs
  <2> HIDE DEF chunk
  <2>9. chunk.text # <<>> /\ Len(chunk.text) = Len(window) /\ Sequence(chunk.text)
    BY <2>5, <2>7, <2>8, EmptySeq, Items
  <2>10. ASSUME NEW w \in ToSet(chunk.text)
         PROVE  w \in UNION {ToSet(Text(units[i].rows)) : i \in lo..hi}
    <3>1. PICK i \in 1..Len(window) : w = window[i].word
      BY <2>7, <2>8, LenProperties DEF ToSet
    <3>2. window[i] \in ToSet(window)
      BY <2>4, Items, SequenceIs
    <3>3. PICK j \in lo..hi : window[i] \in ToSet(css[j])
      BY <2>6, <3>2
    <3>4. j \in 1..Len(css)
      <4>1. Len(css) \in Nat
        BY LenProperties
      <4> QED
        BY <4>1
    <3> QED
      BY <1>2, <3>1, <3>3, <3>4
  <2>11. Among(units, chunk, lo, hi)
    BY <2>6, <2>7, <2>9, <2>10 DEF Among
  <2>12. FitsLimit(chunk, config, lo, hi)
    <3>1. LimitOf(chunk, config) = size
      BY DEF LimitOf, size
    <3> QED
      BY <2>5, <2>7, <2>9, <3>1 DEF FitsLimit
  <2>13. lo \in 1..Len(units) /\ hi \in lo..Len(units)
    BY <1>2
  <2>14. Stands(units, chunk, config)
    BY <2>11, <2>12, <2>13 DEF Stands
  <2> QED
    BY <2>14 DEF chunk, window, start
<1> QED
  <2>1. WindowsFrom(refs, v, config)
          = [k \in 1..Len(v) |-> WindowChunk(Window(refs, v[k], config), v[k], config)]
    BY <1>8 DEF WindowsFrom
  <2>2. \A chunk \in ToSet(WindowsFrom(refs, v, config)) :
          \E k \in 1..Len(v) : chunk = WindowChunk(Window(refs, v[k], config), v[k], config)
    BY <2>1 DEF ToSet
  <2> QED
    BY <1>7, <1>9, <2>2

-----------------------------------------------------------------------------
(* Groups of sentences that stand on neighbouring units.                   *)

(* The parts stay in a set when the last one, extended, does.               *)
LEMMA ExtendedKept ==
  ASSUME NEW S, NEW v \in Seq(S), v # <<>>, NEW x, Append(Last(v), x) \in S
  PROVE  Extended(v, x) \in Seq(S)
<1>1. Front(v) \in Seq(S)
  BY LastPart
<1> QED
  BY <1>1, AppendProperties DEF Extended

(* No sentence is empty.                                                   *)
LEMMA SplitSaid ==
  ASSUME NEW W, NEW text \in Seq(W)
  PROVE  Split(text) \in Seq(Seq(W) \ {<<>>})
<1> DEFINE N == Len(text)
           S == Seq(W) \ {<<>>}
<1>1. PICK f : SplitRun(f, text, W) /\ Split(text) = f[N]
  BY SplitRuns
<1>2. N \in Nat /\ \A i \in 1..N : text[i] \in W
  BY LenProperties, ElementOfSeq
<1>3. \A a \in Seq(W), x \in W : Append(a, x) \in S
  BY AppendProperties
<1>4. \A x \in W : <<x>> \in S
  OBVIOUS
<1>5. \A v \in Seq(Seq(W)) : v \in Seq(S) /\ v # <<>> => Last(v) \in Seq(W)
  <2> SUFFICES ASSUME NEW v \in Seq(S), v # <<>> PROVE Last(v) \in Seq(W)
    OBVIOUS
  <2>1. Last(v) \in S
    <3> HIDE DEF S
    <3> QED
      BY LastPart
  <2> QED
    BY <2>1
<1> HIDE DEF S
<1> DEFINE Good == {i \in 0..N : f[i] \in Seq(S)}
<1>6. 0 \in Good
  <2> DEFINE none == <<>>
  <2>1. none \in Seq(S)
    BY EmptySeq
  <2> HIDE DEF none
  <2>2. f[0] = none
    BY <1>1 DEF SplitRun, none
  <2> QED
    BY <1>2, <2>1, <2>2
<1>7. ASSUME NEW i \in 0..N, i # 0, i - 1 \in Good PROVE i \in Good
  <2> DEFINE v == f[i - 1]
             x == text[i]
             one == <<x>>
  <2>1. i \in 1..N /\ i - 1 \in 0..N
    BY <1>2, <1>7
  <2>2. f[i] = AddWord(v, text, i) /\ v \in Seq(S) /\ v \in Seq(Seq(W)) /\ (i - 1 # 0 => v # <<>>)
    BY <1>1, <1>7, <2>1 DEF SplitRun
  <2>3. x \in W
    BY <1>2, <2>1
  <2>4. one \in S
    BY <1>4, <2>3
  <2>5. AddWord(v, text, i) \in {Extended(v, x), Append(v, one)}
        /\ (AddWord(v, text, i) # Append(v, one) => i > 1)
    BY DEF AddWord
  <2> HIDE DEF v, x, one
  <2>6. Append(v, one) \in Seq(S)
    BY <2>2, <2>4, AppendProperties
  <2>7. CASE f[i] = Append(v, one)
    BY <1>7, <2>6, <2>7
  <2>8. CASE f[i] = Extended(v, x) /\ i > 1
    <3>1. v # <<>>
      BY <2>2, <2>8
    <3>2. Append(Last(v), x) \in S
      BY <1>3, <1>5, <2>2, <2>3, <3>1
    <3>3. Extended(v, x) \in Seq(S)
      BY <2>2, <3>1, <3>2, ExtendedKept
    <3> QED
      BY <1>7, <2>8, <3>3
  <2> QED
    BY <2>2, <2>5, <2>7, <2>8
<1> HIDE DEF Good
<1>8. \A i \in 0..N : i \in Good
  BY <1>2, <1>6, <1>7, Induction
<1>9. N \in 0..N
  BY <1>2
<1> QED
  BY <1>1, <1>8, <1>9 DEF Good, S

(* A text has sentences, none of them empty.                               *)
LEMMA SentencesSaid ==
  ASSUME NEW W, NEW text \in Seq(W), text # <<>>, NEW domain, NEW config
  PROVE  Sentences(text, domain, config) \in Seq(Seq(W) \ {<<>>}) /\ Sentences(text, domain, config) # <<>>
<1>1. Sentences(text, domain, config) # <<>>
  BY FlatEmpty, SentencesAre
<1>2. Split(text) \in Seq(Seq(W) \ {<<>>})
  BY SplitSaid
<1>3. <<text>> \in Seq(Seq(W) \ {<<>>})
  <2> DEFINE S == Seq(W) \ {<<>>}
  <2>1. text \in S
    OBVIOUS
  <2> HIDE DEF S
  <2>2. <<text>> \in Seq(S)
    BY <2>1
  <2> QED
    BY <2>2 DEF S
<1>4. Sentences(text, domain, config) \in {<<text>>, Split(text)}
  BY DEF Sentences
<1> DEFINE S == Seq(Seq(W) \ {<<>>})
           one == <<text>>
<1> HIDE DEF S, one
<1>5. Sentences(text, domain, config) \in S
  BY <1>2, <1>3, <1>4 DEF S, one
<1> QED
  BY <1>1, <1>5 DEF S

(* The segments of a block, unit by unit.                                  *)
LEMMA SegmentsByUnit ==
  ASSUME NEW W, NEW units, Worded(units, W), NoneEmpty(units), NEW domain, NEW config
  PROVE  \E A, B : \E css \in Seq(Seq(Segment(W, A, B))) :
           /\ Segments(units, domain, config) = FlattenSeq(css)
           /\ Len(css) = Len(units) /\ Tagged(css, units)
           /\ \A u \in 1..Len(css) :
                /\ css[u] # <<>>
                /\ \A x \in ToSet(css[u]) :
                     x.text # <<>> /\ ToSet(x.text) \subseteq ToSet(Text(units[u].rows))
<1> DEFINE N == Len(units)
           A == {units[u].source : u \in 1..N}
           B == {units[u].page : u \in 1..N}
           D == Segment(W, A, B)
           said(u) == Sentences(Text(units[u].rows), domain, config)
           css == [u \in DOMAIN units |-> SegmentsOf(units[u], said(u))]
<1>1. /\ N \in Nat /\ DOMAIN units = 1..N
      /\ \A u \in 1..N : Text(units[u].rows) \in Seq(W)
  BY TextsAre
<1>2. css = [u \in 1..N |-> css[u]] /\ \A u \in 1..N : css[u] = SegmentsOf(units[u], said(u))
  BY <1>1
<1>3. Segments(units, domain, config) = FlattenSeq(css)
  BY DEF Segments
<1>4. \A u \in 1..N : From(units[u], A, B)
  BY DEF From
<1> HIDE DEF css, A, B
<1>5. \A u \in 1..N : said(u) \in Seq(Seq(W)) /\ FlattenSeq(said(u)) = Text(units[u].rows)
  BY <1>1, SentencesAre
<1>6. \A u \in 1..N : said(u) \in Seq(Seq(W) \ {<<>>}) /\ said(u) # <<>>
  BY <1>1, SentencesSaid DEF NoneEmpty
<1> HIDE DEF said
<1>7. \A u \in 1..N : css[u] \in Seq(D)
  BY <1>2, <1>4, <1>5, SegmentsOfAre
<1> HIDE DEF N
<1>8. css \in Seq(Seq(D)) /\ Len(css) = N
  <2> DEFINE S == Seq(D)
  <2>1. \A u \in 1..N : css[u] \in S
    BY <1>7
  <2> HIDE DEF S
  <2>2. css \in Seq(S) /\ Len(css) = N
    BY <1>1, <1>2, <2>1, Listed
  <2> QED
    BY <2>2 DEF S
<1>9. ASSUME NEW u \in 1..N
      PROVE  /\ css[u] # <<>>
             /\ \A x \in ToSet(css[u]) :
                  /\ x.text # <<>> /\ ToSet(x.text) \subseteq ToSet(Text(units[u].rows))
                  /\ x.source = units[u].source /\ x.page = units[u].page
  <2> DEFINE text == Text(units[u].rows)
             unit == units[u]
             r == css[u]
             t == said(u)
             n == Len(t)
  <2>1. /\ t \in Seq(Seq(W)) /\ FlattenSeq(t) = text /\ t # <<>> /\ r = SegmentsOf(unit, t)
        /\ t \in Seq(Seq(W) \ {<<>>})
    BY <1>2, <1>5, <1>6
  <2> HIDE DEF text, r, unit, t
  <2>2. DOMAIN t = 1..n /\ n \in Nat /\ n # 0
    BY <2>1, LenProperties, EmptySeq
  <2>3. r = [i \in 1..n |-> [text |-> t[i], source |-> unit.source, page |-> unit.page]]
    BY <2>1, <2>2 DEF SegmentsOf
  <2>4. DOMAIN r = 1..n /\ \A i \in 1..n : /\ r[i].text = t[i]
                                           /\ r[i].source = unit.source /\ r[i].page = unit.page
    BY <2>3
  <2>5. 1 \in DOMAIN r /\ r # <<>>
    BY <2>2, <2>4
  <2>6. \A i \in 1..n : t[i] # <<>> /\ ToSet(t[i]) \subseteq ToSet(text)
    <3> DEFINE S == Seq(W) \ {<<>>}
    <3>1. \A x \in S : x # <<>>
      OBVIOUS
    <3> HIDE DEF S
    <3>2. \A i \in 1..n : t[i] \in S
      BY <2>1, <2>2, ElementOfSeq DEF S
    <3>3. \A i \in 1..n : ToSet(t[i]) \subseteq ToSet(text)
      BY <2>1, FlatItems
    <3> QED
      BY <3>1, <3>2, <3>3
  <2>7. \A x \in ToSet(r) : \E i \in 1..n : x = r[i]
    BY <2>4 DEF ToSet
  <2>8. \A x \in ToSet(r) : /\ x.text # <<>> /\ ToSet(x.text) \subseteq ToSet(text)
                            /\ x.source = unit.source /\ x.page = unit.page
    BY <2>4, <2>6, <2>7
  <2> QED
    BY <2>5, <2>8 DEF text, r, unit
<1>10. Tagged(css, units)
  BY <1>8, <1>9 DEF Tagged
<1>11. /\ css \in Seq(Seq(Segment(W, A, B))) /\ Len(css) = Len(units)
       /\ \A u \in 1..Len(css) :
            /\ css[u] # <<>>
            /\ \A x \in ToSet(css[u]) :
                 x.text # <<>> /\ ToSet(x.text) \subseteq ToSet(Text(units[u].rows))
  BY <1>8, <1>9 DEF N
<1> HIDE DEF D
<1> QED
  BY <1>3, <1>10, <1>11

(* The words of a group with one segment more.                             *)
LEMMA WordsInAppend ==
  ASSUME NEW W, NEW A, NEW B, NEW g \in Seq(Segment(W, A, B)), NEW x \in Segment(W, A, B)
  PROVE  /\ Len(WordsIn(Append(g, x))) = Len(WordsIn(g)) + Len(x.text)
         /\ Append(g, x) \in Seq(Segment(W, A, B))
<1> DEFINE D == Segment(W, A, B)
           t == TextOf(D)
<1>1. Maps(t, D, Seq(W)) /\ t[x] = x.text
  BY TextMaps DEF TextOf
<1>2. x \in D /\ g \in Seq(D)
  OBVIOUS
<1> HIDE DEF t, D
<1>3. /\ Append(g, x) \in Seq(D)
      /\ FlattenSeq(Applied(t, Append(g, x))) = FlattenSeq(Applied(t, g)) \o t[x]
      /\ FlattenSeq(Applied(t, g)) \in Seq(W) /\ t[x] \in Seq(W)
  BY <1>1, <1>2, AppliedAppend
<1>4. WordsIn(g) = FlattenSeq(Applied(t, g))
  BY <1>2, WordsInIs DEF t, D
<1>5. WordsIn(Append(g, x)) = FlattenSeq(Applied(t, Append(g, x)))
  BY <1>3, WordsInIs DEF t, D
<1>6. Len(WordsIn(Append(g, x))) = Len(WordsIn(g)) + Len(t[x])
  BY <1>3, <1>4, <1>5, ConcatProperties
<1> QED
  BY <1>1, <1>3, <1>6 DEF D

(* Groups that are one segment, or no longer than they may be.             *)
Small(W, A, B, config) ==
  {g \in Seq(Segment(W, A, B)) :
     g # <<>> /\ (Len(g) = 1 \/ Len(WordsIn(g)) <= config.max_tokens)}

(* A group is extended only when there is room.                            *)
LEMMA GroupsSmall ==
  ASSUME NEW W, NEW A, NEW B, NEW segments \in Seq(Segment(W, A, B)),
         NEW config, config.max_tokens \in Nat
  PROVE  Groups(segments, config) \in Seq(Small(W, A, B, config))
<1> DEFINE D == Segment(W, A, B)
           S == Small(W, A, B, config)
           N == Len(segments)
           max == config.max_tokens
<1>0. segments \in Seq(D) /\ max \in Nat
  OBVIOUS
<1>1. PICK f : GroupsRun(f, segments, config, D) /\ Groups(segments, config) = f[N]
  BY GroupsRuns
<1>2. N \in Nat /\ \A i \in 1..N : segments[i] \in D
  BY LenProperties, ElementOfSeq
<1>3. \A x \in D : x.text \in Seq(W)
  BY DEF Segment
<1>4. \A g \in S : g \in Seq(D) /\ WordsIn(g) \in Seq(W) /\ Len(WordsIn(g)) \in Nat
  <2> SUFFICES ASSUME NEW g \in S
               PROVE  g \in Seq(D) /\ WordsIn(g) \in Seq(W) /\ Len(WordsIn(g)) \in Nat
    OBVIOUS
  <2>1. g \in Seq(D)
    BY DEF Small
  <2>2. WordsIn(g) \in Seq(W)
    BY <2>1, WordsInIs
  <2> QED
    BY <2>1, <2>2, LenProperties
<1>5. ASSUME NEW x \in D PROVE <<x>> \in S
  <2> HIDE DEF D
  <2>1. <<x>> \in Seq(D) /\ Len(<<x>>) = 1 /\ <<x>> # <<>>
    OBVIOUS
  <2> QED
    BY <2>1 DEF Small, D
<1>6. ASSUME NEW g \in S, NEW x \in D, Len(WordsIn(g)) + Len(x.text) <= max
      PROVE  Append(g, x) \in S
  <2> DEFINE h == Append(g, x)
  <2>1. Len(WordsIn(h)) = Len(WordsIn(g)) + Len(x.text) /\ h \in Seq(D)
    BY <1>4, WordsInAppend
  <2>2. h # <<>>
    BY <1>4, AppendProperties
  <2> HIDE DEF h
  <2> QED
    BY <1>6, <2>1, <2>2 DEF Small, h
<1> HIDE DEF D, S, max
<1> DEFINE Good == {i \in 0..N : f[i] \in Seq(S)}
<1>7. 0 \in Good
  <2> DEFINE none == <<>>
  <2>1. none \in Seq(S)
    BY EmptySeq
  <2> HIDE DEF none
  <2>2. f[0] = none
    BY <1>1 DEF GroupsRun, none
  <2> QED
    BY <1>2, <2>1, <2>2
<1>8. ASSUME NEW i \in 0..N, i # 0, i - 1 \in Good PROVE i \in Good
  <2> DEFINE v == f[i - 1]
             x == segments[i]
             one == <<x>>
             room == Len(WordsIn(Last(v)))
             size == Len(x.text)
  <2>1. i \in 1..N /\ i - 1 \in 0..N
    BY <1>2, <1>8
  <2>2. f[i] = AddSegment(v, segments, i, config) /\ v \in Seq(S)
    BY <1>1, <1>8, <2>1 DEF GroupsRun
  <2>3. x \in D
    BY <1>2, <2>1
  <2>4. one \in S
    BY <1>5, <2>3
  <2>5. \/ AddSegment(v, segments, i, config) = Append(v, one)
        \/ /\ AddSegment(v, segments, i, config) = Extended(v, x)
           /\ v # <<>> /\ ~(room + size > max)
    BY DEF AddSegment, Full, max
  <2> HIDE DEF v, x, one
  <2>6. Append(v, one) \in Seq(S)
    BY <2>2, <2>4, AppendProperties
  <2>7. CASE f[i] = Append(v, one)
    BY <1>8, <2>6, <2>7
  <2>8. CASE f[i] = Extended(v, x) /\ v # <<>> /\ ~(room + size > max)
    <3>1. Last(v) \in S
      BY <2>2, <2>8, LastPart
    <3>2. room \in Nat /\ size \in Nat
      BY <1>3, <1>4, <2>3, <3>1, LenProperties
    <3>3. room + size <= max
      <4> HIDE DEF room, size
      <4> QED
        BY <1>0, <2>8, <3>2
    <3>4. Append(Last(v), x) \in S
      BY <1>6, <2>3, <3>1, <3>3
    <3>5. Extended(v, x) \in Seq(S)
      BY <2>2, <2>8, <3>4, ExtendedKept
    <3> QED
      BY <1>8, <2>8, <3>5
  <2> QED
    BY <2>2, <2>5, <2>7, <2>8
<1> HIDE DEF Good
<1>9. \A i \in 0..N : i \in Good
  BY <1>2, <1>7, <1>8, Induction
<1>10. N \in 0..N
  BY <1>2
<1> QED
  BY <1>1, <1>9, <1>10 DEF Good, S

(* The words of a group are those of its segments.                         *)
LEMMA WordsInItems ==
  ASSUME NEW W, NEW A, NEW B, NEW group \in Seq(Segment(W, A, B)), group # <<>>,
         \A x \in ToSet(group) : x.text # <<>>
  PROVE  /\ WordsIn(group) # <<>>
         /\ \A w \in ToSet(WordsIn(group)) : \E x \in ToSet(group) : w \in ToSet(x.text)
<1> DEFINE D == Segment(W, A, B)
           N == Len(group)
           q == [k \in DOMAIN group |-> group[k].text]
<1>1. N \in Nat /\ N # 0 /\ DOMAIN group = 1..N /\ \A k \in 1..N : group[k] \in D /\ group[k] \in ToSet(group)
  BY LenProperties, ElementOfSeq, EmptySeq DEF ToSet
<1>2. q = [k \in 1..N |-> q[k]] /\ \A k \in 1..N : q[k] = group[k].text /\ q[k] \in Seq(W)
  BY <1>1 DEF Segment
<1>3. WordsIn(group) = FlattenSeq(q)
  BY DEF WordsIn
<1> HIDE DEF q, N
<1>4. q \in Seq(Seq(W)) /\ Len(q) = N
  <2> DEFINE S == Seq(W)
  <2>1. \A k \in 1..N : q[k] \in S
    BY <1>2
  <2> HIDE DEF S
  <2>2. q \in Seq(S) /\ Len(q) = N
    BY <1>1, <1>2, <2>1, Listed
  <2> QED
    BY <2>2 DEF S
<1>5. /\ \A k \in 1..N : ToSet(q[k]) \subseteq ToSet(FlattenSeq(q))
      /\ \A w \in ToSet(FlattenSeq(q)) : \E k \in 1..N : w \in ToSet(q[k])
  BY <1>4, FlatItems
<1>6. 1 \in 1..N
  BY <1>1
<1>7. q[1] \in Seq(W) /\ q[1] # <<>>
  BY <1>1, <1>2, <1>6
<1>8. ToSet(q[1]) # {}
  <2> DEFINE x == q[1]
  <2> HIDE DEF x
  <2>1. x \in Seq(W) /\ x # <<>>
    BY <1>7 DEF x
  <2>2. 1 \in DOMAIN x
    BY <2>1, LenProperties, EmptySeq
  <2>3. x[1] \in ToSet(x)
    BY <2>2 DEF ToSet
  <2> QED
    BY <2>3 DEF x
<1>9. WordsIn(group) # <<>>
  <2>1. ToSet(FlattenSeq(q)) # {}
    BY <1>5, <1>6, <1>8
  <2> QED
    BY <1>3, <2>1, EmptyIs
<1>10. \A w \in ToSet(WordsIn(group)) : \E x \in ToSet(group) : w \in ToSet(x.text)
  BY <1>1, <1>2, <1>3, <1>5
<1> QED
  BY <1>9, <1>10

(* The groups of a block of sentences stand on neighbouring units.          *)
LEMMA SegmentChunksStand ==
  ASSUME NEW W, NEW units, Worded(units, W), NoneEmpty(units), NEW domain,
         NEW config, config.max_tokens \in Nat, config.strategy = "semantic"
  PROVE  \A chunk \in ToSet(SegmentChunks(units, domain, config)) : Stands(units, chunk, config)
<1> DEFINE segments == Segments(units, domain, config)
<1>1. PICK A, B : \E css \in Seq(Seq(Segment(W, A, B))) :
        /\ segments = FlattenSeq(css)
        /\ Len(css) = Len(units) /\ Tagged(css, units)
        /\ \A u \in 1..Len(css) :
             /\ css[u] # <<>>
             /\ \A x \in ToSet(css[u]) :
                  x.text # <<>> /\ ToSet(x.text) \subseteq ToSet(Text(units[u].rows))
  BY SegmentsByUnit
<1> DEFINE D == Segment(W, A, B)
           S == Small(W, A, B, config)
           groups == Groups(segments, config)
           max == config.max_tokens
<1>2. PICK css \in Seq(Seq(D)) :
        /\ segments = FlattenSeq(css)
        /\ Len(css) = Len(units) /\ Tagged(css, units)
        /\ \A u \in 1..Len(css) :
             /\ css[u] # <<>>
             /\ \A x \in ToSet(css[u]) :
                  x.text # <<>> /\ ToSet(x.text) \subseteq ToSet(Text(units[u].rows))
  BY <1>1
<1>3. segments \in Seq(D)
  BY <1>2, FlatTyped
<1>4. SegmentChunks(units, domain, config) = GroupsToChunks(groups, config)
  BY DEF SegmentChunks, ChunkSegments
<1> HIDE DEF segments
<1>5. groups \in Seq(S)
  BY <1>3, GroupsSmall
<1>6. groups \in Seq(Seq(D)) /\ FlattenSeq(groups) = segments
  BY <1>3, GroupsIs
<1> HIDE DEF groups
<1>7. DOMAIN groups = 1..Len(groups) /\ Len(groups) \in Nat /\ \A g \in 1..Len(groups) : groups[g] \in S
  <2> HIDE DEF S
  <2> QED
    BY <1>5, LenProperties, ElementOfSeq
<1>8. ASSUME NEW g \in 1..Len(groups)
      PROVE  Stands(units, GroupOf(groups[g], WordsIn(groups[g]), config), config)
  <2> DEFINE group == groups[g]
             text == WordsIn(group)
             chunk == GroupOf(group, text, config)
  <2>1. /\ group \in Seq(D) /\ group # <<>>
        /\ Len(group) = 1 \/ Len(text) <= max
    BY <1>7 DEF Small
  <2>2. \E o \in Nat : /\ o + Len(group) <= Len(FlattenSeq(groups))
                       /\ \A k \in 1..Len(group) : FlattenSeq(groups)[o + k] = group[k]
    BY <1>6, FlatPlace
  <2>3. PICK o \in Nat : /\ o + Len(group) <= Len(FlattenSeq(groups))
                         /\ \A k \in 1..Len(group) : FlattenSeq(groups)[o + k] = group[k]
    BY <2>2
  <2>4. /\ o + Len(group) <= Len(FlattenSeq(css))
        /\ \A k \in 1..Len(group) : FlattenSeq(css)[o + k] = group[k]
    BY <1>2, <1>6, <2>3
  <2> HIDE DEF group, D
  <2>5. \E lo \in 1..Len(css) : \E hi \in lo..Len(css) : FromTo(group, css, units, lo, hi)
    BY <1>2, <2>1, <2>4, PartStretch
  <2> PICK lo \in 1..Len(css) : \E hi \in lo..Len(css) : FromTo(group, css, units, lo, hi)
    BY <2>5
  <2> PICK hi \in lo..Len(css) : FromTo(group, css, units, lo, hi)
    OBVIOUS
  <2>6. /\ Sources(group) = {units[i].source : i \in lo..hi}
        /\ PagesIn(group) = {units[i].page : i \in lo..hi}
        /\ \A x \in ToSet(group) : \E i \in lo..hi : x \in ToSet(css[i])
        /\ Len(group) = 1 => lo = hi
    BY DEF FromTo
  <2>7. \A i \in lo..hi : i \in 1..Len(css)
    <3>1. Len(css) \in Nat
      BY LenProperties
    <3> QED
      BY <3>1
  <2>8. \A x \in ToSet(group) : x.text # <<>>
    BY <1>2, <2>6, <2>7
  <2>9. /\ text # <<>>
        /\ \A w \in ToSet(text) : \E x \in ToSet(group) : w \in ToSet(x.text)
    BY <2>1, <2>8, WordsInItems DEF D
  <2>10. text \in Seq(W) /\ Len(text) \in Nat
    <3>1. text \in Seq(W)
      BY <2>1, WordsInIs DEF D
    <3> QED
      BY <3>1, LenProperties
  <2> HIDE DEF text
  <2>11. /\ chunk.text = text /\ chunk.sources = Sources(group)
         /\ chunk.pages = PagesIn(group) \ {0} /\ chunk.rows = <<>>
         /\ chunk.oversized = (Len(text) > config.max_tokens /\ Len(group) = 1)
    BY DEF GroupOf, Chunk
  <2> HIDE DEF chunk
  <2>12. \A w \in ToSet(text) : w \in UNION {ToSet(Text(units[i].rows)) : i \in lo..hi}
    <3> SUFFICES ASSUME NEW w \in ToSet(text)
                 PROVE  \E i \in lo..hi : w \in ToSet(Text(units[i].rows))
      OBVIOUS
    <3>1. PICK x \in ToSet(group) : w \in ToSet(x.text)
      BY <2>9
    <3>2. PICK i \in lo..hi : x \in ToSet(css[i])
      BY <2>6
    <3> QED
      BY <1>2, <2>7, <3>1, <3>2
  <2>13. Among(units, chunk, lo, hi)
    <3>1. Sequence(text)
      BY <2>10, Items
    <3> QED
      BY <2>6, <2>9, <2>11, <2>12, <3>1 DEF Among
  <2>14. FitsLimit(chunk, config, lo, hi)
    <3>1. LimitOf(chunk, config) = max
      BY <2>11 DEF LimitOf
    <3> DEFINE m == Len(text)
    <3>2. m \in Nat /\ max \in Nat /\ (Len(group) = 1 \/ m <= max)
      BY <2>1, <2>10 DEF text
    <3>3. chunk.oversized = (m > max /\ Len(group) = 1) /\ Len(chunk.text) = m
      BY <2>11
    <3> HIDE DEF m, max
    <3>4. CASE m > max /\ Len(group) = 1
      BY <2>6, <3>1, <3>3, <3>4 DEF FitsLimit
    <3>5. CASE ~(m > max /\ Len(group) = 1)
      <4>1. m <= max
        BY <3>2, <3>5
      <4> QED
        BY <3>1, <3>3, <3>5, <4>1 DEF FitsLimit
    <3> QED
      BY <3>4, <3>5
  <2>15. lo \in 1..Len(units) /\ hi \in lo..Len(units)
    BY <1>2
  <2>16. Stands(units, chunk, config)
    BY <2>13, <2>14, <2>15 DEF Stands
  <2> QED
    BY <2>16 DEF chunk, text, group
<1> QED
  <2>1. GroupsToChunks(groups, config)
          = [g \in 1..Len(groups) |-> GroupOf(groups[g], WordsIn(groups[g]), config)]
    BY <1>7 DEF GroupsToChunks
  <2>2. \A chunk \in ToSet(GroupsToChunks(groups, config)) :
          \E g \in 1..Len(groups) : chunk = GroupOf(groups[g], WordsIn(groups[g]), config)
    BY <2>1 DEF ToSet
  <2> QED
    BY <1>4, <1>8, <2>2

-----------------------------------------------------------------------------
(* Rows of a table that stand on it.                                       *)

(* Groups of rows that are one row, or no longer than they may be.         *)
FewRows(rows, config) ==
  {g \in Seq(2..Len(rows)) :
     g # <<>> /\ (Len(g) = 1 \/ Len(TableText(rows, g, config)) <= config.chunk_size)}

(* The text of a table piece is in its table.                              *)
LEMMA TableTextIs ==
  ASSUME NEW W, NEW rows \in Seq(Seq(W)), rows # <<>>, \A i \in 1..Len(rows) : rows[i] # <<>>,
         NEW group \in Seq(2..Len(rows)), group # <<>>, NEW config
  PROVE  /\ TableText(rows, group, config) \in Seq(W) /\ TableText(rows, group, config) # <<>>
         /\ ToSet(TableText(rows, group, config)) \subseteq ToSet(Text(rows))
<1> DEFINE N == Len(group)
           q == [k \in DOMAIN group |-> rows[group[k]]]
           h == IF config.repeat_header THEN rows[1] ELSE <<>>
           S == Seq(W)
           t == FlattenSeq(q)
<1>1. /\ N \in Nat /\ N # 0 /\ DOMAIN group = 1..N /\ \A k \in 1..N : group[k] \in 2..Len(rows)
      /\ Len(rows) \in Nat /\ Len(rows) # 0
  BY LenProperties, ElementOfSeq, EmptySeq
<1>2. \A i \in 1..Len(rows) : rows[i] \in S
  <2> HIDE DEF S
  <2>1. rows \in Seq(S)
    BY DEF S
  <2> QED
    BY <2>1, ElementOfSeq
<1>3. \A i \in 1..Len(rows) : ToSet(rows[i]) \subseteq ToSet(Text(rows))
  BY FlatItems DEF Text
<1>4. q = [k \in 1..N |-> q[k]] /\ \A k \in 1..N : q[k] = rows[group[k]]
  BY <1>1
<1>5. TableText(rows, group, config) = h \o t
  BY DEF TableText
<1> HIDE DEF q, N
<1>6. q \in Seq(S) /\ Len(q) = N
  <2>1. \A k \in 1..N : q[k] \in S
    BY <1>1, <1>2, <1>4
  <2> HIDE DEF S
  <2> QED
    BY <1>1, <1>4, <2>1, Listed
<1>7. /\ \A k \in 1..N : ToSet(q[k]) \subseteq ToSet(t)
      /\ \A w \in ToSet(t) : \E k \in 1..N : w \in ToSet(q[k])
  BY <1>6, FlatItems
<1>8. t \in Seq(W) /\ h \in Seq(W)
  <2>1. 1 \in 1..Len(rows) /\ <<>> \in Seq(W)
    BY <1>1
  <2> QED
    BY <1>2, <1>6, <2>1, FlatTyped
<1>9. ToSet(h) \subseteq ToSet(Text(rows))
  <2>1. 1 \in 1..Len(rows)
    BY <1>1
  <2> QED
    BY <1>3, <2>1, EmptyIs
<1>10. ToSet(t) \subseteq ToSet(Text(rows))
  <2> SUFFICES ASSUME NEW w \in ToSet(t) PROVE w \in ToSet(Text(rows))
    OBVIOUS
  <2>1. PICK k \in 1..N : w \in ToSet(q[k])
    BY <1>7
  <2>2. q[k] = rows[group[k]] /\ group[k] \in 1..Len(rows)
    BY <1>1, <1>4
  <2> QED
    BY <1>3, <2>1, <2>2
<1>11. t # <<>>
  <2> DEFINE x == q[1]
  <2>1. 1 \in 1..N
    BY <1>1
  <2>2. x \in Seq(W) /\ x # <<>>
    <3>1. group[1] \in 2..Len(rows)
      BY <1>1, <2>1
    <3>2. group[1] \in 1..Len(rows)
      BY <1>1, <3>1
    <3>3. x = rows[group[1]]
      BY <1>4, <2>1
    <3> QED
      BY <1>2, <3>2, <3>3
  <2>3. ToSet(x) \subseteq ToSet(t)
    BY <1>7, <2>1
  <2> HIDE DEF x
  <2>4. 1 \in DOMAIN x
    BY <2>2, LenProperties, EmptySeq
  <2>5. x[1] \in ToSet(t)
    BY <2>3, <2>4 DEF ToSet
  <2> QED
    BY <2>5, EmptyIs
<1> HIDE DEF h, t
<1>12. h \o t \in Seq(W) /\ h \o t # <<>>
  <2>1. Len(t) \in Nat /\ Len(t) # 0 /\ Len(h) \in Nat /\ Len(h \o t) = Len(h) + Len(t) /\ h \o t \in Seq(W)
    BY <1>8, <1>11, LenProperties, EmptySeq, ConcatProperties
  <2>2. Len(h \o t) # 0
    BY <2>1
  <2> QED
    BY <2>1, <2>2, EmptySeq
<1>13. \A w \in ToSet(h \o t) : w \in ToSet(h) \/ w \in ToSet(t)
  <2> SUFFICES ASSUME NEW w \in ToSet(h \o t) PROVE w \in ToSet(h) \/ w \in ToSet(t)
    OBVIOUS
  <2>1. /\ Len(h \o t) = Len(h) + Len(t) /\ Len(h) \in Nat /\ Len(t) \in Nat
        /\ \A i \in 1..(Len(h) + Len(t)) : (h \o t)[i] = IF i <= Len(h) THEN h[i] ELSE t[i - Len(h)]
    BY <1>8, ConcatProperties, LenProperties
  <2>2. PICK i \in 1..Len(h \o t) : w = (h \o t)[i]
    <3>1. DOMAIN (h \o t) = 1..Len(h \o t)
      BY <1>12, LenProperties
    <3> QED
      BY <3>1 DEF ToSet
  <2>3. DOMAIN h = 1..Len(h) /\ DOMAIN t = 1..Len(t)
    BY <1>8, LenProperties
  <2>4. CASE i <= Len(h)
    <3>1. i \in DOMAIN h /\ w = h[i]
      BY <2>1, <2>2, <2>3, <2>4
    <3> QED
      BY <3>1 DEF ToSet
  <2>5. CASE ~(i <= Len(h))
    <3>1. i - Len(h) \in DOMAIN t /\ w = t[i - Len(h)]
      BY <2>1, <2>2, <2>3, <2>5
    <3> QED
      BY <3>1 DEF ToSet
  <2> QED
    BY <2>4, <2>5
<1> QED
  BY <1>5, <1>9, <1>10, <1>12, <1>13

(* Rows are gathered only when there is room.                              *)
LEMMA RowGroupsFew ==
  ASSUME NEW W, NEW rows \in Seq(Seq(W)), Len(rows) >= 2,
         \A i \in 1..Len(rows) : rows[i] # <<>>, NEW config, config.chunk_size \in Nat
  PROVE  RowGroups(rows, config) \in Seq(FewRows(rows, config))
<1> DEFINE S == FewRows(rows, config)
           R == Seq(2..Len(rows))
           N == Len(rows) - 1
           size == config.chunk_size
<1>1. Len(rows) \in Nat /\ N \in Nat /\ N # 0 /\ rows # <<>> /\ size \in Nat
  <2>1. Len(rows) \in Nat
    BY LenProperties
  <2> QED
    BY <2>1, EmptySeq
<1>2. PICK f : RowsRun(f, rows, config) /\ RowGroups(rows, config) = LastGroup(f[N])
  BY <1>1, RowGroupsRuns
<1>3. \A r \in 2..Len(rows) : <<r>> \in S
  <2> TAKE r \in 2..Len(rows)
  <2> DEFINE one == <<r>>
             T == 2..Len(rows)
  <2>0. r \in T
    OBVIOUS
  <2> HIDE DEF T
  <2>1. one \in Seq(T) /\ Len(one) = 1 /\ one # <<>>
    BY <2>0
  <2> HIDE DEF one
  <2> QED
    BY <2>1 DEF FewRows, T, one
<1>4. ASSUME NEW g \in R, NEW r \in 2..Len(rows), ~(Len(TableText(rows, Append(g, r), config)) > size)
      PROVE  Append(g, r) \in S
  <2> DEFINE h == Append(g, r)
  <2>1. h \in R /\ h # <<>>
    BY AppendProperties
  <2>2. TableText(rows, h, config) \in Seq(W)
    BY <1>1, <2>1, TableTextIs
  <2> DEFINE m == Len(TableText(rows, h, config))
  <2>3. m \in Nat /\ ~(m > size)
    BY <1>4, <2>2, LenProperties
  <2> HIDE DEF m
  <2>4. m <= size
    BY <1>1, <2>3
  <2> HIDE DEF h
  <2> QED
    BY <2>1, <2>4 DEF FewRows, m, h
<1> HIDE DEF S, N
<1> DEFINE Good == {n \in 0..N : f[n].groups \in Seq(S) /\ (n # 0 => f[n].current \in S)}
<1>5. 0 \in Good
  <2> DEFINE none == <<>>
             start == [groups |-> none, current |-> none]
  <2>1. none \in Seq(S) /\ start.groups = none
    BY EmptySeq
  <2>2. f[0] = start
    BY <1>2 DEF RowsRun
  <2> HIDE DEF none, start
  <2> QED
    BY <1>1, <2>1, <2>2
<1>6. ASSUME NEW n \in 0..N, n # 0, n - 1 \in Good PROVE n \in Good
  <2> DEFINE c == f[n - 1]
             r == n + 1
             one == <<r>>
             more == Append(c.current, r)
             groups == c.groups
             current == c.current
  <2>1. n \in 1..N /\ n - 1 \in 0..N /\ r \in 2..Len(rows)
    BY <1>1, <1>6 DEF N
  <2>2. f[n] = AddRow(c, rows, r, config) /\ groups \in Seq(S) /\ (n - 1 # 0 => current \in S)
        /\ c \in Gathered(rows, n - 1)
    BY <1>2, <1>6, <2>1 DEF RowsRun, N
  <2>3. c = [groups |-> groups, current |-> current] /\ current \in R /\ (n - 1 # 0 => current # <<>>)
    BY <2>2 DEF Gathered
  <2> DEFINE full == current # <<>> /\ Len(TableText(rows, more, config)) > size
  <2>4. f[n] = IF full THEN [groups |-> Append(groups, current), current |-> one]
               ELSE [groups |-> groups, current |-> more]
    <3>1. f[n] = IF full THEN [groups |-> Append(groups, current), current |-> one]
                 ELSE [c EXCEPT !.current = more]
      BY <2>2 DEF AddRow
    <3>2. [c EXCEPT !.current = more] = [groups |-> groups, current |-> more]
      <4> HIDE DEF groups, current, more, c
      <4> QED
        BY <2>3
    <3> QED
      BY <3>1, <3>2
  <2>5. CASE full
    <3>1. current \in S
      <4>1. CASE n - 1 # 0
        BY <2>2, <4>1
      <4>2. CASE n - 1 = 0
        <5>1. f[0] = [groups |-> <<>>, current |-> <<>>]
          BY <1>2 DEF RowsRun
        <5>2. current = <<>>
          BY <4>2, <5>1
        <5> QED
          BY <2>5, <5>2
      <4> QED
        BY <4>1, <4>2
    <3>2. one \in S
      BY <1>3, <2>1
    <3>3. Append(groups, current) \in Seq(S)
      <4> HIDE DEF groups, current
      <4> QED
        BY <2>2, <3>1, AppendProperties
    <3> HIDE DEF full, one, groups, current, more
    <3>4. f[n].groups = Append(groups, current) /\ f[n].current = one
      BY <2>4, <2>5
    <3> QED
      BY <1>6, <3>2, <3>3, <3>4
  <2>6. CASE ~full
    <3>1. more \in S
      <4>1. CASE current = <<>>
        <5>1. more = one
          <6>1. c.current = <<>>
            BY <4>1
          <6> HIDE DEF c, r
          <6>2. Append(<<>>, r) = <<r>>
            OBVIOUS
          <6> QED
            BY <6>1, <6>2
        <5> QED
          BY <1>3, <2>1, <5>1
      <4>2. CASE current # <<>>
        BY <1>4, <2>1, <2>3, <2>6, <4>2
      <4> QED
        BY <4>1, <4>2
    <3> HIDE DEF full, one, groups, current, more
    <3>2. f[n].groups = groups /\ f[n].current = more
      BY <2>4, <2>6
    <3> QED
      BY <1>6, <2>2, <3>1, <3>2
  <2> QED
    BY <2>5, <2>6
<1> HIDE DEF Good
<1>7. \A n \in 0..N : n \in Good
  BY <1>1, <1>5, <1>6, Induction
<1>8. N \in 0..N
  BY <1>1
<1>9. f[N].groups \in Seq(S) /\ f[N].current \in S
  BY <1>1, <1>7, <1>8 DEF Good
<1>10. Append(f[N].groups, f[N].current) \in Seq(S)
  <2> DEFINE a == f[N].groups
             b == f[N].current
  <2> HIDE DEF a, b
  <2>1. a \in Seq(S) /\ b \in S
    BY <1>9 DEF a, b
  <2>2. Append(a, b) \in Seq(S)
    BY <2>1, AppendProperties
  <2> QED
    BY <2>2 DEF a, b
<1> QED
  BY <1>2, <1>10 DEF LastGroup, S

(* The pieces of a table stand on it.                                      *)
LEMMA TableChunksStand ==
  ASSUME NEW W, NEW unit, unit.rows \in Seq(Seq(W)), unit.rows # <<>>,
         \A i \in 1..Len(unit.rows) : unit.rows[i] # <<>>,
         NEW config, config.chunk_size \in Nat
  PROVE  \A chunk \in ToSet(TableChunks(unit, unit.rows, config)) : Stands(<<unit>>, chunk, config)
<1> DEFINE rows == unit.rows
           text == Text(rows)
           size == config.chunk_size
           b == <<unit>>
<1>1. rows \in Seq(Seq(W)) /\ rows # <<>> /\ Len(rows) \in Nat /\ Len(rows) # 0 /\ size \in Nat
  BY LenProperties, EmptySeq
<1>2. Len(b) = 1 /\ b[1] = unit
  OBVIOUS
<1>3. ASSUME NEW content \in Seq(W), content # <<>>, ToSet(content) \subseteq ToSet(text),
             NEW from, NEW to, NEW oversized, NEW repeated,
             oversized \in BOOLEAN, oversized => Len(content) > size, ~oversized => Len(content) <= size
      PROVE  Stands(b, Cut(unit, content, from, to, oversized, repeated), config)
  <2> DEFINE chunk == Cut(unit, content, from, to, oversized, repeated)
  <2>1. /\ chunk.text = content /\ chunk.sources = {unit.source} /\ chunk.pages = {unit.page} \ {0}
        /\ chunk.oversized = oversized /\ chunk.rows = <<from, to>>
    BY DEF Cut, Chunk
  <2>2. <<from, to>> # <<>>
    OBVIOUS
  <2> HIDE DEF chunk, b
  <2>3. LimitOf(chunk, config) = size
    BY <2>1, <2>2 DEF LimitOf
  <2>4. 1..1 = {1} /\ 1 \in 1..Len(b) /\ 1 \in 1..Len(b) /\ 1 \in 1..1
    BY <1>2
  <2>5. Among(b, chunk, 1, 1)
    <3>1. {b[i].source : i \in 1..1} = {unit.source} /\ {b[i].page : i \in 1..1} = {unit.page}
      BY <1>2, <2>4
    <3>2. {ToSet(Text(b[i].rows)) : i \in 1..1} = {ToSet(text)}
      BY <1>2, <2>4
    <3>3. UNION {ToSet(text)} = ToSet(text)
      OBVIOUS
    <3>4. Sequence(content)
      BY <1>3, Items
    <3> QED
      BY <1>3, <2>1, <3>1, <3>2, <3>3, <3>4 DEF Among
  <2>6. FitsLimit(chunk, config, 1, 1)
    BY <1>3, <2>1, <2>3 DEF FitsLimit
  <2>7. 1 \in 1..Len(b) /\ 1 \in 1..Len(b)
    BY <2>4
  <2>8. Stands(b, chunk, config)
    <3>1. \E hi \in 1..Len(b) : Among(b, chunk, 1, hi) /\ FitsLimit(chunk, config, 1, hi)
      BY <2>4, <2>5, <2>6
    <3> QED
      BY <2>4, <3>1 DEF Stands
  <2> QED
    BY <2>8 DEF chunk
<1>4. text \in Seq(W) /\ text # <<>>
  <2>1. 1 \in 1..Len(rows)
    BY <1>1
  <2>2. ToSet(rows[1]) \subseteq ToSet(text)
    BY <1>1, <2>1, FlatItems DEF Text
  <2> DEFINE x == rows[1]
             S == Seq(W)
  <2>3. x \in S /\ x # <<>>
    <3> HIDE DEF S
    <3>1. rows \in Seq(S)
      BY <1>1 DEF S
    <3> QED
      BY <2>1, <3>1, ElementOfSeq
  <2> HIDE DEF x
  <2>4. x \in Seq(W)
    BY <2>3
  <2>5. 1 \in DOMAIN x
    BY <2>3, <2>4, LenProperties, EmptySeq
  <2>6. x[1] \in ToSet(text)
    BY <2>2, <2>5 DEF ToSet, x
  <2>7. text \in Seq(W)
    BY <1>1, FlatTyped DEF Text
  <2> HIDE DEF text
  <2> QED
    BY <2>6, <2>7, EmptyIs
<1> HIDE DEF b
<1>5. CASE Len(text) <= size \/ Len(rows) = 1
  <2> DEFINE n == Len(text)
             over == n > size
             chunk == Cut(unit, text, 0, Len(rows), over, FALSE)
  <2>1. TableChunks(unit, rows, config) = <<chunk>>
    BY <1>5 DEF TableChunks
  <2>2. Stands(b, chunk, config)
    <3>1. n \in Nat
      BY <1>4, LenProperties
    <3> HIDE DEF n, size
    <3>2. over \in BOOLEAN /\ (over => n > size) /\ (~over => n <= size)
      BY <1>1, <3>1
    <3> HIDE DEF over, text, rows
    <3>3. (over => Len(text) > size) /\ (~over => Len(text) <= size)
      BY <3>2 DEF n
    <3> QED
      BY <1>3, <1>4, <3>2, <3>3
  <2> HIDE DEF chunk
  <2>3. \A c \in ToSet(<<chunk>>) : c = chunk
    <3>1. DOMAIN <<chunk>> = {1}
      OBVIOUS
    <3> QED
      BY <3>1 DEF ToSet
  <2> QED
    BY <2>1, <2>2, <2>3 DEF b, rows
<1>6. CASE ~(Len(text) <= size \/ Len(rows) = 1)
  <2> DEFINE groups == RowGroups(rows, config)
             S == FewRows(rows, config)
             content(g) == TableText(rows, groups[g], config)
             chunk(g) == GroupChunk(unit, content(g), groups[g], g, config)
  <2>0. Len(rows) >= 2 /\ \A i \in 1..Len(rows) : rows[i] # <<>>
    <3> DEFINE k == Len(rows)
    <3>1. k \in Nat /\ k # 0 /\ k # 1
      BY <1>1, <1>6
    <3> HIDE DEF k
    <3>2. k >= 2
      BY <3>1
    <3> QED
      BY <3>2 DEF k
  <2>1. TableChunks(unit, rows, config) = GroupChunks(unit, rows, groups, config)
    BY <1>6 DEF TableChunks
  <2>2. groups \in Seq(S)
    BY <1>1, <2>0, RowGroupsFew
  <2> HIDE DEF rows, groups
  <2>3. DOMAIN groups = 1..Len(groups) /\ \A g \in 1..Len(groups) : groups[g] \in S
    <3> HIDE DEF S
    <3> QED
      BY <2>2, LenProperties, ElementOfSeq
  <2>4. ASSUME NEW g \in 1..Len(groups) PROVE Stands(b, chunk(g), config)
    <3> DEFINE group == groups[g]
               c == content(g)
               n == Len(c)
               over == n > size /\ Len(group) = 1
    <3>1. group \in Seq(2..Len(rows)) /\ group # <<>> /\ (Len(group) = 1 \/ n <= size)
      BY <2>3 DEF FewRows
    <3>2. c \in Seq(W) /\ c # <<>> /\ ToSet(c) \subseteq ToSet(text)
      BY <1>1, <2>0, <3>1, TableTextIs
    <3>3. n \in Nat
      BY <3>2, LenProperties
    <3>4. chunk(g) = Cut(unit, c, Head(group) - 1, Last(group), over, g > 1 /\ config.repeat_header)
      BY DEF GroupChunk
    <3>5. over \in BOOLEAN /\ (over => n > size) /\ (~over => n <= size)
      <4> HIDE DEF n, size, group
      <4> QED
        BY <1>1, <3>1, <3>3
    <3> HIDE DEF over, group, c, text, chunk, size
    <3>6. over \in BOOLEAN /\ (over => Len(c) > size) /\ (~over => Len(c) <= size)
      BY <3>5
    <3> DEFINE first == Head(group) - 1
               last == Last(group)
               again == g > 1 /\ config.repeat_header
    <3> HIDE DEF first, last, again
    <3>7. Stands(b, Cut(unit, c, first, last, over, again), config)
      BY <1>3, <3>2, <3>6
    <3> QED
      BY <3>4, <3>7 DEF first, last, again
  <2>5. GroupChunks(unit, rows, groups, config) = [g \in 1..Len(groups) |-> chunk(g)]
    BY <2>3 DEF GroupChunks
  <2> HIDE DEF chunk
  <2>6. \A c \in ToSet(GroupChunks(unit, rows, groups, config)) :
          \E g \in 1..Len(groups) : c = chunk(g)
    BY <2>5 DEF ToSet
  <2> QED
    BY <2>1, <2>4, <2>6 DEF b, rows
<1> QED
  BY <1>5, <1>6

-----------------------------------------------------------------------------
(* Pieces without a boundary inside.                                       *)

(* No two neighbours in a block have a boundary between them.               *)
Unbroken(b, domain, config) ==
  \A k \in 1..(Len(b) - 1) : ~Boundary(b[k], b[k + 1], domain, config)

(* A piece with units, and without a boundary inside a block.               *)
JoinedPieces(U, domain, config) ==
  {p \in PieceOf(U, config) : p.units # <<>> /\ (p.table \/ Unbroken(p.units, domain, config))}

JoinedSoFar(acc, U, domain, config) ==
  acc.pieces \in Seq(JoinedPieces(U, domain, config)) /\ Unbroken(acc.block, domain, config)

(* Closing the block joins what it holds.                                  *)
LEMMA FlushJoins ==
  ASSUME NEW U, NEW domain, NEW config, NEW s, NEW acc \in Gathering(U, config, s),
         JoinedSoFar(acc, U, domain, config)
  PROVE  JoinedSoFar(Flush(acc), U, domain, config) /\ Flush(acc).block = <<>>
<1> DEFINE D == JoinedPieces(U, domain, config)
           block == acc.block
           pieces == acc.pieces
           p == BlockPiece(block)
           none == <<>>
<1>1. pieces \in Seq(D) /\ Unbroken(block, domain, config)
  BY DEF JoinedSoFar
<1>2. CASE block = <<>>
  BY <1>2 DEF Flush
<1>3. CASE block # <<>>
  <2>1. Flush(acc) = [pieces |-> Append(pieces, p), block |-> none]
    BY <1>3 DEF Flush, BlockPiece
  <2>2. Flush(acc).pieces = Append(pieces, p) /\ Flush(acc).block = none
    BY <2>1
  <2>3. block \in Seq(Plain(U, config))
    BY DEF Gathering
  <2>4. p \in PieceOf(U, config)
    BY <2>3, PieceIs
  <2>5. p.units = block /\ p.units # <<>>
    BY <1>3 DEF BlockPiece
  <2> HIDE DEF p
  <2>6. p \in D
    BY <1>1, <2>4, <2>5 DEF JoinedPieces
  <2> HIDE DEF D
  <2>7. Append(pieces, p) \in Seq(D)
    BY <1>1, <2>6, AppendProperties
  <2>8. Len(none) = 0
    OBVIOUS
  <2>9. Unbroken(none, domain, config)
    BY <2>8 DEF Unbroken
  <2> QED
    BY <2>2, <2>7, <2>9 DEF JoinedSoFar, D
<1> QED
  BY <1>2, <1>3

(* A block goes on with a unit that has no boundary before it.              *)
LEMMA JoinsUnit ==
  ASSUME NEW V, NEW b \in Seq(V), NEW unit \in V, NEW domain, NEW config, Unbroken(b, domain, config),
         b # <<>> => ~Boundary(Last(b), unit, domain, config)
  PROVE  Unbroken(Append(b, unit), domain, config)
<1> DEFINE n == Len(b)
           r == Append(b, unit)
<1>1. /\ n \in Nat /\ Len(r) = n + 1 /\ r[n + 1] = unit /\ \A k \in 1..n : r[k] = b[k]
  BY AppendProperties, LenProperties
<1>2. n # 0 => b # <<>> /\ Last(b) = b[n]
  BY EmptySeq DEF Last
<1> HIDE DEF n, r
<1>3. ASSUME NEW k \in 1..(Len(r) - 1) PROVE ~Boundary(r[k], r[k + 1], domain, config)
  <2>1. k \in 1..n
    BY <1>1, <1>3
  <2>2. CASE k = n
    BY <1>1, <1>2, <2>1, <2>2
  <2>3. CASE k # n
    <3>1. k \in 1..(n - 1) /\ k + 1 \in 1..n
      BY <1>1, <2>1, <2>3
    <3>2. ~Boundary(b[k], b[k + 1], domain, config)
      BY <3>1 DEF Unbroken, n
    <3> QED
      BY <1>1, <2>1, <3>1, <3>2
  <2> QED
    BY <2>2, <2>3
<1>4. Unbroken(r, domain, config)
  BY <1>3 DEF Unbroken
<1> QED
  BY <1>4 DEF r

(* A unit gathered keeps the pieces joined.                                *)
LEMMA AddUnitJoins ==
  ASSUME NEW U, NEW domain, NEW config, NEW s, NEW acc \in Gathering(U, config, s), NEW unit \in U,
         JoinedSoFar(acc, U, domain, config)
  PROVE  JoinedSoFar(AddUnit(acc, unit, domain, config), U, domain, config)
<1> DEFINE D == JoinedPieces(U, domain, config)
           P == PieceOf(U, config)
           V == Plain(U, config)
           closed == Flush(acc)
<1>1. JoinedSoFar(closed, U, domain, config) /\ closed.block = <<>> /\ closed \in Gathering(U, config, s)
  BY FlushJoins, FlushIs
<1> HIDE DEF closed
<1>2. CASE IsTable(unit, config)
  <2> DEFINE p == TablePiece(unit)
  <2>1. AddUnit(acc, unit, domain, config) = [closed EXCEPT !.pieces = Append(@, p)]
    BY <1>2 DEF AddUnit, IsTable, TablePiece, closed
  <2>2. closed \in [pieces : Seq(P), block : Seq(V)]
    BY <1>1 DEF Gathering
  <2>3. p \in P
    BY <1>2, PieceIs
  <2>4. p.table = TRUE /\ p.units # <<>>
    BY DEF TablePiece
  <2> HIDE DEF p, P, V
  <2>5. p \in D
    BY <2>3, <2>4 DEF JoinedPieces, P
  <2>6. [closed EXCEPT !.pieces = Append(@, p)] = [pieces |-> Append(closed.pieces, p), block |-> closed.block]
    BY <2>2, WithPiece
  <2>7. closed.pieces \in Seq(D) /\ Unbroken(closed.block, domain, config)
    BY <1>1 DEF JoinedSoFar
  <2> HIDE DEF D
  <2>8. Append(closed.pieces, p) \in Seq(D)
    BY <2>5, <2>7, AppendProperties
  <2> DEFINE new == [pieces |-> Append(closed.pieces, p), block |-> closed.block]
  <2>9. new.pieces = Append(closed.pieces, p) /\ new.block = closed.block
    OBVIOUS
  <2> HIDE DEF new
  <2>10. JoinedSoFar(new, U, domain, config)
    BY <2>7, <2>8, <2>9 DEF JoinedSoFar, D
  <2> QED
    BY <2>1, <2>6, <2>10 DEF new
<1>3. CASE ~IsTable(unit, config)
  <2> DEFINE a == Break(acc, unit, domain, config)
             b == a.block
             more == Append(b, unit)
  <2>1. AddUnit(acc, unit, domain, config) = [a EXCEPT !.block = Append(@, unit)]
    BY <1>3 DEF AddUnit, IsTable
  <2>2. /\ a \in Gathering(U, config, s) /\ JoinedSoFar(a, U, domain, config)
        /\ b # <<>> => ~Boundary(Last(b), unit, domain, config)
    BY <1>1 DEF Break, closed
  <2> HIDE DEF a
  <2>3. a \in [pieces : Seq(P), block : Seq(V)]
    BY <2>2 DEF Gathering
  <2>4. unit \in V
    BY <1>3 DEF Plain
  <2> HIDE DEF P, V
  <2>5. [a EXCEPT !.block = Append(@, unit)] = [pieces |-> a.pieces, block |-> more]
    BY <2>3, WithUnit
  <2>6. b \in Seq(V) /\ Unbroken(b, domain, config) /\ a.pieces \in Seq(D)
    BY <2>2, <2>3 DEF JoinedSoFar
  <2> HIDE DEF b, D
  <2>7. Unbroken(more, domain, config)
    BY <2>2, <2>4, <2>6, JoinsUnit
  <2> DEFINE new == [pieces |-> a.pieces, block |-> more]
  <2>8. new.pieces = a.pieces /\ new.block = more
    OBVIOUS
  <2> HIDE DEF new, more
  <2>9. JoinedSoFar(new, U, domain, config)
    BY <2>6, <2>7, <2>8 DEF JoinedSoFar, D
  <2> QED
    BY <2>1, <2>5, <2>9 DEF new
<1> QED
  BY <1>2, <1>3

(* Pieces have units, and no boundary inside.                              *)
LEMMA PiecesJoined ==
  ASSUME NEW U, NEW units \in Seq(U), NEW domain, NEW config
  PROVE  PiecesOf(units, domain, config) \in Seq(JoinedPieces(U, domain, config))
<1> DEFINE N == Len(units)
<1>1. PICK f : /\ PiecesRun(f, units, domain, config, U)
               /\ PiecesOf(units, domain, config) = Flush(f[N]).pieces
  BY PiecesRuns
<1>2. N \in Nat /\ \A n \in 1..N : units[n] \in U
  BY LenProperties, ElementOfSeq
<1>3. /\ f[0] = [pieces |-> <<>>, block |-> <<>>]
      /\ \A n \in 1..N : f[n] = AddUnit(f[n - 1], units[n], domain, config)
      /\ \A n \in 0..N : f[n] \in Gathering(U, config, Prefix(units, n))
  BY <1>1 DEF PiecesRun
<1> HIDE DEF N
<1> DEFINE Good == {n \in 0..N : JoinedSoFar(f[n], U, domain, config)}
<1>4. 0 \in Good
  <2> DEFINE D == JoinedPieces(U, domain, config)
             none == <<>>
  <2>1. f[0].pieces = none /\ f[0].block = none /\ none \in Seq(D) /\ Len(none) = 0
    BY <1>3
  <2> HIDE DEF none
  <2>2. JoinedSoFar(f[0], U, domain, config)
    BY <2>1 DEF JoinedSoFar, Unbroken
  <2> QED
    BY <1>2, <2>2
<1>5. ASSUME NEW n \in 0..N, n # 0, n - 1 \in Good PROVE n \in Good
  <2>1. n \in 1..N /\ n - 1 \in 0..N
    BY <1>2, <1>5
  <2> DEFINE acc == f[n - 1]
             unit == units[n]
             s == Prefix(units, n - 1)
  <2>2. acc \in Gathering(U, config, s) /\ JoinedSoFar(acc, U, domain, config) /\ unit \in U
    BY <1>2, <1>3, <1>5, <2>1
  <2>3. f[n] = AddUnit(acc, unit, domain, config)
    BY <1>3, <2>1
  <2> HIDE DEF acc, unit, s
  <2>4. JoinedSoFar(f[n], U, domain, config)
    BY <2>2, <2>3, AddUnitJoins
  <2> QED
    BY <2>4
<1> HIDE DEF Good
<1>6. N \in Good
  <2>1. \A k \in 0..N : k \in Good
    BY <1>2, <1>4, <1>5, Induction
  <2> QED
    BY <1>2, <2>1
<1>7. f[N] \in Gathering(U, config, Prefix(units, N)) /\ JoinedSoFar(f[N], U, domain, config)
  BY <1>2, <1>3, <1>6 DEF Good
<1>8. JoinedSoFar(Flush(f[N]), U, domain, config)
  BY <1>7, FlushJoins
<1> QED
  BY <1>1, <1>8 DEF JoinedSoFar

(* Two sections meet only where an element without one stands with them.     *)
OneSection(b, lo, hi) ==
  (\E i \in lo..hi : b[i].hint = <<>>) \/ \A i \in lo..hi : b[i].hint = b[lo].hint

(* A stretch of a block without a boundary is of one section.               *)
LEMMA JoinedSection ==
  ASSUME NEW b, Len(b) \in Nat, NEW domain, NEW config, Unbroken(b, domain, config),
         config.section_aware, NEW lo \in 1..Len(b), NEW hi \in lo..Len(b)
  PROVE  OneSection(b, lo, hi)
<1> SUFFICES ASSUME \A i \in lo..hi : b[i].hint # <<>>
             PROVE  \A i \in lo..hi : b[i].hint = b[lo].hint
  BY DEF OneSection
<1> DEFINE n == hi - lo
           Good == {k \in 0..n : b[lo + k].hint = b[lo].hint}
<1>1. n \in Nat /\ lo \in Nat /\ hi \in Nat
  OBVIOUS
<1>2. 0 \in Good
  <2>1. lo + 0 = lo
    BY <1>1
  <2> QED
    BY <1>1, <2>1
<1>3. ASSUME NEW k \in 0..n, k # 0, k - 1 \in Good PROVE k \in Good
  <2> DEFINE j == lo + (k - 1)
  <2>1. j \in 1..(Len(b) - 1) /\ j + 1 = lo + k /\ j \in lo..hi /\ lo + k \in lo..hi
    BY <1>1, <1>3
  <2>2. b[j].hint = b[lo].hint
    BY <1>3
  <2> HIDE DEF j
  <2>3. ~Boundary(b[j], b[j + 1], domain, config)
    BY <2>1 DEF Unbroken
  <2>4. b[j].hint # <<>> /\ b[j + 1].hint # <<>>
    BY <2>1
  <2>5. b[j].hint = b[j + 1].hint
    BY <2>3, <2>4 DEF Boundary
  <2> QED
    BY <2>1, <2>2, <2>5
<1> HIDE DEF Good
<1>4. \A k \in 0..n : k \in Good
  BY <1>1, <1>2, <1>3, Induction
<1>5. ASSUME NEW i \in lo..hi PROVE b[i].hint = b[lo].hint
  <2>1. i - lo \in 0..n /\ lo + (i - lo) = i
    BY <1>1
  <2>2. i - lo \in Good
    BY <1>4, <2>1
  <2> QED
    BY <2>1, <2>2 DEF Good
<1> QED
  BY <1>5

-----------------------------------------------------------------------------
(* Normalization keeps rows of words.                                      *)

Rows(P) == Seq(Seq(Seq(P)))

LEMMA VisibleTyped ==
  ASSUME NEW P, NEW row \in Seq(Seq(P))
  PROVE  Visible(row) \in Seq(Seq(P))
<1> DEFINE words == [i \in DOMAIN row |-> Without(row[i], Invisible)]
<1>1. Len(row) \in Nat /\ DOMAIN row = 1..Len(row) /\ \A i \in 1..Len(row) : row[i] \in Seq(P)
  BY LenProperties, ElementOfSeq
<1>2. \A i \in 1..Len(row) : Without(row[i], Invisible) \in Seq(P)
  BY <1>1, WithoutTyped
<1>3. words \in [1..Len(row) -> Seq(P)]
  BY <1>1, <1>2
<1>4. words \in Seq(Seq(P))
  BY <1>1, <1>3, SeqDef
<1> HIDE DEF words
<1> QED
  BY <1>4, WithoutTyped DEF Visible, words

(* The parts of a sequence.                                                *)
LEMMA Parts ==
  ASSUME NEW T, NEW s \in Seq(T), s # <<>>
  PROVE  /\ Front(s) \in Seq(T) /\ Tail(s) \in Seq(T)
         /\ Last(s) \in T /\ s[1] \in T /\ Len(s) \in Nat /\ Len(s) >= 1
<1>1. Len(s) \in Nat /\ Len(s) # 0 /\ Tail(s) \in Seq(T)
  BY LenProperties, EmptySeq, HeadTailProperties
<1>2. \A i \in 1..Len(s) : s[i] \in T
  BY ElementOfSeq
<1>3. \A i \in 1..(Len(s) - 1) : s[i] \in T
  BY <1>1, <1>2
<1>4. SubSeq(s, 1, Len(s) - 1) \in Seq(T)
  BY <1>1, <1>3, SubSeqProperties
<1> QED
  BY <1>1, <1>2, <1>4 DEF Front, Last

LEMMA JoinRowTyped ==
  ASSUME NEW P, NEW rows \in Rows(P), NEW row \in Seq(Seq(P))
  PROVE  JoinRow(rows, row) \in Rows(P)
<1> DEFINE W == Seq(P)
           R == Seq(W)
<1>1. rows \in Seq(R) /\ row \in R
  BY DEF Rows
<1>2. Append(rows, row) \in Seq(R)
  BY <1>1, AppendProperties
<1>3. CASE /\ rows # <<>> /\ row # <<>>
           /\ LET last == Last(rows) IN last # <<>> /\ Breaks(Last(last))
           /\ Continues(row[1])
  <2>1. Front(rows) \in Seq(R) /\ Last(rows) \in R
    BY <1>1, <1>3, Parts
  <2>2. Last(rows) # <<>> /\ Len(Last(Last(rows))) >= 2
    BY <1>3 DEF Breaks
  <2>3. Front(Last(rows)) \in Seq(W) /\ Last(Last(rows)) \in W
    BY <2>1, <2>2, Parts
  <2>4. Last(Last(rows)) # <<>>
    BY <2>2, EmptyIs
  <2>5. Front(Last(Last(rows))) \in Seq(P)
    BY <2>3, <2>4, Parts
  <2>6. Tail(row) \in Seq(W) /\ row[1] \in W
    BY <1>1, <1>3, Parts
  <2> DEFINE w == Front(Last(Last(rows))) \o row[1]
  <2>7. w \in W
    BY <2>5, <2>6, ConcatProperties
  <2> HIDE DEF w
  <2>8. <<w>> \in Seq(W)
    BY <2>7
  <2>9. Front(Last(rows)) \o <<w>> \o Tail(row) \in Seq(W)
    <3>1. Front(Last(rows)) \o <<w>> \in Seq(W)
      BY <2>3, <2>8, ConcatProperties
    <3> QED
      BY <2>6, <3>1, ConcatProperties
  <2>10. Append(Front(rows), Front(Last(rows)) \o <<w>> \o Tail(row)) \in Seq(R)
    BY <2>1, <2>9, AppendProperties
  <2> QED
    BY <1>3, <2>10 DEF JoinRow, w, Rows
<1> QED
  BY <1>2, <1>3 DEF JoinRow, Rows

LEMMA JoinedTyped ==
  ASSUME NEW P, NEW rows \in Rows(P)
  PROVE  Joined(rows) \in Rows(P) /\ \A k \in 1..Len(Joined(rows)) : Joined(rows)[k] # <<>>
<1> DEFINE N == Len(rows)
           S == Rows(P)
           Eq(f) == f = [n \in 0..N |->
                           IF n = 0 THEN <<>> ELSE JoinRow(f[n - 1], Visible(rows[n]))]
           joined == CHOOSE f : Eq(f)
           step == [n \in 1..N |-> [r \in S |-> JoinRow(r, Visible(rows[n]))]]
<1>1. N \in Nat /\ \A n \in 1..N : rows[n] \in Seq(Seq(P))
  BY LenProperties, ElementOfSeq DEF Rows
<1>2. \A n \in 1..N : \A r \in S : JoinRow(r, Visible(rows[n])) \in S
  BY <1>1, VisibleTyped, JoinRowTyped
<1>3. step \in [1..N -> [S -> S]]
  BY <1>2
<1>4. \A n \in 1..N : \A r \in S : step[n][r] = JoinRow(r, Visible(rows[n]))
  OBVIOUS
<1>5. <<>> \in S
  BY EmptySeq DEF Rows
<1> HIDE DEF step, S
<1>6. PICK g \in [0..N -> S] : Recursion(g, N, <<>>, step)
  BY <1>1, <1>3, <1>5, RecursionExists
<1>7. ASSUME NEW n \in 0..N
      PROVE  g[n] = IF n = 0 THEN <<>> ELSE JoinRow(g[n - 1], Visible(rows[n]))
  <2>1. CASE n = 0
    BY <1>6, <2>1 DEF Recursion
  <2>2. CASE n # 0
    <3>1. n \in 1..N /\ n - 1 \in 0..N
      BY <1>1, <2>2
    <3>2. g[n] = step[n][g[n - 1]] /\ g[n - 1] \in S
      BY <1>6, <2>2, <3>1 DEF Recursion
    <3> QED
      BY <1>4, <2>2, <3>1, <3>2
  <2> QED
    BY <2>1, <2>2
<1>8. Eq(g)
  BY <1>6, <1>7
<1>9. Eq(joined)
  BY <1>8
<1>10. Joined(rows) = Without(joined[N], <<>>)
  BY Zenon DEF Joined
<1> HIDE DEF joined
<1>11. \A n \in 0..N : joined[n] = IF n = 0 THEN <<>> ELSE JoinRow(joined[n - 1], Visible(rows[n]))
  BY <1>9
<1> DEFINE Good == {n \in 0..N : joined[n] \in S}
<1>12. 0 \in Good
  BY <1>1, <1>5, <1>11
<1>13. ASSUME NEW n \in 0..N, n # 0, n - 1 \in Good PROVE n \in Good
  <2>1. n \in 1..N /\ joined[n - 1] \in S
    BY <1>1, <1>13
  <2>2. joined[n] = JoinRow(joined[n - 1], Visible(rows[n]))
    BY <1>11, <1>13
  <2> QED
    BY <1>2, <2>1, <2>2
<1> HIDE DEF Good
<1>14. \A n \in 0..N : n \in Good
  BY <1>1, <1>12, <1>13, Induction
<1>15. joined[N] \in Seq(Seq(Seq(P)))
  BY <1>1, <1>14 DEF Good, S, Rows
<1> QED
  BY <1>10, <1>15, WithoutTyped DEF Rows

LEMMA NormalizeTyped ==
  ASSUME NEW P, NEW kind, NEW rows \in Rows(P)
  PROVE  Normalize(kind, rows) \in Rows(P)
<1>1. Joined(rows) \in Rows(P)
  BY JoinedTyped
<1>2. Text(Joined(rows)) \in Seq(Seq(P))
  BY <1>1, TextTyped DEF Rows
<1>3. <<>> \in Rows(P) /\ <<Text(Joined(rows))>> \in Rows(P)
  BY <1>2, EmptySeq DEF Rows
<1> QED
  BY <1>1, <1>3 DEF Normalize, OneRow

(* The elements of a document, normalized.                                 *)
IsPrepared(p) ==
  /\ Sequence(p)
  /\ \A i \in 1..Len(p) : Text(p[i].rows) \in Seq(Seq(STRING))

LEMMA PreparedIs ==
  ASSUME NEW elements \in ParsedElements
  PROVE  /\ Len(elements) \in Nat /\ DOMAIN elements = 1..Len(elements)
         /\ IsPrepared(Prepared(elements)) /\ Len(Prepared(elements)) = Len(elements)
<1> DEFINE N == Len(elements)
           p == Prepared(elements)
           E == [kind : STRING, rows : Seq(Seq(Seq(STRING))), page : Nat,
                 hint : Seq(Seq(STRING))]
<1>1. N \in Nat /\ DOMAIN elements = 1..N /\ \A i \in 1..N : elements[i] \in E
  BY LenProperties, ElementOfSeq DEF ParsedElements
<1>2. p = [i \in 1..N |-> [elements[i] EXCEPT !.rows = Normalize(elements[i].kind, elements[i].rows)]]
  BY <1>1 DEF Prepared
<1>3. p = [i \in 1..N |-> p[i]]
  BY <1>2
<1>4. Sequence(p) /\ Len(p) = N
  BY <1>1, <1>3, IsSequence
<1>5. ASSUME NEW i \in 1..N PROVE Text(p[i].rows) \in Seq(Seq(STRING))
  <2>1. elements[i] \in E
    BY <1>1
  <2>2. elements[i].rows \in Rows(STRING) /\ "rows" \in DOMAIN elements[i]
    BY <2>1 DEF Rows
  <2>3. p[i].rows = Normalize(elements[i].kind, elements[i].rows)
    BY <1>2, <2>2
  <2>4. p[i].rows \in Seq(Seq(Seq(STRING)))
    BY <2>2, <2>3, NormalizeTyped DEF Rows
  <2> QED
    BY <2>4, TextTyped
<1> QED
  BY <1>1, <1>4, <1>5 DEF IsPrepared

-----------------------------------------------------------------------------
(* Clusters of near duplicates.                                            *)

LEMMA TokensFinite ==
  ASSUME NEW T, NEW text \in Seq(T)
  PROVE  IsFiniteSet(ComparisonTokens(text))
<1> DEFINE f == [i \in 1..Len(text) |-> Core(text[i])]
           S == {Core(text[i]) : i \in DOMAIN text}
<1>1. Len(text) \in Nat /\ DOMAIN text = 1..Len(text)
  BY LenProperties
<1>2. f \in Surjection(1..Len(text), S)
  BY <1>1 DEF Surjection
<1>3. IsFiniteSet(1..Len(text))
  BY <1>1, FS_Interval
<1> HIDE DEF f, S
<1>4. IsFiniteSet(S)
  BY <1>2, <1>3, FS_Surjection
<1>5. IsFiniteSet(S \ {<<>>, <<Bar>>, <<Bullet>>})
  BY <1>4, FS_Difference
<1> QED
  BY <1>5 DEF ComparisonTokens, S

LEMMA SimilarityIs ==
  ASSUME NEW T, NEW a \in Seq(T), NEW b \in Seq(T)
  PROVE  Similarity(a, b)[1] \in Int /\ Similarity(a, b)[2] \in Int
<1> DEFINE A == ComparisonTokens(a)
           B == ComparisonTokens(b)
<1>1. IsFiniteSet(A) /\ IsFiniteSet(B)
  BY TokensFinite
<1> HIDE DEF A, B
<1>2. IsFiniteSet(A \cup B) /\ IsFiniteSet(A \cap B)
  BY <1>1, FS_Union, FS_Intersection
<1>3. Cardinality(A \cup B) \in Nat /\ Cardinality(A \cap B) \in Nat
  BY <1>2, FS_CardinalityType
<1> QED
  BY <1>3 DEF Similarity, Jaccard, A, B

(* Two clusters cannot both be the closest.                                *)
LEMMA ClosestIsOne ==
  ASSUME NEW near, NEW similar, similar \subseteq Nat,
         \A c \in similar : near[c][1] \in Int /\ near[c][2] \in Int,
         NEW c \in Closest(near, similar), NEW d \in Closest(near, similar)
  PROVE  c = d
<1>1. c \in similar /\ d \in similar
  BY DEF Closest
<1> DEFINE x == near[c][1] * near[d][2]
           y == near[d][1] * near[c][2]
<1>2. x \in Int /\ y \in Int /\ c \in Nat /\ d \in Nat
  <2>1. \A a, b \in Int : a * b \in Int
    OBVIOUS
  <2>2. /\ near[c][1] \in Int /\ near[c][2] \in Int /\ near[d][1] \in Int
        /\ near[d][2] \in Int
    BY <1>1
  <2> QED
    BY <1>1, <2>1, <2>2
<1>3. (x > y \/ (x >= y /\ c <= d)) /\ (y > x \/ (y >= x /\ d <= c))
  BY <1>1 DEF Closest, Greater, AtLeast
<1> HIDE DEF x, y
<1> QED
  BY <1>2, <1>3

(* A cluster of elements up to n: later ones resemble the first.            *)
ClusterIs(m, p, n, removed, config) ==
  /\ Sequence(m) /\ Len(m) >= 1
  /\ \A k \in 1..Len(m) : m[k] \in 1..n /\ m[k] \notin removed /\ Eligible(p[m[k]], config)
  /\ \A k \in 2..Len(m) : m[1] < m[k] /\ AtLeast(Near(p, m[k], m), config.similarity)

Apart(cs) ==
  \A c, d \in 1..Len(cs) : \A k \in 1..Len(cs[c]), l \in 1..Len(cs[d]) :
    cs[c][k] = cs[d][l] => c = d /\ k = l

Clustered(cs, p, n, removed, config) ==
  /\ Sequence(cs) /\ Apart(cs)
  /\ \A c \in 1..Len(cs) : ClusterIs(cs[c], p, n, removed, config)

(* An element that opens a cluster.                                        *)
LEMMA Alone ==
  ASSUME NEW p, NEW n \in Nat, n # 0, NEW removed, NEW config, NEW cs,
         n \notin removed, Eligible(p[n], config),
         Clustered(cs, p, n - 1, removed, config)
  PROVE  Clustered(Append(cs, <<n>>), p, n, removed, config)
<1> DEFINE q == Append(cs, <<n>>)
           L == Len(cs)
<1>1. L \in Nat
  BY SequenceIs DEF Clustered
<1>2. Sequence(q) /\ Len(q) = L + 1 /\ q[L + 1] = <<n>> /\ \A c \in 1..L : q[c] = cs[c]
  BY AppendIs DEF Clustered
<1> HIDE DEF q
<1>3. Sequence(<<n>>) /\ Len(<<n>>) = 1 /\ <<n>>[1] = n
  <2>1. <<n>> \in Seq({n}) /\ Len(<<n>>) = 1 /\ <<n>>[1] = n
    OBVIOUS
  <2> QED
    BY <2>1, Items
<1>4. ClusterIs(<<n>>, p, n, removed, config)
  BY <1>3 DEF ClusterIs
<1>5. ASSUME NEW c \in 1..L
      PROVE  /\ ClusterIs(q[c], p, n, removed, config) /\ Len(q[c]) = Len(cs[c])
             /\ \A k \in 1..Len(q[c]) : q[c][k] = cs[c][k] /\ cs[c][k] \in 1..(n - 1)
  <2>1. ClusterIs(cs[c], p, n - 1, removed, config) /\ q[c] = cs[c]
    BY <1>2 DEF Clustered
  <2> QED
    BY <2>1 DEF ClusterIs
<1>6. \A c \in 1..(L + 1) : c \in 1..L \/ c = L + 1
  BY <1>1
<1>7. \A c \in 1..Len(q) : ClusterIs(q[c], p, n, removed, config)
  BY <1>2, <1>4, <1>5, <1>6
<1>8. ASSUME NEW c \in 1..Len(q), NEW d \in 1..Len(q), NEW k \in 1..Len(q[c]),
             NEW l \in 1..Len(q[d]), q[c][k] = q[d][l]
      PROVE  c = d /\ k = l
  <2>1. CASE c \in 1..L /\ d \in 1..L
    <3>1. cs[c][k] = cs[d][l] /\ k \in 1..Len(cs[c]) /\ l \in 1..Len(cs[d])
      BY <1>5, <1>8, <2>1
    <3> QED
      BY <2>1, <3>1 DEF Clustered, Apart
  <2>2. CASE c \in 1..L /\ d = L + 1
    <3>1. q[c][k] \in 1..(n - 1) /\ q[d][l] = n
      BY <1>2, <1>3, <1>5, <2>2
    <3> QED
      BY <1>8, <3>1
  <2>3. CASE c = L + 1 /\ d \in 1..L
    <3>1. q[d][l] \in 1..(n - 1) /\ q[c][k] = n
      BY <1>2, <1>3, <1>5, <2>3
    <3> QED
      BY <1>8, <3>1
  <2>4. CASE c = L + 1 /\ d = L + 1
    <3>1. k \in 1..1 /\ l \in 1..1
      BY <1>2, <1>3, <2>4
    <3> QED
      BY <2>4, <3>1
  <2> QED
    BY <1>2, <1>6, <2>1, <2>2, <2>3, <2>4
<1>9. Apart(q)
  BY <1>8 DEF Apart
<1> QED
  BY <1>2, <1>7, <1>9 DEF Clustered, q

(* An element that joins the closest cluster.                              *)
LEMMA Joins ==
  ASSUME NEW p, NEW n \in Nat, n # 0, NEW removed, NEW config, NEW cs, NEW U,
         n \notin removed, Eligible(p[n], config),
         Clustered(cs, p, n - 1, removed, config),
         \A c \in U, d \in U : c = d,
         \A c \in U : c \in 1..Len(cs) => AtLeast(Near(p, n, cs[c]), config.similarity),
         NEW q, Sequence(q), Len(q) = Len(cs),
         \A c \in 1..Len(cs) : q[c] = IF c \in U THEN Append(cs[c], n) ELSE cs[c]
  PROVE  Clustered(q, p, n, removed, config)
<1> DEFINE L == Len(cs)
<1>1. L \in Nat /\ DOMAIN cs = 1..L
  BY SequenceIs DEF Clustered
<1>3. Sequence(q) /\ Len(q) = L
  OBVIOUS
<1>4. \A c \in 1..L : q[c] = IF c \in U THEN Append(cs[c], n) ELSE cs[c]
  OBVIOUS
<1>5. ASSUME NEW c \in 1..L
      PROVE  /\ Len(cs[c]) \in Nat /\ Len(cs[c]) >= 1
             /\ Sequence(q[c]) /\ Len(q[c]) = IF c \in U THEN Len(cs[c]) + 1 ELSE Len(cs[c])
             /\ \A k \in 1..Len(cs[c]) : q[c][k] = cs[c][k] /\ cs[c][k] \in 1..(n - 1)
             /\ c \in U => q[c][Len(cs[c]) + 1] = n
  <2>1. ClusterIs(cs[c], p, n - 1, removed, config)
    BY DEF Clustered
  <2>2. Len(cs[c]) \in Nat /\ Len(cs[c]) >= 1 /\ Sequence(cs[c])
        /\ \A k \in 1..Len(cs[c]) : cs[c][k] \in 1..(n - 1)
    BY <2>1, SequenceIs DEF ClusterIs
  <2>3. CASE c \in U
    <3> DEFINE a == Append(cs[c], n)
    <3>1. /\ Sequence(a) /\ Len(a) = Len(cs[c]) + 1 /\ a[Len(cs[c]) + 1] = n
          /\ \A k \in 1..Len(cs[c]) : a[k] = cs[c][k]
      BY <2>2, AppendIs
    <3>2. q[c] = a
      BY <1>4, <2>3
    <3> HIDE DEF a
    <3> QED
      BY <2>2, <2>3, <3>1, <3>2
  <2>4. CASE c \notin U
    BY <1>4, <2>2, <2>4
  <2> QED
    BY <2>2, <2>3, <2>4
<1>6. ASSUME NEW c \in 1..L, NEW k \in 1..Len(q[c])
      PROVE  \/ k \in 1..Len(cs[c]) /\ q[c][k] = cs[c][k] /\ q[c][k] \in 1..(n - 1)
             \/ c \in U /\ k = Len(cs[c]) + 1 /\ q[c][k] = n
  <2>1. CASE k \in 1..Len(cs[c])
    BY <1>5, <2>1
  <2>2. CASE k \notin 1..Len(cs[c])
    <3>1. c \in U /\ k = Len(cs[c]) + 1
      BY <1>5, <2>2
    <3> QED
      BY <1>5, <3>1
  <2> QED
    BY <2>1, <2>2
<1>7. ASSUME NEW c \in 1..L PROVE ClusterIs(q[c], p, n, removed, config)
  <2>1. ClusterIs(cs[c], p, n - 1, removed, config)
    BY DEF Clustered
  <2>2. 1 \in 1..Len(cs[c]) /\ q[c][1] = cs[c][1] /\ q[c][1] \in 1..(n - 1)
    BY <1>5
  <2>3. \A i : Near(p, i, q[c]) = Near(p, i, cs[c])
    BY <2>2 DEF Near
  <2>4. ASSUME NEW k \in 1..Len(q[c])
        PROVE  q[c][k] \in 1..n /\ q[c][k] \notin removed /\ Eligible(p[q[c][k]], config)
    <3>1. CASE k \in 1..Len(cs[c]) /\ q[c][k] = cs[c][k] /\ q[c][k] \in 1..(n - 1)
      BY <2>1, <3>1 DEF ClusterIs
    <3>2. CASE q[c][k] = n
      BY <3>2
    <3> QED
      BY <1>6, <3>1, <3>2
  <2>5. ASSUME NEW k \in 2..Len(q[c])
        PROVE  q[c][1] < q[c][k] /\ AtLeast(Near(p, q[c][k], q[c]), config.similarity)
    <3>1. k \in 1..Len(q[c])
      OBVIOUS
    <3>2. CASE k \in 1..Len(cs[c]) /\ q[c][k] = cs[c][k]
      <4>1. k \in 2..Len(cs[c])
        BY <3>2
      <4> QED
        BY <2>1, <2>2, <2>3, <3>2, <4>1 DEF ClusterIs
    <3>3. CASE c \in U /\ q[c][k] = n
      BY <2>2, <2>3, <3>3
    <3> QED
      BY <1>6, <3>1, <3>2, <3>3
  <2>6. Sequence(q[c]) /\ Len(q[c]) >= 1
    BY <1>5
  <2> QED
    BY <2>4, <2>5, <2>6 DEF ClusterIs
<1>8. ASSUME NEW c \in 1..L, NEW d \in 1..L, NEW k \in 1..Len(q[c]),
             NEW l \in 1..Len(q[d]), q[c][k] = q[d][l]
      PROVE  c = d /\ k = l
  <2>1. CASE /\ k \in 1..Len(cs[c]) /\ q[c][k] = cs[c][k]
             /\ l \in 1..Len(cs[d]) /\ q[d][l] = cs[d][l]
    <3>1. cs[c][k] = cs[d][l] /\ Apart(cs)
      BY <1>8, <2>1 DEF Clustered
    <3> QED
      BY <2>1, <3>1 DEF Apart
  <2>2. CASE /\ c \in U /\ k = Len(cs[c]) + 1
             /\ d \in U /\ l = Len(cs[d]) + 1
    BY <2>2
  <2>3. CASE q[c][k] \in 1..(n - 1) /\ q[d][l] = n
    BY <1>8, <2>3
  <2>4. CASE q[d][l] \in 1..(n - 1) /\ q[c][k] = n
    BY <1>8, <2>4
  <2> QED
    BY <1>6, <2>1, <2>2, <2>3, <2>4
<1>9. Apart(q)
  BY <1>3, <1>8 DEF Apart
<1> QED
  BY <1>3, <1>7, <1>9 DEF Clustered

LEMMA AssignIs ==
  ASSUME NEW p, IsPrepared(p), NEW n \in 1..Len(p), NEW removed, NEW config, NEW cs,
         n \notin removed, Eligible(p[n], config),
         Clustered(cs, p, n - 1, removed, config)
  PROVE  Clustered(Assign(p, config, cs, n), p, n, removed, config)
<1> DEFINE near == [c \in DOMAIN cs |-> Near(p, n, cs[c])]
           similar == Similar(near, config)
           U == Closest(near, similar)
           L == Len(cs)
<1>1. L \in Nat /\ DOMAIN cs = 1..L /\ Len(p) \in Nat /\ n \in Nat /\ n # 0
  BY SequenceIs DEF Clustered, IsPrepared
<1>2. \A c \in 1..L : near[c] = Near(p, n, cs[c])
  BY <1>1
<1>3. DOMAIN near = 1..L
  BY <1>1
<1>4. Assign(p, config, cs, n) = Join(cs, n, near, similar)
  BY DEF Assign
<1> HIDE DEF near
<1>5. similar \subseteq 1..L /\ \A c \in similar : AtLeast(near[c], config.similarity)
  BY <1>3 DEF Similar
<1>6. U \subseteq similar
  BY DEF Closest
<1>7. ASSUME NEW c \in 1..L PROVE near[c][1] \in Int /\ near[c][2] \in Int
  <2>1. ClusterIs(cs[c], p, n - 1, removed, config)
    BY DEF Clustered
  <2>2. cs[c][1] \in 1..(n - 1)
    <3>1. 1 \in 1..Len(cs[c])
      BY <2>1, SequenceIs DEF ClusterIs
    <3> QED
      BY <2>1, <3>1 DEF ClusterIs
  <2>3. cs[c][1] \in 1..Len(p)
    BY <1>1, <2>2
  <2>4. Text(p[n].rows) \in Seq(Seq(STRING)) /\ Text(p[cs[c][1]].rows) \in Seq(Seq(STRING))
    BY <2>3 DEF IsPrepared
  <2> QED
    BY <1>2, <2>4, SimilarityIs DEF Near
<1> HIDE DEF similar, U
<1>8. CASE similar = {}
  BY <1>1, <1>4, <1>8, Alone DEF Join
<1>9. CASE similar # {}
  <2>1. \A c \in U, d \in U : c = d
    <3>1. similar \subseteq Nat /\ \A c \in similar : near[c][1] \in Int /\ near[c][2] \in Int
      <4>1. \A c \in similar : c \in 1..L
        BY <1>5
      <4> QED
        BY <1>1, <1>7, <4>1
    <3> QED
      BY <3>1, ClosestIsOne DEF U
  <2>2. \A c \in U : c \in 1..L => AtLeast(Near(p, n, cs[c]), config.similarity)
    BY <1>2, <1>5, <1>6
  <2>3. Join(cs, n, near, similar)
          = [c \in DOMAIN cs |-> IF c \in U THEN Append(cs[c], n) ELSE cs[c]]
    BY <1>9 DEF Join, U
  <2>4. PICK q : q = Join(cs, n, near, similar)
    OBVIOUS
  <2>5. q = [c \in 1..L |-> IF c \in U THEN Append(cs[c], n) ELSE cs[c]]
    BY <1>1, <2>3, <2>4
  <2>6. q = [c \in 1..L |-> q[c]]
    BY <2>5
  <2>7. Sequence(q) /\ Len(q) = L
    BY <1>1, <2>6, IsSequence
  <2>8. \A c \in 1..L : q[c] = IF c \in U THEN Append(cs[c], n) ELSE cs[c]
    BY <2>5
  <2>9. Clustered(q, p, n, removed, config)
    BY <1>1, <2>1, <2>2, <2>7, <2>8, Joins
  <2> QED
    BY <1>4, <2>4, <2>9
<1> QED
  BY <1>8, <1>9

(* Passing over an element.                                                *)
LEMMA PassedOver ==
  ASSUME NEW p, NEW n \in Nat, n # 0, NEW removed, NEW config, NEW cs,
         Clustered(cs, p, n - 1, removed, config)
  PROVE  Clustered(cs, p, n, removed, config)
<1>1. \A i \in 1..(n - 1) : i \in 1..n
  OBVIOUS
<1> QED
  BY <1>1 DEF Clustered, ClusterIs

(* Values of the recursion of Clusters.                                    *)
Numbered == Seq(Seq(Nat))

LEMMA AssignTyped ==
  ASSUME NEW p, NEW config, NEW cs \in Numbered, NEW n \in Nat
  PROVE  Assign(p, config, cs, n) \in Numbered
<1> DEFINE near == [c \in DOMAIN cs |-> Near(p, n, cs[c])]
           similar == Similar(near, config)
           U == Closest(near, similar)
           q == [c \in DOMAIN cs |-> IF c \in U THEN Append(cs[c], n) ELSE cs[c]]
<1>1. Len(cs) \in Nat /\ DOMAIN cs = 1..Len(cs) /\ \A c \in 1..Len(cs) : cs[c] \in Seq(Nat)
  BY LenProperties, ElementOfSeq DEF Numbered
<1>2. Assign(p, config, cs, n) = Append(cs, <<n>>) \/ Assign(p, config, cs, n) = q
  BY DEF Assign, Join
<1> HIDE DEF U
<1>3. <<n>> \in Seq(Nat)
  OBVIOUS
<1>4. Append(cs, <<n>>) \in Numbered
  BY <1>3, AppendProperties DEF Numbered
<1>5. \A c \in 1..Len(cs) : Append(cs[c], n) \in Seq(Nat)
  BY <1>1, AppendProperties
<1>6. q \in [1..Len(cs) -> Seq(Nat)]
  BY <1>1, <1>5
<1>7. q \in Numbered
  BY <1>1, <1>6, SeqDef DEF Numbered
<1> QED
  BY <1>2, <1>4, <1>7

LEMMA ClustersAre ==
  ASSUME NEW p, IsPrepared(p), NEW removed, NEW config
  PROVE  Clustered(Clusters(p, removed, config), p, Len(p), removed, config)
<1> DEFINE N == Len(p)
           Next1(cs, n) == IF n \in removed \/ ~Eligible(p[n], config) THEN cs
                           ELSE Assign(p, config, cs, n)
           Eq(f) == f = [n \in 0..N |->
                           IF n = 0 THEN <<>>
                           ELSE IF n \in removed \/ ~Eligible(p[n], config) THEN f[n - 1]
                           ELSE Assign(p, config, f[n - 1], n)]
           clusters == CHOOSE f : Eq(f)
           step == [n \in 1..N |-> [cs \in Numbered |-> Next1(cs, n)]]
<1>1. N \in Nat
  BY SequenceIs DEF IsPrepared
<1>2. Clusters(p, removed, config) = clusters[N]
  BY Zenon DEF Clusters
<1>3. \E f : Eq(f)
  <2>1. \A n \in 1..N : \A cs \in Numbered : Next1(cs, n) \in Numbered
    BY <1>1, AssignTyped
  <2> HIDE DEF Next1
  <2>2. step \in [1..N -> [Numbered -> Numbered]]
    BY <2>1
  <2>3. \A n \in 1..N : \A cs \in Numbered : step[n][cs] = Next1(cs, n)
    OBVIOUS
  <2> HIDE DEF step
  <2>4. <<>> \in Numbered
    BY EmptySeq DEF Numbered
  <2>5. PICK g \in [0..N -> Numbered] : Recursion(g, N, <<>>, step)
    BY <1>1, <2>2, <2>4, RecursionExists
  <2>6. ASSUME NEW n \in 0..N PROVE g[n] = IF n = 0 THEN <<>> ELSE Next1(g[n - 1], n)
    <3>1. CASE n = 0
      BY <2>5, <3>1 DEF Recursion
    <3>2. CASE n # 0
      <4>1. n \in 1..N /\ n - 1 \in 0..N
        BY <1>1, <3>2
      <4>2. g[n] = step[n][g[n - 1]] /\ g[n - 1] \in Numbered
        BY <2>5, <3>2, <4>1 DEF Recursion
      <4> QED
        BY <2>3, <3>2, <4>1, <4>2
    <3> QED
      BY <3>1, <3>2
  <2>7. g = [n \in 0..N |-> IF n = 0 THEN <<>> ELSE Next1(g[n - 1], n)]
    BY <2>5, <2>6
  <2>8. Eq(g)
    BY <2>7 DEF Next1
  <2> QED
    BY <2>8
<1>4. Eq(clusters)
  BY <1>3
<1>5. \A n \in 0..N : clusters[n] = IF n = 0 THEN <<>> ELSE Next1(clusters[n - 1], n)
  BY <1>4
<1> HIDE DEF clusters, step
<1> DEFINE Good == {n \in 0..N : Clustered(clusters[n], p, n, removed, config)}
<1>6. 0 \in Good
  <2>1. 0 \in 0..N /\ clusters[0] = <<>>
    BY <1>1, <1>5
  <2>2. Clustered(<<>>, p, 0, removed, config)
    BY EmptyIs DEF Clustered, Apart
  <2> QED
    BY <2>1, <2>2
<1>7. ASSUME NEW n \in 0..N, n # 0, n - 1 \in Good PROVE n \in Good
  <2>1. n \in 1..N /\ n \in Nat /\ Clustered(clusters[n - 1], p, n - 1, removed, config)
    BY <1>1, <1>7
  <2>2. clusters[n] = Next1(clusters[n - 1], n)
    BY <1>5, <1>7
  <2>3. CASE n \in removed \/ ~Eligible(p[n], config)
    BY <1>7, <2>1, <2>2, <2>3, PassedOver
  <2>4. CASE ~(n \in removed \/ ~Eligible(p[n], config))
    BY <2>1, <2>2, <2>4, AssignIs
  <2> QED
    BY <2>3, <2>4
<1> HIDE DEF Good
<1>8. \A n \in 0..N : n \in Good
  BY <1>1, <1>6, <1>7, Induction
<1> QED
  BY <1>1, <1>2, <1>8 DEF Good

-----------------------------------------------------------------------------
(* Values, and short lists.                                                *)

(* The values of a sequence are finitely many.                             *)
LEMMA FiniteValues ==
  ASSUME NEW s, Sequence(s) PROVE IsFiniteSet(ToSet(s))
<1>1. Len(s) \in Nat /\ ToSet(s) = {s[i] : i \in 1..Len(s)}
  BY SequenceIs
<1> DEFINE f == [i \in 1..Len(s) |-> s[i]]
<1>2. f \in Surjection(1..Len(s), ToSet(s))
  BY <1>1 DEF Surjection
<1> HIDE DEF f
<1>3. IsFiniteSet(1..Len(s))
  BY <1>1, FS_Interval
<1> QED
  BY <1>2, <1>3, FS_Surjection

(* Sequences of sequences have items.                                      *)
LEMMA PartsTyped ==
  ASSUME NEW css, Sequence(css), \A i \in 1..Len(css) : Sequence(css[i])
  PROVE  \E C : css \in Seq(Seq(C))
<1> DEFINE N == Len(css)
           C == UNION {ToSet(css[i]) : i \in 1..N}
           S == Seq(C)
<1>1. ASSUME NEW i \in 1..N PROVE css[i] \in S
  <2> DEFINE cs == css[i]
  <2>1. Sequence(cs) /\ ToSet(cs) \subseteq C
    OBVIOUS
  <2> HIDE DEF cs, C
  <2>2. ToSet(cs) = {cs[k] : k \in 1..Len(cs)}
    BY <2>1, SequenceIs
  <2>3. cs \in Seq(C)
    BY <2>1, <2>2, ItemsOf
  <2> QED
    BY <2>3 DEF cs
<1> HIDE DEF S, C
<1>2. css \in Seq(S)
  BY <1>1, ItemsOf
<1> QED
  BY <1>2 DEF S

(* Short lists.                                                            *)
LEMMA OneItem == ASSUME NEW x PROVE Sequence(<<x>>)
<1>1. <<x>> \in Seq({x})
  OBVIOUS
<1> QED
  BY <1>1, Items

(* Two make one too.                                                       *)
LEMMA TwoItems == ASSUME NEW x, NEW y PROVE Sequence(<<x, y>>)
<1>1. <<x, y>> \in Seq({x, y})
  OBVIOUS
<1> QED
  BY <1>1, Items

-----------------------------------------------------------------------------
(* Sorting.                                                                *)

(* A set in a strict order, and the place of a member as the number of      *)
(* those below it.                                                         *)
IsOrder(S, below) ==
  /\ IsFiniteSet(S) /\ below \in [S -> SUBSET S]
  /\ \A x \in S : x \notin below[x]
  /\ \A x, y \in S : x = y \/ x \in below[y] \/ y \in below[x]
  /\ \A x, y, z \in S : x \in below[y] /\ y \in below[z] => x \in below[z]

PlacesIn(at, S, below) ==
  /\ at = [i \in 1..Cardinality(S) |-> at[i]]
  /\ \A i \in 1..Cardinality(S) :
       (\E x \in S : Cardinality(below[x]) = i - 1) =>
         at[i] \in S /\ Cardinality(below[at[i]]) = i - 1

(* sorted() has every member once, in the order.                           *)
LEMMA SortedIs ==
  ASSUME NEW S, NEW below, IsOrder(S, below), NEW at, PlacesIn(at, S, below)
  PROVE  /\ Sequence(at) /\ Len(at) = Cardinality(S) /\ ToSet(at) = S
         /\ \A i, j \in 1..Len(at) : i < j => at[i] \in below[at[j]]
         /\ \A i, j \in 1..Len(at) : at[i] = at[j] => i = j
<1> DEFINE n == Cardinality(S)
           p == [x \in S |-> Cardinality(below[x]) + 1]
<1>1. IsFiniteSet(S) /\ n \in Nat /\ \A x \in S : below[x] \subseteq S
  BY FS_CardinalityType DEF IsOrder
<1>2. \A x \in S : IsFiniteSet(below[x]) /\ Cardinality(below[x]) \in Nat
  BY <1>1, FS_Subset, FS_CardinalityType
<1>3. ASSUME NEW x \in S, NEW y \in S, x \in below[y]
      PROVE  Cardinality(below[x]) < Cardinality(below[y])
  <2>1. below[x] \subseteq below[y] /\ x \notin below[x]
    BY <1>1, <1>3 DEF IsOrder
  <2> QED
    BY <1>2, <1>3, <2>1, FS_Subset
<1>4. ASSUME NEW x \in S PROVE Cardinality(below[x]) < n
  <2>1. x \notin below[x]
    BY DEF IsOrder
  <2> QED
    BY <1>1, <1>2, <2>1, FS_Subset
<1>5. p \in [S -> 1..n] /\ \A x \in S : p[x] = Cardinality(below[x]) + 1
  <2>1. \A x \in S : Cardinality(below[x]) + 1 \in 1..n
    BY <1>1, <1>2, <1>4
  <2> HIDE DEF n
  <2> QED
    BY <2>1
<1> HIDE DEF p
<1>6. \A x, y \in S : p[x] = p[y] => x = y
  <2>1. ASSUME NEW x \in S, NEW y \in S, p[x] = p[y] PROVE x = y
    <3>1. Cardinality(below[x]) = Cardinality(below[y])
      BY <1>2, <1>5, <2>1
    <3>2. x \notin below[y] /\ y \notin below[x]
      BY <1>2, <1>3, <3>1
    <3> QED
      BY <3>2 DEF IsOrder
  <2> QED
    BY <2>1
<1>7. p \in Injection(S, 1..n)
  BY <1>5, <1>6 DEF Injection, IsInjective
<1>8. IsFiniteSet(1..n) /\ Cardinality(1..n) = n
  BY <1>1, FS_Interval
<1>9. p \in Surjection(S, 1..n)
  BY <1>1, <1>7, <1>8, FS_Injection
<1>10. ASSUME NEW i \in 1..n PROVE at[i] \in S /\ p[at[i]] = i
  <2>1. PICK x \in S : p[x] = i
    BY <1>9 DEF Surjection
  <2>2. Cardinality(below[x]) = i - 1
    BY <1>2, <1>5, <2>1
  <2>3. at[i] \in S /\ Cardinality(below[at[i]]) = i - 1
    BY <2>2 DEF PlacesIn
  <2> QED
    BY <1>5, <2>3
<1>11. Sequence(at) /\ Len(at) = n
  BY <1>1, IsSequence DEF PlacesIn
<1> HIDE DEF n
<1>12. ToSet(at) = {at[i] : i \in 1..n}
  BY <1>11, SequenceIs
<1>13. ASSUME NEW x \in S PROVE x \in ToSet(at)
  <2>1. p[x] \in 1..n /\ p[at[p[x]]] = p[x] /\ at[p[x]] \in S
    BY <1>5, <1>10
  <2>2. x = at[p[x]]
    BY <1>6, <2>1
  <2> QED
    BY <1>12, <2>1, <2>2
<1>14. ASSUME NEW i \in 1..n, NEW j \in 1..n, i < j PROVE at[i] \in below[at[j]]
  <2>1. at[i] \in S /\ at[j] \in S /\ p[at[i]] = i /\ p[at[j]] = j
    BY <1>10
  <2>2. ~(Cardinality(below[at[j]]) < Cardinality(below[at[i]])) /\ at[i] # at[j]
    BY <1>2, <1>5, <1>14, <2>1
  <2>3. at[j] \notin below[at[i]]
    BY <1>3, <2>1, <2>2
  <2> QED
    BY <2>1, <2>2, <2>3 DEF IsOrder
<1>15. \A i, j \in 1..n : at[i] = at[j] => i = j
  BY <1>10
<1>16. ToSet(at) = S
  BY <1>10, <1>12, <1>13
<1> QED
  BY <1>11, <1>14, <1>15, <1>16 DEF n

-----------------------------------------------------------------------------
(* Scores.                                                                 *)

(* A sum of numbers is one, and no less than any of them.                   *)
LEMMA SummedIs ==
  ASSUME NEW s, Sequence(s), \A i \in 1..Len(s) : s[i] \in Nat
  PROVE  Summed(s) \in Nat /\ \A i \in 1..Len(s) : s[i] <= Summed(s)
<1> DEFINE N == Len(s)
           Eq(f) == f = [n \in 0..N |-> IF n = 0 THEN 0 ELSE f[n - 1] + s[n]]
           sum == CHOOSE f : Eq(f)
           step == [n \in 1..N |-> [v \in Nat |-> v + s[n]]]
<1>1. N \in Nat
  BY SequenceIs
<1>2. Summed(s) = sum[N]
  BY Zenon DEF Summed
<1>3. \E f : Eq(f)
  <2>1. step \in [1..N -> [Nat -> Nat]] /\ \A n \in 1..N : \A v \in Nat : step[n][v] = v + s[n]
    OBVIOUS
  <2> HIDE DEF step
  <2>2. PICK g \in [0..N -> Nat] : Recursion(g, N, 0, step)
    BY <1>1, <2>1, RecursionExists
  <2>3. ASSUME NEW n \in 0..N PROVE g[n] = IF n = 0 THEN 0 ELSE g[n - 1] + s[n]
    <3>1. CASE n = 0
      BY <2>2, <3>1 DEF Recursion
    <3>2. CASE n # 0
      <4>1. n \in 1..N /\ n - 1 \in 0..N
        BY <1>1, <3>2
      <4>2. g[n] = step[n][g[n - 1]] /\ g[n - 1] \in Nat
        BY <2>2, <3>2, <4>1 DEF Recursion
      <4> QED
        BY <2>1, <3>2, <4>1, <4>2
    <3> QED
      BY <3>1, <3>2
  <2>4. Eq(g)
    BY <2>2, <2>3
  <2> QED
    BY <2>4
<1>4. Eq(sum)
  BY <1>3
<1>5. \A n \in 0..N : sum[n] = IF n = 0 THEN 0 ELSE sum[n - 1] + s[n]
  BY <1>4
<1> HIDE DEF sum, step
<1> DEFINE Good == {n \in 0..N : sum[n] \in Nat /\ \A i \in 1..n : s[i] <= sum[n]}
<1>6. 0 \in Good
  BY <1>1, <1>5
<1>7. ASSUME NEW n \in 0..N, n # 0, n - 1 \in Good PROVE n \in Good
  <2> DEFINE a == sum[n - 1]
             b == sum[n]
  <2>1. n \in 1..N /\ b = a + s[n] /\ a \in Nat /\ s[n] \in Nat
    BY <1>1, <1>5, <1>7
  <2>2. \A i \in 1..(n - 1) : s[i] <= a /\ s[i] \in Nat
    BY <1>1, <1>7
  <2> HIDE DEF a, b
  <2>3. \A i \in 1..n : i = n \/ i \in 1..(n - 1)
    BY <2>1
  <2>4. b \in Nat /\ \A i \in 1..n : s[i] <= b
    BY <2>1, <2>2, <2>3
  <2> QED
    BY <1>7, <2>4 DEF b
<1> HIDE DEF Good
<1>8. \A n \in 0..N : n \in Good
  BY <1>1, <1>6, <1>7, Induction
<1>9. N \in 0..N
  BY <1>1
<1> QED
  BY <1>2, <1>8, <1>9 DEF Good

(* The table of logarithms grows.                                          *)
LEMMA LnGrows ==
  ASSUME NEW i \in 1..32, NEW j \in 1..32, i < j
  PROVE  Ln[i] \in Nat /\ Ln[j] \in Nat /\ Ln[i] < Ln[j]
<1>1. \A k \in 1..32 : Ln[k] \in Nat
  BY SMTT(60) DEF Ln
<1>2. \A k \in 1..31 : Ln[k] < Ln[k + 1]
  BY SMTT(60) DEF Ln
<1> DEFINE Good == {d \in 0..31 : d # 0 /\ i + d <= 32 => Ln[i] < Ln[i + d]}
<1>3. 0 \in Good
  OBVIOUS
<1>4. ASSUME NEW d \in 0..31, d # 0, d - 1 \in Good PROVE d \in Good
  <2> SUFFICES ASSUME i + d <= 32 PROVE Ln[i] < Ln[i + d]
    BY <1>4
  <2> DEFINE k == i + (d - 1)
  <2>1. d - 1 = 0 \/ Ln[i] < Ln[k]
    BY <1>4
  <2> HIDE DEF Good
  <2>2. k \in 1..31 /\ k + 1 = i + d /\ (d - 1 = 0 => k = i)
    BY <1>4
  <2> HIDE DEF k
  <2>3. Ln[k] < Ln[i + d] /\ Ln[k] \in Nat /\ Ln[i + d] \in Nat /\ Ln[i] \in Nat
    BY <1>1, <1>2, <2>2
  <2> QED
    BY <2>1, <2>2, <2>3
<1> HIDE DEF Good
<1>5. \A d \in 0..31 : d \in Good
  BY <1>3, <1>4, Induction
<1>6. j - i \in 0..31 /\ j - i # 0 /\ i + (j - i) = j
  OBVIOUS
<1> QED
  BY <1>1, <1>5, <1>6 DEF Good

-----------------------------------------------------------------------------
(* Entries and what a query makes of them.                                 *)

(* A chunk id: the rank and the bytes of its document, and a number.        *)
IsId(a) == \E r, b, k \in Nat : a = <<r, b, k>>

(* An entry as an editor may leave it, and one as it was built.             *)
Weighed(e) ==
  /\ IsId(e.chunk.chunk_id) /\ Sequence(e.tokens) /\ e.document_length \in Nat
  /\ \A t \in DOMAIN e.term_frequencies : e.term_frequencies[t] \in Nat

Counted(e) ==
  /\ IsId(e.chunk.chunk_id) /\ Sequence(e.tokens)
  /\ e.document_length = Len(e.tokens)
  /\ e.term_frequencies \in [ToSet(e.tokens) -> Nat \ {0}]

Shelved(entries) ==
  /\ Sequence(entries) /\ Len(entries) <= MaxEntries
  /\ \A i \in 1..Len(entries) : Weighed(entries[i])
  /\ \A i, j \in 1..Len(entries) :
       entries[i].chunk.chunk_id = entries[j].chunk.chunk_id => i = j

Catalogued(entries) == Shelved(entries) /\ \A i \in 1..Len(entries) : Counted(entries[i])

(* An index whose statistics are those of its entries, edited or not.       *)
Consistent(s) ==
  /\ Shelved(s.entries)
  /\ s.document_frequencies = Frequencies(s.entries)
  /\ s.average_document_length = Average(s.entries)
  /\ s.document_count = Len(s.entries)

Searchable(s) == Consistent(s) /\ Catalogued(s.entries)

LEMMA CountedIsWeighed == ASSUME NEW e, Counted(e) PROVE Weighed(e)
<1>1. Len(e.tokens) \in Nat
  BY SequenceIs DEF Counted
<1>2. \A t \in DOMAIN e.term_frequencies : e.term_frequencies[t] \in Nat
  BY DEF Counted
<1> QED
  BY <1>1, <1>2 DEF Counted, Weighed

(* The entries of an index are finitely many.                              *)
LEMMA EntriesAre ==
  ASSUME NEW entries, Shelved(entries)
  PROVE  /\ Len(entries) \in 0..15 /\ DOMAIN entries = 1..Len(entries)
         /\ ToSet(entries) = {entries[i] : i \in 1..Len(entries)}
         /\ IsFiniteSet(ToSet(entries))
         /\ \A e \in ToSet(entries) : Weighed(e)
         /\ \A e, f \in ToSet(entries) : e.chunk.chunk_id = f.chunk.chunk_id => e = f
<1>1. /\ Sequence(entries) /\ Len(entries) <= 15
      /\ \A i \in 1..Len(entries) : Weighed(entries[i])
      /\ \A i, j \in 1..Len(entries) :
           entries[i].chunk.chunk_id = entries[j].chunk.chunk_id => i = j
  BY DEF Shelved, MaxEntries
<1>2. /\ Len(entries) \in Nat /\ DOMAIN entries = 1..Len(entries)
      /\ ToSet(entries) = {entries[i] : i \in 1..Len(entries)}
  BY <1>1, SequenceIs
<1>3. IsFiniteSet(ToSet(entries))
  BY <1>1, FiniteValues
<1>4. \A e \in ToSet(entries) : \E i \in 1..Len(entries) : e = entries[i]
  BY <1>2
<1>5. \A e \in ToSet(entries) : Weighed(e)
  BY <1>1, <1>4
<1>6. \A e, f \in ToSet(entries) : e.chunk.chunk_id = f.chunk.chunk_id => e = f
  BY <1>1, <1>4
<1>7. Len(entries) \in 0..15
  <2> DEFINE n == Len(entries)
  <2>1. n \in Nat /\ n <= 15
    BY <1>1, <1>2
  <2> HIDE DEF n
  <2>2. n \in 0..15
    BY <2>1
  <2> QED
    BY <2>2 DEF n
<1> QED
  BY <1>2, <1>3, <1>5, <1>6, <1>7

LEMMA CataloguedAre ==
  ASSUME NEW entries, Catalogued(entries) PROVE \A e \in ToSet(entries) : Counted(e)
<1>1. ToSet(entries) = {entries[i] : i \in 1..Len(entries)}
  BY EntriesAre DEF Catalogued
<1> QED
  BY <1>1 DEF Catalogued

(* The terms of an entry are rarer than its index is large.                 *)
LEMMA IdfIs ==
  ASSUME NEW s, Consistent(s), NEW term
  PROVE  /\ Idf(s, term) \in Nat
         /\ \A e \in ToSet(s.entries) : term \in ToSet(e.tokens) => Idf(s, term) > 0
<1> DEFINE entries == s.entries
           N == Len(entries)
           having == {i \in 1..N : term \in ToSet(entries[i].tokens)}
           df == Cardinality(having)
<1>1. /\ N \in 0..15 /\ DOMAIN entries = 1..N
      /\ ToSet(entries) = {entries[i] : i \in 1..N}
  BY EntriesAre DEF Consistent
<1>2. CASE term \notin Terms(entries)
  <2>1. term \notin DOMAIN s.document_frequencies
    BY <1>2 DEF Consistent, Frequencies
  <2>2. Idf(s, term) = 0
    BY <2>1 DEF Idf, Frequency
  <2>3. \A e \in ToSet(entries) : term \notin ToSet(e.tokens)
    BY <1>1, <1>2 DEF Terms
  <2> QED
    BY <2>2, <2>3
<1>3. CASE term \in Terms(entries)
  <2>1. PICK i \in 1..N : i \in having
    BY <1>1, <1>3 DEF Terms
  <2>2. IsFiniteSet(1..N) /\ Cardinality(1..N) = N
    BY <1>1, FS_Interval
  <2>3. IsFiniteSet(having) /\ df \in Nat /\ df <= N
    BY <2>2, FS_Subset, FS_CardinalityType
  <2>4. df # 0
    BY <2>1, <2>3, FS_EmptySet
  <2>5. s.document_frequencies[term] = df /\ term \in DOMAIN s.document_frequencies
    BY <1>1, <1>3 DEF Consistent, Frequencies
  <2>6. s.document_count = N
    BY DEF Consistent
  <2> HIDE DEF df, N, having
  <2>7. Idf(s, term) = Ln[2 * N + 2] - Ln[2 * df + 1]
    BY <1>1, <2>1, <2>4, <2>5, <2>6 DEF Idf, Frequency
  <2>8. 2 * df + 1 \in 1..32 /\ 2 * N + 2 \in 1..32 /\ 2 * df + 1 < 2 * N + 2
    <3>1. N \in 0..15 /\ df \in Nat /\ df <= N
      BY <1>1, <2>3
    <3> QED
      BY <3>1
  <2>9. /\ Ln[2 * df + 1] \in Nat /\ Ln[2 * N + 2] \in Nat
        /\ Ln[2 * df + 1] < Ln[2 * N + 2]
    BY <2>8, LnGrows
  <2> QED
    BY <2>7, <2>9
<1> QED
  BY <1>2, <1>3

(* A quotient of what is no less.                                          *)
LEMMA QuotientIs ==
  ASSUME NEW a \in Nat, NEW d \in Nat \ {0}, a >= d
  PROVE  (a \div d) \in Nat \ {0}
<1> DEFINE q == a \div d
<1>1. q \in Int /\ d * q <= a /\ a < d * q + d
  OBVIOUS
<1> HIDE DEF q
<1>2. q >= 1
  <2> SUFFICES ASSUME q <= 0 PROVE FALSE
    BY <1>1
  <2>1. d * q <= 0
    BY <1>1
  <2> QED
    BY <1>1, <2>1
<1> QED
  BY <1>1, <1>2 DEF q

(* A term that is there counts.                                            *)
LEMMA SaturationIs ==
  ASSUME NEW s, Searchable(s), NEW e \in ToSet(s.entries), NEW tf \in Nat \ {0}, e.tokens # <<>>
  PROVE  Saturation(s, e, tf) \in Nat \ {0}
<1> DEFINE entries == s.entries
           N == Len(entries)
           lengths == [i \in 1..N |-> entries[i].document_length]
           total == SumOfLengths(entries)
           len == e.document_length
           bonus == IF s.config.variant = "bm25_plus" THEN 100 ELSE 0
           a == 2200 * tf * total
           d == 10 * tf * total + 3 * total + 9 * len * N
<1>1. /\ N \in 0..15 /\ DOMAIN entries = 1..N
      /\ ToSet(entries) = {entries[i] : i \in 1..N}
      /\ \A f \in ToSet(entries) : Counted(f)
  BY EntriesAre, CataloguedAre DEF Searchable, Consistent
<1>2. PICK i \in 1..N : entries[i] = e
  BY <1>1
<1>3. \A k \in 1..N : lengths[k] \in Nat
  <2> SUFFICES ASSUME NEW k \in 1..N PROVE entries[k].document_length \in Nat
    OBVIOUS
  <2>1. Counted(entries[k])
    BY <1>1
  <2> QED
    BY <2>1, SequenceIs DEF Counted
<1>4. Sequence(lengths) /\ Len(lengths) = N
  BY <1>1, IsSequence
<1>5. total = Summed(lengths)
  BY <1>1 DEF SumOfLengths
<1>6. lengths[i] = len
  BY <1>2
<1> HIDE DEF lengths
<1>7. total \in Nat /\ len <= total
  BY <1>2, <1>3, <1>4, <1>5, <1>6, SummedIs
<1>8. len \in Nat /\ len >= 1
  <2>1. Sequence(e.tokens) /\ len = Len(e.tokens)
    BY <1>1, <1>2 DEF Counted
  <2>2. Len(e.tokens) \in Nat /\ Len(e.tokens) # 0
    BY <2>1, SequenceIs, EmptySeq DEF Sequence
  <2> QED
    BY <2>1, <2>2
<1>9. s.average_document_length = <<total, N>>
  BY <1>1, <1>2 DEF Searchable, Consistent, Average
<1> HIDE DEF total
<1>10. Saturation(s, e, tf) = (a \div d) + bonus
  <2> DEFINE average == s.average_document_length
             sum == IF average[1] = 0 THEN 1 ELSE average[1]
             count == IF average[1] = 0 THEN 1 ELSE average[2]
  <2>1. sum = total /\ count = N
    BY <1>7, <1>8, <1>9
  <2>2. Saturation(s, e, tf)
          = ((2200 * tf * sum) \div (10 * tf * sum + 3 * sum + 9 * len * count)) + bonus
    BY Zenon DEF Saturation
  <2> HIDE DEF sum, count, len, N, bonus
  <2> QED
    BY <2>1, <2>2
<1> HIDE DEF len, N, bonus
<1>11. a \in Nat /\ d \in Nat \ {0} /\ a >= d
  <2> DEFINE x == tf * total
             y == len * N
  <2>1. x \in Nat /\ x >= total
    BY <1>7
  <2>2. y \in Nat /\ y <= 15 * len
    <3>1. N \in Nat /\ N <= 15
      BY <1>1
    <3> QED
      BY ONLY <1>8, <3>1
  <2>3. a = 2200 * x /\ d = 10 * x + 3 * total + 9 * y
    BY <1>1, <1>7, <1>8
  <2> HIDE DEF x, y, a, d
  <2> QED
    BY <1>7, <1>8, <2>1, <2>2, <2>3
<1> HIDE DEF a, d
<1>12. (a \div d) \in Nat \ {0}
  BY <1>11, QuotientIs
<1>13. bonus \in Nat
  BY DEF bonus
<1> QED
  BY <1>10, <1>12, <1>13

(* Whatever matches has a score.                                           *)
LEMMA MatchesScore ==
  ASSUME NEW s, Searchable(s), NEW e \in ToSet(s.entries), NEW query, Sequence(query)
  PROVE  Score(s, e, query) \in Nat /\ (MatchedTerms(e, query) # {} => Score(s, e, query) > 0)
<1> DEFINE N == Len(query)
           parts == [n \in 1..N |-> Part(s, e, query[n])]
           tf(t) == Frequency(e.term_frequencies, t)
<1>1. Counted(e)
  BY CataloguedAre DEF Searchable
<1>2. /\ N \in Nat /\ DOMAIN query = 1..N
      /\ ToSet(query) = {query[n] : n \in 1..N}
  BY SequenceIs
<1>3. ASSUME NEW t PROVE Part(s, e, t) \in Nat /\ (tf(t) > 0 => Part(s, e, t) > 0)
  <2>1. CASE t \notin ToSet(e.tokens)
    <3>1. tf(t) = 0
      BY <1>1, <2>1 DEF Frequency, Counted
    <3> HIDE DEF tf
    <3> QED
      BY <3>1 DEF Part, tf
  <2>2. CASE t \in ToSet(e.tokens)
    <3>1. tf(t) \in Nat \ {0}
      BY <1>1, <2>2 DEF Frequency, Counted
    <3>2. e.tokens # <<>>
      BY <2>2, EmptyIs
    <3> DEFINE n == tf(t)
    <3> HIDE DEF n
    <3>3. n \in Nat \ {0} /\ n = tf(t)
      BY <3>1 DEF n
    <3>4. Saturation(s, e, n) \in Nat \ {0}
      BY <3>2, <3>3, SaturationIs
    <3>5. Idf(s, t) \in Nat \ {0}
      BY <2>2, IdfIs DEF Searchable
    <3>6. Part(s, e, t) = Idf(s, t) * Saturation(s, e, n)
      BY <3>3 DEF Part
    <3>7. \A p, q \in Nat \ {0} : p * q \in Nat /\ p * q > 0
      OBVIOUS
    <3> QED
      BY <3>4, <3>5, <3>6, <3>7
  <2> QED
    BY <2>1, <2>2
<1>4. \A n \in 1..N : parts[n] \in Nat
  BY <1>3
<1>5. Sequence(parts) /\ Len(parts) = N
  BY <1>2, IsSequence
<1>6. Score(s, e, query) = Summed(parts)
  BY <1>2 DEF Score
<1>7. MatchedTerms(e, query) # {} => \E n \in 1..N : parts[n] > 0
  <2> SUFFICES ASSUME NEW t \in MatchedTerms(e, query) PROVE \E n \in 1..N : parts[n] > 0
    OBVIOUS
  <2>1. t \in ToSet(query) /\ tf(t) > 0
    BY DEF MatchedTerms
  <2>2. PICK n \in 1..N : query[n] = t
    BY <1>2, <2>1
  <2>3. parts[n] = Part(s, e, t)
    BY <2>2
  <2> QED
    BY <1>3, <2>1, <2>3
<1> HIDE DEF parts
<1>8. Summed(parts) \in Nat /\ \A n \in 1..N : parts[n] <= Summed(parts)
  BY <1>4, <1>5, SummedIs
<1> QED
  BY <1>4, <1>6, <1>7, <1>8

(* Whatever was edited, an entry has a score.                               *)
LEMMA WeighedScore ==
  ASSUME NEW s, Consistent(s), NEW e \in ToSet(s.entries), NEW query, Sequence(query)
  PROVE  Score(s, e, query) \in Nat
<1> DEFINE N == Len(query)
           parts == [n \in 1..N |-> Part(s, e, query[n])]
           average == Average(s.entries)
           total == IF average[1] = 0 THEN 1 ELSE average[1]
           count == IF average[1] = 0 THEN 1 ELSE average[2]
           bonus == IF s.config.variant = "bm25_plus" THEN 100 ELSE 0
           len == e.document_length
<1>1. Shelved(s.entries) /\ Weighed(e)
  BY EntriesAre DEF Consistent
<1>2. average[1] \in Nat /\ average[2] \in Nat
  <2> DEFINE entries == s.entries
             m == Len(entries)
             lengths == [i \in 1..m |-> entries[i].document_length]
  <2>1. /\ m \in Nat /\ DOMAIN entries = 1..m
        /\ \A i \in 1..m : entries[i] \in ToSet(entries)
    BY <1>1, EntriesAre
  <2>2. \A i \in 1..m : lengths[i] \in Nat
    BY <1>1, <2>1, EntriesAre DEF Weighed
  <2>3. Sequence(lengths) /\ Len(lengths) = m
    BY <2>1, IsSequence
  <2>4. SumOfLengths(entries) = Summed(lengths)
    BY <2>1 DEF SumOfLengths
  <2> HIDE DEF lengths
  <2>5. Summed(lengths) \in Nat
    BY <2>2, <2>3, SummedIs
  <2> QED
    BY <2>1, <2>4, <2>5 DEF Average
<1>3. total \in Nat \ {0} /\ count \in Nat
  BY <1>2
<1>4. bonus \in Nat /\ len \in Nat
  BY <1>1 DEF Weighed
<1> HIDE DEF bonus
<1>5. ASSUME NEW tf \in Nat \ {0} PROVE Saturation(s, e, tf) \in Nat
  <2> DEFINE a == 2200 * tf * total
             d == 10 * tf * total + 3 * total + 9 * len * count
  <2>1. Saturation(s, e, tf) = (a \div d) + bonus
    BY DEF Saturation, Consistent, bonus
  <2> HIDE DEF total, count, len
  <2>2. a \in Nat
    BY <1>3
  <2>3. d \in Nat \ {0}
    <3> DEFINE x == tf * total
               y == len * count
    <3>1. x \in Nat /\ y \in Nat
      BY <1>3, <1>4
    <3>2. d = 10 * x + 3 * total + 9 * y
      BY <1>3, <1>4
    <3> HIDE DEF x, y, d
    <3> QED
      BY <1>3, <3>1, <3>2
  <2> HIDE DEF a, d
  <2>4. (a \div d) \in Nat
    BY <2>2, <2>3
  <2> QED
    BY <1>4, <2>1, <2>4
<1> HIDE DEF total, count, len, average
<1>6. ASSUME NEW t PROVE Part(s, e, t) \in Nat
  <2> DEFINE tf == Frequency(e.term_frequencies, t)
  <2>1. tf \in Nat
    BY <1>1 DEF Frequency, Weighed
  <2> HIDE DEF tf
  <2>2. CASE tf = 0
    BY <2>2 DEF Part, tf
  <2>3. CASE tf # 0
    <3>1. Part(s, e, t) = Idf(s, t) * Saturation(s, e, tf)
      BY <2>3 DEF Part, tf
    <3>2. Idf(s, t) \in Nat /\ Saturation(s, e, tf) \in Nat
      BY <1>5, <2>1, <2>3, IdfIs
    <3>3. \A p, q \in Nat : p * q \in Nat
      OBVIOUS
    <3> QED
      BY <3>1, <3>2, <3>3
  <2> QED
    BY <2>2, <2>3
<1>7. N \in Nat /\ DOMAIN query = 1..N
  BY SequenceIs
<1>8. Sequence(parts) /\ Len(parts) = N
  BY <1>7, IsSequence
<1>9. Score(s, e, query) = Summed(parts)
  BY <1>7 DEF Score
<1>10. \A n \in 1..N : parts[n] \in Nat
  BY <1>6
<1> HIDE DEF parts
<1> QED
  BY <1>7, <1>8, <1>9, <1>10, SummedIs

-----------------------------------------------------------------------------
(* The order of results.                                                   *)

(* Ids are ordered number by number.                                       *)
LEMMA IdBeforeIs ==
  ASSUME NEW r \in Nat, NEW b \in Nat, NEW k \in Nat,
         NEW q \in Nat, NEW c \in Nat, NEW l \in Nat
  PROVE  IdBefore(<<r, b, k>>, <<q, c, l>>) <=>
           r < q \/ (r = q /\ b < c) \/ (r = q /\ b = c /\ k < l)
<1> DEFINE x == <<r, b, k>>
           y == <<q, c, l>>
           Before(n) == x[n] < y[n] /\ \A m \in 1..(n - 1) : x[m] = y[m]
<1>1. DOMAIN x = 1..3 /\ DOMAIN y = 1..3
  OBVIOUS
<1>2. x[1] = r /\ x[2] = b /\ x[3] = k /\ y[1] = q /\ y[2] = c /\ y[3] = l
  OBVIOUS
<1> HIDE DEF x, y
<1>3. IdBefore(x, y) <=> \E n \in 1..3 : Before(n)
  BY <1>1 DEF IdBefore
<1>4. 1..(1 - 1) = {} /\ 1..(2 - 1) = {1} /\ 1..(3 - 1) = {1, 2} /\ 1..3 = {1, 2, 3}
  OBVIOUS
<1>5. Before(1) <=> r < q
  BY <1>2, <1>4
<1>6. Before(2) <=> r = q /\ b < c
  BY <1>2, <1>4
<1>7. Before(3) <=> r = q /\ b = c /\ k < l
  BY <1>2, <1>4
<1> HIDE DEF Before
<1>8. IdBefore(x, y) <=> Before(1) \/ Before(2) \/ Before(3)
  BY <1>3, <1>4
<1> QED
  BY <1>5, <1>6, <1>7, <1>8 DEF x, y

(* They are in a strict order.                                             *)
LEMMA IdsAreOrdered ==
  ASSUME NEW a, IsId(a), NEW b, IsId(b), NEW c, IsId(c)
  PROVE  /\ ~IdBefore(a, a)
         /\ a = b \/ IdBefore(a, b) \/ IdBefore(b, a)
         /\ IdBefore(a, b) /\ IdBefore(b, c) => IdBefore(a, c)
<1>1. PICK r, s, t \in Nat : a = <<r, s, t>>
  BY DEF IsId
<1>2. PICK u, v, w \in Nat : b = <<u, v, w>>
  BY DEF IsId
<1>3. PICK x, y, z \in Nat : c = <<x, y, z>>
  BY DEF IsId
<1>4. ~IdBefore(a, a)
  BY <1>1, IdBeforeIs
<1>5. IdBefore(a, b) <=> r < u \/ (r = u /\ s < v) \/ (r = u /\ s = v /\ t < w)
  BY <1>1, <1>2, IdBeforeIs
<1>6. IdBefore(b, a) <=> u < r \/ (u = r /\ v < s) \/ (u = r /\ v = s /\ w < t)
  BY <1>1, <1>2, IdBeforeIs
<1>7. IdBefore(b, c) <=> u < x \/ (u = x /\ v < y) \/ (u = x /\ v = y /\ w < z)
  BY <1>2, <1>3, IdBeforeIs
<1>8. IdBefore(a, c) <=> r < x \/ (r = x /\ s < y) \/ (r = x /\ s = y /\ t < z)
  BY <1>1, <1>3, IdBeforeIs
<1>9. a = b \/ IdBefore(a, b) \/ IdBefore(b, a)
  <2>1. r = u /\ s = v /\ t = w => a = b
    BY <1>1, <1>2
  <2> QED
    BY <1>5, <1>6, <2>1
<1>10. IdBefore(a, b) /\ IdBefore(b, c) => IdBefore(a, c)
  BY <1>5, <1>7, <1>8
<1> QED
  BY <1>4, <1>9, <1>10

(* A finite set whose members are told apart by their ids is in the order of *)
(* the ids.                                                                *)
LEMMA OrderById ==
  ASSUME NEW S, IsFiniteSet(S), NEW id, \A x \in S : IsId(id[x]),
         \A x, y \in S : id[x] = id[y] => x = y,
         NEW below, below = [x \in S |-> {y \in S : IdBefore(id[y], id[x])}]
  PROVE  IsOrder(S, below)
<1>1. \A x, y \in S : y \in below[x] <=> IdBefore(id[y], id[x])
  OBVIOUS
<1>2. below \in [S -> SUBSET S]
  OBVIOUS
<1>3. \A x \in S : x \notin below[x]
  BY <1>1, IdsAreOrdered
<1>4. \A x, y \in S : x = y \/ x \in below[y] \/ y \in below[x]
  BY <1>1, IdsAreOrdered
<1>5. \A x, y, z \in S : x \in below[y] /\ y \in below[z] => x \in below[z]
  BY <1>1, IdsAreOrdered
<1> QED
  BY <1>2, <1>3, <1>4, <1>5 DEF IsOrder

(* Results: each is of a chunk of its own.                                  *)
AreScored(S) ==
  /\ IsFiniteSet(S)
  /\ \A x \in S : IsId(x.chunk_id) /\ x.score \in Nat
  /\ \A x, y \in S : x.chunk_id = y.chunk_id => x = y

(* They are ranked.                                                        *)
LEMMA RankedIs ==
  ASSUME NEW S, AreScored(S)
  PROVE  /\ Sequence(Ordered(S, Ranked)) /\ ToSet(Ordered(S, Ranked)) = S
         /\ \A i, j \in 1..Len(Ordered(S, Ranked)) :
              i < j => Ranked(Ordered(S, Ranked)[i], Ordered(S, Ranked)[j])
         /\ \A i, j \in 1..Len(Ordered(S, Ranked)) :
              Ordered(S, Ranked)[i] = Ordered(S, Ranked)[j] => i = j
<1> DEFINE n == Cardinality(S)
           below == [x \in S |-> {y \in S : Ranked(y, x)}]
           F(i) == CHOOSE x \in S : Cardinality({y \in S : Ranked(y, x)}) = i - 1
           at == [i \in 1..n |-> F(i)]
<1>1. Ordered(S, Ranked) = at
  BY DEF Ordered
<1>2. n \in Nat /\ IsFiniteSet(S)
  BY FS_CardinalityType DEF AreScored
<1>3. \A x, y \in S : y \in below[x] <=> Ranked(y, x)
  OBVIOUS
<1>4. \A x \in S : below[x] = {y \in S : Ranked(y, x)}
  OBVIOUS
<1>5. below \in [S -> SUBSET S]
  OBVIOUS
<1> HIDE DEF below
<1>6. ASSUME NEW x \in S, NEW y \in S, NEW z \in S
      PROVE  /\ ~Ranked(x, x)
             /\ x = y \/ Ranked(x, y) \/ Ranked(y, x)
             /\ Ranked(x, y) /\ Ranked(y, z) => Ranked(x, z)
  <2>1. /\ IsId(x.chunk_id) /\ IsId(y.chunk_id) /\ IsId(z.chunk_id)
        /\ x.score \in Nat /\ y.score \in Nat /\ z.score \in Nat
        /\ x.chunk_id = y.chunk_id => x = y
    BY DEF AreScored
  <2>2. /\ ~IdBefore(x.chunk_id, x.chunk_id)
        /\ x.chunk_id = y.chunk_id \/ IdBefore(x.chunk_id, y.chunk_id) \/ IdBefore(y.chunk_id, x.chunk_id)
        /\ IdBefore(x.chunk_id, y.chunk_id) /\ IdBefore(y.chunk_id, z.chunk_id)
             => IdBefore(x.chunk_id, z.chunk_id)
    BY <2>1, IdsAreOrdered
  <2>3. ~Ranked(x, x)
    BY <2>1, <2>2 DEF Ranked
  <2>4. x = y \/ Ranked(x, y) \/ Ranked(y, x)
    BY <2>1, <2>2 DEF Ranked
  <2>5. Ranked(x, y) /\ Ranked(y, z) => Ranked(x, z)
    BY <2>1, <2>2 DEF Ranked
  <2> QED
    BY <2>3, <2>4, <2>5
<1>7. IsOrder(S, below)
  BY <1>2, <1>3, <1>5, <1>6 DEF IsOrder
<1>8. ASSUME NEW i \in 1..n, NEW x \in S, Cardinality(below[x]) = i - 1
      PROVE  at[i] \in S /\ Cardinality(below[at[i]]) = i - 1
  <2>1. Cardinality({y \in S : Ranked(y, x)}) = i - 1
    BY <1>4, <1>8
  <2>2. at[i] = F(i)
    OBVIOUS
  <2>3. F(i) \in S /\ Cardinality({y \in S : Ranked(y, F(i))}) = i - 1
    BY <2>1
  <2> HIDE DEF at, F
  <2> QED
    BY <1>4, <2>2, <2>3
<1> HIDE DEF F
<1>9. at = [i \in 1..n |-> at[i]]
  OBVIOUS
<1> HIDE DEF at
<1>10. PlacesIn(at, S, below)
  BY <1>8, <1>9 DEF PlacesIn
<1>11. /\ Sequence(at) /\ ToSet(at) = S
       /\ \A i, j \in 1..Len(at) : i < j => at[i] \in below[at[j]]
       /\ \A i, j \in 1..Len(at) : at[i] = at[j] => i = j
  BY <1>7, <1>10, SortedIs
<1>12. \A i \in 1..Len(at) : at[i] \in S
  BY <1>11, SequenceIs
<1> QED
  BY <1>1, <1>3, <1>11, <1>12

(* The best of a ranking: as many as asked for, and none behind them scores *)
(* higher.                                                                 *)
LEMMA BestAre ==
  ASSUME NEW S, AreScored(S), NEW k \in Nat
  PROVE  LET r == Best(Ordered(S, Ranked), k) IN
         /\ Sequence(r) /\ Len(r) <= k /\ \A i \in 1..Len(r) : r[i] \in S
         /\ \A i, j \in 1..Len(r) : r[i].chunk_id = r[j].chunk_id => i = j
         /\ \A x \in S : (\E i \in 1..Len(r) : r[i] = x)
                         \/ (Len(r) = k /\ \A i \in 1..Len(r) : r[i].score >= x.score)
<1> DEFINE at == Ordered(S, Ranked)
           n == Len(at)
           m == IF k < n THEN k ELSE n
           r == Best(at, k)
<1>1. /\ Sequence(at) /\ ToSet(at) = S
      /\ \A i, j \in 1..n : i < j => Ranked(at[i], at[j])
      /\ \A i, j \in 1..n : at[i] = at[j] => i = j
  BY RankedIs
<1>2. n \in Nat /\ S = {at[i] : i \in 1..n}
  BY <1>1, SequenceIs
<1> HIDE DEF at
<1>3. /\ m \in Nat /\ m <= k /\ m <= n /\ (m = k \/ m = n)
  BY <1>2
<1>4. r = SubSeq(at, 1, m)
  BY DEF Best
<1> HIDE DEF m, n
<1>5. Sequence(r) /\ Len(r) = m /\ \A i \in 1..m : r[i] = at[i]
  <2>1. at \in Seq(S) /\ n = Len(at)
    BY <1>1 DEF Sequence, n
  <2>2. /\ SubSeq(at, 1, m) \in Seq(S) /\ Len(SubSeq(at, 1, m)) = m
        /\ \A i \in 1..m : SubSeq(at, 1, m)[i] = at[i]
    BY <1>2, <1>3, <2>1, SubSeqProperties
  <2> QED
    BY <1>4, <2>2, Items
<1> HIDE DEF r
<1>6. \A i \in 1..m : i \in 1..n /\ r[i] \in S
  BY <1>2, <1>3, <1>5
<1>7. \A i, j \in 1..m : r[i].chunk_id = r[j].chunk_id => i = j
  BY <1>1, <1>5, <1>6 DEF AreScored
<1>8. ASSUME NEW x \in S, ~\E i \in 1..m : r[i] = x
      PROVE  m = k /\ \A i \in 1..m : r[i].score >= x.score
  <2>1. PICK j \in 1..n : at[j] = x
    BY <1>2
  <2>2. j \notin 1..m
    BY <1>5, <1>8, <2>1
  <2>3. j > m /\ m < n
    BY <1>2, <1>3, <2>2
  <2>4. ASSUME NEW i \in 1..m PROVE r[i].score >= x.score
    <3>1. i < j /\ i \in 1..n
      BY <1>3, <1>6, <2>3
    <3> DEFINE y == at[i]
               z == at[j]
    <3>2. Ranked(y, z)
      BY <1>1, <3>1
    <3>3. z = x /\ y = r[i]
      BY <1>5, <2>1
    <3> HIDE DEF y, z
    <3>4. Ranked(r[i], x)
      BY <3>2, <3>3
    <3>5. r[i].score \in Nat /\ x.score \in Nat
      BY <1>6 DEF AreScored
    <3> QED
      BY <3>4, <3>5 DEF Ranked
  <2> QED
    BY <1>3, <2>3, <2>4
<1>9. /\ Sequence(r) /\ Len(r) <= k /\ \A i \in 1..Len(r) : r[i] \in S
      /\ \A i, j \in 1..Len(r) : r[i].chunk_id = r[j].chunk_id => i = j
      /\ \A x \in S : (\E i \in 1..Len(r) : r[i] = x)
                      \/ (Len(r) = k /\ \A i \in 1..Len(r) : r[i].score >= x.score)
  BY <1>3, <1>5, <1>6, <1>7, <1>8
<1> QED
  BY <1>9 DEF r, at

(* Whatever passes the filter and has a term of the query is scored.        *)
Findable(s, query, filter) ==
  {e \in ToSet(s.entries) : Matches(e, filter) /\ ToSet(query) \cap ToSet(e.tokens) # {}}

HitOf(s, query, e) ==
  [chunk_id |-> e.chunk.chunk_id, text |-> e.chunk.text,
   score |-> Score(s, e, query), matched |-> MatchedTerms(e, query)]

LEMMA MatchedIs ==
  ASSUME NEW e, Counted(e), NEW query
  PROVE  MatchedTerms(e, query) = ToSet(query) \cap ToSet(e.tokens)
  BY DEF MatchedTerms, Frequency, Counted

LEMMA ScoredAre ==
  ASSUME NEW s, Searchable(s), NEW query, Sequence(query), NEW filter
  PROVE  LET S == {r \in Scored(s, query, filter) : r.score > 0} IN
         /\ S = {HitOf(s, query, e) : e \in Findable(s, query, filter)}
         /\ AreScored(S)
<1> DEFINE E == Findable(s, query, filter)
           D == {e \in ToSet(s.entries) : Matches(e, filter) /\ MatchedTerms(e, query) # {}}
           F(e) == HitOf(s, query, e)
           R == {F(e) : e \in E}
           S == {r \in Scored(s, query, filter) : r.score > 0}
<1>1. /\ IsFiniteSet(ToSet(s.entries))
      /\ \A e \in ToSet(s.entries) : Counted(e)
      /\ \A e, f \in ToSet(s.entries) : e.chunk.chunk_id = f.chunk.chunk_id => e = f
  BY EntriesAre, CataloguedAre DEF Searchable, Consistent
<1>2. D = E
  <2>1. \A e \in ToSet(s.entries) : MatchedTerms(e, query) = ToSet(query) \cap ToSet(e.tokens)
    BY <1>1, MatchedIs
  <2> QED
    BY <2>1 DEF Findable
<1>3. Scored(s, query, filter) = {F(e) : e \in D}
  BY DEF Scored, HitOf
<1>4. ASSUME NEW e \in E PROVE Score(s, e, query) \in Nat /\ Score(s, e, query) > 0
  <2>1. e \in ToSet(s.entries) /\ MatchedTerms(e, query) # {}
    BY <1>2
  <2> QED
    BY <2>1, MatchesScore
<1>5. ASSUME NEW e \in E
      PROVE  /\ F(e).score = Score(s, e, query) /\ F(e).chunk_id = e.chunk.chunk_id
             /\ IsId(e.chunk.chunk_id)
  <2>1. Counted(e)
    BY <1>1 DEF Findable
  <2> QED
    BY <2>1 DEF HitOf, Counted
<1> HIDE DEF F, D
<1>6. S = R
  <2>1. \A r \in S : r \in R
    BY <1>2, <1>3
  <2>2. ASSUME NEW e \in E PROVE F(e) \in Scored(s, query, filter) /\ F(e).score > 0
    BY <1>2, <1>3, <1>4, <1>5
  <2> QED
    BY <2>1, <2>2
<1>7. IsFiniteSet(E)
  BY <1>1, FS_Subset DEF Findable
<1>8. IsFiniteSet(R)
  <2> DEFINE m == [e \in E |-> F(e)]
  <2> HIDE DEF E
  <2>1. m \in [E -> R] /\ \A x \in R : \E e \in E : m[e] = x
    OBVIOUS
  <2> HIDE DEF m, R
  <2>2. m \in Surjection(E, R)
    BY <2>1 DEF Surjection
  <2> QED
    BY <1>7, <2>2, FS_Surjection
<1>9. \A x \in R : IsId(x.chunk_id) /\ x.score \in Nat
  BY <1>4, <1>5
<1>10. \A x, y \in R : x.chunk_id = y.chunk_id => x = y
  <2>1. ASSUME NEW e \in E, NEW f \in E, F(e).chunk_id = F(f).chunk_id PROVE F(e) = F(f)
    <3>1. e.chunk.chunk_id = f.chunk.chunk_id
      BY <1>5, <2>1
    <3>2. e = f
      BY <1>1, <3>1 DEF Findable
    <3> QED
      BY <3>2
  <2> QED
    BY <2>1
<1>11. AreScored(R)
  BY <1>8, <1>9, <1>10 DEF AreScored
<1> HIDE DEF S, E
<1> QED
  BY <1>6, <1>11 DEF S, F, E

(* What a search answers.                                                  *)
Answered(r, s, query, k, filter) ==
  /\ Sequence(r) /\ Len(r) <= k
  /\ \A i \in 1..Len(r) : \E e \in Findable(s, query, filter) : r[i] = HitOf(s, query, e)
  /\ \A i, j \in 1..Len(r) : r[i].chunk_id = r[j].chunk_id => i = j
  /\ \A e \in Findable(s, query, filter) :
       \/ \E i \in 1..Len(r) : r[i] = HitOf(s, query, e)
       \/ Len(r) = k /\ \A i \in 1..Len(r) : r[i].score >= Score(s, e, query)

LEMMA SearchIs ==
  ASSUME NEW s, Searchable(s), NEW query, Sequence(query), NEW k \in Nat, NEW filter
  PROVE  Answered(Search(s, query, k, filter), s, query, k, filter)
<1> DEFINE S == {r \in Scored(s, query, filter) : r.score > 0}
           E == Findable(s, query, filter)
           F(e) == HitOf(s, query, e)
           r == Best(Ordered(S, Ranked), k)
<1>1. Search(s, query, k, filter) = r
  BY DEF Search
<1>2. S = {F(e) : e \in E} /\ AreScored(S)
  BY ScoredAre
<1>3. \A e \in E : F(e).score = Score(s, e, query)
  BY DEF HitOf
<1> HIDE DEF S, E, F
<1>4. /\ Sequence(r) /\ Len(r) <= k /\ \A i \in 1..Len(r) : r[i] \in S
      /\ \A i, j \in 1..Len(r) : r[i].chunk_id = r[j].chunk_id => i = j
      /\ \A x \in S : (\E i \in 1..Len(r) : r[i] = x)
                      \/ (Len(r) = k /\ \A i \in 1..Len(r) : r[i].score >= x.score)
  BY <1>2, BestAre
<1> HIDE DEF r
<1>5. \A i \in 1..Len(r) : \E e \in E : r[i] = F(e)
  BY <1>2, <1>4
<1>6. ASSUME NEW e \in E
      PROVE  \/ \E i \in 1..Len(r) : r[i] = F(e)
             \/ Len(r) = k /\ \A i \in 1..Len(r) : r[i].score >= Score(s, e, query)
  <2>1. F(e) \in S
    BY <1>2
  <2> QED
    BY <1>3, <1>4, <2>1
<1>7. Answered(r, s, query, k, filter)
  BY <1>4, <1>5, <1>6 DEF Answered, E, F
<1> QED
  BY <1>1, <1>7

(* An image of a finite set is finite.                                     *)
LEMMA ImageIsFinite ==
  ASSUME NEW S, IsFiniteSet(S), NEW g, NEW T, T = {g[x] : x \in S}
  PROVE  IsFiniteSet(T)
<1> DEFINE m == [x \in S |-> g[x]]
<1>1. m \in [S -> T] /\ \A y \in T : \E x \in S : m[x] = y
  OBVIOUS
<1> HIDE DEF m
<1>2. m \in Surjection(S, T)
  BY <1>1 DEF Surjection
<1> QED
  BY <1>2, FS_Surjection

(* What a search answers on an index that was edited: chunks that pass the   *)
(* filter, each once, and no more than were asked for.                      *)
Filtered(r, s, k, filter) ==
  /\ Sequence(r) /\ Len(r) <= k
  /\ \A i \in 1..Len(r) : \E e \in ToSet(s.entries) :
       Matches(e, filter) /\ r[i].chunk_id = e.chunk.chunk_id
  /\ \A i, j \in 1..Len(r) : r[i].chunk_id = r[j].chunk_id => i = j

LEMMA SearchFilters ==
  ASSUME NEW s, Consistent(s), NEW query, Sequence(query), NEW k \in Nat, NEW filter
  PROVE  Filtered(Search(s, query, k, filter), s, k, filter)
<1> DEFINE D == {e \in ToSet(s.entries) : Matches(e, filter) /\ MatchedTerms(e, query) # {}}
           g == [e \in D |-> HitOf(s, query, e)]
           H == {g[e] : e \in D}
           S == {r \in Scored(s, query, filter) : r.score > 0}
           r == Best(Ordered(S, Ranked), k)
<1>1. /\ IsFiniteSet(ToSet(s.entries)) /\ \A e \in ToSet(s.entries) : Weighed(e)
      /\ \A e, f \in ToSet(s.entries) : e.chunk.chunk_id = f.chunk.chunk_id => e = f
  BY EntriesAre DEF Consistent
<1>2. Scored(s, query, filter) = H
  BY DEF Scored, HitOf
<1>3. IsFiniteSet(D)
  BY <1>1, FS_Subset
<1>4. ASSUME NEW e \in D
      PROVE  /\ g[e].chunk_id = e.chunk.chunk_id /\ IsId(e.chunk.chunk_id)
             /\ g[e].score \in Nat /\ Matches(e, filter)
  <2>1. Weighed(e) /\ Score(s, e, query) \in Nat
    BY <1>1, WeighedScore
  <2> QED
    BY <2>1 DEF HitOf, Weighed
<1> HIDE DEF g
<1>5. IsFiniteSet(H)
  BY <1>3, ImageIsFinite
<1>6. AreScored(S)
  <2>1. IsFiniteSet(S) /\ S \subseteq H
    BY <1>2, <1>5, FS_Subset
  <2>2. \A x \in H : IsId(x.chunk_id) /\ x.score \in Nat
    BY <1>4
  <2>3. \A e, f \in D : g[e].chunk_id = g[f].chunk_id => g[e] = g[f]
    BY <1>1, <1>4
  <2> QED
    BY <2>1, <2>2, <2>3 DEF AreScored
<1>7. \A x \in S : \E e \in ToSet(s.entries) :
        Matches(e, filter) /\ x.chunk_id = e.chunk.chunk_id
  BY <1>2, <1>4
<1>8. Search(s, query, k, filter) = r
  BY DEF Search
<1> HIDE DEF S
<1>9. /\ Sequence(r) /\ Len(r) <= k /\ \A i \in 1..Len(r) : r[i] \in S
      /\ \A i, j \in 1..Len(r) : r[i].chunk_id = r[j].chunk_id => i = j
  BY <1>6, BestAre
<1> HIDE DEF r
<1> QED
  BY <1>7, <1>8, <1>9 DEF Filtered

-----------------------------------------------------------------------------
(* What is built.                                                          *)

(* The terms of a text are a sequence.                                     *)
LEMMA LexicalIs ==
  ASSUME NEW text, Sequence(text) PROVE Sequence(Lexical(text))
<1> DEFINE words == [i \in DOMAIN text |-> Core(text[i])]
           N == Len(text)
<1>1. N \in Nat /\ DOMAIN text = 1..N
  BY SequenceIs
<1>2. words = [i \in 1..N |-> words[i]]
  BY <1>1
<1> DEFINE S == ToSet(words) \ (Stopwords \cup {<<>>, <<Bar>>, <<Bullet>>})
<1>3. Lexical(text) = Only(words, S)
  BY DEF Lexical
<1> HIDE DEF words, S
<1>4. Sequence(words)
  BY <1>1, <1>2, IsSequence
<1>5. \E at : Picks(Only(words, S), words, Len(words), S, at)
  BY <1>4, OnlyIs
<1> QED
  BY <1>3, <1>5 DEF Picks

(* A document as the index takes it: its chunks are numbered, and under its *)
(* id.                                                                     *)
IsInput(d) ==
  /\ \E r, b \in Nat : d.document_id = <<r, b>>
  /\ Sequence(d.chunks)
  /\ \A k \in 1..Len(d.chunks) :
       d.chunks[k].chunk_id = Append(d.document_id, k) /\ Sequence(d.chunks[k].text)

EntryFields ==
  {"chunk", "domain", "date", "tokens", "term_frequencies", "document_length"}

IndexFields ==
  {"config", "config_fingerprint", "index_fingerprint", "entries", "document_frequencies",
   "average_document_length", "document_count"}

(* A snapshot as the tools write it, whatever was edited in it since.        *)
HasFields(s) ==
  /\ s = [f \in IndexFields |-> s[f]]
  /\ Shelved(s.entries)
  /\ \A i \in 1..Len(s.entries) : s.entries[i] = [f \in EntryFields |-> s.entries[i][f]]

IsBuilt(s) == HasFields(s) /\ Intact(s) /\ Catalogued(s.entries)

(* Counting the terms of an entry.                                         *)
LEMMA CountIs ==
  ASSUME NEW tokens, Sequence(tokens)
  PROVE  CountTerms(tokens) \in [ToSet(tokens) -> Nat \ {0}]
<1>1. ASSUME NEW t \in ToSet(tokens) PROVE Occurrences(tokens, t) \in Nat \ {0}
  <2> DEFINE N == Len(tokens)
             I == {i \in 1..N : tokens[i] = t}
  <2>1. N \in Nat /\ DOMAIN tokens = 1..N /\ ToSet(tokens) = {tokens[i] : i \in 1..N}
    BY SequenceIs
  <2>2. IsFiniteSet(1..N)
    BY <2>1, FS_Interval
  <2>3. IsFiniteSet(I) /\ I # {}
    BY <2>1, <2>2, FS_Subset
  <2>4. Cardinality(I) \in Nat \ {0}
    BY <2>3, FS_CardinalityType, FS_EmptySet
  <2> QED
    BY <2>1, <2>4 DEF Occurrences
<1> QED
  BY <1>1 DEF CountTerms

(* An entry of a document.                                                 *)
LEMMA EntryIs ==
  ASSUME NEW d, IsInput(d), NEW k \in 1..Len(d.chunks), NEW c, c = d.chunks[k],
         NEW e, e = Entry(d, c, Lexical(c.text))
  PROVE  /\ Counted(e) /\ e = [f \in EntryFields |-> e[f]] /\ e.chunk = c
         /\ e.chunk.chunk_id = Append(d.document_id, k)
<1>1. Sequence(Lexical(c.text)) /\ c.chunk_id = Append(d.document_id, k)
  BY LexicalIs DEF IsInput
<1> DEFINE tokens == Lexical(c.text)
<1> HIDE DEF tokens
<1>2. e = Entry(d, c, tokens)
  BY DEF tokens
<1>3. /\ e.chunk = c /\ e.tokens = tokens /\ e.term_frequencies = CountTerms(tokens)
      /\ e.document_length = Len(tokens) /\ e = [f \in EntryFields |-> e[f]]
  BY <1>2 DEF Entry, EntryFields
<1>4. IsId(c.chunk_id)
  <2>1. PICK r, b \in Nat : d.document_id = <<r, b>>
    BY DEF IsInput
  <2>2. k \in Nat
    BY SequenceIs DEF IsInput
  <2>3. Append(<<r, b>>, k) = <<r, b, k>>
    <3> DEFINE a == <<r, b>>
               x == Append(a, k)
    <3>1. Sequence(a) /\ Len(a) = 2 /\ a[1] = r /\ a[2] = b
      BY TwoItems
    <3> HIDE DEF a
    <3>2. /\ Sequence(x) /\ Len(x) = 3 /\ x[1] = r /\ x[2] = b /\ x[3] = k
      <4>1. /\ Sequence(x) /\ Len(x) = Len(a) + 1 /\ x[Len(a) + 1] = k
            /\ \A i \in 1..Len(a) : x[i] = a[i]
        <5>1. Sequence(a)
          BY <3>1
        <5>2. /\ Sequence(Append(a, k)) /\ Len(Append(a, k)) = Len(a) + 1
              /\ \A i \in 1..Len(a) : Append(a, k)[i] = a[i]
              /\ Append(a, k)[Len(a) + 1] = k
          BY <5>1, AppendIs
        <5> QED
          BY <5>2
      <4>2. 1 \in 1..Len(a) /\ 2 \in 1..Len(a) /\ Len(a) + 1 = 3
        BY <3>1
      <4> HIDE DEF x
      <4> QED
        BY <3>1, <4>1, <4>2
    <3> HIDE DEF x
    <3>3. x = [i \in 1..3 |-> x[i]]
      BY <3>2, SequenceIs
    <3>4. x = <<r, b, k>>
      BY <3>2, <3>3
    <3> QED
      BY <3>4 DEF x, a
  <2>4. c.chunk_id = <<r, b, k>>
    BY <1>1, <2>1, <2>3
  <2> QED
    BY <2>2, <2>4 DEF IsId
<1>5. Counted(e)
  <2>1. Sequence(tokens)
    BY <1>1 DEF tokens
  <2>2. CountTerms(tokens) \in [ToSet(tokens) -> Nat \ {0}]
    BY <2>1, CountIs
  <2> QED
    BY <1>3, <1>4, <2>1, <2>2 DEF Counted
<1> QED
  BY <1>1, <1>3, <1>5

(* Two ids are one only where they name one chunk of one document.          *)
LEMMA IdsName ==
  ASSUME NEW documents, Sequence(documents),
         \A i \in 1..Len(documents) : IsInput(documents[i]), ~Rejected(documents),
         NEW i \in 1..Len(documents), NEW j \in 1..Len(documents),
         NEW k \in 1..Len(documents[i].chunks), NEW l \in 1..Len(documents[j].chunks),
         documents[i].chunks[k].chunk_id = documents[j].chunks[l].chunk_id
  PROVE  i = j /\ k = l
<1> DEFINE n == Len(documents)
           parts == [d \in DOMAIN documents |->
                       [c \in DOMAIN documents[d].chunks |-> documents[d].chunks[c].chunk_id]]
           ids == FlattenSeq(parts)
<1>1. n \in Nat /\ DOMAIN documents = 1..n
  BY SequenceIs
<1>2. ids = ChunkIds(documents) /\ IsInjective(ids)
  BY DEF ChunkIds, Rejected
<1>3. ASSUME NEW d \in 1..n
      PROVE  /\ Sequence(parts[d]) /\ Len(parts[d]) = Len(documents[d].chunks)
             /\ \A c \in 1..Len(parts[d]) : parts[d][c] = documents[d].chunks[c].chunk_id
  <2> DEFINE part == [c \in DOMAIN documents[d].chunks |-> documents[d].chunks[c].chunk_id]
             m == Len(documents[d].chunks)
  <2>1. m \in Nat /\ DOMAIN documents[d].chunks = 1..m
    BY SequenceIs DEF IsInput
  <2>2. parts[d] = part
    BY <1>1
  <2>3. part = [c \in 1..m |-> part[c]] /\ \A c \in 1..m : part[c] = documents[d].chunks[c].chunk_id
    BY <2>1
  <2> HIDE DEF part, parts
  <2>4. Sequence(part) /\ Len(part) = m
    BY <2>1, <2>3, IsSequence
  <2> QED
    BY <2>2, <2>3, <2>4
<1>4. parts = [d \in 1..n |-> parts[d]]
  BY <1>1
<1> HIDE DEF parts, ids
<1>5. Sequence(parts) /\ Len(parts) = n
  BY <1>1, <1>4, IsSequence
<1>6. PICK C : parts \in Seq(Seq(C))
  BY <1>3, <1>5, PartsTyped
<1>7. PICK o \in [1..Len(parts) -> Nat] :
        /\ \A a \in 1..Len(parts) :
             /\ o[a] + Len(parts[a]) <= Len(FlattenSeq(parts))
             /\ \A c \in 1..Len(parts[a]) : FlattenSeq(parts)[o[a] + c] = parts[a][c]
        /\ \A a, b \in 1..Len(parts) : a < b => o[a] + Len(parts[a]) <= o[b]
  BY <1>6, FlatPlaces
<1>8. ids \in Seq(C)
  BY <1>6, FlatTyped DEF ids
<1>9. Len(ids) \in Nat /\ DOMAIN ids = 1..Len(ids)
  BY <1>8, LenProperties
<1> DEFINE x == o[i] + k
           y == o[j] + l
           m1 == Len(parts[i])
           m2 == Len(parts[j])
<1>10. /\ k \in 1..m1 /\ l \in 1..m2 /\ m1 \in Nat /\ m2 \in Nat
       /\ o[i] \in Nat /\ o[j] \in Nat
       /\ o[i] + m1 <= Len(ids) /\ o[j] + m2 <= Len(ids)
       /\ i < j => o[i] + m1 <= o[j]
       /\ j < i => o[j] + m2 <= o[i]
  BY <1>3, <1>5, <1>7, SequenceIs DEF ids
<1>11. ids[x] = documents[i].chunks[k].chunk_id /\ ids[y] = documents[j].chunks[l].chunk_id
  BY <1>3, <1>5, <1>7, <1>10 DEF ids
<1> DEFINE p == o[i]
           q == o[j]
           N == Len(ids)
<1>12. /\ x = p + k /\ y = q + l /\ k \in 1..m1 /\ l \in 1..m2 /\ m1 \in Nat /\ m2 \in Nat
       /\ p \in Nat /\ q \in Nat /\ N \in Nat /\ p + m1 <= N /\ q + m2 <= N
       /\ i < j => p + m1 <= q
       /\ j < i => q + m2 <= p
  BY <1>9, <1>10
<1> HIDE DEF m1, m2, x, y, N
<1>13. x \in 1..N /\ y \in 1..N
  <2> HIDE DEF p, q
  <2> QED
    BY <1>12
<1>14. x = y
  BY <1>2, <1>9, <1>11, <1>13 DEF IsInjective, N
<1>15. i = j
  <2> HIDE DEF p, q
  <2>1. ~(i < j) /\ ~(j < i)
    BY <1>12, <1>14
  <2> QED
    BY <1>1, <2>1
<1> QED
  BY <1>12, <1>14, <1>15

(* The entries of the documents, and the snapshot that has them in order.   *)
LEMMA BuiltIs ==
  ASSUME NEW documents, Sequence(documents),
         \A i \in 1..Len(documents) : IsInput(documents[i]), ~Rejected(documents),
         NEW config, NEW s, s = Snapshot(documents, config), Len(s.entries) <= MaxEntries
  PROVE  IsBuilt(s)
<1> DEFINE E == UNION {EntriesOf(d) : d \in ToSet(documents)}
           id == [e \in E |-> e.chunk.chunk_id]
           below == [e \in E |-> {f \in E : IdBefore(id[f], id[e])}]
           n == Cardinality(E)
           F(i) == CHOOSE e \in E : Cardinality({f \in E : IdBefore(f.chunk.chunk_id, e.chunk.chunk_id)}) = i - 1
           at == [i \in 1..n |-> F(i)]
<1>1. s = SnapshotOf(at, config)
  BY DEF Snapshot, Ordered
<1>2. ToSet(documents) = {documents[i] : i \in 1..Len(documents)} /\ IsFiniteSet(ToSet(documents))
  BY SequenceIs, FiniteValues
<1>3. ASSUME NEW i \in 1..Len(documents)
      PROVE  /\ IsFiniteSet(EntriesOf(documents[i]))
             /\ \A e \in EntriesOf(documents[i]) :
                  \E k \in 1..Len(documents[i].chunks) : \E c \in {documents[i].chunks[k]} :
                    e = Entry(documents[i], c, Lexical(c.text))
  <2> DEFINE d == documents[i]
             g == [c \in ToSet(d.chunks) |-> Entry(d, c, Lexical(c.text))]
  <2>1. Sequence(d.chunks)
    BY DEF IsInput
  <2>2. /\ IsFiniteSet(ToSet(d.chunks))
        /\ ToSet(d.chunks) = {d.chunks[k] : k \in 1..Len(d.chunks)}
    BY <2>1, FiniteValues, SequenceIs
  <2>3. EntriesOf(d) = {g[c] : c \in ToSet(d.chunks)}
    BY DEF EntriesOf
  <2>4. \A e \in EntriesOf(d) : \E c \in ToSet(d.chunks) : e = Entry(d, c, Lexical(c.text))
    BY DEF EntriesOf
  <2> HIDE DEF g, d
  <2>5. IsFiniteSet(EntriesOf(d))
    BY <2>2, <2>3, ImageIsFinite
  <2>6. \A e \in EntriesOf(d) : \E k \in 1..Len(d.chunks) : \E c \in {d.chunks[k]} :
          e = Entry(d, c, Lexical(c.text))
    BY <2>2, <2>4
  <2> QED
    BY <2>5, <2>6 DEF d
<1>4. IsFiniteSet(E)
  <2> DEFINE g == [d \in ToSet(documents) |-> EntriesOf(d)]
             Z == {EntriesOf(d) : d \in ToSet(documents)}
  <2>1. Z = {g[d] : d \in ToSet(documents)}
    OBVIOUS
  <2>2. \A X \in Z : IsFiniteSet(X)
    BY <1>2, <1>3
  <2> HIDE DEF g, Z
  <2>3. IsFiniteSet(Z)
    BY <1>2, <2>1, ImageIsFinite
  <2>4. IsFiniteSet(UNION Z)
    BY <2>2, <2>3, FS_UNION
  <2> QED
    BY <2>4 DEF Z
<1>5. ASSUME NEW e \in E
      PROVE  \E i \in 1..Len(documents) : \E k \in 1..Len(documents[i].chunks) :
               \E c \in {documents[i].chunks[k]} : e = Entry(documents[i], c, Lexical(c.text))
  <2>1. PICK d \in ToSet(documents) : e \in EntriesOf(d)
    OBVIOUS
  <2>2. PICK i \in 1..Len(documents) : d = documents[i]
    BY <1>2, <2>1
  <2> QED
    BY <1>3, <2>1, <2>2
<1> HIDE DEF E
<1>6. ASSUME NEW e \in E PROVE Counted(e) /\ e = [f \in EntryFields |-> e[f]]
  <2>1. PICK i \in 1..Len(documents) : \E k \in 1..Len(documents[i].chunks) :
               \E c \in {documents[i].chunks[k]} : e = Entry(documents[i], c, Lexical(c.text))
    BY <1>5
  <2>2. PICK k \in 1..Len(documents[i].chunks) :
               \E c \in {documents[i].chunks[k]} : e = Entry(documents[i], c, Lexical(c.text))
    BY <2>1
  <2> QED
    BY <2>2, EntryIs
<1>7. ASSUME NEW e \in E, NEW f \in E, id[e] = id[f] PROVE e = f
  <2>1. PICK i \in 1..Len(documents) : \E k \in 1..Len(documents[i].chunks) :
               \E c \in {documents[i].chunks[k]} : e = Entry(documents[i], c, Lexical(c.text))
    BY <1>5
  <2>2. PICK k \in 1..Len(documents[i].chunks) :
               \E c \in {documents[i].chunks[k]} : e = Entry(documents[i], c, Lexical(c.text))
    BY <2>1
  <2>3. PICK j \in 1..Len(documents) : \E l \in 1..Len(documents[j].chunks) :
               \E c \in {documents[j].chunks[l]} : f = Entry(documents[j], c, Lexical(c.text))
    BY <1>5
  <2>4. PICK l \in 1..Len(documents[j].chunks) :
               \E c \in {documents[j].chunks[l]} : f = Entry(documents[j], c, Lexical(c.text))
    BY <2>3
  <2>5. e.chunk = documents[i].chunks[k] /\ f.chunk = documents[j].chunks[l]
    BY <2>2, <2>4, EntryIs
  <2>6. documents[i].chunks[k].chunk_id = documents[j].chunks[l].chunk_id
    BY <1>7, <2>5
  <2>7. i = j /\ k = l
    BY <2>6, IdsName, SMTT(60)
  <2> QED
    BY <2>2, <2>4, <2>7
<1>8. \A e \in E : id[e] = e.chunk.chunk_id /\ IsId(id[e])
  BY <1>6 DEF Counted
<1>9. \A e, f \in E : id[e] = id[f] => e = f
  BY <1>7
<1> HIDE DEF id
<1>10. IsOrder(E, below)
  BY <1>4, <1>8, <1>9, OrderById
<1>11. \A e \in E : below[e] = {f \in E : IdBefore(f.chunk.chunk_id, e.chunk.chunk_id)}
  BY <1>8
<1> HIDE DEF below
<1>12. ASSUME NEW i \in 1..n, NEW x \in E, Cardinality(below[x]) = i - 1
       PROVE  at[i] \in E /\ Cardinality(below[at[i]]) = i - 1
  <2>1. Cardinality({f \in E : IdBefore(f.chunk.chunk_id, x.chunk.chunk_id)}) = i - 1
    BY <1>11, <1>12
  <2>2. at[i] = F(i)
    OBVIOUS
  <2>3. /\ F(i) \in E
        /\ Cardinality({f \in E : IdBefore(f.chunk.chunk_id, F(i).chunk.chunk_id)}) = i - 1
    BY <2>1
  <2> HIDE DEF at, F
  <2> QED
    BY <1>11, <2>2, <2>3
<1> HIDE DEF F
<1>13. at = [i \in 1..n |-> at[i]]
  OBVIOUS
<1> HIDE DEF at
<1>14. PlacesIn(at, E, below)
  BY <1>12, <1>13 DEF PlacesIn
<1>15. /\ Sequence(at) /\ ToSet(at) = E
       /\ \A i, j \in 1..Len(at) : at[i] = at[j] => i = j
  BY <1>10, <1>14, SortedIs
<1>16. \A i \in 1..Len(at) : at[i] \in E
  BY <1>15, SequenceIs
<1>17. s.entries = at
  BY <1>1 DEF SnapshotOf
<1>18. Catalogued(at)
  <2>1. \A i, j \in 1..Len(at) : at[i].chunk.chunk_id = at[j].chunk.chunk_id => i = j
    BY <1>8, <1>9, <1>15, <1>16
  <2> QED
    BY <1>6, <1>15, <1>16, <1>17, <2>1, CountedIsWeighed DEF Catalogued, Shelved
<1>19. \A i \in 1..Len(at) : at[i] = [f \in EntryFields |-> at[i][f]]
  BY <1>6, <1>16
<1>20. s = [f \in IndexFields |-> s[f]] /\ Intact(s)
  BY <1>1 DEF SnapshotOf, IndexFields, Intact
<1> QED
  BY <1>17, <1>18, <1>19, <1>20 DEF IsBuilt, HasFields, Catalogued

=============================================================================
