-------------------------- MODULE Retrieval_proofs --------------------------
(***************************************************************************)
(* What a search promises, for every index, planner and reranker and every  *)
(* number of hops: no branch task is left behind, fusion respects dominance *)
(* and the context is faithful to the hops.                                 *)
(*                                                                         *)
(* NoOrphanBranch needs only the states of the two tasks (IInv).  The other *)
(* two need to know what each hop holds (SearchInv), and what fuse_rrf, the *)
(* merge and the reranker do with any sequences: an ordering by a key has   *)
(* no ties, is total, and is kept by a cut.                                 *)
(***************************************************************************)
EXTENDS Retrieval, FiniteSetTheorems, SequenceTheorems, WellFoundedInduction, TLAPS

(* A task that lives has a hop that waits for it, in gather or in the       *)
(* clean-up; a hop can be fused or given up only when neither lives.        *)
IInv ==
  /\ branch \in [Branches -> {"none", "running", "cancelling", "ok", "failed",
                              "cancelled"}]
  /\ NoOrphanBranch

LEMMA InitIInv == Init => IInv
  BY DEF Init, IInv, NoOrphanBranch, Branches, Live

(* Ending a call leaves no task when there was none left to wait for.       *)
LEMMA EndIsClean ==
  ASSUME IInv, NEW result, End(result),
         \A b \in Branches : branch[b] \notin Live
  PROVE  IInv'
  BY DEF IInv, NoOrphanBranch, End, Live, Branches

LEMMA NextIInv == IInv /\ [Next]_vars => IInv'
<1> SUFFICES ASSUME IInv, [Next]_vars PROVE IInv'
  OBVIOUS
<1> USE DEF IInv
<1>1. ASSUME NEW b \in Branches, BranchReturns(b) \/ BranchFails(b) \/ BranchStops(b)
      PROVE  IInv'
  <2>1. branch[b] \in Live /\ pc' = pc
    BY <1>1 DEF BranchReturns, BranchFails, BranchStops, Live
  <2>2. PICK end \in {"ok", "failed", "cancelled"} :
          branch' = [branch EXCEPT ![b] = end]
    BY <1>1 DEF BranchReturns, BranchFails, BranchStops
  <2> QED
    BY <2>1, <2>2 DEF NoOrphanBranch, Live, Branches
<1>2. CASE Expand
  BY <1>2 DEF Expand, NoOrphanBranch
<1>3. CASE ExpandFails
  <2>1. \A b \in Branches : branch[b] \notin Live
    BY <1>3 DEF ExpandFails, NoOrphanBranch
  <2> QED
    BY <1>3, <2>1, EndIsClean DEF ExpandFails
<1>4. CASE GatherRaises
  BY <1>4 DEF GatherRaises, CancelBranches, NoOrphanBranch, Branches
<1>5. CASE Reap
  BY <1>5, EndIsClean DEF Reap
<1>6. CASE FuseFails
  BY <1>6, EndIsClean DEF FuseFails, BothReturned, Live
<1>7. CASE NextHop
  <2>1. \A b \in Branches : branch[b] \notin Live
    BY <1>7 DEF NextHop, BothReturned, Live
  <2>2. \/ branch' = [b \in Branches |-> "none"]
        \/ \E result : End(result)
    BY <1>7 DEF NextHop
  <2>3. CASE branch' = [b \in Branches |-> "none"]
    BY <2>3 DEF NoOrphanBranch, Live
  <2> QED
    BY <2>1, <2>2, <2>3, EndIsClean
<1>8. CASE Rerank \/ RerankFails
  <2>1. \A b \in Branches : branch[b] \notin Live
    BY <1>8 DEF Rerank, RerankFails, NoOrphanBranch
  <2> QED
    BY <1>8, <2>1, EndIsClean DEF Rerank, RerankFails
<1>12. CASE RetryRerank \/ BackoffEnds
  <2>1. branch' = branch /\ \A b \in Branches : branch[b] \notin Live
    BY <1>12 DEF RetryRerank, BackoffEnds, NoOrphanBranch
  <2> QED
    BY <2>1 DEF NoOrphanBranch
<1>9. CASE CancelCall
  BY <1>9, EndIsClean DEF CancelCall
<1>10. CASE CancelGather
  BY <1>10 DEF CancelGather, CancelBranches, NoOrphanBranch, Branches
<1>11. CASE UNCHANGED vars
  BY <1>11 DEF vars, NoOrphanBranch
<1> QED
  BY <1>1, <1>2, <1>3, <1>4, <1>5, <1>6, <1>7, <1>8, <1>9, <1>10, <1>11, <1>12
     DEF Next, BranchStep, CallStep

(* A branch that fails and a caller that cancels, at any time and also in   *)
(* the middle of the clean-up, never leave a task of the other branch       *)
(* behind (retrieval/hybrid/retriever.py, _branches_concurrent).            *)
THEOREM NoOrphans == Spec => []NoOrphanBranch
<1>1. IInv => NoOrphanBranch
  BY DEF IInv
<1> QED
  BY <1>1, InitIInv, NextIInv, PTL DEF Spec

-----------------------------------------------------------------------------
(* Finite sets in a strict order.                                           *)

(* Least elements, the basis of every induction below.                      *)
LEMMA MinExists ==
  ASSUME NEW S \in SUBSET Nat, S # {}
  PROVE  Min(S) \in S /\ \A y \in S : Min(S) <= y
<1> DEFINE less == {ss \in Nat \X Nat : ss[1] < ss[2]}
<1>1. IsWellFoundedOn(less, Nat)
  BY NatLessThanWellFounded, Zenon DEF OpToRel
<1> HIDE DEF less
<1>2. PICK x \in S : \A y \in S : ~ (<<y, x>> \in less)
  BY <1>1, WFMin
<1>3. \A y \in S : ~ (y < x)
  BY <1>2 DEF less
<1>4. \A y \in S : x <= y
  BY <1>3
<1> QED
  BY <1>4 DEF Min

(* A relation that sorts: irreflexive, transitive and total on S.          *)
StrictOrder(S, R) ==
  /\ R \in SUBSET (S \X S)
  /\ \A x \in S : <<x, x>> \notin R
  /\ \A x, y, z \in S : <<x, y>> \in R /\ <<y, z>> \in R => <<x, z>> \in R
  /\ \A x, y \in S : x # y => <<x, y>> \in R \/ <<y, x>> \in R

Below(S, R, x) == {y \in S : <<y, x>> \in R}

(* In a finite set with a strict order the number of smaller members tells  *)
(* the members apart, grows with them and takes every value.                *)
LEMMA Positions ==
  ASSUME NEW S, IsFiniteSet(S), NEW R, StrictOrder(S, R)
  PROVE  /\ \A x, y \in S : <<x, y>> \in R =>
              Cardinality(Below(S, R, x)) < Cardinality(Below(S, R, y))
         /\ \A i \in 1..Cardinality(S) :
              \E x \in S : Cardinality(Below(S, R, x)) = i - 1
<1> DEFINE n == Cardinality(S)
           p == [x \in S |-> Cardinality(Below(S, R, x)) + 1]
<1>1. n \in Nat
  BY FS_CardinalityType
<1>2. \A x \in S : /\ Below(S, R, x) \in SUBSET S
                   /\ IsFiniteSet(Below(S, R, x))
                   /\ Cardinality(Below(S, R, x)) \in Nat
  BY FS_Subset, FS_CardinalityType DEF Below
<1>3. ASSUME NEW x \in S, NEW y \in S, <<x, y>> \in R
      PROVE  Cardinality(Below(S, R, x)) < Cardinality(Below(S, R, y))
  <2>1. Below(S, R, x) \in SUBSET Below(S, R, y)
    BY <1>3 DEF Below, StrictOrder
  <2>2. Below(S, R, x) # Below(S, R, y)
    BY <1>3 DEF Below, StrictOrder
  <2> QED
    BY <1>2, <2>1, <2>2, FS_Subset
<1>4. ASSUME NEW x \in S PROVE Cardinality(Below(S, R, x)) < n
  <2>1. Below(S, R, x) # S
    BY DEF Below, StrictOrder
  <2> QED
    BY <1>1, <1>2, <2>1, FS_Subset
<1>5. p \in [S -> 1..n]
  BY <1>1, <1>2, <1>4
<1>6. p \in Injection(S, 1..n)
  <2>1. ASSUME NEW x \in S, NEW y \in S, p[x] = p[y] PROVE x = y
    <3>1. Cardinality(Below(S, R, x)) = Cardinality(Below(S, R, y))
      BY <1>2, <2>1
    <3>2. ~ <<x, y>> \in R /\ ~ <<y, x>> \in R
      BY <1>2, <1>3, <3>1
    <3> QED
      BY <3>2 DEF StrictOrder
  <2> QED
    BY <1>5, <2>1 DEF Injection, IsInjective
<1>7. IsFiniteSet(1..n) /\ Cardinality(1..n) = n
  BY <1>1, FS_Interval
<1>8. p \in Surjection(S, 1..n)
  BY <1>6, <1>7, FS_Injection
<1>9. ASSUME NEW i \in 1..n PROVE \E x \in S : Cardinality(Below(S, R, x)) = i - 1
  <2>1. PICK x \in S : p[x] = i
    BY <1>8 DEF Surjection
  <2> QED
    BY <1>2, <2>1
<1> QED
  BY <1>3, <1>9

(* A sequence that lists S in the order R, each member once.               *)
Sorted(s, S, R) ==
  /\ s \in Seq(S)
  /\ \A x \in S : \E i \in 1..Len(s) : s[i] = x
  /\ \A i, j \in 1..Len(s) : i < j => <<s[i], s[j]>> \in R

(* Places that count the smaller members sort the set.                     *)
LEMMA SortedSequence ==
  ASSUME NEW S, IsFiniteSet(S), NEW R, StrictOrder(S, R), NEW s,
         s \in [1..Cardinality(S) -> S],
         \A i \in 1..Cardinality(S) : Cardinality(Below(S, R, s[i])) = i - 1
  PROVE  Sorted(s, S, R)
<1> DEFINE n == Cardinality(S)
<1>1. n \in Nat
  BY FS_CardinalityType
<1>2. s \in Seq(S) /\ Len(s) = n
  BY <1>1
<1>3. ASSUME NEW x \in S, NEW y \in S,
             Cardinality(Below(S, R, x)) = Cardinality(Below(S, R, y))
      PROVE  x = y
  <2>1. Cardinality(Below(S, R, x)) \in Nat /\ Cardinality(Below(S, R, y)) \in Nat
    BY FS_Subset, FS_CardinalityType DEF Below
  <2>2. ~ <<x, y>> \in R /\ ~ <<y, x>> \in R
    BY <1>3, <2>1, Positions
  <2> QED
    BY <2>2 DEF StrictOrder
<1>4. ASSUME NEW x \in S PROVE \E i \in 1..n : s[i] = x
  <2>1. /\ Cardinality(Below(S, R, x)) \in Nat
        /\ Cardinality(Below(S, R, x)) < n
    <3>1. Below(S, R, x) \in SUBSET S /\ Below(S, R, x) # S
      BY DEF Below, StrictOrder
    <3> QED
      BY <1>1, <3>1, FS_Subset, FS_CardinalityType
  <2> DEFINE i == Cardinality(Below(S, R, x)) + 1
  <2>2. i \in 1..n /\ i - 1 = Cardinality(Below(S, R, x))
    BY <1>1, <2>1
  <2> QED
    BY <1>3, <2>2
<1>5. ASSUME NEW i \in 1..n, NEW j \in 1..n, i < j PROVE <<s[i], s[j]>> \in R
  <2>1. s[i] # s[j] /\ ~ <<s[j], s[i]>> \in R
    BY <1>1, <1>5, Positions
  <2> QED
    BY <2>1 DEF StrictOrder
<1> QED
  BY <1>2, <1>4, <1>5 DEF Sorted

-----------------------------------------------------------------------------
(* Fractions.                                                               *)

(* A fraction of the model has a positive denominator.                      *)
Fraction == Nat \X (Nat \ {0})

(* Products of numbers, kept out of the larger arguments.                  *)
LEMMA Times ==
  ASSUME NEW a \in Nat, NEW b \in Nat, NEW c \in Nat
  PROVE  /\ a <= b => a * c <= b * c
         /\ a < b /\ c > 0 => a * c < b * c
         /\ a * c <= b * c /\ c > 0 => a <= b
         /\ a * b \in Nat
         /\ a > 0 /\ b > 0 => a * b > 0
  OBVIOUS

(* A common positive factor does not change a comparison.                  *)
LEMMA TimesOrder ==
  ASSUME NEW a \in Nat, NEW b \in Nat, NEW c \in Nat, NEW d \in Nat
  PROVE  (a * b) * (c * d) = (a * c) * (b * d) /\ a * b = b * a /\ (a * b) * c = (a * c) * b
  OBVIOUS

(* Two fractions are comparable, and only one of them is the greater one.  *)
LEMMA ComparisonIsTotal ==
  ASSUME NEW f \in Fraction, NEW g \in Fraction
  PROVE  /\ Greater(f, g) <=> ~ AtLeast(g, f)
         /\ Greater(f, g) => AtLeast(f, g)
  BY DEF Fraction, Greater, AtLeast

(* Comparing by cross multiplication is transitive.                        *)
LEMMA AtLeastTransitive ==
  ASSUME NEW f \in Fraction, NEW g \in Fraction, NEW h \in Fraction,
         AtLeast(f, g), AtLeast(g, h)
  PROVE  AtLeast(f, h)
<1>1. /\ f[1] \in Nat /\ g[1] \in Nat /\ h[1] \in Nat
      /\ f[2] \in Nat \ {0} /\ g[2] \in Nat \ {0} /\ h[2] \in Nat \ {0}
  BY DEF Fraction
<1>2. g[1] * f[2] <= f[1] * g[2] /\ h[1] * g[2] <= g[1] * h[2]
  BY <1>1 DEF AtLeast
<1>3. (g[1] * f[2]) * h[2] <= (f[1] * g[2]) * h[2]
  BY <1>1, <1>2, Times
<1>4. (h[1] * g[2]) * f[2] <= (g[1] * h[2]) * f[2]
  BY <1>1, <1>2, Times
<1>5. /\ (g[1] * f[2]) * h[2] = (g[1] * h[2]) * f[2]
      /\ (f[1] * g[2]) * h[2] = (f[1] * h[2]) * g[2]
      /\ (h[1] * g[2]) * f[2] = (h[1] * f[2]) * g[2]
  BY <1>1, TimesOrder
<1>6. /\ f[1] * h[2] \in Nat /\ h[1] * f[2] \in Nat
      /\ (f[1] * h[2]) * g[2] \in Nat /\ (g[1] * h[2]) * f[2] \in Nat
      /\ (h[1] * f[2]) * g[2] \in Nat
  BY <1>1
<1>7. (h[1] * f[2]) * g[2] <= (f[1] * h[2]) * g[2]
  BY <1>3, <1>4, <1>5, <1>6
<1>8. h[1] * f[2] <= f[1] * h[2]
  BY <1>1, <1>6, <1>7, Times
<1> QED
  BY <1>6, <1>8 DEF AtLeast

(* The sum of two fractions, as Score computes it.                         *)
FracSum(f, g) == <<f[1] * g[2] + g[1] * f[2], f[2] * g[2]>>

(* Sums of fractions are fractions.                                        *)
LEMMA SumIsFraction ==
  ASSUME NEW f \in Fraction, NEW g \in Fraction
  PROVE  FracSum(f, g) \in Fraction
<1>1. /\ f[1] \in Nat /\ g[1] \in Nat
      /\ f[2] \in Nat /\ g[2] \in Nat /\ f[2] > 0 /\ g[2] > 0
  BY DEF Fraction
<1>2. /\ f[1] * g[2] \in Nat /\ g[1] * f[2] \in Nat
      /\ f[2] * g[2] \in Nat /\ f[2] * g[2] > 0
  BY <1>1, Times
<1> QED
  BY <1>2 DEF Fraction, FracSum

(* Greater summands give a greater sum.                                    *)
LEMMA SumIsMonotone ==
  ASSUME NEW f \in Fraction, NEW g \in Fraction,
         NEW u \in Fraction, NEW v \in Fraction,
         AtLeast(f, u), AtLeast(g, v), Greater(f, u) \/ Greater(g, v)
  PROVE  Greater(FracSum(f, g), FracSum(u, v))
<1>1. /\ f[1] \in Nat /\ g[1] \in Nat /\ u[1] \in Nat /\ v[1] \in Nat
      /\ f[2] \in Nat /\ g[2] \in Nat /\ u[2] \in Nat /\ v[2] \in Nat
      /\ f[2] > 0 /\ g[2] > 0 /\ u[2] > 0 /\ v[2] > 0
  BY DEF Fraction
<1> DEFINE fu == f[1] * u[2]   uf == u[1] * f[2]
           gv == g[1] * v[2]   vg == v[1] * g[2]
           p == g[2] * v[2]    q == f[2] * u[2]
<1>2. /\ fu \in Nat /\ uf \in Nat /\ gv \in Nat /\ vg \in Nat
      /\ p \in Nat /\ q \in Nat /\ p > 0 /\ q > 0
  BY <1>1, Times
<1>3. uf <= fu /\ vg <= gv /\ (uf < fu \/ vg < gv)
  BY <1>1, <1>2 DEF AtLeast, Greater
<1>4. /\ (f[1] * g[2]) * (u[2] * v[2]) = fu * p
      /\ (g[1] * f[2]) * (u[2] * v[2]) = gv * q
      /\ (u[1] * v[2]) * (f[2] * g[2]) = uf * p
      /\ (v[1] * u[2]) * (f[2] * g[2]) = vg * q
  BY <1>1, TimesOrder
<1> DEFINE a == f[1] * g[2]   b == g[1] * f[2]   c == u[2] * v[2]
           d == u[1] * v[2]   e == v[1] * u[2]   h == f[2] * g[2]
<1>5. /\ a \in Nat /\ b \in Nat /\ c \in Nat /\ d \in Nat /\ e \in Nat /\ h \in Nat
  BY <1>1, Times
<1>6. a * c = fu * p /\ b * c = gv * q /\ d * h = uf * p /\ e * h = vg * q
  BY <1>4
<1>7. FracSum(f, g) = <<a + b, h>> /\ FracSum(u, v) = <<d + e, c>>
  BY DEF FracSum
<1> HIDE DEF fu, uf, gv, vg, p, q, a, b, c, d, e, h
<1>8. /\ uf * p <= fu * p /\ vg * q <= gv * q
      /\ uf * p < fu * p \/ vg * q < gv * q
      /\ uf * p \in Nat /\ fu * p \in Nat /\ vg * q \in Nat /\ gv * q \in Nat
  BY <1>2, <1>3, Times
<1>9. (a + b) * c = a * c + b * c /\ (d + e) * h = d * h + e * h
  BY <1>5
<1>10. (a + b) * c > (d + e) * h
  BY <1>6, <1>8, <1>9
<1> QED
  BY <1>7, <1>10 DEF Greater

-----------------------------------------------------------------------------
(* Ranks, scores and the sort key of fuse_rrf.                              *)

(* The rank of a chunk is the first place where it occurs, 0 for none.     *)
LEMMA RankIs ==
  ASSUME NEW H, NEW hits \in Seq(H), NEW ch
  PROVE  /\ Rank(hits, ch) \in Nat
         /\ ch \in ChunksOf(hits) <=> Rank(hits, ch) # 0
         /\ ch \in ChunksOf(hits) =>
              /\ Rank(hits, ch) \in 1..Len(hits)
              /\ hits[Rank(hits, ch)].chunk = ch
         /\ \A i \in 1..Len(hits) : hits[i].chunk = ch => Rank(hits, ch) <= i
<1> DEFINE places == {i \in DOMAIN hits : hits[i].chunk = ch}
<1>1. DOMAIN hits = 1..Len(hits) /\ Len(hits) \in Nat
  BY LenProperties
<1>2. ch \in ChunksOf(hits) <=> places # {}
  BY DEF ChunksOf, ToSet
<1>3. CASE ch \in ChunksOf(hits)
  <2>1. Rank(hits, ch) = Min(places)
    BY <1>3 DEF Rank
  <2>2. places \in SUBSET Nat /\ places # {}
    BY <1>1, <1>2, <1>3
  <2>3. Min(places) \in places /\ \A i \in places : Min(places) <= i
    BY <2>2, MinExists
  <2> QED
    BY <1>1, <1>3, <2>1, <2>3
<1>4. CASE ch \notin ChunksOf(hits)
  <2>1. Rank(hits, ch) = 0
    BY <1>4 DEF Rank
  <2> QED
    BY <1>1, <1>2, <1>4, <2>1
<1> QED
  BY <1>3, <1>4

(* A hit of a branch.                                                       *)
Hit == [chunk : Nat, payload : Payloads]

(* The score of a chunk is the sum of what the two branches contribute.    *)
LEMMA ScoreIs ==
  ASSUME NEW dense \in Seq(Hit), NEW sparse \in Seq(Hit), NEW ch
  PROVE  /\ Contribution(Rank(dense, ch)) \in Fraction
         /\ Contribution(Rank(sparse, ch)) \in Fraction
         /\ Score(dense, sparse, ch) = FracSum(Contribution(Rank(dense, ch)),
                                               Contribution(Rank(sparse, ch)))
         /\ Score(dense, sparse, ch) \in Fraction
<1>1. ASSUME NEW r \in Nat PROVE Contribution(r) \in Fraction
  BY RrfAssumption DEF Contribution, Fraction
<1>2. Rank(dense, ch) \in Nat /\ Rank(sparse, ch) \in Nat
  BY RankIs
<1>3. Score(dense, sparse, ch) = FracSum(Contribution(Rank(dense, ch)),
                                         Contribution(Rank(sparse, ch)))
  BY DEF Score, FracSum
<1> QED
  BY <1>1, <1>2, <1>3, SumIsFraction

(* A better place adds more to a score.                                     *)
LEMMA ContributionIsMonotone ==
  ASSUME NEW hits \in Seq(Hit), NEW a, NEW b
  PROVE  LET f == Contribution(Rank(hits, a))
             g == Contribution(Rank(hits, b))
         IN /\ NotWorse(hits, a, b) => AtLeast(f, g)
            /\ Better(hits, a, b) => Greater(f, g)
<1>1. Rank(hits, a) \in Nat /\ Rank(hits, b) \in Nat
  BY RankIs
<1>2. ASSUME NEW r \in Nat, NEW q \in Nat
      PROVE  /\ r = q => AtLeast(Contribution(r), Contribution(q))
             /\ r > 0 /\ (q = 0 \/ r < q) => Greater(Contribution(r), Contribution(q))
  BY RrfAssumption DEF Contribution, AtLeast, Greater
<1>3. \A r, q \in Nat : Greater(Contribution(r), Contribution(q))
                        => AtLeast(Contribution(r), Contribution(q))
  BY RrfAssumption DEF Contribution, AtLeast, Greater
<1> QED
  BY <1>1, <1>2, <1>3 DEF NotWorse, Better

(* The chunks that fuse_rrf sorts, and its sort key as a relation.         *)
BranchChunks(dense, sparse) == ChunksOf(dense) \cup ChunksOf(sparse)

PrecedesOn(dense, sparse) ==
  {ab \in BranchChunks(dense, sparse) \X BranchChunks(dense, sparse) :
     Precedes(dense, sparse, ab[1], ab[2])}

(* A branch has finitely many chunks.                                      *)
LEMMA ChunksAreFinite ==
  ASSUME NEW H, NEW hits \in Seq(H)
  PROVE  IsFiniteSet(ChunksOf(hits))
<1>1. IsFiniteSet(1..Len(hits))
  BY LenProperties, FS_Interval
<1> DEFINE f == [i \in 1..Len(hits) |-> hits[i].chunk]
<1>2. f \in Surjection(1..Len(hits), ChunksOf(hits))
  BY LenProperties DEF Surjection, ChunksOf, ToSet
<1> QED
  BY <1>1, <1>2, FS_Surjection

(* The ids of the chunks of a branch are numbers.                          *)
LEMMA ChunksAreNumbers ==
  ASSUME NEW hits \in Seq(Hit)
  PROVE  ChunksOf(hits) \subseteq Nat
<1>1. DOMAIN hits = 1..Len(hits) /\ \A i \in 1..Len(hits) : hits[i] \in Hit
  BY LenProperties, ElementOfSeq
<1> QED
  BY <1>1 DEF ChunksOf, ToSet, Hit

(* The best rank is one of the ranks and none is better.                   *)
LEMMA BestRankIs ==
  ASSUME NEW dense \in Seq(Hit), NEW sparse \in Seq(Hit),
         NEW ch \in BranchChunks(dense, sparse)
  PROVE  BestRank(dense, sparse, ch) \in Nat
<1>1. Rank(dense, ch) \in Nat /\ Rank(sparse, ch) \in Nat
  BY RankIs
<1>2. Rank(dense, ch) # 0 \/ Rank(sparse, ch) # 0
  BY RankIs DEF BranchChunks
<1> DEFINE ranks == {Rank(dense, ch), Rank(sparse, ch)} \ {0}
<1>3. ranks \in SUBSET Nat /\ ranks # {}
  BY <1>1, <1>2
<1>4. Min(ranks) \in Nat
  BY <1>3, MinExists
<1> QED
  BY <1>4 DEF BestRank

(* The sort key of fuse_rrf leaves no tie: scores, ranks, then the ids.     *)
LEMMA PrecedesIsStrict ==
  ASSUME NEW dense \in Seq(Hit), NEW sparse \in Seq(Hit)
  PROVE  StrictOrder(BranchChunks(dense, sparse), PrecedesOn(dense, sparse))
<1> DEFINE S == BranchChunks(dense, sparse)
           sc(a) == Score(dense, sparse, a)
           rk(a) == BestRank(dense, sparse, a)
           P(a, b) == Precedes(dense, sparse, a, b)
<1>1. ASSUME NEW a \in S PROVE sc(a) \in Fraction /\ rk(a) \in Nat /\ a \in Nat
  <2>1. a \in Nat
    BY ChunksAreNumbers DEF BranchChunks
  <2> QED
    BY <2>1, ScoreIs, BestRankIs
<1>2. ASSUME NEW a \in S, NEW b \in S
      PROVE  P(a, b) <=> \/ Greater(sc(a), sc(b))
                         \/ AtLeast(sc(a), sc(b)) /\ (rk(a) < rk(b) \/ (rk(a) = rk(b) /\ a < b))
  BY DEF Precedes
<1> HIDE DEF S, sc, rk, P
<1>3. \A a, b \in S : /\ Greater(sc(a), sc(b)) <=> ~ AtLeast(sc(b), sc(a))
                      /\ Greater(sc(a), sc(b)) => AtLeast(sc(a), sc(b))
  BY <1>1, ComparisonIsTotal
<1>4. \A a, b, c \in S : AtLeast(sc(a), sc(b)) /\ AtLeast(sc(b), sc(c)) => AtLeast(sc(a), sc(c))
  BY <1>1, AtLeastTransitive
<1>5. \A a \in S : ~ P(a, a)
  BY <1>1, <1>2, <1>3
<1>6. ASSUME NEW a \in S, NEW b \in S, NEW c \in S, P(a, b), P(b, c) PROVE P(a, c)
  <2>1. AtLeast(sc(a), sc(b)) /\ AtLeast(sc(b), sc(c)) /\ AtLeast(sc(a), sc(c))
    BY <1>2, <1>3, <1>4, <1>6
  <2>2. CASE ~ AtLeast(sc(c), sc(a))
    BY <1>2, <1>3, <2>2
  <2>3. CASE AtLeast(sc(c), sc(a))
    <3>1. AtLeast(sc(b), sc(a)) /\ AtLeast(sc(c), sc(b))
      BY <1>4, <2>1, <2>3
    <3>2. /\ rk(a) < rk(b) \/ (rk(a) = rk(b) /\ a < b)
          /\ rk(b) < rk(c) \/ (rk(b) = rk(c) /\ b < c)
      BY <1>2, <1>3, <1>6, <3>1
    <3>3. rk(a) < rk(c) \/ (rk(a) = rk(c) /\ a < c)
      BY <1>1, <3>2
    <3> QED
      BY <1>2, <2>1, <3>3
  <2> QED
    BY <2>2, <2>3
<1>7. \A a, b \in S : a # b => P(a, b) \/ P(b, a)
  BY <1>1, <1>2, <1>3
<1>8. PrecedesOn(dense, sparse) = {ab \in S \X S : P(ab[1], ab[2])}
  BY DEF PrecedesOn, S, P
<1>9. StrictOrder(S, PrecedesOn(dense, sparse))
  BY <1>5, <1>6, <1>7, <1>8 DEF StrictOrder
<1> QED
  BY <1>9 DEF S

-----------------------------------------------------------------------------
(* fuse_rrf.                                                                *)

(* A cut sequence is the beginning of the sequence.                        *)
LEMMA TruncatedIs ==
  ASSUME NEW T, NEW s \in Seq(T), NEW n \in Nat
  PROVE  /\ Truncated(s, n) \in Seq(T)
         /\ Len(Truncated(s, n)) <= n /\ Len(Truncated(s, n)) <= Len(s)
         /\ \A i \in 1..Len(Truncated(s, n)) : Truncated(s, n)[i] = s[i]
<1>1. Len(s) \in Nat /\ \A i \in 1..Len(s) : s[i] \in T
  BY LenProperties, ElementOfSeq
<1> DEFINE m == Min({n, Len(s)})
<1>2. {n, Len(s)} \in SUBSET Nat /\ {n, Len(s)} # {}
  BY <1>1
<1>3. m \in Nat /\ m <= n /\ m <= Len(s)
  BY <1>2, MinExists
<1> HIDE DEF m
<1>4. \A i \in 1..m : s[i] \in T
  BY <1>1, <1>3
<1>5. /\ SubSeq(s, 1, m) \in Seq(T)
      /\ Len(SubSeq(s, 1, m)) = IF 1 <= m THEN m - 1 + 1 ELSE 0
      /\ \A i \in 1..(m - 1 + 1) : SubSeq(s, 1, m)[i] = s[1 + i - 1]
  BY <1>3, <1>4, SubSeqProperties
<1>6. Truncated(s, n) = SubSeq(s, 1, m)
  BY DEF Truncated, m
<1> QED
  BY <1>3, <1>5, <1>6

(* A hit of the fused response.                                            *)
FusedHit == [chunk : Nat, payload : Payloads, rank : Nat]

(* The payload of a chunk that occurs.                                     *)
LEMMA PayloadIs ==
  ASSUME NEW hits \in Seq(Hit), NEW ch \in ChunksOf(hits)
  PROVE  Payload(hits, ch) \in Payloads
<1>1. hits[Rank(hits, ch)] \in Hit
  BY RankIs, ElementOfSeq
<1> QED
  BY <1>1 DEF Payload, Hit

(* The payload a fused hit carries.                                        *)
Canonical(dense, sparse, ch) ==
  IF ch \in ChunksOf(dense) THEN Payload(dense, ch) ELSE Payload(sparse, ch)

(* The fused hits are the best chunks of both branches in the order of the  *)
(* sort key: what precedes a hit that was kept was kept before it.          *)
LEMMA FuseIs ==
  ASSUME NEW dense \in Seq(Hit), NEW sparse \in Seq(Hit), NEW topK \in Nat,
         NEW fused, fused = Fuse(dense, sparse, topK)
  PROVE  /\ fused \in Seq(FusedHit)
         /\ \A i \in 1..Len(fused) :
              /\ fused[i].chunk \in BranchChunks(dense, sparse)
              /\ fused[i].payload = Canonical(dense, sparse, fused[i].chunk)
         /\ \A j \in 1..Len(fused), a \in BranchChunks(dense, sparse) :
              Precedes(dense, sparse, a, fused[j].chunk)
                => \E i \in 1..(j - 1) : fused[i].chunk = a
<1> DEFINE S == BranchChunks(dense, sparse)
           R == PrecedesOn(dense, sparse)
           pos(x) == Cardinality({y \in S : Precedes(dense, sparse, y, x)})
           order == Ordered(S, LAMBDA a, b : Precedes(dense, sparse, a, b))
           Kept(i) == [chunk |-> order[i], payload |-> Canonical(dense, sparse, order[i]),
                       rank |-> i]
           hits == [i \in DOMAIN order |-> Kept(i)]
<1>1. IsFiniteSet(S)
  BY ChunksAreFinite, FS_Union DEF BranchChunks
<1>2. StrictOrder(S, R)
  BY PrecedesIsStrict
<1>3. \A x \in S : pos(x) = Cardinality(Below(S, R, x))
  <2>1. \A x \in S : {y \in S : Precedes(dense, sparse, y, x)} = Below(S, R, x)
    BY DEF Below, PrecedesOn
  <2> QED
    BY <2>1
<1>4. order = [i \in 1..Cardinality(S) |-> CHOOSE x \in S : pos(x) = i - 1]
  BY Zenon DEF Ordered
<1>5. fused = Truncated(hits, topK)
  BY DEF Fuse, BranchChunks, Canonical
<1>6. \A a, b \in S : <<a, b>> \in R <=> Precedes(dense, sparse, a, b)
  BY DEF PrecedesOn
<1>7. \A ch \in S : ch \in Nat /\ Canonical(dense, sparse, ch) \in Payloads
  BY ChunksAreNumbers, PayloadIs DEF BranchChunks, Canonical
<1> HIDE DEF order, pos, S, R
<1>8. /\ order \in [1..Cardinality(S) -> S]
      /\ \A i \in 1..Cardinality(S) : Cardinality(Below(S, R, order[i])) = i - 1
  <2>1. ASSUME NEW i \in 1..Cardinality(S)
        PROVE  order[i] \in S /\ Cardinality(Below(S, R, order[i])) = i - 1
    <3>1. \E x \in S : Cardinality(Below(S, R, x)) = i - 1
      BY <1>1, <1>2, Positions
    <3>2. \E x \in S : pos(x) = i - 1
      BY <1>3, <3>1
    <3>3. order[i] = CHOOSE x \in S : pos(x) = i - 1
      BY <1>4
    <3>4. order[i] \in S /\ pos(order[i]) = i - 1
      BY <3>2, <3>3
    <3> QED
      BY <1>3, <3>4
  <2> QED
    BY <1>4, <2>1
<1>9. /\ order \in Seq(S)
      /\ \A x \in S : \E i \in 1..Len(order) : order[i] = x
      /\ \A i, j \in 1..Len(order) : i < j => <<order[i], order[j]>> \in R
  <2>1. Sorted(order, S, R)
    BY <1>1, <1>2, <1>8, SortedSequence
  <2> QED
    BY <2>1 DEF Sorted
<1>10. /\ Len(order) \in Nat /\ DOMAIN order = 1..Len(order)
       /\ \A i \in 1..Len(order) : order[i] \in S
  BY <1>9, LenProperties, ElementOfSeq
<1>11. hits \in Seq(FusedHit) /\ Len(hits) = Len(order)
  BY <1>7, <1>10 DEF FusedHit
<1>12. \A i \in 1..Len(order) : hits[i] = Kept(i)
  BY <1>10
<1> HIDE DEF hits
<1>13. /\ fused \in Seq(FusedHit) /\ Len(fused) \in Nat /\ Len(fused) <= Len(order)
       /\ \A i \in 1..Len(fused) : i \in 1..Len(order) /\ fused[i] = Kept(i)
  <2>1. /\ fused \in Seq(FusedHit) /\ Len(fused) <= Len(order)
        /\ \A i \in 1..Len(fused) : fused[i] = hits[i]
    BY <1>5, <1>11, TruncatedIs
  <2>2. Len(fused) \in Nat
    BY <2>1, LenProperties
  <2> QED
    BY <1>10, <1>12, <2>1, <2>2
<1>15. \A i \in 1..Len(fused) :
         /\ i \in 1..Len(order) /\ order[i] \in S /\ fused[i].chunk = order[i]
         /\ fused[i].payload = Canonical(dense, sparse, order[i])
  <2>1. ASSUME NEW i \in 1..Len(fused)
        PROVE  /\ i \in 1..Len(order) /\ order[i] \in S /\ fused[i].chunk = order[i]
               /\ fused[i].payload = Canonical(dense, sparse, order[i])
    <3>1. i \in 1..Len(order) /\ fused[i] = Kept(i)
      BY <1>13
    <3> QED
      BY <1>10, <3>1
  <2> QED
    BY <2>1
<1>14. ASSUME NEW j \in 1..Len(fused), NEW a \in S,
              Precedes(dense, sparse, a, fused[j].chunk)
       PROVE  \E i \in 1..(j - 1) : fused[i].chunk = a
  <2>1. j \in 1..Len(order) /\ order[j] \in S /\ fused[j].chunk = order[j]
    BY <1>15
  <2>2. <<a, order[j]>> \in R
    BY <1>14, <1>6, <2>1
  <2>3. PICK i \in 1..Len(order) : order[i] = a
    BY <1>9
  <2>4. ~ <<order[j], a>> \in R /\ a # order[j]
    BY <1>2, <2>1, <2>2 DEF StrictOrder
  <2>5. i < j
    BY <1>9, <1>10, <2>1, <2>3, <2>4
  <2>6. i \in 1..Len(fused) /\ i \in 1..(j - 1)
    BY <1>13, <2>5
  <2> QED
    BY <1>15, <2>3, <2>6
<1> QED
  BY <1>13, <1>14, <1>15 DEF S

(* A chunk both branches prefer is fused in front of the other.            *)
LEMMA FusionDominates ==
  ASSUME NEW dense \in Seq(Hit), NEW sparse \in Seq(Hit), NEW topK \in Nat,
         NEW fused, fused = Fuse(dense, sparse, topK),
         NEW a \in BranchChunks(dense, sparse), NEW b \in ChunksOf(fused),
         NotWorse(dense, a, b), NotWorse(sparse, a, b),
         Better(dense, a, b) \/ Better(sparse, a, b)
  PROVE  Rank(fused, a) > 0 /\ Rank(fused, a) < Rank(fused, b)
<1>1. fused \in Seq(FusedHit)
  BY FuseIs
<1> DEFINE j == Rank(fused, b)
<1>2. j \in 1..Len(fused) /\ fused[j].chunk = b
  BY <1>1, RankIs
<1> HIDE DEF j
<1>3. Greater(Score(dense, sparse, a), Score(dense, sparse, b))
  BY ScoreIs, ContributionIsMonotone, SumIsMonotone
<1>4. Precedes(dense, sparse, a, b)
  BY <1>3 DEF Precedes
<1>5. PICK i \in 1..(j - 1) : fused[i].chunk = a
  BY <1>2, <1>4, FuseIs
<1>6. i \in 1..Len(fused) /\ i < j /\ Len(fused) \in Nat
  BY <1>1, <1>2, <1>5, LenProperties
<1>7. Rank(fused, a) \in Nat /\ Rank(fused, a) <= i
  BY <1>1, <1>5, <1>6, RankIs
<1>8. Rank(fused, a) # 0
  <2>1. a \in ChunksOf(fused)
    BY <1>1, <1>5, <1>6, LenProperties DEF ChunksOf, ToSet
  <2> QED
    BY <1>1, <2>1, RankIs
<1> QED
  BY <1>2, <1>6, <1>7, <1>8 DEF j

-----------------------------------------------------------------------------
(* FlattenSeq.                                                              *)

(* g is FlattenSeq step by step, up to the m-th sequence.                  *)
Joins(g, ss, m) ==
  \A i \in 1..m : g[i] = IF i = 1 THEN ss[i] ELSE g[i - 1] \o ss[i]

(* What a concatenation holds.                                             *)
LEMMA ToSetOfConcat ==
  ASSUME NEW T, NEW s \in Seq(T), NEW t \in Seq(T)
  PROVE  s \o t \in Seq(T) /\ ToSet(s \o t) = ToSet(s) \cup ToSet(t)
<1>1. /\ s \o t \in Seq(T) /\ Len(s \o t) = Len(s) + Len(t)
      /\ \A i \in 1..(Len(s) + Len(t)) : (s \o t)[i] = IF i <= Len(s) THEN s[i] ELSE t[i - Len(s)]
  BY ConcatProperties
<1>2. /\ DOMAIN s = 1..Len(s) /\ DOMAIN t = 1..Len(t) /\ DOMAIN (s \o t) = 1..(Len(s) + Len(t))
      /\ Len(s) \in Nat /\ Len(t) \in Nat
  BY <1>1, LenProperties
<1>3. ASSUME NEW x \in ToSet(s) PROVE x \in ToSet(s \o t)
  <2>1. PICK i \in 1..Len(s) : s[i] = x
    BY <1>2 DEF ToSet
  <2>2. i \in 1..(Len(s) + Len(t)) /\ (s \o t)[i] = x
    BY <1>1, <1>2, <2>1
  <2> QED
    BY <1>2, <2>2 DEF ToSet
<1>4. ASSUME NEW x \in ToSet(t) PROVE x \in ToSet(s \o t)
  <2>1. PICK i \in 1..Len(t) : t[i] = x
    BY <1>2 DEF ToSet
  <2> DEFINE j == Len(s) + i
  <2>2. j \in 1..(Len(s) + Len(t)) /\ ~ (j <= Len(s)) /\ j - Len(s) = i
    BY <1>2
  <2>3. (s \o t)[j] = x
    BY <1>1, <2>1, <2>2
  <2> QED
    BY <1>2, <2>2, <2>3 DEF ToSet
<1>5. ASSUME NEW x \in ToSet(s \o t) PROVE x \in ToSet(s) \cup ToSet(t)
  <2>1. PICK i \in 1..(Len(s) + Len(t)) : (s \o t)[i] = x
    BY <1>2 DEF ToSet
  <2>2. CASE i <= Len(s)
    BY <1>1, <1>2, <2>1, <2>2 DEF ToSet
  <2>3. CASE ~ (i <= Len(s))
    <3>1. i - Len(s) \in 1..Len(t) /\ t[i - Len(s)] = x
      BY <1>1, <1>2, <2>1, <2>3
    <3> QED
      BY <1>2, <3>1 DEF ToSet
  <2> QED
    BY <2>2, <2>3
<1> QED
  BY <1>1, <1>3, <1>4, <1>5

(* The recursion of FlattenSeq has a value at every length.                *)
LEMMA JoinExists ==
  ASSUME NEW T, NEW ss \in Seq(Seq(T)), NEW n \in 1..Len(ss)
  PROVE  \E g \in [1..n -> Seq(T)] : Joins(g, ss, n)
<1> DEFINE Bad == {m \in 1..Len(ss) : ~ \E g \in [1..m -> Seq(T)] : Joins(g, ss, m)}
<1>1. Len(ss) \in Nat /\ \A i \in 1..Len(ss) : ss[i] \in Seq(T)
  BY LenProperties, ElementOfSeq
<1>2. ASSUME Bad # {} PROVE FALSE
  <2> DEFINE m == Min(Bad)
  <2>1. Bad \in SUBSET Nat
    BY <1>1
  <2>2. m \in Bad /\ \A k \in Bad : m <= k
    BY <1>2, <2>1, MinExists
  <2>3. m \in 1..Len(ss) /\ ~ \E g \in [1..m -> Seq(T)] : Joins(g, ss, m)
    BY <2>2
  <2> HIDE DEF m
  <2>4. CASE m = 1
    <3> DEFINE g == [i \in 1..1 |-> ss[1]]
    <3>1. g \in [1..m -> Seq(T)] /\ Joins(g, ss, m)
      BY <1>1, <2>3, <2>4 DEF Joins
    <3> QED
      BY <2>3, <3>1
  <2>5. CASE m > 1
    <3>0. m \in Int /\ m - 1 \in 1..Len(ss) /\ m - 1 \in 1..m /\ m \in 1..m
      BY <1>1, <2>3, <2>5
    <3>1. ~ (m - 1 \in Bad)
      <4> HIDE DEF Bad
      <4> QED
        BY <2>2, <3>0
    <3>2. PICK g \in [1..(m - 1) -> Seq(T)] : Joins(g, ss, m - 1)
      BY <3>0, <3>1
    <3> DEFINE h == [i \in 1..m |-> IF i = m THEN g[m - 1] \o ss[m] ELSE g[i]]
    <3>3. g[m - 1] \o ss[m] \in Seq(T)
      BY <1>1, <2>3, <3>0, <3>2, ConcatProperties
    <3>4. h \in [1..m -> Seq(T)]
      BY <2>3, <3>2, <3>3
    <3>5. ASSUME NEW i \in 1..m PROVE h[i] = IF i = 1 THEN ss[i] ELSE h[i - 1] \o ss[i]
      <4>1. CASE i = m
        <5>1. h[m] = g[m - 1] \o ss[m]
          BY <3>0
        <5>2. h[m - 1] = g[m - 1]
          BY <3>0
        <5> HIDE DEF h
        <5>3. h[i] = h[i - 1] \o ss[i]
          BY <4>1, <5>1, <5>2
        <5>4. i # 1
          BY <2>5, <3>0, <4>1
        <5> QED
          BY <5>3, <5>4
      <4>2. CASE i # m
        <5>1. i \in 1..(m - 1) /\ h[i] = g[i]
          BY <2>3, <4>2
        <5>2. i # 1 => h[i - 1] = g[i - 1]
          BY <2>3, <4>2
        <5> QED
          BY <3>2, <5>1, <5>2 DEF Joins
      <4> QED
        BY <4>1, <4>2
    <3>6. Joins(h, ss, m)
      BY <3>5 DEF Joins
    <3> QED
      BY <2>3, <3>4, <3>6
  <2> QED
    BY <1>1, <2>3, <2>4, <2>5
<1> QED
  BY <1>2

(* FlattenSeq holds what its sequences hold.                               *)
LEMMA FlattenIs ==
  ASSUME NEW T, NEW ss \in Seq(Seq(T))
  PROVE  /\ FlattenSeq(ss) \in Seq(T)
         /\ \A x : x \in ToSet(FlattenSeq(ss))
                   <=> \E i \in 1..Len(ss) : x \in ToSet(ss[i])
<1>1. Len(ss) \in Nat /\ \A i \in 1..Len(ss) : ss[i] \in Seq(T)
  BY LenProperties, ElementOfSeq
<1>2. CASE Len(ss) = 0
  <2>1. ss = <<>> /\ FlattenSeq(ss) = ss
    BY <1>2, EmptySeq DEF FlattenSeq
  <2>2. ToSet(ss) = {} /\ ss \in Seq(T)
    BY <2>1 DEF ToSet
  <2>3. 1..Len(ss) = {}
    BY <1>2
  <2>4. FlattenSeq(ss) = ss
    BY <2>1
  <2> QED
    BY <2>2, <2>3, <2>4
<1>3. CASE Len(ss) # 0
  <2> DEFINE n == Len(ss)
             Eq(f) == f = [i \in 1..n |-> IF i = 1 THEN ss[i] ELSE f[i - 1] \o ss[i]]
             flatten == CHOOSE f : Eq(f)
  <2>1. FlattenSeq(ss) = flatten[n]
    BY <1>3, Zenon DEF FlattenSeq
  <2>2. n \in 1..n
    BY <1>1, <1>3
  <2>3. \E f : Eq(f)
    <3>1. PICK g \in [1..n -> Seq(T)] : Joins(g, ss, n)
      BY <2>2, JoinExists
    <3>2. Eq(g)
      BY <3>1 DEF Joins
    <3> QED
      BY <3>2
  <2>4. Eq(flatten)
    BY <2>3
  <2>5. \A i \in 1..n : flatten[i] = IF i = 1 THEN ss[i] ELSE flatten[i - 1] \o ss[i]
    BY <2>4
  <2> HIDE DEF flatten
  <2> DEFINE Right(i) == /\ flatten[i] \in Seq(T)
                         /\ \A x : x \in ToSet(flatten[i])
                                   <=> \E j \in 1..i : x \in ToSet(ss[j])
             Bad == {i \in 1..n : ~ Right(i)}
  <2>6. ASSUME Bad # {} PROVE FALSE
    <3> DEFINE m == Min(Bad)
    <3>1. Bad \in SUBSET Nat
      BY <1>1
    <3> HIDE DEF Right
    <3>2. m \in Bad /\ \A k \in Bad : m <= k
      BY <2>6, <3>1, MinExists
    <3>3. m \in 1..n /\ ~ Right(m)
      BY <3>2
    <3> HIDE DEF m
    <3>4. m # 1
      <4>1. 1 \in 1..n /\ flatten[1] = ss[1]
        BY <1>1, <1>3, <2>5
      <4>2. Right(1)
        BY <1>1, <4>1 DEF Right
      <4> QED
        BY <3>3, <4>2
    <3>5. m - 1 \in 1..n /\ Right(m - 1)
      BY <1>1, <3>2, <3>3, <3>4
    <3>6. flatten[m] = flatten[m - 1] \o ss[m]
      BY <2>5, <3>3, <3>4
    <3>7. /\ flatten[m] \in Seq(T)
          /\ ToSet(flatten[m]) = ToSet(flatten[m - 1]) \cup ToSet(ss[m])
      BY <1>1, <3>3, <3>5, <3>6, ToSetOfConcat DEF Right
    <3>8. \A j : j \in 1..m <=> j \in 1..(m - 1) \/ j = m
      BY <3>3
    <3>9. Right(m)
      BY <3>5, <3>7, <3>8 DEF Right
    <3> QED
      BY <3>3, <3>9
  <2>7. Right(n)
    BY <2>2, <2>6
  <2> QED
    BY <2>1, <2>7
<1> QED
  BY <1>2, <1>3

-----------------------------------------------------------------------------
(* Merging the hops.                                                        *)

(* Places of a sequence listed in their own order.                         *)
LEMMA IndexOrder ==
  ASSUME NEW n \in Nat, NEW F \in SUBSET (1..n)
  PROVE  Sorted(Ordered(F, <), F, {ij \in F \X F : ij[1] < ij[2]})
<1> DEFINE R == {ij \in F \X F : ij[1] < ij[2]}
           pos(x) == Cardinality({y \in F : y < x})
           order == Ordered(F, <)
<1>1. IsFiniteSet(F)
  <2>1. IsFiniteSet(1..n)
    BY FS_Interval
  <2> QED
    BY <2>1, FS_Subset
<1>2. StrictOrder(F, R)
  BY DEF StrictOrder
<1>3. \A x \in F : pos(x) = Cardinality(Below(F, R, x))
  <2>1. \A x \in F : {y \in F : y < x} = Below(F, R, x)
    BY DEF Below
  <2> QED
    BY <2>1
<1>4. order = [i \in 1..Cardinality(F) |-> CHOOSE x \in F : pos(x) = i - 1]
  BY Zenon DEF Ordered
<1> HIDE DEF order, pos, R
<1>5. ASSUME NEW i \in 1..Cardinality(F)
      PROVE  order[i] \in F /\ Cardinality(Below(F, R, order[i])) = i - 1
  <2>1. \E x \in F : Cardinality(Below(F, R, x)) = i - 1
    BY <1>1, <1>2, Positions
  <2>2. \E x \in F : pos(x) = i - 1
    BY <1>3, <2>1
  <2>3. order[i] = CHOOSE x \in F : pos(x) = i - 1
    BY <1>4
  <2>4. order[i] \in F /\ pos(order[i]) = i - 1
    BY <2>2, <2>3
  <2> QED
    BY <1>3, <2>4
<1>6. order \in [1..Cardinality(F) -> F]
  BY <1>4, <1>5
<1>7. Sorted(order, F, R)
  BY <1>1, <1>2, <1>5, <1>6, SortedSequence
<1> QED
  BY <1>7 DEF order, R

(* _merge_candidates keeps the first hit of every chunk.                    *)
LEMMA FirstHits ==
  ASSUME NEW s \in Seq(FusedHit), NEW d, d = Distinct(s, LAMBDA h : h.chunk)
  PROVE  /\ d \in Seq(FusedHit) /\ ToSet(d) \subseteq ToSet(s)
         /\ \A i, j \in 1..Len(d) : d[i].chunk = d[j].chunk => i = j
<1> DEFINE F == {i \in DOMAIN s : \A j \in 1..(i - 1) : s[j].chunk # s[i].chunk}
           order == Ordered(F, <)
<1>1. Len(s) \in Nat /\ DOMAIN s = 1..Len(s) /\ \A i \in 1..Len(s) : s[i] \in FusedHit
  BY LenProperties, ElementOfSeq
<1>2. Sorted(order, F, {ij \in F \X F : ij[1] < ij[2]})
  BY <1>1, IndexOrder
<1>3. d = [n \in DOMAIN order |-> s[order[n]]]
  BY DEF Distinct
<1>4. \A i, j \in F : s[i].chunk = s[j].chunk => i = j
  BY <1>1
<1>5. F \subseteq 1..Len(s)
  BY <1>1
<1> HIDE DEF order, F
<1>6. /\ order \in Seq(F) /\ Len(order) \in Nat /\ DOMAIN order = 1..Len(order)
      /\ \A i \in 1..Len(order) : order[i] \in F
      /\ \A i, j \in 1..Len(order) : i < j => order[i] < order[j]
  BY <1>2, LenProperties, ElementOfSeq DEF Sorted
<1>7. \A i \in 1..Len(order) : s[order[i]] \in FusedHit
  BY <1>1, <1>5, <1>6
<1>8. d \in Seq(FusedHit) /\ Len(d) = Len(order) /\ \A i \in 1..Len(d) : d[i] = s[order[i]]
  BY <1>3, <1>6, <1>7
<1>9. ToSet(d) \subseteq ToSet(s)
  <2>1. DOMAIN d = 1..Len(d)
    BY <1>8, LenProperties
  <2>2. \A i \in 1..Len(d) : order[i] \in DOMAIN s /\ d[i] = s[order[i]]
    BY <1>1, <1>5, <1>6, <1>8
  <2>3. ASSUME NEW x \in ToSet(d) PROVE x \in ToSet(s)
    <3>1. PICK i \in 1..Len(d) : d[i] = x
      BY <2>1 DEF ToSet
    <3>2. order[i] \in DOMAIN s /\ s[order[i]] = x
      BY <2>2, <3>1
    <3> QED
      BY <3>2 DEF ToSet
  <2> QED
    BY <2>3
<1>10. ASSUME NEW i \in 1..Len(d), NEW j \in 1..Len(d), d[i].chunk = d[j].chunk
       PROVE  i = j
  <2>1. order[i] = order[j] /\ order[i] \in Int
    BY <1>4, <1>5, <1>6, <1>8, <1>10
  <2> QED
    BY <1>6, <1>8, <2>1
<1> QED
  BY <1>8, <1>9, <1>10

(* derive_queries: what is left of the references are references.          *)
LEMMA FirstReferences ==
  ASSUME NEW T, NEW s \in Seq(T)
  PROVE  Distinct(s, LAMBDA r : r) \in Seq(T)
<1> DEFINE F == {i \in DOMAIN s : \A j \in 1..(i - 1) : s[j] # s[i]}
           order == Ordered(F, <)
<1>1. Len(s) \in Nat /\ DOMAIN s = 1..Len(s) /\ \A i \in 1..Len(s) : s[i] \in T
  BY LenProperties, ElementOfSeq
<1>2. F \subseteq 1..Len(s)
  BY <1>1
<1>3. order \in Seq(F)
  BY <1>1, <1>2, IndexOrder DEF Sorted
<1>4. Distinct(s, LAMBDA r : r) = [n \in DOMAIN order |-> s[order[n]]]
  BY DEF Distinct
<1> HIDE DEF order, F
<1>5. Len(order) \in Nat /\ DOMAIN order = 1..Len(order) /\ \A i \in 1..Len(order) : order[i] \in F
  BY <1>3, LenProperties, ElementOfSeq
<1>6. \A i \in 1..Len(order) : s[order[i]] \in T
  BY <1>1, <1>2, <1>5
<1> QED
  BY <1>4, <1>5, <1>6

(* The hits of all hops, and the candidates of the reranker.                *)
LEMMA MergeIs ==
  ASSUME NEW hs, NEW n \in Nat, hs \in [1..n -> [dense : Seq(Hit), sparse : Seq(Hit), fused : Seq(FusedHit)]]
  PROVE  /\ AllHits(hs) \in Seq(FusedHit)
         /\ \A x : x \in ToSet(AllHits(hs)) <=> \E i \in 1..n : x \in ToSet(hs[i].fused)
         /\ Merge(hs) \in Seq(FusedHit)
         /\ ToSet(Merge(hs)) \subseteq ToSet(AllHits(hs))
         /\ \A i, j \in 1..Len(Merge(hs)) :
              Merge(hs)[i].chunk = Merge(hs)[j].chunk => i = j
<1> DEFINE ss == [i \in DOMAIN hs |-> hs[i].fused]
           d == Distinct(AllHits(hs), LAMBDA h : h.chunk)
<1>1. ss \in Seq(Seq(FusedHit)) /\ Len(ss) = n /\ \A i \in 1..n : ss[i] = hs[i].fused
  OBVIOUS
<1>2. AllHits(hs) = FlattenSeq(ss)
  BY DEF AllHits
<1> HIDE DEF ss
<1>3. /\ AllHits(hs) \in Seq(FusedHit)
      /\ \A x : x \in ToSet(AllHits(hs)) <=> \E i \in 1..n : x \in ToSet(hs[i].fused)
  BY <1>1, <1>2, FlattenIs
<1>4. /\ d \in Seq(FusedHit) /\ ToSet(d) \subseteq ToSet(AllHits(hs))
      /\ \A i, j \in 1..Len(d) : d[i].chunk = d[j].chunk => i = j
  BY <1>3, FirstHits
<1>5. Merge(hs) = Truncated(d, MaxMerged) /\ MaxMerged \in Nat
  BY BudgetAssumption DEF Merge
<1> HIDE DEF d
<1> DEFINE m == Merge(hs)
<1>6. /\ m \in Seq(FusedHit) /\ Len(m) <= Len(d)
      /\ \A i \in 1..Len(m) : m[i] = d[i]
  BY <1>4, <1>5, TruncatedIs
<1>7. /\ Len(m) \in Nat /\ Len(d) \in Nat /\ DOMAIN m = 1..Len(m) /\ DOMAIN d = 1..Len(d)
  BY <1>4, <1>6, LenProperties
<1> HIDE DEF m
<1>8. \A i \in 1..Len(m) : i \in 1..Len(d) /\ m[i] = d[i]
  BY <1>6, <1>7
<1>9. ToSet(m) \subseteq ToSet(AllHits(hs))
  BY <1>4, <1>7, <1>8 DEF ToSet
<1>10. \A i, j \in 1..Len(m) : m[i].chunk = m[j].chunk => i = j
  BY <1>4, <1>8
<1> QED
  BY <1>3, <1>6, <1>9, <1>10 DEF m

-----------------------------------------------------------------------------
(* Reranking.                                                               *)

(* A score in an answer of the reranker.                                   *)
ScoreItem == [index : Nat \ {0}, score : Int]

(* RerankingEngine.rerank: accepted scores give distinct candidates in the  *)
(* order of the scores.                                                     *)
LEMMA RerankedIs ==
  ASSUME NEW scores \in Seq(ScoreItem), NEW cands \in Seq(FusedHit),
         \A i, j \in 1..Len(cands) : cands[i].chunk = cands[j].chunk => i = j,
         Acceptable(scores, cands),
         NEW ctx, ctx = Reranked(scores, cands)
  PROVE  /\ Len(ctx) \in Nat /\ Len(ctx) <= FinalTopN /\ DOMAIN ctx = 1..Len(ctx)
         /\ \A i \in 1..Len(ctx) : ctx[i].hit \in ToSet(cands)
         /\ \A i, j \in 1..Len(ctx) :
              i < j => ctx[i].hit.chunk # ctx[j].hit.chunk /\ ctx[i].score >= ctx[j].score
<1> DEFINE S == {[hit |-> cands[t.index], score |-> t.score] : t \in ToSet(scores)}
           before(a, b) ==
             \/ a.score > b.score
             \/ /\ a.score = b.score
                /\ \/ a.hit.rank < b.hit.rank
                   \/ a.hit.rank = b.hit.rank /\ a.hit.chunk < b.hit.chunk
           R == {ab \in S \X S : before(ab[1], ab[2])}
           pos(x) == Cardinality({y \in S : before(y, x)})
           order == Ordered(S, before)
<1>1. /\ Len(scores) \in Nat /\ DOMAIN scores = 1..Len(scores)
      /\ \A i \in 1..Len(scores) : scores[i] \in ScoreItem
      /\ Len(cands) \in Nat /\ DOMAIN cands = 1..Len(cands)
      /\ \A i \in 1..Len(cands) : cands[i] \in FusedHit
  BY LenProperties, ElementOfSeq
<1>2. \A t \in ToSet(scores) :
        /\ t \in ScoreItem /\ t.index \in 1..Len(cands) /\ t.score \in Int
        /\ cands[t.index] \in FusedHit /\ cands[t.index] \in ToSet(cands)
  BY <1>1 DEF ToSet, Acceptable, ScoreItem
<1>3. \A t, u \in ToSet(scores) : t.index = u.index => t = u
  BY <1>1 DEF ToSet, Acceptable
<1>4. ASSUME NEW a \in S
      PROVE  /\ a.score \in Int /\ a.hit \in ToSet(cands)
             /\ a.hit.rank \in Nat /\ a.hit.chunk \in Nat
  <2>1. PICK t \in ToSet(scores) : a = [hit |-> cands[t.index], score |-> t.score]
    OBVIOUS
  <2> QED
    BY <1>2, <2>1 DEF FusedHit
<1>5. ASSUME NEW a \in S, NEW b \in S, a.hit.chunk = b.hit.chunk PROVE a = b
  <2>1. PICK t \in ToSet(scores) : a = [hit |-> cands[t.index], score |-> t.score]
    OBVIOUS
  <2>2. PICK u \in ToSet(scores) : b = [hit |-> cands[u.index], score |-> u.score]
    OBVIOUS
  <2>3. t.index = u.index
    BY <1>2, <1>5, <2>1, <2>2
  <2> QED
    BY <1>3, <2>1, <2>2, <2>3
<1>6. IsFiniteSet(S)
  <2>1. IsFiniteSet(1..Len(scores))
    BY <1>1, FS_Interval
  <2> DEFINE f == [i \in 1..Len(scores) |->
                     [hit |-> cands[scores[i].index], score |-> scores[i].score]]
  <2>2. f \in Surjection(1..Len(scores), S)
    BY <1>1 DEF Surjection, ToSet
  <2> QED
    BY <2>1, <2>2, FS_Surjection
<1>7. Reranked(scores, cands) = Truncated(order, FinalTopN)
  BY Zenon DEF Reranked
<1>8. order = [i \in 1..Cardinality(S) |-> CHOOSE x \in S : pos(x) = i - 1]
  BY Zenon DEF Ordered
<1> HIDE DEF S
<1>9. StrictOrder(S, R)
  <2>1. \A x \in S : ~ before(x, x)
    BY <1>4
  <2>2. \A x, y, z \in S : before(x, y) /\ before(y, z) => before(x, z)
    BY <1>4
  <2>3. \A x, y \in S : x # y => before(x, y) \/ before(y, x)
    BY <1>4, <1>5
  <2> QED
    BY <2>1, <2>2, <2>3 DEF StrictOrder
<1>10. \A x \in S : pos(x) = Cardinality(Below(S, R, x))
  <2>1. \A x \in S : {y \in S : before(y, x)} = Below(S, R, x)
    BY DEF Below
  <2> QED
    BY <2>1
<1>11. \A a, b \in S : <<a, b>> \in R => a # b /\ a.score >= b.score
  BY <1>4
<1> HIDE DEF order, pos, R
<1>12. ASSUME NEW i \in 1..Cardinality(S)
       PROVE  order[i] \in S /\ Cardinality(Below(S, R, order[i])) = i - 1
  <2>1. \E x \in S : Cardinality(Below(S, R, x)) = i - 1
    BY <1>6, <1>9, Positions
  <2>2. \E x \in S : pos(x) = i - 1
    BY <1>10, <2>1
  <2>3. order[i] = CHOOSE x \in S : pos(x) = i - 1
    BY <1>8
  <2>4. order[i] \in S /\ pos(order[i]) = i - 1
    BY <2>2, <2>3
  <2> QED
    BY <1>10, <2>4
<1>13. order \in [1..Cardinality(S) -> S]
  BY <1>8, <1>12
<1>14. Sorted(order, S, R)
  BY <1>6, <1>9, <1>12, <1>13, SortedSequence
<1>15. /\ order \in Seq(S) /\ Len(order) \in Nat
       /\ \A i, j \in 1..Len(order) : i < j => <<order[i], order[j]>> \in R
  BY <1>14, LenProperties DEF Sorted
<1>16. FinalTopN \in Nat
  BY BudgetAssumption
<1>17. /\ ctx \in Seq(S) /\ Len(ctx) <= FinalTopN /\ Len(ctx) <= Len(order)
       /\ \A i \in 1..Len(ctx) : ctx[i] = order[i]
  <2>1. ctx = Truncated(order, FinalTopN)
    BY <1>7
  <2> HIDE DEF S
  <2>2. /\ Truncated(order, FinalTopN) \in Seq(S)
        /\ Len(Truncated(order, FinalTopN)) <= FinalTopN
        /\ Len(Truncated(order, FinalTopN)) <= Len(order)
        /\ \A i \in 1..Len(Truncated(order, FinalTopN)) :
             Truncated(order, FinalTopN)[i] = order[i]
    BY <1>15, <1>16, TruncatedIs
  <2> QED
    BY <2>1, <2>2
<1>18. /\ Len(ctx) \in Nat /\ DOMAIN ctx = 1..Len(ctx) /\ \A i \in 1..Len(ctx) : ctx[i] \in S
  BY <1>17, LenProperties, ElementOfSeq
<1>19. ASSUME NEW i \in 1..Len(ctx), NEW j \in 1..Len(ctx), i < j
       PROVE  ctx[i].hit.chunk # ctx[j].hit.chunk /\ ctx[i].score >= ctx[j].score
  <2>1. i \in 1..Len(order) /\ j \in 1..Len(order)
    BY <1>15, <1>17, <1>18
  <2>2. <<ctx[i], ctx[j]>> \in R
    BY <1>15, <1>17, <1>19, <2>1
  <2> QED
    BY <1>5, <1>11, <1>18, <2>2
<1> QED
  BY <1>4, <1>17, <1>18, <1>19

-----------------------------------------------------------------------------
(* The invariant and what follows from it.                                  *)

(* A hop that was fused without a collision.                                *)
FusedHop(h) ==
  /\ h \in [dense : DenseAnswers, sparse : SparseAnswers, fused : Seq(FusedHit)]
  /\ h.fused = Fuse(h.dense, h.sparse, HybridTopK)
  /\ ~ Collides(h.dense, h.sparse)

Hops == {h \in [dense : DenseAnswers, sparse : SparseAnswers, fused : Seq(FusedHit)] :
           FusedHop(h)}

Reranks ==
  \/ context = <<>>
  \/ \E scores \in RerankAnswers : /\ Acceptable(scores, Merge(hops))
                                   /\ context = Reranked(scores, Merge(hops))

(* What the call holds at every await: whole answers of ended branches,     *)
(* fused hops within the plan, and no context before the last step.         *)
SearchInv ==
  /\ branch \in [Branches -> {"none", "running", "cancelling", "ok", "failed",
                              "cancelled"}]
  /\ DOMAIN answer = Branches
  /\ \A b \in Branches : branch[b] = "ok" => answer[b] \in Answers(b)
  /\ hops \in Seq(Hops)
  /\ derived \in Seq(STRING) /\ Len(derived) <= MaxSecondHops
  /\ Len(hops) <= 1 + Len(derived)
  /\ pc \in {"expand", "branches", "reaping"} => Len(hops) <= Len(derived)
  /\ pc \in {"rerank", "backoff"} => ~ CrossHopCollision(hops)
  /\ pc # "done" => context = <<>> /\ outcome # "ok"
  /\ outcome = "ok" => ~ CrossHopCollision(hops) /\ Reranks

(* What the indexes and the reranker return, by type.                      *)
LEMMA AnswersAreHits ==
  /\ DenseAnswers \subseteq Seq(Hit) /\ SparseAnswers \subseteq Seq(Hit)
  /\ RerankAnswers \subseteq Seq(ScoreItem)
  /\ HybridTopK \in Nat /\ MaxSecondHops \in Nat
  BY AnswersAssumption, BudgetAssumption DEF Hit, ScoreItem

(* Every hop is a fusion of two answers, and a fusion respects dominance.  *)
LEMMA FusionIsDominated == SearchInv => FusionRespectsDominance
<1> SUFFICES ASSUME SearchInv, NEW n \in DOMAIN hops,
                    NEW a \in ChunksOf(hops[n].dense) \cup ChunksOf(hops[n].sparse),
                    NEW b \in ChunksOf(hops[n].fused),
                    NotWorse(hops[n].dense, a, b), NotWorse(hops[n].sparse, a, b),
                    Better(hops[n].dense, a, b) \/ Better(hops[n].sparse, a, b)
             PROVE  Rank(hops[n].fused, a) > 0 /\ Rank(hops[n].fused, a) < Rank(hops[n].fused, b)
  BY DEF FusionRespectsDominance
<1>1. hops[n] \in Hops
  BY LenProperties, ElementOfSeq DEF SearchInv
<1>2. /\ hops[n].dense \in Seq(Hit) /\ hops[n].sparse \in Seq(Hit)
      /\ hops[n].fused = Fuse(hops[n].dense, hops[n].sparse, HybridTopK)
  BY <1>1, AnswersAreHits DEF Hops, FusedHop
<1>3. a \in BranchChunks(hops[n].dense, hops[n].sparse)
  BY DEF BranchChunks
<1> QED
  BY <1>2, <1>3, AnswersAreHits, FusionDominates

(* The hops of a call, by type.                                            *)
LEMMA HopsAre ==
  ASSUME SearchInv
  PROVE  /\ Len(hops) \in Nat /\ DOMAIN hops = 1..Len(hops)
         /\ hops \in [1..Len(hops) ->
                       [dense : Seq(Hit), sparse : Seq(Hit), fused : Seq(FusedHit)]]
         /\ \A n \in 1..Len(hops) : FusedHop(hops[n])
<1>1. /\ Len(hops) \in Nat /\ DOMAIN hops = 1..Len(hops) /\ hops \in [1..Len(hops) -> Hops]
  BY LenProperties DEF SearchInv
<1>2. \A h \in Hops : h \in [dense : Seq(Hit), sparse : Seq(Hit), fused : Seq(FusedHit)]
                      /\ FusedHop(h)
  BY AnswersAreHits DEF Hops, FusedHop
<1> QED
  BY <1>1, <1>2

(* What reranking returns comes from the hops, and without a collision     *)
(* across hops every fused hit has the payload the branches agree on.      *)
LEMMA ContextIsGrounded == SearchInv => ContextIsFaithful
<1> SUFFICES ASSUME SearchInv PROVE ContextIsFaithful
  OBVIOUS
<1>1. Len(hops) <= 1 + MaxSecondHops
  BY HopsAre, AnswersAreHits, LenProperties DEF SearchInv
<1>2. CASE outcome # "ok"
  BY <1>1, <1>2 DEF ContextIsFaithful
<1>3. CASE outcome = "ok" /\ context = <<>>
  <2>1. Len(context) = 0 /\ DOMAIN context = {} /\ ToSet(context) = {}
    BY <1>3 DEF ToSet
  <2>2. FinalTopN \in Nat
    BY BudgetAssumption
  <2> QED
    BY <1>1, <2>1, <2>2 DEF ContextIsFaithful
<1>4. CASE outcome = "ok" /\ context # <<>>
  <2> DEFINE cands == Merge(hops)
  <2>1. PICK scores \in RerankAnswers :
          Acceptable(scores, cands) /\ context = Reranked(scores, cands)
    BY <1>4 DEF SearchInv, Reranks
  <2>2. /\ AllHits(hops) \in Seq(FusedHit)
        /\ \A x : x \in ToSet(AllHits(hops))
                  <=> \E i \in 1..Len(hops) : x \in ToSet(hops[i].fused)
        /\ cands \in Seq(FusedHit)
        /\ ToSet(cands) \subseteq ToSet(AllHits(hops))
        /\ \A i, j \in 1..Len(cands) : cands[i].chunk = cands[j].chunk => i = j
    BY HopsAre, MergeIs
  <2> HIDE DEF cands
  <2>3. /\ Len(context) \in Nat /\ Len(context) <= FinalTopN
        /\ DOMAIN context = 1..Len(context)
        /\ \A i \in 1..Len(context) : context[i].hit \in ToSet(cands)
        /\ \A i, j \in 1..Len(context) :
             i < j => /\ context[i].hit.chunk # context[j].hit.chunk
                      /\ context[i].score >= context[j].score
    BY <2>1, <2>2, AnswersAreHits, RerankedIs
  <2>4. ASSUME NEW c \in ToSet(context)
        PROVE  /\ \E n \in DOMAIN hops : c.hit.chunk \in ChunksOf(hops[n].fused)
               /\ \A n \in DOMAIN hops : c.hit.chunk \in ChunksOf(hops[n].fused) =>
                    \A hits \in {hops[n].dense, hops[n].sparse} :
                      c.hit.chunk \in ChunksOf(hits) =>
                        Payload(hits, c.hit.chunk) = c.hit.payload
    <3>1. c.hit \in ToSet(AllHits(hops))
      BY <2>2, <2>3 DEF ToSet
    <3>2. \E n \in DOMAIN hops : c.hit.chunk \in ChunksOf(hops[n].fused)
      BY <2>2, <3>1, HopsAre DEF ChunksOf
    <3>3. ASSUME NEW n \in DOMAIN hops, c.hit.chunk \in ChunksOf(hops[n].fused),
                 NEW hits \in {hops[n].dense, hops[n].sparse},
                 c.hit.chunk \in ChunksOf(hits)
          PROVE  Payload(hits, c.hit.chunk) = c.hit.payload
      <4>1. PICK h \in ToSet(hops[n].fused) : h.chunk = c.hit.chunk
        BY <3>3 DEF ChunksOf
      <4>2. h \in ToSet(AllHits(hops))
        BY <2>2, <4>1, HopsAre
      <4>3. h.payload = c.hit.payload
        BY <1>4, <3>1, <4>1, <4>2 DEF SearchInv, CrossHopCollision
      <4>4. /\ FusedHop(hops[n])
            /\ hops[n].dense \in Seq(Hit) /\ hops[n].sparse \in Seq(Hit)
        BY HopsAre
      <4>5. h.payload = Canonical(hops[n].dense, hops[n].sparse, h.chunk)
        <5>1. PICK i \in DOMAIN hops[n].fused : hops[n].fused[i] = h
          BY <4>1 DEF ToSet
        <5>2. hops[n].fused \in Seq(FusedHit)
          BY <4>4 DEF FusedHop
        <5>3. i \in 1..Len(hops[n].fused)
          BY <5>1, <5>2, LenProperties
        <5> QED
          BY <4>4, <5>1, <5>3, FuseIs, AnswersAreHits DEF FusedHop
      <4>6. Payload(hits, h.chunk) = Canonical(hops[n].dense, hops[n].sparse, h.chunk)
        BY <3>3, <4>1, <4>4 DEF FusedHop, Collides, Canonical
      <4> QED
        BY <4>1, <4>3, <4>5, <4>6
    <3> QED
      BY <3>2, <3>3
  <2> QED
    BY <1>1, <2>3, <2>4 DEF ContextIsFaithful
<1> QED
  BY <1>2, <1>3, <1>4

-----------------------------------------------------------------------------
(* Every step keeps it.                                                     *)

(* Second-hop queries are references, within the configured budget.         *)
LEMMA DerivedIs ==
  ASSUME NEW hits, NEW d \in DenseAnswers, NEW s \in SparseAnswers,
         hits = Fuse(d, s, HybridTopK)
  PROVE  Derive(hits) \in Seq(STRING) /\ Len(Derive(hits)) <= MaxSecondHops
<1> DEFINE all == [i \in DOMAIN hits |-> Refs[hits[i].chunk]]
<1>1. /\ d \in Seq(Hit) /\ s \in Seq(Hit) /\ HybridTopK \in Nat
      /\ hits \in Seq(FusedHit)
      /\ \A i \in 1..Len(hits) : hits[i].chunk \in BranchChunks(d, s)
  BY AnswersAreHits, FuseIs
<1>2. Len(hits) \in Nat /\ DOMAIN hits = 1..Len(hits)
  BY <1>1, LenProperties
<1>3. \A c \in BranchChunks(d, s) : Refs[c] \in Seq(STRING)
  BY AnswersAssumption DEF BranchChunks, ChunksOf
<1>4. all \in [1..Len(hits) -> Seq(STRING)]
  BY <1>1, <1>2, <1>3
<1>5. all \in Seq(Seq(STRING))
  BY <1>2, <1>4, IsASeq
<1>6. FlattenSeq(all) \in Seq(STRING)
  BY <1>5, FlattenIs
<1>7. Distinct(FlattenSeq(all), LAMBDA ref : ref) \in Seq(STRING)
  BY <1>6, FirstReferences
<1> HIDE DEF all
<1>8. MaxSecondHops \in Nat
  BY AnswersAreHits
<1>9. Derive(hits) = Truncated(Distinct(FlattenSeq(all), LAMBDA ref : ref), MaxSecondHops)
  BY Zenon DEF Derive, all
<1> QED
  BY <1>7, <1>8, <1>9, TruncatedIs

LEMMA InitSearchInv == Init => SearchInv
<1> SUFFICES ASSUME Init PROVE SearchInv
  OBVIOUS
<1>1. hops \in Seq(Hops) /\ derived \in Seq(STRING) /\ Len(hops) = 0 /\ Len(derived) = 0
  BY EmptySeq DEF Init
<1>2. MaxSecondHops \in Nat
  BY AnswersAreHits
<1> QED
  BY <1>1, <1>2 DEF Init, SearchInv, Branches

(* A call that is given up returns nothing, and its tasks have nothing      *)
(* left that is used.                                                       *)
LEMMA GivenUp ==
  ASSUME SearchInv, NEW result, result # "ok", End(result),
         UNCHANGED <<answer, hops, derived>>
  PROVE  SearchInv'
  BY DEF SearchInv, End, Branches, Live

(* A step of a task or a pause leaves the call's own state alone.           *)
LEMMA BranchesMove ==
  ASSUME SearchInv, UNCHANGED <<hops, derived, context>>,
         branch' \in [Branches -> {"none", "running", "cancelling", "ok", "failed",
                                   "cancelled"}],
         DOMAIN answer' = Branches,
         \A b \in Branches : branch'[b] = "ok" => answer'[b] \in Answers(b),
         \/ UNCHANGED <<pc, outcome>>
         \/ pc # "done" /\ pc' = "reaping" /\ pc = "branches" /\ outcome' # "ok"
         \/ pc # "done" /\ pc' = pc /\ outcome' # "ok"
         \/ pc = "rerank" /\ pc' = "backoff" /\ UNCHANGED outcome
         \/ pc = "backoff" /\ pc' = "rerank" /\ UNCHANGED outcome
         \/ pc = "expand" /\ pc' = "branches" /\ UNCHANGED outcome
  PROVE  SearchInv'
<1>1. (CrossHopCollision(hops) <=> CrossHopCollision(hops)') /\ (Reranks <=> Reranks')
  <2>1. hops' = hops
    OBVIOUS
  <2>2. Merge(hops)' = Merge(hops')
    OBVIOUS
  <2>3. AllHits(hops)' = AllHits(hops')
    OBVIOUS
  <2> QED
    BY <2>1, <2>2, <2>3 DEF CrossHopCollision, Reranks, Acceptable
<1> QED
  BY <1>1 DEF SearchInv

(* A hop whose branches have both returned, on the same payloads.          *)
LEMMA HopIs ==
  ASSUME SearchInv, BothReturned, ~ Collision
  PROVE  /\ ThisHop \in Hops
         /\ Derive(ThisHop.fused) \in Seq(STRING)
         /\ Len(Derive(ThisHop.fused)) <= MaxSecondHops
<1>1. answer["dense"] \in DenseAnswers /\ answer["sparse"] \in SparseAnswers
  BY DEF SearchInv, BothReturned, Branches, Answers
<1> DEFINE hits == Fused[answer["dense"]][answer["sparse"]]
<1>2. hits = Fuse(answer["dense"], answer["sparse"], HybridTopK)
  BY <1>1 DEF Fused
<1>3. hits \in Seq(FusedHit)
  BY <1>1, <1>2, AnswersAreHits, FuseIs
<1>4. ThisHop = [dense |-> answer["dense"], sparse |-> answer["sparse"], fused |-> hits]
  BY DEF ThisHop
<1>5. Derive(hits) \in Seq(STRING) /\ Len(Derive(hits)) <= MaxSecondHops
  BY <1>1, <1>2, DerivedIs
<1> HIDE DEF hits
<1>6. ThisHop \in Hops
  BY <1>1, <1>2, <1>3, <1>4 DEF Hops, FusedHop, Collision
<1> QED
  BY <1>4, <1>5, <1>6

LEMMA NextHopSearchInv == SearchInv /\ NextHop => SearchInv'
<1> SUFFICES ASSUME SearchInv, NextHop PROVE SearchInv'
  OBVIOUS
<1>1. /\ pc = "branches" /\ context = <<>> /\ context' = <<>> /\ outcome # "ok"
      /\ hops \in Seq(Hops) /\ Len(hops) \in Nat /\ Len(hops) <= Len(derived)
      /\ derived \in Seq(STRING) /\ Len(derived) \in Nat /\ Len(derived) <= MaxSecondHops
  BY LenProperties DEF SearchInv, NextHop, BothReturned
<1>2. /\ ThisHop \in Hops /\ Derive(ThisHop.fused) \in Seq(STRING)
      /\ Len(Derive(ThisHop.fused)) <= MaxSecondHops
  BY HopIs DEF NextHop
<1>3. hops' \in Seq(Hops) /\ Len(hops') = Len(hops) + 1
  BY <1>1, <1>2, AppendProperties DEF NextHop
<1>4. /\ derived' \in Seq(STRING) /\ Len(derived') \in Nat
      /\ Len(derived') <= MaxSecondHops /\ Len(hops') <= 1 + Len(derived')
  <2>1. CASE hops = <<>>
    <3>1. derived' = Derive(ThisHop.fused) \/ derived' = <<>>
      BY <2>1 DEF NextHop, Plan
    <3>2. <<>> \in Seq(STRING) /\ Len(<<>>) = 0 /\ MaxSecondHops \in Nat
      BY EmptySeq, AnswersAreHits
    <3>3. /\ derived' \in Seq(STRING) /\ Len(derived') <= MaxSecondHops
      <4>1. CASE derived' = <<>>
        BY <3>2, <4>1
      <4> QED
        BY <1>2, <3>1, <4>1
    <3>4. Len(derived') \in Nat
      BY <3>3, LenProperties
    <3> QED
      BY <1>3, <2>1, <3>3, <3>4
  <2>2. CASE hops # <<>>
    <3>1. derived' = derived
      BY <2>2 DEF NextHop
    <3> QED
      BY <1>1, <1>3, <3>1
  <2> QED
    BY <2>1, <2>2
<1>5. /\ branch' \in [Branches -> {"none", "running", "cancelling", "ok", "failed",
                                   "cancelled"}]
      /\ DOMAIN answer' = Branches
      /\ \A b \in Branches : branch'[b] # "ok"
  BY DEF NextHop, End, Live, SearchInv
<1>6. \/ pc' = "expand" /\ Len(hops') <= Len(derived') /\ outcome' # "ok"
      \/ pc' = "done" /\ outcome' = "failed"
      \/ /\ pc' = "done" /\ outcome' = "ok"
         /\ ~ CrossHopCollision(hops')
      \/ pc' = "rerank" /\ outcome' # "ok" /\ ~ CrossHopCollision(hops')
  BY <1>1, Zenon DEF NextHop, End
<1>7. CrossHopCollision(hops)' <=> CrossHopCollision(hops')
  BY DEF CrossHopCollision, AllHits
<1>8. Reranks'
  BY <1>1 DEF Reranks
<1> QED
  BY <1>1, <1>3, <1>4, <1>5, <1>6, <1>7, <1>8 DEF SearchInv

LEMMA RerankSearchInv == SearchInv /\ Rerank => SearchInv'
<1> SUFFICES ASSUME SearchInv, Rerank PROVE SearchInv'
  OBVIOUS
<1>1. /\ pc = "rerank" /\ pc' = "done" /\ UNCHANGED <<answer, hops, derived>>
      /\ ~ CrossHopCollision(hops)
      /\ branch' \in [Branches -> {"none", "running", "cancelling", "ok", "failed",
                                   "cancelled"}]
      /\ \A b \in Branches : branch'[b] # "ok"
  BY DEF Rerank, End, SearchInv, Live
<1>2. ~ CrossHopCollision(hops)'
  BY <1>1 DEF CrossHopCollision, AllHits
<1>3. Reranks'
  <2>1. PICK scores \in RerankAnswers :
          Acceptable(scores, Merge(hops)) /\ context' = Reranked(scores, Merge(hops))
    BY DEF Rerank
  <2>2. Acceptable(scores, Merge(hops)) <=> Acceptable(scores, Merge(hops'))
    BY <1>1
  <2>3. Reranked(scores, Merge(hops)) = Reranked(scores, Merge(hops'))
    BY <1>1
  <2>4. Acceptable(scores, Merge(hops')) /\ context' = Reranked(scores, Merge(hops'))
    BY <2>1, <2>2, <2>3
  <2> QED
    BY <2>4, Zenon DEF Reranks
<1> QED
  BY <1>1, <1>2, <1>3 DEF SearchInv

LEMMA NextSearchInv == SearchInv /\ [Next]_vars => SearchInv'
<1> SUFFICES ASSUME SearchInv, [Next]_vars PROVE SearchInv'
  OBVIOUS
<1>1. ASSUME NEW b \in Branches, BranchReturns(b)
      PROVE  SearchInv'
  <2>1. PICK hits \in Answers(b) : answer' = [answer EXCEPT ![b] = hits]
    BY <1>1 DEF BranchReturns
  <2>2. /\ branch' = [branch EXCEPT ![b] = "ok"]
        /\ UNCHANGED <<pc, hops, derived, outcome, context>>
    BY <1>1 DEF BranchReturns
  <2> QED
    BY <2>1, <2>2, BranchesMove DEF SearchInv
<1>2. ASSUME NEW b \in Branches, BranchFails(b) \/ BranchStops(b)
      PROVE  SearchInv'
  <2>1. PICK end \in {"cancelled", "failed"} : branch' = [branch EXCEPT ![b] = end]
    BY <1>2 DEF BranchFails, BranchStops
  <2>2. UNCHANGED <<answer, pc, hops, derived, outcome, context>>
    BY <1>2 DEF BranchFails, BranchStops
  <2> QED
    BY <2>1, <2>2, BranchesMove DEF SearchInv
<1>3. CASE Expand
  BY <1>3, BranchesMove DEF Expand, SearchInv
<1>4. CASE ExpandFails \/ FuseFails \/ RerankFails \/ CancelCall
  BY <1>4, GivenUp DEF ExpandFails, FuseFails, RerankFails, CancelCall
<1>5. CASE GatherRaises
  <2>1. /\ pc = "branches" /\ pc' = "reaping" /\ outcome' # "ok"
        /\ UNCHANGED <<answer, hops, derived, context>>
    BY <1>5 DEF GatherRaises
  <2>2. CancelBranches
    BY <1>5 DEF GatherRaises
  <2> QED
    BY <2>1, <2>2, BranchesMove DEF SearchInv, CancelBranches
<1>6. CASE Reap
  <2>1. outcome # "ok" /\ End(outcome) /\ UNCHANGED <<answer, hops, derived>>
    BY <1>6 DEF Reap, SearchInv
  <2> QED
    BY <2>1, GivenUp
<1>7. CASE NextHop
  BY <1>7, NextHopSearchInv
<1>8. CASE Rerank
  BY <1>8, RerankSearchInv
<1>9. CASE RetryRerank \/ BackoffEnds
  BY <1>9, BranchesMove DEF RetryRerank, BackoffEnds, SearchInv
<1>10. CASE CancelGather
  <2>1. /\ pc \in {"branches", "reaping"} /\ pc' = pc /\ outcome' # "ok"
        /\ UNCHANGED <<answer, hops, derived, context>>
    BY <1>10 DEF CancelGather, SearchInv
  <2>2. CancelBranches
    BY <1>10 DEF CancelGather
  <2> QED
    BY <2>1, <2>2, BranchesMove DEF SearchInv, CancelBranches
<1>11. CASE UNCHANGED vars
  BY <1>11, BranchesMove DEF vars, SearchInv
<1> QED
  BY <1>1, <1>2, <1>3, <1>4, <1>5, <1>6, <1>7, <1>8, <1>9, <1>10, <1>11
     DEF Next, BranchStep, CallStep

(* fuse_rrf ranks by the branches alone (retrieval/hybrid/rrf.py): whatever  *)
(* the answers, rrf_k and hybrid_top_k are, no hop of a search puts a chunk  *)
(* behind one that both branches rank lower, or cuts it off in its favour.   *)
THEOREM FusionIsSound == Spec => []FusionRespectsDominance
  BY InitSearchInv, NextSearchInv, FusionIsDominated, PTL DEF Spec

(* The context of a search that succeeds is grounded in its hops            *)
(* (retrieval/service/orchestrator.py, retrieval/reranking/engine.py): for  *)
(* every answer of the indexes and of the reranker it is within the budget, *)
(* without duplicates, in the order of the scores, and no payload in it is  *)
(* contradicted by an index.                                                *)
THEOREM ContextsAreFaithful == Spec => []ContextIsFaithful
  BY InitSearchInv, NextSearchInv, ContextIsGrounded, PTL DEF Spec

=============================================================================
