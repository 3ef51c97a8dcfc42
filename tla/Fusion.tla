------------------------------- MODULE Fusion -------------------------------
(***************************************************************************)
(* fuse_rrf (retrieval/hybrid/rrf.py): Reciprocal Rank Fusion of the dense  *)
(* and the sparse branch.  A branch is the sequence of its hits, best first *)
(* - the rank of a hit is its place -, and a hit is a chunk with a payload: *)
(* chunk_id and the canonical Chunk.  Chunks are numbered in the order of   *)
(* their ids.                                                              *)
(*                                                                         *)
(* The scores 1 / (rrf_k + rank) and their sums are fractions.              *)
(***************************************************************************)
EXTENDS Orders, Sequences, SequencesExt, FiniteSetsExt

CONSTANT RrfK  \* config.rrf_k

ASSUME RrfAssumption == RrfK \in Nat \ {0}

ChunksOf(hits) == {h.chunk : h \in ToSet(hits)}

(* _dedupe_branch keeps the best rank of a chunk; 0 if the branch lacks it. *)
Rank(hits, ch) ==
  IF ch \in ChunksOf(hits)
  THEN Min({i \in DOMAIN hits : hits[i].chunk = ch}) ELSE 0

Payload(hits, ch) == hits[Rank(hits, ch)].payload

(* Faulty variant: a branch that lacks the chunk contributes as for rank 0. *)
Contribution_OfAbsent(rank) == <<1, RrfK + rank>>

Contribution(rank) == IF rank = 0 THEN <<0, 1>> ELSE <<1, RrfK + rank>>

Score(dense, sparse, ch) ==
  LET f == Contribution(Rank(dense, ch))
      g == Contribution(Rank(sparse, ch))
  IN <<f[1] * g[2] + g[1] * f[2], f[2] * g[2]>>

BestRank(dense, sparse, ch) ==
  Min({Rank(dense, ch), Rank(sparse, ch)} \ {0})

(* The sort key: score descending, best rank, chunk id.                     *)
Precedes(dense, sparse, a, b) ==
  LET sa == Score(dense, sparse, a)
      sb == Score(dense, sparse, b)
      ra == BestRank(dense, sparse, a)
      rb == BestRank(dense, sparse, b)
  IN \/ Greater(sa, sb)
     \/ AtLeast(sa, sb) /\ (ra < rb \/ (ra = rb /\ a < b))

(* The branches disagree on the payload of a chunk: fuse_rrf raises.        *)
Collides(dense, sparse) ==
  \E ch \in ChunksOf(dense) \cap ChunksOf(sparse) :
    Payload(dense, ch) # Payload(sparse, ch)

(* A sequence without the elements whose key occurred before.               *)
Distinct(s, key(_)) ==
  LET first == {i \in DOMAIN s : \A j \in 1..(i - 1) : key(s[j]) # key(s[i])}
      order == Ordered(first, <)
  IN [n \in DOMAIN order |-> s[order[n]]]

Truncated(s, n) == SubSeq(s, 1, Min({n, Len(s)}))

Fuse(dense, sparse, topK) ==
  LET order == Ordered(ChunksOf(dense) \cup ChunksOf(sparse),
                       LAMBDA a, b : Precedes(dense, sparse, a, b))
      payload(ch) == IF ch \in ChunksOf(dense) THEN Payload(dense, ch)
                     ELSE Payload(sparse, ch)
  IN Truncated([i \in DOMAIN order |->
                  [chunk |-> order[i], payload |-> payload(order[i]), rank |-> i]],
               topK)

=============================================================================
