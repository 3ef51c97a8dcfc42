------------------------------- MODULE Orders -------------------------------
(***************************************************************************)
(* Fractions and sorted() over a set: what ranking, scoring and the files   *)
(* in canonical order have in common.                                      *)
(***************************************************************************)
EXTENDS Integers, FiniteSets

(* The members of S in the strict order Before.                            *)
Ordered(S, Before(_, _)) ==
  [i \in 1..Cardinality(S) |->
     CHOOSE x \in S : Cardinality({y \in S : Before(y, x)}) = i - 1]

(* Fractions <<n, d>> with d > 0.                                          *)
AtLeast(f, g) == f[1] * g[2] >= g[1] * f[2]
Greater(f, g) == f[1] * g[2] > g[1] * f[2]

=============================================================================
