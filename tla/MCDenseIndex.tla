---------------------------- MODULE MCDenseIndex ----------------------------
(* An instance of DenseIndex: two versions that share a chunk, one of them  *)
(* longer than a batch and a page, in another order than their point ids.  *)
EXTENDS DenseIndex, TLC

MCContent == (1 :> <<3, 1>>) @@ (2 :> <<2, 3>>)
ClientSymmetry == Permutations(Clients)

=============================================================================
