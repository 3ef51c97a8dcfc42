------------------------ MODULE MCEvaluationRunner ------------------------
(* EvaluationRunner on small instances.  Examples are interchangeable, and  *)
(* so are the runs.                                                        *)
EXTENDS EvaluationRunner, TLC

ExampleSymmetry == Permutations(Examples)
RunExampleSymmetry == Permutations(Runs) \cup Permutations(Examples)
=============================================================================
