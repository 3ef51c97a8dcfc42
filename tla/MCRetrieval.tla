---------------------------- MODULE MCRetrieval ----------------------------
(* An instance of Retrieval: three chunks, one of them with two payloads as *)
(* after a change that one index has not seen, and short answers.           *)
EXTENDS Retrieval, TLC

Hit(ch, p) == [chunk |-> ch, payload |-> p]

MCDenseAnswers ==
  {<<>>, <<Hit(1, "new"), Hit(2, "new")>>, <<Hit(2, "new"), Hit(1, "old")>>,
   <<Hit(3, "new"), Hit(1, "new")>>}
MCSparseAnswers ==
  {<<>>, <<Hit(1, "new")>>, <<Hit(3, "new"), Hit(2, "new")>>,
   <<Hit(2, "new"), Hit(3, "new"), Hit(2, "old")>>}
Answer(indexes, scores) ==
  [i \in DOMAIN indexes |-> [index |-> indexes[i], score |-> scores[i]]]
MCRerankAnswers == {Answer(<<1>>, <<1>>), Answer(<<1, 2>>, <<1, 1>>),
                    Answer(<<2, 1>>, <<0, 1>>), Answer(<<2, 2>>, <<1, 0>>),
                    Answer(<<1, 3, 2>>, <<0, 1, 1>>), Answer(<<9>>, <<1>>), <<>>}
MCPayloads == {"new", "old"}
MCRefs == (1 :> <<"section">>) @@ (2 :> <<"section", "appendix">>) @@ (3 :> <<"clause">>)

=============================================================================
