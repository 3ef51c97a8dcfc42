---------------------------- MODULE MCGeneration ----------------------------
(* An instance of Generation: four results, and a likeness of texts that is *)
(* not transitive, in lists of up to three in every order.                  *)
EXTENDS Generation

Block(ch, text, tokens, overhead) ==
  [chunk |-> ch, text |-> text, tokens |-> tokens, overhead |-> overhead]
Blocks == {Block(1, "a", 3, 2), Block(2, "b", 4, 3), Block(3, "c", 6, 2),
            Block(4, "d", 9, 2), Block(5, "d", 1, 2)}

MCRetrieved == {rs \in BoundedSeq(Blocks, 3) :
                  \A i, j \in DOMAIN rs : rs[i].chunk = rs[j].chunk => i = j}
MCSimilar == {<<"a", "b">>, <<"b", "c">>}

=============================================================================
