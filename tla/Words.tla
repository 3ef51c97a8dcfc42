------------------------------- MODULE Words -------------------------------
(***************************************************************************)
(* Text as the offline pipeline sees it.  A text is a sequence of rows (the *)
(* lines of a paragraph, the rows of a table), a row a sequence of words    *)
(* and a word a sequence of pieces.  Four pieces matter to the code: a      *)
(* hyphen, a full stop, an invisible character and a separator; the others  *)
(* stand for a run of letters or for a number.  Lengths that the code       *)
(* counts in characters are counted in words.                              *)
(***************************************************************************)
EXTENDS Integers, SequencesExt, Orders

Hyphen == "-"
Stop == "."
Invisible == "zw"
Bar == "|"
Bullet == "*"
Numbers == {"1", "2", "3"}
Capitals == {"A", "B"}
Letters == Capitals \cup {"a", "b", "c", "d", "k", "v", "x"}

Number(w) == Len(w) = 1 /\ w[1] \in Numbers
Separator(w) == w \in {<<Bar>>, <<Hyphen>>}
Page == <<"page">>

(* The items of s that are in S, in their order.                            *)
Only(s, S) ==
  LET chosen[n \in 0..Len(s)] ==
        IF n = 0 THEN <<>>
        ELSE IF s[n] \in S THEN Append(chosen[n - 1], s[n])
        ELSE chosen[n - 1]
  IN chosen[Len(s)]

Without(s, item) == Only(s, ToSet(s) \ {item})

(* A sequence of parts with one more item at the end of the last part.      *)
Extended(parts, item) == Append(Front(parts), Append(Last(parts), item))

Text(rows) == FlattenSeq(rows)
Blank(rows) == Text(rows) = <<>>

(* A word without the mark at its end, as the patterns for tokens see it.   *)
Core(w) == IF Last(w) \in {Stop, Hyphen} THEN Front(w) ELSE w

=============================================================================
