------------------------------- MODULE Files -------------------------------
(***************************************************************************)
(* A file as its next reader finds it: absent, torn when whoever wrote it   *)
(* with write_text died, or whole with a value.  A torn file does not       *)
(* parse.                                                                  *)
(***************************************************************************)
EXTENDS Sequences

Absent == <<>>
Torn == <<"torn">>
Whole(value) == <<"whole", value>>
IsWhole(file) == Len(file) = 2

(* A directory is a function from names to what they stand for.             *)
Put(directory, name, file) ==
  [n \in DOMAIN directory \cup {name} |-> IF n = name THEN file ELSE directory[n]]
=============================================================================
