------------------------------ MODULE MCReadLoop ------------------------------
(***************************************************************************)
(* A small instance of ReadLoop: sixteen keys, the upper eight with the    *)
(* meta bit.  0 is NUL, 1 is inserted, 2 is a digit, 3 the universal       *)
(* argument, 4 sets meta, 5 quotes, 6 ends the line and 7 leads in.        *)
(* Behind 7 are the digit as an argument, and a string whose first key     *)
(* is bound to another string.                                             *)
(***************************************************************************)
EXTENDS ReadLoop

KeyTable == [c \in 0..15 |->
  CASE c = 1 -> "insert" [] c = 2 -> "digit" [] c = 3 -> "universal-argument"
    [] c = 4 -> "meta-next" [] c = 5 -> "quoted-insert" [] c = 6 -> "newline"
    [] c \in {7, 15} -> "lead-in" [] c = 8 -> "push" [] c = 9 -> "kill-line"
    [] c = 10 -> "argument-digit" [] c = 11 -> "fatal" [] c = 14 -> "end-of-file"
    [] OTHER -> "unassigned"]

Chained == <<7, 2>> :> "argument-digit" @@ <<7, 1>> :> <<7, 6, 1>> @@ <<7, 6>> :> <<2>>
           @@ <<15, 1>> :> "kill-line"
Digits == 2 :> 2
PushedStrings == {<<>>, <<1, 7>>, <<4, 6, 5>>}
===============================================================================
