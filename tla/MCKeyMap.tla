------------------------------- MODULE MCKeyMap -------------------------------
(***************************************************************************)
(* A small instance of KeyMap: a table of eight, where 0 stands for ^X, 1  *)
(* for escape, 2 for a letter and 3 for the bracket, and 4 to 7 are these  *)
(* with the meta bit.  Sequences that begin one another, that share a      *)
(* first character with the standard ones and with the arrow keys, and a   *)
(* tty that erases with the letter or with ^X all occur.                   *)
(***************************************************************************)
EXTENDS KeyMap

EmacsTable == [c \in Chars |->
  CASE c \in {0, 7} -> "lead-in" [] c = 1 -> "meta-next" [] c \in {2, 3} -> "insert"
    [] c \in {4, 5} -> "unassigned" [] c = 6 -> "other"]
ViInsertTable == [c \in Chars |-> IF c = 1 THEN "other" ELSE "insert"]
ViCommandTable == [c \in Chars |->
  CASE c \in {3, 7} -> "lead-in" [] c = 1 -> "meta-next" [] c \in {2, 6} -> "other"
    [] OTHER -> "unassigned"]
CtrlXCtrlX == <<0, 0>>
AnsiUp == <<1, 3, 2>>
TermUp == <<1, 2, 2>>
Typed == {<<2>>, <<2, 3>>, <<1, 3>>}
===============================================================================
