------------------------------ MODULE MCLineEdit -------------------------------
(***************************************************************************)
(* A small instance of LineEdit: a letter, a newline, a combining mark and *)
(* a pair, in buffers that must grow.                                      *)
(***************************************************************************)
EXTENDS LineEdit

MCUp == [a |-> "A"]
MCDown == [A |-> "a"]
MCTyped == {"a", Break, Combining}
MCStrings == {<<"a">>, <<"a", Lead, Trail>>}
===============================================================================
