------------------------------- MODULE MCRefresh --------------------------------
(* Small terminals with different capabilities.                            *)
EXTENDS Refresh

Terminal(cols, smart, late) ==
  [cols |-> cols, rows |-> 5, am |-> TRUE, late |-> late,
   insert |-> smart, delete |-> smart, ceol |-> smart, par |-> smart]

Setting(term, chars, n) ==
  [term |-> term, prompt |-> <<">">>, rprompt |-> <<>>, chars |-> chars, max |-> 6, keys |-> n, widths |-> {},
   lines |-> {<<"b", "a">>, <<"a", "b", "a">>, <<"b", "a", "b", "a", "b">>, <<"a", Break, "b">>}]

\* All lines of up to five characters out of two, drawn over each other.
ShortLines ==
  [Setting([Terminal(5, TRUE, FALSE) EXCEPT !.par = FALSE], {}, 2) EXCEPT
     !.lines = UNION {[1..n -> {"a", "b"}] : n \in 0..5}]

\* Escape sequences in the prompts, and one at the right.
BothPrompts ==
  [Setting(Terminal(8, TRUE, TRUE), {"a", Mark}, 4) EXCEPT
     !.prompt = <<Literal, ">", LiteralEnd>>, !.rprompt = <<Literal, "r">>,
     !.lines = {<<"b", "a">>, <<"b", "a", "b", "a">>, <<"a", "b", "a", "b", "b", "a">>}]

\* Terminals that become wider or narrower.
Sizes(late) ==
  [Setting(Terminal(4, TRUE, late), {"a"}, 4) EXCEPT
     !.widths = {3, 4, 6}, !.lines = @ \cup {<<"a", "b", "a", "b", "b">>, <<"a", "b", "a", CTRL, "b">>}]

MCSettings ==
  {ShortLines, BothPrompts, Sizes(TRUE), Sizes(FALSE),
   Setting(Terminal(4, TRUE, TRUE), {"a", Wide, Mark}, 5),
   Setting(Terminal(4, TRUE, FALSE), {"a", Wide}, 4),
   Setting(Terminal(4, FALSE, TRUE), {"a", Mark}, 4),
   Setting([Terminal(4, FALSE, FALSE) EXCEPT !.insert = TRUE, !.ceol = TRUE], {"a", CTRL}, 5),
   Setting([Terminal(4, TRUE, FALSE) EXCEPT !.am = FALSE], {"a", Tab, Break}, 4)}

\* One row, on which a line replaces one that ends otherwise.
MCOneRow ==
  {[Setting(Terminal(8, TRUE, TRUE), {"a"}, 3) EXCEPT
      !.lines = {<<"a", "b", "c", "d", "e">>, <<"e", "a", "b", "c", "d">>}]}
===============================================================================
