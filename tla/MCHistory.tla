------------------------------ MODULE MCHistory -------------------------------
(***************************************************************************)
(* A small instance of History: one character, so that an event's text is  *)
(* its length, texts of length one and two, events 1 to 4 and sizes 0 to   *)
(* 3.  Duplicates, prefixes, trimming, a stale h_ent and loads that        *)
(* overflow the list all occur.                                            *)
(***************************************************************************)
EXTENDS History

MCLines == {<<"a">>, <<"a", "a">>}
===============================================================================
