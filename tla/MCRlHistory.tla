------------------------------ MODULE MCRlHistory ------------------------------
(***************************************************************************)
(* A small instance of RlHistory: two texts, of which one contains the     *)
(* other and does not begin with it, three events, places beyond the       *)
(* oldest and the newest, and sizes below and at what the list holds.      *)
(***************************************************************************)
EXTENDS RlHistory

MCLines == {<<"b">>, <<"a", "b">>}
===============================================================================
