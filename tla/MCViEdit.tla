-------------------------------- MODULE MCViEdit --------------------------------
(***************************************************************************)
(* A small instance of ViEdit: two letters, a blank and brackets, which    *)
(* are keys of commands as well.                                           *)
(***************************************************************************)
EXTENDS ViEdit

MCUp == [a |-> "A", w |-> "W"]
MCDown == [A |-> "a", W |-> "w"]
MCSought == {"a", ")"}
MCEvents == {<<"a", " ", "(", ")">>}
MCAlias == <<".", "x">>
===============================================================================
