------------------------------ MODULE MCTtySession -----------------------------
(***************************************************************************)
(* A small instance of TtySession: one value the user gives to characters, *)
(* all ways to read a line and all flags.                                  *)
(***************************************************************************)
EXTENDS TtySession
===============================================================================
