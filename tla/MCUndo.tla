-------------------------------- MODULE MCUndo --------------------------------
(***************************************************************************)
(* A small instance of Undo: a stack of two and lines of up to two         *)
(* characters.  Full stacks, runs of typing that end in a command, code    *)
(* points in two halves and every pattern of failing allocations occur.    *)
(***************************************************************************)
EXTENDS Undo
===============================================================================
