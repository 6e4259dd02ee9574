------------------------------- MODULE KeyChars -------------------------------
(***************************************************************************)
(* The characters that a table of bindings has a command for: those of     *)
(* eight bits, the upper half of which have the meta bit.                  *)
(***************************************************************************)
EXTENDS Integers

CONSTANT NKeys          \* N_KEYS, the size of a table

ASSUME NKeysAssumption == NKeys \in Nat \ {0, 1} /\ NKeys % 2 = 0

Chars == 0..(NKeys - 1)

\* 0200.
MetaBit == NKeys \div 2
===============================================================================
