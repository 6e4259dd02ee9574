------------------------------- MODULE KeyTable -------------------------------
(***************************************************************************)
(* What the map of extended keys promises to the reader of keys: a table   *)
(* of sequences with their bindings in which no sequence begins another,   *)
(* so that what is typed names at most one of them.  Binding a sequence    *)
(* loses those it conflicts with and no others.                            *)
(***************************************************************************)
EXTENDS Naturals, Sequences, SequencesExt

CONSTANT Standard       \* the tables the standard bindings come to

VARIABLE table          \* sequence -> what it is bound to

Conflict(k, l) == IsPrefix(k, l) \/ IsPrefix(l, k)

PrefixFree(keys) == \A k, l \in keys : IsPrefix(k, l) => k = l

Without(keys) == [k \in DOMAIN table \ keys |-> table[k]]

TableInit == table \in Standard

\* Some sequences are bound; every one they conflict with is lost.
Bind ==
  \E bound \in SUBSET DOMAIN table' :
    LET lost == {k \in DOMAIN table : \E b \in bound : Conflict(k, b)} IN
    /\ DOMAIN table' = bound \cup (DOMAIN table \ lost)
    /\ \A k \in DOMAIN table \ lost : table'[k] = table[k]

\* One sequence, and all that begin with it, are unbound, or all that begin
\* with some characters are.
Unbind ==
  \/ \E k \in DOMAIN table : \E i \in 1..Len(k) :
       table' = Without({l \in DOMAIN table : IsPrefix(SubSeq(k, 1, i), l)})
  \/ \E chars \in SUBSET {Head(k) : k \in DOMAIN table} :
       table' = Without({k \in DOMAIN table : Head(k) \in chars})

Restore == table' \in Standard

TableNext == PrefixFree(DOMAIN table') /\ (Bind \/ Unbind \/ Restore)

TableSpec == TableInit /\ [][TableNext]_table
===============================================================================
