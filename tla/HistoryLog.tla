------------------------------ MODULE HistoryLog ------------------------------
(***************************************************************************)
(* What a history promises to its caller, with nothing of how the list is  *)
(* linked or walked: numbered events that are handed out in increasing     *)
(* order, an event keeps its number and its place for as long as it lives, *)
(* only the oldest events are dropped to make room, and a number is given  *)
(* out again only after the whole history was cleared.                     *)
(***************************************************************************)
EXTENDS Integers

VARIABLES log,          \* number of each live event -> its text
          issued        \* the last number handed out

logVars == <<log, issued>>

LogInit ==
  /\ log = [n \in {} |-> {}]
  /\ issued = 0

Unchanged(n) == log'[n] = log[n]

\* A new event takes the next number; events below some number are dropped.
LogEnter ==
  /\ issued' = issued + 1
  /\ \E oldest \in 1..(issued + 2) :
       DOMAIN log' = {n \in DOMAIN log \cup {issued + 1} : n >= oldest}
  /\ \A n \in DOMAIN log' \ {issued + 1} : Unchanged(n)

\* The text of one live event is replaced or extended.
LogEdit ==
  /\ DOMAIN log' = DOMAIN log
  /\ \E n \in DOMAIN log : \A m \in DOMAIN log \ {n} : Unchanged(m)
  /\ UNCHANGED issued

LogDelete ==
  /\ \E n \in DOMAIN log : log' = [m \in DOMAIN log \ {n} |-> log[m]]
  /\ UNCHANGED issued

LogClear == LogInit'

LogNext == LogEnter \/ LogEdit \/ LogDelete \/ LogClear

LogSpec == LogInit /\ [][LogNext]_logVars
===============================================================================
