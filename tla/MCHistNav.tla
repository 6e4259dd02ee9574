------------------------------ MODULE MCHistNav -------------------------------
(***************************************************************************)
(* Small instances of HistSearch: lines of up to two characters, an undo   *)
(* stack of one, up to two events, arguments that reach past either end of *)
(* the history, and searches of up to four calls.                          *)
(***************************************************************************)
EXTENDS HistSearch

OneEvent == << <<"x">> >>
OneLine == { <<"x", " ">> }
Moves == {"prev-history", "next-history", "search-prev", "search-next"}
Emacs == Moves \cup {"inc-search-prev", "inc-search-next"}
Vi == Moves \cup {"undo", "to-history-line", "undo-line", "vi-search"}

\* Of the last command all that is looked at is whether it typed or searched.
\* The emacs map of these instances has no undo, so there nothing that is
\* checked depends on the stacks, nor on the pattern once no search goes on.
LastKind ==
  IF lastcmd \in {"search-prev", "search-next"} THEN "search"
  ELSE IF lastcmd = "insert" /\ vi THEN "insert" ELSE "other"

View ==
  <<line, hbuf, events, vi, lines, draft, search, failing, lost, LastKind,
    IF vi THEN <<patbuf, undoVars>>
    ELSE IF LastKind = "search" \/ search # <<>> THEN <<patbuf>> ELSE <<>> >>
===============================================================================
