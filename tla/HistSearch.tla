------------------------------ MODULE HistSearch -------------------------------
(***************************************************************************)
(* The incremental search of the emacs map and the search of the vi map,   *)
(* ce_inc_search() and cv_search() in src/src/search.c, composed with the  *)
(* commands of HistNav.                                                    *)
(*                                                                         *)
(* ce_inc_search reads keys in a loop of its own and calls itself for each  *)
(* key that does not end it, so that erasing a key is to return: a frame   *)
(* is one such call, and its variables say where its search began.  The    *)
(* prompt it writes behind the line goes again with each key and is left   *)
(* out.  The pattern is what was typed between two ".*".                   *)
(***************************************************************************)
EXTENDS HistNav

CONSTANTS
  PatternKeys,  \* BOUND: the characters typed into a pattern
  MaxPattern,   \* BOUND: longest pattern typed
  MaxDepth      \* BOUND: calls of ce_inc_search within each other

ASSUME SearchBoundsAssumption ==
  PatternKeys \subseteq Keys /\ MaxPattern \in Nat /\ MaxDepth \in Nat

VARIABLES
  search,       \* the calls, the outermost first; none when no search runs
  failing,      \* pchar is '?', it is kept from one search to the next
  lost          \* auxiliary: a search has written over a line nobody saved

searchVars == <<search, failing, lost>>
allSearchVars == <<allVars, searchVars>>

SearchInit == NavInit /\ search = <<>> /\ failing = FALSE /\ lost = FALSE

Wild == <<".", "*">>
Typed(pat) == SubSeq(pat, Len(Wild) + 1, Len(pat))

\* What a call has to put back; the text is auxiliary, hist_get gets it again.
Frame(dir, l, pat, failed) ==
  [dir |-> dir, newdir |-> dir, line |-> l, pat |-> pat, failed |-> failed]

State(l, pat, failed) == [line |-> l, pat |-> pat, failing |-> failed]

\* The first round of a call: an empty pattern cannot have failed.
FirstRound(s) == IF s.pat = <<>> THEN State(s.line, Wild, FALSE) ELSE s

-------------------------------------------------------------------------------
(* Leaving a call.                                                         *)

\* Mutant: the cursor goes back, and the event the search found stays.
PutBack_CursorOnly(f, l, b) == [l EXCEPT !.cursor = f.line.cursor]

\* The event and the cursor of the call; the text comes from hist_get if
\* another event is on the line.
PutBack(f, l, b) ==
  [(IF l.eventno = f.line.eventno THEN l ELSE HistGet(l, f.line.eventno, b))
     EXCEPT !.cursor = f.line.cursor]

\* "restore on normal return or error exit": an error gives back only what
\* the outermost call began with.
Left(ret, f, s) ==
  IF ret = "norm" \/ (ret = "error" /\ f.pat = <<>>)
  THEN State(PutBack(f, s.line, hbuf), f.pat, f.failed)
  ELSE s

\* The calls that take what is returned to them for a normal return, and read
\* on: the caller, if it is one; and aborting a search that fails goes back to
\* where it had not failed.
Takers(ret, frames, s) ==
  {i \in DOMAIN frames : ret = "norm" \/ (ret = "error" /\ s.failing /\ ~frames[i].failed)}

\* What the last of the frames is returned goes up to the nearest of these, or
\* out of all of them.  On the way only the outermost puts something back.
Return(ret, frames, s) ==
  LET takers == Takers(ret, frames, s)
      i == CHOOSE j \in takers : \A k \in takers : j >= k
  IN IF takers # {}
     THEN [frames |-> SubSeq(frames, 1, i), state |-> FirstRound(Left("norm", frames[i], s))]
     ELSE [frames |-> <<>>, state |-> IF frames = <<>> THEN s ELSE Left(ret, frames[1], s)]

Aside == UNCHANGED <<inputmode, half, events, vi, lines, draft>>

\* The loop of the caller, or of the program, goes on; in the latter case the
\* command is over and its turn ends as any other.
GoOn(frames, s) ==
  /\ search' = frames /\ patbuf' = s.pat /\ failing' = s.failing
  /\ IF frames = <<>> THEN Turn("inc-search", "key", s.line)
     ELSE line' = s.line /\ UNCHANGED <<undoVars, lastcmd, short, slipped>>
  /\ Aside

Leave(ret) ==
  LET now == Left(ret, Last(search), State(line, patbuf, failing))
      back == Return(ret, Front(search), now)
  IN GoOn(back.frames, back.state) /\ UNCHANGED <<hbuf, lost>>

-------------------------------------------------------------------------------
(* Searching.                                                              *)

\* ce_search_line: the places of the line at which the pattern is.
Places(dir, l, typed) ==
  {i \in 0..(Len(l.text) - 1) :
     /\ l.cursor \in 0..Len(l.text)
     /\ IF dir = "prev" THEN i <= l.cursor
        ELSE i >= l.cursor /\ NoNul(l.text, l.cursor + 1, i)
     /\ ~Windows /\ IsPrefix(typed, SubSeq(l.text, i + 1, Len(l.text)))}

Nearest(dir, places) ==
  CHOOSE i \in places : \A j \in places : IF dir = "prev" THEN i >= j ELSE i <= j

InLine(dir, l, typed) ==
  IF Places(dir, l, typed) = {} THEN l
  ELSE [l EXCEPT !.cursor = Nearest(dir, Places(dir, l, typed))]

Edge(dir, l) == [l EXCEPT !.cursor = IF dir = "prev" THEN Len(l.text) ELSE 0]

\* A key that asks for more of the same goes one place on; when that had
\* failed it starts again, at the line typed or at the oldest event, which
\* takes two calls of hist_get.
Repeated(dir, again) == again /\ dir = Last(search).dir

Onward(dir, again) ==
  IF ~Repeated(dir, again) THEN line
  ELSE IF failing
       THEN Edge(dir, HistGet(line, IF dir = "prev" THEN 0 ELSE Len(events), hbuf))
  ELSE [line EXCEPT !.cursor = IF dir = "prev" THEN @ - 1 ELSE @ + 1]

\* What a search from line l finds, once hist_get has b to give for event 0:
\* a place in l, an event, or nothing.
Outcome(dir, l, pat, b) ==
  LET hit == IF dir = "prev" THEN OlderHit(l, Typed(pat)) ELSE NewerHit(l, Typed(pat))
  IN IF Places(dir, l, Typed(pat)) # {} THEN State(InLine(dir, l, Typed(pat)), pat, FALSE)
     ELSE IF hit = NotFound THEN State(PutBack(Last(search), l, b), pat, TRUE)
     ELSE State(InLine(dir, Edge(dir, HistGet(l, hit, b)), Typed(pat)), pat, FALSE)

\* ed_search_prev_history saves the line, ed_search_next_history does not.
SavedBy(dir, l, pat) ==
  IF dir = "prev" /\ Places(dir, l, Typed(pat)) = {} THEN SaveLine(l) ELSE hbuf

\* A key that does not end the call: the pattern is searched for, if there is
\* one, and the function calls itself.
Continue(dir, again, pat) ==
  /\ Len(search) < MaxDepth /\ Len(Typed(pat)) <= MaxPattern
  /\ LET from == Onward(dir, again)
         none == Typed(pat) = <<>>
         b == IF none THEN hbuf ELSE SavedBy(dir, from, pat)
         s == IF none THEN State(line, pat, failing) ELSE Outcome(dir, from, pat, b)
     IN /\ none \/ Whole(from.text)   \* BOUND: as for SearchPrev and SearchNext
        /\ hbuf' = b
        /\ lost' = (lost \/ (~none /\ Repeated(dir, again) /\ failing
                              /\ line.eventno = 0 /\ hbuf \notin Back(line.text)))
        /\ GoOn(Append([search EXCEPT ![Len(search)].newdir = dir],
                       Frame(dir, s.line, s.pat, s.failing)), s)

\* em_inc_search_prev and em_inc_search_next.
IncSearch(dir) ==
  /\ search = <<>> /\ ~half
  /\ "inc-search-" \o dir \in Commands
  /\ events # <<>>   \* BOUND
  /\ search' = <<Frame(dir, line, <<>>, failing)>>
  /\ patbuf' = Wild /\ failing' = FALSE
  /\ UNCHANGED <<line, undoVars, lastcmd, short, slipped, hbuf, lost>>
  /\ Aside

-------------------------------------------------------------------------------
(* The keys.                                                               *)

Going == search # <<>>
Direction == Last(search).newdir

SearchKey(c) == Going /\ Continue(Direction, FALSE, Append(patbuf, c))

SearchAgain(dir) ==
  Going /\ "inc-search-" \o dir \in Commands /\ Continue(dir, TRUE, patbuf)

\* ^W: what is left of the word under the end of the match; the cursor is put
\* where the call began.
WordEnd(t, p) ==
  LET start == SelectInSubSeq(t, p + 1, Len(t), LAMBDA c : c # " ")
      stop == SelectInSubSeq(t, start, Len(t), LAMBDA c : c = " ")
  IN IF start = 0 THEN Len(t) ELSE IF stop = 0 THEN Len(t) ELSE stop - 1

SearchWord ==
  /\ Going
  /\ LET p == line.cursor + Len(Typed(patbuf)) - 1
         word == IF line.cursor = 0 THEN <<>> ELSE SubSeq(line.text, p + 1, WordEnd(line.text, p))
     IN /\ line.cursor = 0 \/ p <= Len(line.text)   \* BOUND: not of the prompt
        /\ Continue(Direction, FALSE, patbuf \o word)

\* Erasing a key is to return; with none typed it only beeps.
SearchErase ==
  /\ Going
  /\ IF Typed(patbuf) # <<>> THEN Leave("norm") ELSE Continue(Direction, FALSE, patbuf)

SearchAbort == Going /\ Leave("error")

\* ESC, or any other command, whose key is pushed back.
SearchEnd == Going /\ Leave("refresh")

\* No more input: the end of file goes up to el_wgets.
SearchEof ==
  /\ Going /\ search' = <<>>
  /\ Accept(FALSE)
  /\ lost' = FALSE /\ UNCHANGED failing

-------------------------------------------------------------------------------
(* cv_search, the search of the vi map.  c_gets reads the pattern where the *)
(* line was, so the line is gone whatever comes of it.  An empty pattern is *)
(* the last one; ESC at its end accepts the line found, as the next command *)
(* would.                                                                  *)

Emptied == [line EXCEPT !.text = <<>>, !.cursor = 0]

ViSearch(dir, typed) ==
  LET p == IF typed = <<>> THEN patbuf ELSE typed
      b == IF dir = "prev" /\ p # <<>> THEN SaveLine(Emptied) ELSE hbuf
      e == IF p = <<>> THEN NotFound
           ELSE IF dir = "prev" THEN OlderHit(Emptied, p) ELSE NewerHit(Emptied, p)
  IN /\ hbuf' = b /\ patbuf' = p
     /\ Navigate("vi-search", IF e = NotFound THEN Emptied ELSE HistGet(Emptied, e, b))

ViSearchCancelled == Navigate("vi-search", Emptied) /\ UNCHANGED <<hbuf, patbuf>>

ViSearchStep ==
  /\ ~Going
  /\ \/ \E dir \in {"prev", "next"}, typed \in BoundedSeq(PatternKeys, MaxPattern) :
          ViSearch(dir, typed)
     \/ ViSearchCancelled
  /\ UNCHANGED searchVars

SearchStep ==
  \/ \E dir \in {"prev", "next"} : IncSearch(dir) \/ SearchAgain(dir)
  \/ \E c \in PatternKeys : SearchKey(c)
  \/ SearchWord \/ SearchErase \/ SearchAbort \/ SearchEnd \/ SearchEof

\* BOUND: where an abort has left the cursor behind the end of the line, the
\* line is searched from or accepted, and what typing would show there is not
\* modelled.
Placed == line.cursor <= Len(line.text)

SearchNextState ==
  \/ /\ ~Going
     /\ IF Placed THEN NavNext ELSE \E keep \in BOOLEAN : Accept(keep)
     /\ lost' = (lost /\ lines' = lines)
     /\ UNCHANGED <<search, failing>>
  \/ SearchStep
  \/ ViSearchStep

SearchSpec == SearchInit /\ [][SearchNextState]_allSearchVars

-------------------------------------------------------------------------------
(* Properties.                                                             *)

\* The line a user types is on the line or in el_history.buf also while a
\* search runs and after it, unless a search that failed going back starts
\* again at the oldest event: that one has not saved the line.  Where cv_search
\* is bound it is not promised, that one reads its pattern over the line.
DraftFound == lost \/ "vi-search" \in Commands \/ DraftKept

\* A search that is aborted, or whose every key is erased, gives back the line
\* with its cursor, wherever it had gone, or as much of it as el_history.buf
\* was given.  Not so for an event that was edited, which hist_get fetches as
\* it was entered, if there is one of its number, nor for a line that was lost.
Cut(l) == IF l.eventno = 0 THEN [l EXCEPT !.text = Copied(@)] ELSE l

Edited(f) ==
  LET e == f.line.eventno
  IN e # 0 /\ (e \notin 1..Len(events) \/ f.line.text # Trimmed(events[e]))

AbortReturns ==
  [][Going /\ search' = <<>> /\ patbuf' = <<>> =>
       line' \in {search[1].line, Cut(search[1].line)} \/ lost \/ Edited(search[1])]_allSearchVars

===============================================================================
