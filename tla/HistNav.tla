------------------------------- MODULE HistNav --------------------------------
(***************************************************************************)
(* Moving through the history while a line is edited: hist_get() of        *)
(* src/src/hist.c and the commands that call it (common.c, vi.c), composed *)
(* with the typing and the undo of module Undo.                            *)
(*                                                                         *)
(* el_history.eventno says which event is on the line, 0 for the line the  *)
(* user is typing; that line is kept in el_history.buf while an event is   *)
(* shown.  The history itself is seen through HIST_FIRST and HIST_NEXT,    *)
(* which every command walks from the newest event.                        *)
(***************************************************************************)
EXTENDS Undo

CONSTANTS
  BufSize,      \* EL_BUFSIZ: how much of a line el_history.buf is given
  Windows,      \* el_match() is compiled to answer 0
  EmacsBound,   \* which of the commands below the emacs map binds,
  ViBound,      \* and which the vi map
  OldEvents,    \* the history when the program starts, newest first
  Dropped,      \* how many older events H_SETSIZE has dropped from it
  Kept,         \* BOUND: the lines the application enters in the history,
  MaxEvents,    \* BOUND: and how many events it lets there be
  MaxLines      \* BOUND: lines read

ASSUME BufSizeAssumption == BufSize \in Nat \ {0}
ASSUME NavSwitchAssumption == Windows \in BOOLEAN
ASSUME OldEventsAssumption == OldEvents \in Seq(Seq(Char))
ASSUME NavBoundsAssumption == <<>> \notin Kept /\ Dropped \in Nat /\ MaxEvents \in Nat /\ MaxLines \in Nat

VARIABLES
  hbuf,         \* el_history.buf up to el_history.last
  events,       \* the texts H_FIRST and H_NEXT answer, newest first
  patbuf,       \* el_search.patbuf
  vi,           \* el_map.type = MAP_VI, set by EL_EDITOR before the first line
  lines,        \* lines begun so far
  draft         \* auxiliary: the line of event 0 as it was when last shown

navVars == <<hbuf, events, patbuf, vi, lines>>
allVars == <<vars, navVars, draft>>

NavInit ==
  /\ Init
  /\ hbuf = <<>> /\ patbuf = <<>>
  /\ events = OldEvents
  /\ vi \in BOOLEAN
  /\ lines = 1
  /\ draft = <<>>

-------------------------------------------------------------------------------
(* hist_get.                                                               *)

Shown(text, e) ==
  [text |-> text, cursor |-> IF vi THEN 0 ELSE Len(text), eventno |-> e]

\* One trailing space is dropped from the event (a newline before it, too).
Trimmed(t) == IF t # <<>> /\ Last(t) = " " THEN Front(t) ELSE t

HasEvent(e) == e = 0 \/ e \in 1..Len(events)

\* Mutant: eventno stays at the event asked for when it does not exist.
Stopped_AsAsked(e) == e

\* Where hist_get leaves eventno when there is no event e: at the oldest, or,
\* when there is no event at all, at what was asked for.
Stopped(e) == IF events = <<>> THEN e ELSE Len(events)

\* What hist_get leaves of line l when asked for event e with saved buffer b.
\* BOUND: there is memory for an event longer than the line's buffer.
HistGet(l, e, b) ==
  IF e = 0 THEN Shown(b, 0)
  ELSE IF HasEvent(e) THEN Shown(Trimmed(events[e]), e)
  ELSE [l EXCEPT !.eventno = Stopped(e)]

\* What wcsncpy makes of a text: EL_BUFSIZ characters of it, and none behind a
\* NUL.  There are NULs in the rest of el_history.buf, and last is set as if
\* all had been copied.
NoNul(t, from, to) == \A k \in from..to : t[k] # "nul"

Copied(t) ==
  [i \in DOMAIN t |-> IF i <= BufSize /\ NoNul(t, 1, i) THEN t[i] ELSE "nul"]

\* What may come back of a text, and a text that was not cut.
Back(t) == {t, Copied(t)}
Whole(t) == NoNul(t, 1, Len(t))

\* Mutant: the typed line is saved only when el_history.buf is still empty.
SaveLine_Once(l) == IF l.eventno = 0 /\ hbuf = <<>> THEN Copied(l.text) ELSE hbuf

\* The line is saved when it is left for an event.
SaveLine(l) == IF l.eventno = 0 THEN Copied(l.text) ELSE hbuf

-------------------------------------------------------------------------------
(* The commands.  Each is a turn of the dispatch loop; none of them types. *)

Commands == IF vi THEN ViBound ELSE EmacsBound

Navigate(name, new) ==
  /\ name \in Commands /\ ~half
  /\ Turn(name, "key", new)
  /\ draft' = IF line.eventno = 0 /\ new.eventno = 0 THEN new.text ELSE draft
  /\ UNCHANGED <<inputmode, half, events, vi, lines>>

\* ed_prev_history with an argument: after a first failure vi goes back to
\* where it was, emacs to the event hist_get stopped at.
PrevTarget(e) ==
  IF HasEvent(e) THEN e
  ELSE IF vi THEN line.eventno
  ELSE Stopped(e)

PrevHistory(arg) ==
  /\ hbuf' = SaveLine(line)
  /\ Navigate("prev-history",
       HistGet(line, PrevTarget(line.eventno + arg), SaveLine(line)))
  /\ UNCHANGED patbuf

NextHistory(arg) ==
  /\ LET e == IF line.eventno > arg THEN line.eventno - arg ELSE 0
     IN Navigate("next-history", HistGet(line, e, hbuf))
  /\ UNCHANGED <<hbuf, patbuf>>

\* el_match: a substring of what is before a NUL (the regular expression is
\* abstracted to that).
Occurs(t, p) ==
  \E i \in 0..(Len(t) - Len(p)) :
    SubSeq(t, i + 1, i + Len(p)) = p /\ NoNul(t, 1, i)
Matches(t, p) == ~Windows /\ Occurs(t, p)

\* c_setpat: the text before the cursor, unless a search came just before.
Pattern == 
  IF lastcmd \in {"search-prev", "search-next"} THEN patbuf
  ELSE SubSeq(line.text, 1, line.cursor)

\* The events that differ from line l and match pattern p.
Candidates(places, l, p) ==
  {e \in places : Matches(events[e], p) /\ events[e] # l.text}

\* The event nearest to that of l going to older ones, or back; going back, it
\* may be the saved line that matches.
NotFound == -1

OlderHit(l, p) ==
  LET found == Candidates((l.eventno + 1)..Len(events), l, p)
  IN IF found = {} THEN NotFound ELSE CHOOSE e \in found : \A f \in found : e <= f

NewerHit(l, p) ==
  LET found == Candidates(1..(IF l.eventno > Len(events) + 1 THEN Len(events)
                              ELSE l.eventno - 1), l, p)
  IN IF l.eventno = 0 \/ events = <<>> THEN NotFound
     ELSE IF found # {} THEN CHOOSE e \in found : \A f \in found : e >= f
     ELSE IF Matches(hbuf, p) THEN 0
     ELSE NotFound

\* BOUND: a line that has come back cut is not searched from.  The comparison
\* with an event goes by its length, and reads behind the end of the event.
Hit(e, b) == IF e = NotFound THEN line ELSE HistGet(line, e, b)

SearchPrev ==
  /\ Whole(line.text)
  /\ hbuf' = SaveLine(line)
  /\ patbuf' = IF events = <<>> THEN patbuf ELSE Pattern
  /\ Navigate("search-prev", Hit(OlderHit(line, Pattern), SaveLine(line)))

SearchNext ==
  /\ Whole(line.text)
  /\ patbuf' = IF line.eventno = 0 \/ events = <<>> THEN patbuf ELSE Pattern
  /\ Navigate("search-next", Hit(NewerHit(line, Pattern), hbuf))
  /\ UNCHANGED hbuf

\* vi_to_history_line without a count: the oldest event.  The first hist_get
\* asks for far too old an event to learn which is the oldest.
ToOldest ==
  /\ hbuf' = SaveLine(line)
  /\ Navigate("to-history-line",
       IF events = <<>> THEN line ELSE HistGet(line, Len(events), SaveLine(line)))
  /\ UNCHANGED patbuf

\* With a count: event numbers count upwards from the oldest, eventno from
\* the newest, so the newest event is fetched for its number.
NewestNumber == Dropped + Len(events)

ToNumber(arg) ==
  /\ hbuf' = SaveLine(line)
  /\ LET e == 1 + NewestNumber - arg
         first == HistGet(line, 1, SaveLine(line))
     IN Navigate("to-history-line",
          IF events = <<>> THEN first
          ELSE IF e >= 0 /\ HasEvent(e) THEN HistGet(line, e, SaveLine(line))
          ELSE [first EXCEPT !.eventno = line.eventno])
  /\ UNCHANGED patbuf

\* vi_undo_line is hist_get and nothing else.
UndoLine ==
  /\ Navigate("undo-line", HistGet(line, line.eventno, hbuf))
  /\ UNCHANGED <<hbuf, patbuf>>

\* Typing, erasing and undoing change the draft when they act on it.
Draft == draft' = IF line'.eventno = 0 THEN line'.text ELSE draft

EditDraft ==
  /\ \/ \E c \in Keys : Type(c)
     \/ \E n \in 1..MaxLen : Erase(n)
     \/ "undo" \in Commands /\ (UndoCommand \/ RedoCommand)
  /\ Draft
  /\ UNCHANGED navVars

\* The line is accepted; the application may enter it in the history before
\* it reads the next one, which starts with ch_reset.  That leaves hbuf alone.
Accept(keep) ==
  /\ lines < MaxLines /\ lines' = lines + 1
  /\ NewLine
  /\ keep => line.text \in Kept /\ Len(events) < MaxEvents
  /\ events' = IF keep THEN <<line.text>> \o events ELSE events
  /\ draft' = <<>>
  /\ UNCHANGED <<hbuf, patbuf, vi>>

Args == 1..(MaxEvents + 1)

NavNext ==
  \/ EditDraft
  \/ \E arg \in Args : PrevHistory(arg) \/ NextHistory(arg) \/ ToNumber(arg)
  \/ SearchPrev \/ SearchNext
  \/ ToOldest
  \/ UndoLine
  \/ \E keep \in BOOLEAN : Accept(keep)

NavSpec == NavInit /\ [][NavNext]_allVars

-------------------------------------------------------------------------------
(* Properties.                                                             *)

\* Where there is a history, eventno names one of its events or the line
\* being typed, whatever was asked for and whatever undo brought back.  In the
\* emacs map that takes a history from the start: without one hist_get leaves
\* eventno at what was asked for, ch_reset keeps that in the undo record of the
\* next line, and an undo brings it back when there are events.
EventnoInRange ==
  events # <<>> /\ (vi \/ OldEvents # <<>>) => line.eventno \in 0..Len(events)

\* In the emacs map a line left for an event comes back as it was left,
\* however the user got to the event, edited it, searched from it and
\* returned: until then it is in el_history.buf.  A line longer than EL_BUFSIZ
\* comes back with its length and as much of its text as was copied.  Undo and
\* redo step from the line to an event and back without saving it, so where
\* they are bound this is not promised.
DraftKept ==
  ~vi /\ "undo" \notin Commands =>
    (IF line.eventno = 0 THEN line.text ELSE hbuf) \in Back(draft)

===============================================================================
