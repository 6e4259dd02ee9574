------------------------------- MODULE History --------------------------------
(***************************************************************************)
(* The history list of src/src/history.c: the calls of history() and the   *)
(* built-in functions behind them, history_def_xxx.  One History object is    *)
(* driven by one caller; the calls do not overlap, so each is one step,    *)
(* except H_LOAD, which enters one line of the file per step because any   *)
(* of those can fail half-way.                                             *)
(*                                                                         *)
(* The circular C list with its header is the sequence list, newest event  *)
(* first (header.next).  The cursor is a pointer to an entry; here it is   *)
(* the number of that entry, 0 when it points to the header.  Texts are    *)
(* sequences of characters, since H_ADD and H_APPEND extend them and the   *)
(* string searches compare prefixes.                                       *)
(***************************************************************************)
EXTENDS Integers, Sequences, SequencesExt

CONSTANTS
  Char,         \* characters of an event's text
  Lines,        \* texts a caller enters, appends and searches for
  MaxText,      \* BOUND: longest text H_ADD and H_APPEND build
  MaxSize,      \* BOUND: largest size given to H_SETSIZE
  MaxId         \* BOUND: last event number before the caller clears

Text == Seq(Char)

ASSUME LinesAssumption == Lines \subseteq Text
ASSUME SizeAssumption == MaxSize \in Nat
ASSUME BoundsAssumption == MaxText \in Nat /\ MaxId \in Nat

VARIABLES
  list,         \* the events, newest first: [num, str]
  cursor,       \* number of the current event, 0 for the header
  max,          \* size set by H_SETSIZE
  eventid,      \* number of the event entered last
  unique,       \* the H_UNIQUE flag
  h_ent,        \* number remembered for H_APPEND, -1 for none
  fns,          \* "builtin" or "user": the functions in the History object
  file,         \* texts of the saved history, in the order written
  loading       \* H_LOAD in progress: its lines still to read; and, auxiliary,
                \* what the list held when it began, the places in the file of
                \* the lines that could not be decoded, and of those entered,
                \* the last one first

defVars == <<list, cursor, eventid>>
optVars == <<max, unique>>
refVars == <<h_ent, fns>>
vars == <<list, cursor, max, eventid, unique, h_ent, fns, file, loading>>

Idle == [busy |-> FALSE, todo |-> <<>>, base |-> <<>>, bad |-> {}, entered |-> <<>>]
Event == [num : Nat, str : Text]

Init ==
  /\ list = <<>>
  /\ cursor = 0
  /\ max = 0
  /\ eventid = 0
  /\ unique = FALSE
  /\ h_ent = -1
  /\ fns = "builtin"
  /\ file = <<>>
  /\ loading = Idle

-------------------------------------------------------------------------------
(* Operators on the list.                                                  *)

Texts(l) == [i \in 1..Len(l) |-> l[i].str]

Live == {list[i].num : i \in 1..Len(list)}

\* Where a number is in the list; only used for a number that is there.
At(n) == CHOOSE i \in 1..Len(list) : list[i].num = n

Newest == IF list = <<>> THEN 0 ELSE list[1].num
Oldest == IF list = <<>> THEN 0 ELSE list[Len(list)].num

\* Mutant: the cursor is left on the entry that is freed.
AfterDelete_Dangling(i) == list[i].num

\* Cursor after the entry under it, at place i, is unlinked: the newer
\* neighbour, or the older one when there is no newer.
AfterDelete(i) ==
  IF i > 1 THEN list[i - 1].num
  ELSE IF Len(list) > 1 THEN list[2].num ELSE 0

\* history_def_enter: a duplicate of the newest event is ignored under
\* H_UNIQUE; otherwise a new event goes in front and the oldest go.
Ignored(s) == unique /\ list # <<>> /\ list[1].str = s

Kept(n) == IF n > max THEN max ELSE n

\* Mutant: the trim starts at the newest event once there are three.
Trim_DropsNewest(l) ==
  IF Len(l) > 2 THEN SubSeq(l, Len(l) - Kept(Len(l)) + 1, Len(l)) ELSE SubSeq(l, 1, Kept(Len(l)))

Trim(l) == SubSeq(l, 1, Kept(Len(l)))

NewEvent(s) == [num |-> eventid + 1, str |-> s]

\* Mutant: a new event is linked at the other end of the list.
DefEnter_AtTail(s) ==
  IF Ignored(s) THEN UNCHANGED defVars
  ELSE /\ eventid' = eventid + 1
       /\ list' = Trim(Append(list, NewEvent(s)))
       /\ cursor' = IF list' = <<>> THEN 0 ELSE list'[1].num

DefEnter(s) ==
  IF Ignored(s) THEN UNCHANGED defVars
  ELSE /\ eventid' = eventid + 1
       /\ list' = Trim(<<NewEvent(s)>> \o list)
       /\ cursor' = IF max = 0 THEN 0 ELSE eventid + 1

\* history_def_set: the cursor ends on event n, or on the header when a
\* non-empty list has no such event.
DefSet(n) == IF list = <<>> THEN cursor ELSE IF n \in Live THEN n ELSE 0

\* Mutant: events with equal text share one string.
SetText_Shared(i, s) ==
  list' = [j \in 1..Len(list) |->
             IF list[j].str = list[i].str THEN [list[j] EXCEPT !.str = s] ELSE list[j]]

SetText(i, s) == list' = [list EXCEPT ![i].str = s]

-------------------------------------------------------------------------------
(* The calls.  All are made between, not during, calls of H_LOAD, and with *)
(* the built-in functions in place.                                        *)

Ready == fns = "builtin" /\ ~loading.busy

Enter(s) ==
  /\ Ready /\ eventid < MaxId
  /\ DefEnter(s)
  /\ h_ent' = IF Ignored(s) THEN 0 ELSE eventid + 1
  /\ UNCHANGED <<optVars, fns, file, loading>>

Add(s) ==
  /\ Ready
  /\ IF cursor = 0
     THEN eventid < MaxId /\ DefEnter(s)
     ELSE LET t == list[At(cursor)].str \o s IN
          /\ Len(t) <= MaxText
          /\ SetText(At(cursor), t)
          /\ UNCHANGED <<cursor, eventid>>
  /\ UNCHANGED <<optVars, refVars, file, loading>>

\* H_APPEND is history_def_set(h_ent) and, if that finds the event, the add.
AppendEntered(s) ==
  /\ Ready
  /\ cursor' = DefSet(h_ent)
  /\ IF h_ent \in Live
     THEN LET t == list[At(h_ent)].str \o s IN
          Len(t) <= MaxText /\ SetText(At(h_ent), t)
     ELSE UNCHANGED list
  /\ UNCHANGED <<eventid, optVars, refVars, file, loading>>

Replace(s) ==
  /\ Ready
  /\ IF cursor = 0 THEN UNCHANGED list ELSE SetText(At(cursor), s)
  /\ UNCHANGED <<cursor, eventid, optVars, refVars, file, loading>>

Delete(i) ==
  /\ list' = RemoveAt(list, i)
  /\ cursor' = AfterDelete(i)

Del(n) ==
  /\ Ready
  /\ IF n \in Live THEN Delete(At(n)) ELSE cursor' = DefSet(n) /\ UNCHANGED list
  /\ UNCHANGED <<eventid, optVars, refVars, file, loading>>

\* history_set_nth and H_DELDATA: places count from the oldest event, 0
\* being the oldest; a negative place also stops there.
Nth(n) == IF n <= 0 THEN Len(list) ELSE Len(list) - n

DelData(n, keep) ==
  /\ Ready
  /\ IF list = <<>> THEN UNCHANGED <<list, cursor>>
     ELSE IF Nth(n) < 1 THEN cursor' = 0 /\ UNCHANGED list
     ELSE IF keep THEN cursor' = list[Nth(n)].num /\ UNCHANGED list
     ELSE Delete(Nth(n))
  /\ UNCHANGED <<eventid, optVars, refVars, file, loading>>

MoveTo(n) ==
  /\ Ready
  /\ cursor' = n
  /\ UNCHANGED <<list, eventid, optVars, refVars, file, loading>>

First == MoveTo(Newest)
LastEvent == MoveTo(Oldest)

NextEvent ==
  /\ cursor # 0 /\ At(cursor) < Len(list)
  /\ MoveTo(list[At(cursor) + 1].num)

PrevEvent ==
  /\ cursor # 0 /\ At(cursor) > 1
  /\ MoveTo(list[At(cursor) - 1].num)

SetEvent(n) == MoveTo(DefSet(n))

\* The walks of H_NEXT_EVENT and H_PREV_STR (towards older events) and of
\* H_PREV_EVENT and H_NEXT_STR (towards newer ones) stop at the first match,
\* or at the end of the list.
WalkOlder(found) ==
  LET here == At(cursor) IN
  \/ \E i \in here..Len(list) :
       /\ list[i] \in found /\ \A j \in here..(i - 1) : list[j] \notin found
       /\ MoveTo(list[i].num)
  \/ (\A i \in here..Len(list) : list[i] \notin found) /\ MoveTo(Oldest)

WalkNewer(found) ==
  LET here == At(cursor) IN
  \/ \E i \in 1..here :
       /\ list[i] \in found /\ \A j \in (i + 1)..here : list[j] \notin found
       /\ MoveTo(list[i].num)
  \/ (\A i \in 1..here : list[i] \notin found) /\ MoveTo(Newest)

Walk(found) == cursor # 0 /\ (WalkOlder(found) \/ WalkNewer(found))

SearchNumber(n) == Walk({e \in ToSet(list) : e.num = n})

SearchText(s) == Walk({e \in ToSet(list) : IsPrefix(s, e.str)})

\* Mutant: the number of the next event is reset as h_ent is, to -1.
Empty_MinusOne ==
  /\ list' = <<>>
  /\ cursor' = 0
  /\ eventid' = -1

Empty ==
  /\ list' = <<>>
  /\ cursor' = 0
  /\ eventid' = 0

Clear ==
  /\ Ready /\ Empty
  /\ UNCHANGED <<optVars, refVars, file, loading>>

\* A smaller size takes effect at the next event entered, not here.
SetSize(n) ==
  /\ Ready
  /\ max' = n
  /\ UNCHANGED <<defVars, unique, refVars, file, loading>>

SetUnique(u) ==
  /\ Ready
  /\ unique' = u
  /\ UNCHANGED <<defVars, max, refVars, file, loading>>

\* history_save_fp: from the place where the walk over n events stopped, or
\* from the oldest event, the events are written up to the newest one.
SaveFrom(n) == IF n < Len(list) THEN n + 1 ELSE Len(list)

SaveWalk(n) ==
  /\ file' = Reverse(Texts(SubSeq(list, 1, SaveFrom(n))))
  /\ cursor' = Newest
  /\ UNCHANGED <<list, eventid, optVars, refVars, loading>>

Save == Ready /\ SaveWalk(Len(list))
SaveLast(n) == Ready /\ SaveWalk(n)

\* The file is truncated before the buffer to write it with is allocated.
SaveFails ==
  /\ Ready
  /\ file' = <<>>
  /\ UNCHANGED <<defVars, optVars, refVars, loading>>

LoadBegin ==
  /\ Ready
  /\ loading' = [Idle EXCEPT !.busy = TRUE, !.todo = file, !.base = Texts(list)]
  /\ UNCHANGED <<defVars, optVars, refVars, file>>

\* The place in the file of the line read next.
LineNo == Len(file) - Len(loading.todo) + 1

\* Mutant: a line is dropped after each one entered, as getline's caller
\* would by reading again in the loop's body.
LoadLine_Skips ==
  /\ loading.busy /\ loading.todo # <<>> /\ eventid < MaxId
  /\ DefEnter(Head(loading.todo))
  /\ loading' = [loading EXCEPT !.todo = SubSeq(@, 3, Len(@)), !.entered = <<LineNo>> \o @]
  /\ UNCHANGED <<optVars, refVars, file>>

\* The bytes of a line may be no text in the locale of the session that loads
\* them, or the buffer to convert them in cannot grow: such a line is passed
\* over and the load goes on.
LoadLine ==
  /\ loading.busy /\ loading.todo # <<>>
  /\ \/ /\ loading' = [loading EXCEPT !.todo = Tail(loading.todo), !.bad = @ \cup {LineNo}]
        /\ UNCHANGED defVars
     \/ /\ eventid < MaxId
        /\ DefEnter(Head(loading.todo))
        /\ loading' = [loading EXCEPT !.todo = Tail(loading.todo), !.entered = <<LineNo>> \o @]
  /\ UNCHANGED <<optVars, refVars, file>>

\* At the end of the file, or when an event cannot be allocated.
LoadEnd ==
  /\ loading.busy
  /\ loading' = Idle
  /\ UNCHANGED <<defVars, optVars, refVars, file>>

\* H_FUNC.  Every function is checked before any is installed; a missing
\* one brings the built-in ones back, with a list of their own.
SetFunctions ==
  /\ ~loading.busy
  /\ IF fns = "builtin" THEN Empty ELSE UNCHANGED defVars
  /\ h_ent' = -1
  /\ fns' = "user"
  /\ UNCHANGED <<optVars, file, loading>>

SetFunctionsFails ==
  /\ ~loading.busy
  /\ h_ent' = -1
  /\ IF fns = "user"
     THEN Empty /\ max' = 0 /\ unique' = FALSE /\ fns' = "builtin"
     ELSE UNCHANGED <<defVars, optVars, fns>>
  /\ UNCHANGED <<file, loading>>

\* history_end, and a new history_init by a later session of the program.
EndAndInit ==
  /\ ~loading.busy
  /\ Empty
  /\ max' = 0 /\ unique' = FALSE
  /\ h_ent' = -1 /\ fns' = "builtin"
  /\ UNCHANGED <<file, loading>>

Numbers == 0..MaxId

Next ==
  \/ \E s \in Lines : Enter(s) \/ Add(s) \/ AppendEntered(s) \/ Replace(s) \/ SearchText(s)
  \/ \E n \in Numbers : Del(n) \/ SetEvent(n) \/ SearchNumber(n) \/ SaveLast(n)
  \/ \E n \in Numbers, keep \in BOOLEAN : DelData(n, keep)
  \/ First \/ LastEvent \/ NextEvent \/ PrevEvent
  \/ Clear
  \/ \E n \in 0..MaxSize : SetSize(n)
  \/ \E u \in BOOLEAN : SetUnique(u)
  \/ Save \/ SaveFails
  \/ LoadBegin \/ LoadLine \/ LoadEnd
  \/ SetFunctions \/ SetFunctionsFails
  \/ EndAndInit

Spec == Init /\ [][Next]_vars

-------------------------------------------------------------------------------
(* Properties.                                                             *)

\* Every variable stays in its range.
TypeOK ==
  /\ list \in Seq(Event)
  /\ cursor \in Nat /\ max \in Nat /\ eventid \in Nat /\ unique \in BOOLEAN
  /\ h_ent \in Int
  /\ fns \in {"builtin", "user"}
  /\ file \in Seq(Text)
  /\ loading \in [busy : BOOLEAN, todo : Seq(Text), base : Seq(Text),
                  bad : SUBSET Int, entered : Seq(Int)]

\* The cursor never dangles: whatever is deleted, trimmed, cleared or taken
\* over by user functions, it points to the header or to an event still in
\* the list (history_def_delete moves it before it frees the entry).
CursorLive == cursor = 0 \/ cursor \in Live

\* Event numbers fall strictly from the newest event to the oldest and were
\* all handed out since the last clear, so a number names one event and
\* the order of the list is the order of entry, although H_CLEAR starts
\* again from 1 and a failing H_FUNC brings in a new list.
NumbersDescend ==
  /\ \A i \in 1..Len(list) : list[i].num \in 1..eventid
  /\ \A i, j \in 1..Len(list) : i < j => list[i].num > list[j].num

\* Half-way through H_LOAD, wherever it may fail, exactly the lines read so
\* far that could be decoded have been entered, in their order, and the list
\* is what they make of the list it began with: the lines newest first in
\* front of it, cut to the size at the oldest end.
LoadedSoFar ==
  LET entered == loading.entered
      all == [k \in 1..Len(entered) |-> file[entered[k]]] \o loading.base
  IN loading.busy =>
       /\ \A k \in 1..Len(entered) : entered[k] \in 1..(LineNo - 1) \ loading.bad
       /\ \A i \in 1..(LineNo - 1) \ loading.bad : \E k \in 1..Len(entered) : entered[k] = i
       /\ \A j, k \in 1..Len(entered) : j < k => entered[j] > entered[k]
       /\ ~unique =>
            Texts(list) = IF entered = <<>> THEN loading.base ELSE SubSeq(all, 1, Kept(Len(all)))

\* H_SETSIZE is only a number, but no call makes the list longer than it.
NeverGrowsPastSize == [][Len(list') > Len(list) => Len(list') <= max']_vars

\* Each call changes the text of at most one surviving event, the one the
\* cursor is on when the call returns (H_ADD, H_REPLACE, and H_APPEND, which
\* moves it there first).
OneEventEdited ==
  [][\A i \in 1..Len(list), j \in 1..Len(list') :
        list[i].num = list'[j].num /\ list[i].str # list'[j].str
          => list[i].num = cursor']_vars

\* The list implements the numbered log of HistoryLog.
Log == INSTANCE HistoryLog WITH
         log <- [n \in Live |-> list[At(n)].str],
         issued <- eventid

ImplementsLog == Log!LogSpec
===============================================================================
