------------------------------- MODULE RlHistory -------------------------------
(***************************************************************************)
(* The history of the readline interface (readline.c): three numbers kept  *)
(* beside one History object, which each function here uses through one or *)
(* several calls of history().  List, cursor and size are those of         *)
(* History.  An event has a number there; a place, counted from the oldest *)
(* event, which is 0; and a number of readline, its place plus             *)
(* history_base.                                                           *)
(***************************************************************************)
EXTENDS History

CONSTANTS
  IntMax,       \* INT_MAX, the size of a history that is not stifled
  MaxPlace,     \* BOUND: places and numbers asked for, the base and the offset
  MaxFile       \* BOUND: lines of a file

ASSUME IntMaxAssumption == IntMax \in Nat \ {0}

VARIABLES
  history_length,
  history_offset,       \* what next_history and previous_history count
  history_base

counters == <<history_length, history_offset, history_base>>
rlVars == <<vars, counters>>

Places == 0..MaxPlace

\* The first line of a saved history.
Cookie == <<"#">>

ASSUME CookieAssumption == Cookie \in Text

\* rl_initialize before anything else.
RlInit ==
  /\ list = <<>> /\ cursor = 0 /\ eventid = 0
  /\ max = IntMax /\ unique = FALSE
  /\ h_ent = -1 /\ fns = "builtin"
  /\ file = <<>> /\ loading = Idle
  /\ history_length = 0 /\ history_offset = 0 /\ history_base = 1

-------------------------------------------------------------------------------
(* Walks of the cursor, as functions of the event they begin at.           *)

Containing(s) == {e \in ToSet(list) : \E i \in 0..Len(e.str) : IsPrefix(s, SubSeq(e.str, i + 1, Len(e.str)))}
Beginning(s) == {e \in ToSet(list) : IsPrefix(s, e.str)}
Numbered(n) == {e \in ToSet(list) : e.num = n}

\* The number of the first of these events on the way, 0 for none.
OlderHit(c, found) == Max({0} \cup {e.num : e \in {f \in found : f.num <= c}})
NewerHit(c, found) ==
  LET hits == {e.num : e \in {f \in found : f.num >= c}} IN IF hits = {} THEN 0 ELSE Min(hits)

\* Where a walk that goes that way stops.
Stop(hit, end) == IF hit = 0 THEN end ELSE hit

\* H_DELDATA that deletes nothing: the place is counted down from the oldest.
AtPlace(n) ==
  IF list = <<>> THEN cursor ELSE IF Nth(n) < 1 THEN 0 ELSE list[Nth(n)].num

\* Only the cursor moves.
Looks(c) == Ready /\ cursor' = c /\ UNCHANGED <<list, eventid, optVars, refVars, file, loading>>
Counts == UNCHANGED counters

-------------------------------------------------------------------------------
(* The functions that change the list.                                     *)

\* H_ENTER.  Which event H_APPEND would go to is not kept: nothing here asks.
Entered(s) ==
  /\ Ready /\ eventid < MaxId
  /\ DefEnter(s)
  /\ UNCHANGED <<optVars, refVars, file, loading>>

\* Mutant: the base stays when the oldest event made room for the new one.
AddHistory_KeepsBase(s) ==
  /\ Entered(s) /\ history_base < MaxPlace /\ history_offset < MaxPlace
  /\ UNCHANGED history_base
  /\ IF Len(list') = history_length
     THEN UNCHANGED <<history_offset, history_length>>
     ELSE /\ history_offset' = history_offset + 1
          /\ history_length' = Len(list')

AddHistory(s) ==
  /\ Entered(s) /\ history_base < MaxPlace /\ history_offset < MaxPlace
  /\ IF Len(list') = history_length
     THEN /\ history_base' = history_base + 1
          /\ UNCHANGED <<history_offset, history_length>>
     ELSE /\ history_offset' = history_offset + 1
          /\ history_length' = Len(list')
          /\ UNCHANGED history_base

\* Mutant: the length is not asked for again.
RemoveHistory_Uncounted(n) ==
  /\ DelData(n, FALSE)
  /\ UNCHANGED <<history_length, history_offset, history_base>>

\* remove_history.  A place that is not there leaves the cursor on the header.
RemoveHistory(n) ==
  /\ DelData(n, FALSE)
  /\ history_length' = IF list' # list THEN Len(list') ELSE history_length
  /\ UNCHANGED <<history_offset, history_base>>

\* stifle_history: the oldest events are removed one by one, each time with
\* the cursor on the one that goes.  The first goes also where the length said
\* there were more events than there are; where there is none, it is used all
\* the same (a NULL pointer), and the program ends.
Stifle(n) ==
  /\ Ready
  /\ max' = n
  /\ LET over == history_length > n
         left == IF n < Len(list) THEN n ELSE Len(list) - 1
     IN /\ over => list # <<>>
        /\ list' = IF over THEN SubSeq(list, 1, left) ELSE list
        /\ cursor' = IF over THEN (IF left = 0 THEN 0 ELSE list[left].num) ELSE cursor
        /\ history_base' = IF over THEN history_length - n ELSE history_base
        /\ history_length' = IF over THEN left ELSE history_length
  /\ UNCHANGED <<eventid, unique, refVars, file, loading, history_offset>>

Unstifle ==
  /\ Ready
  /\ max' = IntMax
  /\ UNCHANGED <<defVars, unique, refVars, file, loading>> /\ Counts

\* clear_history.  The base stays.
ClearHistory ==
  /\ Clear
  /\ history_offset' = 0 /\ history_length' = 0
  /\ UNCHANGED history_base

\* replace_history_entry looks for the event of that number, not place, from
\* the oldest on; where there is none the cursor stays where the walk ended.
ReplaceEntry(n, s) ==
  /\ Ready /\ cursor # 0
  /\ LET hit == NewerHit(Oldest, Numbered(n))
     IN IF hit = 0 THEN cursor' = Newest /\ UNCHANGED list
        ELSE cursor' = DefSet(cursor) /\ SetText(At(hit), s)
  /\ UNCHANGED <<eventid, optVars, refVars, file, loading>> /\ Counts

\* rl_initialize called again.
Initialize ==
  /\ Ready
  /\ Empty
  /\ max' = IntMax
  /\ history_length' = 0
  /\ UNCHANGED <<unique, refVars, file, loading, history_offset, history_base>>

-------------------------------------------------------------------------------
(* Files.                                                                  *)

WriteHistory ==
  /\ Ready /\ Len(list) < MaxFile
  /\ file' = <<Cookie>> \o Reverse(Texts(list))
  /\ cursor' = Newest
  /\ UNCHANGED <<list, eventid, optVars, refVars, loading>> /\ Counts

\* append_history.  Whether the position of a file just opened to append is 0,
\* and the cookie is written again, is left to the C library.
AppendHistory(n) ==
  /\ Ready
  /\ \E again \in BOOLEAN :
       /\ file = <<>> => again
       /\ file' = file \o (IF again THEN <<Cookie>> ELSE <<>>)
                       \o Reverse(Texts(SubSeq(list, 1, SaveFrom(n))))
       /\ Len(file') <= MaxFile
  /\ cursor' = Newest
  /\ UNCHANGED <<list, eventid, optVars, refVars, loading>> /\ Counts

\* Where the lines are that a load enters: behind the first, in their order,
\* without those that cannot be decoded and those after a failure.
Taken(n) ==
  {at \in [1..n -> 2..Len(file)] : \A i, j \in 1..n : i < j => at[i] < at[j]}

\* read_history: where H_LOAD fails the length is not asked for.
ReadHistory ==
  /\ Ready /\ file # <<>>
  /\ \E n \in 0..(Len(file) - 1), ok \in BOOLEAN : \E at \in Taken(n) :
       LET new == [i \in 1..n |-> [num |-> eventid + i, str |-> file[at[i]]]]
       IN /\ eventid + n <= MaxId
          /\ eventid' = eventid + n
          /\ list' = IF n = 0 THEN list ELSE Trim(Reverse(new) \o list)
          /\ cursor' = IF n = 0 THEN cursor ELSE IF list' = <<>> THEN 0 ELSE list'[1].num
          /\ history_length' = IF ok THEN Len(list') ELSE history_length
  /\ UNCHANGED <<optVars, refVars, file, loading, history_offset, history_base>>

-------------------------------------------------------------------------------
(* The position.                                                           *)

UsingHistory ==
  /\ Ready
  /\ history_offset' = history_length
  /\ UNCHANGED <<vars, history_length, history_base>>

SetPos(n) ==
  /\ Ready /\ n < history_length
  /\ history_offset' = n
  /\ UNCHANGED <<vars, history_length, history_base>>

\* current_history: the event whose number is one more than the offset, looked
\* for towards the newest.
CurrentHistory ==
  /\ cursor # 0
  /\ Looks(Stop(NewerHit(cursor, Numbered(history_offset + 1)), Newest)) /\ Counts

Steps(n) ==
  /\ history_offset' = n
  /\ Looks(Stop(NewerHit(Oldest, Numbered(n + 1)), Newest))
  /\ UNCHANGED <<history_length, history_base>>

PreviousHistory == history_offset # 0 /\ list # <<>> /\ Steps(history_offset - 1)
NextHistory == history_offset < history_length /\ list # <<>> /\ Steps(history_offset + 1)

-------------------------------------------------------------------------------
(* The functions that only look, and set the cursor back.                  *)

\* Mutant: the cursor is not set back where the place is not there.
HistoryGet_Strays(n) ==
  /\ n >= history_base /\ cursor # 0
  /\ LET there == AtPlace(n - history_base)
     IN Looks(IF there = 0 THEN there ELSE DefSet(cursor))
  /\ Counts

HistoryGet(n) ==
  /\ n >= history_base /\ cursor # 0
  /\ LET there == AtPlace(n - history_base)
     IN Looks(IF there = cursor THEN there ELSE DefSet(cursor))
  /\ Counts

\* history_list ends on the newest event; it has room for history_length, and
\* aborts the program where there are more.
HistoryList == list # <<>> /\ Len(list) <= history_length /\ Looks(Newest) /\ Counts

\* history_total_bytes: to the oldest, and back towards the newest.
TotalBytes == cursor # 0 /\ Looks(Stop(NewerHit(Oldest, Numbered(cursor)), Newest)) /\ Counts

\* history_search, either way: to what is found, or back.
Search(s) ==
  /\ cursor # 0
  /\ \/ Looks(Stop(OlderHit(cursor, Containing(s)), DefSet(cursor)))
     \/ Looks(Stop(NewerHit(cursor, Containing(s)), DefSet(cursor)))
  /\ Counts

SearchPrefix(s) ==
  /\ cursor # 0
  /\ \/ Looks(Stop(OlderHit(cursor, Beginning(s)), Oldest))
     \/ Looks(Stop(NewerHit(cursor, Beginning(s)), Newest))
  /\ Counts

\* history_search_pos: the position is set and not the cursor, from where the
\* search begins; what is not found is walked back from.
SearchPos(s, n) ==
  /\ cursor # 0 /\ n < history_length
  /\ history_offset' = n
  /\ \/ n # 0 /\ Looks(Stop(OlderHit(cursor, Containing(s)), NewerHit(Oldest, Numbered(cursor))))
     \/ Looks(Stop(NewerHit(cursor, Containing(s)), OlderHit(Newest, Numbered(cursor))))
  /\ UNCHANGED <<history_length, history_base>>

-------------------------------------------------------------------------------
(* get_history_event: an event of a line that is expanded.                 *)

\* !!
EventLast == list # <<>> /\ Looks(Newest) /\ Counts

\* !n and !-n.
EventNumber(n) == HistoryGet(n) \/ (n <= history_length /\ HistoryGet(history_length - n + history_base))

\* !text and !?text?; where that is empty the text of an earlier one stands for
\* it, last_search_pat, which is one of these too.
EventText(s) ==
  /\ cursor # 0
  /\ Looks(IF OlderHit(cursor, Beginning(s)) = 0 THEN Newest ELSE DefSet(cursor))
  /\ Counts

EventContains(s) ==
  /\ cursor # 0
  /\ Looks(IF OlderHit(cursor, Containing(s)) = 0 THEN Newest ELSE DefSet(cursor))
  /\ Counts

Changes ==
  \/ \E s \in Lines : AddHistory(s) \/ (\E n \in Places : ReplaceEntry(n, s))
  \/ \E n \in Places : RemoveHistory(n)
  \/ \E n \in 0..MaxSize : Stifle(n)
  \/ Unstifle \/ ClearHistory \/ Initialize
  \/ WriteHistory \/ ReadHistory \/ \E n \in Places : AppendHistory(n)

Moves ==
  \/ UsingHistory \/ CurrentHistory \/ PreviousHistory \/ NextHistory
  \/ HistoryList \/ EventLast
  \/ \E n \in Places : SetPos(n)
  \/ \E s \in Lines : Search(s) \/ SearchPrefix(s) \/ (\E n \in Places : SearchPos(s, n))

Asks ==
  \/ TotalBytes
  \/ \E n \in Places : HistoryGet(n) \/ EventNumber(n)
  \/ \E s \in Lines : EventText(s) \/ EventContains(s)

RlNext == Changes \/ Moves \/ Asks

RlSpec == RlInit /\ [][RlNext]_rlVars

-------------------------------------------------------------------------------
(* Properties.                                                             *)

\* history_list makes room for history_length events and aborts when it meets
\* one more.  Through every order of calls the length is that of the list; it
\* comes apart from it only where a read of a file fails half-way.
LengthExact ==
  [][history_length' # Len(list') => history_length # Len(list) \/ ReadHistory]_rlVars

\* Adding an event, with the oldest one dropped for it or not, changes
\* for no event that stays the number under which history_get answers it; and
\* a position at the end of the history is still there.  (Not so after a read
\* failed half-way: the list may then be longer than its size.)
Place(l, i) == Len(l) - i

NumbersStay ==
  [][eventid' # eventid /\ (\E s \in Lines : AddHistory(s)) /\ history_length = Len(list) /\ Len(list) <= max =>
       /\ \A i \in 1..Len(list), j \in 1..Len(list') :
            list[i].num = list'[j].num =>
              history_base' + Place(list', j) = history_base + Place(list, i)
       /\ history_offset = history_length => history_offset' = history_length']_rlVars

\* However many calls of history() it takes, the functions that answer a
\* question leave the current event where it was, but for an event of a line
\* that is not found, after which the newest is current.
LooksLeaveCursor == [][cursor' # cursor /\ cursor' # Newest => ~Asks]_rlVars
===============================================================================
