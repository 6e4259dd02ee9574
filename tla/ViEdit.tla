--------------------------------- MODULE ViEdit ---------------------------------
(***************************************************************************)
(* The line under the vi maps: the commands of vi.c and those of common.c  *)
(* as vi binds them, the pending operator, and the record that vi_redo     *)
(* plays back, which the read loop extends while text is inserted.         *)
(***************************************************************************)
EXTENDS LineText, FiniteSets

CONSTANTS
  Letters,      \* BOUND: the characters the user inserts
  Sought,       \* the characters the user names to f, F, t and T
  Events,       \* what lines the history has
  Alias,        \* what the shell has for an alias: a sequence of keys
  Limit,        \* length at which the line buffer must grow
  RedoCap,      \* keys the redo buffer holds
  MaxLine,      \* BOUND: length of the line
  MaxArg,       \* BOUND: numeric arguments
  MaxKeys       \* BOUND: keys the user types

ESC == "ESC"
BS == "BS"
Comma == ","
Semicolon == ";"
Underscore == "_"

\* iswprint.  BOUND: no key is half of a code point.
Printing == Char \ {Break, Lead, Trail}

ASSUME TextsAssumption == Events \subseteq Text /\ Sought \subseteq Char /\ Letters \subseteq Printing
ASSUME SizesAssumption == Limit \in Nat /\ RedoCap \in Nat \ {0, 1} /\ {MaxLine, MaxArg, MaxKeys} \subseteq Nat

\* What the keys are bound to.  These are the keys that are tried; in the
\* insert map all that print insert themselves.
Editing ==
  { <<ESC, "vi_command_mode">>, <<BS, "vi_delete_prev_char">>, <<"^W", "ed_delete_prev_word">>,
    <<"^M", "ed_newline">>, <<"^D", "vi_list_or_eof">>, <<"^U", "vi_kill_line_prev">> }

Commanding ==
  { <<"a", "vi_add">>, <<"A", "vi_add_at_eol">>, <<"b", "vi_prev_word">>,
    <<"B", "vi_prev_big_word">>, <<"c", "vi_change_meta">>, <<"C", "vi_change_to_eol">>,
    <<"d", "vi_delete_meta">>, <<"D", "ed_kill_line">>, <<"e", "vi_end_word">>,
    <<"E", "vi_end_big_word">>, <<"f", "vi_next_char">>, <<"F", "vi_prev_char">>,
    <<"h", "ed_prev_char">>, <<"i", "vi_insert">>, <<"I", "vi_insert_at_bol">>,
    <<"k", "ed_prev_history">>, <<"l", "ed_next_char">>, <<"n", "vi_repeat_search_next">>,
    <<"p", "vi_paste_next">>, <<"P", "vi_paste_prev">>, <<"r", "vi_replace_char">>,
    <<"R", "vi_replace_mode">>, <<"s", "vi_substitute_char">>, <<"S", "vi_substitute_line">>,
    <<"t", "vi_to_next_char">>, <<"T", "vi_to_prev_char">>, <<"U", "vi_undo_line">>,
    <<"v", "vi_histedit">>, <<"w", "vi_next_word">>, <<"W", "vi_next_big_word">>,
    <<"x", "ed_delete_next_char">>, <<"X", "ed_delete_prev_char">>, <<"y", "vi_yank">>,
    <<"Y", "vi_yank_end">>, <<"0", "vi_zero">>, <<"2", "ed_argument_digit">>,
    <<"^", "ed_move_to_beg">>, <<"$", "ed_move_to_end">>, <<"%", "vi_match">>,
    <<"|", "vi_to_column">>, <<"~", "vi_change_case">>, <<Underscore, "vi_history_word">>,
    <<"#", "vi_comment_out">>, <<"@", "vi_alias">>, <<".", "vi_redo">>,
    <<Semicolon, "vi_repeat_next_char">>, <<Comma, "vi_repeat_prev_char">>,
    <<"^W", "ed_delete_prev_word">>, <<ESC, "em_meta_next">> }

KeysOf(bindings) == {b[1] : b \in bindings}
MapOf(bindings) == [key \in KeysOf(bindings) |-> (CHOOSE b \in bindings : b[1] = key)[2]]

el_map_vi_insert == MapOf(Editing \cup {<<ch, "ed_insert">> : ch \in Printing} \cup {<<Break, "ed_newline">>})
el_map_vi_command == MapOf(Commanding)

Key == Char \cup KeysOf(Editing) \cup KeysOf(Commanding)

ASSUME KeysAssumption == KeysOf(Editing) \cap Char = {} /\ Alias \in Seq(Key)

NoSearch == [cha |-> "none", dir |-> 0, to |-> FALSE]
NoRedo == [count |-> 0, action |-> "NOP", cmd |-> "ed_unassigned", keys |-> <<>>]

VARIABLES
  line, cursor,
  kill,         \* c_kill
  map,          \* el_map.current: "insert" is key, "command" is alt
  mode,         \* inputmode
  action, pos,  \* c_vcmd; pos is 0 where there is no action
  count,        \* argument if doingarg, else 0
  redo,         \* c_redo
  search,       \* chacha, chadir and chatflg
  pushed,       \* the keys of el_wpush that are still to be read
  played,       \* auxiliary: the record that is being played back
  typed         \* counts for MaxKeys

vars == <<line, cursor, kill, map, mode, action, pos, count, redo, search, pushed, played, typed>>

\* ch_init: an editor starts in the insert map.  An application that reads key
\* by key may have put a text in.
Init ==
  /\ line \in Events \cup {<<>>} /\ cursor = Len(line) /\ kill = <<>>
  /\ map = "insert" /\ mode = "insert"
  /\ action = "NOP" /\ pos = 0 /\ count = 0
  /\ redo = NoRedo /\ search = NoSearch
  /\ pushed = <<>> /\ played = NoRedo /\ typed = 0

-------------------------------------------------------------------------------
(* What a command runs in: c has the command, the count, the operator and  *)
(* where it was given, the redo record as the loop left it, and the keys   *)
(* still to be read.                                                       *)

Argument(c) == IF c.count = 0 THEN 1 ELSE c.count

\* cv_redo_start.
Started(c) == [count |-> c.count, action |-> c.action, cmd |-> c.cmd, keys |-> <<>>]

\* What the loop does with CC_ARGHACK, and with everything else.
KeepArgs(c) == count' = c.count /\ action' = c.action /\ pos' = IF c.action = "NOP" THEN 0 ELSE c.pos
DropArgs == count' = 0 /\ action' = "NOP" /\ pos' = 0

\* The parts that most commands leave alone.
SameMap == UNCHANGED <<map, mode>>
Quiet(c) == pushed' = c.rest /\ DropArgs
IntoInsert == map' = "insert" /\ UNCHANGED mode

\* Mutant: at the end of the line in the command map too.
Refreshed_AtEnd(p) == cursor' = IF p > Len(line') THEN Len(line') ELSE p

\* What the loop does with CC_CURSOR and CC_REFRESH: re_refresh_cursor and
\* re_refresh move a cursor that came to the end, or behind it, to the end,
\* and in the command map to the last character.
Refreshed(p) ==
  cursor' = IF p < Len(line') THEN p
            ELSE IF map' = "command" /\ line' # <<>> THEN Len(line') - 1
            ELSE Len(line')

\* CC_ERROR before anything was done, and CC_CURSOR.
Fail(c) == Quiet(c) /\ SameMap /\ redo' = c.redo /\ UNCHANGED <<line, cursor, kill>>
Go(c, p) == Quiet(c) /\ SameMap /\ redo' = c.redo /\ UNCHANGED <<line, kill>> /\ Refreshed(p)

-------------------------------------------------------------------------------
(* Erasing.  c_delafter and c_delbefore yank what they erase and start a   *)
(* redo record.                                                            *)

\* Mutant: what is yanked is what comes to stand there.
Erase_Late(c, p, q) ==
  /\ line' = Without(line, p, q) /\ kill' = From(line', p, q)
  /\ redo' = Started(c)

Erase(c, p, q) ==
  /\ line' = Without(line, p, q) /\ kill' = From(line, p, q)
  /\ redo' = Started(c)

\* cv_delfini: from where the operator was given to where the motion went, or
\* one character if it went nowhere.
DelFini(c, p) ==
  LET lo == IF p < c.pos THEN p ELSE c.pos
      hi == IF p > c.pos THEN p ELSE IF p = c.pos THEN c.pos + 1 ELSE c.pos
      end == IF hi > Len(line) THEN Len(line) ELSE hi
  IN IF c.action = "yank"
     THEN kill' = From(line, lo, hi) /\ redo' = c.redo /\ UNCHANGED line /\ Refreshed(c.pos)
     ELSE Erase(c, lo, end) /\ Refreshed(lo)

\* A motion, to p, or with an operator to q.
Motion(c, p, q) ==
  IF c.action = "NOP" THEN Go(c, p)
  ELSE /\ Quiet(c) /\ map' = (IF c.action = "change" THEN "insert" ELSE map) /\ UNCHANGED mode
       /\ DelFini(c, q)

-------------------------------------------------------------------------------
(* Words as vi has them.                                                   *)

Spaces == {Blank, Break}

\* cv__isword and cv__isWord, as the characters of the same class.
Class(ch) == CHOOSE k \in {Spaces, WordChar, Char \ (Spaces \cup WordChar)} : ch \in k
BigClass(ch) == IF ch \in Spaces THEN Spaces ELSE Char \ Spaces
ClassOf(big, ch) == IF big THEN BigClass(ch) ELSE Class(ch)

\* cv_next_word.  The last word of a change goes without the blanks.
ViNextWord(c, big, n) ==
  LET end(p) == SkipOn(line, p, ClassOf(big, At(line, p)))
      on[k \in 0..n] ==
        IF k = 0 THEN cursor
        ELSE IF on[k - 1] = Len(line) THEN Len(line)
        ELSE IF k = n /\ c.action = "change" THEN end(on[k - 1])
        ELSE SkipOn(line, end(on[k - 1]), Spaces)
  IN on[n]

\* cv_prev_word.
ViPrevWord(big, n) ==
  LET back(p) == LET b == SkipBack(line, p, Spaces)
                     q == IF b = 0 THEN 1 ELSE b
                 IN SkipBack(line, q, ClassOf(big, At(line, q - 1)))
      to[k \in 0..n] == IF k = 0 THEN cursor ELSE IF to[k - 1] = 0 THEN 0 ELSE back(to[k - 1])
  IN to[n]

\* cv__endword.
ViEndWord(big, n) ==
  LET on[k \in 0..n] ==
        IF k = 0 THEN cursor + 1
        ELSE LET w == SkipOn(line, on[k - 1], Spaces)
             IN IF w = Len(line) THEN w ELSE SkipOn(line, w, ClassOf(big, At(line, w)))
  IN on[n] - 1

PrevWordOf(c, big) ==
  IF cursor = 0 THEN Fail(c)
  ELSE LET p == ViPrevWord(big, Argument(c)) IN Motion(c, p, p)
NextWordOf(c, big) ==
  IF cursor >= Len(line) - 1 THEN Fail(c)
  ELSE LET p == ViNextWord(c, big, Argument(c)) IN Motion(c, p, p)
EndWordOf(c, big) ==
  IF cursor = Len(line) THEN Fail(c)
  ELSE LET p == ViEndWord(big, Argument(c)) IN Motion(c, p, p + 1)

vi_prev_big_word(c) == PrevWordOf(c, TRUE)
vi_prev_word(c) == PrevWordOf(c, FALSE)
vi_next_big_word(c) == NextWordOf(c, TRUE)
vi_next_word(c) == NextWordOf(c, FALSE)
vi_end_big_word(c) == EndWordOf(c, TRUE)
vi_end_word(c) == EndWordOf(c, FALSE)

-------------------------------------------------------------------------------
(* Other motions.                                                          *)

\* ed_argument_digit.
ed_argument_digit(c, d) ==
  /\ count' = c.count * 10 + d /\ count' <= MaxArg
  /\ UNCHANGED <<line, cursor, kill>> /\ SameMap /\ pushed' = c.rest
  /\ action' = c.action /\ pos' = c.pos /\ redo' = c.redo

\* With a count begun, 0 is a digit of it.
vi_zero(c) == IF c.count # 0 THEN ed_argument_digit(c, 0) ELSE Motion(c, 0, 0)

\* The blanks are not counted up to the end of the line: where it has nothing
\* else, those an earlier text left behind it are skipped too.  BOUND: one.
ed_move_to_beg(c) ==
  LET p == SkipOn(line, 0, Spaces)
  IN \E q \in IF p = Len(line) THEN {p, p + 1} ELSE {p} : Motion(c, q, q)
ed_move_to_end(c) ==
  Motion(c, IF line = <<>> THEN 0 ELSE Len(line) - 1, Len(line))

\* By n characters, and without an operator not from the last one.
CharsOn(c, n) ==
  LET p == NextGraphemes(line, cursor, n)
  IN IF cursor >= Len(line) \/ (cursor = Len(line) - 1 /\ c.action = "NOP") THEN Fail(c)
     ELSE Motion(c, p, p)

ed_next_char(c) == CharsOn(c, Argument(c))
ed_prev_char(c) ==
  LET p == PrevGraphemes(line, cursor, Argument(c))
  IN IF cursor = 0 THEN Fail(c) ELSE Motion(c, p, p)

\* vi_to_column.  It goes to the first column before it asks whether it can
\* go on from there.
vi_to_column(c) ==
  LET p == NextGraphemes(line, 0, Argument(c) - 1)
      stuck == line = <<>> \/ (Len(line) = 1 /\ c.action = "NOP")
  IN IF stuck THEN Go(c, 0) ELSE Motion(c, p, p)

\* vi_match.  The direction is an unsigned number, so that with an operator a
\* match to the left is passed too, and stays.
Brackets == {Open, Close}
Partner(p) ==
  LET mine == At(line, p)
      depth(q) == Cardinality({i \in (IF p < q THEN p..q ELSE q..p) : At(line, i) = mine})
                  - Cardinality({i \in (IF p < q THEN p..q ELSE q..p) : At(line, i) \in Brackets \ {mine}})
      ends == {q \in (IF mine = Open THEN p..(Len(line) - 1) ELSE 0..p) : depth(q) = 0}
  IN IF ends = {} THEN -1
     ELSE CHOOSE q \in ends : \A r \in ends : IF mine = Open THEN q <= r ELSE r <= q

vi_match(c) ==
  LET p == SkipOn(line, cursor, Char \ Brackets)
  IN IF p = Len(line) \/ Partner(p) = -1 THEN Fail(c)
     ELSE Motion(c, Partner(p), Partner(p) + 1)

\* cv_csearch: to the n-th such character before or behind the cursor.  From
\* the end, a search to the left fails at once, unless what an earlier text
\* left there is the character too.
CharSearch(c, ch, dir, to) ==
  LET found == {q \in (IF dir = 1 THEN (cursor + 1)..(Len(line) - 1) ELSE 0..(cursor - 1)) : At(line, q) = ch}
      nth == {q \in found : Cardinality({r \in found : IF dir = 1 THEN r <= q ELSE r >= q}) = Argument(c)}
      p == (CHOOSE q \in nth : TRUE) - (IF to THEN dir ELSE 0)
  IN \/ IF nth = {} THEN Fail(c) ELSE Motion(c, p, IF dir = 1 THEN p + 1 ELSE p)
     \/ cursor = Len(line) /\ Fail(c)

\* The character is the next to be read.  It is kept for ; and , even where
\* it is not found.
Named(c, dir, to) ==
  \E ch \in IF c.rest = <<>> THEN Sought ELSE {Head(c.rest)} :
    /\ CharSearch([c EXCEPT !.rest = IF @ = <<>> THEN @ ELSE Tail(@)], ch, dir, to)
    /\ search' = [cha |-> ch, dir |-> dir, to |-> to]

vi_next_char(c) == Named(c, 1, FALSE)
vi_prev_char(c) == Named(c, -1, FALSE)
vi_to_next_char(c) == Named(c, 1, TRUE)
vi_to_prev_char(c) == Named(c, -1, TRUE)

Again(c, dir) ==
  /\ IF search = NoSearch THEN Fail(c) ELSE CharSearch(c, search.cha, dir, search.to)
  /\ UNCHANGED search

vi_repeat_next_char(c) == Again(c, search.dir)
vi_repeat_prev_char(c) == Again(c, -search.dir)

-------------------------------------------------------------------------------
(* Operators.                                                              *)

\* cv_action: the first time the operator waits for a motion, the second time
\* it is done to the whole line; another operator is an error.
Operator(c, op) ==
  IF c.action = "NOP" THEN
    /\ action' = op /\ pos' = cursor /\ count' = c.count
    /\ pushed' = c.rest /\ SameMap /\ redo' = c.redo /\ UNCHANGED <<line, cursor, kill>>
  ELSE IF c.action # op THEN Fail(c)
  ELSE /\ Quiet(c) /\ kill' = line
       /\ IF op = "yank" THEN redo' = c.redo /\ SameMap /\ UNCHANGED line /\ Refreshed(cursor)
          ELSE /\ redo' = Started(c) /\ line' = <<>> /\ cursor' = 0
               /\ map' = (IF op = "change" THEN "insert" ELSE map) /\ UNCHANGED mode

vi_delete_meta(c) == Operator(c, "delete")
vi_change_meta(c) == Operator(c, "change")
vi_yank(c) == Operator(c, "yank")

-------------------------------------------------------------------------------
(* Changes.                                                                *)

\* c_insert opens the line by n characters unless the buffer must grow and
\* cannot.
Opens(n, ok) == Len(line) + n <= MaxLine /\ (ok \/ Len(line) + n >= Limit)

\* cv_paste.  Where there was no room and the text would reach over the end,
\* it fails; it is written over the text that is there if it would not.
Paste(c, at) ==
  IF kill = <<>> THEN Fail(c)
  ELSE /\ Quiet(c) /\ SameMap /\ redo' = Started(c) /\ UNCHANGED kill
       /\ \E ok \in BOOLEAN :
            /\ Opens(Len(kill), ok)
            /\ IF ~ok /\ at + Len(kill) > Len(line) THEN cursor' = at /\ UNCHANGED line
               ELSE /\ line' = IF ok THEN Inserted(line, at, kill) ELSE Over(line, at, kill)
                    /\ Refreshed(at)

vi_paste_next(c) == Paste(c, IF cursor < Len(line) THEN cursor + 1 ELSE cursor)
vi_paste_prev(c) == Paste(c, cursor)

\* From the cursor on, and the cursor stays on the line without a refresh.
vi_change_case(c) ==
  IF cursor >= Len(line) THEN Fail(c)
  ELSE LET end == IF cursor + Argument(c) > Len(line) THEN Len(line) ELSE cursor + Argument(c)
           turned(ch) == IF ch \in Upper THEN Down[ch] ELSE IF ch \in Lower THEN Up[ch] ELSE ch
           part == From(line, cursor, end)
       IN /\ Quiet(c) /\ SameMap /\ redo' = Started(c) /\ UNCHANGED kill
          /\ line' = Over(line, cursor, [i \in 1..Len(part) |-> turned(part[i])])
          /\ cursor' = IF end = Len(line) THEN end - 1 ELSE end

\* The cut buffer is left with the last of the graphemes, as each is erased
\* by itself.
ed_delete_prev_char(c) ==
  IF cursor = 0 THEN Fail(c)
  ELSE LET from == PrevGraphemes(line, cursor, Argument(c))
       IN /\ Quiet(c) /\ SameMap /\ redo' = Started(c)
          /\ line' = Without(line, from, cursor) /\ Refreshed(from)
          /\ kill' = Grapheme(line, from, cursor)

ed_delete_next_char(c) ==
  LET at == IF cursor = Len(line) THEN cursor - 1 ELSE cursor
      end == NextGraphemes(line, at, Argument(c))
  IN IF line = <<>> THEN Fail(c)
     ELSE /\ Quiet(c) /\ SameMap /\ Erase(c, at, end)
          /\ Refreshed(IF at >= Len(line') /\ at > 0 THEN Len(line') - 1 ELSE at)

ed_delete_prev_word(c) ==
  IF cursor = 0 THEN Fail(c)
  ELSE LET p == PrevWord(line, cursor, Argument(c))
       IN Quiet(c) /\ SameMap /\ Erase(c, p, cursor) /\ Refreshed(p)

\* No redo record is begun.
ed_kill_line(c) ==
  /\ Quiet(c) /\ SameMap /\ redo' = c.redo /\ kill' = From(line, cursor, Len(line))
  /\ line' = SubSeq(line, 1, cursor) /\ Refreshed(cursor)

vi_kill_line_prev(c) == Quiet(c) /\ SameMap /\ Erase(c, 0, cursor) /\ cursor' = 0

vi_yank_end(c) ==
  /\ Quiet(c) /\ SameMap /\ redo' = c.redo /\ UNCHANGED line
  /\ kill' = From(line, cursor, Len(line)) /\ Refreshed(cursor)

-------------------------------------------------------------------------------
(* Into the insert map.                                                    *)

\* A command that moves the cursor, starts a record and goes on in the insert
\* map, where the end of the line is a place for the cursor.
InsertAt(c, p) ==
  /\ Quiet(c) /\ IntoInsert /\ redo' = Started(c)
  /\ cursor' = p /\ UNCHANGED <<line, kill>>

vi_insert(c) == InsertAt(c, cursor)
vi_insert_at_bol(c) == InsertAt(c, 0)

vi_add(c) == InsertAt(c, IF cursor < Len(line) THEN cursor + 1 ELSE cursor)
vi_add_at_eol(c) == InsertAt(c, Len(line))

vi_replace_mode(c) ==
  /\ Quiet(c) /\ map' = "insert" /\ mode' = "replace" /\ redo' = Started(c)
  /\ UNCHANGED <<line, cursor, kill>>

\* The next key is read in the insert map, with the count of this one; the
\* operator, if there was one, waits on.
vi_replace_char(c) ==
  IF cursor = Len(line) THEN Fail(c)
  ELSE /\ pushed' = c.rest /\ KeepArgs(c) /\ redo' = Started(c)
       /\ map' = "insert" /\ mode' = "replace1"
       /\ UNCHANGED <<line, cursor, kill>>

\* c_delafter counts characters and not graphemes.
vi_substitute_char(c) ==
  LET end == IF cursor + Argument(c) > Len(line) THEN Len(line) ELSE cursor + Argument(c)
  IN Quiet(c) /\ IntoInsert /\ Erase(c, cursor, end) /\ UNCHANGED cursor

vi_substitute_line(c) == Quiet(c) /\ IntoInsert /\ Erase(c, 0, Len(line)) /\ cursor' = 0
vi_change_to_eol(c) == Quiet(c) /\ IntoInsert /\ Erase(c, cursor, Len(line)) /\ UNCHANGED cursor

\* The words of an event.  BOUND: they have a blank between them and none at
\* the ends.
WordsOf(s) ==
  {SubSeq(s, r[1], r[2]) : r \in {q \in (1..Len(s)) \X (1..Len(s)) :
     /\ q[1] <= q[2] /\ \A i \in q[1]..q[2] : s[i] \notin Spaces
     /\ q[1] > 1 => s[q[1] - 1] \in Spaces
     /\ q[2] < Len(s) => s[q[2] + 1] \in Spaces}}

\* vi_history_word puts a blank and a word of the newest event behind the
\* character under the cursor.  It does not look whether there was room; what
\* is written then is over the text, and may be behind its end.
vi_history_word(c) ==
  \/ Fail(c)
  \/ \E s \in Events : \E w \in WordsOf(s) : \E ok \in BOOLEAN :
       LET at == IF cursor < Len(line) THEN cursor + 1 ELSE cursor
           text == <<Blank>> \o w
       IN /\ Opens(Len(text), ok)
          /\ Quiet(c) /\ IntoInsert /\ redo' = Started(c) /\ UNCHANGED kill
          /\ line' = IF ok THEN Inserted(line, at, text) ELSE Over(line, at, text)
          /\ Refreshed(at + Len(text))

-------------------------------------------------------------------------------
(* In the insert map.                                                      *)

\* Mutant: the replace mode is not left.
CommandMode_KeepsMode(p) ==
  /\ map' = "command" /\ UNCHANGED mode
  /\ action' = "NOP" /\ pos' = 0 /\ count' = 0
  /\ cursor' = IF p > 0 THEN p - 1 ELSE 0

\* vi_command_mode, from a place.
CommandMode(p) ==
  /\ map' = "command" /\ mode' = "insert"
  /\ action' = "NOP" /\ pos' = 0 /\ count' = 0
  /\ cursor' = IF p > 0 THEN p - 1 ELSE 0

vi_command_mode(c) ==
  CommandMode(cursor) /\ pushed' = c.rest /\ redo' = c.redo /\ UNCHANGED <<line, kill>>

\* ed_insert.  One character replaces one where the mode says so; after
\* vi_replace_char with a count as many are replaced as there are.
\* Where there is no room nothing happens, and the insert map is not left.
ed_insert(c, ch) ==
  LET n == Argument(c)
      over == IF n = 1 THEN mode # "insert" /\ cursor < Len(line) ELSE mode = "replace1"
      end == IF over /\ cursor + n > Len(line) THEN Len(line) ELSE cursor + n
  IN \E ok \in BOOLEAN :
       /\ IF over THEN ok \/ Len(line) + n >= Limit ELSE Opens(n, ok)
       /\ IF ~ok THEN Fail(c)
          ELSE /\ pushed' = c.rest /\ redo' = c.redo /\ UNCHANGED kill
               /\ line' = IF over THEN Over(line, cursor, Repeat(ch, end - cursor))
                          ELSE Inserted(line, cursor, Repeat(ch, n))
               /\ IF mode = "replace1" THEN CommandMode(end)
                  ELSE cursor' = end /\ SameMap /\ DropArgs

\* c_delbefore1 does not yank, nor does it start a record.
vi_delete_prev_char(c) ==
  IF cursor = 0 THEN Fail(c)
  ELSE /\ Quiet(c) /\ SameMap /\ redo' = c.redo /\ UNCHANGED kill
       /\ line' = Without(line, cursor - 1, cursor) /\ cursor' = cursor - 1
-------------------------------------------------------------------------------
(* Other lines.  Which event is meant is the matter of module HistNav.     *)

Recalled(c, s) == Quiet(c) /\ SameMap /\ line' = s /\ cursor' = 0 /\ UNCHANGED kill

ed_prev_history(c) == Fail(c) \/ \E s \in Events : Recalled(c, s) /\ redo' = c.redo

\* vi_undo_line.  BOUND: the line that was left for an event was empty.
vi_undo_line(c) == \E s \in Events \cup {<<>>, line} : Recalled(c, s) /\ redo' = Started(c)

\* cv_repeat_srch empties the line before it searches; where nothing is found
\* it stays so, and the cursor where it was.
vi_repeat_search(c) ==
  \/ ed_prev_history(c)
  \/ Quiet(c) /\ SameMap /\ redo' = c.redo /\ line' = <<>> /\ UNCHANGED <<cursor, kill>>

\* ed_newline, and ch_reset before the next line.  What is pushed is read
\* there, and the redo record goes on.
ed_newline(c) ==
  /\ line' = <<>> /\ cursor' = 0 /\ map' = "insert" /\ mode' = "insert"
  /\ Quiet(c) /\ redo' = c.redo /\ UNCHANGED kill

\* At the end of an empty line CC_EOF, after which the next line is read too.
vi_list_or_eof(c) == IF line = <<>> THEN ed_newline(c) ELSE Fail(c)

vi_comment_out(c) == ed_newline(c)
vi_histedit(c) == ed_newline(c) \/ ed_prev_history(c)

\* vi_alias reads the name, and pushes what it stands for, which is read
\* after what waits already.  BOUND: no more waits than the queue holds.
vi_alias(c) ==
  LET rest == IF c.rest = <<>> THEN <<>> ELSE Tail(c.rest)
  IN \/ Fail([c EXCEPT !.rest = rest])
     \/ Fail([c EXCEPT !.rest = rest \o Alias])

\* BOUND: em_meta_next, which ESC is in the command map, does not make the
\* next key another.
em_meta_next(c) ==
  /\ pushed' = c.rest /\ KeepArgs(c) /\ SameMap /\ redo' = c.redo
  /\ UNCHANGED <<line, cursor, kill>>

-------------------------------------------------------------------------------
(* The loop.                                                               *)

Does(c, key) ==
  \/ c.cmd = "ed_unassigned" /\ Fail(c)
  \/ c.cmd = "vi_list_or_eof" /\ vi_list_or_eof(c)
  \/ c.cmd = "ed_insert" /\ ed_insert(c, key)
  \/ c.cmd = "vi_command_mode" /\ vi_command_mode(c)
  \/ c.cmd = "vi_delete_prev_char" /\ vi_delete_prev_char(c)
  \/ c.cmd = "ed_argument_digit" /\ ed_argument_digit(c, 2)
  \/ c.cmd = "em_meta_next" /\ em_meta_next(c)
  \/ c.cmd = "ed_newline" /\ ed_newline(c)
  \/ c.cmd = "ed_prev_history" /\ ed_prev_history(c)
  \/ c.cmd = "vi_undo_line" /\ vi_undo_line(c)
  \/ c.cmd = "vi_repeat_search_next" /\ vi_repeat_search(c)
  \/ c.cmd = "vi_comment_out" /\ vi_comment_out(c)
  \/ c.cmd = "vi_histedit" /\ vi_histedit(c)
  \/ c.cmd = "vi_alias" /\ vi_alias(c)
  \/ c.cmd = "vi_delete_meta" /\ vi_delete_meta(c)
  \/ c.cmd = "vi_change_meta" /\ vi_change_meta(c)
  \/ c.cmd = "vi_yank" /\ vi_yank(c)
  \/ c.cmd = "vi_prev_word" /\ vi_prev_word(c)
  \/ c.cmd = "vi_prev_big_word" /\ vi_prev_big_word(c)
  \/ c.cmd = "vi_next_word" /\ vi_next_word(c)
  \/ c.cmd = "vi_next_big_word" /\ vi_next_big_word(c)
  \/ c.cmd = "vi_end_word" /\ vi_end_word(c)
  \/ c.cmd = "vi_end_big_word" /\ vi_end_big_word(c)
  \/ c.cmd = "vi_zero" /\ vi_zero(c)
  \/ c.cmd = "ed_move_to_beg" /\ ed_move_to_beg(c)
  \/ c.cmd = "ed_move_to_end" /\ ed_move_to_end(c)
  \/ c.cmd = "ed_next_char" /\ ed_next_char(c)
  \/ c.cmd = "ed_prev_char" /\ ed_prev_char(c)
  \/ c.cmd = "vi_to_column" /\ vi_to_column(c)
  \/ c.cmd = "vi_match" /\ vi_match(c)
  \/ c.cmd = "vi_paste_next" /\ vi_paste_next(c)
  \/ c.cmd = "vi_paste_prev" /\ vi_paste_prev(c)
  \/ c.cmd = "vi_change_case" /\ vi_change_case(c)
  \/ c.cmd = "ed_delete_prev_char" /\ ed_delete_prev_char(c)
  \/ c.cmd = "ed_delete_next_char" /\ ed_delete_next_char(c)
  \/ c.cmd = "ed_delete_prev_word" /\ ed_delete_prev_word(c)
  \/ c.cmd = "ed_kill_line" /\ ed_kill_line(c)
  \/ c.cmd = "vi_kill_line_prev" /\ vi_kill_line_prev(c)
  \/ c.cmd = "vi_yank_end" /\ vi_yank_end(c)
  \/ c.cmd = "vi_insert" /\ vi_insert(c)
  \/ c.cmd = "vi_insert_at_bol" /\ vi_insert_at_bol(c)
  \/ c.cmd = "vi_add" /\ vi_add(c)
  \/ c.cmd = "vi_add_at_eol" /\ vi_add_at_eol(c)
  \/ c.cmd = "vi_replace_mode" /\ vi_replace_mode(c)
  \/ c.cmd = "vi_replace_char" /\ vi_replace_char(c)
  \/ c.cmd = "vi_substitute_char" /\ vi_substitute_char(c)
  \/ c.cmd = "vi_substitute_line" /\ vi_substitute_line(c)
  \/ c.cmd = "vi_change_to_eol" /\ vi_change_to_eol(c)
  \/ c.cmd = "vi_history_word" /\ vi_history_word(c)

Seeks(c) ==
  \/ c.cmd = "vi_next_char" /\ vi_next_char(c)
  \/ c.cmd = "vi_prev_char" /\ vi_prev_char(c)
  \/ c.cmd = "vi_to_next_char" /\ vi_to_next_char(c)
  \/ c.cmd = "vi_to_prev_char" /\ vi_to_prev_char(c)
  \/ c.cmd = "vi_repeat_next_char" /\ vi_repeat_next_char(c)
  \/ c.cmd = "vi_repeat_prev_char" /\ vi_repeat_prev_char(c)

Perform(c, key) == (Does(c, key) /\ UNCHANGED search) \/ Seeks(c)

\* The record is one that can be played back: of one command, that either
\* inserted nothing, or went into the insert map and was left at the last key.
Clean(r) ==
  LET n == Len(r.keys) IN
  /\ r.cmd # "ed_unassigned"
  /\ n > 0 =>
       /\ n < RedoCap
       /\ r.cmd \notin {"vi_next_char", "vi_prev_char", "vi_to_next_char", "vi_to_prev_char"}
       /\ \A i \in 1..n - 1 : r.keys[i] = BS \/ (r.keys[i] \in Printing /\ r.cmd # "vi_replace_char")
       /\ r.keys[n] = ESC \/ (r.keys[n] \in Printing /\ r.cmd = "vi_replace_char")

\* Mutant: the NUL is written over the last key.
PlayedKeys_OffByOne == IF redo.keys = <<>> THEN <<>> ELSE SubSeq(redo.keys, 1, Len(redo.keys) - 1)

\* The keys of the record; the buffer, if full, has no room for the NUL.
PlayedKeys == IF Len(redo.keys) = RedoCap THEN SubSeq(redo.keys, 1, RedoCap - 1) ELSE redo.keys

\* vi_redo.  What was typed into the line is pushed, to be read once the
\* command has been done again and after what waits already.
Redo(c) ==
  LET again == [c EXCEPT !.cmd = redo.cmd, !.action = redo.action, !.pos = cursor,
                         !.count = IF @ = 0 THEN redo.count ELSE @,
                         !.redo.keys = PlayedKeys, !.rest = @ \o PlayedKeys]
  IN /\ Perform(again, "none")
     /\ played' = IF Clean(redo) /\ c.rest = <<>> /\ (redo.keys # <<>> => map' = "insert")
                  THEN redo ELSE NoRedo

\* The loop adds what is read in the insert map to the record, and takes the
\* last character away again for a backspace.
Captured(cmd, key) ==
  LET n == Len(redo.keys) IN
  IF map # "insert" \/ n = RedoCap THEN redo
  ELSE IF cmd = "vi_delete_prev_char" /\ n > 0 /\ redo.keys[n] \in Printing
  THEN [redo EXCEPT !.keys = SubSeq(@, 1, n - 1)]
  ELSE [redo EXCEPT !.keys = Append(@, key)]

Keys == IF map = "insert" THEN el_map_vi_insert ELSE el_map_vi_command
CommandOf(key) == IF key \in DOMAIN Keys THEN Keys[key] ELSE "ed_unassigned"

\* A turn of the loop in el_wgets.  BOUND: what the commands do once the
\* cursor is behind the line is not modelled.
Turn(key, rest) ==
  LET cmd == CommandOf(key)
      c == [cmd |-> cmd, count |-> count, action |-> action, pos |-> pos,
            redo |-> Captured(cmd, key), rest |-> rest]
  IN /\ cursor <= Len(line)
     /\ IF cmd = "vi_redo" THEN Redo(c)
        ELSE Perform(c, key) /\ played' = IF pushed = <<>> THEN NoRedo ELSE played

Typed ==
  /\ pushed = <<>> /\ typed < MaxKeys /\ typed' = typed + 1
  /\ \E key \in IF map = "insert" THEN KeysOf(Editing) \cup Letters ELSE DOMAIN Keys : Turn(key, <<>>)

Pushed ==
  /\ pushed # <<>> /\ UNCHANGED typed
  /\ Turn(Head(pushed), Tail(pushed))

\* A SIGCONT while a key is waited for: read_char has the line drawn again.
Redrawn ==
  /\ pushed = <<>>
  /\ UNCHANGED <<line, kill, map, mode, action, pos, count, redo, search, pushed, played, typed>>
  /\ Refreshed(cursor)

Next == Typed \/ Pushed \/ Redrawn

Spec == Init /\ [][Next]_vars
-------------------------------------------------------------------------------
(* Properties.                                                             *)

\* The modes agree: whatever the way back to the command map, the replace
\* modes and what an operator or a count waits for have not come along; and
\* in the insert map an operator or a count waits only for the character of
\* vi_replace_char.
ModesAgree ==
  /\ map = "command" => mode = "insert"
  /\ map = "insert" /\ (action # "NOP" \/ count # 0) => mode = "replace1"
  /\ action # "NOP" => pos \in 0..Len(line)

\* What any command of the command map takes from the line, by whatever
\* operator and motion, is what is in the cut buffer, and the line it leaves
\* can be made what it was.  Of what ed_delete_prev_char takes with a count
\* the cut buffer has the first grapheme only; and a line that gives way to
\* another, or is emptied for a search, is not cut.
OtherLine == line' \in Events \cup {<<>>} /\ UNCHANGED kill

CutByGraphemes ==
  /\ redo'.cmd = "ed_delete_prev_char"
  /\ \E p \in 0..cursor : line' = Without(line, p, cursor) /\ kill' = Grapheme(line, p, cursor)

CutIsKept ==
  [][Len(line') < Len(line) /\ map = "command" =>
       \/ \E p \in 0..Len(line') : Inserted(line', p, kill') = line
       \/ OtherLine
       \/ CutByGraphemes]_vars

\* Playing back a record of one whole command makes the same record: the
\* command, its operator and the keys, so that doing it once more does it once
\* more; and it ends where the command did, in the command map, but where the
\* replacement finds no room.
RedoKeepsRecord ==
  played # NoRedo /\ pushed = <<>> =>
    /\ redo.cmd = played.cmd /\ redo.action = played.action /\ redo.keys = played.keys
    /\ \/ map = "command"
       \/ played.cmd = "vi_replace_char" /\ Len(line) + Argument(redo) >= Limit

\* The cursor is behind the line only where a repeated search found nothing;
\* and in the command map, whatever cuts, moves or leaves the insert map, it is
\* on a character of a line that has any.  It comes to the end there only if
\* what was to be pasted finds no room, and stays until something else moves it.
NoRoom == UNCHANGED <<line, kill>> /\ (cursor' = cursor \/ Len(line) + Len(kill) >= Limit)

CursorStays ==
  [][/\ cursor' > Len(line') => line' = <<>>
     /\ map' = "command" /\ line' # <<>> /\ cursor' = Len(line') => NoRoom]_vars

===============================================================================
