------------------------------- MODULE LineEdit --------------------------------
(***************************************************************************)
(* The line under the commands of the emacs map (common.c, emacs.c), the   *)
(* functions for applications (el_winsertstr and others of chared.c), and  *)
(* the growth of the buffers.  A character of more than one wchar_t comes  *)
(* as two commands.                                                        *)
(***************************************************************************)
EXTENDS LineText, FiniteSets

CONSTANTS
  Typed,        \* the characters on the keyboard, besides pairs
  Strings,      \* what the application puts in
  Args,         \* numeric arguments
  BufSize,      \* EL_BUFSIZ
  MaxLine,      \* BOUND: length of the line
  MaxKept,      \* BOUND: length of what is cut or copied at once
  MaxTyped      \* BOUND: commands and calls that put text in

EL_LEAVE == 2
Buffers == {"line", "kill", "redo", "hist"}

ASSUME TypedAssumption == Typed \subseteq Char
ASSUME StringsAssumption == Strings \subseteq Text
ASSUME ArgsAssumption == Args \subseteq Nat
ASSUME SizeAssumption == BufSize \in Nat /\ BufSize > EL_LEAVE + 1
ASSUME BoundsAssumption == {MaxLine, MaxKept, MaxTyped} \subseteq Nat

VARIABLES
  line, cursor,
  kill, mark,   \* c_kill
  mode,         \* inputmode
  lead,         \* the first half of a code point was read and not the second
  limit,        \* characters the line may have
  size,         \* of each buffer
  typed         \* counts for MaxTyped

textVars == <<line, cursor>>
killVars == <<kill, mark>>
sizeVars == <<limit, size>>
vars == <<textVars, killVars, mode, lead, sizeVars, typed>>

\* ch_init.
Init ==
  /\ line = <<>> /\ cursor = 0
  /\ kill = <<>> /\ mark = 0
  /\ mode = "insert" /\ lead = FALSE
  /\ limit = BufSize - EL_LEAVE
  /\ size = [b \in Buffers |-> BufSize]
  /\ typed = 0

\* The commands are run one at a time.  BOUND: what they do once the cursor
\* is outside the line, or half of a code point is alone, is not modelled.
Command == ~lead /\ cursor \in 0..Len(line) /\ Whole(line)

-------------------------------------------------------------------------------
(* Room.                                                                   *)

\* The size is doubled until there is room for that many more.
NewSize(add) ==
  LET old == limit + EL_LEAVE
      double[k \in 0..add] == IF k = 0 THEN 2 * old ELSE 2 * double[k - 1]
  IN IF add <= old THEN 2 * old
     ELSE double[CHOOSE k \in 0..add : /\ double[k] - old >= add
                                       /\ \A j \in 0..(k - 1) : double[j] - old < add]

\* In the order in which they grow.
Before(b) ==
  CASE b = "line" -> {} [] b = "kill" -> {"line"} [] b = "redo" -> {"line", "kill"}
    [] b = "hist" -> {"line", "kill", "redo"}

\* Mutant: the limit is set with the line buffer.
Grow_LimitFirst(add, ok) ==
  \E failing \in Buffers :
    LET grown == IF ok THEN Buffers ELSE Before(failing)
    IN /\ size' = [b \in Buffers |-> IF b \in grown THEN NewSize(add) ELSE size[b]]
       /\ limit' = IF "line" \in grown THEN NewSize(add) - EL_LEAVE ELSE limit

\* ch_enlargebufs: an allocation may fail, and those before it are larger.
\* BOUND: where the cut buffer's failed, the mark is in the freed line buffer;
\* that it may be anywhere then is not modelled.
Grow(add, ok) ==
  \E failing \in Buffers :
    LET grown == IF ok THEN Buffers ELSE Before(failing)
    IN /\ size' = [b \in Buffers |-> IF b \in grown THEN NewSize(add) ELSE size[b]]
       /\ limit' = IF ok THEN NewSize(add) - EL_LEAVE ELSE limit

\* There is room, or the buffers grow, or they do not.
Room(add, ok) ==
  \/ Len(line) + add < limit /\ ok /\ UNCHANGED sizeVars
  \/ Len(line) + add >= limit /\ Grow(add, ok)

-------------------------------------------------------------------------------
(* Typing.                                                                 *)

\* ed_insert.  In the overwrite mode too an argument opens the line.
Insert(c, n) ==
  \E ok \in BOOLEAN :
    /\ Room(n, ok)
    /\ IF ~ok THEN UNCHANGED textVars
       ELSE /\ cursor' = cursor + n
            /\ line' = IF mode = "insert" \/ cursor = Len(line) \/ n # 1
                       THEN Inserted(line, cursor, Repeat(c, n))
                       ELSE Over(line, cursor, <<c>>)

Type(c, n) ==
  /\ Command
  /\ typed < MaxTyped /\ Len(line) + n <= MaxLine
  /\ Insert(c, n)
  /\ lead' = (c = Lead) /\ typed' = typed + 1
  /\ UNCHANGED <<killVars, mode>>

\* The second half comes at once, and whatever became of the first.
TypeTrail ==
  /\ lead /\ Len(line) < MaxLine
  /\ Insert(Trail, 1)
  /\ lead' = FALSE
  /\ UNCHANGED <<killVars, mode, typed>>

ToggleOverwrite ==
  /\ Command
  /\ mode' = IF mode = "insert" THEN "replace" ELSE "insert"
  /\ UNCHANGED <<textVars, killVars, lead, sizeVars, typed>>

\* Commands that change the text, and those that only move.
Edits == Command /\ UNCHANGED <<mark, mode, lead, sizeVars, typed>>
Moves == Edits /\ UNCHANGED <<line, kill>>

-------------------------------------------------------------------------------
(* Moving.                                                                 *)

MoveToEnd == Moves /\ cursor' = Len(line)
MoveToBeg == Moves /\ cursor' = 0
NextChar(n) == Moves /\ cursor < Len(line) /\ cursor' = NextGraphemes(line, cursor, n)
PrevChar(n) == Moves /\ cursor > 0 /\ cursor' = PrevGraphemes(line, cursor, n)
NextWordMove(n) == Moves /\ cursor < Len(line) /\ cursor' = NextWord(line, cursor, n)
PrevWordMove(n) == Moves /\ cursor > 0 /\ cursor' = PrevWord(line, cursor, n)

Breaks(p, q) == {i \in p..(q - 1) : At(line, i) = Break}

\* The place after the newline before a place.
LineStart(p) == CHOOSE s \in 0..p : Breaks(s, p) = {} /\ (s = 0 \/ At(line, s - 1) = Break)

\* On by n characters, but not over a newline.
Across(s, n) ==
  LET ends == {i \in s..Len(line) : i = s + n \/ i = Len(line) \/ At(line, i) = Break}
  IN CHOOSE e \in ends : \A f \in ends : e <= f

Column == cursor - LineStart(cursor)

\* ed_prev_line: up over n newlines.  Without an argument of at least one
\* and a newline, the scan ends before the line, and so may the cursor.
PrevLine(n) ==
  /\ Moves
  /\ LET breaks == Breaks(0, cursor)
         nth == CHOOSE b \in breaks : Cardinality({c \in breaks : c >= b}) = (IF n = 0 THEN 1 ELSE n)
     IN IF breaks = {} /\ n = 0 THEN cursor' \in {Column - 1, -1}
        ELSE /\ Cardinality(breaks) >= n
             /\ cursor' = Across(LineStart(nth), Column)

\* ed_next_line: down over n newlines.
NextLine(n) ==
  /\ Moves
  /\ LET breaks == Breaks(cursor, Len(line))
         nth == CHOOSE b \in breaks : Cardinality({c \in breaks : c <= b}) = (IF n = 0 THEN 1 ELSE n)
     IN IF breaks = {} /\ n = 0 THEN cursor' = Len(line) + 1
        ELSE /\ Cardinality(breaks) >= n
             /\ cursor' = Across(nth + 1, Column)

-------------------------------------------------------------------------------
(* Erasing.  c_delafter and c_delbefore keep what they erase in the cut     *)
(* buffer under the emacs map too, since the table they compare with is     *)
(* never the one in use.                                                    *)

\* Mutant: the text is kept after it was erased.
Cut_Late(p, q) ==
  /\ q - p <= MaxKept
  /\ cursor' = p /\ line' = Without(line, p, q) /\ kill' = From(line', p, q)

\* From a place to another one of which is the cursor, which is then at the
\* first.
Cut(p, q) ==
  /\ q - p <= MaxKept
  /\ cursor' = p /\ line' = Without(line, p, q) /\ kill' = From(line, p, q)

DeleteNextChar(n) ==
  Edits /\ cursor < Len(line) /\ Cut(cursor, NextGraphemes(line, cursor, n))

DeleteOrList(n) == DeleteNextChar(n)

DeletePrevChar(n) == Edits /\ cursor > 0 /\ Cut(PrevGraphemes(line, cursor, n), cursor)

\* ed_delete_prev_char erases one grapheme at a time, and the last is kept.
EdDeletePrevChar(n) ==
  /\ Edits /\ cursor > 0
  /\ LET p == PrevGraphemes(line, cursor, n)
     IN /\ cursor' = p /\ line' = Without(line, p, cursor)
        /\ kill' = IF n = 0 THEN kill ELSE Grapheme(line, p, cursor)

DeletePrevWord(n) == Edits /\ cursor > 0 /\ Cut(PrevWord(line, cursor, n), cursor)
DeleteNextWord(n) == Edits /\ cursor < Len(line) /\ Cut(cursor, NextWord(line, cursor, n))
KillLine == Edits /\ Cut(cursor, Len(line))
KillWholeLine == Edits /\ Cut(0, Len(line))

-------------------------------------------------------------------------------
(* The mark, which is not moved when the text before it is, and may come to *)
(* be behind the end.                                                      *)

SetMark ==
  /\ Command /\ mark' = cursor
  /\ UNCHANGED <<textVars, kill, mode, lead, sizeVars, typed>>

ExchangeMark ==
  /\ Command /\ cursor' = mark /\ mark' = cursor
  /\ UNCHANGED <<line, kill, mode, lead, sizeVars, typed>>

\* em_kill_region.
KillRegion ==
  /\ Edits
  /\ IF mark > cursor THEN Cut(cursor, IF mark < Len(line) THEN mark ELSE Len(line))
     ELSE Cut(mark, cursor)

CopyRegion ==
  /\ Edits /\ UNCHANGED textVars
  /\ mark - cursor \in -MaxKept..MaxKept
  /\ kill' = IF mark > cursor THEN From(line, cursor, mark) ELSE From(line, mark, cursor)

\* em_yank does not let the line grow.  BOUND: what an earlier text left is
\* not put back.
Yank(n) ==
  /\ Command /\ typed < MaxTyped /\ typed' = typed + 1
  /\ UNCHANGED <<kill, mode, lead, sizeVars>>
  /\ kill # <<>> /\ Old \notin {kill[i] : i \in 1..Len(kill)}
  /\ Len(line) + Len(kill) < limit /\ Len(line) + Len(kill) <= MaxLine
  /\ line' = Inserted(line, cursor, kill)
  /\ cursor' = IF n = 1 THEN cursor + Len(kill) ELSE cursor
  /\ mark' = cursor

-------------------------------------------------------------------------------
(* Changing.                                                               *)

\* Mutant: the second is written before it was read.
Swapped_Doubles(p) == [line EXCEPT ![p - 1] = line[p]]

Swapped(p) == [line EXCEPT ![p - 1] = line[p], ![p] = line[p - 1]]

\* ed_transpose_chars; where it fails at the beginning, the cursor has moved.
TransposeChars ==
  /\ Edits /\ UNCHANGED kill
  /\ cursor < Len(line) => Len(line) > 1
  /\ cursor' = IF cursor < Len(line) THEN cursor + 1 ELSE cursor
  /\ line' = IF cursor' > 1 THEN Swapped(cursor') ELSE line

GosmacsTranspose ==
  /\ Edits /\ UNCHANGED <<kill, cursor>>
  /\ cursor > 1 /\ line' = Swapped(cursor)

\* The text up to the end of a word is replaced by another.
UpperCase(n) ==
  /\ Edits /\ UNCHANGED kill
  /\ cursor' = NextWord(line, cursor, n)
  /\ line' = Over(line, cursor, Upcased(From(line, cursor, cursor')))

LowerCase(n) ==
  /\ Edits /\ UNCHANGED kill
  /\ cursor' = NextWord(line, cursor, n)
  /\ line' = Over(line, cursor, Downcased(From(line, cursor, cursor')))

CapitolCase(n) ==
  /\ Edits /\ UNCHANGED kill
  /\ cursor' = NextWord(line, cursor, n)
  /\ line' = Over(line, cursor, Capitalised(From(line, cursor, cursor')))

\* em_copy_prev_word.  Where there is no room the word is written over what
\* is there.  It was found before the line grew: where the buffer moved, it is
\* looked for where that was, and nothing is copied, or all up to the end.
CopyPrevWord(n) ==
  /\ Command /\ typed < MaxTyped /\ cursor > 0
  /\ typed' = typed + 1 /\ UNCHANGED <<killVars, mode, lead>>
  /\ LET word == From(line, PrevWord(line, cursor, n), cursor)
     IN /\ Len(line) + Len(word) <= MaxLine
        /\ \E ok \in BOOLEAN :
             LET gap == From(line, cursor, cursor + Len(word))
                 text == IF ok THEN Inserted(line, cursor, gap) ELSE line
                 fits == cursor + Len(word) <= Len(text)
             IN /\ Room(Len(word), ok)
                /\ \/ /\ line' = Over(text, cursor, word)
                      /\ cursor' = IF fits THEN cursor + Len(word) ELSE Len(text)
                   \/ /\ size'["line"] # size["line"]
                      /\ \/ line' = text /\ UNCHANGED cursor
                         \/ /\ line' = Over(text, cursor, Repeat(Old, Len(text) - cursor))
                            /\ cursor' = Len(text)

-------------------------------------------------------------------------------
(* Calls of an application, from a function it has bound to a key.         *)

\* el_winsertstr.
InsertStr(s) ==
  /\ Command /\ typed < MaxTyped /\ Len(line) + Len(s) <= MaxLine
  /\ \E ok \in BOOLEAN :
       /\ Room(Len(s), ok)
       /\ IF ok THEN line' = Inserted(line, cursor, s) /\ cursor' = cursor + Len(s)
          ELSE UNCHANGED textVars
  /\ typed' = typed + 1
  /\ UNCHANGED <<killVars, mode, lead>>

\* el_deletestr: all or nothing.
DeleteStr(n) ==
  /\ Edits
  /\ n > 0 /\ n <= cursor /\ Cut(cursor - n, cursor)

\* el_deletestr1: the text behind is moved, but no more of it than was
\* deleted, and the line is shorter by what was moved; the cursor stays.
DeleteRange(p, q) ==
  /\ Edits /\ UNCHANGED <<kill, cursor>>
  /\ p < q /\ q < Len(line)
  /\ LET moved == IF q - p < Len(line) - q THEN q - p ELSE Len(line) - q
     IN line' = SubSeq(Over(line, p, From(line, q, q + moved)), 1, Len(line) - moved)

\* Mutant: the cursor is left where it was.
ReplaceStr_KeepsCursor(s) ==
  /\ Command /\ s # <<>> /\ Len(s) <= MaxLine /\ typed < MaxTyped
  /\ \E ok \in BOOLEAN :
       /\ IF Len(s) < limit THEN ok /\ UNCHANGED sizeVars ELSE Grow(Len(s), ok)
       /\ IF ok THEN line' = s /\ UNCHANGED cursor
          ELSE UNCHANGED textVars
  /\ typed' = typed + 1
  /\ UNCHANGED <<killVars, mode, lead>>

\* el_wreplacestr: room is made as if behind the end.
ReplaceStr(s) ==
  /\ Command /\ s # <<>> /\ Len(s) <= MaxLine /\ typed < MaxTyped
  /\ \E ok \in BOOLEAN :
       /\ IF Len(s) < limit THEN ok /\ UNCHANGED sizeVars ELSE Grow(Len(s), ok)
       /\ IF ok THEN line' = s /\ cursor' = (IF cursor > Len(s) THEN Len(s) ELSE cursor)
          ELSE UNCHANGED textVars
  /\ typed' = typed + 1
  /\ UNCHANGED <<killVars, mode, lead>>

\* el_cursor.
MoveBy(n) ==
  /\ Moves
  /\ cursor' = IF cursor + n < 0 THEN 0 ELSE IF cursor + n > Len(line) THEN Len(line) ELSE cursor + n

\* ch_reset, at the beginning of a line and in ed_start_over.
Reset ==
  /\ line' = <<>> /\ cursor' = 0 /\ mark' = 0
  /\ mode' = "insert" /\ lead' = FALSE
  /\ UNCHANGED <<kill, sizeVars, typed>>

WithArgument(n) ==
  \/ NextChar(n) \/ PrevChar(n) \/ NextWordMove(n) \/ PrevWordMove(n)
  \/ PrevLine(n) \/ NextLine(n)
  \/ DeleteNextChar(n) \/ DeleteOrList(n) \/ DeletePrevChar(n) \/ EdDeletePrevChar(n)
  \/ DeletePrevWord(n) \/ DeleteNextWord(n)
  \/ Yank(n) \/ CopyPrevWord(n)
  \/ UpperCase(n) \/ LowerCase(n) \/ CapitolCase(n)
  \/ DeleteStr(n)

Next ==
  \/ \E c \in Typed \cup {Lead}, n \in Args : Type(c, n)
  \/ TypeTrail \/ ToggleOverwrite
  \/ MoveToEnd \/ MoveToBeg
  \/ \E n \in Args : WithArgument(n)
  \/ KillLine \/ KillWholeLine \/ KillRegion \/ CopyRegion
  \/ SetMark \/ ExchangeMark
  \/ TransposeChars \/ GosmacsTranspose
  \/ \E s \in Strings : InsertStr(s) \/ ReplaceStr(s)
  \/ \E p, q \in 0..MaxLine : DeleteRange(p, q)
  \/ \E n \in Args : MoveBy(n) \/ MoveBy(-n)
  \/ Reset

Spec == Init /\ [][Next]_vars

-------------------------------------------------------------------------------
(* Properties.                                                             *)

\* However the line comes to be as long as it is, and whichever buffers could
\* not grow with the others, the line, a newline and a NUL behind it fit in
\* each of them, and what is cut fits in the cut buffer.
BuffersHold ==
  /\ Len(line) < limit /\ \A b \in Buffers : limit + EL_LEAVE <= size[b]
  /\ Len(kill) < size["kill"]

\* The cursor leaves the line only to a mark that was left behind its end,
\* with el_deletestr1, or by a line command with an argument of 0.
CursorStays ==
  [][cursor' \notin 0..Len(line') =>
       \/ cursor' = mark \/ \E p, q \in 0..MaxLine : DeleteRange(p, q)
       \/ PrevLine(0) \/ NextLine(0)]_vars

\* What is taken from the line is in the cut buffer, in order, and the cursor
\* is where it was: put there, it makes the line what it was.  Only
\* ed_delete_prev_char with an argument keeps less, and el_deletestr1 nothing;
\* a line that is replaced or begun is not cut.
CutIsKept ==
  [][Len(line') < Len(line) =>
       \/ cursor' <= Len(line') /\ line = Inserted(line', cursor', kill')
       \/ \E n \in Args \ {0, 1} : EdDeletePrevChar(n)
       \/ Reset \/ \E s \in Strings : ReplaceStr(s)
       \/ \E p, q \in 0..MaxLine : DeleteRange(p, q)]_vars

\* The commands that go by graphemes or words neither cut a code point in
\* half nor stop within one: a step that does is none of theirs.
InWhole == Between(line, cursor) /\ Whole(line)

ByGrapheme ==
  \E n \in Args :
    \/ NextChar(n) \/ PrevChar(n) \/ NextWordMove(n) \/ PrevWordMove(n)
    \/ DeleteNextChar(n) \/ DeletePrevChar(n) \/ DeletePrevWord(n) \/ DeleteNextWord(n)

CodePointsKept ==
  [][~(Between(line', cursor') /\ Whole(line')) /\ InWhole => ~ByGrapheme]_vars

\* Transposing and the case commands change nothing but the order of two
\* characters and the case of letters, and that only up to where the cursor is
\* then.
Folded(s) == Downcased(s)
Count(s, c) == Cardinality({i \in 1..Len(s) : s[i] = c})

Rearranges ==
  /\ line' # line /\ UNCHANGED <<kill, typed>>
  /\ \/ TransposeChars \/ GosmacsTranspose
     \/ \E n \in Args : UpperCase(n) \/ LowerCase(n) \/ CapitolCase(n)

LettersKept ==
  [][Rearranges =>
       /\ \A c \in Char : Count(Folded(line'), c) = Count(Folded(line), c)
       /\ From(line', cursor', Len(line')) = From(line, cursor', Len(line))
       /\ \A i \in 1..(cursor - 2) : line'[i] = line[i]]_vars
===============================================================================
