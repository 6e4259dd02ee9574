-------------------------------- MODULE Undo ----------------------------------
(***************************************************************************)
(* Undo and redo of src/src/chared.c, driven by the dispatch loop of       *)
(* el_wgets() in src/src/read.c: every command changes the line, then      *)
(* c_undo_record() looks at what became of it, then lastcmd is set.  One   *)
(* step is one turn of that loop.  in_undo is set by c_undo_apply() and    *)
(* cleared by the c_undo_record() of the same turn, so it is FALSE between *)
(* turns and has no variable.                                              *)
(*                                                                         *)
(* The characters are "x", a space, NUL, and the two halves of a code      *)
(* point that takes two wchar_t when SIZEOF_WCHAR_T is 2 (Windows):        *)
(* read_char() delivers the trail right after the lead.                    *)
(***************************************************************************)
EXTENDS Integers, Sequences, SequencesExt

CONSTANTS
  UndoMax,      \* C_UNDO_MAX
  Utf16,        \* SIZEOF_WCHAR_T = 2
  Keys,         \* BOUND: the characters typed
  MaxLen        \* BOUND: longest line typed

ASSUME UndoMaxAssumption == UndoMax \in Nat \ {0}
ASSUME SwitchAssumption == Utf16 \in BOOLEAN

Char == {"x", " ", "lead", "trail", "nul"}

ASSUME BoundsAssumption == Keys \subseteq Char /\ MaxLen \in Nat

\* A line, and a saved line (c_undo_line_t).
Snap == [text : Seq(Char), cursor : Nat, eventno : Nat]

VARIABLES
  line,         \* el_line, and el_history.eventno
  undo, redo,   \* the stacks, oldest first
  cur,          \* line as of the last record
  valid,        \* cur holds a line
  lastcmd,      \* el_state.lastcmd: "insert", "unassigned" or "other"
  inputmode,    \* "insert" or "replace"
  half,         \* the lead of a code point was read, its trail comes next
  short,        \* memory is short: any allocation may fail
  slipped       \* auxiliary: a run of typing has begun behind an undo in a way
                \* c_undo_record does not see

undoVars == <<undo, redo, cur, valid>>
vars == <<line, undo, redo, cur, valid, lastcmd, inputmode, half, short, slipped>>

NoLine == [text |-> <<>>, cursor |-> 0, eventno |-> 0]

Init ==
  /\ line = NoLine
  /\ undo = <<>> /\ redo = <<>>
  /\ cur = NoLine
  /\ valid = TRUE
  /\ lastcmd = "unassigned"
  /\ inputmode = "insert"
  /\ half = FALSE
  /\ short = FALSE /\ slipped = FALSE

-------------------------------------------------------------------------------
(* c_undo_save, c_undo_push and c_undo_record.                             *)

\* c_undo_save into cur: it holds the line, or nothing if there is no memory.
Saved(new) == cur' = new
SaveFailed == short /\ cur' = [cur EXCEPT !.text = <<>>]

\* Mutant: room is made only after the stack has overflowed.
Crop_Late(stack) == IF Len(stack) > UndoMax THEN Tail(stack) ELSE stack

Crop(stack) == IF Len(stack) = UndoMax THEN Tail(stack) ELSE stack

Push(stack, snap) == Append(Crop(stack), snap)

Coalesces(cmd, c) == cmd = "insert" /\ lastcmd = "insert" /\ c # " "

\* cur holds no line: try again to save one.
RecordAgain(new) ==
  /\ ~valid
  /\ \/ Saved(new) /\ valid' = TRUE
     \/ SaveFailed /\ valid' = FALSE
  /\ UNCHANGED <<undo, redo>>

\* The text is unchanged: the cursor and the event are kept current.
\* Mutant: the cursor is not.
RecordSame_StaleCursor(new) ==
  /\ valid /\ new.text = cur.text
  /\ cur' = [cur EXCEPT !.eventno = new.eventno]
  /\ UNCHANGED <<undo, redo, valid>>

RecordSame(new) ==
  /\ valid /\ new.text = cur.text
  /\ cur' = new
  /\ UNCHANGED <<undo, redo, valid>>

\* The text goes on a run of typing.
RecordJoin(cmd, c, new) ==
  /\ valid /\ new.text # cur.text /\ Coalesces(cmd, c)
  /\ \/ Saved(new) /\ UNCHANGED valid
     \/ SaveFailed /\ valid' = FALSE
  /\ UNCHANGED <<undo, redo>>

\* Mutant: the redo stack survives the edit.
RecordEdit_KeepsRedo(cmd, c, new) ==
  /\ valid /\ new.text # cur.text /\ ~Coalesces(cmd, c)
  /\ undo' = Push(undo, cur) /\ UNCHANGED redo
  /\ Saved(new) /\ UNCHANGED valid

\* A new edit: cur goes onto the undo stack and the redo stack is freed,
\* unless the push fails, which may have cost the oldest entry.
RecordEdit(cmd, c, new) ==
  /\ valid /\ new.text # cur.text /\ ~Coalesces(cmd, c)
  /\ \/ /\ undo' = Push(undo, cur) /\ redo' = <<>>
        /\ \/ Saved(new) /\ UNCHANGED valid
           \/ SaveFailed /\ valid' = FALSE
     \/ /\ short
        /\ undo' = Crop(undo) /\ valid' = FALSE
        /\ UNCHANGED <<redo, cur>>

Record(cmd, c, new) ==
  IF Utf16 /\ c = "lead" THEN UNCHANGED undoVars
  ELSE RecordAgain(new) \/ RecordSame(new) \/ RecordJoin(cmd, c, new) \/ RecordEdit(cmd, c, new)

\* What begins a run that is not seen: the first half of a code point, which is
\* not recorded, and overwriting characters by themselves.  What is typed next
\* finds ED_INSERT in lastcmd and joins what was there before.
Slips(cmd, c, new) ==
  /\ cmd = "insert" /\ redo' # <<>>
  /\ slipped \/ (Utf16 /\ c = "lead") \/ new.text = cur.text

\* One turn of the loop: the command cmd, started by the character c, leaves
\* the line new.
Turn(cmd, c, new) ==
  /\ line' = new
  /\ Record(cmd, c, new)
  /\ slipped' = Slips(cmd, c, new)
  /\ lastcmd' = cmd
  /\ UNCHANGED short

-------------------------------------------------------------------------------
(* The commands, as far as the line can tell them apart.                   *)

\* ed_insert with argument 1, at the end of the line or in it.
Inserted(c) ==
  LET k == line.cursor
      rest == SubSeq(line.text, k + 1, Len(line.text))
      over == IF inputmode = "replace" /\ rest # <<>> THEN Tail(rest) ELSE rest
  IN [line EXCEPT !.text = SubSeq(line.text, 1, k) \o <<c>> \o over, !.cursor = k + 1]

Typeable == Keys \ (IF Utf16 THEN {"trail"} ELSE {"lead", "trail"})

Fits(new) == Len(new.text) <= MaxLen

Type(c) ==
  /\ ~half /\ c \in Typeable
  /\ Fits(Inserted(c)) /\ (c = "lead" => Len(line.text) + 2 <= MaxLen)
  /\ Turn("insert", c, Inserted(c))
  /\ half' = (c = "lead")
  /\ UNCHANGED inputmode

TypeTrail ==
  /\ half
  /\ Turn("insert", "trail", Inserted("trail"))
  /\ half' = FALSE
  /\ UNCHANGED inputmode

\* ed_quoted_insert reads one wchar_t itself; the command's own character is
\* the one that started it.
Quote(c) ==
  /\ ~half /\ c \in Typeable
  /\ Fits(Inserted(c)) /\ (c = "lead" => Len(line.text) + 2 <= MaxLen)
  /\ Turn("other", "ctrl-v", Inserted(c))
  /\ half' = (c = "lead")
  /\ UNCHANGED inputmode

Other(new) ==
  /\ ~half
  /\ Turn("other", "key", new)
  /\ UNCHANGED <<inputmode, half>>

\* The deleting commands go through c_delbefore: n characters before the cursor.
Erase(n) ==
  /\ n \in 1..line.cursor
  /\ Other([line EXCEPT !.cursor = @ - n,
                        !.text = SubSeq(@, 1, line.cursor - n)
                                   \o SubSeq(@, line.cursor + 1, Len(@))])

Move(k) == k \in 0..Len(line.text) /\ Other([line EXCEPT !.cursor = k])

ToggleOverwrite ==
  /\ ~half
  /\ inputmode' = IF inputmode = "insert" THEN "replace" ELSE "insert"
  /\ Turn("other", "key", line)
  /\ UNCHANGED half

\* c_undo_apply: the line becomes the top of one stack and cur goes onto the
\* other; then c_undo_record brings cur up to date.  When there is nothing to
\* step to, or no memory for the push, the command leaves the line alone.
Restored(snap) ==
  [snap EXCEPT !.cursor = IF @ < Len(snap.text) THEN @ ELSE Len(snap.text)]

Resync(new) ==
  /\ line' = new
  /\ \/ Saved(new)
     \/ SaveFailed
  /\ lastcmd' = "other" /\ slipped' = FALSE
  /\ UNCHANGED <<valid, short>>

UndoCommand ==
  /\ ~half
  /\ \/ (undo = <<>> \/ ~valid \/ short) /\ Turn("other", "key", line)
     \/ /\ undo # <<>> /\ valid
        /\ Resync(Restored(Last(undo)))
        /\ undo' = Front(undo) /\ redo' = Push(redo, cur)
  /\ UNCHANGED <<inputmode, half>>

RedoCommand ==
  /\ ~half
  /\ \/ (redo = <<>> \/ ~valid \/ short) /\ Turn("other", "key", line)
     \/ /\ redo # <<>> /\ valid
        /\ Resync(Restored(Last(redo)))
        /\ redo' = Front(redo) /\ undo' = Push(undo, cur)
  /\ UNCHANGED <<inputmode, half>>

\* ch_reset empties the line, calls c_undo_reset, and only then forgets the
\* event the line came from.
Reset ==
  /\ line' = NoLine
  /\ undo' = <<>> /\ redo' = <<>>
  /\ \/ cur' = [NoLine EXCEPT !.eventno = line.eventno] /\ valid' = TRUE
     \/ SaveFailed /\ valid' = FALSE
  /\ inputmode' = "insert"

\* The line is accepted and the next call of el_wgets starts with ch_reset.
NewLine ==
  /\ ~half
  /\ Reset
  /\ lastcmd' = "unassigned" /\ slipped' = FALSE
  /\ UNCHANGED <<half, short>>

\* ed_start_over is a command: c_undo_record follows the ch_reset and finds
\* the text as it was saved, or saves it if that failed.
StartOver ==
  /\ ~half
  /\ line' = NoLine
  /\ undo' = <<>> /\ redo' = <<>>
  /\ \/ cur' = NoLine /\ valid' = TRUE
     \/ SaveFailed /\ valid' = FALSE
  /\ inputmode' = "insert"
  /\ lastcmd' = "other" /\ slipped' = FALSE
  /\ UNCHANGED <<half, short>>

MemoryRunsShort == ~short /\ short' = TRUE /\ UNCHANGED <<line, undoVars, lastcmd, inputmode, half, slipped>>

Next ==
  \/ \E c \in Keys : Type(c) \/ Quote(c)
  \/ TypeTrail
  \/ \E n \in 1..MaxLen : Erase(n)
  \/ \E k \in 0..MaxLen : Move(k)
  \/ ToggleOverwrite
  \/ UndoCommand \/ RedoCommand
  \/ NewLine \/ StartOver
  \/ MemoryRunsShort

Spec == Init /\ [][Next]_vars

-------------------------------------------------------------------------------
(* Properties.                                                             *)

\* Every line is a line with its cursor in it, on the screen and on the stacks.
TypeOK ==
  /\ line \in Snap /\ line.cursor <= Len(line.text)
  /\ undo \in Seq(Snap) /\ redo \in Seq(Snap) /\ cur \in Snap
  /\ valid \in BOOLEAN
  /\ lastcmd \in {"insert", "unassigned", "other"}
  /\ inputmode \in {"insert", "replace"}
  /\ half \in BOOLEAN /\ short \in BOOLEAN /\ slipped \in BOOLEAN

\* The two stacks share the room of one.  So the push of c_undo_apply never
\* drops an entry, and what was undone can be redone to the last step.
StacksBounded == Len(undo) + Len(redo) <= UndoMax

\* Between commands the record is up to date: cur is the text on the screen
\* with the cursor where the user has it, whichever command wrote the line.
CurIsLine ==
  ~short /\ ~half => valid /\ cur.text = line.text /\ cur.cursor = line.cursor

\* The stacks and cur implement the timeline a user thinks of, until memory
\* runs short: undo and redo walk along it, and an edit behind an undo cuts
\* off what was undone.  That fails only where a code point in two halves, or
\* an overwrite that changes nothing, is the first thing typed there.
Timeline == INSTANCE UndoTimeline WITH
              Depth <- UndoMax,
              states <- IF short THEN <<NoLine>> ELSE undo \o <<cur>> \o Reverse(redo),
              now <- IF short THEN 1 ELSE Len(undo) + 1

ImplementsTimeline == Timeline!TimelineSpec
===============================================================================
