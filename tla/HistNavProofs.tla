----------------------------- MODULE HistNavProofs -----------------------------
(***************************************************************************)
(* Proofs about Undo, about HistNav, which puts the history beside it, and *)
(* about HistSearch, which searches it.                                    *)
(*                                                                         *)
(* Undo, for every C_UNDO_MAX, every length of line, with or without       *)
(* memory running out and whatever the width of wchar_t.  StacksBounded is *)
(* inductive once the stacks are known to be sequences: an edit empties    *)
(* the redo stack when it pushes, and undo and redo move an entry from one *)
(* stack to the other.  CurIsLine is inductive where no allocation fails,  *)
(* since every turn of the loop but the one that reads the first half of a *)
(* code point ends in a record.  With both, every turn of the loop is a    *)
(* step of UndoTimeline: a run of typing goes on behind an undo only after *)
(* a slip (SlipsKnown), since the edit that began it freed the redo stack. *)
(*                                                                         *)
(* HistNav, for every history, every set of bound commands and every       *)
(* argument.  EventnoInRange is not inductive: undo brings back a saved    *)
(* line with the event it was saved with, so every line on the stacks and  *)
(* in cur has to name an event there is (KnownLines).  DraftKept is        *)
(* inductive once the lines are known to be lines: a copy that is copied   *)
(* again stays as it is (CopiedAgain).                                     *)
(*                                                                         *)
(* HistSearch, for every pattern and every depth of calls.  DraftFound     *)
(* needs that a call which puts an event back finds the typed line in      *)
(* el_history.buf, and AbortReturns that the line typed and the events are *)
(* what they were when the outermost call began (UnderWay).                *)
(***************************************************************************)
EXTENDS HistSearch, SequenceTheorems, WellFoundedInduction, TLAPS

IInv == TypeOK /\ StacksBounded

\* A line with its cursor in it.
Line == {s \in Snap : s.cursor <= Len(s.text)}

\* What IInv says of the undo machinery.
StacksInv ==
  /\ undo \in Seq(Snap) /\ redo \in Seq(Snap) /\ cur \in Snap
  /\ valid \in BOOLEAN
  /\ StacksBounded

-------------------------------------------------------------------------------
(* Lines and stacks.                                                       *)

LEMMA SnapParts ==
  ASSUME NEW s \in Snap
  PROVE  s.text \in Seq(Char) /\ s.cursor \in Nat /\ s.eventno \in Nat /\ Len(s.text) \in Nat
<1>1. s.text \in Seq(Char) /\ s.cursor \in Nat /\ s.eventno \in Nat
  BY DEF Snap
<1> QED
  BY <1>1, LenProperties

LEMMA NoLineIsLine == NoLine \in Line /\ NoLine.eventno = 0
<1>1. <<>> \in Seq(Char) /\ Len(<<>>) = 0
  BY EmptySeq
<1> QED
  BY <1>1 DEF NoLine, Line, Snap

\* A part of a text is a text.
LEMMA PartOfText ==
  ASSUME NEW t \in Seq(Char), NEW m \in Nat, NEW n \in Nat, m >= 1, n <= Len(t)
  PROVE  /\ SubSeq(t, m, n) \in Seq(Char)
         /\ Len(SubSeq(t, m, n)) = IF m <= n THEN n - m + 1 ELSE 0
<1>1. \A i \in m..n : t[i] \in Char
  <2>1. \A i \in m..n : i \in 1..Len(t)
    BY LenProperties
  <2> QED
    BY <2>1, ElementOfSeq
<1>2. m \in Int /\ n \in Int
  OBVIOUS
<1> QED
  BY <1>1, <1>2, SubSeqProperties

\* Without its last or first element a stack is one shorter.
LEMMA Shorter ==
  ASSUME NEW stack \in Seq(Snap), stack # <<>>
  PROVE  /\ Last(stack) \in Snap
         /\ Front(stack) \in Seq(Snap) /\ Len(Front(stack)) = Len(stack) - 1
         /\ Tail(stack) \in Seq(Snap) /\ Len(Tail(stack)) = Len(stack) - 1
<1>1. Len(stack) \in Nat /\ Len(stack) >= 1
  BY EmptySeq, LenProperties
<1>2. \A i \in 1..Len(stack) : stack[i] \in Snap
  BY ElementOfSeq
<1>3. \A i \in 1..(Len(stack) - 1) : stack[i] \in Snap
  BY <1>1, <1>2
<1>4. /\ SubSeq(stack, 1, Len(stack) - 1) \in Seq(Snap)
      /\ Len(SubSeq(stack, 1, Len(stack) - 1))
           = IF 1 <= Len(stack) - 1 THEN Len(stack) - 1 - 1 + 1 ELSE 0
  BY <1>1, <1>3, SubSeqProperties, 1 \in Int, Len(stack) - 1 \in Int
<1>5. Last(stack) \in Snap
  BY <1>1, <1>2 DEF Last
<1>6. Front(stack) \in Seq(Snap) /\ Len(Front(stack)) = Len(stack) - 1
  <2> DEFINE n == Len(stack)
             f == SubSeq(stack, 1, n - 1)
  <2>1. /\ n \in Nat /\ n >= 1 /\ f \in Seq(Snap)
        /\ Len(f) = IF 1 <= n - 1 THEN n - 1 - 1 + 1 ELSE 0
    BY <1>1, <1>4
  <2>2. Front(stack) = f
    BY DEF Front
  <2> HIDE DEF n, f
  <2>3. Len(f) = n - 1
    BY <2>1
  <2> QED
    BY <2>1, <2>2, <2>3 DEF n
<1>7. Tail(stack) \in Seq(Snap) /\ Len(Tail(stack)) = Len(stack) - 1
  BY HeadTailProperties
<1> QED
  BY <1>5, <1>6, <1>7

LEMMA CropFits ==
  ASSUME NEW stack \in Seq(Snap), Len(stack) <= UndoMax
  PROVE  /\ Crop(stack) \in Seq(Snap)
         /\ Len(Crop(stack)) <= Len(stack) /\ Len(Crop(stack)) < UndoMax
         /\ Len(Crop(stack)) \in Nat
<1>1. Len(stack) \in Nat /\ UndoMax \in Nat \ {0}
  BY LenProperties, UndoMaxAssumption
<1>2. CASE Len(stack) = UndoMax
  <2>1. stack # <<>>
    BY <1>1, <1>2, EmptySeq
  <2> QED
    BY <1>1, <1>2, <2>1, Shorter DEF Crop
<1>3. CASE Len(stack) # UndoMax
  BY <1>1, <1>3 DEF Crop
<1> QED
  BY <1>2, <1>3

LEMMA PushFits ==
  ASSUME NEW stack \in Seq(Snap), NEW snap \in Snap, Len(stack) <= UndoMax
  PROVE  /\ Push(stack, snap) \in Seq(Snap)
         /\ Len(Push(stack, snap)) \in Nat
         /\ Len(Push(stack, snap)) <= Len(stack) + 1
         /\ Len(Push(stack, snap)) <= UndoMax
<1>1. Len(stack) \in Nat /\ UndoMax \in Nat
  BY LenProperties, UndoMaxAssumption
<1> QED
  BY <1>1, CropFits, AppendProperties DEF Push

-------------------------------------------------------------------------------
(* c_undo_record.                                                          *)

LEMMA SaveKeeps ==
  ASSUME cur \in Snap, NEW new \in Snap, Saved(new) \/ SaveFailed
  PROVE  cur' \in Snap
<1>1. <<>> \in Seq(Char)
  BY EmptySeq
<1> QED
  BY <1>1 DEF Saved, SaveFailed, Snap

LEMMA RecordKeeps ==
  ASSUME StacksInv, NEW cmd, NEW c, NEW new \in Snap, Record(cmd, c, new)
  PROVE  StacksInv'
<1>1. /\ Len(undo) \in Nat /\ Len(redo) \in Nat /\ UndoMax \in Nat
      /\ Len(undo) <= UndoMax
      /\ <<>> \in Seq(Snap) /\ Len(<<>>) = 0
  BY LenProperties, UndoMaxAssumption, EmptySeq DEF StacksInv, StacksBounded
<1>2. CASE UNCHANGED undoVars
  BY <1>2 DEF undoVars, StacksInv, StacksBounded
<1>3. CASE RecordAgain(new)
  BY <1>3, SaveKeeps DEF RecordAgain, StacksInv, StacksBounded
<1>4. CASE RecordSame(new)
  BY <1>4 DEF RecordSame, StacksInv, StacksBounded
<1>5. CASE RecordJoin(cmd, c, new)
  BY <1>5, SaveKeeps DEF RecordJoin, StacksInv, StacksBounded
<1>6. CASE RecordEdit(cmd, c, new)
  <2>1. CASE undo' = Push(undo, cur) /\ redo' = <<>>
    <3>1. undo' \in Seq(Snap) /\ Len(undo') \in Nat /\ Len(undo') <= UndoMax
      BY <1>1, <2>1, PushFits DEF StacksInv
    <3>2. redo' \in Seq(Snap) /\ Len(redo') = 0
      BY <1>1, <2>1
    <3>3. StacksBounded'
      BY <1>1, <3>1, <3>2 DEF StacksBounded
    <3>4. cur' \in Snap /\ valid' \in BOOLEAN
      BY <1>6, SaveKeeps DEF RecordEdit, StacksInv
    <3> QED
      BY <3>1, <3>2, <3>3, <3>4 DEF StacksInv
  <2>2. CASE undo' = Crop(undo) /\ UNCHANGED <<redo, cur>> /\ valid' = FALSE
    <3>1. undo' \in Seq(Snap) /\ Len(undo') \in Nat /\ Len(undo') <= Len(undo)
      BY <1>1, <2>2, CropFits DEF StacksInv
    <3>2. StacksBounded'
      BY <1>1, <2>2, <3>1 DEF StacksInv, StacksBounded
    <3> QED
      BY <2>2, <3>1, <3>2 DEF StacksInv
  <2> QED
    BY <1>6, <2>1, <2>2 DEF RecordEdit
<1> QED
  BY <1>2, <1>3, <1>4, <1>5, <1>6 DEF Record

\* c_undo_apply moves the top of one stack to the screen and cur to the other.
LEMMA ApplyKeeps ==
  ASSUME StacksInv, NEW from \in Seq(Snap), NEW to \in Seq(Snap), from # <<>>,
         Len(from) + Len(to) <= UndoMax
  PROVE  /\ Front(from) \in Seq(Snap) /\ Push(to, cur) \in Seq(Snap)
         /\ Len(Front(from)) + Len(Push(to, cur)) <= UndoMax
         /\ Len(Push(to, cur)) + Len(Front(from)) <= UndoMax
<1>1. /\ Len(from) \in Nat /\ Len(to) \in Nat /\ UndoMax \in Nat
      /\ Len(to) <= UndoMax
  BY LenProperties, UndoMaxAssumption
<1>2. Front(from) \in Seq(Snap) /\ Len(Front(from)) = Len(from) - 1
  BY Shorter
<1>3. /\ Push(to, cur) \in Seq(Snap) /\ Len(Push(to, cur)) \in Nat
      /\ Len(Push(to, cur)) <= Len(to) + 1
  BY <1>1, PushFits DEF StacksInv
<1> QED
  BY <1>1, <1>2, <1>3

-------------------------------------------------------------------------------
(* The commands leave a line with its cursor in it.                        *)

LEMMA LineMade ==
  ASSUME NEW s \in Snap, NEW t \in Seq(Char), NEW k \in Nat, k <= Len(t)
  PROVE  [s EXCEPT !.text = t, !.cursor = k] \in Line
BY DEF Snap, Line

LEMMA InsertedIsLine ==
  ASSUME line \in Line, NEW c \in Char
  PROVE  Inserted(c) \in Line
<1> DEFINE k == line.cursor
           t == line.text
           rest == SubSeq(t, k + 1, Len(t))
           over == IF inputmode = "replace" /\ rest # <<>> THEN Tail(rest) ELSE rest
           head == SubSeq(t, 1, k)
<1>1. /\ line \in Snap /\ t \in Seq(Char) /\ k \in Nat /\ Len(t) \in Nat
      /\ k <= Len(t) /\ k + 1 >= 1
  BY SnapParts DEF Line
<1>2. head \in Seq(Char) /\ Len(head) = k
  BY <1>1, PartOfText
<1>3. rest \in Seq(Char)
  BY <1>1, PartOfText
<1>4. over \in Seq(Char) /\ Len(over) \in Nat
  BY <1>3, HeadTailProperties, LenProperties
<1>5. <<c>> \in Seq(Char) /\ Len(<<c>>) = 1
  OBVIOUS
<1> HIDE DEF head, over
<1>6. head \o <<c>> \in Seq(Char) /\ Len(head \o <<c>>) = k + 1
  BY <1>1, <1>2, <1>5, ConcatProperties
<1>7. /\ head \o <<c>> \o over \in Seq(Char)
      /\ Len(head \o <<c>> \o over) >= k + 1
  BY <1>1, <1>4, <1>6, ConcatProperties
<1> DEFINE made == head \o <<c>> \o over
           next == k + 1
<1>8. Inserted(c) = [line EXCEPT !.text = made, !.cursor = next]
  BY DEF Inserted, head, over
<1>9. /\ made \in Seq(Char) /\ next \in Nat
      /\ Len(made) \in Nat /\ next <= Len(made)
  BY <1>1, <1>7, LenProperties
<1> HIDE DEF k, t, rest, made, next
<1>10. [line EXCEPT !.text = made, !.cursor = next] \in Line
  BY <1>1, <1>9, LineMade
<1> QED
  BY <1>8, <1>10

LEMMA ErasedIsLine ==
  ASSUME line \in Line, NEW n \in 1..line.cursor
  PROVE  [line EXCEPT !.cursor = @ - n,
                      !.text = SubSeq(@, 1, line.cursor - n)
                                 \o SubSeq(@, line.cursor + 1, Len(@))] \in Line
<1> DEFINE k == line.cursor
           t == line.text
           a == SubSeq(t, 1, k - n)
           b == SubSeq(t, k + 1, Len(t))
<1>1. /\ line \in Snap /\ t \in Seq(Char) /\ k \in Nat /\ Len(t) \in Nat
      /\ k <= Len(t)
  BY SnapParts DEF Line
<1>2. k - n \in Nat /\ k - n <= Len(t) /\ k + 1 \in Nat /\ k + 1 >= 1
  BY <1>1
<1>3. a \in Seq(Char) /\ Len(a) = k - n
  BY <1>1, <1>2, PartOfText
<1>4. b \in Seq(Char)
  BY <1>1, <1>2, PartOfText
<1> HIDE DEF a, b
<1>5. a \o b \in Seq(Char) /\ Len(a \o b) >= k - n
  BY <1>2, <1>3, <1>4, LenProperties, ConcatProperties
<1> DEFINE made == a \o b
           next == k - n
<1>6. made \in Seq(Char) /\ next \in Nat /\ Len(made) \in Nat /\ next <= Len(made)
  BY <1>2, <1>5, LenProperties
<1>7. line.cursor - n = next /\ SubSeq(line.text, 1, line.cursor - n) = a
      /\ SubSeq(line.text, line.cursor + 1, Len(line.text)) = b
  BY DEF a, b
<1> HIDE DEF k, t, made, next
<1>8. [line EXCEPT !.cursor = next, !.text = made] \in Line
  BY <1>1, <1>6 DEF Snap, Line
<1> QED
  BY <1>7, <1>8 DEF made

LEMMA RestoredIsLine ==
  ASSUME NEW snap \in Snap
  PROVE  Restored(snap) \in Line
<1>1. snap.cursor \in Nat /\ Len(snap.text) \in Nat
  BY SnapParts
<1> QED
  BY <1>1 DEF Restored, Line, Snap

-------------------------------------------------------------------------------
(* The invariant.                                                          *)

Modes ==
  /\ lastcmd \in {"insert", "unassigned", "other"}
  /\ inputmode \in {"insert", "replace"}
  /\ half \in BOOLEAN /\ short \in BOOLEAN /\ slipped \in BOOLEAN

LEMMA Parts == IInv <=> line \in Line /\ StacksInv /\ Modes
BY DEF IInv, TypeOK, Line, StacksInv, Modes

LEMMA PartsNext ==
  ASSUME line' \in Line, StacksInv', Modes'
  PROVE  IInv'
BY DEF IInv, TypeOK, Line, StacksInv, Modes

LEMMA InitIInv == Init => IInv
<1> SUFFICES ASSUME Init PROVE IInv
  OBVIOUS
<1>1. NoLine \in Line /\ NoLine \in Snap /\ <<>> \in Seq(Snap) /\ Len(<<>>) = 0
  BY NoLineIsLine, EmptySeq DEF Line
<1>2. StacksBounded
  BY <1>1, UndoMaxAssumption DEF Init, StacksBounded
<1> QED
  BY <1>1, <1>2, Parts DEF Init, StacksInv, Modes

\* A turn of the loop that leaves a line.
LEMMA TurnKeeps ==
  ASSUME IInv, NEW cmd \in {"insert", "other"}, NEW c, NEW new \in Line,
         Turn(cmd, c, new), inputmode' \in {"insert", "replace"}, half' \in BOOLEAN
  PROVE  IInv'
<1>1. StacksInv'
  BY Parts, RecordKeeps DEF Turn, Line
<1>2. slipped' \in BOOLEAN
  BY DEF Turn, Slips
<1> QED
  BY <1>1, <1>2, Parts, PartsNext DEF Turn, Modes

\* One case for each command.
LEMMA Step ==
  ASSUME IInv, Next
  PROVE  IInv'
<1>1. line \in Line /\ line \in Snap /\ StacksInv /\ Modes
  BY Parts DEF Line
<1>2. /\ Len(undo) \in Nat /\ Len(redo) \in Nat
      /\ Len(undo) + Len(redo) <= UndoMax /\ Len(redo) + Len(undo) <= UndoMax
  BY <1>1, LenProperties, UndoMaxAssumption DEF StacksInv, StacksBounded
<1>3. ASSUME NEW c \in Char, Type(c) \/ Quote(c)
      PROVE  IInv'
  <2>1. Inserted(c) \in Line
    BY <1>1, InsertedIsLine
  <2>2. half' \in BOOLEAN /\ inputmode' \in {"insert", "replace"}
    BY <1>1, <1>3 DEF Type, Quote, Modes
  <2>3. Turn("insert", c, Inserted(c)) \/ Turn("other", "ctrl-v", Inserted(c))
    BY <1>3 DEF Type, Quote
  <2> QED
    BY <2>1, <2>2, <2>3, TurnKeeps
<1>4. CASE TypeTrail
  <2>1. Inserted("trail") \in Line
    BY <1>1, InsertedIsLine DEF Char
  <2>2. half' \in BOOLEAN /\ inputmode' \in {"insert", "replace"}
    BY <1>1, <1>4 DEF TypeTrail, Modes
  <2> QED
    BY <1>4, <2>1, <2>2, TurnKeeps DEF TypeTrail
<1>5. ASSUME NEW new \in Line, Other(new)
      PROVE  IInv'
  <2>1. half' \in BOOLEAN /\ inputmode' \in {"insert", "replace"}
    BY <1>1, <1>5 DEF Other, Modes
  <2> QED
    BY <1>5, <2>1, TurnKeeps DEF Other
<1>6. ASSUME NEW n, Erase(n)
      PROVE  IInv'
  BY <1>1, <1>5, <1>6, ErasedIsLine DEF Erase
<1>7. ASSUME NEW k, Move(k)
      PROVE  IInv'
  <2>1. [line EXCEPT !.cursor = k] \in Line
    <3>1. line.text \in Seq(Char) /\ Len(line.text) \in Nat
      BY <1>1, SnapParts
    <3>2. k \in Nat /\ k <= Len(line.text)
      BY <1>7, <3>1 DEF Move
    <3> QED
      BY <1>1, <3>1, <3>2 DEF Snap, Line
  <2> QED
    BY <1>5, <1>7, <2>1 DEF Move
<1>9. CASE ToggleOverwrite
  <2>1. half' \in BOOLEAN /\ inputmode' \in {"insert", "replace"}
    BY <1>1, <1>9 DEF ToggleOverwrite, Modes
  <2> QED
    BY <1>1, <1>9, <2>1, TurnKeeps DEF ToggleOverwrite
<1>10. ASSUME NEW from \in Seq(Snap), from # <<>>, Resync(Restored(Last(from)))
       PROVE  line' \in Line /\ cur' \in Snap /\ valid' \in BOOLEAN
  <2>1. Restored(Last(from)) \in Line /\ Restored(Last(from)) \in Snap
    BY <1>10, Shorter, RestoredIsLine DEF Line
  <2> QED
    BY <1>1, <1>10, <2>1, SaveKeeps DEF Resync, StacksInv
<1>11. CASE UndoCommand
  <2>1. /\ half' \in BOOLEAN /\ inputmode' \in {"insert", "replace"}
        /\ inputmode' = inputmode /\ half' = half
    BY <1>1, <1>11 DEF UndoCommand, Modes
  <2>2. CASE Turn("other", "key", line)
    BY <1>1, <2>1, <2>2, TurnKeeps
  <2>3. CASE ~Turn("other", "key", line)
    <3>1. /\ undo # <<>> /\ Resync(Restored(Last(undo)))
          /\ undo' = Front(undo) /\ redo' = Push(redo, cur)
      BY <1>11, <2>3 DEF UndoCommand
    <3>2. /\ undo' \in Seq(Snap) /\ redo' \in Seq(Snap)
          /\ Len(undo') + Len(redo') <= UndoMax
      BY <1>1, <1>2, <3>1, ApplyKeeps DEF StacksInv
    <3> QED
      <4>1. line' \in Line /\ cur' \in Snap /\ valid' \in BOOLEAN
        BY <1>1, <1>10, <3>1 DEF StacksInv
      <4>2. StacksInv'
        BY <3>2, <4>1 DEF StacksInv, StacksBounded
      <4>3. Modes'
        BY <1>1, <2>1, <3>1 DEF Resync, Modes
      <4> QED
        BY <4>1, <4>2, <4>3, PartsNext
  <2> QED
    BY <2>2, <2>3
<1>12. CASE RedoCommand
  <2>1. /\ half' \in BOOLEAN /\ inputmode' \in {"insert", "replace"}
        /\ inputmode' = inputmode /\ half' = half
    BY <1>1, <1>12 DEF RedoCommand, Modes
  <2>2. CASE Turn("other", "key", line)
    BY <1>1, <2>1, <2>2, TurnKeeps
  <2>3. CASE ~Turn("other", "key", line)
    <3>1. /\ redo # <<>> /\ Resync(Restored(Last(redo)))
          /\ redo' = Front(redo) /\ undo' = Push(undo, cur)
      BY <1>12, <2>3 DEF RedoCommand
    <3>2. /\ undo' \in Seq(Snap) /\ redo' \in Seq(Snap)
          /\ Len(undo') + Len(redo') <= UndoMax
      BY <1>1, <1>2, <3>1, ApplyKeeps DEF StacksInv
    <3> QED
      <4>1. line' \in Line /\ cur' \in Snap /\ valid' \in BOOLEAN
        BY <1>1, <1>10, <3>1 DEF StacksInv
      <4>2. StacksInv'
        BY <3>2, <4>1 DEF StacksInv, StacksBounded
      <4>3. Modes'
        BY <1>1, <2>1, <3>1 DEF Resync, Modes
      <4> QED
        BY <4>1, <4>2, <4>3, PartsNext
  <2> QED
    BY <2>2, <2>3
<1>13. CASE NewLine \/ StartOver
  <2>1. NoLine \in Line /\ <<>> \in Seq(Snap) /\ Len(<<>>) = 0 /\ <<>> \in Seq(Char)
    BY NoLineIsLine, EmptySeq
  <2>2. line' = NoLine /\ undo' = <<>> /\ redo' = <<>>
    BY <1>13 DEF NewLine, StartOver, Reset
  <2>3. cur' \in Snap /\ valid' \in BOOLEAN
    <3>1. line.eventno \in Nat
      BY <1>1, SnapParts
    <3>2. [NoLine EXCEPT !.eventno = line.eventno] \in Snap
      BY <2>1, <3>1 DEF NoLine, Snap
    <3>3. SaveFailed => cur' \in Snap
      BY <1>1, <2>1 DEF SaveFailed, StacksInv, Snap
    <3> QED
      BY <1>13, <2>1, <3>2, <3>3 DEF NewLine, StartOver, Reset, Line
  <2>4. StacksBounded'
    BY <2>1, <2>2, UndoMaxAssumption DEF StacksBounded
  <2>5. Modes'
    BY <1>1, <1>13 DEF NewLine, StartOver, Reset, Modes
  <2> QED
    BY <2>1, <2>2, <2>3, <2>4, <2>5, PartsNext DEF StacksInv
<1>14. CASE MemoryRunsShort
  BY <1>14 DEF MemoryRunsShort, undoVars, IInv, TypeOK, StacksBounded
<1> QED
  BY <1>3, <1>4, <1>6, <1>7, <1>9, <1>11, <1>12, <1>13, <1>14, BoundsAssumption DEF Next

THEOREM Invariance == Spec => []IInv
<1>1. IInv /\ [Next]_vars => IInv'
  <2>1. IInv /\ UNCHANGED vars => IInv'
    BY DEF vars, undoVars, IInv, TypeOK, StacksBounded
  <2> QED
    BY <2>1, Step
<1> QED
  BY <1>1, InitIInv, PTL DEF Spec

\* The type invariant: every line has its cursor in it.
THEOREM TypeCorrect == Spec => []TypeOK
<1>1. IInv => TypeOK
  BY DEF IInv
<1> QED
  BY <1>1, Invariance, PTL

\* Undo and redo together never hold more than C_UNDO_MAX lines, also when
\* memory runs out between the push and the save.
THEOREM Bounded == Spec => []StacksBounded
<1>1. IInv => StacksBounded
  BY DEF IInv
<1> QED
  BY <1>1, Invariance, PTL

-------------------------------------------------------------------------------
(* The record is up to date.                                               *)

\* CurIsLine with what makes it inductive: also while half a code point is on
\* the line, cur is valid.
CurInv == CurIsLine /\ (~short => valid)

\* Where no allocation fails, a record leaves cur with the line.
LEMMA RecordsLine ==
  ASSUME ~short, valid, NEW cmd, NEW c, NEW new, Turn(cmd, c, new),
         ~(Utf16 /\ c = "lead")
  PROVE  cur' = line' /\ valid'
BY DEF Turn, Record, RecordAgain, RecordSame, RecordJoin, RecordEdit, Saved, SaveFailed

\* Undo and redo restore what the save after them copies; ch_reset empties
\* both; every other command ends in a record, unless it has read the first
\* half of a code point.
LEMMA CurInvStep ==
  ASSUME CurInv, Next
  PROVE  CurInv'
<1>1. CASE short
  <2>1. short'
    BY <1>1 DEF Next, Type, Quote, TypeTrail, Erase, Move, Other, ToggleOverwrite,
       UndoCommand, RedoCommand, Resync, Turn, NewLine, StartOver, MemoryRunsShort
  <2> QED
    BY <2>1 DEF CurInv, CurIsLine
<1>2. CASE ~short
  <2> USE <1>2
  <2>1. valid
    BY DEF CurInv
  <2>2. ASSUME cur' = line', valid'
        PROVE  CurInv'
    BY <2>2 DEF CurInv, CurIsLine
  <2>3. ASSUME NEW new, Other(new)
        PROVE  CurInv'
    <3>1. Turn("other", "key", new) /\ "key" # "lead"
      BY <2>3 DEF Other
    <3> QED
      BY <2>1, <2>2, <3>1, RecordsLine
  <2>4. ASSUME NEW c, Type(c)
        PROVE  CurInv'
    <3>1. CASE Utf16 /\ c = "lead"
      <4>1. half' /\ valid'
        BY <2>1, <2>4, <3>1 DEF Type, Turn, Record, undoVars
      <4> QED
        BY <4>1 DEF CurInv, CurIsLine
    <3>2. CASE ~(Utf16 /\ c = "lead")
      BY <2>1, <2>2, <2>4, <3>2, RecordsLine DEF Type
    <3> QED
      BY <3>1, <3>2
  <2>5. ASSUME NEW c, Quote(c)
        PROVE  CurInv'
    <3>1. Turn("other", "ctrl-v", Inserted(c)) /\ "ctrl-v" # "lead"
      BY <2>5 DEF Quote
    <3> QED
      BY <2>1, <2>2, <3>1, RecordsLine
  <2>6. CASE TypeTrail
    <3>1. Turn("insert", "trail", Inserted("trail")) /\ "trail" # "lead"
      BY <2>6 DEF TypeTrail
    <3> QED
      BY <2>1, <2>2, <3>1, RecordsLine
  <2>7. ASSUME (\E n \in 1..MaxLen : Erase(n)) \/ (\E k \in 0..MaxLen : Move(k))
        PROVE  CurInv'
    BY <2>3, <2>7 DEF Erase, Move
  <2>8. CASE ToggleOverwrite
    <3>1. Turn("other", "key", line) /\ "key" # "lead"
      BY <2>8 DEF ToggleOverwrite
    <3> QED
      BY <2>1, <2>2, <3>1, RecordsLine
  <2>9. CASE UndoCommand \/ RedoCommand
    <3>1. Turn("other", "key", line) \/ \E new : Resync(new)
      BY <2>9 DEF UndoCommand, RedoCommand
    <3>2. CASE \E new : Resync(new)
      BY <2>1, <2>2, <3>2 DEF Resync, Saved, SaveFailed
    <3>3. CASE Turn("other", "key", line)
      <4>1. "key" # "lead"
        OBVIOUS
      <4> QED
        BY <2>1, <2>2, <3>3, <4>1, RecordsLine
    <3> QED
      BY <3>1, <3>2, <3>3
  <2>10. CASE NewLine
    <3>1. line' = NoLine /\ cur' = [NoLine EXCEPT !.eventno = line.eventno] /\ valid'
      BY <2>10 DEF NewLine, Reset, SaveFailed
    <3> QED
      BY <3>1 DEF CurInv, CurIsLine, NoLine
  <2>11. CASE StartOver
    BY <2>2, <2>11 DEF StartOver, SaveFailed
  <2>12. CASE MemoryRunsShort
    BY <2>12 DEF MemoryRunsShort, CurInv, CurIsLine
  <2> QED
    BY <2>4, <2>5, <2>6, <2>7, <2>8, <2>9, <2>10, <2>11, <2>12 DEF Next
<1> QED
  BY <1>1, <1>2

\* Until an allocation fails, the next undo goes back from what is on the
\* screen, and redo after it returns to it: cur is the line between commands.
THEOREM RecordIsCurrent == Spec => []CurIsLine
<1>1. Init => CurInv
  BY DEF Init, CurInv, CurIsLine
<1>2. CurInv /\ [Next]_vars => CurInv'
  <2>1. CurInv /\ UNCHANGED vars => CurInv'
    BY DEF vars, undoVars, CurInv, CurIsLine
  <2> QED
    BY <2>1, CurInvStep
<1>3. CurInv => CurIsLine
  BY DEF CurInv
<1> QED
  BY <1>1, <1>2, <1>3, PTL DEF Spec

-------------------------------------------------------------------------------
(* The states before and after the present one.                            *)

Around(u, c, r) == u \o <<c>> \o Reverse(r)

\* The same state by state.
IsAround(a, u, c, r) ==
  /\ Len(u) \in Nat /\ Len(r) \in Nat
  /\ a \in Seq(Snap) /\ Len(a) = Len(u) + Len(r) + 1
  /\ \A i \in 1..Len(u) : a[i] = u[i]
  /\ a[Len(u) + 1] = c
  /\ \A i \in 1..Len(r) : a[Len(u) + 1 + i] = r[Len(r) - i + 1]

LEMMA ReversedStack ==
  ASSUME NEW r \in Seq(Snap)
  PROVE  /\ Reverse(r) \in Seq(Snap) /\ Len(Reverse(r)) = Len(r) /\ Len(r) \in Nat
         /\ \A i \in 1..Len(r) : Reverse(r)[i] = r[Len(r) - i + 1]
<1>1. Len(r) \in Nat /\ \A i \in 1..Len(r) : r[i] \in Snap
  BY LenProperties, ElementOfSeq
<1>2. Reverse(r) \in [1..Len(r) -> Snap]
  BY <1>1 DEF Reverse
<1>3. Reverse(r) \in Seq(Snap)
  BY <1>1, <1>2, SeqDef
<1>4. DOMAIN Reverse(r) = 1..Len(r) /\ DOMAIN Reverse(r) = 1..Len(Reverse(r)) /\ Len(Reverse(r)) \in Nat
  BY <1>2, <1>3, LenProperties
<1>5. Len(Reverse(r)) = Len(r)
  BY <1>1, <1>4
<1> QED
  BY <1>1, <1>3, <1>5 DEF Reverse

LEMMA AroundParts ==
  ASSUME NEW u \in Seq(Snap), NEW c \in Snap, NEW r \in Seq(Snap)
  PROVE  IsAround(Around(u, c, r), u, c, r)
<1> DEFINE b == u \o <<c>>
           v == Reverse(r)
           a == b \o v
           m == Len(u)
           n == Len(r)
<1>1. m \in Nat /\ n \in Nat
  BY LenProperties
<1>2. <<c>> \in Seq(Snap) /\ Len(<<c>>) = 1 /\ <<c>>[1] = c
  OBVIOUS
<1>3. /\ b \in Seq(Snap) /\ Len(b) = m + 1
      /\ \A i \in 1..(m + 1) : b[i] = IF i <= m THEN u[i] ELSE <<c>>[i - m]
  BY <1>2, ConcatProperties
<1>4. v \in Seq(Snap) /\ Len(v) = n /\ \A i \in 1..n : v[i] = r[n - i + 1]
  BY ReversedStack
<1> HIDE DEF b, v, m, n
<1>5. /\ a \in Seq(Snap) /\ Len(a) = (m + 1) + n
      /\ \A i \in 1..((m + 1) + n) : a[i] = IF i <= m + 1 THEN b[i] ELSE v[i - (m + 1)]
  <2>1. /\ a \in Seq(Snap) /\ Len(a) = Len(b) + Len(v)
        /\ \A i \in 1..(Len(b) + Len(v)) : a[i] = IF i <= Len(b) THEN b[i] ELSE v[i - Len(b)]
    BY <1>3, <1>4, ConcatProperties
  <2>2. Len(b) = m + 1 /\ Len(v) = n
    BY <1>3, <1>4
  <2> HIDE DEF a
  <2> QED
    BY <2>1, <2>2
<1> HIDE DEF a
<1>6. \A i \in 1..m : a[i] = u[i]
  BY <1>1, <1>3, <1>5
<1>7. a[m + 1] = c
  <2>1. m + 1 \in 1..(m + 1) /\ m + 1 \in 1..((m + 1) + n) /\ ~(m + 1 <= m) /\ (m + 1) - m = 1
    BY <1>1
  <2>2. b[m + 1] = <<c>>[1]
    BY <1>3, <2>1
  <2> QED
    BY <1>2, <1>5, <2>1, <2>2
<1>8. ASSUME NEW i \in 1..n
      PROVE  a[m + 1 + i] = r[n - i + 1]
  <2> DEFINE j == m + 1 + i
  <2>1. j \in 1..((m + 1) + n) /\ ~(j <= m + 1) /\ j - (m + 1) = i
    BY <1>1
  <2> HIDE DEF j
  <2>2. a[j] = v[i]
    BY <1>5, <2>1
  <2> QED
    BY <1>4, <2>2 DEF j
<1>9. Around(u, c, r) = a
  BY DEF Around, a, b, v
<1>10. (m + 1) + n = m + n + 1
  BY <1>1
<1> QED
  BY <1>1, <1>5, <1>6, <1>7, <1>8, <1>9, <1>10 DEF m, n, IsAround

\* Two stacks with a line between them are the same states when each state is.
LEMMA AroundEqual ==
  ASSUME NEW u, NEW c, NEW r, NEW a, NEW b,
         IsAround(a, u, c, r), IsAround(b, u, c, r)
  PROVE  a = b
<1> DEFINE m == Len(u)
           n == Len(r)
<1>1. /\ m \in Nat /\ n \in Nat /\ b \in Seq(Snap) /\ Len(b) = m + n + 1
      /\ \A i \in 1..m : b[i] = u[i]
      /\ b[m + 1] = c
      /\ \A i \in 1..n : b[m + 1 + i] = r[n - i + 1]
  BY DEF IsAround
<1>2. /\ a \in Seq(Snap) /\ Len(a) = m + n + 1 /\ a[m + 1] = c
      /\ \A i \in 1..m : a[i] = u[i]
      /\ \A i \in 1..n : a[m + 1 + i] = r[n - i + 1]
  BY DEF IsAround
<1> HIDE DEF m, n
<1>3. ASSUME NEW i \in 1..Len(a)
      PROVE  a[i] = b[i]
  <2>1. CASE i <= m
    <3>1. i \in 1..m
      BY <1>1, <1>2, <2>1
    <3> QED
      BY <1>1, <1>2, <3>1
  <2>2. CASE i = m + 1
    BY <1>1, <1>2, <2>2
  <2>3. CASE i > m + 1
    <3> DEFINE j == i - (m + 1)
    <3>1. j \in 1..n /\ i = m + 1 + j
      BY <1>1, <1>2, <2>3
    <3> HIDE DEF j
    <3> QED
      BY <1>1, <1>2, <3>1
  <2> QED
    BY <1>1, <1>2, <2>1, <2>2, <2>3
<1> QED
  BY <1>1, <1>2, <1>3, SeqEqual

\* The elements of a stack without its top.
LEMMA FrontElements ==
  ASSUME NEW stack \in Seq(Snap), stack # <<>>
  PROVE  /\ \A i \in 1..(Len(stack) - 1) : Front(stack)[i] = stack[i]
         /\ Last(stack) = stack[Len(stack)] /\ Len(stack) \in Nat /\ Len(stack) >= 1
<1> DEFINE n == Len(stack)
<1>1. n \in Nat /\ n >= 1
  BY EmptySeq, LenProperties
<1>2. \A i \in 1..(n - 1) : stack[i] \in Snap
  BY <1>1, ElementOfSeq
<1>3. \A i \in 1..(n - 1 - 1 + 1) : SubSeq(stack, 1, n - 1)[i] = stack[1 + i - 1]
  BY <1>1, <1>2, SubSeqProperties, 1 \in Int, n - 1 \in Int
<1> HIDE DEF n
<1>4. ASSUME NEW i \in 1..(n - 1)
      PROVE  SubSeq(stack, 1, n - 1)[i] = stack[i]
  <2>1. i \in 1..(n - 1 - 1 + 1) /\ 1 + i - 1 = i
    BY <1>1
  <2> QED
    BY <1>3, <2>1
<1> QED
  BY <1>1, <1>4 DEF Front, Last, n

\* Undo and redo move the place among the states and nothing else.
LEMMA UndoMoves ==
  ASSUME NEW u \in Seq(Snap), NEW c \in Snap, NEW r \in Seq(Snap), u # <<>>
  PROVE  Around(Front(u), Last(u), Append(r, c)) = Around(u, c, r)
<1> DEFINE a == Around(u, c, r)
           f == Front(u)
           l == Last(u)
           p == Append(r, c)
           m == Len(u)
           n == Len(r)
<1>1. /\ m \in Nat /\ n \in Nat /\ a \in Seq(Snap) /\ Len(a) = m + n + 1
      /\ \A i \in 1..m : a[i] = u[i]
      /\ a[m + 1] = c
      /\ \A i \in 1..n : a[m + 1 + i] = r[n - i + 1]
  <2>1. IsAround(a, u, c, r)
    BY AroundParts
  <2> QED
    BY <2>1 DEF IsAround
<1>2. /\ f \in Seq(Snap) /\ Len(f) = m - 1 /\ l \in Snap /\ m >= 1
      /\ \A i \in 1..(m - 1) : f[i] = u[i]
      /\ l = u[m]
  BY Shorter, FrontElements
<1>3. /\ p \in Seq(Snap) /\ Len(p) = n + 1 /\ p[n + 1] = c
      /\ \A i \in 1..n : p[i] = r[i]
  BY AppendProperties
<1>4. IsAround(Around(f, l, p), f, l, p)
  BY <1>2, <1>3, AroundParts
<1> HIDE DEF a, f, l, p, m, n
<1>5. \A i \in 1..(m - 1) : a[i] = f[i]
  BY <1>1, <1>2
<1>6. a[(m - 1) + 1] = l
  <2>1. (m - 1) + 1 = m /\ m \in 1..m
    BY <1>1, <1>2
  <2> QED
    BY <1>1, <1>2, <2>1
<1>7. ASSUME NEW i \in 1..(n + 1)
      PROVE  a[(m - 1) + 1 + i] = p[(n + 1) - i + 1]
  <2>1. CASE i = 1
    <3>1. (m - 1) + 1 + i = m + 1 /\ (n + 1) - i + 1 = n + 1
      BY <1>1, <2>1
    <3> QED
      BY <1>1, <1>3, <3>1
  <2>2. CASE i # 1
    <3> DEFINE j == i - 1
               k == n - j + 1
    <3>1. j \in 1..n /\ k \in 1..n /\ (m - 1) + 1 + i = m + 1 + j /\ (n + 1) - i + 1 = k
      BY <1>1, <2>2
    <3>2. a[m + 1 + j] = r[k]
      BY <1>1, <3>1
    <3> HIDE DEF j, k
    <3> QED
      BY <1>3, <3>1, <3>2
  <2> QED
    BY <2>1, <2>2
<1>8. m - 1 \in Nat /\ n + 1 \in Nat /\ m + n + 1 = (m - 1) + (n + 1) + 1
  BY <1>1, <1>2
<1>9. IsAround(a, f, l, p)
  BY <1>1, <1>2, <1>3, <1>5, <1>6, <1>7, <1>8 DEF IsAround
<1>10. Around(f, l, p) = a
  BY <1>4, <1>9, AroundEqual
<1> QED
  BY <1>10 DEF a, f, l, p

LEMMA RedoMoves ==
  ASSUME NEW u \in Seq(Snap), NEW c \in Snap, NEW r \in Seq(Snap), r # <<>>
  PROVE  Around(Append(u, c), Last(r), Front(r)) = Around(u, c, r)
<1> DEFINE a == Around(u, c, r)
           f == Front(r)
           l == Last(r)
           p == Append(u, c)
           m == Len(u)
           n == Len(r)
<1>1. /\ m \in Nat /\ n \in Nat /\ a \in Seq(Snap) /\ Len(a) = m + n + 1
      /\ \A i \in 1..m : a[i] = u[i]
      /\ a[m + 1] = c
      /\ \A i \in 1..n : a[m + 1 + i] = r[n - i + 1]
  <2>1. IsAround(a, u, c, r)
    BY AroundParts
  <2> QED
    BY <2>1 DEF IsAround
<1>2. /\ f \in Seq(Snap) /\ Len(f) = n - 1 /\ l \in Snap /\ n >= 1
      /\ \A i \in 1..(n - 1) : f[i] = r[i]
      /\ l = r[n]
  BY Shorter, FrontElements
<1>3. /\ p \in Seq(Snap) /\ Len(p) = m + 1 /\ p[m + 1] = c
      /\ \A i \in 1..m : p[i] = u[i]
  BY AppendProperties
<1>4. IsAround(Around(p, l, f), p, l, f)
  BY <1>2, <1>3, AroundParts
<1> HIDE DEF a, f, l, p, m, n
<1>5. \A i \in 1..(m + 1) : a[i] = p[i]
  <2>1. SUFFICES ASSUME NEW i \in 1..(m + 1) PROVE a[i] = p[i]
    OBVIOUS
  <2>2. i \in 1..m \/ i = m + 1
    BY <1>1
  <2> QED
    BY <1>1, <1>3, <2>2
<1>6. a[(m + 1) + 1] = l
  <2>1. 1 \in 1..n /\ n - 1 + 1 = n
    BY <1>1, <1>2
  <2>2. a[m + 1 + 1] = r[n - 1 + 1]
    BY <1>1, <2>1
  <2> QED
    BY <1>2, <2>1, <2>2
<1>7. ASSUME NEW i \in 1..(n - 1)
      PROVE  a[(m + 1) + 1 + i] = f[(n - 1) - i + 1]
  <2> DEFINE j == i + 1
             k == n - j + 1
  <2>1. /\ j \in 1..n /\ k \in 1..(n - 1)
        /\ (m + 1) + 1 + i = m + 1 + j /\ (n - 1) - i + 1 = k
    BY <1>1, <1>2
  <2>2. a[m + 1 + j] = r[k]
    BY <1>1, <2>1
  <2> HIDE DEF j, k
  <2> QED
    BY <1>2, <2>1, <2>2
<1>8. m + 1 \in Nat /\ n - 1 \in Nat /\ m + n + 1 = (m + 1) + (n - 1) + 1
  <2>1. m \in Nat /\ n \in Nat /\ n >= 1
    BY <1>1, <1>2, Zenon
  <2> QED
    BY <2>1
<1>9. IsAround(a, p, l, f)
  BY <1>1, <1>2, <1>3, <1>5, <1>6, <1>7, <1>8 DEF IsAround
<1>10. Around(p, l, f) = a
  BY <1>4, <1>9, AroundEqual
<1> QED
  BY <1>10 DEF a, f, l, p

\* The present state grows or its cursor moves.
LEMMA RetouchOne ==
  ASSUME NEW u \in Seq(Snap), NEW c \in Snap, NEW r \in Seq(Snap), NEW d \in Snap
  PROVE  LET a == Around(u, c, r) IN
         /\ Around(u, d, r)[Len(u) + 1] = d
         /\ Around(u, d, r) = [a EXCEPT ![Len(u) + 1] = d]
         /\ a[Len(u) + 1] = c /\ (r = <<>> => Len(u) + 1 = Len(a))
<1> DEFINE a == Around(u, c, r)
           m == Len(u)
           n == Len(r)
           b == [a EXCEPT ![m + 1] = d]
<1>1. /\ m \in Nat /\ n \in Nat /\ a \in Seq(Snap) /\ Len(a) = m + n + 1
      /\ \A i \in 1..m : a[i] = u[i]
      /\ a[m + 1] = c
      /\ \A i \in 1..n : a[m + 1 + i] = r[n - i + 1]
  <2>1. IsAround(a, u, c, r)
    BY AroundParts
  <2> QED
    BY <2>1 DEF IsAround
<1>2. IsAround(Around(u, d, r), u, d, r)
  BY AroundParts
<1> HIDE DEF a, m, n
<1>3. m + 1 \in 1..Len(a)
  BY <1>1
<1>4. /\ b \in Seq(Snap) /\ Len(b) = Len(a)
      /\ \A j \in 1..Len(a) : b[j] = IF j = m + 1 THEN d ELSE a[j]
  BY <1>1, <1>3, ExceptSeq
<1> HIDE DEF b
<1>5. \A i \in 1..m : i \in 1..Len(a) /\ i # m + 1
  BY <1>1
<1>6. \A i \in 1..n : m + 1 + i \in 1..Len(a) /\ m + 1 + i # m + 1
  BY <1>1
<1>7. IsAround(b, u, d, r)
  BY <1>1, <1>3, <1>4, <1>5, <1>6 DEF IsAround, m, n
<1>8. Around(u, d, r) = b
  BY <1>2, <1>7, AroundEqual
<1>9. r = <<>> => m + 1 = Len(a)
  BY <1>1, EmptySeq DEF n
<1> QED
  BY <1>1, <1>2, <1>8, <1>9 DEF IsAround, a, b, m

\* What an edit keeps: the past, without its oldest state when the stack is
\* full, and then the present state, which is the last.
LEMMA PastKept ==
  ASSUME NEW u \in Seq(Snap), NEW c \in Snap, NEW r \in Seq(Snap), Len(u) <= UndoMax
  PROVE  LET k == Len(u) + 1
             from == IF k > UndoMax THEN 2 ELSE 1
         IN SubSeq(SubSeq(Around(u, c, r), 1, k), from, k) = Push(u, c)
<1> DEFINE a == Around(u, c, r)
           m == Len(u)
           n == Len(r)
           k == m + 1
           kept == SubSeq(a, 1, k)
           p == Append(u, c)
<1>1. /\ m \in Nat /\ n \in Nat /\ a \in Seq(Snap) /\ Len(a) = m + n + 1
      /\ \A i \in 1..m : a[i] = u[i]
      /\ a[m + 1] = c
  <2>1. IsAround(a, u, c, r)
    BY AroundParts
  <2> QED
    BY <2>1 DEF IsAround
<1>2. /\ p \in Seq(Snap) /\ Len(p) = m + 1 /\ p[m + 1] = c
      /\ \A i \in 1..m : p[i] = u[i]
  BY AppendProperties
<1> HIDE DEF a, m, n, p
<1>3. /\ kept \in Seq(Snap) /\ Len(kept) = k
      /\ \A i \in 1..k : kept[i] = a[i]
  <2>1. \A i \in 1..k : i \in 1..Len(a)
    BY <1>1
  <2>2. \A i \in 1..k : a[i] \in Snap
    BY <1>1, <2>1, ElementOfSeq
  <2>3. /\ kept \in Seq(Snap) /\ Len(kept) = IF 1 <= k THEN k - 1 + 1 ELSE 0
        /\ \A i \in 1..(k - 1 + 1) : kept[i] = a[1 + i - 1]
    BY <1>1, <2>2, SubSeqProperties, 1 \in Int, k \in Int
  <2> HIDE DEF kept
  <2> QED
    BY <1>1, <2>3
<1> HIDE DEF kept
<1>4. kept = p
  <2>1. \A i \in 1..k : kept[i] = p[i]
    <3>1. SUFFICES ASSUME NEW i \in 1..k PROVE kept[i] = p[i]
      OBVIOUS
    <3>2. i \in 1..m \/ i = m + 1
      BY <1>1
    <3> QED
      BY <1>1, <1>2, <1>3, <3>2
  <2> QED
    BY <1>2, <1>3, <2>1, SeqEqual
<1>5. CASE m = UndoMax
  <2>1. u # <<>> /\ k > UndoMax
    BY <1>1, <1>5, UndoMaxAssumption, EmptySeq DEF m
  <2>2. p # <<>> /\ Tail(p) = SubSeq(p, 2, k)
    BY <1>2, TailIsSubSeq, AppendProperties DEF p
  <2>3. Tail(p) = Append(Tail(u), c)
    BY <2>1, HeadTailAppend DEF p
  <2>4. Push(u, c) = Append(Tail(u), c)
    BY <1>5 DEF Push, Crop, m
  <2> QED
    BY <1>4, <2>1, <2>2, <2>3, <2>4 DEF kept, a, m
<1>6. CASE m # UndoMax
  <2>1. ~(k > UndoMax)
    BY <1>1, <1>6, UndoMaxAssumption DEF m
  <2>2. SubSeq(p, 1, k) = p
    BY <1>2, SubSeqFull
  <2>3. Push(u, c) = p
    BY <1>6 DEF Push, Crop, m, p
  <2> QED
    BY <1>4, <2>1, <2>2, <2>3 DEF kept, a, m
<1> QED
  BY <1>5, <1>6

LEMMA NoFuture ==
  ASSUME NEW u \in Seq(Snap), NEW d \in Snap
  PROVE  /\ Around(u, d, <<>>) = Append(u, d)
         /\ Len(Around(u, d, <<>>)) = Len(u) + 1
         /\ Around(u, d, <<>>)[Len(u) + 1] = d
<1>1. <<>> \in Seq(Snap) /\ Len(<<>>) = 0
  BY EmptySeq
<1>2. Len(Reverse(<<>>)) = 0 /\ Reverse(<<>>) \in Seq(Snap)
  BY <1>1, ReversedStack
<1>3. Reverse(<<>>) = <<>>
  BY <1>2, EmptySeq
<1>4. <<d>> \in Seq(Snap)
  OBVIOUS
<1>5. Append(u, d) = u \o <<d>> /\ u \o <<d>> \in Seq(Snap)
  BY <1>4, AppendIsConcat, ConcatProperties
<1>6. Around(u, d, <<>>) = Append(u, d)
  BY <1>3, <1>5, ConcatEmptySeq DEF Around
<1> QED
  BY <1>6, AppendProperties

-------------------------------------------------------------------------------
(* The timeline.                                                           *)

LineStack(stack) == \A i \in 1..Len(stack) : stack[i] \in Line

\* Until memory runs short every saved line has its cursor in it, so what
\* c_undo_apply puts on the screen is the state that was saved.
LinesSaved == ~short => LineStack(undo) /\ LineStack(redo) /\ cur \in Line

\* A run of typing goes on where something is undone only after a slip: an edit
\* that c_undo_record sees begin there has freed the redo stack.
SlipsKnown == ~short /\ lastcmd = "insert" /\ redo # <<>> => slipped

TimelineInv == IInv /\ CurInv /\ LinesSaved /\ SlipsKnown

Undone ==
  /\ undo # <<>> /\ valid
  /\ Resync(Restored(Last(undo)))
  /\ undo' = Front(undo) /\ redo' = Push(redo, cur)

Redone ==
  /\ redo # <<>> /\ valid
  /\ Resync(Restored(Last(redo)))
  /\ redo' = Front(redo) /\ undo' = Push(undo, cur)

\* Every step is a turn that ends in a record, an undo or a redo that has
\* something to go to, a line begun, or the end of memory.
LEMMA Shapes ==
  ASSUME IInv, Next
  PROVE  \/ \E cmd, c : \E new \in Line : Turn(cmd, c, new)
         \/ Undone \/ Redone
         \/ NewLine \/ StartOver
         \/ MemoryRunsShort
<1>1. line' \in Line
  <2>1. IInv'
    BY Step
  <2> QED
    BY <2>1 DEF IInv, TypeOK, Line
<1>2. ASSUME NEW cmd, NEW c, NEW new, Turn(cmd, c, new)
      PROVE  \E d, e : \E l \in Line : Turn(d, e, l)
  <2>1. new \in Line
    BY <1>1, <1>2 DEF Turn
  <2> QED
    BY <1>2, <2>1
<1>3. ASSUME NEW c, Type(c) \/ Quote(c)
      PROVE  \E d, e : \E l \in Line : Turn(d, e, l)
  BY <1>2, <1>3 DEF Type, Quote
<1>4. ASSUME NEW new, Other(new)
      PROVE  \E d, e : \E l \in Line : Turn(d, e, l)
  BY <1>2, <1>4 DEF Other
<1>5. ASSUME TypeTrail \/ ToggleOverwrite
      PROVE  \E d, e : \E l \in Line : Turn(d, e, l)
  BY <1>2, <1>5 DEF TypeTrail, ToggleOverwrite
<1>6. ASSUME UndoCommand
      PROVE  Undone \/ \E d, e : \E l \in Line : Turn(d, e, l)
  BY <1>2, <1>6 DEF UndoCommand, Undone
<1>7. ASSUME RedoCommand
      PROVE  Redone \/ \E d, e : \E l \in Line : Turn(d, e, l)
  BY <1>2, <1>7 DEF RedoCommand, Redone
<1>8. ASSUME (\E n \in 1..MaxLen : Erase(n)) \/ (\E k \in 0..MaxLen : Move(k))
      PROVE  \E d, e : \E l \in Line : Turn(d, e, l)
  BY <1>4, <1>8 DEF Erase, Move
<1> QED
  BY <1>3, <1>5, <1>6, <1>7, <1>8 DEF Next

\* A stack of lines stays one.
LEMMA StacksOfLines ==
  ASSUME NEW stack \in Seq(Snap), LineStack(stack), NEW l \in Line
  PROVE  /\ LineStack(<<>>)
         /\ LineStack(Push(stack, l))
         /\ stack # <<>> => LineStack(Front(stack)) /\ Last(stack) \in Line
<1>1. l \in Snap /\ Len(stack) \in Nat
  BY LenProperties DEF Line
<1>2. LineStack(<<>>)
  BY EmptySeq DEF LineStack
<1>3. Crop(stack) \in Seq(Snap) /\ LineStack(Crop(stack))
  <2>1. CASE Len(stack) = UndoMax
    <3>1. stack # <<>>
      BY <2>1, UndoMaxAssumption, EmptySeq
    <3>2. /\ Tail(stack) \in Seq(Snap) /\ Len(Tail(stack)) = Len(stack) - 1
          /\ \A i \in 1..Len(Tail(stack)) : Tail(stack)[i] = stack[i + 1]
      BY <3>1, HeadTailProperties
    <3>3. \A i \in 1..Len(Tail(stack)) : i + 1 \in 1..Len(stack)
      BY <1>1, <3>2
    <3> QED
      BY <2>1, <3>2, <3>3 DEF Crop, LineStack
  <2>2. CASE Len(stack) # UndoMax
    BY <2>2 DEF Crop
  <2> QED
    BY <2>1, <2>2
<1>4. LineStack(Push(stack, l))
  <2> DEFINE a == Crop(stack)
             p == Append(a, l)
             n == Len(a)
  <2>1. n \in Nat /\ a \in Seq(Snap)
    BY <1>3, LenProperties
  <2>2. /\ Len(p) = n + 1 /\ p[n + 1] = l
        /\ \A i \in 1..n : p[i] = a[i]
    BY <1>1, <2>1, AppendProperties
  <2>3. \A i \in 1..n : a[i] \in Line
    BY <1>3 DEF LineStack
  <2> HIDE DEF a, p, n
  <2>4. ASSUME NEW i \in 1..Len(p)
        PROVE  p[i] \in Line
    <3>1. i \in 1..n \/ i = n + 1
      BY <2>1, <2>2
    <3> QED
      BY <2>2, <2>3, <3>1
  <2>5. Push(stack, l) = p
    BY DEF Push, p, a
  <2> QED
    BY <2>4, <2>5 DEF LineStack
<1>5. ASSUME stack # <<>>
      PROVE  LineStack(Front(stack)) /\ Last(stack) \in Line
  <2>1. /\ \A i \in 1..(Len(stack) - 1) : Front(stack)[i] = stack[i]
        /\ Last(stack) = stack[Len(stack)] /\ Len(stack) >= 1
        /\ Len(Front(stack)) = Len(stack) - 1
    BY <1>5, FrontElements, Shorter
  <2>2. Len(stack) \in 1..Len(stack) /\ \A i \in 1..(Len(stack) - 1) : i \in 1..Len(stack)
    BY <1>1, <2>1
  <2> QED
    BY <2>1, <2>2 DEF LineStack
<1> QED
  BY <1>2, <1>4, <1>5

LEMMA RestoredWhole ==
  ASSUME NEW l \in Line
  PROVE  Restored(l) = l
<1>1. l \in Snap /\ l.cursor \in Nat /\ Len(l.text) \in Nat /\ l.cursor <= Len(l.text)
  BY SnapParts DEF Line
<1>2. (IF l.cursor < Len(l.text) THEN l.cursor ELSE Len(l.text)) = l.cursor
  BY <1>1
<1> QED
  BY <1>1, <1>2 DEF Restored, Snap

LEMMA LinesSavedStep ==
  ASSUME TimelineInv, Next
  PROVE  LinesSaved'
<1> SUFFICES ASSUME ~short'
             PROVE  LineStack(undo') /\ LineStack(redo') /\ cur' \in Line
  BY DEF LinesSaved, LineStack, Line
<1>1. short' = short \/ MemoryRunsShort
  BY Shapes DEF TimelineInv, Turn, Undone, Redone, Resync, NewLine, StartOver
<1>2. ~short /\ ~MemoryRunsShort
  BY <1>1 DEF MemoryRunsShort
<1>3. /\ LineStack(undo) /\ LineStack(redo) /\ cur \in Line /\ valid
      /\ undo \in Seq(Snap) /\ redo \in Seq(Snap)
  BY <1>2 DEF TimelineInv, LinesSaved, CurInv, IInv, TypeOK
<1>4. ASSUME NEW cmd, NEW c, NEW new \in Line, Turn(cmd, c, new)
      PROVE  LineStack(undo') /\ LineStack(redo') /\ cur' \in Line
  <2>1. \/ UNCHANGED undoVars
        \/ UNCHANGED <<undo, redo>> /\ cur' = new
        \/ undo' = Push(undo, cur) /\ redo' = <<>> /\ cur' = new
    BY <1>2, <1>3, <1>4 DEF Turn, Record, RecordAgain, RecordSame, RecordJoin,
       RecordEdit, Saved, SaveFailed
  <2> QED
    BY <1>3, <2>1, StacksOfLines DEF undoVars
<1>5. ASSUME Undone
      PROVE  LineStack(undo') /\ LineStack(redo') /\ cur' \in Line
  <2>1. cur' = Restored(Last(undo))
    BY <1>2, <1>5 DEF Undone, Resync, Saved, SaveFailed
  <2> QED
    BY <1>3, <1>5, <2>1, StacksOfLines, RestoredWhole DEF Undone
<1>6. ASSUME Redone
      PROVE  LineStack(undo') /\ LineStack(redo') /\ cur' \in Line
  <2>1. cur' = Restored(Last(redo))
    BY <1>2, <1>6 DEF Redone, Resync, Saved, SaveFailed
  <2> QED
    BY <1>3, <1>6, <2>1, StacksOfLines, RestoredWhole DEF Redone
<1>7. ASSUME NewLine \/ StartOver
      PROVE  LineStack(undo') /\ LineStack(redo') /\ cur' \in Line
  <2>1. line.eventno \in Nat /\ NoLine \in Line
    BY NoLineIsLine, SnapParts DEF TimelineInv, IInv, TypeOK
  <2>2. [NoLine EXCEPT !.eventno = line.eventno] \in Line
    BY <2>1 DEF NoLine, Line, Snap
  <2> QED
    BY <1>2, <1>3, <1>7, <2>1, <2>2, StacksOfLines
       DEF NewLine, StartOver, Reset, SaveFailed
<1> QED
  BY <1>2, <1>4, <1>5, <1>6, <1>7, Shapes DEF TimelineInv

\* A turn that goes on a run slips if the run began by a slip; one that begins
\* a run frees the redo stack, or slips.
LEMMA SlipsKnownStep ==
  ASSUME TimelineInv, Next
  PROVE  SlipsKnown'
<1>1. ASSUME ~short, NEW cmd, NEW c, NEW new, Turn(cmd, c, new)
      PROVE  SlipsKnown'
  <2>1. slipped' = Slips(cmd, c, new) /\ lastcmd' = cmd /\ Record(cmd, c, new) /\ valid
    BY <1>1 DEF Turn, TimelineInv, CurInv
  <2>2. SUFFICES ASSUME cmd = "insert", redo' # <<>>
                 PROVE  slipped \/ (Utf16 /\ c = "lead") \/ new.text = cur.text
    BY <2>1 DEF SlipsKnown, Slips
  <2>3. ASSUME RecordJoin(cmd, c, new) PROVE slipped
    BY <1>1, <2>2, <2>3 DEF RecordJoin, Coalesces, TimelineInv, SlipsKnown
  <2>4. ~RecordEdit(cmd, c, new) /\ ~RecordAgain(new)
    BY <1>1, <2>1, <2>2 DEF RecordEdit, RecordAgain
  <2>5. RecordSame(new) => new.text = cur.text
    BY DEF RecordSame
  <2> QED
    BY <2>1, <2>3, <2>4, <2>5 DEF Record
<1>2. ASSUME ~short, Undone \/ Redone \/ NewLine \/ StartOver
      PROVE  SlipsKnown'
  BY <1>2 DEF Undone, Redone, Resync, NewLine, StartOver, SlipsKnown
<1>3. ASSUME short \/ MemoryRunsShort
      PROVE  SlipsKnown'
  <2>1. short'
    BY <1>3, Shapes
       DEF TimelineInv, Turn, Undone, Redone, Resync, NewLine, StartOver, MemoryRunsShort
  <2> QED
    BY <2>1 DEF SlipsKnown
<1> QED
  BY <1>1, <1>2, <1>3, Shapes DEF TimelineInv

\* A turn is an edit, a retouch of the present state, a slip, or nothing.
LEMMA TurnOnTimeline ==
  ASSUME TimelineInv, ~short, NEW cmd, NEW c, NEW new \in Line, Turn(cmd, c, new)
  PROVE  Timeline!Change \/ Timeline!Retouch \/ Timeline!Slip \/ UNCHANGED Timeline!timelineVars
<1> DEFINE old == IF short THEN <<NoLine>> ELSE undo \o <<cur>> \o Reverse(redo)
           at == IF short THEN 1 ELSE Len(undo) + 1
<1>1. /\ short' = FALSE /\ short = FALSE /\ valid
      /\ undo \in Seq(Snap) /\ redo \in Seq(Snap) /\ cur \in Snap /\ new \in Snap
      /\ Len(undo) \in Nat /\ Len(redo) \in Nat /\ Len(undo) <= UndoMax /\ UndoMax \in Nat
  BY LenProperties, UndoMaxAssumption
     DEF Turn, TimelineInv, IInv, TypeOK, StacksBounded, CurInv, Line
<1>2. old = Around(undo, cur, redo) /\ at = Len(undo) + 1
  BY <1>1 DEF Around
<1>3. old' = Around(undo', cur', redo') /\ at' = Len(undo') + 1
  BY <1>1 DEF Around
<1> HIDE DEF old, at
<1>4. CASE UNCHANGED undoVars
  <2>1. old' = old /\ at' = at
    BY <1>2, <1>3, <1>4 DEF undoVars
  <2> QED
    BY <2>1 DEF Timeline!timelineVars, old, at
<1>5. CASE /\ undo' = undo /\ redo' = redo /\ cur' = new
           /\ new.text = cur.text \/ redo = <<>> \/ slipped
  <2>1. /\ old' = [old EXCEPT ![at] = new] /\ old'[at] = new /\ at' = at
        /\ old[at] = cur /\ (redo = <<>> => at = Len(old))
    BY <1>1, <1>2, <1>3, <1>5, RetouchOne
  <2>2. Timeline!Replaced
    BY <2>1 DEF Timeline!Replaced, old, at
  <2>3. CASE new.text = cur.text \/ redo = <<>>
    <3>1. at = Len(old) \/ old'[at].text = old[at].text
      BY <2>1, <2>3
    <3> QED
      BY <2>2, <3>1 DEF Timeline!Retouch, old, at
  <2>4. CASE slipped
    BY <2>2, <2>4 DEF Timeline!Slip
  <2> QED
    BY <1>5, <2>3, <2>4
<1>6. CASE undo' = Push(undo, cur) /\ redo' = <<>> /\ cur' = new
  <2> DEFINE past == Push(undo, cur)
  <2>1. past \in Seq(Snap) /\ Len(past) \in Nat
    BY <1>1, PushFits
  <2>2. SubSeq(SubSeq(old, 1, at), IF at > UndoMax THEN 2 ELSE 1, at) = past
    BY <1>1, <1>2, PastKept
  <2>3. /\ old' = Append(past, new)
        /\ Len(old') = Len(past) + 1
        /\ at' = Len(past) + 1
        /\ old'[Len(past) + 1] = new
    BY <1>1, <1>3, <1>6, <2>1, NoFuture
  <2> HIDE DEF past
  <2>4. old' = Append(SubSeq(SubSeq(old, 1, at), IF at > UndoMax THEN 2 ELSE 1, at), old'[at'])
        /\ at' = Len(old')
    BY <2>2, <2>3
  <2>5. Timeline!Change
    BY <2>4 DEF Timeline!Change, old, at
  <2> QED
    BY <2>5
<1>7. \/ UNCHANGED undoVars
      \/ /\ UNCHANGED <<undo, redo>> /\ cur' = new
         /\ new.text = cur.text \/ redo = <<>> \/ slipped
      \/ undo' = Push(undo, cur) /\ redo' = <<>> /\ cur' = new
  <2>1. RecordJoin(cmd, c, new) => redo = <<>> \/ slipped
    BY <1>1 DEF RecordJoin, Coalesces, TimelineInv, SlipsKnown
  <2> QED
    BY <1>1, <2>1 DEF Turn, Record, RecordAgain, RecordSame, RecordJoin,
       RecordEdit, Saved, SaveFailed
<1> QED
  BY <1>4, <1>5, <1>6, <1>7

\* The push of c_undo_apply finds room: the entry it adds to one stack was
\* on the other.
LEMMA ApplyHasRoom ==
  ASSUME NEW from \in Seq(Snap), NEW to \in Seq(Snap), from # <<>>,
         Len(from) + Len(to) <= UndoMax, NEW snap
  PROVE  Push(to, snap) = Append(to, snap)
<1>1. Len(from) \in Nat /\ Len(to) \in Nat /\ UndoMax \in Nat /\ Len(from) >= 1
  BY LenProperties, EmptySeq, UndoMaxAssumption
<1>2. Len(to) # UndoMax
  BY <1>1
<1> QED
  BY <1>2 DEF Push, Crop

LEMMA ApplyOnTimeline ==
  ASSUME TimelineInv, ~short, Undone \/ Redone
  PROVE  Timeline!UndoStep \/ Timeline!RedoStep
<1> DEFINE old == IF short THEN <<NoLine>> ELSE undo \o <<cur>> \o Reverse(redo)
           at == IF short THEN 1 ELSE Len(undo) + 1
<1>1. /\ short' = FALSE /\ short = FALSE
      /\ undo \in Seq(Snap) /\ redo \in Seq(Snap) /\ cur \in Snap
      /\ LineStack(undo) /\ LineStack(redo) /\ cur \in Line
      /\ Len(undo) \in Nat /\ Len(redo) \in Nat
      /\ Len(undo) + Len(redo) <= UndoMax /\ Len(redo) + Len(undo) <= UndoMax
  BY LenProperties, UndoMaxAssumption
     DEF Undone, Redone, Resync, TimelineInv, IInv, TypeOK, StacksBounded, LinesSaved
<1>2. old = Around(undo, cur, redo) /\ at = Len(undo) + 1
  BY <1>1 DEF Around
<1>3. old' = Around(undo', cur', redo') /\ at' = Len(undo') + 1
  BY <1>1 DEF Around
<1>4. Len(old) = Len(undo) + Len(redo) + 1
  <2>1. IsAround(Around(undo, cur, redo), undo, cur, redo)
    BY <1>1, AroundParts
  <2> QED
    BY <1>2, <2>1 DEF IsAround
<1> HIDE DEF old, at
<1>5. CASE Undone
  <2>1. undo # <<>> /\ Last(undo) \in Line /\ Len(Front(undo)) = Len(undo) - 1 /\ Len(undo) >= 1
    BY <1>1, <1>5, StacksOfLines, Shorter, FrontElements DEF Undone
  <2>2. cur' = Last(undo)
    BY <1>1, <1>5, <2>1, RestoredWhole DEF Undone, Resync, Saved, SaveFailed
  <2>3. undo' = Front(undo) /\ redo' = Append(redo, cur)
    BY <1>1, <1>5, <2>1, ApplyHasRoom DEF Undone
  <2>4. old' = old /\ at' = at - 1 /\ at > 1
    BY <1>1, <1>2, <1>3, <2>1, <2>2, <2>3, UndoMoves
  <2>5. Timeline!UndoStep
    BY <2>4 DEF Timeline!UndoStep, old, at
  <2> QED
    BY <2>5
<1>6. CASE Redone
  <2>1. redo # <<>> /\ Last(redo) \in Line /\ Len(redo) >= 1
    BY <1>1, <1>6, StacksOfLines, FrontElements DEF Redone
  <2>2. cur' = Last(redo)
    BY <1>1, <1>6, <2>1, RestoredWhole DEF Redone, Resync, Saved, SaveFailed
  <2>3. redo' = Front(redo) /\ undo' = Append(undo, cur) /\ Len(undo') = Len(undo) + 1
    BY <1>1, <1>6, <2>1, ApplyHasRoom, AppendProperties DEF Redone
  <2>4. old' = old /\ at' = at + 1 /\ at < Len(old)
    BY <1>1, <1>2, <1>3, <1>4, <2>1, <2>2, <2>3, RedoMoves
  <2>5. Timeline!RedoStep
    BY <2>4 DEF Timeline!RedoStep, old, at
  <2> QED
    BY <2>5
<1> QED
  BY <1>5, <1>6

LEMMA OneState ==
  ASSUME NEW c \in Snap
  PROVE  Len(<<>> \o <<c>> \o Reverse(<<>>)) = 1
<1>1. <<>> \in Seq(Snap) /\ Len(<<>>) = 0
  BY EmptySeq
<1>2. Len(Around(<<>>, c, <<>>)) = 0 + 1
  BY <1>1, NoFuture
<1> QED
  BY <1>2 DEF Around

LEMMA TimelineStep ==
  ASSUME TimelineInv, Next
  PROVE  Timeline!TimelineNext \/ UNCHANGED Timeline!timelineVars
<1>1. Len(<<>>) = 0 /\ Len(<<NoLine>>) = 1
  BY EmptySeq
<1>2. CASE short
  <2>1. short'
    BY <1>2, Shapes
       DEF TimelineInv, Turn, Undone, Redone, Resync, NewLine, StartOver, MemoryRunsShort
  <2> QED
    BY <1>2, <2>1 DEF Timeline!timelineVars
<1>3. CASE MemoryRunsShort
  <2>1. short'
    BY <1>3 DEF MemoryRunsShort
  <2>2. Timeline!Restart
    BY <1>1, <2>1 DEF Timeline!Restart
  <2> QED
    BY <2>2 DEF Timeline!TimelineNext
<1>4. CASE ~short /\ (NewLine \/ StartOver)
  <2>1. ~short' /\ undo' = <<>> /\ redo' = <<>>
    BY <1>4 DEF NewLine, StartOver, Reset
  <2>2. cur' \in Snap
    <3>1. IInv'
      BY Step DEF TimelineInv
    <3> QED
      BY <3>1 DEF IInv, TypeOK
  <2>3. Len(undo' \o <<cur'>> \o Reverse(redo')) = 1 /\ Len(undo') + 1 = 1
    BY <1>1, <2>1, <2>2, OneState
  <2>4. Timeline!Restart
    BY <2>1, <2>3 DEF Timeline!Restart
  <2> QED
    BY <2>4 DEF Timeline!TimelineNext
<1>5. CASE ~short /\ (Undone \/ Redone)
  BY <1>5, ApplyOnTimeline DEF Timeline!TimelineNext
<1>6. CASE ~short /\ \E cmd, c : \E new \in Line : Turn(cmd, c, new)
  BY <1>6, TurnOnTimeline DEF Timeline!TimelineNext
<1> QED
  BY <1>2, <1>3, <1>4, <1>5, <1>6, Shapes DEF TimelineInv

\* Undo and redo implement the timeline: an undo goes back exactly one state
\* and loses none, a redo returns to it, and an edit behind an undo forgets
\* what was undone, unless typing has slipped past c_undo_record there.
THEOREM ImplementsTheTimeline == Spec => ImplementsTimeline
<1>1. Init => Timeline!TimelineInit
  <2> SUFFICES ASSUME Init PROVE Timeline!TimelineInit
    OBVIOUS
  <2>1. /\ undo = <<>> /\ redo = <<>> /\ cur = NoLine /\ short = FALSE
        /\ Len(<<>>) = 0 /\ NoLine \in Snap
    BY EmptySeq, NoLineIsLine DEF Init, Line
  <2>2. Len(undo \o <<cur>> \o Reverse(redo)) = 1
    BY <2>1, OneState
  <2> QED
    BY <2>1, <2>2 DEF Timeline!TimelineInit
<1>2. Init => TimelineInv
  <2>1. Init => CurInv
    BY DEF Init, CurInv, CurIsLine
  <2>2. Init => LinesSaved
    BY EmptySeq, NoLineIsLine DEF Init, LinesSaved, LineStack
  <2>3. Init => SlipsKnown
    BY DEF Init, SlipsKnown
  <2> QED
    BY <2>1, <2>2, <2>3, InitIInv DEF TimelineInv
<1>3. TimelineInv /\ [Next]_vars => TimelineInv'
  <2>1. CASE Next
    BY <2>1, Step, CurInvStep, LinesSavedStep, SlipsKnownStep DEF TimelineInv
  <2>2. CASE UNCHANGED vars
    BY <2>2 DEF vars, TimelineInv, IInv, TypeOK, StacksBounded, CurInv, CurIsLine,
       LinesSaved, LineStack, SlipsKnown
  <2> QED
    BY <2>1, <2>2
<1>4. TimelineInv /\ [Next]_vars => [Timeline!TimelineNext]_(Timeline!timelineVars)
  <2>1. UNCHANGED vars => UNCHANGED Timeline!timelineVars
    BY DEF vars, Timeline!timelineVars
  <2> QED
    BY <2>1, TimelineStep
<1> QED
  BY <1>1, <1>2, <1>3, <1>4, PTL DEF Spec, ImplementsTimeline, Timeline!TimelineSpec

-------------------------------------------------------------------------------
(* Events beside the line.                                                 *)

\* The oldest event that may be asked for; without a history vi_to_history_line
\* leaves 1.
Oldest == IF events = <<>> THEN 1 ELSE Len(events)

\* The lines that name an event there is, where the range is promised.
KnownLines == {s \in Snap : vi \/ OldEvents # <<>> => s.eventno <= Oldest}

\* The undo machinery holds lines of S.
StacksHold(S) == undo \in Seq(S) /\ redo \in Seq(S) /\ cur \in S

HistoryInv ==
  /\ hbuf \in Seq(Char)
  /\ events \in Seq(Seq(Char))
  /\ vi \in BOOLEAN
  /\ OldEvents # <<>> => events # <<>>

\* A copy is a text of the same length, and copying it again changes nothing.
LEMMA CopiedAgain ==
  ASSUME NEW t, NEW n \in Nat, DOMAIN t = 1..n
  PROVE  Copied(Copied(t)) = Copied(t) /\ DOMAIN Copied(t) = 1..n
<1> DEFINE u == Copied(t)
           ok(i) == i <= BufSize /\ NoNul(t, 1, i)
<1>1. DOMAIN u = 1..n /\ \A i \in 1..n : u[i] = IF ok(i) THEN t[i] ELSE "nul"
  BY DEF Copied
<1>2. ASSUME NEW i \in 1..n
      PROVE  u[i] = IF i <= BufSize /\ NoNul(u, 1, i) THEN u[i] ELSE "nul"
  <2>1. CASE ok(i)
    <3>1. ASSUME NEW k \in 1..i PROVE u[k] # "nul"
      <4>1. k \in 1..n /\ k <= BufSize /\ \A j \in 1..k : j \in 1..i
        BY <2>1, BufSizeAssumption
      <4>2. t[k] # "nul" /\ NoNul(t, 1, k)
        BY <2>1, <4>1 DEF NoNul
      <4> QED
        BY <1>1, <4>1, <4>2
    <3> QED
      BY <2>1, <3>1 DEF NoNul
  <2>2. CASE ~ok(i)
    BY <1>1, <2>2
  <2> QED
    BY <2>1, <2>2
<1>3. Copied(u) = [i \in 1..n |-> IF i <= BufSize /\ NoNul(u, 1, i) THEN u[i] ELSE "nul"]
  BY <1>1 DEF Copied
<1>4. u = [i \in 1..n |-> u[i]]
  BY DEF Copied
<1> HIDE DEF u
<1>5. Copied(u) = u
  BY <1>2, <1>3, <1>4
<1> QED
  BY <1>1, <1>5 DEF u

LEMMA CopiedIsText ==
  ASSUME NEW t \in Seq(Char)
  PROVE  /\ Copied(t) \in Seq(Char) /\ Copied(Copied(t)) = Copied(t)
         /\ t = <<>> => Copied(t) = <<>>
<1> DEFINE n == Len(t)
<1>1. n \in Nat /\ DOMAIN t = 1..n /\ \A i \in 1..n : t[i] \in Char
  BY LenProperties, ElementOfSeq
<1>2. "nul" \in Char
  BY DEF Char
<1>3. Copied(t) \in [1..n -> Char]
  BY <1>1, <1>2 DEF Copied
<1>4. Copied(t) \in Seq(Char)
  BY <1>1, <1>3, SeqDef
<1>5. ASSUME t = <<>> PROVE Copied(t) = <<>>
  <2>1. DOMAIN Copied(t) = {} /\ Len(Copied(t)) \in Nat /\ DOMAIN Copied(t) = 1..Len(Copied(t))
    BY <1>1, <1>4, <1>5, EmptySeq, LenProperties DEF Copied
  <2>2. Len(Copied(t)) = 0
    BY <2>1
  <2> QED
    BY <1>4, <2>2, EmptySeq
<1> QED
  BY <1>1, <1>4, <1>5, CopiedAgain

\* What comes back of what came back of a text comes back of the text.
LEMMA BackTwice ==
  ASSUME NEW s \in Seq(Char), NEW t, s \in Back(t), NEW u, u \in Back(s)
  PROVE  u \in Back(t)
<1>1. CASE s = t
  BY <1>1
<1>2. CASE s = Copied(t)
  <2>1. DOMAIN s = 1..Len(s) /\ Len(s) \in Nat /\ DOMAIN s = DOMAIN t
    BY <1>2, LenProperties DEF Copied
  <2>2. Copied(s) = Copied(t)
    BY <1>2, <2>1, CopiedAgain
  <2> QED
    BY <1>2, <2>2 DEF Back
<1> QED
  BY <1>1, <1>2 DEF Back

\* What holds of the line wherever its cursor is, and of the line as it is when
\* no search has left the cursor behind its end.
Shows ==
  /\ HistoryInv
  /\ line \in KnownLines
  /\ StacksHold(KnownLines)

NavInv ==
  /\ HistoryInv
  /\ line \in Line /\ line \in KnownLines
  /\ StacksHold(KnownLines)

-------------------------------------------------------------------------------
(* Stacks that hold lines of a set.                                        *)

LEMMA StackParts ==
  ASSUME NEW S, NEW stack \in Seq(S), stack # <<>>
  PROVE  Last(stack) \in S /\ Front(stack) \in Seq(S) /\ Tail(stack) \in Seq(S)
<1> DEFINE n == Len(stack)
<1>1. n \in Nat /\ n >= 1
  BY EmptySeq, LenProperties
<1>2. \A i \in 1..n : stack[i] \in S
  BY ElementOfSeq
<1>3. stack[n] \in S
  BY <1>1, <1>2
<1>4. SubSeq(stack, 1, n - 1) \in Seq(S)
  <2>1. \A i \in 1..(n - 1) : stack[i] \in S
    BY <1>1, <1>2
  <2> HIDE DEF n
  <2> QED
    BY <1>1, <2>1, SubSeqProperties, 1 \in Int, n - 1 \in Int
<1>5. Tail(stack) \in Seq(S)
  BY HeadTailProperties
<1> QED
  BY <1>3, <1>4, <1>5 DEF Last, Front

LEMMA PushHolds ==
  ASSUME NEW S, NEW stack \in Seq(S), NEW s \in S
  PROVE  Crop(stack) \in Seq(S) /\ Push(stack, s) \in Seq(S)
<1>1. Crop(stack) \in Seq(S)
  <2>1. CASE Len(stack) = UndoMax
    <3>1. stack # <<>>
      BY <2>1, EmptySeq, UndoMaxAssumption
    <3> QED
      BY <2>1, <3>1, StackParts DEF Crop
  <2>2. CASE Len(stack) # UndoMax
    BY <2>2 DEF Crop
  <2> QED
    BY <2>1, <2>2
<1> QED
  BY <1>1, AppendProperties DEF Push

\* A set of lines that says nothing of their text.
AnyText(S) == S \subseteq Snap /\ \A s \in S : [s EXCEPT !.text = <<>>] \in S

LEMMA SavedHolds ==
  ASSUME NEW S, AnyText(S), cur \in S, NEW new \in S, Saved(new) \/ SaveFailed
  PROVE  cur' \in S
BY DEF AnyText, Saved, SaveFailed

\* c_undo_record puts lines on the stacks that were in cur or on the screen.
LEMMA RecordHolds ==
  ASSUME NEW S, AnyText(S), StacksHold(S), NEW cmd, NEW c, NEW new \in S,
         Record(cmd, c, new)
  PROVE  undo' \in Seq(S) /\ redo' \in Seq(S) /\ cur' \in S
<1>0. <<>> \in Seq(S)
  BY EmptySeq
<1>1. CASE UNCHANGED undoVars
  BY <1>1 DEF undoVars, StacksHold
<1>2. CASE RecordAgain(new)
  BY <1>2, SavedHolds DEF RecordAgain, StacksHold
<1>3. CASE RecordSame(new)
  BY <1>3 DEF RecordSame, StacksHold
<1>4. CASE RecordJoin(cmd, c, new)
  BY <1>4, SavedHolds DEF RecordJoin, StacksHold
<1>5. CASE RecordEdit(cmd, c, new)
  <2>1. Push(undo, cur) \in Seq(S) /\ Crop(undo) \in Seq(S)
    BY PushHolds DEF StacksHold
  <2> QED
    BY <1>0, <1>5, <2>1, SavedHolds DEF RecordEdit, StacksHold
<1> QED
  BY <1>1, <1>2, <1>3, <1>4, <1>5 DEF Record

\* c_undo_apply moves a line from one stack to the screen.
LEMMA ApplyHolds ==
  ASSUME NEW S, AnyText(S), StacksHold(S), NEW from \in Seq(S), from # <<>>,
         NEW to \in Seq(S), Restored(Last(from)) \in S, Resync(Restored(Last(from)))
  PROVE  Front(from) \in Seq(S) /\ Push(to, cur) \in Seq(S) /\ cur' \in S
<1>1. Front(from) \in Seq(S)
  BY StackParts
<1>2. Push(to, cur) \in Seq(S)
  BY PushHolds DEF StacksHold
<1>3. cur' \in S
  BY SavedHolds DEF StacksHold, Resync
<1> QED
  BY <1>1, <1>2, <1>3

-------------------------------------------------------------------------------
(* hist_get.                                                               *)

LEMMA OldestIsNumber ==
  ASSUME HistoryInv
  PROVE  /\ Oldest \in Nat \ {0} /\ Len(events) \in Nat
         /\ events # <<>> => Oldest = Len(events)
<1>1. Len(events) \in Nat /\ (events # <<>> => Len(events) # 0)
  BY EmptySeq, LenProperties DEF HistoryInv
<1> QED
  BY <1>1 DEF Oldest

LEMMA KnownLinesClosed ==
  ASSUME HistoryInv
  PROVE  AnyText(KnownLines) /\ NoLine \in KnownLines
<1>1. <<>> \in Seq(Char) /\ NoLine \in Snap /\ NoLine.eventno = 0
  BY EmptySeq, NoLineIsLine DEF Line
<1>2. NoLine \in KnownLines
  BY <1>1, OldestIsNumber DEF KnownLines
<1>3. ASSUME NEW s \in KnownLines
      PROVE  [s EXCEPT !.text = <<>>] \in KnownLines
  <2>1. s \in Snap /\ (vi \/ OldEvents # <<>> => s.eventno <= Oldest)
    BY DEF KnownLines
  <2>2. [s EXCEPT !.text = <<>>] \in Snap /\ [s EXCEPT !.text = <<>>].eventno = s.eventno
    BY <1>1, <2>1 DEF Snap
  <2> QED
    BY <2>1, <2>2 DEF KnownLines
<1> QED
  BY <1>2, <1>3 DEF AnyText, KnownLines

\* A line on the screen: with its cursor in it and an event there is.
Fine(l) == l \in Line /\ l \in KnownLines

LEMMA ShownIsFine ==
  ASSUME HistoryInv, NEW text \in Seq(Char), NEW e \in Nat, e <= Oldest
  PROVE  Fine(Shown(text, e)) /\ Shown(text, e).eventno = e
<1>1. Len(text) \in Nat
  BY LenProperties
<1> QED
  BY <1>1 DEF Shown, Fine, Line, Snap, KnownLines

LEMMA TrimmedIsText ==
  ASSUME NEW t \in Seq(Char)
  PROVE  Trimmed(t) \in Seq(Char)
BY StackParts DEF Trimmed

\* Whatever event hist_get is asked for, it leaves a line that names one, and
\* with event 0 the saved line.
LEMMA HistGetIsFine ==
  ASSUME HistoryInv, NEW l, Fine(l), NEW e \in Nat, NEW b \in Seq(Char),
         events = <<>> /\ (vi \/ OldEvents # <<>>) => e <= Oldest
  PROVE  /\ Fine(HistGet(l, e, b))
         /\ HistGet(l, e, b).eventno = 0 <=> e = 0
         /\ e = 0 => HistGet(l, e, b).text = b
<1>1. Oldest \in Nat \ {0} /\ Len(events) \in Nat /\ (events # <<>> => Oldest = Len(events))
  BY OldestIsNumber
<1>2. CASE e = 0
  BY <1>1, <1>2, ShownIsFine DEF HistGet, Shown
<1>3. CASE e # 0 /\ HasEvent(e)
  <2>1. e \in 1..Len(events) /\ events # <<>>
    BY <1>1, <1>3, EmptySeq DEF HasEvent
  <2>2. events[e] \in Seq(Char)
    BY <2>1, ElementOfSeq DEF HistoryInv
  <2>3. Trimmed(events[e]) \in Seq(Char) /\ e <= Oldest
    BY <1>1, <2>1, <2>2, TrimmedIsText
  <2>4. HistGet(l, e, b) = Shown(Trimmed(events[e]), e)
    BY <1>3 DEF HistGet
  <2> HIDE DEF HistGet
  <2> QED
    BY <1>3, <2>3, <2>4, ShownIsFine
<1>4. CASE e # 0 /\ ~HasEvent(e)
  <2> DEFINE n == Stopped(e)
  <2>1. HistGet(l, e, b) = [l EXCEPT !.eventno = n]
    BY <1>4 DEF HistGet
  <2>2. n \in Nat /\ n # 0 /\ (vi \/ OldEvents # <<>> => n <= Oldest)
    BY <1>1, <1>4 DEF Stopped
  <2> HIDE DEF n
  <2>3. l \in Snap /\ l.cursor <= Len(l.text)
    BY DEF Fine, Line
  <2>4. /\ [l EXCEPT !.eventno = n] \in Snap
        /\ [l EXCEPT !.eventno = n].eventno = n
        /\ [l EXCEPT !.eventno = n].text = l.text
        /\ [l EXCEPT !.eventno = n].cursor = l.cursor
    BY <2>2, <2>3 DEF Snap
  <2> QED
    BY <1>4, <2>1, <2>2, <2>3, <2>4 DEF Fine, Line, KnownLines
<1> QED
  BY <1>2, <1>3, <1>4

-------------------------------------------------------------------------------
(* The commands.                                                           *)

\* The history is the same, and so are the lines that are known.
SameEvents == events' = events /\ vi' = vi /\ hbuf' \in Seq(Char)

LEMMA KnownLinesStay ==
  ASSUME HistoryInv, SameEvents
  PROVE  HistoryInv' /\ KnownLines' = KnownLines
BY DEF HistoryInv, SameEvents, KnownLines, Oldest

LEMMA TurnKeepsNav ==
  ASSUME NavInv, NEW cmd, NEW c, NEW new, Fine(new), Turn(cmd, c, new), SameEvents
  PROVE  NavInv'
<1>1. AnyText(KnownLines) /\ HistoryInv' /\ KnownLines' = KnownLines
  BY KnownLinesClosed, KnownLinesStay DEF NavInv
<1>2. undo' \in Seq(KnownLines) /\ redo' \in Seq(KnownLines) /\ cur' \in KnownLines
  BY <1>1, RecordHolds DEF NavInv, Turn, Fine
<1> QED
  BY <1>1, <1>2 DEF NavInv, StacksHold, Turn, Fine

LEMMA NavParts ==
  ASSUME NavInv
  PROVE  /\ HistoryInv /\ Fine(line) /\ line \in Snap
         /\ line.text \in Seq(Char) /\ line.eventno \in Nat /\ line.cursor \in Nat
         /\ hbuf \in Seq(Char) /\ SaveLine(line) \in Seq(Char)
         /\ events = <<>> /\ (vi \/ OldEvents # <<>>) => vi /\ line.eventno <= Oldest
         /\ line.eventno <= Oldest \/ ~(vi \/ OldEvents # <<>>)
<1>1. line \in Snap /\ line \in KnownLines
  BY DEF NavInv, Line
<1>2. line.text \in Seq(Char) /\ line.eventno \in Nat /\ line.cursor \in Nat
  BY <1>1, SnapParts
<1>3. SaveLine(line) \in Seq(Char)
  BY <1>2, CopiedIsText DEF SaveLine, NavInv, HistoryInv
<1> QED
  BY <1>1, <1>2, <1>3 DEF NavInv, HistoryInv, Fine, KnownLines

\* What the commands that move in the history put on the line, and what they
\* do for the draft: a line left for an event is in hbuf, and a line that is
\* returned to comes from it.
Moves(new) ==
  /\ Fine(new)
  /\ hbuf' \in Seq(Char)
  /\ line.eventno = 0 /\ new.eventno # 0 => hbuf' = Copied(line.text)
  /\ line.eventno # 0 => hbuf' = hbuf
  /\ line.eventno # 0 /\ new.eventno = 0 => new.text = hbuf

\* hist_get after the line was saved.
LEMMA SavedMoves ==
  ASSUME NavInv, NEW e \in Nat, hbuf' = SaveLine(line),
         events = <<>> /\ (vi \/ OldEvents # <<>>) => e <= Oldest
  PROVE  Moves(HistGet(line, e, SaveLine(line)))
<1> DEFINE new == HistGet(line, e, SaveLine(line))
<1>1. Fine(new) /\ (new.eventno = 0 <=> e = 0) /\ (e = 0 => new.text = SaveLine(line))
  BY NavParts, HistGetIsFine
<1> HIDE DEF new
<1>2. Moves(new)
  BY <1>1, NavParts DEF Moves, SaveLine
<1> QED
  BY <1>2 DEF new

\* A command that leaves the line.
LEMMA StaysMoves ==
  ASSUME NavInv, hbuf' = SaveLine(line) \/ hbuf' = hbuf
  PROVE  Moves(line)
BY NavParts DEF Moves, SaveLine

LEMMA PrevMoves ==
  ASSUME NavInv, NEW arg \in Args, hbuf' = SaveLine(line)
  PROVE  Moves(HistGet(line, PrevTarget(line.eventno + arg), SaveLine(line)))
<1> DEFINE e == line.eventno + arg
<1>1. arg \in Nat /\ e \in Nat /\ Len(events) \in Nat /\ Oldest \in Nat
  BY NavParts, OldestIsNumber, NavBoundsAssumption DEF Args
<1>2. PrevTarget(e) \in Nat
  BY <1>1, NavParts DEF PrevTarget, Stopped
<1>3. events = <<>> /\ (vi \/ OldEvents # <<>>) => PrevTarget(e) <= Oldest
  <2>1. SUFFICES ASSUME events = <<>>, vi \/ OldEvents # <<>> PROVE PrevTarget(e) <= Oldest
    OBVIOUS
  <2>2. vi /\ line.eventno <= Oldest /\ Len(events) = 0
    BY <2>1, NavParts, EmptySeq
  <2>3. e = 0 \/ ~HasEvent(e)
    BY <2>2 DEF HasEvent
  <2> QED
    BY <1>1, <2>2, <2>3 DEF PrevTarget
<1> QED
  BY <1>2, <1>3, SavedMoves

LEMMA NextMoves ==
  ASSUME NavInv, NEW arg \in Args, hbuf' = hbuf
  PROVE  LET e == IF line.eventno > arg THEN line.eventno - arg ELSE 0
         IN Moves(HistGet(line, e, hbuf))
<1> DEFINE e == IF line.eventno > arg THEN line.eventno - arg ELSE 0
           new == HistGet(line, e, hbuf)
<1>1. arg \in Nat /\ arg >= 1 /\ Oldest \in Nat /\ e \in Nat /\ e <= line.eventno
  BY NavParts, OldestIsNumber, NavBoundsAssumption DEF Args
<1>2. events = <<>> /\ (vi \/ OldEvents # <<>>) => e <= Oldest
  BY <1>1, NavParts
<1>3. line.eventno = 0 => e = 0
  <2>1. arg \in Nat /\ arg >= 1
    BY <1>1
  <2> QED
    BY <2>1
<1> HIDE DEF e
<1>4. Fine(new) /\ (new.eventno = 0 <=> e = 0) /\ (e = 0 => new.text = hbuf)
  <2>1. e \in Nat
    BY <1>1
  <2>2. Fine(line) /\ HistoryInv /\ hbuf \in Seq(Char)
    BY NavParts
  <2> QED
    BY <1>2, <2>1, <2>2, HistGetIsFine
<1> HIDE DEF new
<1>5. Moves(new)
  BY <1>3, <1>4, NavParts DEF Moves
<1> QED
  BY <1>5 DEF e, new

\* The events that match have a nearest one.
LEMMA LeastNumber ==
  ASSUME NEW S, S \subseteq Nat, S # {}
  PROVE  \E e \in S : \A f \in S : e <= f
<1> DEFINE R == OpToRel(<, Nat)
<1>1. IsWellFoundedOn(R, Nat)
  BY NatLessThanWellFounded
<1>2. \A e, f \in Nat : <<e, f>> \in R <=> e < f
  BY DEF OpToRel
<1> HIDE DEF R
<1>3. PICK e \in S : \A f \in S : ~(<<f, e>> \in R)
  BY <1>1, WFMin
<1>4. ASSUME NEW f \in S PROVE e <= f
  <2>1. e \in Nat /\ f \in Nat
    OBVIOUS
  <2>2. ~(f < e)
    BY <1>2, <1>3, <2>1
  <2> QED
    BY <2>1, <2>2
<1> QED
  BY <1>4

LEMMA GreatestBelow ==
  ASSUME NEW n \in Nat, NEW S, S \subseteq 0..n, S # {}
  PROVE  \E e \in S : \A f \in S : e >= f
<1> DEFINE T == {n - e : e \in S}
<1>1. T \subseteq Nat /\ T # {}
  <2>1. ASSUME NEW e \in S PROVE n - e \in Nat
    <3>1. e \in 0..n
      OBVIOUS
    <3> QED
      BY <3>1
  <2>2. PICK e \in S : TRUE
    OBVIOUS
  <2>3. n - e \in T
    BY <2>2
  <2> QED
    BY <2>1, <2>3
<1>2. PICK t \in T : \A u \in T : t <= u
  BY <1>1, LeastNumber
<1>3. PICK e \in S : t = n - e
  OBVIOUS
<1>4. ASSUME NEW f \in S PROVE e >= f
  <2>1. t <= n - f
    BY <1>2
  <2>2. e \in 0..n /\ f \in 0..n
    OBVIOUS
  <2> HIDE DEF T
  <2> QED
    BY <1>3, <2>1, <2>2
<1> QED
  BY <1>4

\* What a search looks for is an event there is.
LEMMA OlderHitIsEvent ==
  ASSUME HistoryInv, NEW l, l.eventno \in Nat, NEW p
  PROVE  OlderHit(l, p) = NotFound \/ OlderHit(l, p) \in 1..Len(events)
<1> DEFINE found == Candidates((l.eventno + 1)..Len(events), l, p)
<1>1. \A e \in found : e \in 1..Len(events)
  BY OldestIsNumber DEF Candidates
<1>2. Len(events) \in Nat /\ found \subseteq Nat
  BY <1>1, OldestIsNumber
<1>3. CASE found = {}
  BY <1>3 DEF OlderHit
<1>4. CASE found # {}
  <2>1. PICK e \in found : \A f \in found : e <= f
    BY <1>2, <1>4, LeastNumber
  <2>2. (CHOOSE x \in found : \A f \in found : x <= f) \in found
    BY <2>1
  <2> QED
    BY <1>1, <1>4, <2>2 DEF OlderHit
<1> QED
  BY <1>3, <1>4

LEMMA NewerHitIsEvent ==
  ASSUME HistoryInv, NEW l, l.eventno \in Nat, NEW p
  PROVE  \/ NewerHit(l, p) = NotFound
         \/ l.eventno # 0 /\ NewerHit(l, p) \in 0..Len(events) /\ events # <<>>
<1> DEFINE last == IF l.eventno > Len(events) + 1 THEN Len(events) ELSE l.eventno - 1
           found == Candidates(1..last, l, p)
<1>1. Len(events) \in Nat /\ l.eventno \in Nat
  BY OldestIsNumber
<1>2. \A e \in found : e \in 1..Len(events)
  <2> DEFINE top == last
  <2>1. top \in Int /\ (top <= Len(events))
    BY <1>1
  <2> HIDE DEF last
  <2>2. ASSUME NEW e \in 1..top PROVE e \in 1..Len(events)
    BY <1>1, <2>1
  <2>3. found \subseteq 1..top
    BY DEF Candidates
  <2> QED
    BY <2>2, <2>3
<1>3. CASE l.eventno = 0 \/ events = <<>>
  BY <1>3 DEF NewerHit
<1>4. CASE l.eventno # 0 /\ events # <<>> /\ found # {}
  <2>1. \E e \in found : \A f \in found : e >= f
    <3> DEFINE n == Len(events)
    <3> HIDE DEF n, found
    <3>1. n \in Nat /\ found \subseteq 0..n /\ found # {}
      BY <1>1, <1>2, <1>4 DEF n
    <3> QED
      BY <3>1, GreatestBelow
  <2>2. (CHOOSE x \in found : \A f \in found : x >= f) \in found
    BY <2>1
  <2>3. NewerHit(l, p) \in found
    BY <1>4, <2>2 DEF NewerHit
  <2> QED
    BY <1>1, <1>2, <1>4, <2>3
<1>5. CASE l.eventno # 0 /\ events # <<>> /\ found = {}
  BY <1>1, <1>5 DEF NewerHit
<1> QED
  BY <1>3, <1>4, <1>5

LEMMA SearchMoves ==
  ASSUME NavInv, NEW p
  PROVE  /\ hbuf' = SaveLine(line) => Moves(Hit(OlderHit(line, p), SaveLine(line)))
         /\ hbuf' = hbuf => Moves(Hit(NewerHit(line, p), hbuf))
<1>1. Len(events) \in Nat /\ (events = <<>> => Len(events) = 0)
  BY NavParts, OldestIsNumber, EmptySeq
<1>2. ASSUME hbuf' = SaveLine(line)
      PROVE  Moves(Hit(OlderHit(line, p), SaveLine(line)))
  <2> DEFINE e == OlderHit(line, p)
  <2>1. e = NotFound \/ e \in 1..Len(events)
    BY NavParts, OlderHitIsEvent
  <2> HIDE DEF e
  <2>2. ASSUME e = NotFound PROVE Moves(Hit(e, SaveLine(line)))
    BY <1>2, <2>2, StaysMoves DEF Hit
  <2>3. ASSUME e \in 1..Len(events) PROVE Moves(Hit(e, SaveLine(line)))
    <3>1. e \in Nat /\ e # NotFound /\ events # <<>>
      BY <1>1, <2>3 DEF NotFound
    <3> QED
      BY <1>2, <3>1, SavedMoves DEF Hit
  <2>4. Moves(Hit(e, SaveLine(line)))
    BY <2>1, <2>2, <2>3
  <2> QED
    BY <2>4 DEF e
<1>3. ASSUME hbuf' = hbuf
      PROVE  Moves(Hit(NewerHit(line, p), hbuf))
  <2> DEFINE e == NewerHit(line, p)
  <2>1. e = NotFound \/ (line.eventno # 0 /\ e \in 0..Len(events) /\ events # <<>>)
    BY NavParts, NewerHitIsEvent
  <2> HIDE DEF e
  <2>2. ASSUME e = NotFound PROVE Moves(Hit(e, hbuf))
    BY <1>3, <2>2, StaysMoves DEF Hit
  <2>3. ASSUME e # NotFound PROVE Moves(Hit(e, hbuf))
    <3>1. e \in Nat /\ events # <<>> /\ SaveLine(line) = hbuf
      BY <1>1, <2>1, <2>3 DEF SaveLine
    <3> QED
      BY <1>3, <2>3, <3>1, SavedMoves DEF Hit
  <2>4. Moves(Hit(e, hbuf))
    BY <2>2, <2>3
  <2> QED
    BY <2>4 DEF e
<1> QED
  BY <1>2, <1>3

LEMMA ToNumberMoves ==
  ASSUME NavInv, NEW arg \in Args, hbuf' = SaveLine(line)
  PROVE  LET e == 1 + NewestNumber - arg
             first == HistGet(line, 1, SaveLine(line))
         IN Moves(IF events = <<>> THEN first
                  ELSE IF e >= 0 /\ HasEvent(e) THEN HistGet(line, e, SaveLine(line))
                  ELSE [first EXCEPT !.eventno = line.eventno])
<1> DEFINE e == 1 + NewestNumber - arg
           first == HistGet(line, 1, SaveLine(line))
<1>1. Oldest \in Nat \ {0} /\ Len(events) \in Nat /\ arg \in Nat /\ Dropped \in Nat
  BY NavParts, OldestIsNumber, NavBoundsAssumption DEF Args
<1>2. Moves(first)
  BY <1>1, SavedMoves
<1>3. ASSUME events # <<>> /\ e >= 0 /\ HasEvent(e)
      PROVE  Moves(HistGet(line, e, SaveLine(line)))
  <2>1. e \in Nat
    BY <1>1, <1>3 DEF NewestNumber
  <2> HIDE DEF e
  <2> QED
    BY <1>3, <2>1, SavedMoves
<1>4. Moves([first EXCEPT !.eventno = line.eventno])
  <2> HIDE DEF first
  <2> DEFINE n == line.eventno
             new == [first EXCEPT !.eventno = n]
  <2>1. /\ first \in Snap /\ first.cursor <= Len(first.text) /\ n \in Nat
        /\ n <= Oldest \/ ~(vi \/ OldEvents # <<>>)
    BY <1>2, NavParts DEF Moves, Fine, Line
  <2> HIDE DEF n
  <2>2. /\ new \in Snap /\ new.eventno = n
        /\ new.text = first.text /\ new.cursor = first.cursor
    BY <2>1 DEF Snap
  <2> HIDE DEF new
  <2>3. Fine(new)
    BY <2>1, <2>2 DEF Fine, Line, KnownLines
  <2>4. Moves(new)
    BY <1>2, <2>2, <2>3, NavParts DEF Moves, n, SaveLine
  <2> QED
    BY <2>4 DEF new, n
<1> HIDE DEF e, first
<1>5. Moves(IF events = <<>> THEN first
            ELSE IF e >= 0 /\ HasEvent(e) THEN HistGet(line, e, SaveLine(line))
            ELSE [first EXCEPT !.eventno = line.eventno])
  BY <1>2, <1>3, <1>4
<1> QED
  BY <1>5 DEF e, first

\* A command that moves in the history keeps both invariants.
LEMMA NavigateKeeps ==
  ASSUME NavInv, NEW name, NEW new, Moves(new), Navigate(name, new)
  PROVE  NavInv' /\ (DraftKept => DraftKept')
<1>1. Turn(name, "key", new) /\ SameEvents /\ Fine(new)
  BY DEF Navigate, SameEvents, Moves
<1>2. NavInv'
  BY <1>1, TurnKeepsNav
<1>3. line' = new /\ vi' = vi
      /\ draft' = IF line.eventno = 0 /\ new.eventno = 0 THEN new.text ELSE draft
  BY DEF Navigate, Turn
<1>4. ASSUME DraftKept PROVE DraftKept'
  <2>1. SUFFICES ASSUME ~vi, "undo" \notin Commands
                 PROVE  (IF new.eventno = 0 THEN new.text ELSE hbuf') \in Back(draft')
    BY <1>3 DEF DraftKept, Commands
  <2>2. CASE line.eventno = 0
    <3>1. line.text \in Seq(Char) /\ line.text \in Back(draft)
      BY <1>4, <2>1, <2>2, NavParts DEF DraftKept
    <3>2. Copied(line.text) \in Back(draft)
      BY <3>1, BackTwice DEF Back
    <3> QED
      BY <1>3, <2>2, <3>2 DEF Moves, Back
  <2>3. CASE line.eventno # 0
    BY <1>3, <1>4, <2>1, <2>3 DEF DraftKept, Moves
  <2> QED
    BY <2>2, <2>3
<1> QED
  BY <1>2, <1>4

LEMMA MovingStep ==
  ASSUME NavInv,
         \/ \E arg \in Args : PrevHistory(arg) \/ NextHistory(arg) \/ ToNumber(arg)
         \/ SearchPrev \/ SearchNext \/ ToOldest \/ UndoLine
  PROVE  NavInv' /\ (DraftKept => DraftKept')
<1>1. ASSUME NEW arg \in Args, PrevHistory(arg) PROVE NavInv' /\ (DraftKept => DraftKept')
  BY <1>1, PrevMoves, NavigateKeeps DEF PrevHistory
<1>2. ASSUME NEW arg \in Args, NextHistory(arg) PROVE NavInv' /\ (DraftKept => DraftKept')
  BY <1>2, NextMoves, NavigateKeeps DEF NextHistory
<1>3. ASSUME NEW arg \in Args, ToNumber(arg) PROVE NavInv' /\ (DraftKept => DraftKept')
  BY <1>3, ToNumberMoves, NavigateKeeps DEF ToNumber
<1>4. CASE SearchPrev
  BY <1>4, SearchMoves, NavigateKeeps DEF SearchPrev
<1>5. CASE SearchNext
  BY <1>5, SearchMoves, NavigateKeeps DEF SearchNext
<1>6. CASE ToOldest
  <2> DEFINE new == IF events = <<>> THEN line ELSE HistGet(line, Len(events), SaveLine(line))
  <2>1. hbuf' = SaveLine(line) /\ Navigate("to-history-line", new)
    BY <1>6 DEF ToOldest
  <2>2. Moves(new)
    BY <2>1, NavParts, OldestIsNumber, StaysMoves, SavedMoves
  <2> QED
    BY <2>1, <2>2, NavigateKeeps
<1>7. CASE UndoLine
  <2> DEFINE new == HistGet(line, line.eventno, hbuf)
  <2>1. hbuf' = hbuf /\ Navigate("undo-line", new)
    BY <1>7 DEF UndoLine
  <2>2. Fine(new) /\ (new.eventno = 0 <=> line.eventno = 0) /\ (line.eventno = 0 => new.text = hbuf)
    <3> DEFINE e == line.eventno
    <3>1. /\ HistoryInv /\ Fine(line) /\ e \in Nat /\ hbuf \in Seq(Char)
          /\ events = <<>> /\ (vi \/ OldEvents # <<>>) => e <= Oldest
      BY NavParts
    <3> HIDE DEF e
    <3>2. Fine(HistGet(line, e, hbuf)) /\ (HistGet(line, e, hbuf).eventno = 0 <=> e = 0)
          /\ (e = 0 => HistGet(line, e, hbuf).text = hbuf)
      BY <3>1, HistGetIsFine
    <3> QED
      BY <3>2 DEF e
  <2> HIDE DEF new
  <2>3. Moves(new)
    BY <2>1, <2>2, NavParts DEF Moves
  <2> QED
    BY <2>1, <2>3, NavigateKeeps
<1> QED
  BY <1>1, <1>2, <1>3, <1>4, <1>5, <1>6, <1>7

-------------------------------------------------------------------------------
(* Editing the line and accepting it.                                      *)

\* Typing, erasing and undoing bring no event that was not there before.
LEMMA EditKeeps ==
  ASSUME NavInv, EditDraft
  PROVE  NavInv'
<1>1. SameEvents /\ HistoryInv' /\ KnownLines' = KnownLines /\ AnyText(KnownLines)
  <2>1. SameEvents
    BY DEF EditDraft, navVars, SameEvents, NavInv, HistoryInv
  <2> QED
    BY <2>1, KnownLinesStay, KnownLinesClosed DEF NavInv
<1>2. ASSUME NEW new \in Line, new.eventno = line.eventno
      PROVE  Fine(new)
  BY <1>2 DEF NavInv, Fine, Line, KnownLines
<1>3. ASSUME NEW c \in Keys, Type(c) PROVE NavInv'
  <2>1. Inserted(c) \in Line
    BY InsertedIsLine, BoundsAssumption DEF NavInv
  <2>2. Inserted(c).eventno = line.eventno
    BY DEF Inserted, NavInv, Line, Snap
  <2> QED
    BY <1>1, <1>2, <1>3, <2>1, <2>2, TurnKeepsNav DEF Type
<1>4. ASSUME NEW n \in 1..MaxLen, Erase(n) PROVE NavInv'
  <2> DEFINE new == [line EXCEPT !.cursor = @ - n,
                                 !.text = SubSeq(@, 1, line.cursor - n)
                                            \o SubSeq(@, line.cursor + 1, Len(@))]
  <2>1. n \in 1..line.cursor /\ Turn("other", "key", new)
    BY <1>4 DEF Erase, Other
  <2>2. new \in Line
    BY <2>1, ErasedIsLine DEF NavInv
  <2>3. new.eventno = line.eventno
    BY DEF NavInv, Line, Snap
  <2> HIDE DEF new
  <2> QED
    BY <1>1, <1>2, <2>1, <2>2, <2>3, TurnKeepsNav
<1>5. CASE Turn("other", "key", line)
  BY <1>1, <1>5, TurnKeepsNav, NavParts
<1>6. ASSUME NEW from \in Seq(KnownLines), NEW to \in Seq(KnownLines), from # <<>>,
             Resync(Restored(Last(from)))
      PROVE  /\ line' \in Line /\ line' \in KnownLines /\ cur' \in KnownLines
             /\ Front(from) \in Seq(KnownLines) /\ Push(to, cur) \in Seq(KnownLines)
  <2> DEFINE snap == Last(from)
  <2>1. snap \in KnownLines /\ snap \in Snap
    BY <1>6, StackParts DEF KnownLines
  <2> HIDE DEF snap
  <2>2. Restored(snap) \in Line /\ Restored(snap).eventno = snap.eventno
    BY <2>1, RestoredIsLine DEF Restored, Snap
  <2>3. Restored(snap) \in KnownLines
    BY <2>1, <2>2 DEF Line, KnownLines
  <2>4. Front(from) \in Seq(KnownLines) /\ Push(to, cur) \in Seq(KnownLines) /\ cur' \in KnownLines
    BY <1>1, <1>6, <2>3, ApplyHolds DEF NavInv, snap
  <2> QED
    BY <1>6, <2>2, <2>3, <2>4 DEF Resync, snap
<1>7. CASE UndoCommand /\ ~Turn("other", "key", line)
  <2>1. /\ undo # <<>> /\ Resync(Restored(Last(undo)))
        /\ undo' = Front(undo) /\ redo' = Push(redo, cur)
    BY <1>7 DEF UndoCommand
  <2> QED
    BY <1>1, <1>6, <2>1 DEF NavInv, StacksHold
<1>8. CASE RedoCommand /\ ~Turn("other", "key", line)
  <2>1. /\ redo # <<>> /\ Resync(Restored(Last(redo)))
        /\ redo' = Front(redo) /\ undo' = Push(undo, cur)
    BY <1>8 DEF RedoCommand
  <2> QED
    BY <1>1, <1>6, <2>1 DEF NavInv, StacksHold
<1> QED
  BY <1>3, <1>4, <1>5, <1>7, <1>8 DEF EditDraft

\* Without undo nothing that edits leaves the event the line came from.
LEMMA EditKeepsDraft ==
  ASSUME NavInv, EditDraft, DraftKept
  PROVE  DraftKept'
<1>1. vi' = vi /\ hbuf' = hbuf /\ draft' = (IF line'.eventno = 0 THEN line'.text ELSE draft)
  BY DEF EditDraft, navVars, Draft
<1>2. CASE "undo" \in Commands
  BY <1>1, <1>2 DEF DraftKept, Commands
<1>3. CASE "undo" \notin Commands
  <2>1. ASSUME NEW c \in Keys, Type(c) PROVE line'.eventno = line.eventno
    BY <2>1 DEF Type, Turn, Inserted, NavInv, Line, Snap
  <2>2. ASSUME NEW n \in 1..MaxLen, Erase(n) PROVE line'.eventno = line.eventno
    BY <2>2 DEF Erase, Other, Turn, NavInv, Line, Snap
  <2>3. line'.eventno = line.eventno
    BY <1>3, <2>1, <2>2 DEF EditDraft
  <2> QED
    BY <1>1, <2>3 DEF DraftKept, Commands, Back
<1> QED
  BY <1>2, <1>3

\* The next line begins with empty stacks; cur keeps the event of the last
\* line, which the history still has when it has grown.
LEMMA AcceptKeeps ==
  ASSUME Shows, NEW keep \in BOOLEAN, Accept(keep)
  PROVE  NavInv' /\ DraftKept'
<1>1. /\ Len(events) \in Nat /\ Oldest \in Nat \ {0} /\ line.text \in Seq(Char)
      /\ events \in Seq(Seq(Char)) /\ line \in Snap /\ line.eventno \in Nat
      /\ events # <<>> => Oldest = Len(events)
  BY OldestIsNumber, SnapParts DEF Shows, KnownLines, HistoryInv
<1>2. /\ hbuf' = hbuf /\ vi' = vi /\ line' = NoLine /\ undo' = <<>> /\ redo' = <<>>
      /\ cur' = [NoLine EXCEPT !.eventno = line.eventno] \/ SaveFailed
      /\ events' = events \/ events' = <<line.text>> \o events
      /\ draft' = <<>>
  BY DEF Accept, NewLine, Reset
<1>3. /\ events' \in Seq(Seq(Char)) /\ Len(events') \in Nat /\ Len(events') >= Len(events)
      /\ events' = <<>> => events = <<>>
      /\ events' # <<>> => Len(events') >= 1
  <2> DEFINE longer == <<line.text>> \o events
  <2>1. <<line.text>> \in Seq(Seq(Char)) /\ Len(<<line.text>>) = 1
    BY <1>1
  <2>2. longer \in Seq(Seq(Char)) /\ Len(longer) = 1 + Len(events)
    BY <1>1, <2>1, ConcatProperties
  <2> HIDE DEF longer
  <2>3. events' = events \/ events' = longer
    BY <1>2 DEF longer
  <2> QED
    BY <1>1, <2>2, <2>3, EmptySeq, LenProperties
<1>4. Oldest' >= Oldest /\ Oldest' \in Nat
  BY <1>1, <1>3, EmptySeq DEF Oldest
<1>5. ASSUME NEW s \in KnownLines PROVE s \in KnownLines'
  <2>1. s \in Snap /\ s.eventno \in Nat
    BY SnapParts DEF KnownLines
  <2> QED
    BY <1>1, <1>2, <1>4, <2>1 DEF KnownLines
<1>6. NoLine \in KnownLines' /\ NoLine \in Line /\ <<>> \in Seq(KnownLines')
  BY <1>5, KnownLinesClosed, NoLineIsLine, EmptySeq DEF Shows
<1>7. cur' \in KnownLines'
  <2>1. AnyText(KnownLines) /\ line \in KnownLines /\ cur \in KnownLines
    BY KnownLinesClosed DEF Shows, StacksHold
  <2>2. CASE cur' = [NoLine EXCEPT !.eventno = line.eventno]
    <3>1. [NoLine EXCEPT !.eventno = line.eventno] \in KnownLines
      BY <1>1, <2>1, NoLineIsLine DEF KnownLines, Snap, Line
    <3> QED
      BY <1>5, <2>2, <3>1
  <2>3. CASE SaveFailed
    BY <1>5, <2>1, <2>3 DEF AnyText, SaveFailed
  <2> QED
    BY <1>2, <2>2, <2>3
<1>8. HistoryInv'
  BY <1>2, <1>3 DEF Shows, HistoryInv
<1>9. NavInv'
  BY <1>2, <1>6, <1>7, <1>8 DEF NavInv, StacksHold
<1>10. DraftKept'
  BY <1>2 DEF DraftKept, NoLine, Back
<1> QED
  BY <1>9, <1>10

-------------------------------------------------------------------------------
(* The theorems.                                                           *)

LEMMA InitNavInv == NavInit => NavInv /\ DraftKept
<1> SUFFICES ASSUME NavInit PROVE NavInv /\ DraftKept
  OBVIOUS
<1>1. HistoryInv
  BY EmptySeq, OldEventsAssumption DEF NavInit, HistoryInv
<1>2. NoLine \in Line /\ NoLine \in KnownLines /\ <<>> \in Seq(KnownLines)
  BY <1>1, NoLineIsLine, KnownLinesClosed, EmptySeq
<1> QED
  BY <1>1, <1>2 DEF NavInit, Init, NavInv, StacksHold, DraftKept, NoLine, Back

LEMMA NavStep ==
  ASSUME NavInv, NavNext
  PROVE  NavInv' /\ (DraftKept => DraftKept')
<1>1. Shows
  BY DEF NavInv, Shows
<1> QED
  BY <1>1, MovingStep, EditKeeps, EditKeepsDraft, AcceptKeeps DEF NavNext

LEMMA NavStutter ==
  ASSUME NavInv, UNCHANGED allVars
  PROVE  NavInv' /\ (DraftKept => DraftKept')
BY DEF NavInv, HistoryInv, StacksHold, KnownLines, Oldest, DraftKept, Commands,
       allVars, vars, navVars

LEMMA KnownInRange == NavInv => EventnoInRange
<1> SUFFICES ASSUME NavInv, events # <<>>, vi \/ OldEvents # <<>>
             PROVE  line.eventno \in 0..Len(events)
  BY DEF EventnoInRange
<1> QED
  BY NavParts, OldestIsNumber

LEMMA NavAlways == NavSpec => [](NavInv /\ DraftKept)
<1>1. NavInv /\ DraftKept /\ [NavNext]_allVars => (NavInv /\ DraftKept)'
  BY NavStep, NavStutter
<1> QED
  BY <1>1, InitNavInv, PTL DEF NavSpec

\* Whatever is asked for, by whatever sequence of commands, edits, undos and
\* lines entered, eventno names an event there is or the line being typed.
THEOREM EventsNamed == NavSpec => []EventnoInRange
BY NavAlways, KnownInRange, PTL

\* In the emacs map, as long as nothing is undone, the line being typed is on
\* the screen or in el_history.buf, with the text the user left it with, or as
\* much of that as el_history.buf was given.
THEOREM DraftsKept == NavSpec => []DraftKept
BY NavAlways, PTL

-------------------------------------------------------------------------------
(* The searches.  A search may leave the cursor where it is not on the line, *)
(* so the lemmas about it speak of lines of any cursor.                      *)

RoughLines ==
  {s \in [text : Seq(Char), cursor : Int, eventno : Nat] :
     vi \/ OldEvents # <<>> => s.eventno <= Oldest}

\* The line that is typed, if l is on the screen and b in el_history.buf.
Own(l, b) == IF l.eventno = 0 THEN l.text ELSE b

Parked(l, b) == l.eventno = 0 => b \in Back(l.text)

\* The event on line l is one there is, and is shown as hist_get fetches it.
Entered(l) == HasEvent(l.eventno) /\ (l.eventno # 0 => l.text = Trimmed(events[l.eventno]))

LEMMA RoughParts ==
  ASSUME NEW l \in RoughLines
  PROVE  /\ l.text \in Seq(Char) /\ l.eventno \in Nat /\ l.cursor \in Int
         /\ Len(l.text) \in Nat
         /\ vi \/ OldEvents # <<>> => l.eventno <= Oldest
BY LenProperties DEF RoughLines

LEMMA KnownIsRough ==
  ASSUME NEW l \in KnownLines
  PROVE  l \in RoughLines /\ l \in Snap /\ l.cursor \in Nat
BY DEF KnownLines, RoughLines, Snap

\* Wherever the cursor is put, the line is the same.
LEMMA CursorPut ==
  ASSUME NEW l \in RoughLines, NEW k \in Int
  PROVE  LET m == [l EXCEPT !.cursor = k]
         IN /\ m \in RoughLines /\ m.text = l.text /\ m.eventno = l.eventno /\ m.cursor = k
            /\ k \in Nat => m \in KnownLines
            /\ \A b : Own(m, b) = Own(l, b) /\ (Parked(m, b) <=> Parked(l, b))
            /\ Entered(m) <=> Entered(l)
<1> DEFINE m == [l EXCEPT !.cursor = k]
<1>1. m \in RoughLines /\ m.text = l.text /\ m.eventno = l.eventno /\ m.cursor = k
  BY DEF RoughLines
<1>2. k \in Nat => m \in KnownLines
  BY DEF RoughLines, KnownLines, Snap
<1> HIDE DEF m
<1>3. /\ \A b : Own(m, b) = Own(l, b) /\ (Parked(m, b) <=> Parked(l, b))
      /\ Entered(m) <=> Entered(l)
  BY <1>1 DEF Own, Parked, Entered
<1> QED
  BY <1>1, <1>2, <1>3 DEF m

\* hist_get where there is a history: an event there is, as it was entered, or
\* the saved line.
LEMMA HistGetLeads ==
  ASSUME HistoryInv, events # <<>>, NEW l \in RoughLines, NEW e \in Nat, NEW b \in Seq(Char)
  PROVE  LET m == HistGet(l, e, b)
         IN /\ m \in RoughLines
            /\ Own(m, b) = b /\ Parked(m, b)
            /\ m.eventno = 0 <=> e = 0
            /\ HasEvent(e) => m.eventno = e /\ Entered(m)
<1> DEFINE m == HistGet(l, e, b)
<1>1. Oldest = Len(events) /\ Len(events) \in Nat \ {0}
  BY OldestIsNumber
<1>2. CASE e = 0
  <2>1. m = Shown(b, 0)
    BY <1>2 DEF HistGet
  <2>2. Len(b) \in Nat
    BY LenProperties
  <2>3. m.text = b /\ m.eventno = 0 /\ m \in RoughLines
    BY <1>1, <2>1, <2>2 DEF Shown, RoughLines
  <2> HIDE DEF m
  <2>4. Own(m, b) = b /\ Parked(m, b) /\ m.eventno = e /\ Entered(m)
    BY <1>2, <2>3 DEF Own, Parked, Entered, HasEvent, Back
  <2> QED
    BY <1>2, <2>3, <2>4 DEF m
<1>3. CASE e # 0 /\ HasEvent(e)
  <2>1. e \in 1..Len(events)
    BY <1>1, <1>3 DEF HasEvent
  <2>2. events[e] \in Seq(Char)
    BY <2>1, ElementOfSeq DEF HistoryInv
  <2>3. Trimmed(events[e]) \in Seq(Char)
    BY <2>2, TrimmedIsText
  <2>4. m = Shown(Trimmed(events[e]), e)
    BY <1>3 DEF HistGet
  <2>5. Len(Trimmed(events[e])) \in Nat
    BY <2>3, LenProperties
  <2>6. m.text = Trimmed(events[e]) /\ m.eventno = e /\ m \in RoughLines
    BY <1>1, <2>1, <2>3, <2>4, <2>5 DEF Shown, RoughLines
  <2> HIDE DEF m
  <2>7. Own(m, b) = b /\ Parked(m, b) /\ Entered(m)
    BY <1>3, <2>6 DEF Own, Parked, Entered
  <2> QED
    BY <1>3, <2>6, <2>7 DEF m
<1>4. CASE ~HasEvent(e)
  <2>1. e # 0 /\ Stopped(e) = Len(events)
    BY <1>4 DEF HasEvent, Stopped
  <2>2. m = [l EXCEPT !.eventno = Len(events)]
    BY <1>4, <2>1 DEF HistGet
  <2>3. m \in RoughLines /\ m.eventno = Len(events)
    BY <1>1, <2>2 DEF RoughLines
  <2> HIDE DEF m
  <2>4. Own(m, b) = b /\ Parked(m, b) /\ m.eventno # 0
    BY <1>1, <2>3 DEF Own, Parked
  <2> QED
    BY <1>4, <2>1, <2>3, <2>4 DEF m
<1> QED
  BY <1>2, <1>3, <1>4

\* A call that puts back the event and the cursor keeps the typed line, if that
\* was in el_history.buf or the event is the typed line.
LEMMA PutBackLeads ==
  ASSUME HistoryInv, events # <<>>, NEW f, f.line \in KnownLines,
         NEW l \in RoughLines, NEW b \in Seq(Char), f.line.eventno # 0 => Parked(l, b)
  PROVE  LET m == PutBack(f, l, b)
         IN /\ m \in KnownLines
            /\ Own(m, b) \in Back(Own(l, b))
            /\ Parked(l, b) => Parked(m, b)
            /\ Entered(l) /\ Entered(f.line) => Entered(m)
<1> DEFINE e == f.line.eventno
           g == IF l.eventno = e THEN l ELSE HistGet(l, e, b)
<1>1. e \in Nat /\ f.line.cursor \in Nat
  BY KnownIsRough, RoughParts
<1>2. l.eventno \in Nat
  BY RoughParts
<1>3. /\ HistGet(l, e, b) \in RoughLines
      /\ Own(HistGet(l, e, b), b) = b /\ Parked(HistGet(l, e, b), b)
      /\ HasEvent(e) => Entered(HistGet(l, e, b))
  <2> HIDE DEF e
  <2> QED
    BY <1>1, HistGetLeads
<1>4. b \in Back(Own(l, b)) \/ l.eventno = e
  BY <1>2 DEF Own, Parked, Back
<1>5. /\ g \in RoughLines /\ Own(g, b) \in Back(Own(l, b)) /\ (Parked(l, b) => Parked(g, b))
      /\ Entered(l) /\ Entered(f.line) => Entered(g)
  <2>1. Entered(f.line) => HasEvent(e)
    BY DEF Entered
  <2> HIDE DEF e
  <2> QED
    BY <1>3, <1>4, <2>1 DEF Back
<1>6. PutBack(f, l, b) = [g EXCEPT !.cursor = f.line.cursor]
  BY DEF PutBack
<1> HIDE DEF g
<1> QED
  BY <1>1, <1>5, <1>6, CursorPut

\* What it puts back is the line the call began with, if that was the typed
\* line, or an event as it was entered.
LEMMA PutBackReturns ==
  ASSUME HistoryInv, events # <<>>, NEW f, f.line \in KnownLines,
         NEW l \in KnownLines, NEW b \in Seq(Char),
         Entered(l), Entered(f.line),
         f.line.eventno = 0 => Own(l, b) \in Back(f.line.text)
  PROVE  PutBack(f, l, b) \in {f.line, Cut(f.line)}
<1> DEFINE e == f.line.eventno
           g == IF l.eventno = e THEN l ELSE HistGet(l, e, b)
<1>1. e \in Nat /\ f.line \in Snap /\ l \in Snap /\ l.eventno \in Nat
  BY KnownIsRough, RoughParts
<1>2. HasEvent(e) /\ (e # 0 => f.line.text = Trimmed(events[e]))
  BY DEF Entered
<1>3. CASE l.eventno = e
  <2>1. l.text = f.line.text \/ (e = 0 /\ l.text = Copied(f.line.text))
    BY <1>2, <1>3 DEF Entered, Own, Back
  <2>2. PutBack(f, l, b) = [l EXCEPT !.cursor = f.line.cursor]
    BY <1>3 DEF PutBack
  <2>3. [l EXCEPT !.cursor = f.line.cursor] = [f.line EXCEPT !.text = l.text]
    BY <1>1, <1>3 DEF Snap
  <2>4. [f.line EXCEPT !.text = f.line.text] = f.line
    BY <1>1 DEF Snap
  <2> QED
    BY <2>1, <2>2, <2>3, <2>4 DEF Cut
<1>4. CASE l.eventno # e /\ e = 0
  <2>1. b \in Back(f.line.text)
    BY <1>4 DEF Own
  <2>2. PutBack(f, l, b) = [Shown(b, 0) EXCEPT !.cursor = f.line.cursor]
    BY <1>4 DEF PutBack, HistGet
  <2>3. PutBack(f, l, b) = [f.line EXCEPT !.text = b]
    BY <1>1, <1>4, <2>2 DEF Snap, Shown
  <2>4. [f.line EXCEPT !.text = f.line.text] = f.line
    BY <1>1 DEF Snap
  <2> QED
    BY <1>4, <2>1, <2>3, <2>4 DEF Cut, Back
<1>5. CASE l.eventno # e /\ e # 0
  <2>1. PutBack(f, l, b) = [Shown(Trimmed(events[e]), e) EXCEPT !.cursor = f.line.cursor]
    BY <1>2, <1>5 DEF PutBack, HistGet
  <2> QED
    BY <1>1, <1>2, <1>5, <2>1 DEF Snap, Shown
<1> QED
  BY <1>3, <1>4, <1>5

\* What a search from line l finds, and how it leaves hbuf.

LEMMA NearestIsPlace ==
  ASSUME NEW dir, NEW n \in Nat, NEW places, places \subseteq 0..n, places # {}
  PROVE  Nearest(dir, places) \in places
<1>1. places \subseteq Nat
  OBVIOUS
<1>2. CASE dir = "prev"
  <2>1. \E i \in places : \A j \in places : i >= j
    BY GreatestBelow
  <2> QED
    BY <1>2, <2>1 DEF Nearest
<1>3. CASE dir # "prev"
  <2>1. \E i \in places : \A j \in places : i <= j
    BY <1>1, LeastNumber
  <2> QED
    BY <1>3, <2>1 DEF Nearest
<1> QED
  BY <1>2, <1>3

LEMMA InLineLeads ==
  ASSUME NEW dir, NEW l \in RoughLines, NEW typed,
         l \in KnownLines \/ Places(dir, l, typed) # {}
  PROVE  LET m == InLine(dir, l, typed)
         IN /\ m \in KnownLines
            /\ \A b : Own(m, b) = Own(l, b) /\ (Parked(m, b) <=> Parked(l, b))
            /\ Entered(m) <=> Entered(l)
<1> DEFINE places == Places(dir, l, typed)
           k == Nearest(dir, places)
<1>1. CASE places = {}
  BY <1>1 DEF InLine
<1>2. CASE places # {}
  <2>1. Len(l.text) \in Nat
    BY RoughParts
  <2>2. places \subseteq 0..Len(l.text)
    BY <2>1 DEF Places
  <2>3. k \in Nat
    <3> DEFINE n == Len(l.text)
    <3> HIDE DEF places, n
    <3>1. n \in Nat /\ places \subseteq 0..n
      BY <2>1, <2>2 DEF n
    <3>2. k \in places
      BY <1>2, <3>1, NearestIsPlace
    <3>3. k \in 0..n
      BY <3>1, <3>2
    <3> QED
      BY <3>1, <3>3
  <2>4. InLine(dir, l, typed) = [l EXCEPT !.cursor = k]
    BY <1>2 DEF InLine
  <2> HIDE DEF k
  <2> QED
    BY <2>3, <2>4, CursorPut
<1> QED
  BY <1>1, <1>2

LEMMA EdgeLeads ==
  ASSUME NEW dir, NEW l \in RoughLines
  PROVE  LET m == Edge(dir, l)
         IN /\ m \in KnownLines
            /\ \A b : Own(m, b) = Own(l, b) /\ (Parked(m, b) <=> Parked(l, b))
            /\ Entered(m) <=> Entered(l)
<1> DEFINE k == IF dir = "prev" THEN Len(l.text) ELSE 0
<1>1. k \in Nat
  BY RoughParts
<1>2. Edge(dir, l) = [l EXCEPT !.cursor = k]
  BY DEF Edge
<1> HIDE DEF k
<1> QED
  BY <1>1, <1>2, CursorPut

\* The line is saved if it is left for an older event.
LEMMA SavedByLeads ==
  ASSUME HistoryInv, NEW dir, NEW l \in RoughLines, NEW pat
  PROVE  LET b == SavedBy(dir, l, pat)
         IN /\ b \in Seq(Char)
            /\ Own(l, b) = Own(l, hbuf)
            /\ Parked(l, hbuf) => Parked(l, b)
            /\ dir = "prev" /\ Places(dir, l, Typed(pat)) = {} => Parked(l, b)
<1>1. hbuf \in Seq(Char) /\ l.text \in Seq(Char) /\ Copied(l.text) \in Seq(Char)
  BY RoughParts, CopiedIsText DEF HistoryInv
<1> QED
  BY <1>1 DEF SavedBy, SaveLine, Own, Parked, Back

\* A search keeps the typed line on the screen or in el_history.buf.
LEMMA OutcomeLeads ==
  ASSUME HistoryInv, events # <<>>, NEW dir \in {"prev", "next"}, NEW l \in RoughLines, NEW pat,
         Last(search).line \in KnownLines,
         Last(search).line.eventno # 0 => Parked(l, hbuf)
  PROVE  LET b == SavedBy(dir, l, pat)
             s == Outcome(dir, l, pat, b)
         IN /\ b \in Seq(Char)
            /\ s.line \in KnownLines /\ s.pat = pat /\ s.failing \in BOOLEAN
            /\ s = State(s.line, pat, s.failing)
            /\ Own(s.line, b) \in Back(Own(l, hbuf))
            /\ Parked(l, hbuf) => Parked(s.line, b)
            /\ Entered(l) /\ Entered(Last(search).line) => Entered(s.line)
<1> DEFINE b == SavedBy(dir, l, pat)
           typed == Typed(pat)
           hit == IF dir = "prev" THEN OlderHit(l, typed) ELSE NewerHit(l, typed)
           g == HistGet(l, hit, b)
           back == PutBack(Last(search), l, b)
           s == Outcome(dir, l, pat, b)
           Leads(m) == /\ m \in KnownLines
                       /\ Own(m, b) \in Back(Own(l, b))
                       /\ Parked(l, b) => Parked(m, b)
                       /\ Entered(l) /\ Entered(Last(search).line) => Entered(m)
<1>1. /\ b \in Seq(Char) /\ Own(l, b) = Own(l, hbuf)
      /\ Parked(l, hbuf) => Parked(l, b)
      /\ dir = "prev" /\ Places(dir, l, typed) = {} => Parked(l, b)
  BY SavedByLeads
<1> HIDE DEF b
<1>2. CASE Places(dir, l, typed) # {}
  <2> DEFINE m == InLine(dir, l, typed)
  <2>1. s = State(m, pat, FALSE)
    BY <1>2 DEF Outcome
  <2>2. Leads(m)
    BY <1>2, InLineLeads DEF Back
  <2> HIDE DEF m, s, Leads
  <2>3. s.line = m /\ s.pat = pat /\ s.failing = FALSE
    BY <2>1 DEF State
  <2>4. Leads(s.line) /\ s.pat = pat /\ s.failing \in BOOLEAN /\ s = State(s.line, pat, s.failing)
    BY <2>1, <2>2, <2>3
  <2> QED
    BY <1>1, <2>4 DEF s, b, Leads
<1>3. CASE Places(dir, l, typed) = {} /\ hit = NotFound
  <2>1. s = State(back, pat, TRUE)
    BY <1>3 DEF Outcome
  <2>2. Leads(back)
    BY <1>1, PutBackLeads
  <2> HIDE DEF back, s, Leads
  <2>3. s.line = back /\ s.pat = pat /\ s.failing = TRUE
    BY <2>1 DEF State
  <2>4. Leads(s.line) /\ s.pat = pat /\ s.failing \in BOOLEAN /\ s = State(s.line, pat, s.failing)
    BY <2>1, <2>2, <2>3
  <2> QED
    BY <1>1, <2>4 DEF s, b, Leads
<1>4. CASE Places(dir, l, typed) = {} /\ hit # NotFound
  <2> DEFINE m == InLine(dir, Edge(dir, g), typed)
  <2>1. s = State(m, pat, FALSE)
    BY <1>4 DEF Outcome
  <2>2. hit \in Nat /\ HasEvent(hit) /\ Parked(l, b)
    <3>1. l.eventno \in Nat /\ Len(events) \in Nat
      BY RoughParts, OldestIsNumber
    <3>2. CASE dir = "prev"
      <4>1. OlderHit(l, typed) \in 1..Len(events)
        BY <1>4, <3>1, <3>2, OlderHitIsEvent
      <4> QED
        BY <1>1, <1>4, <3>1, <3>2, <4>1 DEF HasEvent
    <3>3. CASE dir # "prev"
      <4>1. l.eventno # 0 /\ NewerHit(l, typed) \in 0..Len(events)
        BY <1>4, <3>1, <3>3, NewerHitIsEvent
      <4> QED
        BY <3>1, <3>3, <4>1 DEF HasEvent, Parked
    <3> QED
      BY <3>2, <3>3
  <2> HIDE DEF hit
  <2>3. g \in RoughLines /\ Own(g, b) = b /\ Parked(g, b) /\ Entered(g)
    BY <1>1, <2>2, HistGetLeads
  <2> HIDE DEF g
  <2> DEFINE edge == Edge(dir, g)
  <2>4. edge \in KnownLines /\ Own(edge, b) = b /\ Parked(edge, b) /\ Entered(edge)
    BY <2>3, EdgeLeads
  <2> HIDE DEF edge
  <2>5. edge \in RoughLines
    BY <2>4, KnownIsRough
  <2>6. m \in KnownLines /\ Own(m, b) = b /\ Parked(m, b) /\ Entered(m)
    BY <2>4, <2>5, InLineLeads DEF edge
  <2>7. b \in Back(Own(l, b))
    BY <2>2 DEF Own, Parked, Back
  <2>8. Leads(m)
    BY <2>6, <2>7
  <2> HIDE DEF m, s, Leads
  <2>9. s.line = m /\ s.pat = pat /\ s.failing = FALSE
    BY <2>1 DEF State
  <2>10. Leads(s.line) /\ s.pat = pat /\ s.failing \in BOOLEAN /\ s = State(s.line, pat, s.failing)
    BY <2>1, <2>8, <2>9
  <2> QED
    BY <1>1, <2>10 DEF s, b, Leads
<1> QED
  BY <1>2, <1>3, <1>4

\* Where a key that asks for more of the same has the search start: the same
\* line, unless a line nobody saved is written over.
LEMMA OnwardLeads ==
  ASSUME HistoryInv, events # <<>>, line \in KnownLines, NEW dir \in {"prev", "next"}, NEW again
  PROVE  LET l == Onward(dir, again)
         IN /\ l \in RoughLines
            /\ \/ Own(l, hbuf) \in Back(Own(line, hbuf))
               \/ /\ Repeated(dir, again) /\ failing
                  /\ line.eventno = 0 /\ hbuf \notin Back(line.text)
            /\ Parked(line, hbuf) => Parked(l, hbuf)
            /\ Entered(line) => Entered(l)
<1> DEFINE e == IF dir = "prev" THEN 0 ELSE Len(events)
           g == HistGet(line, e, hbuf)
           k == IF dir = "prev" THEN line.cursor - 1 ELSE line.cursor + 1
<1>1. line \in RoughLines /\ line.cursor \in Nat /\ hbuf \in Seq(Char)
  BY KnownIsRough DEF HistoryInv
<1>2. CASE ~Repeated(dir, again)
  BY <1>1, <1>2 DEF Onward, Back
<1>3. CASE Repeated(dir, again) /\ failing
  <2>1. e \in Nat /\ HasEvent(e)
    <3>1. Len(events) \in Nat \ {0}
      BY OldestIsNumber
    <3> QED
      BY <3>1 DEF HasEvent
  <2>2. Onward(dir, again) = Edge(dir, g)
    BY <1>3 DEF Onward
  <2> HIDE DEF e
  <2>3. g \in RoughLines /\ Own(g, hbuf) = hbuf /\ Parked(g, hbuf) /\ Entered(g)
    BY <1>1, <2>1, HistGetLeads
  <2> HIDE DEF g
  <2> DEFINE l == Edge(dir, g)
  <2>4. l \in KnownLines /\ Own(l, hbuf) = hbuf /\ Parked(l, hbuf) /\ Entered(l)
    BY <2>3, EdgeLeads
  <2> HIDE DEF l
  <2>5. l \in RoughLines
    BY <2>4, KnownIsRough
  <2> QED
    BY <1>3, <2>2, <2>4, <2>5 DEF l, Own, Back
<1>4. CASE Repeated(dir, again) /\ ~failing
  <2>1. Onward(dir, again) = [line EXCEPT !.cursor = k]
    BY <1>4 DEF Onward
  <2>2. k \in Int
    BY <1>1
  <2> HIDE DEF k
  <2> QED
    BY <1>1, <2>1, <2>2, CursorPut DEF Back
<1> QED
  BY <1>2, <1>3, <1>4

-------------------------------------------------------------------------------
(* The calls of ce_inc_search within each other.                           *)

\* The characters of a pattern.
Sign == Char \cup {".", "*"}

Dirs == {"prev", "next"}

Calls ==
  [dir : Dirs, newdir : Dirs, line : KnownLines, pat : Seq(Sign), failed : BOOLEAN]

\* While calls run: an event is only left for the line that is typed, or put
\* back by a call, when el_history.buf has that line; what was an event as it
\* was entered when the search began is one wherever the search goes; and the
\* line that is typed is the one that the search began with.
UnderWay(calls, l, b, p, gone) ==
  /\ events # <<>> /\ p \in Seq(Sign) /\ p # <<>>
  /\ \A i \in 1..Len(calls) : i > 1 => calls[i].pat # <<>>
  /\ (\E i \in 1..Len(calls) : calls[i].line.eventno # 0) => Parked(l, b)
  /\ Entered(calls[1].line) =>
       Entered(l) /\ \A i \in 1..Len(calls) : Entered(calls[i].line)
  /\ calls[1].line.eventno = 0 /\ ~gone => Own(l, b) \in Back(calls[1].line.text)

SearchInv ==
  /\ Shows
  /\ lost \in BOOLEAN /\ failing \in BOOLEAN
  /\ search \in Seq(Calls)
  /\ Going => UnderWay(search, line, hbuf, patbuf, lost)

\* What a step of a search does for the line that is typed.
OwnKept == (lost => lost') /\ (lost' \/ Own(line', hbuf') \in Back(Own(line, hbuf)))

LEMMA UnderWayNext ==
  ASSUME events' = events, vi' = vi, Shows', lost' \in BOOLEAN, failing' \in BOOLEAN,
         search' \in Seq(Calls),
         search' # <<>> => UnderWay(search', line', hbuf', patbuf', lost')
  PROVE  SearchInv'
<1>1. Calls' = Calls
  BY DEF Calls, KnownLines, Oldest
<1>2. UnderWay(search, line, hbuf, patbuf, lost)' <=> UnderWay(search', line', hbuf', patbuf', lost')
  BY DEF UnderWay, Parked, Entered, HasEvent, Own, Trimmed
<1> QED
  BY <1>1, <1>2 DEF SearchInv, Going

LEMMA DraftFollows ==
  ASSUME OwnKept, vi' = vi, draft' = draft, DraftFound, Own(line, hbuf) \in Seq(Char)
  PROVE  DraftFound'
<1>1. ASSUME Own(line, hbuf) \in Back(draft) PROVE Own(line', hbuf') \in Back(draft) \/ lost'
  BY <1>1, BackTwice DEF OwnKept
<1> QED
  BY <1>1 DEF OwnKept, DraftFound, DraftKept, Own, Commands

LEMMA RecordShows ==
  ASSUME Shows, SameEvents, NEW cmd, NEW c, NEW new \in KnownLines, Turn(cmd, c, new)
  PROVE  Shows' /\ line' = new
<1>1. AnyText(KnownLines) /\ HistoryInv' /\ KnownLines' = KnownLines
  BY KnownLinesClosed, KnownLinesStay DEF Shows
<1>2. undo' \in Seq(KnownLines) /\ redo' \in Seq(KnownLines) /\ cur' \in KnownLines
  BY <1>1, RecordHolds DEF Shows, Turn
<1> QED
  BY <1>1, <1>2 DEF Shows, StacksHold, Turn

\* The loop that goes on has the line that was left it.
LEMMA GoOnShows ==
  ASSUME Shows, hbuf' \in Seq(Char), NEW calls, NEW s, s.line \in KnownLines, GoOn(calls, s)
  PROVE  /\ Shows'
         /\ search' = calls /\ line' = s.line /\ patbuf' = s.pat /\ failing' = s.failing
         /\ events' = events /\ vi' = vi /\ draft' = draft
<1>1. /\ search' = calls /\ patbuf' = s.pat /\ failing' = s.failing
      /\ events' = events /\ vi' = vi /\ draft' = draft /\ SameEvents
  BY DEF GoOn, Aside, SameEvents
<1>2. CASE calls = <<>>
  <2>1. Turn("inc-search", "key", s.line)
    BY <1>2 DEF GoOn
  <2> QED
    BY <1>1, <2>1, RecordShows
<1>3. CASE calls # <<>>
  <2>1. line' = s.line /\ UNCHANGED undoVars
    BY <1>3 DEF GoOn
  <2>2. HistoryInv' /\ KnownLines' = KnownLines
    BY <1>1, KnownLinesStay DEF Shows
  <2> QED
    BY <1>1, <2>1, <2>2 DEF Shows, StacksHold, undoVars
<1> QED
  BY <1>2, <1>3

\* The calls there are.
LEMMA CallParts ==
  ASSUME SearchInv, Going
  PROVE  /\ Len(search) \in Nat \ {0} /\ Last(search) = search[Len(search)]
         /\ \A i \in 1..Len(search) : search[i] \in Calls
         /\ UnderWay(search, line, hbuf, patbuf, lost)
         /\ HistoryInv /\ line \in KnownLines /\ hbuf \in Seq(Char) /\ events # <<>>
<1>1. search \in Seq(Calls) /\ search # <<>> /\ UnderWay(search, line, hbuf, patbuf, lost)
  BY DEF SearchInv, Going
<1>2. Len(search) \in Nat \ {0} /\ \A i \in 1..Len(search) : search[i] \in Calls
  BY <1>1, EmptySeq, ElementOfSeq
<1> QED
  BY <1>1, <1>2 DEF Last, SearchInv, Shows, HistoryInv, UnderWay

LEMMA OwnIsText ==
  ASSUME SearchInv
  PROVE  Own(line, hbuf) \in Seq(Char)
<1>1. line.text \in Seq(Char) /\ hbuf \in Seq(Char)
  BY KnownIsRough, RoughParts DEF SearchInv, Shows, HistoryInv
<1> QED
  BY <1>1 DEF Own

\* The line that the outermost call began with, whole or as it was saved.
Returned == {search[1].line, Cut(search[1].line)}

\* One call more, and the direction of the one before.
LEMMA OneCallMore ==
  ASSUME SearchInv, Going, NEW dir \in Dirs, NEW f \in Calls
  PROVE  LET calls == Append([search EXCEPT ![Len(search)].newdir = dir], f)
         IN /\ calls \in Seq(Calls) /\ Len(calls) = Len(search) + 1
            /\ calls[Len(search) + 1] = f
            /\ \A i \in 1..Len(search) :
                 calls[i].line = search[i].line /\ calls[i].pat = search[i].pat
<1> DEFINE n == Len(search)
           g == [search[n] EXCEPT !.newdir = dir]
           old == [search EXCEPT ![n] = g]
           calls == Append(old, f)
<1>1. n \in Nat \ {0} /\ search \in Seq(Calls) /\ \A i \in 1..n : search[i] \in Calls
  BY CallParts DEF SearchInv
<1>2. n \in 1..n
  BY <1>1
<1>3. g \in Calls /\ g.line = search[n].line /\ g.pat = search[n].pat
  BY <1>1, <1>2 DEF Calls
<1> HIDE DEF g
<1>4. old \in Seq(Calls) /\ Len(old) = n /\ \A i \in 1..n : old[i] = IF i = n THEN g ELSE search[i]
  BY <1>1, <1>2, <1>3, ExceptSeq
<1>5. \A i \in 1..n : old[i].line = search[i].line /\ old[i].pat = search[i].pat
  BY <1>3, <1>4
<1> HIDE DEF old
<1>6. /\ calls \in Seq(Calls) /\ Len(calls) = n + 1 /\ calls[n + 1] = f
      /\ \A i \in 1..n : calls[i] = old[i]
  BY <1>4, AppendProperties
<1>7. calls = Append([search EXCEPT ![Len(search)].newdir = dir], f)
  BY DEF old, g
<1> HIDE DEF calls
<1> QED
  BY <1>5, <1>6, <1>7

\* A key that does not end the call.
LEMMA ContinueKeeps ==
  ASSUME SearchInv, Going, NEW dir \in Dirs, NEW again, NEW pat \in Seq(Sign), pat # <<>>,
         Continue(dir, again, pat)
  PROVE  /\ SearchInv' /\ (DraftFound => DraftFound')
         /\ search' # <<>>
<1> DEFINE from == Onward(dir, again)
           none == Typed(pat) = <<>>
           b == IF none THEN hbuf ELSE SavedBy(dir, from, pat)
           s == IF none THEN State(line, pat, failing) ELSE Outcome(dir, from, pat, b)
           f == Frame(dir, s.line, s.pat, s.failing)
           calls == Append([search EXCEPT ![Len(search)].newdir = dir], f)
           n == Len(search)
<1>1. /\ n \in Nat \ {0} /\ Last(search) = search[n]
      /\ \A i \in 1..n : search[i] \in Calls
      /\ UnderWay(search, line, hbuf, patbuf, lost)
      /\ HistoryInv /\ line \in KnownLines /\ hbuf \in Seq(Char) /\ events # <<>>
  BY CallParts
<1>2. /\ hbuf' = b /\ GoOn(calls, s)
      /\ lost' = (lost \/ (~none /\ Repeated(dir, again) /\ failing
                             /\ line.eventno = 0 /\ hbuf \notin Back(line.text)))
  BY DEF Continue
<1>3. /\ b \in Seq(Char) /\ s.line \in KnownLines /\ s.pat = pat /\ s.failing \in BOOLEAN
      /\ lost' \/ Own(s.line, b) \in Back(Own(line, hbuf))
      /\ Parked(line, hbuf) => Parked(s.line, b)
      /\ Entered(line) /\ Entered(search[n].line) => Entered(s.line)
  <2>1. CASE none
    <3>1. b = hbuf /\ s = State(line, pat, failing)
      BY <2>1
    <3> HIDE DEF b, s
    <3>2. s.line = line /\ s.pat = pat /\ s.failing = failing
      BY <3>1 DEF State
    <3> QED
      BY <1>1, <3>1, <3>2 DEF SearchInv, Back
  <2>2. CASE ~none
    <3> HIDE DEF none
    <3>1. /\ from \in RoughLines
          /\ \/ Own(from, hbuf) \in Back(Own(line, hbuf))
             \/ /\ Repeated(dir, again) /\ failing
                /\ line.eventno = 0 /\ hbuf \notin Back(line.text)
          /\ Parked(line, hbuf) => Parked(from, hbuf)
          /\ Entered(line) => Entered(from)
      BY <1>1, OnwardLeads DEF Dirs
    <3>2. search[n].line \in KnownLines /\ (search[n].line.eventno # 0 => Parked(from, hbuf))
      <4>1. n \in 1..n /\ search[n] \in Calls
        BY <1>1
      <4>2. search[n].line.eventno # 0 => Parked(line, hbuf)
        BY <1>1, <4>1 DEF UnderWay
      <4> QED
        BY <3>1, <4>1, <4>2 DEF Calls
    <3> DEFINE c == SavedBy(dir, from, pat)
               o == Outcome(dir, from, pat, c)
    <3>3. b = c /\ s = o
      BY <2>2
    <3> HIDE DEF from
    <3>4. /\ c \in Seq(Char)
          /\ o.line \in KnownLines /\ o.pat = pat /\ o.failing \in BOOLEAN
          /\ Own(o.line, c) \in Back(Own(from, hbuf))
          /\ Parked(from, hbuf) => Parked(o.line, c)
          /\ Entered(from) /\ Entered(Last(search).line) => Entered(o.line)
      BY <1>1, <3>1, <3>2, OutcomeLeads DEF Dirs
    <3> HIDE DEF b, s, c, o
    <3>5. lost' \/ Own(o.line, c) \in Back(Own(line, hbuf))
      <4>1. Own(from, hbuf) \in Seq(Char)
        BY <1>1, <3>1, RoughParts DEF Own
      <4> QED
        BY <1>2, <2>2, <3>1, <3>4, <4>1, BackTwice
    <3> QED
      BY <1>1, <2>2, <3>1, <3>3, <3>4, <3>5
  <2> QED
    BY <2>1, <2>2
<1> HIDE DEF b, s, from
<1>4. f \in Calls /\ f.line = s.line /\ f.pat = pat
  BY <1>3 DEF Frame, Calls
<1> HIDE DEF f
<1>5. /\ calls \in Seq(Calls) /\ Len(calls) = n + 1 /\ calls[n + 1] = f
      /\ \A i \in 1..n : calls[i].line = search[i].line /\ calls[i].pat = search[i].pat
  BY <1>4, OneCallMore
<1> HIDE DEF calls
<1>6. /\ Shows' /\ search' = calls /\ line' = s.line /\ patbuf' = pat /\ failing' = s.failing
      /\ events' = events /\ vi' = vi /\ draft' = draft /\ hbuf' = b
  BY <1>2, <1>3, GoOnShows DEF SearchInv
<1>7. lost' \in BOOLEAN /\ (lost => lost')
  BY <1>2
<1>8. UnderWay(calls, s.line, b, pat, lost')
  <2>1. \A i \in 1..Len(calls) : i \in 1..n \/ i = n + 1
    BY <1>1, <1>5
  <2>2. 1 \in 1..n /\ calls[1].line = search[1].line /\ n \in 1..n
    BY <1>1, <1>5
  <2>3. \A i \in 1..Len(calls) : i > 1 => calls[i].pat # <<>>
    BY <1>1, <1>4, <1>5, <2>1 DEF UnderWay
  <2>4. (\E i \in 1..Len(calls) : calls[i].line.eventno # 0) => Parked(s.line, b)
    <3>1. SUFFICES ASSUME NEW i \in 1..Len(calls), calls[i].line.eventno # 0
                   PROVE  Parked(s.line, b)
      OBVIOUS
    <3>2. CASE i \in 1..n
      BY <1>1, <1>3, <1>5, <3>1, <3>2 DEF UnderWay
    <3>3. CASE i = n + 1
      BY <1>4, <1>5, <3>1, <3>3 DEF Parked
    <3> QED
      BY <2>1, <3>2, <3>3
  <2>5. Entered(calls[1].line) =>
          Entered(s.line) /\ \A i \in 1..Len(calls) : Entered(calls[i].line)
    <3>1. SUFFICES ASSUME Entered(search[1].line)
                   PROVE  Entered(s.line) /\ \A i \in 1..Len(calls) : Entered(calls[i].line)
      BY <2>2
    <3>2. Entered(line) /\ \A i \in 1..n : Entered(search[i].line)
      BY <1>1, <3>1 DEF UnderWay
    <3>3. Entered(s.line)
      BY <1>3, <2>2, <3>2
    <3>4. ASSUME NEW i \in 1..Len(calls) PROVE Entered(calls[i].line)
      BY <1>4, <1>5, <2>1, <3>2, <3>3
    <3> QED
      BY <3>3, <3>4
  <2>6. calls[1].line.eventno = 0 /\ ~lost' => Own(s.line, b) \in Back(calls[1].line.text)
    <3>1. Own(line, hbuf) \in Seq(Char)
      BY <1>1, KnownIsRough, RoughParts DEF Own
    <3> QED
      BY <1>1, <1>3, <1>7, <2>2, <3>1, BackTwice DEF UnderWay
  <2> QED
    BY <1>1, <2>3, <2>4, <2>5, <2>6 DEF UnderWay
<1>9. search' # <<>>
  BY <1>1, <1>5, <1>6, EmptySeq
<1>10. SearchInv'
  BY <1>3, <1>5, <1>6, <1>7, <1>8, UnderWayNext
<1>11. DraftFound => DraftFound'
  BY <1>3, <1>6, <1>7, OwnIsText, DraftFollows DEF OwnKept
<1> QED
  BY <1>9, <1>10, <1>11

-------------------------------------------------------------------------------
(* Returning from the calls.                                               *)

\* What a call may be left with.
Held(s) ==
  /\ s.line \in KnownLines /\ s.pat \in Seq(Sign) /\ s.failing \in BOOLEAN
  /\ Own(s.line, hbuf) \in Back(Own(line, hbuf))
  /\ Parked(line, hbuf) => Parked(s.line, hbuf)
  /\ Entered(search[1].line) => Entered(s.line)

LEMMA WildIsPattern == Wild \in Seq(Sign) /\ Wild # <<>>
<1>1. "." \in Sign /\ "*" \in Sign
  BY Zenon DEF Sign
<1> DEFINE a == "."
           b == "*"
<1>2. a \in Sign /\ b \in Sign /\ Wild = <<a, b>>
  BY <1>1, Zenon DEF Wild
<1> HIDE DEF a, b
<1> QED
  BY <1>2

LEMMA HeldNow ==
  ASSUME SearchInv, Going
  PROVE  Held(State(line, patbuf, failing))
<1>1. UnderWay(search, line, hbuf, patbuf, lost) /\ line \in KnownLines /\ failing \in BOOLEAN
  BY CallParts DEF SearchInv
<1> QED
  BY <1>1 DEF Held, State, UnderWay, Back

LEMMA LeftHolds ==
  ASSUME SearchInv, Going, NEW j \in 1..Len(search), NEW ret, NEW s, Held(s)
  PROVE  LET r == Left(ret, search[j], s)
         IN /\ Held(r)
            /\ r = s \/ (r.line = PutBack(search[j], s.line, hbuf) /\ r.pat = search[j].pat)
<1> DEFINE f == search[j]
           back == PutBack(f, s.line, hbuf)
           r == State(back, f.pat, f.failed)
<1>1. /\ f \in Calls /\ HistoryInv /\ hbuf \in Seq(Char) /\ events # <<>>
      /\ UnderWay(search, line, hbuf, patbuf, lost)
  BY CallParts
<1>2. Left(ret, f, s) = r \/ Left(ret, f, s) = s
  BY DEF Left
<1>3. f.line \in KnownLines /\ f.pat \in Seq(Sign) /\ f.failed \in BOOLEAN
  BY <1>1 DEF Calls
<1>4. /\ f.line.eventno # 0 => Parked(s.line, hbuf)
      /\ Entered(search[1].line) => Entered(f.line)
  BY <1>1 DEF Held, UnderWay
<1>5. s.line \in KnownLines /\ s.line \in RoughLines
  BY KnownIsRough DEF Held
<1>6. /\ back \in KnownLines
      /\ Own(back, hbuf) \in Back(Own(s.line, hbuf))
      /\ Parked(s.line, hbuf) => Parked(back, hbuf)
      /\ Entered(s.line) /\ Entered(f.line) => Entered(back)
  <2> HIDE DEF f
  <2> QED
    BY <1>1, <1>3, <1>4, <1>5, PutBackLeads
<1>7. r.line = back /\ r.pat = f.pat /\ r.failing = f.failed
  BY DEF State
<1> HIDE DEF r, back
<1>8. Held(r)
  <2>1. Own(s.line, hbuf) \in Seq(Char)
    BY <1>1, <1>5, RoughParts DEF Own
  <2>2. Own(back, hbuf) \in Back(Own(line, hbuf))
    BY <1>6, <2>1, BackTwice DEF Held
  <2> QED
    BY <1>3, <1>4, <1>6, <1>7, <2>2 DEF Held
<1> QED
  BY <1>2, <1>7, <1>8 DEF back

\* The outermost call, if it puts back, puts back the line it began with.
LEMMA OutermostReturns ==
  ASSUME SearchInv, Going, ~lost, Entered(search[1].line), NEW s, Held(s)
  PROVE  PutBack(search[1], s.line, hbuf) \in {search[1].line, Cut(search[1].line)}
<1> DEFINE f == search[1]
<1>1. /\ f \in Calls /\ HistoryInv /\ hbuf \in Seq(Char) /\ events # <<>>
      /\ UnderWay(search, line, hbuf, patbuf, lost)
  BY CallParts
<1>2. f.line \in KnownLines /\ s.line \in KnownLines /\ Entered(s.line)
  BY <1>1 DEF Calls, Held
<1>3. f.line.eventno = 0 => Own(s.line, hbuf) \in Back(f.line.text)
  <2>1. Own(line, hbuf) \in Seq(Char)
    BY OwnIsText
  <2> QED
    BY <1>1, <2>1, BackTwice DEF UnderWay, Held
<1> HIDE DEF f
<1>4. Entered(f.line)
  BY DEF f
<1>5. PutBack(f, s.line, hbuf) \in {f.line, Cut(f.line)}
  BY <1>1, <1>2, <1>3, <1>4, PutBackReturns
<1> QED
  BY <1>5 DEF f

LEMMA FirstRoundHolds ==
  ASSUME NEW s, Held(s)
  PROVE  Held(FirstRound(s)) /\ FirstRound(s).pat # <<>>
<1>1. CASE s.pat = <<>>
  <2>1. FirstRound(s).line = s.line /\ FirstRound(s).pat = Wild /\ FirstRound(s).failing = FALSE
    BY <1>1 DEF FirstRound, State
  <2> QED
    BY <2>1, WildIsPattern DEF Held
<1>2. CASE s.pat # <<>>
  BY <1>2 DEF FirstRound
<1> QED
  BY <1>1, <1>2

\* Some of the calls, from the outermost.
LEMMA SomeCalls ==
  ASSUME SearchInv, Going, NEW i \in 1..Len(search)
  PROVE  LET calls == SubSeq(search, 1, i)
         IN /\ calls \in Seq(Calls) /\ Len(calls) = i
            /\ \A k \in 1..i : calls[k] = search[k]
<1>1. Len(search) \in Nat /\ \A k \in 1..Len(search) : search[k] \in Calls
  BY CallParts
<1>2. \A k \in 1..i : search[k] \in Calls
  BY <1>1
<1> QED
  BY <1>2, SubSeqProperties

\* What is returned reaches a call that reads on, with a pattern, or leaves
\* them all; if no pattern is left then it has left the first as it began.
LEMMA ReturnHolds ==
  ASSUME SearchInv, Going, NEW ret
  PROVE  LET now == Left(ret, Last(search), State(line, patbuf, failing))
             back == Return(ret, Front(search), now)
         IN /\ Held(back.state)
            /\ \/ \E i \in 1..Len(search) : back.frames = SubSeq(search, 1, i)
                                            /\ back.state.pat # <<>>
               \/ /\ back.frames = <<>>
                  /\ back.state.pat = <<>> /\ ~lost /\ Entered(search[1].line) =>
                       back.state.line \in Returned
<1> DEFINE n == Len(search)
           start == State(line, patbuf, failing)
           now == Left(ret, search[n], start)
           frames == Front(search)
           back == Return(ret, frames, now)
           takers == Takers(ret, frames, now)
           i == CHOOSE j \in takers : \A k \in takers : j >= k
           up == Left("norm", search[i], now)
           out == Left(ret, search[1], now)
<1>1. n \in Nat \ {0} /\ Last(search) = search[n] /\ UnderWay(search, line, hbuf, patbuf, lost)
      /\ n \in 1..n /\ 1 \in 1..n
  BY CallParts
<1>2. Held(start) /\ start.pat = patbuf /\ patbuf # <<>>
  BY <1>1, HeldNow DEF State, UnderWay
<1>3. /\ Held(now)
      /\ now = start \/ (now.line = PutBack(search[n], start.line, hbuf)
                            /\ now.pat = search[n].pat)
  <2> HIDE DEF start
  <2> QED
    BY <1>1, <1>2, LeftHolds
<1>4. /\ now.pat = <<>> /\ n > 1 => FALSE
      /\ now.pat = <<>> /\ ~lost /\ Entered(search[1].line) /\ n = 1 => now.line \in Returned
  <2> HIDE DEF start, now
  <2>1. now.pat = <<>> => now.line = PutBack(search[n], start.line, hbuf) /\ search[n].pat = <<>>
    BY <1>2, <1>3
  <2> QED
    BY <1>1, <1>2, <2>1, OutermostReturns DEF UnderWay, Returned
<1> HIDE DEF now, start
<1>5. /\ DOMAIN frames = 1..(n - 1) /\ (frames = <<>> <=> n = 1)
      /\ \A k \in 1..(n - 1) : frames[k] = search[k] /\ SubSeq(frames, 1, k) = SubSeq(search, 1, k)
  <2>1. frames = SubSeq(search, 1, n - 1)
    BY DEF Front
  <2>2. CASE n = 1
    <3>1. frames = <<>>
      BY <2>1, <2>2
    <3> QED
      BY <2>2, <3>1
  <2>3. CASE n > 1
    <3>1. n - 1 \in 1..n
      BY <1>1, <2>3
    <3>2. frames \in Seq(Calls) /\ Len(frames) = n - 1 /\ \A k \in 1..(n - 1) : frames[k] = search[k]
      BY <2>1, <3>1, SomeCalls
    <3> HIDE DEF frames
    <3>3. frames # <<>> /\ DOMAIN frames = 1..(n - 1)
      BY <2>3, <3>2, EmptySeq, LenProperties
    <3>4. ASSUME NEW k \in 1..(n - 1)
          PROVE  SubSeq(frames, 1, k) = SubSeq(search, 1, k)
      <4>1. \A x \in 1..k : frames[x] = search[x]
        BY <1>1, <3>2
      <4> QED
        BY <4>1
    <3> QED
      BY <2>3, <3>2, <3>3, <3>4
  <2>4. n = 1 \/ n > 1
    BY <1>1
  <2> HIDE DEF n, frames
  <2> QED
    BY <2>2, <2>3, <2>4
<1> HIDE DEF frames
<1>6. CASE takers # {}
  <2>1. takers \subseteq 0..(n - 1) /\ takers \subseteq 1..(n - 1) /\ n - 1 \in Nat
    BY <1>1, <1>5 DEF Takers
  <2>2. \E j \in takers : \A k \in takers : j >= k
    <3> HIDE DEF takers
    <3> QED
      BY <1>6, <2>1, GreatestBelow
  <2>3. i \in takers
    BY <2>2
  <2>4. i \in 1..(n - 1) /\ i \in 1..n
    BY <1>1, <2>1, <2>3
  <2>5. back.frames = SubSeq(search, 1, i) /\ back.state = FirstRound(up)
    BY <1>5, <1>6, <2>4 DEF Return
  <2> HIDE DEF i, back
  <2>6. Held(up)
    BY <1>3, <2>4, LeftHolds
  <2> HIDE DEF up
  <2>7. Held(back.state) /\ back.state.pat # <<>>
    BY <2>5, <2>6, FirstRoundHolds
  <2> QED
    BY <1>1, <2>4, <2>5, <2>7 DEF back, now, start, frames
<1>7. CASE takers = {}
  <2>1. back.frames = <<>> /\ back.state = IF n = 1 THEN now ELSE out
    <3>1. 1 \in 1..n /\ (n # 1 => frames[1] = search[1])
      BY <1>1, <1>5
    <3> QED
      BY <1>5, <1>7, <3>1 DEF Return
  <2> HIDE DEF back
  <2>2. Held(out) /\ (out = now \/ out.line = PutBack(search[1], now.line, hbuf))
    <3>1. ASSUME NEW j \in 1..Len(search)
          PROVE  LET r == Left(ret, search[j], now)
                 IN Held(r) /\ (r = now \/ r.line = PutBack(search[j], now.line, hbuf))
      BY <1>3, LeftHolds
    <3> QED
      BY <1>1, <3>1
  <2> HIDE DEF out
  <2>3. n # 1 /\ out.pat = <<>> /\ ~lost /\ Entered(search[1].line) => out.line \in Returned
    <3>1. ~lost /\ Entered(search[1].line) => PutBack(search[1], now.line, hbuf) \in Returned
      BY <1>3, OutermostReturns DEF Returned
    <3>2. n # 1 => n > 1
      <4> HIDE DEF n
      <4> QED
        BY <1>1
    <3>3. n # 1 => ~(now.pat = <<>>)
      <4> HIDE DEF n
      <4> QED
        BY <1>4, <3>2
    <3> HIDE DEF Returned, n, now
    <3> QED
      BY <2>2, <3>1, <3>3
  <2>4. /\ Held(back.state) /\ back.frames = <<>>
        /\ back.state.pat = <<>> /\ ~lost /\ Entered(search[1].line) =>
             back.state.line \in Returned
    BY <1>1, <1>3, <1>4, <2>1, <2>2, <2>3
  <2> QED
    BY <1>1, <2>4 DEF back, now, start, frames
<1> QED
  BY <1>6, <1>7

\* A key that erases another, aborts, or ends the search.
LEMMA LeaveKeeps ==
  ASSUME SearchInv, Going, NEW ret, Leave(ret)
  PROVE  /\ SearchInv' /\ (DraftFound => DraftFound')
         /\ search' = <<>> /\ patbuf' = <<>> =>
              line' \in Returned \/ lost \/ ~Entered(search[1].line)
<1> DEFINE now == Left(ret, Last(search), State(line, patbuf, failing))
           back == Return(ret, Front(search), now)
           calls == back.frames
           s == back.state
<1>1. GoOn(calls, s) /\ hbuf' = hbuf /\ lost' = lost
  BY DEF Leave
<1>2. /\ Held(s)
      /\ \/ \E i \in 1..Len(search) : calls = SubSeq(search, 1, i) /\ s.pat # <<>>
         \/ /\ calls = <<>>
            /\ s.pat = <<>> /\ ~lost /\ Entered(search[1].line) => s.line \in Returned
  BY ReturnHolds
<1> HIDE DEF calls, s
<1>3. /\ HistoryInv /\ hbuf \in Seq(Char) /\ events # <<>>
      /\ UnderWay(search, line, hbuf, patbuf, lost) /\ Len(search) \in Nat \ {0}
  BY CallParts
<1>4. /\ Shows' /\ search' = calls /\ line' = s.line /\ patbuf' = s.pat /\ failing' = s.failing
      /\ events' = events /\ vi' = vi /\ draft' = draft
  BY <1>1, <1>2, <1>3, GoOnShows DEF SearchInv, Held
<1>5. ASSUME NEW i \in 1..Len(search), calls = SubSeq(search, 1, i), s.pat # <<>>
      PROVE  calls \in Seq(Calls) /\ UnderWay(calls, s.line, hbuf, s.pat, lost)
  <2>1. calls \in Seq(Calls) /\ Len(calls) = i /\ \A k \in 1..i : calls[k] = search[k]
    BY <1>5, SomeCalls
  <2>2. 1 \in 1..i /\ calls[1] = search[1] /\ \A k \in 1..i : k \in 1..Len(search)
    BY <1>3, <2>1
  <2>3. \A k \in 1..Len(calls) : k > 1 => calls[k].pat # <<>>
    BY <1>3, <2>1, <2>2 DEF UnderWay
  <2>4. (\E k \in 1..Len(calls) : calls[k].line.eventno # 0) => Parked(s.line, hbuf)
    BY <1>2, <1>3, <2>1, <2>2 DEF UnderWay, Held
  <2>5. Entered(calls[1].line) =>
          Entered(s.line) /\ \A k \in 1..Len(calls) : Entered(calls[k].line)
    BY <1>2, <1>3, <2>1, <2>2 DEF UnderWay, Held
  <2>6. calls[1].line.eventno = 0 /\ ~lost => Own(s.line, hbuf) \in Back(calls[1].line.text)
    BY <1>2, <1>3, <2>2, OwnIsText, BackTwice DEF UnderWay, Held
  <2> QED
    BY <1>2, <1>3, <1>5, <2>1, <2>3, <2>4, <2>5, <2>6 DEF UnderWay, Held
<1>6. calls \in Seq(Calls) /\ (calls # <<>> => UnderWay(calls, s.line, hbuf, s.pat, lost))
  BY <1>2, <1>5, EmptySeq
<1>7. SearchInv'
  BY <1>1, <1>2, <1>4, <1>6, UnderWayNext DEF SearchInv, Held
<1>8. DraftFound => DraftFound'
  BY <1>1, <1>2, <1>4, OwnIsText, DraftFollows DEF OwnKept, Held
<1>9. search' = <<>> /\ patbuf' = <<>> =>
        line' \in Returned \/ lost \/ ~Entered(search[1].line)
  BY <1>2, <1>4
<1> QED
  BY <1>7, <1>8, <1>9

-------------------------------------------------------------------------------
(* The keys of a search, and what is done while none runs.                 *)

LEMMA FirstOf ==
  ASSUME NEW I, I \subseteq Nat
  PROVE  (IF I # {} THEN Min(I) ELSE 0) \in I \cup {0}
<1>1. ASSUME I # {} PROVE Min(I) \in I
  <2>1. \E i \in I : \A j \in I : i <= j
    BY <1>1, LeastNumber
  <2> QED
    BY <2>1 DEF Min
<1> QED
  BY <1>1

LEMMA WordEndInLine ==
  ASSUME NEW t \in Seq(Char), NEW p \in Nat, p <= Len(t)
  PROVE  WordEnd(t, p) \in Int /\ WordEnd(t, p) <= Len(t)
<1> DEFINE n == Len(t)
           I == {i \in (p + 1)..n : t[i] # " "}
           start == IF I # {} THEN Min(I) ELSE 0
           J == {i \in start..n : t[i] = " "}
           stop == IF J # {} THEN Min(J) ELSE 0
<1>1. n \in Nat
  BY LenProperties
<1>2. WordEnd(t, p) = IF start = 0 THEN n ELSE IF stop = 0 THEN n ELSE stop - 1
  BY Zenon DEF WordEnd, SelectInSubSeq
<1>3. I \subseteq (p + 1)..n /\ J \subseteq start..n
  <2> HIDE DEF n, start
  <2> QED
    BY Zenon
<1> HIDE DEF n, I, J
<1>4. I \subseteq Nat /\ start \in I \cup {0}
  <2>1. I \subseteq Nat
    BY <1>1, <1>3
  <2> QED
    BY <2>1, FirstOf, Zenon
<1> HIDE DEF start
<1>5. start \in Nat
  BY <1>4
<1>6. J \subseteq Nat /\ stop \in J \cup {0}
  <2>1. J \subseteq Nat
    BY <1>1, <1>3, <1>5
  <2> QED
    BY <2>1, FirstOf, Zenon
<1> HIDE DEF stop
<1>7. stop \in Nat /\ stop <= n
  BY <1>1, <1>3, <1>5, <1>6
<1>8. WordEnd(t, p) \in Int /\ WordEnd(t, p) <= n
  BY <1>1, <1>2, <1>7
<1> QED
  BY <1>8 DEF n

LEMMA SearchKeyKeeps ==
  ASSUME SearchInv, SearchStep, Going
  PROVE  /\ SearchInv' /\ (DraftFound => DraftFound')
         /\ search' = <<>> /\ patbuf' = <<>> =>
              line' \in Returned \/ lost \/ ~Entered(search[1].line)
<1> DEFINE Goal == /\ SearchInv' /\ (DraftFound => DraftFound')
                   /\ search' = <<>> /\ patbuf' = <<>> =>
                        line' \in Returned \/ lost \/ ~Entered(search[1].line)
<1>1. /\ UnderWay(search, line, hbuf, patbuf, lost) /\ line \in KnownLines
      /\ Direction \in Dirs
  <2>1. /\ Len(search) \in 1..Len(search) /\ Last(search) = search[Len(search)]
        /\ search[Len(search)] \in Calls
    BY CallParts
  <2> QED
    BY <2>1, CallParts DEF Direction, Calls
<1>2. patbuf \in Seq(Sign) /\ patbuf # <<>>
  BY <1>1 DEF UnderWay
<1>3. Char \subseteq Sign
  BY Zenon DEF Sign
<1>4. ASSUME NEW c \in PatternKeys, SearchKey(c) PROVE Goal
  <2>1. c \in Sign
    BY <1>3, SearchBoundsAssumption, BoundsAssumption
  <2>2. Append(patbuf, c) \in Seq(Sign) /\ Append(patbuf, c) # <<>>
    BY <1>2, <2>1, AppendProperties
  <2> QED
    BY <1>1, <1>4, <2>2, ContinueKeeps DEF SearchKey
<1>5. ASSUME NEW dir \in {"prev", "next"}, SearchAgain(dir) PROVE Goal
  BY <1>2, <1>5, ContinueKeeps DEF SearchAgain, Dirs
<1>6. CASE SearchWord
  <2> DEFINE p == line.cursor + Len(Typed(patbuf)) - 1
             word == IF line.cursor = 0 THEN <<>> ELSE SubSeq(line.text, p + 1, WordEnd(line.text, p))
  <2>1. (line.cursor = 0 \/ p <= Len(line.text)) /\ Continue(Direction, FALSE, patbuf \o word)
    BY <1>6 DEF SearchWord
  <2>2. word \in Seq(Char)
    <3>1. CASE line.cursor = 0
      BY <3>1, EmptySeq
    <3>2. CASE line.cursor # 0
      <4>1. line.cursor \in Nat /\ line.text \in Seq(Char) /\ Len(line.text) \in Nat
        BY <1>1, KnownIsRough, RoughParts
      <4>2. Len(Typed(patbuf)) \in Nat
        <5>1. Len(Wild) + 1 \in Int /\ Len(patbuf) \in Int
          BY <1>2, WildIsPattern, LenProperties
        <5>2. \A i \in (Len(Wild) + 1)..Len(patbuf) : patbuf[i] \in Sign
          <6>1. Len(Wild) \in Nat /\ Len(patbuf) \in Nat
            BY <1>2, WildIsPattern, LenProperties
          <6>2. \A i \in 1..Len(patbuf) : patbuf[i] \in Sign
            BY <1>2, ElementOfSeq
          <6> QED
            BY <6>1, <6>2
        <5>3. Typed(patbuf) \in Seq(Sign)
          BY <5>1, <5>2, SubSeqProperties DEF Typed
        <5> QED
          BY <5>3, LenProperties
      <4>3. p \in Nat /\ p <= Len(line.text)
        BY <2>1, <3>2, <4>1, <4>2
      <4> DEFINE end == WordEnd(line.text, p)
      <4> HIDE DEF p
      <4>4. end \in Int /\ end <= Len(line.text)
        BY <4>1, <4>3, WordEndInLine
      <4>5. \A i \in 1..Len(line.text) : line.text[i] \in Char
        BY <4>1, ElementOfSeq
      <4> HIDE DEF end
      <4>6. \A i \in (p + 1)..end : line.text[i] \in Char
        BY <4>1, <4>3, <4>4, <4>5
      <4>7. SubSeq(line.text, p + 1, end) \in Seq(Char)
        BY <4>3, <4>4, <4>6, SubSeqProperties
      <4> QED
        BY <3>2, <4>7 DEF end
    <3> QED
      BY <3>1, <3>2
  <2> HIDE DEF word
  <2>3. word \in Seq(Sign)
    BY <1>3, <2>2, SeqMonotonic
  <2>4. patbuf \o word \in Seq(Sign) /\ patbuf \o word # <<>>
    <3>1. patbuf \o word \in Seq(Sign) /\ Len(patbuf \o word) = Len(patbuf) + Len(word)
      BY <1>2, <2>3, ConcatProperties
    <3>2. Len(patbuf) \in Nat \ {0} /\ Len(word) \in Nat
      BY <1>2, <2>3, EmptySeq, LenProperties
    <3> QED
      BY <3>1, <3>2, EmptySeq
  <2> QED
    BY <1>1, <2>1, <2>4, ContinueKeeps
<1>7. CASE SearchErase
  BY <1>1, <1>2, <1>7, LeaveKeeps, ContinueKeeps DEF SearchErase
<1>8. CASE SearchAbort \/ SearchEnd
  BY <1>8, LeaveKeeps DEF SearchAbort, SearchEnd
<1>9. CASE SearchEof
  <2>1. Shows /\ failing \in BOOLEAN
    BY DEF SearchInv
  <2>2. NavInv' /\ DraftKept'
    BY <1>9, <2>1, AcceptKeeps DEF SearchEof
  <2>3. search' = <<>> /\ lost' = FALSE /\ failing' = failing /\ patbuf' = patbuf
    BY <1>9 DEF SearchEof, Accept
  <2>4. SearchInv'
    BY <2>1, <2>2, <2>3, EmptySeq DEF SearchInv, NavInv, Shows, Going
  <2> QED
    BY <1>2, <2>2, <2>3, <2>4 DEF DraftFound
<1>10. ASSUME NEW dir \in {"prev", "next"}, IncSearch(dir) PROVE Goal
  BY <1>10 DEF IncSearch, Going
<1> QED
  BY <1>4, <1>5, <1>6, <1>7, <1>8, <1>9, <1>10 DEF SearchStep

LEMMA IncSearchKeeps ==
  ASSUME SearchInv, NEW dir \in Dirs, IncSearch(dir)
  PROVE  SearchInv' /\ (DraftFound => DraftFound')
<1> DEFINE f == Frame(dir, line, <<>>, failing)
           calls == <<f>>
<1>1. /\ events # <<>> /\ search' = calls /\ patbuf' = Wild /\ failing' = FALSE
      /\ line' = line /\ hbuf' = hbuf /\ lost' = lost /\ UNCHANGED undoVars
      /\ events' = events /\ vi' = vi /\ draft' = draft
  BY DEF IncSearch, Aside
<1>2. Shows /\ line \in KnownLines /\ lost \in BOOLEAN /\ failing \in BOOLEAN
  BY DEF SearchInv, Shows
<1>3. f \in Calls /\ f.line = line
  BY <1>2, EmptySeq DEF Frame, Calls
<1> HIDE DEF f
<1>4. calls \in Seq(Calls) /\ Len(calls) = 1 /\ calls[1] = f
  BY <1>3
<1> HIDE DEF calls
<1>5. UnderWay(calls, line, hbuf, Wild, lost)
  BY <1>1, <1>3, <1>4, WildIsPattern DEF UnderWay, Parked, Own, Back
<1>6. SameEvents /\ HistoryInv' /\ KnownLines' = KnownLines
  BY <1>1, <1>2, KnownLinesStay DEF SameEvents, Shows, HistoryInv
<1>7. Shows'
  BY <1>1, <1>2, <1>6 DEF Shows, StacksHold, undoVars
<1>8. SearchInv'
  BY <1>1, <1>2, <1>4, <1>5, <1>7, UnderWayNext
<1> QED
  BY <1>1, <1>8, OwnIsText, DraftFollows DEF OwnKept, Back

\* cv_search leaves a line that names an event there is, whatever it finds.
LEMMA ViSearchKeeps ==
  ASSUME SearchInv, ViSearchStep
  PROVE  SearchInv' /\ (DraftFound => DraftFound')
<1>1. /\ HistoryInv /\ Shows /\ line \in KnownLines /\ hbuf \in Seq(Char)
      /\ failing \in BOOLEAN /\ lost \in BOOLEAN /\ search \in Seq(Calls)
  BY DEF SearchInv, Shows, HistoryInv
<1>2. Fine(Emptied) /\ Emptied.text = <<>> /\ Emptied.eventno \in Nat
  <2>1. line \in Snap /\ (vi \/ OldEvents # <<>> => line.eventno <= Oldest)
    BY <1>1 DEF KnownLines
  <2>2. <<>> \in Seq(Char) /\ Len(<<>>) = 0
    BY EmptySeq
  <2>3. Emptied \in Snap /\ Emptied.text = <<>> /\ Emptied.cursor = 0 /\ Emptied.eventno = line.eventno
    BY <2>1, <2>2 DEF Emptied, Snap
  <2>4. Emptied.eventno \in Nat
    BY <2>1, <2>3 DEF Snap
  <2> HIDE DEF Emptied
  <2> QED
    BY <2>1, <2>2, <2>3, <2>4 DEF Fine, Line, KnownLines
<1> HIDE DEF Emptied
<1>3. ASSUME NEW new, Fine(new), Navigate("vi-search", new), hbuf' \in Seq(Char)
      PROVE  Shows' /\ events' = events /\ vi' = vi /\ "vi-search" \in Commands
  <2>1. /\ Turn("vi-search", "key", new) /\ SameEvents /\ events' = events /\ vi' = vi
        /\ "vi-search" \in Commands /\ new \in KnownLines
    BY <1>3 DEF Navigate, SameEvents, Fine
  <2> QED
    BY <1>1, <2>1, RecordShows
<1>4. ASSUME NEW dir \in {"prev", "next"}, NEW typed, ViSearch(dir, typed)
      PROVE  Shows' /\ events' = events /\ vi' = vi /\ "vi-search" \in Commands
  <2> DEFINE p == IF typed = <<>> THEN patbuf ELSE typed
             b == IF dir = "prev" /\ p # <<>> THEN SaveLine(Emptied) ELSE hbuf
             e == IF p = <<>> THEN NotFound
                  ELSE IF dir = "prev" THEN OlderHit(Emptied, p) ELSE NewerHit(Emptied, p)
             new == IF e = NotFound THEN Emptied ELSE HistGet(Emptied, e, b)
  <2>1. hbuf' = b /\ Navigate("vi-search", new)
    BY <1>4 DEF ViSearch
  <2>2. b \in Seq(Char)
    <3>1. Emptied.text \in Seq(Char)
      BY <1>2, EmptySeq
    <3> QED
      BY <1>1, <3>1, CopiedIsText DEF SaveLine
  <2>3. e = NotFound \/ (e \in Nat /\ events # <<>>)
    <3>1. Len(events) \in Nat /\ (events = <<>> => Len(events) = 0)
      BY <1>1, OldestIsNumber, EmptySeq
    <3> HIDE DEF p
    <3>2. OlderHit(Emptied, p) = NotFound \/ OlderHit(Emptied, p) \in 1..Len(events)
      BY <1>1, <1>2, OlderHitIsEvent
    <3>3. NewerHit(Emptied, p) = NotFound
            \/ (NewerHit(Emptied, p) \in 0..Len(events) /\ events # <<>>)
      BY <1>1, <1>2, NewerHitIsEvent
    <3> QED
      BY <3>1, <3>2, <3>3
  <2> HIDE DEF e, b
  <2>4. Fine(new)
    BY <1>1, <1>2, <2>2, <2>3, HistGetIsFine
  <2> QED
    BY <1>3, <2>1, <2>2, <2>4
<1>5. ASSUME ViSearchCancelled
      PROVE  Shows' /\ events' = events /\ vi' = vi /\ "vi-search" \in Commands
  BY <1>1, <1>2, <1>3, <1>5 DEF ViSearchCancelled
<1>6. /\ ~Going /\ UNCHANGED searchVars
      /\ Shows' /\ events' = events /\ vi' = vi /\ "vi-search" \in Commands
  BY <1>4, <1>5 DEF ViSearchStep
<1>7. SearchInv'
  BY <1>1, <1>6, UnderWayNext DEF searchVars, Going
<1> QED
  BY <1>6, <1>7 DEF DraftFound, Commands

\* Between searches the line is one of HistNav, if its cursor is in it.
LEMMA BetweenKeeps ==
  ASSUME SearchInv, ~Going,
         IF Placed THEN NavNext ELSE \E keep \in BOOLEAN : Accept(keep),
         lost' = (lost /\ lines' = lines), UNCHANGED <<search, failing>>
  PROVE  SearchInv' /\ (DraftFound => DraftFound')
<1>1. Shows /\ failing \in BOOLEAN /\ lost \in BOOLEAN /\ search = <<>> /\ line \in Snap
  BY DEF SearchInv, Going, Shows, KnownLines
<1>2. ASSUME NavNext
      PROVE  vi' = vi /\ (lines' = lines \/ \E keep \in BOOLEAN : Accept(keep))
  BY <1>2 DEF NavNext, EditDraft, navVars, PrevHistory, NextHistory, ToNumber, SearchPrev,
     SearchNext, ToOldest, UndoLine, Navigate, Accept
<1>3. ASSUME Placed PROVE NavInv
  BY <1>1, <1>3 DEF Placed, NavInv, Shows, Line
<1>4. ASSUME NEW keep \in BOOLEAN, Accept(keep) PROVE NavInv' /\ DraftKept'
  BY <1>1, <1>4, AcceptKeeps
<1>5. NavInv'
  BY <1>3, <1>4, NavStep
<1>6. SearchInv'
  BY <1>1, <1>5, EmptySeq DEF SearchInv, NavInv, Shows, Going
<1>7. ASSUME DraftFound PROVE DraftFound'
  <2>1. CASE \E keep \in BOOLEAN : Accept(keep)
    BY <1>4, <2>1 DEF DraftFound
  <2>2. CASE ~\E keep \in BOOLEAN : Accept(keep)
    <3>1. NavInv /\ NavNext /\ vi' = vi /\ lost' = lost
      BY <1>1, <1>2, <1>3, <2>2
    <3> QED
      BY <1>7, <3>1, NavStep DEF DraftFound, Commands
  <2> QED
    BY <2>1, <2>2
<1> QED
  BY <1>6, <1>7

-------------------------------------------------------------------------------
(* The theorems about the searches.                                        *)

LEMMA SearchInitInv == SearchInit => SearchInv /\ DraftFound
<1> SUFFICES ASSUME SearchInit PROVE SearchInv /\ DraftFound
  OBVIOUS
<1>1. NavInv /\ DraftKept
  BY InitNavInv DEF SearchInit
<1> QED
  BY <1>1, EmptySeq DEF SearchInit, SearchInv, NavInv, Shows, Going, DraftFound

LEMMA SearchNextKeeps ==
  ASSUME SearchInv, SearchNextState
  PROVE  /\ SearchInv' /\ (DraftFound => DraftFound')
         /\ Going /\ search' = <<>> /\ patbuf' = <<>> =>
              line' \in Returned \/ lost \/ ~Entered(search[1].line)
<1>1. CASE ViSearchStep
  BY <1>1, ViSearchKeeps DEF ViSearchStep
<1>2. CASE SearchStep /\ Going
  BY <1>2, SearchKeyKeeps
<1>3. CASE SearchStep /\ ~Going
  <2>1. PICK dir \in Dirs : IncSearch(dir)
    BY <1>3 DEF SearchStep, SearchAgain, SearchKey, SearchWord, SearchErase, SearchAbort,
       SearchEnd, SearchEof, Dirs
  <2> QED
    BY <1>3, <2>1, IncSearchKeeps
<1>4. CASE /\ ~Going
           /\ IF Placed THEN NavNext ELSE \E keep \in BOOLEAN : Accept(keep)
           /\ lost' = (lost /\ lines' = lines)
           /\ UNCHANGED <<search, failing>>
  BY <1>4, BetweenKeeps
<1> QED
  BY <1>1, <1>2, <1>3, <1>4 DEF SearchNextState

LEMMA SearchStutter ==
  ASSUME SearchInv, UNCHANGED allSearchVars
  PROVE  /\ SearchInv' /\ (DraftFound => DraftFound')
         /\ ~(Going /\ search' = <<>>)
<1>1. /\ search' = search /\ failing' = failing /\ lost' = lost /\ line' = line /\ hbuf' = hbuf
      /\ events' = events /\ vi' = vi /\ draft' = draft /\ patbuf' = patbuf /\ UNCHANGED undoVars
  BY DEF allSearchVars, allVars, vars, navVars, searchVars, undoVars
<1>2. Shows'
  BY <1>1 DEF SearchInv, Shows, HistoryInv, KnownLines, Oldest, StacksHold, undoVars
<1>3. SearchInv'
  BY <1>1, <1>2, UnderWayNext DEF SearchInv, Going
<1> QED
  BY <1>1, <1>3, OwnIsText, DraftFollows DEF OwnKept, Going, Back

LEMMA NotEdited ==
  ASSUME SearchInv, Going
  PROVE  ~Entered(search[1].line) => Edited(search[1])
<1>1. search[1].line.eventno \in Nat
  <2>1. 1 \in 1..Len(search) /\ \A i \in 1..Len(search) : search[i] \in Calls
    BY CallParts
  <2> QED
    BY <2>1, KnownIsRough, RoughParts DEF Calls
<1> QED
  BY <1>1 DEF Entered, Edited, HasEvent

LEMMA SearchAlways == SearchSpec => [](SearchInv /\ DraftFound)
<1>1. SearchInv /\ DraftFound /\ [SearchNextState]_allSearchVars => (SearchInv /\ DraftFound)'
  BY SearchNextKeeps, SearchStutter
<1> QED
  BY <1>1, SearchInitInv, PTL DEF SearchSpec

\* Whatever keys are typed into however many calls of a search, erased or
\* aborted, the line that is typed is on the screen or in el_history.buf, unless
\* a search that failed going back was asked for more.
THEOREM DraftsFound == SearchSpec => []DraftFound
BY SearchAlways, PTL

\* Also where searches go through the history and are left, eventno names an
\* event there is or the line being typed.
THEOREM EventsNamedInSearch == SearchSpec => []EventnoInRange
<1>1. SearchInv => EventnoInRange
  <2> SUFFICES ASSUME SearchInv, events # <<>>, vi \/ OldEvents # <<>>
               PROVE  line.eventno \in 0..Len(events)
    BY DEF EventnoInRange
  <2>1. HistoryInv /\ line \in KnownLines
    BY DEF SearchInv, Shows
  <2> QED
    BY <2>1, KnownIsRough, RoughParts, OldestIsNumber
<1> QED
  BY <1>1, SearchAlways, PTL

\* A search that is left with nothing of its pattern leaves the line it began
\* with, and its cursor: the invariant keeps both the typed line and the text of
\* the events as they were when the outermost call began.
THEOREM AbortsReturn == SearchSpec => AbortReturns
<1> DEFINE Returns ==
      Going /\ search' = <<>> /\ patbuf' = <<>> =>
        line' \in {search[1].line, Cut(search[1].line)} \/ lost \/ Edited(search[1])
<1>1. SearchInv /\ [SearchNextState]_allSearchVars => [Returns]_allSearchVars
  BY SearchNextKeeps, NotEdited DEF Returned
<1> QED
  BY <1>1, SearchAlways, PTL DEF SearchSpec, AbortReturns
===============================================================================
