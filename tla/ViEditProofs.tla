----------------------------- MODULE ViEditProofs -----------------------------
(***************************************************************************)
(* What holds of the line under the vi maps for every text, every key and  *)
(* all sizes: the modes agree, a record of vi_redo that is played back is  *)
(* recorded again, what is cut is kept and the cursor stays in the line.   *)
(*                                                                         *)
(* A command runs in what the loop or vi_redo gives it (Ready).  Done says *)
(* what each leaves: there is one lemma for each kind of command, and the  *)
(* motions have one about where they go.  The invariant follows from Done  *)
(* alone, for a key that is typed, one that was pushed, and a command that *)
(* is done again.                                                          *)
(***************************************************************************)
EXTENDS ViEdit, LineTextProofs, TLAPS

-------------------------------------------------------------------------------
(* What is left by a command.                                              *)

Maps == {"insert", "command"}
Modes == {"insert", "replace", "replace1"}
Actions == {"NOP", "delete", "change", "yank"}
Places == 0..Len(line)

\* The motions that read a character, and all of them.
Seeking == {"vi_next_char", "vi_prev_char", "vi_to_next_char", "vi_to_prev_char"}
Motions == Seeking \cup
  {"vi_prev_word", "vi_prev_big_word", "vi_next_word", "vi_next_big_word", "vi_end_word", "vi_end_big_word",
   "vi_zero", "ed_move_to_beg", "ed_move_to_end", "ed_next_char", "ed_prev_char", "vi_to_column", "vi_match",
   "vi_repeat_next_char", "vi_repeat_prev_char"}

\* Commands that go into the insert map by themselves.
Opening ==
  {"vi_insert", "vi_insert_at_bol", "vi_add", "vi_add_at_eol", "vi_replace_mode", "vi_replace_char",
   "vi_substitute_char", "vi_substitute_line", "vi_change_to_eol", "vi_history_word"}

\* Commands that start a record, and that of no record.
Changing ==
  {"vi_delete_meta", "vi_change_meta", "vi_paste_next", "vi_paste_prev", "vi_change_case", "ed_delete_prev_char",
   "ed_delete_next_char", "ed_delete_prev_word", "vi_kill_line_prev", "vi_undo_line"}
Recorded == Motions \cup Opening \cup Changing
Replayed == Recorded \cup {"ed_unassigned"}

\* A command with its operator that goes into the insert map.
GoesIn(r) == r.cmd \in Opening \/ (r.action = "change" /\ r.cmd \in Motions \cup {"vi_change_meta"})

\* What the keys of the insert map are, and what only they are.
Inserting ==
  {"ed_insert", "vi_command_mode", "vi_delete_prev_char", "ed_delete_prev_word", "ed_newline", "vi_list_or_eof",
   "vi_kill_line_prev", "ed_unassigned"}
InsertOnly == {"ed_insert", "vi_command_mode", "vi_delete_prev_char"}
Commands == Replayed \cup Inserting \cup {b[2] : b \in Commanding}

Record == [count : Nat, action : Actions, cmd : Replayed, keys : Seq(Key)]
Context == [cmd : Commands, count : Nat, action : Actions, pos : Nat, redo : Record, rest : Seq(Key)]

LineOK == line \in Text /\ kill \in Text /\ cursor \in Nat /\ map \in Maps /\ mode \in Modes
ModeOK == map = "command" => mode = "insert"

\* What a command runs in.
Ready(c) ==
  /\ LineOK /\ ModeOK /\ cursor \in Places
  /\ c \in Context
  /\ c.action # "NOP" => c.pos \in Places

\* What was taken from the line is in the cut buffer.
CutBack ==
  Len(line') < Len(line) =>
    \/ \E p \in 0..Len(line') : Inserted(line', p, kill') = line
    \/ OtherLine
    \/ CutByGraphemes

\* Where the cursor may be.
OnLine ==
  /\ cursor' > Len(line') => line' = <<>>
  /\ map' = "command" /\ line' # <<>> /\ cursor' = Len(line') => NoRoom

\* An operator or a count that waits on.
Waits ==
  /\ count' \in Nat /\ action' \in Actions /\ pos' \in Nat
  /\ UNCHANGED line
  /\ action' # "NOP" => pos' \in Places
  /\ map' = "insert" => mode' = "replace1"

\* A record begun.
Begun(c) == redo' = Started(c) /\ c.cmd \in Recorded /\ (map' = "command" => ~GoesIn(c))

\* Into the insert map with a record begun.
Entered(c) ==
  /\ redo' = Started(c) /\ GoesIn(c)
  /\ mode' = "replace1" <=> c.cmd = "vi_replace_char"
  /\ count' \in {0, c.count}

\* What is read next.
Follows(c) ==
  /\ pushed' \in Seq(Key)
  /\ pushed' = c.rest \/ c.cmd = "vi_alias" \/ (c.cmd \in Seeking /\ c.rest # <<>>)

Done(c) ==
  /\ LineOK' /\ ModeOK'
  /\ OnLine
  /\ Follows(c)
  /\ redo' = c.redo \/ Begun(c)
  /\ DropArgs \/ Waits
  /\ map = "command" => CutBack
  /\ map = "command" /\ map' = "insert" /\ c.cmd \in Replayed => Entered(c)
  /\ map = "insert" /\ map' = "command" => c.cmd \in {"vi_command_mode", "ed_insert"}

-------------------------------------------------------------------------------
(* Words as vi has them.                                                   *)

ViOn(big, x) == SkipOn(line, x, ClassOf(big, At(line, x)))
ViTurn(big, x) == IF x = Len(line) THEN Len(line) ELSE SkipOn(line, ViOn(big, x), Spaces)
ViLast(c, big, x) == IF x = Len(line) THEN Len(line) ELSE ViOn(big, x)
OnByViWords(c, big, n, g) ==
  g = [k \in 0..n |->
        IF k = 0 THEN cursor
        ELSE IF g[k - 1] = Len(line) THEN Len(line)
        ELSE IF k = n /\ c.action = "change" THEN ViOn(big, g[k - 1])
        ELSE SkipOn(line, ViOn(big, g[k - 1]), Spaces)]

LEMMA ViNextWordStays ==
  ASSUME LineOK, cursor \in Places, NEW c, NEW big, NEW n \in Nat \ {0}
  PROVE  ViNextWord(c, big, n) \in Places
<1>0. Len(line) \in Nat /\ cursor \in Nat /\ line \in Text
  BY TextLen DEF LineOK
<1> DEFINE F == [x \in Places |-> ViTurn(big, x)]
           h == CHOOSE g : OnByViWords(c, big, n, g)
<1>1. ASSUME NEW x \in Places
      PROVE  ViOn(big, x) \in Places /\ ViTurn(big, x) \in Places /\ ViLast(c, big, x) \in Places
  <2>1. ViOn(big, x) \in x..Len(line)
    BY <1>0, SkipOnStops DEF ViOn, Places
  <2>2. ViOn(big, x) \in Places
    BY <1>0, <2>1 DEF Places
  <2>3. SkipOn(line, ViOn(big, x), Spaces) \in ViOn(big, x)..Len(line)
    BY <1>0, <2>2, SkipOnStops DEF Places
  <2>4. SkipOn(line, ViOn(big, x), Spaces) \in Places /\ Len(line) \in Places
    BY <1>0, <2>2, <2>3 DEF Places
  <2> QED
    BY <2>2, <2>4 DEF ViTurn, ViLast
<1>2. F \in [Places -> Places] /\ \A x \in Places : F[x] = ViTurn(big, x)
  BY <1>1
<1> HIDE DEF F
<1>3. PICK f : Loops(Places, F, cursor, n, f)
  <2>1. n \in Nat
    OBVIOUS
  <2> QED
    BY <1>2, <2>1, LoopExists, Zenon
<1>4. f \in [0..n -> Places] /\ f[0] = cursor /\ \A k \in 1..n : f[k] = F[f[k - 1]]
  BY <1>3 DEF Loops
<1> DEFINE g == [k \in 0..n |-> IF k = n /\ c.action = "change" THEN ViLast(c, big, f[n - 1]) ELSE f[k]]
<1>5. \A k \in 1..n : k - 1 \in 0..n /\ k \in 0..n /\ g[k - 1] = f[k - 1]
  OBVIOUS
<1>6. \A k \in 0..n : g[k] =
        IF k = 0 THEN cursor
        ELSE IF g[k - 1] = Len(line) THEN Len(line)
        ELSE IF k = n /\ c.action = "change" THEN ViOn(big, g[k - 1])
        ELSE SkipOn(line, ViOn(big, g[k - 1]), Spaces)
  <2> SUFFICES ASSUME NEW k \in 0..n
               PROVE  g[k] = IF k = 0 THEN cursor
                             ELSE IF g[k - 1] = Len(line) THEN Len(line)
                             ELSE IF k = n /\ c.action = "change" THEN ViOn(big, g[k - 1])
                             ELSE SkipOn(line, ViOn(big, g[k - 1]), Spaces)
    OBVIOUS
  <2>1. CASE k = 0
    BY <1>4, <2>1
  <2>2. CASE k # 0
    <3>1. k \in 1..n
      BY <2>2
    <3>2. g[k - 1] = f[k - 1] /\ f[k - 1] \in Places
      BY <1>4, <1>5, <3>1
    <3>3. CASE k = n /\ c.action = "change"
      <4>1. g[k] = ViLast(c, big, g[k - 1])
        BY <3>2, <3>3
      <4> HIDE DEF g
      <4> QED
        BY <2>2, <3>3, <4>1, Zenon DEF ViLast
    <3>4. CASE ~(k = n /\ c.action = "change")
      <4>1. g[k] = f[k] /\ f[k] = F[f[k - 1]]
        BY <1>4, <3>1, <3>4
      <4> HIDE DEF g
      <4>2. g[k] = ViTurn(big, g[k - 1])
        BY <1>2, <3>2, <4>1
      <4> QED
        BY <2>2, <3>4, <4>2, Zenon DEF ViTurn
    <3> QED
      BY <3>3, <3>4
  <2> QED
    BY <2>1, <2>2
<1>7. OnByViWords(c, big, n, g)
  <2>1. g = [k \in 0..n |-> g[k]]
    OBVIOUS
  <2> HIDE DEF g
  <2> QED
    BY <1>6, <2>1 DEF OnByViWords
<1>8. OnByViWords(c, big, n, h)
  BY <1>7
<1>9. ViNextWord(c, big, n) = h[n]
  BY Zenon DEF ViNextWord, OnByViWords, ViOn
<1> HIDE DEF h
<1>10. h[0] = cursor /\ \A k \in 1..n : h[k] =
        IF h[k - 1] = Len(line) THEN Len(line)
        ELSE IF k = n /\ c.action = "change" THEN ViOn(big, h[k - 1])
        ELSE SkipOn(line, ViOn(big, h[k - 1]), Spaces)
  BY <1>8 DEF OnByViWords
<1>11. \A k \in 1..n : h[k - 1] \in Places => h[k] \in Places
  BY <1>1, <1>10 DEF ViTurn, ViLast
<1>12. h[n] \in Places
  <2>1. h[0] \in Places /\ n \in Nat
    BY <1>10
  <2> QED
    BY <1>11, <2>1, LoopStays, Zenon
<1> QED
  BY <1>9, <1>12

ViBack(big, x) ==
  LET b == SkipBack(line, x, Spaces)
      q == IF b = 0 THEN 1 ELSE b
  IN SkipBack(line, q, ClassOf(big, At(line, q - 1)))
BackByViWords(big, n, g) ==
  g = [k \in 0..n |-> IF k = 0 THEN cursor ELSE IF g[k - 1] = 0 THEN 0 ELSE ViBack(big, g[k - 1])]

LEMMA ViPrevWordStays ==
  ASSUME LineOK, cursor \in Places, NEW big, NEW n \in Nat
  PROVE  ViPrevWord(big, n) \in Places
<1>0. Len(line) \in Nat /\ cursor \in Nat /\ line \in Text
  BY TextLen DEF LineOK
<1> DEFINE Turned(x) == IF x = 0 THEN 0 ELSE ViBack(big, x)
           F == [x \in Places |-> Turned(x)]
           h == CHOOSE g : BackByViWords(big, n, g)
<1>1. ASSUME NEW x \in Places PROVE Turned(x) \in Places
  <2>1. CASE x = 0
    BY <1>0, <2>1 DEF Places
  <2>2. CASE x # 0
    <3> DEFINE b == SkipBack(line, x, Spaces)
               q == IF b = 0 THEN 1 ELSE b
    <3>1. b \in 0..x
      BY SkipBackStops DEF LineOK, Places
    <3> HIDE DEF b
    <3>2. q \in 0..Len(line)
      BY <1>0, <2>2, <3>1 DEF Places
    <3>3. ViBack(big, x) = SkipBack(line, q, ClassOf(big, At(line, q - 1)))
      BY DEF ViBack, b
    <3> HIDE DEF q
    <3>4. SkipBack(line, q, ClassOf(big, At(line, q - 1))) \in 0..q
      BY <1>0, <3>2, SkipBackStops
    <3>5. ViBack(big, x) \in 0..Len(line)
      BY <1>0, <3>2, <3>3, <3>4
    <3> QED
      BY <2>2, <3>5 DEF Places
  <2> QED
    BY <2>1, <2>2
<1>2. F \in [Places -> Places] /\ \A x \in Places : F[x] = Turned(x)
  BY <1>1
<1> HIDE DEF F
<1>3. PICK f : Loops(Places, F, cursor, n, f)
  BY <1>2, LoopExists, Zenon
<1>4. \A k \in 0..n : f[k] = IF k = 0 THEN cursor ELSE IF f[k - 1] = 0 THEN 0 ELSE ViBack(big, f[k - 1])
  <2>1. \A k \in 1..n : k - 1 \in 0..n
    OBVIOUS
  <2> QED
    BY <1>2, <1>3, <2>1 DEF Loops
<1>5. BackByViWords(big, n, f)
  BY <1>3, <1>4 DEF BackByViWords, Loops
<1>6. BackByViWords(big, n, h)
  BY <1>5
<1>7. ViPrevWord(big, n) = h[n]
  BY Zenon DEF ViPrevWord, BackByViWords, ViBack
<1> HIDE DEF h
<1>8. h[0] = cursor /\ \A k \in 1..n : h[k] = Turned(h[k - 1])
  BY <1>6 DEF BackByViWords
<1>9. h[n] \in Places
  <2>1. h[0] \in Places /\ \A k \in 1..n : h[k - 1] \in Places => h[k] \in Places
    BY <1>1, <1>8
  <2> QED
    BY <2>1, LoopStays, Zenon
<1> QED
  BY <1>7, <1>9

ViEnd(big, x) ==
  LET w == SkipOn(line, x, Spaces)
  IN IF w = Len(line) THEN w ELSE SkipOn(line, w, ClassOf(big, At(line, w)))
EndByViWords(big, n, g) ==
  g = [k \in 0..n |-> IF k = 0 THEN cursor + 1 ELSE ViEnd(big, g[k - 1])]

\* It ends at a character.
LEMMA ViEndWordStays ==
  ASSUME LineOK, cursor \in Places, cursor # Len(line), NEW big, NEW n \in Nat
  PROVE  ViEndWord(big, n) \in Places /\ ViEndWord(big, n) + 1 \in Places
<1>0. Len(line) \in Nat /\ cursor \in Nat /\ line \in Text
  BY TextLen DEF LineOK
<1> DEFINE S == 1..Len(line)
           F == [x \in S |-> ViEnd(big, x)]
           h == CHOOSE g : EndByViWords(big, n, g)
<1>1. ASSUME NEW x \in S PROVE ViEnd(big, x) \in S
  <2> DEFINE w == SkipOn(line, x, Spaces)
  <2>1. w \in x..Len(line)
    <3>1. x \in 0..Len(line)
      OBVIOUS
    <3> QED
      BY <1>0, <3>1, SkipOnStops
  <2>2. ViEnd(big, x) = IF w = Len(line) THEN w ELSE SkipOn(line, w, ClassOf(big, At(line, w)))
    BY DEF ViEnd
  <2> HIDE DEF w
  <2>3. w \in 0..Len(line) /\ w \in S
    BY <1>0, <2>1
  <2>4. SkipOn(line, w, ClassOf(big, At(line, w))) \in w..Len(line)
    BY <1>0, <2>3, SkipOnStops
  <2>5. SkipOn(line, w, ClassOf(big, At(line, w))) \in S
    BY <1>0, <2>3, <2>4
  <2> QED
    BY <2>2, <2>3, <2>5
<1>2. F \in [S -> S] /\ \A x \in S : F[x] = ViEnd(big, x)
  BY <1>1
<1> HIDE DEF F
<1> DEFINE p == cursor + 1
<1>p. p \in S
  BY <1>0 DEF Places
<1> HIDE DEF S, p
<1>3. PICK f : Loops(S, F, p, n, f)
  BY <1>p, <1>2, LoopExists, Zenon
<1>4. \A k \in 0..n : f[k] = IF k = 0 THEN cursor + 1 ELSE ViEnd(big, f[k - 1])
  <2>1. \A k \in 1..n : k - 1 \in 0..n
    OBVIOUS
  <2> QED
    BY <1>2, <1>3, <2>1 DEF Loops, p
<1>5. EndByViWords(big, n, f)
  BY <1>3, <1>4 DEF EndByViWords, Loops
<1>6. EndByViWords(big, n, h)
  BY <1>5
<1>7. ViEndWord(big, n) = h[n] - 1
  BY Zenon DEF ViEndWord, EndByViWords, ViEnd
<1> HIDE DEF h
<1>8. h[0] = p /\ \A k \in 1..n : h[k] = ViEnd(big, h[k - 1])
  BY <1>6 DEF EndByViWords, p
<1>9. h[n] \in S
  <2>1. h[0] \in S /\ \A k \in 1..n : h[k - 1] \in S => h[k] \in S
    BY <1>p, <1>1, <1>8 DEF S
  <2> QED
    BY <2>1, LoopStays, Zenon
<1> QED
  BY <1>0, <1>7, <1>9 DEF S, Places

-------------------------------------------------------------------------------
(* Commands by kind.                                                       *)

LEMMA LineFacts ==
  ASSUME LineOK, cursor \in Places
  PROVE  /\ Len(line) \in Nat /\ cursor \in Nat /\ cursor <= Len(line) /\ line \in Text /\ kill \in Text
         /\ cursor \in 0..Len(line)
BY TextLen DEF LineOK, Places

LEMMA ReadyFacts ==
  ASSUME NEW c, Ready(c)
  PROVE  /\ Len(line) \in Nat /\ cursor \in Nat /\ cursor <= Len(line) /\ line \in Text /\ kill \in Text
         /\ LineOK /\ cursor \in Places /\ cursor \in 0..Len(line)
         /\ c.count \in Nat /\ c.action \in Actions /\ c.pos \in Nat /\ c.redo \in Record /\ c.rest \in Seq(Key)
         /\ Argument(c) \in Nat \ {0}
         /\ c.action # "NOP" => c.pos \in Places
BY LineFacts DEF Ready, Context, Argument

\* A refresh puts the cursor on the line.
LEMMA RefreshedOn ==
  ASSUME NEW p \in Nat, Refreshed(p), line' \in Text
  PROVE  cursor' \in 0..Len(line') /\ cursor' \in Nat /\ OnLine
<1> DEFINE n == Len(line')
<1>1. n \in Nat /\ (line' # <<>> => n # 0)
  BY EmptySeq, TextLen DEF Text
<1>2. cursor' = IF p < n THEN p ELSE IF map' = "command" /\ line' # <<>> THEN n - 1 ELSE n
  BY DEF Refreshed
<1>3. OnLine <=> /\ cursor' > n => line' = <<>>
                 /\ map' = "command" /\ line' # <<>> /\ cursor' = n => NoRoom
  BY DEF OnLine
<1> HIDE DEF n
<1>4. cursor' \in Nat /\ cursor' <= n /\ (map' = "command" /\ line' # <<>> => cursor' # n)
  BY <1>1, <1>2
<1>5. OnLine /\ cursor' \in 0..n
  BY <1>1, <1>3, <1>4
<1> QED
  BY <1>4, <1>5 DEF n

\* A cursor before the end, and one that stays as the line does.
LEMMA BeforeEndOn ==
  ASSUME Len(line') \in Nat, cursor' \in Nat, cursor' < Len(line') \/ (cursor' <= Len(line') /\ map' = "insert")
  PROVE  OnLine
BY DEF OnLine

LEMMA SameOn ==
  ASSUME LineOK, cursor \in Places, UNCHANGED <<line, cursor, kill>>
  PROVE  OnLine
BY LineFacts DEF OnLine, NoRoom

\* The map is left alone and nothing waits.
LEMMA EditDone ==
  ASSUME NEW c, Ready(c), Quiet(c), SameMap,
         line' \in Text, kill' \in Text, cursor' \in 0..Len(line'), map = "command" => OnLine,
         redo' = c.redo \/ (redo' = Started(c) /\ c.cmd \in Recorded /\ (map = "command" => ~GoesIn(c))),
         map = "command" => CutBack
  PROVE  Done(c)
<1>1. Len(line') \in Nat
  BY TextLen
<1>2. LineOK' /\ ModeOK'
  BY <1>1 DEF Ready, LineOK, ModeOK, SameMap
<1>3. Follows(c) /\ DropArgs
  BY ReadyFacts DEF Quiet, Follows
<1>4. redo' = c.redo \/ Begun(c)
  BY DEF Begun, SameMap
<1>5. map' = map
  BY DEF SameMap
<1>6. OnLine
  <2>1. map \in {"insert", "command"} /\ cursor' \in Nat /\ cursor' <= Len(line')
    BY <1>1 DEF Ready, LineOK, Maps
  <2>2. CASE map = "insert"
    BY <1>1, <1>5, <2>1, <2>2, BeforeEndOn
  <2> QED
    BY <2>1, <2>2
<1> QED
  BY <1>2, <1>3, <1>4, <1>5, <1>6 DEF Done

LEMMA FailDone ==
  ASSUME NEW c, Ready(c), Fail(c)
  PROVE  Done(c)
<1>1. Quiet(c) /\ SameMap /\ redo' = c.redo /\ line' = line /\ cursor' = cursor /\ kill' = kill
  BY DEF Fail
<1>2. CutBack
  BY <1>1, ReadyFacts DEF CutBack
<1>3. OnLine
  BY <1>1, ReadyFacts, SameOn
<1> QED
  BY <1>1, <1>2, <1>3, ReadyFacts, EditDone

LEMMA GoDone ==
  ASSUME NEW c, Ready(c), NEW p \in Nat, Go(c, p)
  PROVE  Done(c)
<1>1. Quiet(c) /\ SameMap /\ redo' = c.redo /\ line' = line /\ Refreshed(p) /\ kill' = kill
  BY DEF Go
<1>2. CutBack
  BY <1>1, ReadyFacts DEF CutBack
<1>3. cursor' \in 0..Len(line') /\ OnLine
  BY <1>1, ReadyFacts, RefreshedOn
<1> QED
  BY <1>1, <1>2, <1>3, ReadyFacts, EditDone

\* The insert map is entered, with a record and with nothing that waits.
LEMMA OpenDone ==
  ASSUME NEW c, Ready(c), Quiet(c), map = "command", map' = "insert", mode' \in {"insert", "replace"},
         line' \in Text, kill' \in Text, cursor' \in 0..Len(line'),
         redo' = Started(c), c.cmd \in Recorded, GoesIn(c), c.cmd # "vi_replace_char", CutBack
  PROVE  Done(c)
<1>1. Len(line') \in Nat
  BY TextLen
<1>2. LineOK' /\ ModeOK'
  BY <1>1 DEF LineOK, ModeOK, Modes, Maps
<1>3. Follows(c) /\ DropArgs
  BY ReadyFacts DEF Quiet, Follows
<1>4. Begun(c) /\ Entered(c)
  BY <1>3 DEF Begun, Entered, DropArgs
<1>5. OnLine
  BY <1>1, BeforeEndOn
<1> QED
  BY <1>2, <1>3, <1>4, <1>5 DEF Done

\* Where the map is left alone or entered, and a place of the line was erased.
LEMMA EraseCuts ==
  ASSUME NEW c, Ready(c), NEW q \in Places, NEW p \in 0..q, Erase(c, p, q)
  PROVE  /\ line' \in Text /\ kill' \in Text /\ CutBack
         /\ Len(line') = Len(line) - (q - p) /\ p \in 0..Len(line')
         /\ redo' = Started(c)
<1>1. line' = Without(line, p, q) /\ kill' = From(line, p, q) /\ redo' = Started(c)
  BY DEF Erase
<1>2. Len(line) \in Nat /\ q \in 0..Len(line) /\ p \in Nat /\ q \in Nat /\ p <= q /\ line \in Text
  BY ReadyFacts DEF Places
<1>3. line' \in Text /\ Len(line') = Len(line) - (q - p)
  BY <1>1, <1>2, WithoutIsText
<1>4. kill' \in Text
  BY <1>1, <1>2, FromIsText
<1>5. p \in 0..Len(line')
  BY <1>2, <1>3
<1>6. Inserted(line', p, kill') = line
  BY <1>1, <1>2, CutGoesBack
<1> QED
  BY <1>1, <1>3, <1>4, <1>5, <1>6 DEF CutBack

\* With an operator, from where it was given to q or from q to there.
LEMMA DelFiniDone ==
  ASSUME NEW c, Ready(c), map = "command", c.action # "NOP", NEW q \in Nat, c.cmd \in Motions,
         DelFini(c, q), pushed' = c.rest, DropArgs,
         map' = (IF c.action = "change" THEN "insert" ELSE map), UNCHANGED mode
  PROVE  Done(c)
<1>0. /\ Len(line) \in Nat /\ c.pos \in 0..Len(line) /\ c.pos \in Nat
      /\ line \in Text /\ kill \in Text /\ Follows(c)
  BY ReadyFacts DEF Places, Follows
<1> DEFINE lo == IF q < c.pos THEN q ELSE c.pos
           hi == IF q > c.pos THEN q ELSE IF q = c.pos THEN c.pos + 1 ELSE c.pos
           end == IF hi > Len(line) THEN Len(line) ELSE hi
<1>1. lo \in Nat /\ hi \in Nat /\ lo <= hi /\ end \in Places /\ lo \in 0..end /\ lo \in Places
  BY <1>0 DEF Places
<1>2. IF c.action = "yank"
      THEN kill' = From(line, lo, hi) /\ redo' = c.redo /\ UNCHANGED line /\ Refreshed(c.pos)
      ELSE Erase(c, lo, end) /\ Refreshed(lo)
  BY Zenon DEF DelFini
<1> HIDE DEF lo, hi, end
<1>3. map' \in Maps /\ mode' \in Modes /\ mode' = "insert" /\ mode' # "replace1" /\ ModeOK'
  BY DEF Ready, LineOK, ModeOK, Maps
<1>4. c.cmd \in Recorded /\ c.cmd \notin {"vi_replace_char", "vi_alias"} /\ c.cmd \notin Opening
  BY DEF Recorded, Motions, Opening, Seeking
<1>5. /\ line' \in Text /\ kill' \in Text /\ cursor' \in Nat /\ OnLine /\ CutBack
      /\ (redo' = c.redo /\ c.action = "yank") \/ redo' = Started(c)
  <2>1. CASE c.action = "yank"
    <3>1. kill' = From(line, lo, hi) /\ Refreshed(c.pos) /\ redo' = c.redo /\ line' = line
      BY <1>2, <2>1
    <3>2. kill' \in Text
      BY <1>0, <1>1, <3>1, FromIsText
    <3>3. CutBack
      BY <1>0, <3>1 DEF CutBack
    <3>4. cursor' \in Nat /\ OnLine
      BY <1>0, <3>1, RefreshedOn
    <3> QED
      BY <1>0, <2>1, <3>1, <3>2, <3>3, <3>4
  <2>2. CASE c.action # "yank"
    <3>1. Erase(c, lo, end) /\ Refreshed(lo)
      BY <1>2, <2>2
    <3>2. line' \in Text /\ kill' \in Text /\ CutBack /\ redo' = Started(c)
      BY <1>1, <3>1, EraseCuts
    <3>3. cursor' \in Nat /\ OnLine
      BY <1>1, <3>1, <3>2, RefreshedOn
    <3> QED
      BY <3>2, <3>3
  <2> QED
    BY <2>1, <2>2
<1>6. redo' = Started(c) => Begun(c)
  <2>1. map' = "command" => c.action # "change"
    OBVIOUS
  <2> QED
    BY <1>4, <2>1 DEF Begun, GoesIn
<1>7. map' = "insert" => Entered(c)
  <2>1. map' = "insert" => c.action = "change"
    OBVIOUS
  <2> QED
    BY <1>3, <1>4, <1>5, <2>1 DEF Entered, DropArgs, GoesIn
<1>8. LineOK'
  BY <1>3, <1>5 DEF LineOK
<1> QED
  BY <1>0, <1>3, <1>4, <1>5, <1>6, <1>7, <1>8 DEF Done

\* What waits is kept.
LEMMA WaitDone ==
  ASSUME NEW c, Ready(c), map = "command", UNCHANGED <<line, cursor, kill>>, SameMap,
         pushed' = c.rest, redo' = c.redo, count' \in Nat,
         action' \in Actions, pos' \in Nat, action' # "NOP" => pos' \in Places
  PROVE  Done(c)
<1>1. LineOK' /\ ModeOK' /\ ~(map' = "insert") /\ line' = line /\ OnLine /\ Follows(c)
  BY ReadyFacts, SameOn DEF Ready, LineOK, ModeOK, SameMap, Follows
<1>2. Waits
  BY <1>1 DEF Waits
<1>3. CutBack
  BY <1>1, ReadyFacts DEF CutBack
<1> QED
  BY <1>1, <1>2, <1>3, ReadyFacts DEF Done

LEMMA DigitDone ==
  ASSUME NEW c, Ready(c), map = "command", NEW d \in Nat, ed_argument_digit(c, d)
  PROVE  Done(c)
<1>1. count' \in Nat
  BY ReadyFacts DEF ed_argument_digit
<1> QED
  BY <1>1, ReadyFacts, WaitDone DEF ed_argument_digit

-------------------------------------------------------------------------------
(* Motions.                                                                *)

\* To anywhere, which may be behind the line.
LEMMA FarMotionDone ==
  ASSUME NEW c, Ready(c), map = "command", NEW p \in Nat, NEW q \in Nat, c.cmd \in Motions, Motion(c, p, q)
  PROVE  Done(c)
<1>1. CASE c.action = "NOP"
  BY <1>1, GoDone DEF Motion
<1>2. CASE c.action # "NOP"
  <2>1. /\ DelFini(c, q) /\ Quiet(c)
        /\ map' = (IF c.action = "change" THEN "insert" ELSE map) /\ UNCHANGED mode
    BY <1>2, Zenon DEF Motion
  <2>2. pushed' = c.rest /\ DropArgs
    BY <2>1 DEF Quiet
  <2> QED
    BY <1>2, <2>1, <2>2, DelFiniDone
<1> QED
  BY <1>1, <1>2

LEMMA MotionDone ==
  ASSUME NEW c, Ready(c), map = "command", NEW p \in Places, NEW q \in Places, c.cmd \in Motions, Motion(c, p, q)
  PROVE  Done(c)
<1>1. p \in Nat /\ q \in Nat
  BY ReadyFacts DEF Places
<1> QED
  BY <1>1, FarMotionDone

LEMMA WordsDone ==
  ASSUME NEW c, Ready(c), map = "command", NEW big, c.cmd \in Motions,
         PrevWordOf(c, big) \/ NextWordOf(c, big) \/ EndWordOf(c, big)
  PROVE  Done(c)
<1> DEFINE n == Argument(c)
<1>0. LineOK /\ cursor \in Places /\ n \in Nat \ {0} /\ n \in Nat
  BY ReadyFacts
<1> HIDE DEF n
<1>1. CASE Fail(c)
  BY <1>1, FailDone
<1>2. CASE PrevWordOf(c, big) /\ ~Fail(c)
  <2> DEFINE p == ViPrevWord(big, n)
  <2>1. Motion(c, p, p)
    BY <1>2 DEF PrevWordOf, n
  <2>2. p \in Places
    BY <1>0, ViPrevWordStays
  <2> HIDE DEF p
  <2> QED
    BY <2>1, <2>2, MotionDone
<1>3. CASE NextWordOf(c, big) /\ ~Fail(c)
  <2> DEFINE p == ViNextWord(c, big, n)
  <2>1. Motion(c, p, p)
    BY <1>3 DEF NextWordOf, n
  <2>2. p \in Places
    BY <1>0, ViNextWordStays
  <2> HIDE DEF p
  <2> QED
    BY <2>1, <2>2, MotionDone
<1>4. CASE EndWordOf(c, big) /\ ~Fail(c)
  <2> DEFINE p == ViEndWord(big, n)
             q == p + 1
  <2>1. Motion(c, p, q) /\ cursor # Len(line)
    BY <1>4 DEF EndWordOf, n
  <2>2. p \in Places /\ q \in Places
    BY <1>0, <2>1, ViEndWordStays
  <2> HIDE DEF p, q
  <2> QED
    BY <2>1, <2>2, MotionDone
<1> QED
  BY <1>1, <1>2, <1>3, <1>4

LEMMA GraphemesPlaces ==
  ASSUME LineOK, NEW p \in Places, NEW n \in Nat
  PROVE  NextGraphemes(line, p, n) \in Places /\ NextGraphemes(line, p, n) >= p
         /\ PrevGraphemes(line, p, n) \in 0..p /\ PrevGraphemes(line, p, n) \in Places
<1>1. Len(line) \in Nat /\ p \in 0..Len(line) /\ line \in Text
  BY TextLen DEF LineOK, Places
<1>2. NextGraphemes(line, p, n) \in p..Len(line)
  BY <1>1, NextGraphemesStay DEF Behind
<1>3. PrevGraphemes(line, p, n) \in 0..p
  BY <1>1, PrevGraphemesStay DEF Ahead
<1> QED
  BY <1>1, <1>2, <1>3 DEF Places

LEMMA StepsDone ==
  ASSUME NEW c, Ready(c), map = "command", c.cmd \in Motions,
         \/ ed_move_to_beg(c) \/ ed_move_to_end(c) \/ ed_next_char(c) \/ ed_prev_char(c)
         \/ vi_zero(c) \/ vi_to_column(c) \/ Fail(c)
  PROVE  Done(c)
<1>0. LineOK /\ cursor \in Places /\ Len(line) \in Nat /\ Argument(c) \in Nat /\ Argument(c) - 1 \in Nat
      /\ 0 \in Places /\ Len(line) \in Places /\ line \in Text
  BY ReadyFacts DEF Places
<1>1. CASE Fail(c)
  BY <1>1, FailDone
<1>2. CASE ed_move_to_beg(c)
  <2> DEFINE p == SkipOn(line, 0, Spaces)
  <2>1. p \in Nat
    BY <1>0, SkipOnStops DEF Places
  <2>2. PICK q \in {p, p + 1} : Motion(c, q, q)
    BY <1>2 DEF ed_move_to_beg
  <2> HIDE DEF p
  <2>3. q \in Nat
    BY <2>1
  <2> QED
    BY <2>2, <2>3, FarMotionDone
<1>3. CASE ed_move_to_end(c)
  <2> DEFINE p == IF line = <<>> THEN 0 ELSE Len(line) - 1
             q == Len(line)
  <2>1. p \in Places
    <3>1. line # <<>> => Len(line) # 0
      BY <1>0, EmptySeq DEF Text
    <3> QED
      BY <1>0, <3>1 DEF Places
  <2>2. Motion(c, p, q) /\ q \in Places
    BY <1>0, <1>3 DEF ed_move_to_end
  <2> HIDE DEF p, q
  <2> QED
    BY <2>1, <2>2, MotionDone
<1>4. CASE ed_next_char(c) /\ ~Fail(c)
  <2> DEFINE p == NextGraphemes(line, cursor, Argument(c))
  <2>1. p \in Places
    BY <1>0, GraphemesPlaces
  <2>2. Motion(c, p, p)
    BY <1>4 DEF ed_next_char, CharsOn
  <2> HIDE DEF p
  <2> QED
    BY <2>1, <2>2, MotionDone
<1>5. CASE ed_prev_char(c) /\ ~Fail(c)
  <2> DEFINE p == PrevGraphemes(line, cursor, Argument(c))
  <2>1. p \in Places
    BY <1>0, GraphemesPlaces
  <2>2. Motion(c, p, p)
    BY <1>5 DEF ed_prev_char
  <2> HIDE DEF p
  <2> QED
    BY <2>1, <2>2, MotionDone
<1>6. CASE vi_zero(c)
  BY <1>0, <1>6, MotionDone, DigitDone DEF vi_zero
<1>7. CASE vi_to_column(c)
  <2> DEFINE m == Argument(c) - 1
             p == NextGraphemes(line, 0, m)
  <2>1. p \in Places
    BY <1>0, GraphemesPlaces
  <2>2. Motion(c, p, p) \/ Go(c, 0)
    BY <1>7 DEF vi_to_column
  <2> HIDE DEF p
  <2> QED
    BY <1>0, <2>1, <2>2, MotionDone, GoDone
<1> QED
  BY <1>1, <1>2, <1>3, <1>4, <1>5, <1>6, <1>7

LEMMA MatchDone ==
  ASSUME NEW c, Ready(c), map = "command", c.cmd \in Motions, vi_match(c)
  PROVE  Done(c)
<1> DEFINE p == SkipOn(line, cursor, Char \ Brackets)
           q == Partner(p)
           r == q + 1
<1>1. CASE Fail(c)
  BY <1>1, FailDone
<1>2. CASE ~Fail(c)
  <2>1. p # Len(line) /\ q # -1 /\ Motion(c, q, r)
    BY <1>2 DEF vi_match
  <2>2. Len(line) \in Nat /\ p \in cursor..Len(line) /\ cursor \in Nat
    BY ReadyFacts, SkipOnStops
  <2> HIDE DEF p
  <2>3. q \in 0..(Len(line) - 1)
    <3> DEFINE mine == At(line, p)
               depth(x) == Cardinality({i \in (IF p < x THEN p..x ELSE x..p) : At(line, i) = mine})
                  - Cardinality({i \in (IF p < x THEN p..x ELSE x..p) : At(line, i) \in Brackets \ {mine}})
               ends == {x \in (IF mine = Open THEN p..(Len(line) - 1) ELSE 0..p) : depth(x) = 0}
               best(x) == \A y \in ends : IF mine = Open THEN x <= y ELSE y <= x
    <3>1. q = IF ends = {} THEN -1 ELSE CHOOSE x \in ends : best(x)
      BY Zenon DEF Partner
    <3>2. ends \subseteq 0..(Len(line) - 1)
      <4> HIDE DEF depth
      <4> QED
        BY <2>1, <2>2
    <3>3. \A x \in ends : x \in Nat
      <4> HIDE DEF ends
      <4> QED
        BY <2>2, <3>2
    <3>4. ends # {} => \E x \in ends : best(x)
      <4> SUFFICES ASSUME ends # {} PROVE \E x \in ends : best(x)
        OBVIOUS
      <4>1. CASE mine = Open
        <5>1. PICK x \in ends : \A y \in ends : x <= y
          <6> HIDE DEF ends
          <6> QED
            BY <3>3, LeastNumber
        <5> QED
          BY <4>1, <5>1
      <4>2. CASE mine # Open
        <5> DEFINE N == Len(line)
                   mirror == {N - y : y \in ends}
        <5>1. mirror \subseteq Nat /\ mirror # {}
          <6> HIDE DEF ends
          <6>1. \A y \in ends : N - y \in Nat
            <7> SUFFICES ASSUME NEW y \in ends PROVE N - y \in Nat
              OBVIOUS
            <7>1. y \in 0..(Len(line) - 1)
              BY <3>2
            <7> QED
              BY <2>2, <7>1
          <6> HIDE DEF N
          <6> QED
            BY <6>1
        <5>2. PICK m \in mirror : \A y \in mirror : m <= y
          <6> HIDE DEF mirror
          <6> QED
            BY <5>1, LeastNumber
        <5>3. PICK x \in ends : m = N - x
          OBVIOUS
        <5>4. ASSUME NEW y \in ends PROVE y <= x
          <6>1. m <= N - y
            BY <5>2
          <6> HIDE DEF ends
          <6> QED
            BY <2>2, <3>3, <5>3, <6>1
        <5> QED
          BY <4>2, <5>4
      <4> QED
        BY <4>1, <4>2
    <3> HIDE DEF ends, best
    <3>5. q \in ends
      BY <2>1, <3>1, <3>4
    <3> QED
      BY <3>2, <3>5
  <2> HIDE DEF q
  <2>4. q \in Places /\ r \in Places
    BY <2>2, <2>3 DEF Places
  <2> HIDE DEF r
  <2> QED
    BY <2>1, <2>4, MotionDone
<1> QED
  BY <1>1, <1>2

LEMMA CharSearchDone ==
  ASSUME NEW c, Ready(c), map = "command", c.cmd \in Motions,
         NEW ch, NEW dir \in {-1, 1}, NEW to \in BOOLEAN, CharSearch(c, ch, dir, to)
  PROVE  Done(c)
<1> DEFINE found == {q \in (IF dir = 1 THEN (cursor + 1)..(Len(line) - 1) ELSE 0..(cursor - 1)) : At(line, q) = ch}
           nth == {q \in found : Cardinality({r \in found : IF dir = 1 THEN r <= q ELSE r >= q}) = Argument(c)}
           x == CHOOSE q \in nth : TRUE
           p == x - (IF to THEN dir ELSE 0)
           e == IF dir = 1 THEN p + 1 ELSE p
<1>1. CASE Fail(c)
  BY <1>1, FailDone
<1>2. CASE ~Fail(c)
  <2>1. nth # {} /\ Motion(c, p, e)
    BY <1>2 DEF CharSearch
  <2>2. x \in found
    <3>1. nth \subseteq found
      OBVIOUS
    <3> HIDE DEF nth, found
    <3> QED
      BY <2>1, <3>1
  <2>3. IF dir = 1 THEN x \in (cursor + 1)..(Len(line) - 1) ELSE x \in 0..(cursor - 1)
    BY <2>2
  <2> HIDE DEF x
  <2>4. p \in Places /\ e \in Places
    BY <2>3, ReadyFacts DEF Places
  <2> HIDE DEF p, e
  <2> QED
    BY <2>1, <2>4, MotionDone
<1> QED
  BY <1>1, <1>2

\* A command that has read a key that was waiting.
LEMMA ReadFirst ==
  ASSUME NEW c, Ready(c), NEW r \in Seq(Key)
  PROVE  LET d == [c EXCEPT !.rest = r] IN
         /\ Ready(d) /\ d.cmd = c.cmd
         /\ Done(d) /\ c.cmd \in Seeking \cup {"vi_alias"} /\ (c.rest = <<>> /\ c.cmd \in Seeking => r = <<>>)
            => Done(c)
<1> DEFINE d == [c EXCEPT !.rest = r]
<1>1. c \in Context
  BY DEF Ready
<1>2. /\ d \in Context /\ d.cmd = c.cmd /\ d.count = c.count /\ d.action = c.action /\ d.pos = c.pos
      /\ d.redo = c.redo /\ d.rest = r
  BY <1>1 DEF Context
<1> HIDE DEF d
<1>3. Ready(d)
  BY <1>2 DEF Ready
<1>4. Started(d) = Started(c) /\ (GoesIn(d) <=> GoesIn(c))
  BY <1>2 DEF Started, GoesIn
<1>5. ASSUME Done(d), c.cmd \in Seeking \cup {"vi_alias"}, c.rest = <<>> /\ c.cmd \in Seeking => r = <<>>
      PROVE  Done(c)
  <2>1. (Begun(d) => Begun(c)) /\ (Entered(d) => Entered(c)) /\ (Follows(d) => Follows(c))
    BY <1>2, <1>4, <1>5 DEF Begun, Entered, Follows
  <2> QED
    BY <1>2, <1>5, <2>1 DEF Done
<1> QED
  BY <1>2, <1>3, <1>5 DEF d

SearchOK == search = NoSearch \/ (search.dir \in {-1, 1} /\ search.to \in BOOLEAN)

LEMMA NamedDone ==
  ASSUME NEW c, Ready(c), map = "command", c.cmd \in Seeking, NEW dir \in {-1, 1}, NEW to \in BOOLEAN,
         Named(c, dir, to)
  PROVE  Done(c) /\ SearchOK'
<1> DEFINE r == IF c.rest = <<>> THEN c.rest ELSE Tail(c.rest)
           d == [c EXCEPT !.rest = r]
<1>1. r \in Seq(Key) /\ (c.rest = <<>> => r = <<>>)
  <2>1. c.rest \in Seq(Key)
    BY ReadyFacts
  <2>2. c.rest # <<>> => Tail(c.rest) \in Seq(Key)
    BY <2>1, HeadTailProperties
  <2> QED
    BY <2>1, <2>2
<1>2. d = [c EXCEPT !.rest = IF @ = <<>> THEN @ ELSE Tail(@)]
  OBVIOUS
<1>3. PICK ch : CharSearch(d, ch, dir, to) /\ search' = [cha |-> ch, dir |-> dir, to |-> to]
  BY <1>2, Zenon DEF Named
<1>4. SearchOK'
  BY <1>3 DEF SearchOK
<1> HIDE DEF r
<1>5. Ready(d) /\ d.cmd = c.cmd /\ (Done(d) => Done(c))
  BY <1>1, ReadFirst
<1> HIDE DEF d
<1>6. Done(d)
  BY <1>3, <1>5, CharSearchDone DEF Motions
<1> QED
  BY <1>4, <1>5, <1>6

LEMMA AgainDone ==
  ASSUME NEW c, Ready(c), map = "command", c.cmd \in Motions, SearchOK,
         vi_repeat_next_char(c) \/ vi_repeat_prev_char(c)
  PROVE  Done(c) /\ SearchOK'
<1>1. Again(c, search.dir) \/ Again(c, -search.dir)
  BY DEF vi_repeat_next_char, vi_repeat_prev_char
<1>2. SearchOK'
  BY <1>1 DEF Again, SearchOK
<1>3. CASE search = NoSearch
  BY <1>1, <1>2, <1>3, FailDone DEF Again
<1>4. CASE search # NoSearch
  <2>1. search.dir \in {-1, 1} /\ -search.dir \in {-1, 1} /\ search.to \in BOOLEAN
    BY <1>4 DEF SearchOK
  <2>2. PICK dir \in {-1, 1} : CharSearch(c, search.cha, dir, search.to)
    BY <1>1, <1>4, <2>1 DEF Again
  <2> QED
    BY <1>2, <2>1, <2>2, CharSearchDone
<1> QED
  BY <1>3, <1>4

-------------------------------------------------------------------------------
(* Operators and changes.                                                  *)

LEMMA OperatorDone ==
  ASSUME NEW c, Ready(c), map = "command", NEW op \in {"delete", "change", "yank"},
         c.cmd = "vi_delete_meta" <=> op = "delete", c.cmd = "vi_change_meta" <=> op = "change",
         c.cmd \notin Opening \cup Motions \cup {"vi_alias", "ed_unassigned"},
         Operator(c, op)
  PROVE  Done(c)
<1>0. /\ Len(line) \in Nat /\ line \in Text /\ cursor \in Places /\ cursor \in Nat /\ c.action \in Actions
      /\ cursor <= Len(line)
  BY ReadyFacts
<1>1. CASE c.action = "NOP"
  BY <1>0, <1>1, ReadyFacts, WaitDone DEF Operator, Actions
<1>2. CASE c.action # "NOP" /\ c.action # op
  BY <1>2, FailDone DEF Operator
<1>3. CASE c.action # "NOP" /\ c.action = op
  <2>1. /\ Quiet(c) /\ kill' = line
        /\ IF op = "yank" THEN redo' = c.redo /\ SameMap /\ UNCHANGED line /\ Refreshed(cursor)
           ELSE /\ redo' = Started(c) /\ line' = <<>> /\ cursor' = 0
                /\ map' = (IF op = "change" THEN "insert" ELSE map) /\ UNCHANGED mode
    BY <1>3, Zenon DEF Operator
  <2>2. CASE op = "yank"
    <3>1. CutBack
      BY <1>0, <2>1, <2>2 DEF CutBack
    <3>2. cursor' \in 0..Len(line') /\ OnLine
      BY <1>0, <2>1, <2>2, RefreshedOn
    <3> QED
      BY <1>0, <2>1, <2>2, <3>1, <3>2, EditDone
  <2>3. CASE op # "yank"
    <3>1. line' = <<>> /\ cursor' = 0 /\ kill' = line /\ redo' = Started(c) /\ mode' = mode /\ mode = "insert"
      BY <2>1, <2>3 DEF Ready, ModeOK
    <3>2. Len(line') = 0 /\ line' \in Text /\ cursor' \in 0..Len(line') /\ OnLine
      BY <3>1, EmptySeq DEF Text, OnLine
    <3>3. CutBack
      <4>1. Inserted(line', 0, kill') = line
        <5>1. SubSeq(<<>>, 1, 0) = <<>> /\ <<>> \o line \o <<>> = line /\ SubSeq(<<>>, 0 + 1, Len(<<>>)) = <<>>
          BY <1>0 DEF Text
        <5> QED
          BY <3>1, <5>1 DEF Inserted
      <4> QED
        BY <3>2, <4>1 DEF CutBack
    <3>4. CASE op = "delete"
      <4>1. SameMap /\ ~GoesIn(c) /\ c.cmd \in Recorded
        BY <1>3, <2>1, <3>1, <3>4 DEF SameMap, GoesIn, Recorded, Changing
      <4> QED
        BY <1>0, <2>1, <3>1, <3>2, <3>3, <4>1, EditDone
    <3>5. CASE op = "change"
      <4>1. c.cmd \in Recorded /\ c.cmd # "vi_replace_char" /\ GoesIn(c)
        BY <1>3, <3>5 DEF Recorded, Changing, GoesIn
      <4> QED
        BY <1>0, <2>1, <3>1, <3>2, <3>3, <3>5, <4>1, OpenDone
    <3> QED
      BY <2>3, <3>4, <3>5
  <2> QED
    BY <2>2, <2>3
<1> QED
  BY <1>1, <1>2, <1>3

LEMMA Starts ==
  ASSUME NEW c
  PROVE  /\ c.cmd \in Changing \ {"vi_delete_meta", "vi_change_meta"} => c.cmd \in Recorded /\ ~GoesIn(c)
         /\ c.cmd \in Opening => c.cmd \in Recorded
BY DEF Recorded, GoesIn, Changing, Opening, Motions, Seeking

LEMMA PasteDone ==
  ASSUME NEW c, Ready(c), c.cmd \in Changing \ {"vi_delete_meta", "vi_change_meta"},
         vi_paste_next(c) \/ vi_paste_prev(c)
  PROVE  Done(c)
<1>0. Len(line) \in Nat /\ line \in Text /\ kill \in Text /\ cursor \in 0..Len(line) /\ Len(kill) \in Nat
  BY ReadyFacts, TextLen
<1>1. PICK at \in 0..Len(line) : Paste(c, at)
  BY <1>0 DEF vi_paste_next, vi_paste_prev
<1>2. CASE kill = <<>>
  BY <1>1, <1>2, FailDone DEF Paste
<1>3. CASE kill # <<>>
  <2>1. /\ Quiet(c) /\ SameMap /\ redo' = Started(c) /\ kill' = kill
        /\ \/ /\ line' = line /\ cursor' = at /\ Len(line) + Len(kill) >= Limit
           \/ line' \in {Inserted(line, at, kill), Over(line, at, kill)} /\ Refreshed(at)
    BY <1>1, <1>3 DEF Paste, Opens
  <2>a. Inserted(line, at, kill) \in Text /\ Len(Inserted(line, at, kill)) = Len(line) + Len(kill)
    BY <1>0, InsertedIsText
  <2>b. Over(line, at, kill) \in Text /\ Len(Over(line, at, kill)) = Len(line)
    <3>1. at \in Nat
      BY <1>0
    <3> QED
      BY <1>0, <3>1, OverIsText
  <2>2. /\ Inserted(line, at, kill) \in Text /\ Len(Inserted(line, at, kill)) >= Len(line)
        /\ Over(line, at, kill) \in Text /\ Len(Over(line, at, kill)) = Len(line)
    BY <1>0, <2>a, <2>b
  <2>3. line' \in Text /\ Len(line') >= Len(line) /\ Len(line') \in Nat
    BY <1>0, <2>1, <2>2, TextLen
  <2>4. CutBack
    BY <1>0, <2>3 DEF CutBack
  <2>5. CASE line' = line /\ cursor' = at /\ Len(line) + Len(kill) >= Limit
    <3>1. cursor' \in 0..Len(line') /\ OnLine
      BY <1>0, <2>1, <2>5 DEF OnLine, NoRoom
    <3> QED
      BY <1>0, <2>1, <2>3, <2>4, <3>1, Starts, EditDone
  <2>6. CASE Refreshed(at)
    <3>1. cursor' \in 0..Len(line') /\ OnLine
      BY <2>3, <2>6, RefreshedOn
    <3> QED
      BY <1>0, <2>1, <2>3, <2>4, <3>1, Starts, EditDone
  <2> QED
    BY <2>1, <2>5, <2>6
<1> QED
  BY <1>2, <1>3

LEMMA ChangeCaseDone ==
  ASSUME NEW c, Ready(c), c.cmd \in Changing \ {"vi_delete_meta", "vi_change_meta"}, vi_change_case(c)
  PROVE  Done(c)
<1>0. Len(line) \in Nat /\ line \in Text /\ kill \in Text /\ cursor \in Nat /\ Argument(c) \in Nat \ {0}
  BY ReadyFacts
<1>1. CASE cursor >= Len(line)
  BY <1>1, FailDone DEF vi_change_case
<1>2. CASE ~(cursor >= Len(line))
  <2> DEFINE end == IF cursor + Argument(c) > Len(line) THEN Len(line) ELSE cursor + Argument(c)
             turned(ch) == IF ch \in Upper THEN Down[ch] ELSE IF ch \in Lower THEN Up[ch] ELSE ch
             part == From(line, cursor, end)
             t == [i \in 1..Len(part) |-> turned(part[i])]
  <2>1. /\ Quiet(c) /\ SameMap /\ redo' = Started(c) /\ kill' = kill
        /\ line' = Over(line, cursor, t)
        /\ cursor' = IF end = Len(line) THEN end - 1 ELSE end
    BY <1>2, Zenon DEF vi_change_case
  <2>2. end \in Nat /\ cursor < end /\ end <= Len(line)
    BY <1>0, <1>2
  <2> HIDE DEF end
  <2>3. part \in Text
    BY <1>0, <2>2, FromIsText
  <2> HIDE DEF part
  <2>4. Len(part) \in Nat /\ \A i \in 1..Len(part) : part[i] \in Char
    BY <2>3, TextLen
  <2>5. \A ch \in Char : turned(ch) \in Char
    BY CaseAssumption DEF Char
  <2> HIDE DEF turned
  <2>6. t \in [1..Len(part) -> Char]
    BY <2>4, <2>5
  <2> HIDE DEF t
  <2>7. t \in Text
    BY <2>4, <2>6, IsText
  <2>8. line' \in Text /\ Len(line') = Len(line)
    BY <1>0, <2>1, <2>7, OverIsText
  <2>9. cursor' \in 0..Len(line') /\ cursor' \in Nat /\ cursor' < Len(line') /\ CutBack
    BY <1>0, <2>1, <2>2, <2>8 DEF CutBack
  <2>10. OnLine
    BY <1>0, <2>8, <2>9, BeforeEndOn
  <2> QED
    BY <1>0, <2>1, <2>8, <2>9, <2>10, Starts, EditDone
<1> QED
  BY <1>1, <1>2

LEMMA DeletesDone ==
  ASSUME NEW c, Ready(c), c.cmd \in Changing \ {"vi_delete_meta", "vi_change_meta"},
         \/ c.cmd = "ed_delete_prev_char" /\ ed_delete_prev_char(c)
         \/ ed_delete_next_char(c) \/ ed_delete_prev_word(c) \/ vi_kill_line_prev(c)
  PROVE  Done(c)
<1>0. /\ Len(line) \in Nat /\ line \in Text /\ kill \in Text /\ cursor \in Nat /\ Argument(c) \in Nat \ {0}
      /\ cursor \in 0..Len(line) /\ cursor <= Len(line) /\ LineOK /\ cursor \in Places
  BY ReadyFacts
<1>s. c.cmd \in Recorded /\ ~GoesIn(c)
  BY Starts
<1>1. CASE Fail(c)
  BY <1>1, FailDone
<1>2. CASE c.cmd = "ed_delete_prev_char" /\ ed_delete_prev_char(c) /\ ~Fail(c)
  <2> DEFINE from == PrevGraphemes(line, cursor, Argument(c))
             e == IF NextGrapheme(line, from) < cursor THEN NextGrapheme(line, from) ELSE cursor
  <2>1. /\ Quiet(c) /\ SameMap /\ redo' = Started(c) /\ line' = Without(line, from, cursor) /\ Refreshed(from)
        /\ kill' = Grapheme(line, from, cursor)
    BY <1>2, Zenon DEF ed_delete_prev_char
  <2>2. from \in 0..cursor
    BY <1>0, GraphemesPlaces
  <2> HIDE DEF from
  <2>3. NextGrapheme(line, from) \in from..Len(line)
    BY <1>0, <2>2, NextGraphemeStays
  <2>4. e \in Nat /\ from \in Nat /\ from <= e
    BY <1>0, <2>2, <2>3
  <2>5. kill' = From(line, from, e)
    BY <2>1 DEF Grapheme
  <2> HIDE DEF e
  <2>6. kill' \in Text
    BY <1>0, <2>4, <2>5, FromIsText
  <2>7. line' \in Text /\ Len(line') = Len(line) - (cursor - from)
    BY <1>0, <2>1, <2>2, WithoutIsText
  <2>8. cursor' \in 0..Len(line') /\ OnLine
    BY <2>1, <2>4, <2>7, RefreshedOn
  <2>9. CutBack
    <3>1. redo'.cmd = "ed_delete_prev_char"
      BY <1>2, <2>1 DEF Started
    <3> QED
      BY <2>1, <2>2, <3>1 DEF CutBack, CutByGraphemes
  <2> QED
    BY <1>s, <2>1, <2>6, <2>7, <2>8, <2>9, EditDone
<1>3. CASE ed_delete_next_char(c) /\ ~Fail(c)
  <2> DEFINE at == IF cursor = Len(line) THEN cursor - 1 ELSE cursor
             end == NextGraphemes(line, at, Argument(c))
  <2>1. line # <<>> /\ Quiet(c) /\ SameMap /\ Erase(c, at, end)
        /\ Refreshed(IF at >= Len(line') /\ at > 0 THEN Len(line') - 1 ELSE at)
    BY <1>3, Zenon DEF ed_delete_next_char
  <2>2. Len(line) # 0
    BY <1>0, <2>1, EmptySeq DEF Text
  <2>3. at \in Places /\ at \in Nat
    BY <1>0, <2>2 DEF Places
  <2> HIDE DEF at
  <2>4. end \in Places /\ end >= at
    BY <1>0, <2>3, GraphemesPlaces
  <2> HIDE DEF end
  <2>5. at \in 0..end
    BY <1>0, <2>3, <2>4 DEF Places
  <2>6. line' \in Text /\ kill' \in Text /\ CutBack /\ at \in 0..Len(line') /\ redo' = Started(c)
    BY <2>1, <2>4, <2>5, EraseCuts
  <2> DEFINE to == IF at >= Len(line') /\ at > 0 THEN Len(line') - 1 ELSE at
  <2>7. to \in Nat
    BY <2>3, <2>6, TextLen
  <2>8. Refreshed(to)
    BY <2>1
  <2> HIDE DEF to
  <2>9. cursor' \in 0..Len(line') /\ OnLine
    BY <2>6, <2>7, <2>8, RefreshedOn
  <2> QED
    BY <1>s, <2>1, <2>6, <2>9, EditDone
<1>4. CASE ed_delete_prev_word(c) /\ ~Fail(c)
  <2> DEFINE p == PrevWord(line, cursor, Argument(c))
  <2>1. Quiet(c) /\ SameMap /\ Erase(c, p, cursor) /\ Refreshed(p)
    BY <1>4, Zenon DEF ed_delete_prev_word
  <2>2. p \in 0..cursor
    BY <1>0, PrevWordStays DEF Ahead
  <2> HIDE DEF p
  <2>3. line' \in Text /\ kill' \in Text /\ CutBack /\ redo' = Started(c)
    BY <1>0, <2>1, <2>2, EraseCuts
  <2>4. p \in Nat
    BY <1>0, <2>2
  <2>5. cursor' \in 0..Len(line') /\ OnLine
    BY <2>1, <2>3, <2>4, RefreshedOn
  <2> QED
    BY <1>s, <2>1, <2>3, <2>5, EditDone
<1>5. CASE vi_kill_line_prev(c)
  <2>1. Quiet(c) /\ SameMap /\ Erase(c, 0, cursor) /\ cursor' = 0 /\ 0 \in 0..cursor
    BY <1>0, <1>5 DEF vi_kill_line_prev
  <2>2. line' \in Text /\ kill' \in Text /\ CutBack /\ 0 \in 0..Len(line') /\ redo' = Started(c)
    BY <1>0, <2>1, EraseCuts
  <2>3. OnLine
    <3>1. Len(line') \in Nat /\ (line' # <<>> => Len(line') # 0)
      BY <2>2, EmptySeq, TextLen DEF Text
    <3> QED
      BY <2>1, <3>1 DEF OnLine
  <2> QED
    BY <1>s, <2>1, <2>2, <2>3, EditDone
<1> QED
  BY <1>1, <1>2, <1>3, <1>4, <1>5

LEMMA KillAndYankDone ==
  ASSUME NEW c, Ready(c), ed_kill_line(c) \/ vi_yank_end(c)
  PROVE  Done(c)
<1> DEFINE n == Len(line)
<1>0. /\ n \in Nat /\ line \in Text /\ kill \in Text /\ cursor \in Nat /\ cursor <= n
      /\ cursor \in 0..n /\ n \in 0..n
  BY ReadyFacts
<1>1. Quiet(c) /\ SameMap /\ redo' = c.redo /\ Refreshed(cursor) /\ kill' = From(line, cursor, n)
  BY DEF ed_kill_line, vi_yank_end
<1>2. kill' \in Text
  BY <1>0, <1>1, FromIsText
<1>3. CASE vi_yank_end(c)
  <2>1. line' = line /\ CutBack
    BY <1>0, <1>3 DEF vi_yank_end, CutBack
  <2>2. cursor' \in 0..Len(line') /\ OnLine
    BY <1>0, <1>1, <2>1, RefreshedOn
  <2> QED
    BY <1>0, <1>1, <1>2, <2>1, <2>2, EditDone
<1>4. CASE ed_kill_line(c)
  <2>1. line' = SubSeq(line, 1, cursor)
    BY <1>4 DEF ed_kill_line
  <2>2. line' \in Text /\ Len(line') = cursor
    BY <1>0, <2>1, SubSeqProperties DEF Text
  <2>3. Without(line, cursor, n) = line'
    <3>1. SubSeq(line, n + 1, Len(line)) = <<>> /\ line' \o <<>> = line'
      BY <1>0, <2>2 DEF Text
    <3> QED
      BY <2>1, <3>1 DEF Without
  <2>4. Inserted(line', cursor, kill') = line
    BY <1>0, <1>1, <2>3, CutGoesBack
  <2>5. CutBack /\ cursor' \in 0..Len(line') /\ OnLine
    <3>1. cursor' \in 0..Len(line') /\ OnLine
      BY <1>0, <1>1, <2>2, RefreshedOn
    <3> QED
      BY <1>0, <2>2, <2>4, <3>1 DEF CutBack
  <2> QED
    BY <1>1, <1>2, <2>2, <2>5, EditDone
<1> QED
  BY <1>3, <1>4

-------------------------------------------------------------------------------
(* Into the insert map.                                                    *)

LEMMA InsertAtDone ==
  ASSUME NEW c, Ready(c), map = "command", c.cmd \in Opening \ {"vi_replace_char"},
         vi_insert(c) \/ vi_insert_at_bol(c) \/ vi_add(c) \/ vi_add_at_eol(c) \/ vi_replace_mode(c)
  PROVE  Done(c)
<1>0. Len(line) \in Nat /\ line \in Text /\ kill \in Text /\ cursor \in 0..Len(line) /\ mode = "insert"
  BY ReadyFacts DEF Ready, ModeOK
<1>1. /\ Quiet(c) /\ map' = "insert" /\ mode' \in {"insert", "replace"} /\ redo' = Started(c)
      /\ line' = line /\ kill' = kill
  BY <1>0
  DEF vi_insert, vi_insert_at_bol, vi_add, vi_add_at_eol, vi_replace_mode, InsertAt, IntoInsert
<1>2. cursor' \in 0..Len(line')
  BY <1>0, <1>1 DEF vi_insert, vi_insert_at_bol, vi_add, vi_add_at_eol, vi_replace_mode, InsertAt
<1>3. CutBack
  BY <1>0, <1>1 DEF CutBack
<1>4. c.cmd \in Recorded /\ GoesIn(c)
  BY Starts DEF GoesIn
<1> QED
  BY <1>0, <1>1, <1>2, <1>3, <1>4, OpenDone

\* What is erased from p to q, with the map entered.
LEMMA SubstituteDone ==
  ASSUME NEW c, Ready(c), map = "command", c.cmd \in Opening \ {"vi_replace_char"},
         vi_substitute_char(c) \/ vi_substitute_line(c) \/ vi_change_to_eol(c)
  PROVE  Done(c)
<1>0. /\ Len(line) \in Nat /\ line \in Text /\ cursor \in Nat /\ cursor <= Len(line) /\ mode = "insert"
      /\ Argument(c) \in Nat \ {0}
  BY ReadyFacts DEF Ready, ModeOK
<1>1. Quiet(c) /\ IntoInsert
  BY DEF vi_substitute_char, vi_substitute_line, vi_change_to_eol
<1>2. PICK p \in Nat, q \in Nat : p <= q /\ q <= Len(line) /\ Erase(c, p, q) /\ cursor' = p
  <2>1. CASE vi_substitute_char(c)
    <3> DEFINE end == IF cursor + Argument(c) > Len(line) THEN Len(line) ELSE cursor + Argument(c)
    <3>1. Erase(c, cursor, end) /\ cursor' = cursor
      BY <2>1 DEF vi_substitute_char
    <3>2. end \in Nat /\ cursor <= end /\ end <= Len(line)
      BY <1>0
    <3> HIDE DEF end
    <3> QED
      BY <1>0, <3>1, <3>2
  <2>2. CASE vi_substitute_line(c)
    <3>1. Erase(c, 0, Len(line)) /\ cursor' = 0
      BY <2>2 DEF vi_substitute_line
    <3> QED
      BY <1>0, <3>1
  <2>3. CASE vi_change_to_eol(c)
    <3>1. Erase(c, cursor, Len(line)) /\ cursor' = cursor
      BY <2>3 DEF vi_change_to_eol
    <3> QED
      BY <1>0, <3>1
  <2> QED
    BY <2>1, <2>2, <2>3
<1>3. q \in Places /\ p \in 0..q
  BY <1>2 DEF Places
<1>4. line' \in Text /\ kill' \in Text /\ CutBack /\ p \in 0..Len(line') /\ redo' = Started(c)
  BY <1>2, <1>3, EraseCuts
<1>5. c.cmd \in Recorded /\ GoesIn(c) /\ map' = "insert" /\ mode' = "insert"
  BY <1>0, <1>1, Starts DEF GoesIn, IntoInsert
<1> QED
  BY <1>1, <1>2, <1>4, <1>5, OpenDone

LEMMA ReplaceCharDone ==
  ASSUME NEW c, Ready(c), map = "command", c.cmd = "vi_replace_char", vi_replace_char(c)
  PROVE  Done(c)
<1>1. CASE Fail(c)
  BY <1>1, FailDone
<1>2. CASE ~Fail(c)
  <2>1. /\ pushed' = c.rest /\ KeepArgs(c) /\ redo' = Started(c) /\ map' = "insert" /\ mode' = "replace1"
        /\ line' = line /\ cursor' = cursor /\ kill' = kill
    BY <1>2 DEF vi_replace_char
  <2>2. LineOK' /\ ModeOK' /\ OnLine
    BY <2>1, ReadyFacts, SameOn DEF LineOK, ModeOK, Maps, Modes
  <2>3. Follows(c) /\ CutBack /\ Waits
    BY <2>1, ReadyFacts DEF Follows, CutBack, Waits, KeepArgs, Actions
  <2>4. Begun(c) /\ Entered(c)
    BY <2>1, Starts DEF Begun, Entered, GoesIn, Opening, KeepArgs
  <2> QED
    BY <2>1, <2>2, <2>3, <2>4 DEF Done
<1> QED
  BY <1>1, <1>2

LEMMA WordsAreTexts ==
  ASSUME NEW s \in Text, NEW w \in WordsOf(s)
  PROVE  w \in Text
<1>1. Len(s) \in Nat /\ s \in Seq(Char)
  BY TextLen DEF Text
<1>2. PICK i \in 1..Len(s), j \in 1..Len(s) : i <= j /\ w = SubSeq(s, i, j)
  BY DEF WordsOf
<1>3. i \in 1..Len(s) + 1 /\ j \in i - 1..Len(s)
  BY <1>1, <1>2
<1> QED
  BY <1>1, <1>2, <1>3, SubSeqProperties DEF Text

LEMMA HistoryWordDone ==
  ASSUME NEW c, Ready(c), map = "command", c.cmd = "vi_history_word", vi_history_word(c)
  PROVE  Done(c)
<1>0. Len(line) \in Nat /\ line \in Text /\ kill \in Text /\ cursor \in Nat /\ cursor <= Len(line) /\ mode = "insert"
  BY ReadyFacts DEF Ready, ModeOK
<1>1. CASE Fail(c)
  BY <1>1, FailDone
<1>2. CASE ~Fail(c)
  <2> DEFINE at == IF cursor < Len(line) THEN cursor + 1 ELSE cursor
  <2>s. PICK s \in Events : \E w \in WordsOf(s) : \E ok \in BOOLEAN :
          LET text == <<Blank>> \o w IN
          /\ Quiet(c) /\ IntoInsert /\ redo' = Started(c) /\ kill' = kill
          /\ line' = IF ok THEN Inserted(line, at, text) ELSE Over(line, at, text)
          /\ Refreshed(at + Len(text))
    BY <1>2, Zenon DEF vi_history_word
  <2>1. PICK w \in WordsOf(s) : \E ok \in BOOLEAN :
          LET text == <<Blank>> \o w IN
          /\ Quiet(c) /\ IntoInsert /\ redo' = Started(c) /\ kill' = kill
          /\ line' = IF ok THEN Inserted(line, at, text) ELSE Over(line, at, text)
          /\ Refreshed(at + Len(text))
    BY <2>s
  <2> DEFINE text == <<Blank>> \o w
  <2>2. text \in Text
    <3>1. w \in Text
      BY TextsAssumption, WordsAreTexts
    <3>2. <<Blank>> \in Text
      BY CharsAreApart DEF Text, Char, Other
    <3> QED
      BY <3>1, <3>2, ConcatProperties DEF Text
  <2>3. at \in 0..Len(line) /\ at \in Nat
    BY <1>0
  <2>4. /\ Quiet(c) /\ IntoInsert /\ redo' = Started(c) /\ kill' = kill
        /\ line' \in {Inserted(line, at, text), Over(line, at, text)}
        /\ Refreshed(at + Len(text))
    BY <2>1
  <2> HIDE DEF at, text
  <2>5. Len(text) \in Nat
    BY <2>2, TextLen
  <2>6. Inserted(line, at, text) \in Text /\ Len(Inserted(line, at, text)) = Len(line) + Len(text)
    BY <1>0, <2>2, <2>3, InsertedLength
  <2>7. Over(line, at, text) \in Text /\ Len(Over(line, at, text)) = Len(line)
    BY <1>0, <2>2, <2>3, OverIsText
  <2>8. line' \in Text /\ Len(line') >= Len(line) /\ Len(line') \in Nat
    BY <1>0, <2>4, <2>5, <2>6, <2>7
  <2>9. cursor' \in Nat /\ OnLine
    <3> DEFINE to == at + Len(text)
    <3>1. to \in Nat /\ Refreshed(to)
      BY <2>3, <2>4, <2>5
    <3> HIDE DEF to
    <3> QED
      BY <2>8, <3>1, RefreshedOn
  <2>10. LineOK' /\ ModeOK' /\ map' = "insert" /\ mode' = "insert"
    BY <1>0, <2>4, <2>8, <2>9 DEF LineOK, ModeOK, IntoInsert, Maps, Modes
  <2>11. Follows(c) /\ CutBack /\ DropArgs
    BY <1>0, <2>4, <2>8, ReadyFacts DEF Follows, CutBack, Quiet
  <2>12. Begun(c) /\ Entered(c)
    BY <2>4, <2>10, <2>11, Starts DEF Begun, Entered, GoesIn, Opening, DropArgs
  <2> QED
    BY <2>9, <2>10, <2>11, <2>12 DEF Done
<1> QED
  BY <1>1, <1>2

-------------------------------------------------------------------------------
(* In the insert map.                                                      *)

\* Back in the command map.
LEMMA CommandModeDone ==
  ASSUME NEW c, Ready(c), map = "insert", c.cmd \in {"vi_command_mode", "ed_insert"},
         NEW p \in Nat, CommandMode(p), pushed' = c.rest, redo' = c.redo,
         line' \in Text, p <= Len(line'), UNCHANGED kill
  PROVE  Done(c)
<1>1. Len(line') \in Nat /\ kill' \in Text
  BY ReadyFacts, TextLen
<1>2. LineOK' /\ ModeOK' /\ DropArgs
  BY <1>1 DEF CommandMode, LineOK, ModeOK, Maps, Modes, DropArgs
<1>4. OnLine
  <2>1. line' # <<>> => Len(line') # 0
    BY EmptySeq DEF Text
  <2>2. cursor' \in Nat /\ cursor' <= Len(line') /\ (cursor' = Len(line') => Len(line') = 0)
    BY <1>1 DEF CommandMode
  <2> QED
    BY <1>1, <2>1, <2>2 DEF OnLine
<1>3. Follows(c)
  BY ReadyFacts DEF Follows
<1> QED
  BY <1>2, <1>3, <1>4 DEF Done

LEMMA EdInsertDone ==
  ASSUME NEW c, Ready(c), map = "insert", c.cmd = "ed_insert", NEW ch \in Char, ed_insert(c, ch)
  PROVE  Done(c)
<1> DEFINE n == Argument(c)
           over == IF n = 1 THEN mode # "insert" /\ cursor < Len(line) ELSE mode = "replace1"
           end == IF over /\ cursor + n > Len(line) THEN Len(line) ELSE cursor + n
<1>0. /\ Len(line) \in Nat /\ line \in Text /\ kill \in Text /\ cursor \in Nat /\ cursor <= Len(line)
      /\ cursor \in 0..Len(line) /\ n \in Nat \ {0}
  BY ReadyFacts
<1>1. CASE Fail(c)
  BY <1>1, FailDone
<1>2. CASE ~Fail(c)
  <2>1. /\ pushed' = c.rest /\ redo' = c.redo /\ kill' = kill
        /\ line' = IF over THEN Over(line, cursor, Repeat(ch, end - cursor))
                   ELSE Inserted(line, cursor, Repeat(ch, n))
        /\ IF mode = "replace1" THEN CommandMode(end)
           ELSE cursor' = end /\ SameMap /\ DropArgs
    BY <1>2, Zenon DEF ed_insert
  <2> HIDE DEF n
  <2>2. end \in Nat /\ cursor <= end /\ end - cursor \in Nat /\ (over => end <= Len(line)) /\ (~over => end = cursor + n)
    BY <1>0
  <2> HIDE DEF over, end
  <2>3. ASSUME over PROVE line' \in Text /\ end <= Len(line')
    <3> DEFINE m == end - cursor
               t == Repeat(ch, m)
    <3>1. t \in Text
      BY <2>2, RepeatIsText
    <3>2. line' = Over(line, cursor, t)
      BY <2>1, <2>3
    <3> HIDE DEF t
    <3>3. line' \in Text /\ Len(line') = Len(line) /\ end <= Len(line')
      BY <1>0, <2>2, <2>3, <3>1, <3>2, OverIsText
    <3> QED
      BY <3>3
  <2>4. ASSUME ~over PROVE line' \in Text /\ end <= Len(line')
    <3> DEFINE t == Repeat(ch, n)
    <3>1. t \in Text /\ Len(t) = n
      BY <1>0, RepeatIsText
    <3>2. line' = Inserted(line, cursor, t)
      BY <2>1, <2>4
    <3> HIDE DEF t
    <3>3. line' \in Text /\ Len(line') = Len(line) + n
      BY <1>0, <3>1, <3>2, InsertedLength
    <3> QED
      BY <1>0, <2>2, <2>4, <3>3
  <2>5. line' \in Text /\ end <= Len(line')
    BY <2>3, <2>4
  <2>6. CASE mode = "replace1"
    BY <2>1, <2>2, <2>5, <2>6, CommandModeDone
  <2>7. CASE mode # "replace1"
    <3>1. Quiet(c) /\ SameMap /\ cursor' \in 0..Len(line')
      BY <2>1, <2>2, <2>5, <2>7, TextLen DEF Quiet
    <3> QED
      BY <1>0, <2>1, <2>5, <3>1, EditDone
  <2> QED
    BY <2>6, <2>7
<1> QED
  BY <1>1, <1>2

LEMMA InsertMapDone ==
  ASSUME NEW c, Ready(c), map = "insert",
         \/ c.cmd = "vi_command_mode" /\ vi_command_mode(c)
         \/ vi_delete_prev_char(c)
  PROVE  Done(c)
<1>0. /\ Len(line) \in Nat /\ line \in Text /\ kill \in Text /\ cursor \in Nat /\ cursor <= Len(line)
      /\ cursor \in 0..Len(line)
  BY ReadyFacts
<1>1. CASE Fail(c)
  BY <1>1, FailDone
<1>2. CASE c.cmd = "vi_command_mode" /\ vi_command_mode(c)
  <2>1. CommandMode(cursor) /\ pushed' = c.rest /\ redo' = c.redo /\ line' = line /\ kill' = kill
    BY <1>2 DEF vi_command_mode
  <2> QED
    BY <1>0, <1>2, <2>1, CommandModeDone
<1>3. CASE vi_delete_prev_char(c) /\ ~Fail(c)
  <2> DEFINE p == cursor - 1
  <2>1. /\ cursor # 0 /\ Quiet(c) /\ SameMap /\ redo' = c.redo /\ kill' = kill
        /\ line' = Without(line, p, cursor) /\ cursor' = p
    BY <1>3 DEF vi_delete_prev_char
  <2>2. p \in 0..cursor /\ p \in Nat /\ cursor = p + 1
    BY <1>0, <2>1
  <2> HIDE DEF p
  <2>3. line' \in Text /\ Len(line') = Len(line) - (cursor - p)
    BY <1>0, <2>1, <2>2, WithoutIsText
  <2>4. cursor' \in 0..Len(line')
    BY <1>0, <2>1, <2>2, <2>3
  <2> QED
    BY <1>0, <2>1, <2>3, <2>4, EditDone
<1> QED
  BY <1>1, <1>2, <1>3

-------------------------------------------------------------------------------
(* Other lines and other keys.                                             *)

LEMMA RecalledDone ==
  ASSUME NEW c, Ready(c), NEW s \in Events \cup {<<>>, line}, Recalled(c, s),
         redo' = c.redo \/ (redo' = Started(c) /\ c.cmd \in Recorded /\ (map = "command" => ~GoesIn(c)))
  PROVE  Done(c)
<1>1. Quiet(c) /\ SameMap /\ line' = s /\ cursor' = 0 /\ kill' = kill
  BY DEF Recalled
<1>2. line' \in Text /\ kill' \in Text
  BY <1>1, ReadyFacts, TextsAssumption, EmptySeq DEF Text
<1>3. CutBack
  BY <1>1, ReadyFacts DEF CutBack, OtherLine
<1>4. cursor' \in 0..Len(line')
  BY <1>1, <1>2, TextLen
<1>5. OnLine
  <2>1. Len(line') \in Nat /\ (line' # <<>> => Len(line') # 0)
    BY <1>2, EmptySeq, TextLen DEF Text
  <2> QED
    BY <1>1, <2>1 DEF OnLine
<1> QED
  BY <1>1, <1>2, <1>3, <1>4, <1>5, EditDone

LEMMA HistoryDone ==
  ASSUME NEW c, Ready(c), ed_prev_history(c) \/ (c.cmd = "vi_undo_line" /\ vi_undo_line(c))
  PROVE  Done(c)
<1>1. CASE Fail(c)
  BY <1>1, FailDone
<1>2. CASE ed_prev_history(c) /\ ~Fail(c)
  BY <1>2, RecalledDone DEF ed_prev_history
<1>3. CASE c.cmd = "vi_undo_line" /\ vi_undo_line(c)
  <2>1. c.cmd \in Recorded /\ ~GoesIn(c)
    BY <1>3, Starts DEF Changing
  <2> QED
    BY <1>3, <2>1, RecalledDone DEF vi_undo_line
<1> QED
  BY <1>1, <1>2, <1>3

\* The line is emptied.
LEMMA EmptiedDone ==
  ASSUME NEW c, Ready(c), c.cmd \notin Replayed,
         vi_repeat_search(c) \/ ed_newline(c) \/ vi_comment_out(c) \/ vi_histedit(c) \/ vi_list_or_eof(c)
  PROVE  Done(c)
<1>1. CASE ed_prev_history(c)
  BY <1>1, HistoryDone
<1>3. CASE Fail(c)
  BY <1>3, FailDone
<1>2. CASE ~ed_prev_history(c) /\ ~Fail(c)
  <2>1. /\ Quiet(c) /\ redo' = c.redo /\ line' = <<>> /\ kill' = kill /\ cursor' \in {cursor, 0}
        /\ SameMap \/ (map' = "insert" /\ mode' = "insert")
    BY <1>2 DEF vi_repeat_search, ed_newline, vi_comment_out, vi_histedit, vi_list_or_eof
  <2>2. LineOK' /\ ModeOK'
    BY <2>1, ReadyFacts, EmptySeq DEF Ready, LineOK, ModeOK, SameMap, Maps, Modes, Text
  <2>3. CutBack /\ Follows(c) /\ DropArgs
    BY <2>1, ReadyFacts DEF CutBack, OtherLine, Follows, Quiet
  <2>4. ~(map = "insert" /\ map' = "command")
    BY <2>1 DEF SameMap
  <2>5. OnLine
    BY <2>1 DEF OnLine
  <2> QED
    BY <2>1, <2>2, <2>3, <2>4, <2>5 DEF Done
<1> QED
  BY <1>1, <1>2, <1>3

LEMMA AliasDone ==
  ASSUME NEW c, Ready(c), c.cmd = "vi_alias", vi_alias(c)
  PROVE  Done(c)
<1> DEFINE rest == IF c.rest = <<>> THEN <<>> ELSE Tail(c.rest)
<1>1. rest \in Seq(Key)
  <2>1. c.rest \in Seq(Key) /\ <<>> \in Seq(Key)
    BY ReadyFacts, EmptySeq
  <2>2. c.rest # <<>> => Tail(c.rest) \in Seq(Key)
    BY <2>1, HeadTailProperties
  <2> QED
    BY <2>1, <2>2
<1>2. PICK r \in {rest, rest \o Alias} : Fail([c EXCEPT !.rest = r])
  BY DEF vi_alias
<1> HIDE DEF rest
<1>3. r \in Seq(Key)
  BY <1>1, KeysAssumption, ConcatProperties
<1> DEFINE d == [c EXCEPT !.rest = r]
<1>4. Ready(d) /\ (Done(d) /\ c.cmd \in Seeking \cup {"vi_alias"} /\ (c.rest = <<>> /\ c.cmd \in Seeking => r = <<>>)
                   => Done(c))
  BY <1>3, ReadFirst, Zenon
<1> HIDE DEF d
<1>5. Done(d)
  BY <1>2, <1>4, FailDone DEF d
<1> QED
  BY <1>4, <1>5 DEF Seeking

LEMMA MetaDone ==
  ASSUME NEW c, Ready(c), map = "command", em_meta_next(c)
  PROVE  Done(c)
BY ReadyFacts, WaitDone DEF em_meta_next, KeepArgs

-------------------------------------------------------------------------------
(* Every command.                                                          *)

\* A command the map can have given.
Bound(c, key) ==
  /\ c.cmd = "ed_insert" => key \in Char
  /\ map = "insert" => c.cmd \in Inserting
  /\ map = "command" => c.cmd \notin InsertOnly

LEMMA PerformDone ==
  ASSUME NEW c, Ready(c), NEW key, Bound(c, key), SearchOK, Perform(c, key)
  PROVE  Done(c) /\ SearchOK'
<1>0. map \in Maps /\ (c.cmd \notin Inserting => map = "command") /\ (c.cmd \in InsertOnly => map = "insert")
  BY DEF Ready, LineOK, Maps, Bound
<1>1. ASSUME Does(c, key) PROVE Done(c)
  <2>1. CASE c.cmd = "ed_unassigned" /\ Fail(c)
    BY <2>1, FailDone
  <2>2. CASE c.cmd = "ed_insert" /\ ed_insert(c, key)
    BY <1>0, <2>2, EdInsertDone DEF Bound, InsertOnly
  <2>3. CASE c.cmd = "ed_argument_digit" /\ ed_argument_digit(c, 2)
    BY <1>0, <2>3, DigitDone DEF Inserting
  <2>4. CASE c.cmd = "vi_repeat_search_next" /\ vi_repeat_search(c)
    BY <2>4, EmptiedDone DEF Replayed, Recorded, Motions, Seeking, Opening, Changing
  <2>5. CASE \/ c.cmd = "vi_prev_word" /\ vi_prev_word(c)
             \/ c.cmd = "vi_prev_big_word" /\ vi_prev_big_word(c)
             \/ c.cmd = "vi_next_word" /\ vi_next_word(c)
             \/ c.cmd = "vi_next_big_word" /\ vi_next_big_word(c)
             \/ c.cmd = "vi_end_word" /\ vi_end_word(c)
             \/ c.cmd = "vi_end_big_word" /\ vi_end_big_word(c)
    <3>1. map = "command" /\ c.cmd \in Motions
      BY <1>0, <2>5 DEF Inserting, Motions
    <3>2. \E big : PrevWordOf(c, big) \/ NextWordOf(c, big) \/ EndWordOf(c, big)
      BY <2>5 DEF vi_prev_word, vi_prev_big_word, vi_next_word, vi_next_big_word, vi_end_word, vi_end_big_word
    <3> QED
      BY <3>1, <3>2, WordsDone
  <2>6. CASE \/ c.cmd = "vi_zero" /\ vi_zero(c)
             \/ c.cmd = "ed_move_to_beg" /\ ed_move_to_beg(c)
             \/ c.cmd = "ed_move_to_end" /\ ed_move_to_end(c)
             \/ c.cmd = "ed_next_char" /\ ed_next_char(c)
             \/ c.cmd = "ed_prev_char" /\ ed_prev_char(c)
             \/ c.cmd = "vi_to_column" /\ vi_to_column(c)
    <3>1. map = "command" /\ c.cmd \in Motions
      BY <1>0, <2>6 DEF Inserting, Motions
    <3> QED
      BY <2>6, <3>1, StepsDone
  <2>7. CASE c.cmd = "vi_match" /\ vi_match(c)
    <3>1. map = "command" /\ c.cmd \in Motions
      BY <1>0, <2>7 DEF Inserting, Motions
    <3> QED
      BY <2>7, <3>1, MatchDone
  <2>8. CASE c.cmd = "vi_delete_meta" /\ vi_delete_meta(c)
    <3>1. map = "command" /\ c.cmd \notin Opening \cup Motions \cup {"vi_alias", "ed_unassigned"}
      BY <1>0, <2>8 DEF Inserting, Opening, Motions, Seeking
    <3>2. Operator(c, "delete")
      BY <2>8 DEF vi_delete_meta
    <3> QED
      BY <2>8, <3>1, <3>2, OperatorDone
  <2>9. CASE c.cmd = "vi_change_meta" /\ vi_change_meta(c)
    <3>1. map = "command" /\ c.cmd \notin Opening \cup Motions \cup {"vi_alias", "ed_unassigned"}
      BY <1>0, <2>9 DEF Inserting, Opening, Motions, Seeking
    <3>2. Operator(c, "change")
      BY <2>9 DEF vi_change_meta
    <3> QED
      BY <2>9, <3>1, <3>2, OperatorDone
  <2>10. CASE c.cmd = "vi_yank" /\ vi_yank(c)
    <3>1. map = "command" /\ c.cmd \notin Opening \cup Motions \cup {"vi_alias", "ed_unassigned"}
      BY <1>0, <2>10 DEF Inserting, Opening, Motions, Seeking
    <3>2. Operator(c, "yank")
      BY <2>10 DEF vi_yank
    <3> QED
      BY <2>10, <3>1, <3>2, OperatorDone
  <2>11. CASE \/ c.cmd = "vi_paste_next" /\ vi_paste_next(c)
              \/ c.cmd = "vi_paste_prev" /\ vi_paste_prev(c)
    BY <2>11, PasteDone DEF Changing
  <2>12. CASE c.cmd = "vi_change_case" /\ vi_change_case(c)
    BY <2>12, ChangeCaseDone DEF Changing
  <2>13. CASE \/ c.cmd = "ed_delete_prev_char" /\ ed_delete_prev_char(c)
              \/ c.cmd = "ed_delete_next_char" /\ ed_delete_next_char(c)
              \/ c.cmd = "ed_delete_prev_word" /\ ed_delete_prev_word(c)
              \/ c.cmd = "vi_kill_line_prev" /\ vi_kill_line_prev(c)
    BY <2>13, DeletesDone DEF Changing
  <2>14. CASE \/ c.cmd = "ed_kill_line" /\ ed_kill_line(c)
              \/ c.cmd = "vi_yank_end" /\ vi_yank_end(c)
    BY <2>14, KillAndYankDone
  <2>15. CASE \/ c.cmd = "vi_insert" /\ vi_insert(c)
              \/ c.cmd = "vi_insert_at_bol" /\ vi_insert_at_bol(c)
              \/ c.cmd = "vi_add" /\ vi_add(c)
              \/ c.cmd = "vi_add_at_eol" /\ vi_add_at_eol(c)
              \/ c.cmd = "vi_replace_mode" /\ vi_replace_mode(c)
    BY <1>0, <2>15, InsertAtDone DEF Inserting, Opening
  <2>16. CASE \/ c.cmd = "vi_substitute_char" /\ vi_substitute_char(c)
              \/ c.cmd = "vi_substitute_line" /\ vi_substitute_line(c)
              \/ c.cmd = "vi_change_to_eol" /\ vi_change_to_eol(c)
    BY <1>0, <2>16, SubstituteDone DEF Inserting, Opening
  <2>17. CASE c.cmd = "vi_replace_char" /\ vi_replace_char(c)
    BY <1>0, <2>17, ReplaceCharDone DEF Inserting
  <2>18. CASE c.cmd = "vi_history_word" /\ vi_history_word(c)
    BY <1>0, <2>18, HistoryWordDone DEF Inserting
  <2>19. CASE \/ c.cmd = "vi_list_or_eof" /\ vi_list_or_eof(c)
              \/ c.cmd = "ed_newline" /\ ed_newline(c)
              \/ c.cmd = "vi_comment_out" /\ vi_comment_out(c)
              \/ c.cmd = "vi_histedit" /\ vi_histedit(c)
    BY <2>19, EmptiedDone DEF Replayed, Recorded, Motions, Seeking, Opening, Changing
  <2>20. CASE \/ c.cmd = "ed_prev_history" /\ ed_prev_history(c)
              \/ c.cmd = "vi_undo_line" /\ vi_undo_line(c)
    BY <2>20, HistoryDone
  <2>21. CASE c.cmd = "vi_alias" /\ vi_alias(c)
    BY <2>21, AliasDone
  <2>22. CASE c.cmd = "em_meta_next" /\ em_meta_next(c)
    BY <1>0, <2>22, MetaDone DEF Inserting
  <2>23. CASE \/ c.cmd = "vi_command_mode" /\ vi_command_mode(c)
              \/ c.cmd = "vi_delete_prev_char" /\ vi_delete_prev_char(c)
    BY <1>0, <2>23, InsertMapDone DEF InsertOnly
  <2> QED
    BY <1>1, <2>1, <2>2, <2>3, <2>4, <2>5, <2>6, <2>7, <2>8, <2>9, <2>10, <2>11, <2>12, <2>13,
       <2>14, <2>15, <2>16, <2>17, <2>18, <2>19, <2>20, <2>21, <2>22, <2>23, Zenon
    DEF Does
<1>2. ASSUME Seeks(c) PROVE Done(c) /\ SearchOK'
  <2>1. map = "command" /\ c.cmd \in Motions
    BY <1>0, <1>2 DEF Seeks, Inserting, Motions, Seeking
  <2>2. CASE vi_repeat_next_char(c) \/ vi_repeat_prev_char(c)
    BY <2>1, <2>2, AgainDone
  <2>3. CASE ~(vi_repeat_next_char(c) \/ vi_repeat_prev_char(c))
    <3>1. c.cmd \in Seeking
      BY <1>2, <2>3 DEF Seeks, Seeking
    <3>2. PICK dir \in {-1, 1}, to \in BOOLEAN : Named(c, dir, to)
      BY <1>2, <2>3 DEF Seeks, vi_next_char, vi_prev_char, vi_to_next_char, vi_to_prev_char
    <3> QED
      BY <2>1, <3>1, <3>2, NamedDone
  <2> QED
    BY <2>2, <2>3
<1> QED
  BY <1>1, <1>2 DEF Perform, SearchOK

-------------------------------------------------------------------------------
(* The keys.                                                               *)

LEMMA MapOfRange ==
  ASSUME NEW bindings, NEW key \in KeysOf(bindings)
  PROVE  \E b \in bindings : b[1] = key /\ MapOf(bindings)[key] = b[2]
<1>1. \E b \in bindings : b[1] = key
  BY DEF KeysOf
<1>2. MapOf(bindings)[key] = (CHOOSE b \in bindings : b[1] = key)[2]
  BY DEF MapOf
<1> QED
  BY <1>1, <1>2, Zenon

\* What is recorded while it is typed.
LEMMA InsertKeys ==
  ASSUME map = "insert", NEW key
  PROVE  /\ CommandOf(key) \in Inserting
         /\ CommandOf(key) = "ed_insert" <=> key \in Printing
         /\ key = BS => CommandOf(key) = "vi_delete_prev_char"
         /\ key = ESC => CommandOf(key) = "vi_command_mode"
<1> DEFINE B == Editing \cup {<<ch, "ed_insert">> : ch \in Printing} \cup {<<Break, "ed_newline">>}
<1>1. Keys = MapOf(B) /\ DOMAIN MapOf(B) = KeysOf(B)
  BY DEF Keys, el_map_vi_insert, MapOf
<1>2. Break \notin Printing /\ ESC \notin Printing /\ BS \notin Printing /\ Break \notin {ESC, BS}
  BY KeysAssumption DEF Printing, Char, Other, KeysOf, Editing, ESC, BS, Break
<1>3. ASSUME NEW b \in Editing
      PROVE  /\ b[2] \in Inserting \ {"ed_insert"} /\ b[1] \notin Printing
             /\ b[1] = BS => b[2] = "vi_delete_prev_char"
             /\ b[1] = ESC => b[2] = "vi_command_mode"
  <2>1. b[1] \in KeysOf(Editing)
    BY DEF KeysOf
  <2>2. b[1] \notin Printing
    BY <2>1, KeysAssumption DEF Printing
  <2>3. /\ b[2] \in Inserting \ {"ed_insert"}
        /\ b[1] = BS => b[2] = "vi_delete_prev_char"
        /\ b[1] = ESC => b[2] = "vi_command_mode"
    BY DEF Editing, Inserting, ESC, BS
  <2> QED
    BY <2>2, <2>3
<1>4. ASSUME NEW b \in B
      PROVE  /\ b[2] \in Inserting
             /\ b[2] = "ed_insert" <=> b[1] \in Printing
             /\ b[1] = BS => b[2] = "vi_delete_prev_char"
             /\ b[1] = ESC => b[2] = "vi_command_mode"
  <2>1. CASE b \in Editing
    BY <1>3, <2>1
  <2>2. CASE b \in {<<ch, "ed_insert">> : ch \in Printing}
    BY <1>2, <2>2 DEF Inserting
  <2>3. CASE b = <<Break, "ed_newline">>
    BY <1>2, <2>3 DEF Inserting
  <2> QED
    BY <2>1, <2>2, <2>3
<1>5. {ESC, BS} \cup Printing \subseteq KeysOf(B)
  <2>1. <<ESC, "vi_command_mode">> \in B /\ <<BS, "vi_delete_prev_char">> \in B
    BY DEF Editing
  <2>2. \A ch \in Printing : <<ch, "ed_insert">> \in B
    OBVIOUS
  <2> HIDE DEF B
  <2>3. \A x, cmd : <<x, cmd>> \in B => x \in KeysOf(B)
    <3> SUFFICES ASSUME NEW x, NEW cmd, <<x, cmd>> \in B PROVE x \in KeysOf(B)
      OBVIOUS
    <3>1. <<x, cmd>>[1] = x
      OBVIOUS
    <3> QED
      BY <3>1, Zenon DEF KeysOf
  <2> QED
    BY <2>1, <2>2, <2>3, Zenon
<1> HIDE DEF B
<1>6. CASE key \in KeysOf(B)
  <2>1. PICK b \in B : b[1] = key /\ CommandOf(key) = b[2]
    BY <1>1, <1>6, MapOfRange DEF CommandOf
  <2> QED
    BY <1>4, <2>1
<1>7. CASE key \notin KeysOf(B)
  BY <1>1, <1>5, <1>7 DEF CommandOf, Inserting
<1> QED
  BY <1>6, <1>7

LEMMA CommandKeys ==
  ASSUME map = "command", NEW key
  PROVE  CommandOf(key) \in Commands \ InsertOnly
<1>1. Keys = MapOf(Commanding) /\ DOMAIN MapOf(Commanding) = KeysOf(Commanding)
  BY DEF Keys, el_map_vi_command, MapOf
<1>2. \A b \in Commanding : b[2] \notin InsertOnly
  <2> SUFFICES ASSUME NEW b \in Commanding, b[2] \in InsertOnly PROVE FALSE
    OBVIOUS
  <2> QED
    BY DEF Commanding, InsertOnly
<1>3. CASE key \in KeysOf(Commanding)
  <2>1. PICK b \in Commanding : b[1] = key /\ CommandOf(key) = b[2]
    BY <1>1, <1>3, MapOfRange DEF CommandOf
  <2> QED
    BY <1>2, <2>1 DEF Commands
<1>4. CASE key \notin KeysOf(Commanding)
  <2>1. CommandOf(key) = "ed_unassigned"
    BY <1>1, <1>4 DEF CommandOf
  <2> QED
    BY <2>1 DEF Commands, Inserting, InsertOnly
<1> QED
  BY <1>3, <1>4

-------------------------------------------------------------------------------
(* The invariant.                                                          *)

\* Nothing waits in the insert map but a replacement, and an operator waits
\* where it was given.
WaitOK ==
  /\ count \in Nat /\ action \in Actions /\ pos \in Nat
  /\ map = "insert" /\ (action # "NOP" \/ count # 0) => mode = "replace1"
  /\ action # "NOP" => pos \in Places

CursorOK == cursor > Len(line) => line = <<>>

\* A backspace is recorded only where it does not take a recorded character.
Spelt(keys) == \A i \in 2..Len(keys) : keys[i] = BS => keys[i - 1] \notin Printing

\* A record as it can be in a map: one that went into the insert map, and is
\* in the command map again, has the key that led there.
Fits(r, m) ==
  /\ Len(r.keys) <= RedoCap /\ Spelt(r.keys)
  /\ m = "command" /\ r.keys = <<>> => ~GoesIn(r)

\* How far the record is played back: what is recorded anew and what is still
\* to be read make it up.
PlaysOn ==
  /\ redo.cmd = played.cmd /\ redo.action = played.action
  /\ played.keys = redo.keys \o pushed
  /\ pushed # <<>> => /\ map = "insert"
                      /\ mode = "replace1" <=> played.cmd = "vi_replace_char"
                      /\ count <= redo.count
  /\ pushed = <<>> => \/ map = "command"
                      \/ played.cmd = "vi_replace_char" /\ Len(line) + Argument(redo) >= Limit
Playing == played # NoRedo => played \in Record /\ Clean(played) /\ Spelt(played.keys) /\ PlaysOn

Typing ==
  /\ LineOK /\ ModeOK /\ CursorOK /\ WaitOK /\ pushed \in Seq(Key)
  /\ redo \in Record /\ Fits(redo, map)

IInv == Typing /\ SearchOK /\ Playing

LEMMA InitInv == Init => IInv
<1> SUFFICES ASSUME Init PROVE IInv
  OBVIOUS
<1>1. line \in Text /\ kill \in Text /\ Len(line) \in Nat /\ Len(<<>>) = 0 /\ <<>> \in Seq(Key)
  BY TextsAssumption, EmptySeq, TextLen DEF Init, Text
<1>2. LineOK /\ ModeOK /\ CursorOK /\ WaitOK /\ pushed \in Seq(Key)
  BY <1>1 DEF Init, LineOK, ModeOK, CursorOK, WaitOK, Maps, Modes, Actions, Places
<1>3. redo = NoRedo /\ redo.keys = <<>> /\ redo \in Record
  BY <1>1 DEF Init, NoRedo, Record, Actions, Replayed
<1>4. ~GoesIn(redo)
  BY <1>3 DEF NoRedo, GoesIn, Opening, Motions, Seeking
<1>5. Fits(redo, map)
  BY <1>1, <1>3, <1>4, SizesAssumption DEF Fits, Spelt
<1> QED
  BY <1>2, <1>3, <1>5 DEF IInv, Typing, Init, SearchOK, Playing

\* What follows from Done alone.
LEMMA DoneTyping ==
  ASSUME NEW c, Ready(c), Done(c), Fits(c.redo, map),
         map = "insert" /\ c.cmd \in {"vi_command_mode", "ed_insert"} => c.redo.keys # <<>>
  PROVE  Typing'
<1>1. LineOK' /\ ModeOK' /\ CursorOK' /\ pushed' \in Seq(Key)
  BY DEF Done, CursorOK, OnLine, Follows
<1>2. WaitOK'
  <2>1. CASE DropArgs
    BY <2>1 DEF DropArgs, WaitOK, Actions
  <2>2. CASE Waits
    BY <2>2 DEF Waits, WaitOK, Places
  <2> QED
    BY <2>1, <2>2 DEF Done
<1>3. c \in Context /\ c.redo \in Record /\ c.count \in Nat /\ c.action \in Actions
  BY ReadyFacts DEF Ready
<1>4. CASE redo' = c.redo
  <2>1. map' = "command" /\ redo'.keys = <<>> => ~GoesIn(redo')
    <3>1. CASE map = "command"
      BY <1>4, <3>1 DEF Fits
    <3>2. CASE map # "command"
      BY <1>4, <3>2 DEF Done, Ready, LineOK, Maps
    <3> QED
      BY <3>1, <3>2
  <2>2. Fits(redo', map')
    BY <1>4, <2>1 DEF Fits
  <2> QED
    BY <1>1, <1>2, <1>3, <1>4, <2>2 DEF Typing
<1>5. CASE Begun(c)
  <2>1. redo' = [count |-> c.count, action |-> c.action, cmd |-> c.cmd, keys |-> <<>>] /\ c.cmd \in Replayed
    BY <1>5 DEF Begun, Started, Replayed
  <2>2. redo' \in Record /\ redo'.keys = <<>>
    BY <1>3, <2>1, EmptySeq DEF Record
  <2>3. GoesIn(redo') => GoesIn(c)
    BY <2>1 DEF GoesIn
  <2>4. Fits(redo', map')
    BY <1>5, <2>2, <2>3, SizesAssumption, EmptySeq DEF Fits, Spelt, Begun
  <2> QED
    BY <1>1, <1>2, <2>2, <2>4 DEF Typing
<1> QED
  BY <1>4, <1>5 DEF Done

LEMMA SpeltOn ==
  ASSUME NEW k \in Seq(Key), Spelt(k), NEW key \in Key, key = BS => k = <<>> \/ k[Len(k)] \notin Printing
  PROVE  Append(k, key) \in Seq(Key) /\ Len(Append(k, key)) = Len(k) + 1 /\ Spelt(Append(k, key))
<1> DEFINE a == Append(k, key)
           n == Len(k)
<1>1. /\ a \in Seq(Key) /\ Len(a) = n + 1 /\ n \in Nat
      /\ \A i \in 1..n : a[i] = k[i]
      /\ a[n + 1] = key
  BY AppendProperties, LenProperties
<1> HIDE DEF a, n
<1>2. ASSUME NEW i \in 2..Len(a), a[i] = BS PROVE a[i - 1] \notin Printing
  <2>1. i - 1 \in 1..n /\ a[i - 1] = k[i - 1]
    BY <1>1
  <2>2. CASE i = n + 1
    <3>1. key = BS /\ i - 1 = n /\ n # 0
      BY <1>1, <1>2, <2>1, <2>2
    <3>2. k # <<>>
      BY <3>1, EmptySeq DEF n
    <3> QED
      BY <2>1, <3>1, <3>2 DEF n
  <2>3. CASE i # n + 1
    <3>1. i \in 2..n /\ a[i] = k[i]
      BY <1>1, <2>3
    <3> QED
      BY <1>2, <2>1, <3>1 DEF Spelt, n
  <2> QED
    BY <2>2, <2>3
<1> QED
  BY <1>1, <1>2 DEF Spelt, a, n

\* What a prefix keeps.
LEMMA SpeltLess ==
  ASSUME NEW k \in Seq(Key), Spelt(k), NEW n \in 0..Len(k)
  PROVE  SubSeq(k, 1, n) \in Seq(Key) /\ Len(SubSeq(k, 1, n)) = n /\ Spelt(SubSeq(k, 1, n))
<1>1. Len(k) \in Nat /\ \A i \in 1..n : k[i] \in Key
  BY LenProperties
<1>2. /\ SubSeq(k, 1, n) \in Seq(Key) /\ Len(SubSeq(k, 1, n)) = n
      /\ \A i \in 1..n : SubSeq(k, 1, n)[i] = k[i]
  BY <1>1, SubSeqProperties
<1> QED
  BY <1>1, <1>2 DEF Spelt

LEMMA CapturedFits ==
  ASSUME Typing, NEW cmd, NEW key \in Key, map = "insert" /\ key = BS => cmd = "vi_delete_prev_char"
  PROVE  LET r == Captured(cmd, key) IN
         /\ r \in Record /\ Fits(r, map)
         /\ r.cmd = redo.cmd /\ r.action = redo.action /\ r.count = redo.count
         /\ map = "command" => r = redo
         /\ map = "insert" /\ cmd \in {"vi_command_mode", "ed_insert"} => r.keys # <<>>
<1> DEFINE n == Len(redo.keys)
           r == Captured(cmd, key)
<1>1. /\ redo \in Record /\ redo.keys \in Seq(Key) /\ n \in Nat /\ n <= RedoCap /\ Spelt(redo.keys)
      /\ map \in Maps /\ RedoCap \in Nat \ {0, 1} /\ Fits(redo, map)
  BY SizesAssumption, LenProperties DEF Typing, Record, Fits, LineOK
<1>2. CASE map # "insert" \/ n = RedoCap
  <2>1. r = redo
    BY <1>2 DEF Captured
  <2>2. n = RedoCap => redo.keys # <<>>
    BY <1>1, EmptySeq
  <2> QED
    BY <1>1, <1>2, <2>1, <2>2 DEF Maps
<1>3. CASE ~(map # "insert" \/ n = RedoCap)
  <2>0. map = "insert" /\ n < RedoCap
    BY <1>1, <1>3
  <2>1. CASE cmd = "vi_delete_prev_char" /\ n > 0 /\ redo.keys[n] \in Printing
    <3> DEFINE m == n - 1
               k == SubSeq(redo.keys, 1, m)
    <3>1. r = [redo EXCEPT !.keys = k]
      BY <1>3, <2>1 DEF Captured
    <3>2. m \in 0..Len(redo.keys)
      BY <1>1, <2>1
    <3> HIDE DEF m
    <3>3. k \in Seq(Key) /\ Len(k) = m /\ Spelt(k)
      BY <1>1, <3>2, SpeltLess
    <3> HIDE DEF k, r
    <3>4. r \in Record /\ r.cmd = redo.cmd /\ r.action = redo.action /\ r.count = redo.count /\ r.keys = k
      BY <1>1, <3>1, <3>3 DEF Record
    <3>5. Fits(r, map)
      BY <1>1, <2>0, <3>2, <3>3, <3>4 DEF Fits
    <3> QED
      BY <2>0, <2>1, <3>4, <3>5 DEF r
  <2>2. CASE ~(cmd = "vi_delete_prev_char" /\ n > 0 /\ redo.keys[n] \in Printing)
    <3> DEFINE k == Append(redo.keys, key)
    <3>1. r = [redo EXCEPT !.keys = k]
      BY <1>3, <2>2, Zenon DEF Captured
    <3>2. key = BS => redo.keys = <<>> \/ redo.keys[Len(redo.keys)] \notin Printing
      BY <1>1, <2>0, <2>2, EmptySeq
    <3>3. k \in Seq(Key) /\ Len(k) = n + 1 /\ Spelt(k)
      BY <1>1, <3>2, SpeltOn
    <3> HIDE DEF k, r
    <3>4. r \in Record /\ r.cmd = redo.cmd /\ r.action = redo.action /\ r.count = redo.count /\ r.keys = k
      BY <1>1, <3>1, <3>3 DEF Record
    <3>5. k # <<>>
      BY <1>1, <3>3, EmptySeq
    <3>6. Fits(r, map)
      BY <1>1, <2>0, <3>3, <3>4 DEF Fits
    <3> QED
      BY <2>0, <3>4, <3>5, <3>6 DEF r
  <2> QED
    BY <2>1, <2>2
<1> QED
  BY <1>2, <1>3

-------------------------------------------------------------------------------
(* A turn of the loop.                                                     *)

\* What a command of the map runs in.
Given(key, rest) ==
  [cmd |-> CommandOf(key), count |-> count, action |-> action, pos |-> pos,
   redo |-> Captured(CommandOf(key), key), rest |-> rest]

\* What one that is done again runs in.
Repeated(c) ==
  [c EXCEPT !.cmd = redo.cmd, !.action = redo.action, !.pos = cursor, !.count = IF @ = 0 THEN redo.count ELSE @,
            !.redo.keys = PlayedKeys, !.rest = @ \o PlayedKeys]

LEMMA GivenReady ==
  ASSUME Typing, cursor <= Len(line), NEW key \in Key, NEW rest \in Seq(Key)
  PROVE  LET c == Given(key, rest) IN
         /\ Ready(c) /\ Bound(c, key) /\ Fits(c.redo, map)
         /\ c.cmd = CommandOf(key) /\ c.rest = rest /\ c.count = count /\ c.redo = Captured(CommandOf(key), key)
         /\ c.redo.cmd = redo.cmd /\ c.redo.action = redo.action /\ c.redo.count = redo.count
         /\ map = "command" => c.redo = redo
         /\ map = "insert" => c.cmd \in Inserting
         /\ map = "insert" /\ c.cmd \in {"vi_command_mode", "ed_insert"} => c.redo.keys # <<>>
<1> DEFINE cmd == CommandOf(key)
           r == Captured(cmd, key)
           c == Given(key, rest)
<1>1. /\ LineOK /\ ModeOK /\ cursor \in Places /\ count \in Nat /\ action \in Actions /\ pos \in Nat
      /\ action # "NOP" => pos \in Places
      /\ map \in Maps
  BY TextLen DEF Typing, LineOK, WaitOK, Places
<1>2. /\ map = "insert" => cmd \in Inserting /\ (cmd = "ed_insert" <=> key \in Printing)
      /\ map = "insert" /\ key = BS => cmd = "vi_delete_prev_char"
  BY InsertKeys
<1>3. map = "command" => cmd \in Commands \ InsertOnly
  BY CommandKeys
<1>4. cmd \in Commands
  BY <1>1, <1>2, <1>3 DEF Maps, Commands
<1>5. c = [cmd |-> cmd, count |-> count, action |-> action, pos |-> pos, redo |-> r, rest |-> rest]
  BY DEF Given
<1> HIDE DEF cmd
<1>6. /\ r \in Record /\ Fits(r, map)
      /\ r.cmd = redo.cmd /\ r.action = redo.action /\ r.count = redo.count
      /\ map = "command" => r = redo
      /\ map = "insert" /\ cmd \in {"vi_command_mode", "ed_insert"} => r.keys # <<>>
  BY <1>2, CapturedFits
<1> HIDE DEF r, c
<1>7. /\ c.cmd = cmd /\ c.count = count /\ c.action = action /\ c.pos = pos /\ c.redo = r /\ c.rest = rest
      /\ c \in Context
  BY <1>1, <1>4, <1>5, <1>6 DEF Context
<1>8. Ready(c)
  BY <1>1, <1>7 DEF Ready
<1>9. Bound(c, key)
  BY <1>1, <1>2, <1>3, <1>7 DEF Bound, InsertOnly, Printing, Maps
<1> QED
  BY <1>2, <1>6, <1>7, <1>8, <1>9 DEF c, r, cmd

LEMMA AgainReady ==
  ASSUME Typing, NEW c, Ready(c), map = "command", c.redo = redo
  PROVE  LET d == Repeated(c) IN
         /\ Ready(d) /\ Bound(d, "none") /\ Fits(d.redo, map)
         /\ d.cmd = redo.cmd /\ d.action = redo.action
         /\ d.redo = [redo EXCEPT !.keys = PlayedKeys] /\ d.rest = c.rest \o PlayedKeys
<1> DEFINE d == Repeated(c)
           k == PlayedKeys
<1>1. /\ redo \in Record /\ Fits(redo, map) /\ redo.keys \in Seq(Key) /\ RedoCap \in Nat \ {0, 1}
      /\ Len(redo.keys) \in Nat /\ redo.cmd \in Replayed /\ redo.action \in Actions /\ redo.count \in Nat
      /\ Spelt(redo.keys) /\ Len(redo.keys) <= RedoCap
  BY SizesAssumption, LenProperties DEF Typing, Record, Fits
<1>2. k \in Seq(Key) /\ Spelt(k) /\ Len(k) <= RedoCap /\ (k = <<>> => redo.keys = <<>>)
  <2>1. CASE Len(redo.keys) = RedoCap
    <3> DEFINE m == RedoCap - 1
    <3>1. m \in 0..Len(redo.keys) /\ m # 0 /\ m <= RedoCap
      BY <1>1, <2>1
    <3>2. k = SubSeq(redo.keys, 1, m)
      BY <2>1 DEF PlayedKeys
    <3> HIDE DEF m, k
    <3>3. k \in Seq(Key) /\ Len(k) = m /\ Spelt(k)
      BY <1>1, <3>1, <3>2, SpeltLess
    <3> QED
      BY <3>1, <3>3, EmptySeq
  <2>2. CASE Len(redo.keys) # RedoCap
    BY <1>1, <2>2 DEF PlayedKeys
  <2> QED
    BY <2>1, <2>2
<1>3. cursor \in Places /\ cursor \in Nat /\ c \in Context /\ c.count \in Nat /\ c.rest \in Seq(Key)
  BY ReadyFacts DEF Ready
<1> HIDE DEF k
<1>4. c.rest \o k \in Seq(Key)
  BY <1>2, <1>3, ConcatProperties
<1>5. d = [c EXCEPT !.cmd = redo.cmd, !.action = redo.action, !.pos = cursor,
                    !.count = IF @ = 0 THEN redo.count ELSE @, !.redo.keys = k, !.rest = @ \o k]
  BY DEF Repeated, k
<1>6. c.redo = redo /\ redo.cmd \in Commands
  BY <1>1 DEF Commands
<1> HIDE DEF d
<1>7. /\ d.cmd = redo.cmd /\ d.action = redo.action /\ d.pos = cursor
      /\ d.count = IF c.count = 0 THEN redo.count ELSE c.count
      /\ d.redo = [redo EXCEPT !.keys = k] /\ d.rest = c.rest \o k
  BY <1>3, <1>5, <1>6 DEF Context
<1>8. d.redo \in Record /\ d.redo.keys = k /\ d.redo.cmd = redo.cmd /\ d.redo.action = redo.action
  BY <1>1, <1>2, <1>7 DEF Record
<1>9. d \in Context
  BY <1>1, <1>3, <1>4, <1>5, <1>6, <1>7, <1>8 DEF Context
<1>10. Ready(d)
  BY <1>3, <1>7, <1>9 DEF Ready
<1>11. Bound(d, "none")
  BY <1>1, <1>7 DEF Bound, InsertOnly, Replayed, Recorded, Motions, Seeking, Opening, Changing
<1>12. Fits(d.redo, map)
  BY <1>1, <1>2, <1>8 DEF Fits, GoesIn
<1> QED
  BY <1>7, <1>10, <1>11, <1>12 DEF d, k

\* A record begins to be played back.
LEMMA RepeatedPlays ==
  ASSUME Typing, NEW c, Ready(c), map = "command", c.redo = redo, Done(Repeated(c)),
         played' = IF Clean(redo) /\ c.rest = <<>> /\ (redo.keys # <<>> => map' = "insert") THEN redo ELSE NoRedo
  PROVE  Playing'
<1> SUFFICES ASSUME Clean(redo), c.rest = <<>>, redo.keys # <<>> => map' = "insert", played' = redo
             PROVE  Playing'
  BY DEF Playing
<1> DEFINE d == Repeated(c)
<1>1. /\ redo \in Record /\ redo.keys \in Seq(Key) /\ RedoCap \in Nat \ {0, 1} /\ redo.cmd \in Replayed
      /\ Len(redo.keys) \in Nat /\ Spelt(redo.keys) /\ Fits(redo, map)
  BY SizesAssumption, LenProperties DEF Typing, Record, Fits
<1>2. PlayedKeys = redo.keys
  BY <1>1 DEF PlayedKeys, Clean
<1>3. /\ Ready(d) /\ d.cmd = redo.cmd /\ d.action = redo.action
      /\ d.redo = [redo EXCEPT !.keys = PlayedKeys] /\ d.rest = c.rest \o PlayedKeys
  BY AgainReady
<1>4. Done(d) /\ d.count \in Nat
  BY <1>3, ReadyFacts
<1> HIDE DEF d
<1>5. d.redo = redo /\ d.rest = redo.keys
  BY <1>1, <1>2, <1>3, ConcatEmptySeq DEF Record
<1>6. d.cmd # "vi_alias" /\ (d.rest # <<>> => d.cmd \notin Seeking)
  <2>1. redo.cmd # "vi_alias"
    BY <1>1 DEF Replayed, Recorded, Motions, Seeking, Opening, Changing
  <2>2. redo.keys # <<>> => redo.cmd \notin Seeking
    BY <1>1, EmptySeq DEF Clean, Seeking
  <2> QED
    BY <1>3, <1>5, <2>1, <2>2
<1>7. pushed' = redo.keys
  BY <1>4, <1>5, <1>6 DEF Done, Follows
<1>8. redo'.cmd = redo.cmd /\ redo'.action = redo.action /\ (redo' = redo \/ redo'.keys = <<>>)
  BY <1>3, <1>4, <1>5 DEF Done, Begun, Started
<1>9. CASE redo.keys = <<>>
  <2>1. map' = "command"
    <3>1. ~GoesIn(redo)
      BY <1>9, <1>1 DEF Fits
    <3>2. ~GoesIn(d)
      BY <1>3, <3>1 DEF GoesIn
    <3>3. map' \in Maps /\ d.cmd \in Replayed
      BY <1>1, <1>3, <1>4 DEF Done, LineOK
    <3> QED
      BY <1>4, <3>2, <3>3 DEF Done, Entered, Maps
  <2>2. redo'.keys = <<>> /\ pushed' = <<>> /\ redo'.keys \o pushed' = redo.keys
    BY <1>1, <1>7, <1>8, <1>9, ConcatEmptySeq
  <2>3. PlaysOn'
    BY <1>8, <2>1, <2>2 DEF PlaysOn
  <2> QED
    BY <1>1, <2>3 DEF Playing
<1>10. CASE redo.keys # <<>>
  <2>1. Entered(d) /\ map' = "insert"
    BY <1>1, <1>3, <1>4, <1>10 DEF Done
  <2>2. redo'.keys = <<>> /\ redo'.count = d.count /\ count' <= redo'.count
    BY <1>4, <2>1 DEF Entered, Started
  <2>3. redo'.keys \o pushed' = redo.keys
    BY <1>1, <1>7, <2>2, ConcatEmptySeq
  <2>4. PlaysOn'
    BY <1>3, <1>7, <1>8, <1>10, <2>1, <2>2, <2>3 DEF PlaysOn, Entered
  <2> QED
    BY <1>1, <2>4 DEF Playing
<1> QED
  BY <1>9, <1>10

\* The next key of it is read.
LEMMA PlayedOn ==
  ASSUME IInv, pushed # <<>>, played # NoRedo, cursor <= Len(line),
         LET c == Given(Head(pushed), Tail(pushed)) IN Perform(c, Head(pushed)), played' = played
  PROVE  Playing'
<1> DEFINE key == Head(pushed)
           rest == Tail(pushed)
           c == Given(key, rest)
           k == redo.keys
           p == played.keys
           m == Len(k)
           n == Len(p)
<1>1. /\ Typing /\ redo \in Record /\ k \in Seq(Key) /\ p \in Seq(Key) /\ m \in Nat /\ n \in Nat
      /\ pushed \in Seq(Key) /\ line \in Text /\ Len(line) \in Nat /\ RedoCap \in Nat \ {0, 1} /\ Limit \in Nat
      /\ redo.count \in Nat /\ count \in Nat
  BY SizesAssumption, LenProperties, TextLen DEF IInv, Typing, Playing, Record, LineOK, WaitOK
<1>2. /\ Clean(played) /\ Spelt(p) /\ p = k \o pushed /\ map = "insert"
      /\ mode = "replace1" <=> played.cmd = "vi_replace_char"
      /\ count <= redo.count /\ redo.cmd = played.cmd /\ redo.action = played.action /\ played \in Record
  BY DEF IInv, Playing, PlaysOn
<1>3. /\ key \in Key /\ rest \in Seq(Key) /\ key = pushed[1] /\ Len(pushed) \in Nat \ {0}
      /\ Len(rest) = Len(pushed) - 1 /\ pushed = <<key>> \o rest
  <2>1. Head(pushed) \in Key /\ Tail(pushed) \in Seq(Key) /\ Len(Tail(pushed)) = Len(pushed) - 1
        /\ \A i \in 1..Len(Tail(pushed)) : Tail(pushed)[i] = pushed[i + 1]
    BY <1>1, HeadTailProperties
  <2>2. Len(pushed) \in Nat \ {0} /\ Head(pushed) = pushed[1]
    BY <1>1, EmptySeq
  <2>3. pushed = <<Head(pushed)>> \o Tail(pushed)
    BY <1>1, <2>1, <2>2
  <2> QED
    BY <2>1, <2>2, <2>3
<1> HIDE DEF key, rest, k, m, n, p
<1>4. n = m + Len(pushed) /\ p[m + 1] = key /\ (\A i \in 1..m : p[i] = k[i]) /\ (rest = <<>> <=> m + 1 = n)
  <2>1. /\ n = m + Len(pushed)
        /\ \A i \in 1..(m + Len(pushed)) : p[i] = IF i <= m THEN k[i] ELSE pushed[i - m]
    BY <1>1, <1>2, ConcatProperties DEF n, m
  <2>2. rest = <<>> <=> Len(rest) = 0
    BY <1>3, EmptySeq
  <2>3. m + 1 \in 1..(m + Len(pushed)) /\ ~(m + 1 <= m) /\ (m + 1) - m = 1
    BY <1>1, <1>3
  <2>4. p[m + 1] = key
    BY <1>3, <2>1, <2>3
  <2>5. \A i \in 1..m : i \in 1..(m + Len(pushed)) /\ i <= m
    BY <1>1, <1>3
  <2>6. \A i \in 1..m : p[i] = k[i]
    BY <2>1, <2>5
  <2>7. rest = <<>> <=> m + 1 = n
    BY <1>1, <1>3, <2>1, <2>2
  <2> QED
    BY <2>1, <2>4, <2>6, <2>7
<1>5. /\ n > 0 /\ n < RedoCap /\ m < RedoCap
      /\ rest # <<>> => key = BS \/ (key \in Printing /\ played.cmd # "vi_replace_char")
      /\ rest = <<>> => key = ESC \/ (key \in Printing /\ played.cmd = "vi_replace_char")
  <2>1. n > 0 /\ m + 1 \in 1..n /\ (rest # <<>> => m + 1 \in 1..n - 1)
    BY <1>1, <1>3, <1>4
  <2>2. /\ n < RedoCap
        /\ \A i \in 1..n - 1 : p[i] = BS \/ (p[i] \in Printing /\ played.cmd # "vi_replace_char")
        /\ p[n] = ESC \/ (p[n] \in Printing /\ played.cmd = "vi_replace_char")
    BY <1>2, <2>1 DEF Clean, n, p
  <2> QED
    BY <1>1, <1>4, <2>1, <2>2
<1>6. /\ key = ESC => CommandOf(key) = "vi_command_mode"
      /\ key = BS => CommandOf(key) = "vi_delete_prev_char"
      /\ key \in Printing => CommandOf(key) = "ed_insert"
  BY <1>2, InsertKeys
<1>7. /\ c.cmd = CommandOf(key) /\ c.rest = rest /\ c.count = count
      /\ c.redo = Captured(CommandOf(key), key)
      /\ c.redo.cmd = redo.cmd /\ c.redo.action = redo.action /\ c.redo.count = redo.count
  BY <1>1, <1>3, GivenReady
<1>8. Perform(c, key)
  BY DEF key, rest
<1> HIDE DEF c
<1>9. c.redo.keys \o rest = p
  <2>1. ~(CommandOf(key) = "vi_delete_prev_char" /\ m > 0 /\ k[m] \in Printing)
    <3> SUFFICES ASSUME CommandOf(key) = "vi_delete_prev_char", m > 0, k[m] \in Printing PROVE FALSE
      OBVIOUS
    <3>1. key = BS
      BY <1>5, <1>6
    <3>2. m + 1 \in 2..n /\ m \in 1..m /\ (m + 1) - 1 = m
      BY <1>1, <1>3, <1>4
    <3>3. p[m] \notin Printing
      BY <1>2, <1>4, <3>1, <3>2 DEF Spelt, n
    <3> QED
      BY <1>4, <3>2, <3>3
  <2>2. c.redo = [redo EXCEPT !.keys = Append(k, key)]
    <3>1. Captured(CommandOf(key), key) = [redo EXCEPT !.keys = Append(@, key)]
      BY <1>1, <1>2, <1>5, <2>1 DEF Captured, k, m
    <3> QED
      BY <1>1, <1>7, <3>1 DEF Record, k
  <2>3. c.redo.keys = Append(k, key)
    BY <1>1, <2>2 DEF Record
  <2>4. Append(k, key) = k \o <<key>> /\ <<key>> \in Seq(Key)
    BY <1>1, <1>3, AppendIsConcat
  <2>5. (k \o <<key>>) \o rest = k \o (<<key>> \o rest)
    <3> DEFINE one == <<key>>
    <3>1. one \in Seq(Key) /\ k \in Seq(Key) /\ rest \in Seq(Key)
      BY <1>1, <1>3, <2>4
    <3> HIDE DEF one
    <3>2. (k \o one) \o rest = k \o (one \o rest)
      BY <3>1, ConcatAssociative
    <3> QED
      BY <3>2 DEF one
  <2> QED
    BY <1>2, <1>3, <2>3, <2>4, <2>5
<1>10. \/ key \in Printing /\ ed_insert(c, key)
       \/ key = BS /\ vi_delete_prev_char(c)
       \/ key = ESC /\ vi_command_mode(c)
  BY <1>5, <1>6, <1>7, <1>8 DEF Perform, Does, Seeks
<1>11. pushed' = rest /\ redo' = c.redo
  BY <1>7, <1>10 DEF ed_insert, vi_delete_prev_char, vi_command_mode, Fail, Quiet
<1>12. CASE rest # <<>>
  <2>1. SameMap /\ DropArgs
    <3>1. CASE key \in Printing /\ ed_insert(c, key)
      <4>1. mode # "replace1"
        BY <1>2, <1>5, <1>12, <3>1, KeysAssumption DEF Printing, KeysOf, Editing
      <4> QED
        BY <3>1, <4>1 DEF ed_insert, Fail, Quiet
    <3>2. CASE key = BS /\ vi_delete_prev_char(c)
      BY <3>2 DEF vi_delete_prev_char, Fail, Quiet
    <3>3. CASE key = ESC /\ vi_command_mode(c)
      BY <1>5, <1>6, <1>12, <3>3
    <3> QED
      BY <1>10, <3>1, <3>2, <3>3
  <2>2. map' = "insert" /\ mode' = mode /\ count' = 0
    BY <1>2, <2>1 DEF SameMap, DropArgs
  <2>3. 0 <= c.redo.count
    BY <1>1, <1>7
  <2>4. PlaysOn'
    BY <1>2, <1>7, <1>9, <1>11, <1>12, <2>2, <2>3 DEF PlaysOn, p
  <2> QED
    BY <1>2, <2>4 DEF Playing, p
<1>13. CASE rest = <<>>
  <2>1. \/ map' = "command"
        \/ played.cmd = "vi_replace_char" /\ line' = line /\ Len(line) + Argument(c) >= Limit
    <3>1. CASE key \in Printing /\ ed_insert(c, key)
      <4>1. mode = "replace1" /\ played.cmd = "vi_replace_char"
        BY <1>2, <1>5, <1>6, <1>13, <3>1
      <4>2. CASE map' = "command"
        BY <4>2
      <4>3. CASE map' # "command"
        BY <3>1, <4>1, <4>3 DEF ed_insert, CommandMode, Opens, Fail
      <4> QED
        BY <4>2, <4>3
    <3>2. CASE key = BS /\ vi_delete_prev_char(c)
      BY <1>5, <1>6, <1>13, <3>2
    <3>3. CASE key = ESC /\ vi_command_mode(c)
      BY <3>3 DEF vi_command_mode, CommandMode
    <3> QED
      BY <1>10, <3>1, <3>2, <3>3
  <2>2. Argument(c) <= Argument(redo') /\ Argument(c) \in Nat /\ Argument(redo') \in Nat
    BY <1>1, <1>2, <1>7, <1>11 DEF Argument
  <2>3. \/ map' = "command"
        \/ played.cmd = "vi_replace_char" /\ Len(line') + Argument(redo') >= Limit
    BY <1>1, <2>1, <2>2
  <2>4. PlaysOn'
    BY <1>2, <1>7, <1>9, <1>11, <1>13, <2>3 DEF PlaysOn, p
  <2> QED
    BY <1>2, <2>4 DEF Playing, p
<1> QED
  BY <1>12, <1>13

\* Any turn: what waits is what is read first.
LEMMA TurnKeeps ==
  ASSUME IInv, NEW key \in Key, NEW rest \in Seq(Key), Turn(key, rest),
         \/ pushed = <<>> /\ rest = <<>>
         \/ pushed # <<>> /\ key = Head(pushed) /\ rest = Tail(pushed)
  PROVE  IInv' /\ (map = "command" => CutBack) /\ OnLine
<1> DEFINE c == Given(key, rest)
<1>1. Typing /\ SearchOK /\ cursor <= Len(line)
  BY DEF IInv, Turn
<1>2. /\ Ready(c) /\ Bound(c, key) /\ Fits(c.redo, map)
      /\ c.cmd = CommandOf(key) /\ c.rest = rest
      /\ map = "command" => c.redo = redo
      /\ map = "insert" => c.cmd \in Inserting
      /\ map = "insert" /\ c.cmd \in {"vi_command_mode", "ed_insert"} => c.redo.keys # <<>>
  BY <1>1, GivenReady
<1>3. IF CommandOf(key) = "vi_redo" THEN Redo(c)
      ELSE Perform(c, key) /\ played' = IF pushed = <<>> THEN NoRedo ELSE played
  BY Zenon DEF Turn, Given
<1>4. map \in Maps
  BY <1>1 DEF Typing, LineOK
<1>5. CASE CommandOf(key) # "vi_redo"
  <2>1. Perform(c, key) /\ played' = IF pushed = <<>> THEN NoRedo ELSE played
    BY <1>3, <1>5
  <2>2. Playing'
    <3>1. CASE played' = NoRedo
      BY <3>1 DEF Playing
    <3>2. CASE played' # NoRedo
      <4>1. pushed # <<>> /\ played' = played /\ played # NoRedo
        BY <2>1, <3>2
      <4>2. Perform(Given(Head(pushed), Tail(pushed)), Head(pushed))
        BY <2>1, <4>1, Zenon
      <4> QED
        BY <1>1, <4>1, <4>2, PlayedOn
    <3> QED
      BY <3>1, <3>2
  <2> HIDE DEF c
  <2>3. Done(c) /\ SearchOK'
    BY <1>1, <1>2, <2>1, PerformDone
  <2>4. Typing'
    BY <1>2, <2>3, DoneTyping
  <2> QED
    BY <2>2, <2>3, <2>4 DEF IInv, Done, Typing
<1>6. CASE CommandOf(key) = "vi_redo"
  <2> DEFINE d == Repeated(c)
  <2>1. /\ Perform(d, "none")
        /\ played' = IF Clean(redo) /\ c.rest = <<>> /\ (redo.keys # <<>> => map' = "insert") THEN redo ELSE NoRedo
    BY <1>3, <1>6, Zenon DEF Redo, Repeated
  <2> HIDE DEF c
  <2>2. map = "command" /\ c.redo = redo
    BY <1>2, <1>4, <1>6 DEF Maps, Inserting
  <2>3. Ready(d) /\ Bound(d, "none") /\ Fits(d.redo, map)
    BY <1>1, <1>2, <2>2, AgainReady
  <2>4. Done(d) /\ SearchOK'
    <3> HIDE DEF d
    <3> QED
      BY <1>1, <2>1, <2>3, PerformDone
  <2>5. Typing'
    <3> HIDE DEF d
    <3> QED
      BY <2>2, <2>3, <2>4, DoneTyping
  <2>6. Playing'
    BY <1>1, <1>2, <2>1, <2>2, <2>4, RepeatedPlays
  <2> QED
    BY <2>4, <2>5, <2>6 DEF IInv, Done, Typing
<1> QED
  BY <1>5, <1>6

\* A step is a turn, with a key that the user typed or one that was pushed.
LEMMA NextKeeps ==
  ASSUME IInv, [Next]_vars
  PROVE  IInv' /\ (map = "command" => CutBack \/ UNCHANGED line) /\ (OnLine \/ UNCHANGED vars)
<1>1. /\ Typing /\ map \in Maps /\ pushed \in Seq(Key) /\ <<>> \in Seq(Key)
      /\ CursorOK /\ line \in Text
  BY EmptySeq DEF IInv, Typing, LineOK
<1>2. CASE Typed
  <2>1. PICK key \in IF map = "insert" THEN KeysOf(Editing) \cup Letters ELSE DOMAIN Keys : Turn(key, <<>>)
    BY <1>2 DEF Typed
  <2>2. Letters \subseteq Key
    BY TextsAssumption DEF Key, Printing
  <2>3. map # "insert" => DOMAIN Keys = KeysOf(Commanding)
    BY <1>1 DEF Maps, Keys, el_map_vi_command, MapOf
  <2>4. key \in Key
    BY <2>1, <2>2, <2>3 DEF Key
  <2>5. pushed = <<>>
    BY <1>2 DEF Typed
  <2> QED
    BY <1>1, <2>1, <2>4, <2>5, TurnKeeps
<1>3. CASE Pushed
  <2>1. pushed # <<>> /\ Turn(Head(pushed), Tail(pushed))
    BY <1>3 DEF Pushed
  <2>2. Head(pushed) \in Key /\ Tail(pushed) \in Seq(Key)
    BY <1>1, <2>1, HeadTailProperties
  <2> QED
    BY <2>1, <2>2, TurnKeeps
<1>4. ASSUME UNCHANGED <<line, kill, map, mode, action, pos, count, redo, search, pushed, played>>,
             cursor' \in Nat, CursorOK'
      PROVE  IInv'
  <2>1. Typing'
    BY <1>1, <1>4 DEF Typing, LineOK, ModeOK, WaitOK, Fits, Places
  <2>2. SearchOK'
    BY <1>4 DEF IInv, SearchOK
  <2>3. PlaysOn <=> PlaysOn'
    BY <1>4 DEF PlaysOn, Argument
  <2>4. Playing'
    BY <1>4, <2>3 DEF IInv, Playing
  <2> QED
    BY <2>1, <2>2, <2>4 DEF IInv
<1>5. CASE Redrawn
  <2>1. /\ UNCHANGED <<line, kill, map, mode, action, pos, count, redo, search, pushed, played>>
        /\ Refreshed(cursor) /\ cursor \in Nat /\ line' \in Text
    BY <1>1, <1>5 DEF Redrawn, Typing, LineOK
  <2>2. cursor' \in Nat /\ OnLine
    BY <2>1, RefreshedOn
  <2> QED
    BY <1>4, <2>1, <2>2 DEF OnLine, CursorOK
<1>6. CASE UNCHANGED vars
  <2>1. /\ UNCHANGED <<line, kill, map, mode, action, pos, count, redo, search, pushed, played>>
        /\ cursor' = cursor /\ cursor \in Nat
    BY <1>1, <1>6 DEF vars, Typing, LineOK
  <2> QED
    BY <1>1, <1>4, <1>6, <2>1 DEF CursorOK
<1> QED
  BY <1>2, <1>3, <1>5, <1>6 DEF Next

-------------------------------------------------------------------------------
(* The theorems.                                                           *)

\* Throughout, whatever is typed: every variable has its type; an operator or
\* a count waits where it may; a record fits the map and the buffer; and
\* while one is played back, what is recorded anew and what is still to be
\* read make it up.
THEOREM TypeCorrect == Spec => []IInv
<1>1. IInv /\ [Next]_vars => IInv'
  BY NextKeeps
<1> QED
  BY InitInv, <1>1, PTL DEF Spec

\* No way back to the command map brings a replace mode along, no command
\* leaves an operator or a count that the next key would get by mistake, and
\* the place an operator was given at stays in the line.
THEOREM ModesAlwaysAgree == Spec => []ModesAgree
<1>1. IInv => ModesAgree
  BY DEF IInv, Typing, ModeOK, WaitOK, Places, ModesAgree
<1> QED
  BY <1>1, TypeCorrect, PTL

\* Doing the last command again with . leaves the record as it was, for
\* every command, operator and text inserted: what the read loop captures
\* while vi_redo's keys are read is what vi_redo pushed.
THEOREM RedoAlwaysKeeps == Spec => []RedoKeepsRecord
<1>1. IInv => RedoKeepsRecord
  <2> SUFFICES ASSUME IInv, played # NoRedo, pushed = <<>> PROVE RedoKeepsRecord
    BY DEF RedoKeepsRecord
  <2>1. PlaysOn /\ redo.keys \in Seq(Key)
    BY DEF IInv, Playing, Typing, Record
  <2>2. redo.keys \o pushed = redo.keys
    BY <2>1, ConcatEmptySeq
  <2> QED
    BY <2>1, <2>2 DEF PlaysOn, RedoKeepsRecord
<1> QED
  BY <1>1, TypeCorrect, PTL

\* Whatever an operator and its motion, or a command by itself, takes from
\* the line in the command map can be put back from the cut buffer.
THEOREM CutAlwaysKept == Spec => CutIsKept
<1>1. IInv /\ [Next]_vars =>
        [Len(line') < Len(line) /\ map = "command" =>
           \/ \E p \in 0..Len(line') : Inserted(line', p, kill') = line
           \/ OtherLine
           \/ CutByGraphemes]_vars
  <2> SUFFICES ASSUME IInv, [Next]_vars, Len(line') < Len(line), map = "command" PROVE CutBack
    BY Zenon DEF CutBack
  <2>1. line \in Text
    BY DEF IInv, Typing, LineOK
  <2>2. ~UNCHANGED line
    BY <2>1, TextLen
  <2> QED
    BY <2>2, NextKeeps
<1> QED
  BY <1>1, TypeCorrect, PTL DEF Spec, CutIsKept

\* Behind the line the cursor comes only where a repeated search finds nothing,
\* and in the command map no key, word, operator or replayed record leaves it at
\* the end of a line that is not empty, but a text that could not be pasted.
THEOREM CursorAlwaysStays == Spec => CursorStays
<1>1. IInv /\ [Next]_vars =>
        [/\ cursor' > Len(line') => line' = <<>>
         /\ map' = "command" /\ line' # <<>> /\ cursor' = Len(line') => NoRoom]_vars
  BY NextKeeps DEF OnLine
<1> QED
  BY <1>1, TypeCorrect, PTL DEF Spec, CursorStays

===============================================================================
