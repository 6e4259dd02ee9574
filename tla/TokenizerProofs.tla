---------------------------- MODULE TokenizerProofs ----------------------------
(***************************************************************************)
(* The tokenizer stays within its buffers, whatever their sizes, whatever  *)
(* is scanned and wherever an allocation fails; and the words it returns   *)
(* are those the grammar of TokenizerWords has for what was scanned.       *)
(* The scan does not look back, so the invariant splits the input where    *)
(* the last word ended: what is before spells the words that are finished, *)
(* and what is behind, the word so far, as far as the quoting state lets   *)
(* one know.                                                               *)
(***************************************************************************)
EXTENDS TokenizerWords, SequenceTheorems, WellFoundedInduction, TLAPS

\* Where a word is still to be finished there is room for its NUL and its
\* address; where there is none, one step more may have been taken.
Tight ==
  /\ Len(text) <= wmax - Margin /\ Len(argv) <= amax - Margin
  /\ keep \/ wstart # Len(text) => Len(text) < wmax - Margin /\ Len(argv) < amax - Margin

SizeInv ==
  /\ wmax \in Nat /\ amax \in Nat /\ wmax > Margin /\ amax > Margin
  /\ BuffersHold
  /\ at = "scan" \/ result # -1 => Tight

IInv == TypeOK /\ SizeInv

-------------------------------------------------------------------------------
(* Sequences.                                                              *)

LEMMA LenIsNat == ASSUME NEW S, NEW s \in Seq(S) PROVE Len(s) \in Nat
BY LenProperties

\* Where characters and addresses come to.
LEMMA TextGrows ==
  ASSUME NEW t \in Seq(Char), NEW s \in Seq(Char)
  PROVE  t \o s \in Seq(Char) /\ Len(t \o s) = Len(t) + Len(s)
BY ConcatProperties

LEMMA WordAdded ==
  ASSUME NEW v \in Seq(Nat), NEW a \in Nat
  PROVE  Append(v, a) \in Seq(Nat) /\ Len(Append(v, a)) = Len(v) + 1
BY AppendProperties

LEMMA TextAppended ==
  ASSUME NEW t \in Seq(Char), NEW c \in Char
  PROVE  Append(t, c) \in Seq(Char) /\ Len(Append(t, c)) = Len(t) + 1
BY AppendProperties

LEMMA OneOrTwo ==
  ASSUME NEW b \in Char, NEW c \in Char
  PROVE  /\ <<c>> \in Seq(Char) /\ Len(<<c>>) = 1
         /\ <<b, c>> \in Seq(Char) /\ Len(<<b, c>>) = 2
OBVIOUS

-------------------------------------------------------------------------------
(* What a character does to the buffers.                                   *)

\* The types of what the steps on words change.
WordsOK == text \in Seq(Char) /\ wstart \in 0..Len(text) /\ argv \in Seq(Nat)
SizesOK == wmax \in Nat /\ amax \in Nat /\ wmax > Margin /\ amax > Margin

LEMMA PutKeeps ==
  ASSUME WordsOK, NEW s \in Seq(Char), Put(s)
  PROVE  WordsOK' /\ Len(text') = Len(text) + Len(s) /\ argv' = argv
<1>1. text' \in Seq(Char) /\ Len(text') = Len(text) + Len(s)
  BY TextGrows DEF WordsOK, Put
<1>2. Len(text) \in Nat /\ Len(s) \in Nat
  BY LenIsNat DEF WordsOK
<1>3. wstart' \in 0..Len(text')
  BY <1>1, <1>2 DEF WordsOK, Put
<1> QED
  BY <1>1, <1>3 DEF WordsOK, Put

LEMMA FinishKeeps ==
  ASSUME WordsOK, keep \in BOOLEAN, Finish
  PROVE  /\ WordsOK' /\ keep' = FALSE /\ wstart' = Len(text')
         /\ \/ /\ keep \/ wstart # Len(text)
               /\ Len(text') = Len(text) + 1 /\ Len(argv') = Len(argv) + 1
            \/ text' = text /\ argv' = argv
<1>1. Len(text) \in Nat /\ wstart \in Nat
  BY LenIsNat DEF WordsOK
<1>2. CASE keep \/ Len(text) # wstart
  <2>1. argv' = Append(argv, wstart) /\ text' = Append(text, Nul) /\ wstart' = Len(text) + 1
    BY <1>2 DEF Finish
  <2>2. text' \in Seq(Char) /\ Len(text') = Len(text) + 1
    BY <2>1, TextAppended DEF WordsOK, Char
  <2>3. argv' \in Seq(Nat) /\ Len(argv') = Len(argv) + 1
    BY <1>1, <2>1, WordAdded DEF WordsOK
  <2>4. wstart' \in 0..Len(text')
    BY <1>1, <2>1, <2>2
  <2> QED
    BY <1>2, <2>1, <2>2, <2>3, <2>4 DEF WordsOK, Finish
<1>3. CASE ~(keep \/ Len(text) # wstart)
  BY <1>3 DEF Finish, WordsOK, wordVars
<1> QED
  BY <1>2, <1>3

\* Whatever the allocations do, there is room again or the call is over.
LEMMA RoomKeeps ==
  ASSUME Room, SizesOK, WordsOK', at = "scan", result \in {-1, 0, 1, 2, 3},
         Len(text') <= wmax - Margin + 2, Len(argv') <= amax - Margin + 1
  PROVE  SizeInv' /\ at' \in {"caller", "scan"} /\ result' \in {-1, 0, 1, 2, 3}
<1> DEFINE t == Len(text')
           v == Len(argv')
<1>1. t \in Nat /\ v \in Nat
  BY LenIsNat DEF WordsOK
<1>2. t <= wmax - Margin + 2 /\ v <= amax - Margin + 1
  OBVIOUS
<1>3. PICK word \in BOOLEAN, arg \in BOOLEAN :
        /\ wmax' = IF Full(t, wmax) /\ word THEN wmax + WIncr ELSE wmax
        /\ amax' = IF Full(v, amax) /\ arg /\ (Full(t, wmax) => word) THEN amax + AIncr ELSE amax
        /\ IF (Full(t, wmax) => word) /\ (Full(v, amax) => arg)
           THEN at' = "scan" /\ UNCHANGED result
           ELSE at' = "caller" /\ result' = -1
  BY DEF Room
<1> HIDE DEF t, v
<1>4. SizesOK' /\ wmax' >= wmax /\ amax' >= amax
  <2>1. wmax' \in {wmax, wmax + WIncr} /\ amax' \in {amax, amax + AIncr}
    BY <1>3
  <2> QED
    BY <2>1, RoomAssumption DEF SizesOK
<1>5. t < wmax' /\ v < amax'
  BY <1>1, <1>2, <1>4, RoomAssumption DEF SizesOK
<1>6. CASE (Full(t, wmax) => word) /\ (Full(v, amax) => arg)
  <2>1. t < wmax' - Margin
    <3>1. CASE Full(t, wmax)
      BY <1>1, <1>2, <1>3, <1>6, <3>1, RoomAssumption DEF SizesOK
    <3>2. CASE ~Full(t, wmax)
      BY <1>1, <1>3, <3>2, RoomAssumption DEF SizesOK, Full
    <3> QED
      BY <3>1, <3>2
  <2>2. v < amax' - Margin
    <3>1. CASE Full(v, amax)
      BY <1>1, <1>2, <1>3, <1>6, <3>1, RoomAssumption DEF SizesOK
    <3>2. CASE ~Full(v, amax)
      BY <1>1, <1>3, <3>2, RoomAssumption DEF SizesOK, Full
    <3> QED
      BY <3>1, <3>2
  <2>3. Tight'
    BY <1>1, <1>4, <2>1, <2>2, RoomAssumption DEF Tight, t, v, SizesOK
  <2> QED
    BY <1>3, <1>4, <1>5, <1>6, <2>3 DEF SizeInv, SizesOK, BuffersHold, t, v
<1>7. CASE ~((Full(t, wmax) => word) /\ (Full(v, amax) => arg))
  BY <1>3, <1>4, <1>5, <1>7 DEF SizeInv, SizesOK, BuffersHold, t, v
<1> QED
  BY <1>6, <1>7

\* What is put in a word by one character.
LEMMA CharacterPut ==
  ASSUME WordsOK, NEW c \in Char, NEW quotes,
         Escaped(c) \/ Quoted(c, quotes)
  PROVE  WordsOK' /\ Len(text') <= Len(text) + 2 /\ argv' = argv
<1>1. "\\" \in Char
  BY DEF Char, Special
<1>2. PICK s \in {<<c>>, <<"\\", c>>} : Put(s)
  BY DEF Escaped, Quoted
<1>3. s \in Seq(Char) /\ Len(s) \in {1, 2}
  <2>1. CASE s = <<c>>
    BY <1>1, <2>1, OneOrTwo
  <2>2. CASE s = <<"\\", c>>
    BY <1>1, <2>2, OneOrTwo
  <2> QED
    BY <2>1, <2>2
<1>4. Len(text) \in Nat
  BY LenIsNat DEF WordsOK
<1>5. WordsOK' /\ Len(text') = Len(text) + Len(s) /\ argv' = argv
  BY <1>2, <1>3, PutKeeps
<1>6. CASE Len(s) = 1
  BY <1>4, <1>5, <1>6
<1>7. CASE Len(s) = 2
  BY <1>4, <1>5, <1>7
<1> QED
  BY <1>3, <1>6, <1>7

-------------------------------------------------------------------------------
(* The steps, and the buffers.                                             *)

\* What a step on one character does besides.
LEMMA ScanKeeps ==
  ASSUME TypeOK, NEW c \in Char, Scan(c)
  PROVE  at = "scan" /\ cursor' \in [word : Int, offset : Int] /\ input' \in Seq(Char) /\ beyond' \in BOOLEAN
<1>1. Here \in [word : Int, offset : Int]
  BY LenIsNat DEF TypeOK, Here
<1>2. cursor' \in [word : Int, offset : Int]
  BY <1>1 DEF Scan, Mark, TypeOK
<1>3. input' \in Seq(Char)
  BY TextAppended DEF Scan, Record, TypeOK
<1> QED
  BY <1>2, <1>3 DEF Scan, Record, TypeOK

\* A step that puts at most two characters in the word and makes room.
LEMMA RoomyStep ==
  ASSUME IInv, at = "scan", Room,
         WordsOK', Len(text') <= Len(text) + 2, Len(argv') <= Len(argv) + 1,
         Len(text') <= Len(text) + 1 \/ argv' = argv,
         quote' \in {"none", "single", "double", "one", "doubleone"},
         keep' \in BOOLEAN, eat' \in BOOLEAN, beyond' \in BOOLEAN,
         cursor' \in [word : Int, offset : Int], input' \in Seq(Char)
  PROVE  IInv'
<1>1. Len(text) \in Nat /\ Len(argv) \in Nat /\ Len(text') \in Nat /\ Len(argv') \in Nat
  BY LenIsNat DEF IInv, TypeOK, WordsOK
<1>2. SizesOK /\ Tight /\ result \in {-1, 0, 1, 2, 3}
  BY DEF IInv, SizeInv, SizesOK, TypeOK
<1>3. Len(text) <= wmax - Margin /\ Len(argv) <= amax - Margin
  BY <1>2 DEF Tight
<1>4. Len(text') <= wmax - Margin + 2 /\ Len(argv') <= amax - Margin + 1
  <2> DEFINE n == Len(text)
             m == Len(argv)
             k == Len(text')
             l == Len(argv')
  <2>1. n \in Nat /\ m \in Nat /\ k \in Nat /\ l \in Nat /\ k <= n + 2 /\ l <= m + 1
        /\ n <= wmax - Margin /\ m <= amax - Margin
    BY <1>1, <1>3
  <2> HIDE DEF n, m, k, l
  <2>2. k <= wmax - Margin + 2 /\ l <= amax - Margin + 1
    BY <1>2, <2>1, RoomAssumption DEF SizesOK
  <2> QED
    BY <2>2 DEF k, l
<1>5. SizeInv' /\ at' \in {"caller", "scan"} /\ result' \in {-1, 0, 1, 2, 3}
  BY <1>2, <1>4, RoomKeeps
<1> QED
  BY <1>5 DEF IInv, TypeOK, WordsOK, SizeInv

\* tok_finish without making room: there was some.
LEMMA OkKeeps ==
  ASSUME IInv, at = "scan", Ok,
         quote' \in {"none", "single", "double", "one", "doubleone"},
         eat' \in BOOLEAN, beyond' \in BOOLEAN, input' \in Seq(Char)
  PROVE  IInv'
<1>1. WordsOK /\ keep \in BOOLEAN
  BY DEF IInv, TypeOK, WordsOK
<1>2. SizesOK /\ Tight /\ BuffersHold /\ SizesOK'
  BY DEF IInv, SizeInv, SizesOK, Ok, sizeVars
<1>3. /\ WordsOK' /\ keep' = FALSE /\ wstart' = Len(text')
      /\ \/ /\ keep \/ wstart # Len(text)
            /\ Len(text') = Len(text) + 1 /\ Len(argv') = Len(argv) + 1
         \/ text' = text /\ argv' = argv
  BY <1>1, FinishKeeps DEF Ok
<1>4. Len(text) \in Nat /\ Len(argv) \in Nat
  BY <1>1, LenIsNat DEF WordsOK
<1>5. Len(text') <= wmax - Margin /\ Len(argv') <= amax - Margin
  <2>1. CASE text' = text /\ argv' = argv
    BY <1>2, <2>1 DEF Tight
  <2>2. CASE /\ keep \/ wstart # Len(text)
             /\ Len(text') = Len(text) + 1 /\ Len(argv') = Len(argv) + 1
    <3>1. Len(text) < wmax - Margin /\ Len(argv) < amax - Margin
      BY <1>2, <2>2 DEF Tight
    <3> QED
      BY <1>2, <1>4, <2>2, <3>1, RoomAssumption DEF SizesOK
  <2> QED
    BY <1>3, <2>1, <2>2
<1>6. Tight'
  BY <1>3, <1>5 DEF Tight, Ok, sizeVars
<1>7. BuffersHold'
  <2>1. Len(text') \in Nat /\ Len(argv') \in Nat
    BY <1>3, LenIsNat DEF WordsOK
  <2>2. wmax' = wmax /\ amax' = amax
    BY DEF Ok, sizeVars
  <2> QED
    BY <1>2, <1>5, <2>1, <2>2, RoomAssumption DEF BuffersHold, SizesOK
<1>8. Here \in [word : Int, offset : Int]
  BY <1>1, <1>4 DEF Here, WordsOK
<1>9. cursor' \in [word : Int, offset : Int] /\ at' = "caller" /\ result' = 0
  BY <1>8 DEF IInv, TypeOK, Ok
<1> QED
  BY <1>2, <1>3, <1>6, <1>7, <1>9 DEF IInv, TypeOK, SizeInv, SizesOK, WordsOK

\* One character within a line that is put in the word, or changes the
\* quoting state.
LEMMA CharacterKeeps ==
  ASSUME IInv, NEW c \in Char, Scan(c), Room, keep' \in BOOLEAN, eat' \in BOOLEAN,
         \/ Escaped(c)
         \/ \E quotes : Quoted(c, quotes)
         \/ \E from, to \in {"none", "single", "double", "one", "doubleone"} : Switch(from, to)
  PROVE  IInv'
<1>1. TypeOK /\ WordsOK /\ Len(text) \in Nat /\ Len(argv) \in Nat
  BY LenIsNat DEF IInv, TypeOK, WordsOK
<1>2. /\ at = "scan" /\ cursor' \in [word : Int, offset : Int]
      /\ input' \in Seq(Char) /\ beyond' \in BOOLEAN
  BY <1>1, ScanKeeps
<1>3. quote' \in {"none", "single", "double", "one", "doubleone"}
  BY <1>1 DEF TypeOK, Escaped, Quoted, Switch
<1>4. WordsOK' /\ Len(text') <= Len(text) + 2 /\ argv' = argv
  <2>1. CASE Escaped(c)
    BY <1>1, <2>1, CharacterPut
  <2>2. CASE \E quotes : Quoted(c, quotes)
    BY <1>1, <2>2, CharacterPut
  <2>3. CASE \E from, to \in {"none", "single", "double", "one", "doubleone"} : Switch(from, to)
    <3>1. text' = text /\ wstart' = wstart /\ argv' = argv
      BY <2>3 DEF Switch, wordVars
    <3>2. Len(text') <= Len(text) + 2
      BY <1>1, <3>1
    <3> QED
      BY <1>1, <3>1, <3>2 DEF WordsOK
  <2> QED
    BY <2>1, <2>2, <2>3
<1>5. Len(argv') <= Len(argv) + 1
  BY <1>1, <1>4
<1> QED
  BY <1>2, <1>3, <1>4, <1>5, RoomyStep

LEMMA EndOfWordKeeps == ASSUME IInv, EndOfWord PROVE IInv'
<1>1. TypeOK /\ WordsOK /\ keep \in BOOLEAN /\ Len(text) \in Nat /\ Len(argv) \in Nat
  BY LenIsNat DEF IInv, TypeOK, WordsOK
<1>2. Separator \in Char /\ Scan(Separator) /\ Finish /\ Room
  BY DEF EndOfWord, Char
<1>3. /\ at = "scan" /\ cursor' \in [word : Int, offset : Int]
      /\ input' \in Seq(Char) /\ beyond' \in BOOLEAN
  BY <1>1, <1>2, ScanKeeps
<1>4. /\ WordsOK' /\ keep' = FALSE
      /\ \/ Len(text') = Len(text) + 1 /\ Len(argv') = Len(argv) + 1
         \/ text' = text /\ argv' = argv
  BY <1>1, <1>2, FinishKeeps
<1>5. Len(text') <= Len(text) + 1 /\ Len(text') <= Len(text) + 2 /\ Len(argv') <= Len(argv) + 1
  <2>1. CASE Len(text') = Len(text) + 1 /\ Len(argv') = Len(argv) + 1
    BY <1>1, <2>1
  <2>2. CASE text' = text /\ argv' = argv
    BY <1>1, <2>2
  <2> QED
    BY <1>4, <2>1, <2>2
<1>6. quote' \in {"none", "single", "double", "one", "doubleone"} /\ eat' \in BOOLEAN
  BY <1>1 DEF TypeOK, EndOfWord
<1> QED
  BY <1>2, <1>3, <1>4, <1>5, <1>6, RoomyStep

LEMMA EndQuotedKeeps == ASSUME IInv, EndQuoted PROVE IInv'
<1>1. TypeOK /\ WordsOK /\ Len(text) \in Nat /\ Len(argv) \in Nat
  BY LenIsNat DEF IInv, TypeOK, WordsOK
<1>2. <<Nul>> \in Seq(Char) /\ Len(<<Nul>>) = 1
  BY OneOrTwo DEF Char
<1>3. WordsOK' /\ Len(text') = Len(text) + 1 /\ argv' = argv
  BY <1>1, <1>2, PutKeeps DEF EndQuoted
<1>4. Len(text') <= Len(text) + 1 /\ Len(text') <= Len(text) + 2 /\ Len(argv') <= Len(argv) + 1
  BY <1>1, <1>3
<1>5. quote' \in {"none", "single", "double", "one", "doubleone"} /\ beyond' \in BOOLEAN
  BY DEF EndQuoted
<1>6. input' = <<>> /\ keep' = keep /\ eat' = eat /\ cursor' = cursor /\ at = "scan" /\ Room
  BY DEF EndQuoted
<1>7. /\ keep' \in BOOLEAN /\ eat' \in BOOLEAN
      /\ cursor' \in [word : Int, offset : Int] /\ input' \in Seq(Char)
  BY <1>1, <1>6 DEF TypeOK
<1> QED
  BY <1>3, <1>4, <1>5, <1>6, <1>7, RoomyStep

LEMMA EndOfLineKeeps == ASSUME IInv, EndOfLine PROVE IInv'
<1>1. TypeOK
  BY DEF IInv
<1>2. CASE quote = "none" /\ ~eat /\ Ok /\ UNCHANGED <<quote, eat>> /\ Record("\n")
  <2>1. "\n" \in Char
    BY DEF Char, Special
  <2>2. input' \in Seq(Char) /\ beyond' \in BOOLEAN
    BY <1>1, <1>2, <2>1, TextAppended DEF Record, TypeOK
  <2>3. quote' \in {"none", "single", "double", "one", "doubleone"} /\ eat' \in BOOLEAN
    BY <1>1, <1>2 DEF TypeOK
  <2> QED
    BY <1>2, <2>2, <2>3, OkKeeps DEF EndOfLine
<1>3. CASE /\ result' \in {1, 2, 3} /\ at' = "caller" /\ eat' = (eat /\ quote # "none")
           /\ UNCHANGED <<wordVars, sizeVars, quote, keep, cursor, auxVars>>
  <2>1. TypeOK'
    BY <1>1, <1>3 DEF TypeOK, wordVars, sizeVars, auxVars
  <2>2. SizeInv'
    BY <1>3 DEF EndOfLine, IInv, SizeInv, Tight, BuffersHold, wordVars, sizeVars
  <2> QED
    BY <2>1, <2>2 DEF IInv
<1> QED
  BY <1>2, <1>3 DEF EndOfLine

LEMMA EndAtNewlineKeeps == ASSUME IInv, EndAtNewline PROVE IInv'
<1>1. TypeOK
  BY DEF IInv
<1>2. "\n" \in Char
  BY DEF Char, Special
<1>3. input' \in Seq(Char) /\ beyond' \in BOOLEAN
  BY <1>1, <1>2, TextAppended DEF EndAtNewline, Record, TypeOK
<1>4. quote' \in {"none", "single", "double", "one", "doubleone"} /\ eat' \in BOOLEAN
  BY <1>1 DEF TypeOK, EndAtNewline
<1> QED
  BY <1>3, <1>4, OkKeeps DEF EndAtNewline

\* Behind tok_reset the buffers are empty, and larger than their margin.
LEMMA EmptyFits ==
  ASSUME SizesOK', text' = <<>>, wstart' = 0, argv' = <<>>, keep' = FALSE
  PROVE  SizeInv' /\ WordsOK'
<1> DEFINE w == wmax'
           a == amax'
<1>1. Len(text') = 0 /\ Len(argv') = 0 /\ text' \in Seq(Char) /\ argv' \in Seq(Nat)
  OBVIOUS
<1>2. w \in Nat /\ a \in Nat /\ w > Margin /\ a > Margin
  BY DEF SizesOK
<1> HIDE DEF w, a
<1>3. /\ 0 <= w - Margin /\ 0 <= a - Margin /\ 0 < w - Margin /\ 0 < a - Margin
      /\ 0 < w /\ 0 < a
  BY <1>2, RoomAssumption
<1>4. BuffersHold'
  BY <1>1, <1>3 DEF BuffersHold, w, a
<1>5. Tight'
  BY <1>1, <1>3, Zenon DEF Tight, w, a
<1>6. wstart' \in 0..Len(text')
  BY <1>1
<1> QED
  BY <1>1, <1>4, <1>5, <1>6 DEF SizeInv, SizesOK, WordsOK

LEMMA InitKeeps == Init => IInv
<1> SUFFICES ASSUME Init PROVE IInv
  OBVIOUS
<1>1. text \in Seq(Char) /\ argv \in Seq(Nat) /\ input \in Seq(Char)
      /\ Len(text) = 0 /\ Len(argv) = 0
  BY DEF Init
<1>2. TypeOK
  <2>1. wstart \in 0..Len(text) /\ result \in {-1, 0, 1, 2, 3}
    BY <1>1 DEF Init
  <2>2. cursor \in [word : Int, offset : Int]
    BY DEF Init, NoCursor
  <2> QED
    BY <1>1, <2>1, <2>2, RoomAssumption DEF Init, TypeOK
<1>3. SizeInv
  BY <1>1, RoomAssumption DEF Init, SizeInv, BuffersHold, Tight
<1> QED
  BY <1>2, <1>3 DEF IInv

LEMMA ResetKeeps == ASSUME IInv, Reset PROVE IInv'
<1>1. SizesOK' /\ text' = <<>> /\ wstart' = 0 /\ argv' = <<>> /\ keep' = FALSE
  BY DEF IInv, SizeInv, SizesOK, Reset, sizeVars
<1>2. SizeInv' /\ WordsOK'
  BY <1>1, EmptyFits
<1>3. /\ wmax' \in Nat /\ amax' \in Nat /\ quote' = "none" /\ eat' = FALSE /\ beyond' = FALSE
      /\ at' \in {"caller", "scan"} /\ result' = 0 /\ cursor' \in [word : Int, offset : Int]
      /\ input' \in Seq(Char)
  BY <1>1 DEF IInv, TypeOK, Reset, SizesOK
<1> QED
  BY <1>1, <1>2, <1>3 DEF IInv, TypeOK, WordsOK

LEMMA CallKeeps == ASSUME IInv, Call PROVE IInv'
<1>1. TypeOK'
  BY DEF IInv, TypeOK, Call, NoCursor, wordVars, sizeVars, stateVars, auxVars
<1>2. SizeInv'
  BY DEF IInv, SizeInv, Tight, BuffersHold, Call, wordVars, sizeVars, stateVars
<1> QED
  BY <1>1, <1>2 DEF IInv

-------------------------------------------------------------------------------
LEMMA StepKeeps == IInv /\ [Next]_vars => IInv'
<1> SUFFICES ASSUME IInv, [Next]_vars PROVE IInv'
  OBVIOUS
<1> DEFINE Quotes == {"none", "single", "double", "one", "doubleone"}
<1>1. "'" \in Char /\ "\"" \in Char /\ "\\" \in Char /\ "\n" \in Char /\ keep \in BOOLEAN
  BY DEF Char, Special, IInv, TypeOK
<1>2. CASE Call
  BY <1>2, CallKeeps
<1>3. CASE Reset
  BY <1>3, ResetKeeps
<1>4. CASE SingleQuote
  <2>1. /\ Scan("'") /\ Room /\ keep' \in BOOLEAN /\ eat' \in BOOLEAN
        /\ \/ Escaped("'") \/ \E quotes : Quoted("'", quotes)
           \/ \E from, to \in Quotes : Switch(from, to)
    BY <1>4 DEF SingleQuote
  <2> QED
    BY <1>1, <2>1, CharacterKeeps
<1>5. CASE DoubleQuote
  <2>1. /\ Scan("\"") /\ Room /\ keep' \in BOOLEAN /\ eat' \in BOOLEAN
        /\ \/ Escaped("\"") \/ \E quotes : Quoted("\"", quotes)
           \/ \E from, to \in Quotes : Switch(from, to)
    BY <1>5 DEF DoubleQuote
  <2> QED
    BY <1>1, <2>1, CharacterKeeps
<1>6. CASE Backslash
  <2>1. /\ Scan("\\") /\ Room /\ keep' \in BOOLEAN /\ eat' \in BOOLEAN
        /\ \/ Escaped("\\") \/ \E quotes : Quoted("\\", quotes)
           \/ \E from, to \in Quotes : Switch(from, to)
    BY <1>6 DEF Backslash
  <2> QED
    BY <1>1, <2>1, CharacterKeeps
<1>7. ASSUME NEW c \in Plain \cup {Separator}, PlainChar(c) PROVE IInv'
  <2>1. /\ c \in Char /\ Scan(c) /\ Room /\ keep' \in BOOLEAN /\ eat' \in BOOLEAN
        /\ Escaped(c) \/ \E quotes : Quoted(c, quotes)
    BY <1>1, <1>7 DEF PlainChar, Char
  <2> QED
    BY <2>1, CharacterKeeps
<1>8. CASE Newline
  <2>1. /\ Scan("\n") /\ Room /\ keep' \in BOOLEAN /\ eat' \in BOOLEAN
        /\ \/ \E quotes : Quoted("\n", quotes)
           \/ \E from, to \in Quotes : Switch(from, to)
    BY <1>1, <1>8 DEF Newline
  <2> QED
    BY <1>1, <2>1, CharacterKeeps
<1>9. CASE EndOfWord
  BY <1>9, EndOfWordKeeps
<1>10. CASE EndAtNewline
  BY <1>10, EndAtNewlineKeeps
<1>11. CASE EndOfLine
  BY <1>11, EndOfLineKeeps
<1>12. CASE EndQuoted
  BY <1>12, EndQuotedKeeps
<1>13. CASE UNCHANGED vars
  <2>1. TypeOK'
    BY <1>13 DEF IInv, TypeOK, vars, wordVars, sizeVars, stateVars, auxVars
  <2>2. SizeInv'
    BY <1>13 DEF IInv, SizeInv, Tight, BuffersHold, vars, wordVars, sizeVars, stateVars
  <2> QED
    BY <2>1, <2>2 DEF IInv
<1> QED
  BY <1>2, <1>3, <1>4, <1>5, <1>6, <1>7, <1>8, <1>9, <1>10, <1>11, <1>12, <1>13 DEF Next

\* Every variable stays in its range, for every alphabet and every size and
\* increment of the buffers.
THEOREM TypeCorrect == Spec => []TypeOK
<1>1. IInv => TypeOK
  BY DEF IInv
<1> QED
  BY InitKeeps, StepKeeps, <1>1, PTL DEF Spec

\* tok_line and tok_finish write only within the word buffer and argv, for
\* every input, however it comes in lines, and wherever tok_realloc fails.
THEOREM NoOverrun == Spec => []BuffersHold
<1>1. IInv => BuffersHold
  BY DEF IInv, SizeInv
<1> QED
  BY InitKeeps, StepKeeps, <1>1, PTL DEF Spec

-------------------------------------------------------------------------------
(* Rows.                                                                   *)

LEMMA LeastNumber ==
  ASSUME NEW S, S \subseteq Nat, S # {}
  PROVE  \E e \in S : \A f \in S : e <= f
<1> DEFINE R == OpToRel(<, Nat)
<1>1. IsWellFoundedOn(R, Nat)
  BY NatLessThanWellFounded
<1>2. \A e, f \in Nat : <<e, f>> \in R <=> e < f
  BY DEF OpToRel
<1> HIDE DEF R
<1>3. PICK e \in S : \A f \in S : ~(<<f, e>> \in R)
  BY <1>1, WFMin
<1>4. ASSUME NEW f \in S PROVE e <= f
  <2>1. e \in Nat /\ f \in Nat
    OBVIOUS
  <2>2. ~(f < e)
    BY <1>2, <1>3, <2>1
  <2> QED
    BY <2>1, <2>2
<1> QED
  BY <1>4

\* What the rows of k come to when u has those of less.
Longer(u, m, k) ==
  IF k = 0 THEN {<<>>} ELSE UNION {{v \o x : v \in u[i], x \in m[i][k]} : i \in 0..(k - 1)}

IsRows(u, m, n) == u = [k \in 0..n |-> Longer(u, m, k)]

LEMMA LongerAgrees ==
  ASSUME NEW u, NEW t, NEW m, NEW l, NEW k,
         \A i \in 0..(k - 1) : u[i] = t[i] /\ m[i][k] = l[i][k]
  PROVE  Longer(u, m, k) = Longer(t, l, k)
<1> DEFINE A(i) == {v \o x : v \in u[i], x \in m[i][k]}
           B(i) == {v \o x : v \in t[i], x \in l[i][k]}
<1>1. \A i \in 0..(k - 1) : A(i) = B(i)
  OBVIOUS
<1>2. Longer(u, m, k) = IF k = 0 THEN {<<>>} ELSE UNION {A(i) : i \in 0..(k - 1)}
  BY DEF Longer
<1>3. Longer(t, l, k) = IF k = 0 THEN {<<>>} ELSE UNION {B(i) : i \in 0..(k - 1)}
  BY DEF Longer
<1> HIDE DEF A, B
<1>4. {A(i) : i \in 0..(k - 1)} = {B(i) : i \in 0..(k - 1)}
  BY <1>1
<1> QED
  BY <1>2, <1>3, <1>4

LEMMA RowsExist == ASSUME NEW m, NEW n \in Nat PROVE \E u : IsRows(u, m, n)
<1> DEFINE S == {k \in Nat : ~ \E u : IsRows(u, m, k)}
<1> SUFFICES ASSUME S # {} PROVE FALSE
  OBVIOUS
<1>1. PICK e \in S : \A f \in S : e <= f
  BY LeastNumber
<1>2. e \in Nat /\ ~ \E u : IsRows(u, m, e)
  OBVIOUS
<1>3. CASE e = 0
  <2> DEFINE u == [k \in 0..0 |-> {<<>>}]
  <2>1. \A k \in 0..0 : Longer(u, m, k) = {<<>>}
    BY DEF Longer
  <2>2. u = [k \in 0..0 |-> Longer(u, m, k)]
    BY <2>1
  <2> QED
    BY <1>2, <1>3, <2>2 DEF IsRows
<1>4. CASE e # 0
  <2>1. e - 1 \in Nat /\ ~(e <= e - 1)
    BY <1>2, <1>4
  <2>2. PICK t : IsRows(t, m, e - 1)
    BY <1>1, <2>1
  <2> DEFINE u == [k \in 0..e |-> Longer(t, m, k)]
  <2>3. \A i \in 0..(e - 1) : t[i] = Longer(t, m, i)
    BY <2>2 DEF IsRows
  <2>4. \A i \in 0..(e - 1) : u[i] = t[i]
    BY <1>2, <2>3
  <2>5. ASSUME NEW k \in 0..e PROVE Longer(t, m, k) = Longer(u, m, k)
    <3>1. \A i \in 0..(k - 1) : i \in 0..(e - 1)
      BY <1>2
    <3> HIDE DEF u
    <3>2. \A i \in 0..(k - 1) : t[i] = u[i] /\ m[i][k] = m[i][k]
      BY <2>4, <3>1
    <3> QED
      BY <3>2, LongerAgrees
  <2>6. u = [k \in 0..e |-> Longer(u, m, k)]
    BY <2>5
  <2> QED
    BY <1>2, <2>6 DEF IsRows
<1> QED
  BY <1>3, <1>4

LEMMA RowOfRows == ASSUME NEW m, NEW n \in Nat PROVE \E u : IsRows(u, m, n) /\ Row(m, n) = u[n]
<1> DEFINE P(u) ==
             u = [k \in 0..n |->
                    IF k = 0 THEN {<<>>}
                    ELSE UNION {{v \o x : v \in u[i], x \in m[i][k]} : i \in 0..(k - 1)}]
<1>1. \E u : IsRows(u, m, n)
  BY RowsExist
<1>2. ASSUME NEW u PROVE P(u) <=> IsRows(u, m, n)
  BY DEF IsRows, Longer
<1>3. Row(m, n) = (CHOOSE u : P(u))[n]
  BY SMT DEF Row
<1> HIDE DEF P
<1>4. P(CHOOSE u : P(u))
  BY <1>1, <1>2, Zenon
<1> QED
  BY <1>2, <1>3, <1>4, Zenon

\* Rows agree as far as what they are made of does.
LEMMA RowsAgree ==
  ASSUME NEW u, NEW t, NEW m, NEW l, NEW n \in Nat, NEW k \in Nat, n <= k,
         IsRows(u, m, n), IsRows(t, l, k),
         \A j \in 0..n : \A i \in 0..(j - 1) : m[i][j] = l[i][j]
  PROVE  \A i \in 0..n : u[i] = t[i]
<1> DEFINE S == {i \in 0..n : u[i] # t[i]}
<1> SUFFICES ASSUME S # {} PROVE FALSE
  OBVIOUS
<1>1. S \subseteq Nat
  OBVIOUS
<1>2. PICK e \in S : \A f \in S : e <= f
  BY <1>1, LeastNumber
<1>3. e \in 0..n /\ u[e] # t[e]
  OBVIOUS
<1>4. \A i \in 0..(e - 1) : i \in 0..n /\ ~(e <= i)
  BY <1>3
<1>5. \A i \in 0..(e - 1) : u[i] = t[i] /\ m[i][e] = l[i][e]
  BY <1>2, <1>3, <1>4
<1>6. Longer(u, m, e) = Longer(t, l, e)
  BY <1>5, LongerAgrees
<1>7. e \in 0..k
  BY <1>3
<1>8. u[e] = Longer(u, m, e) /\ t[e] = Longer(t, l, e)
  BY <1>3, <1>7 DEF IsRows
<1> QED
  BY <1>3, <1>6, <1>8

LEMMA RowOfNone == ASSUME NEW m PROVE Row(m, 0) = {<<>>}
<1>1. PICK u : IsRows(u, m, 0) /\ Row(m, 0) = u[0]
  BY RowOfRows
<1>2. u[0] = Longer(u, m, 0)
  BY <1>1 DEF IsRows
<1> QED
  BY <1>1, <1>2 DEF Longer

\* A row and one member more.
LEMMA RowStep ==
  ASSUME NEW m, NEW l, NEW n \in Nat, NEW k \in Nat, n < k,
         \A j \in 0..n : \A i \in 0..(j - 1) : m[i][j] = l[i][j],
         NEW v \in Row(m, n), NEW x \in l[n][k]
  PROVE  v \o x \in Row(l, k)
<1>1. PICK u : IsRows(u, m, n) /\ Row(m, n) = u[n]
  BY RowOfRows
<1>2. PICK t : IsRows(t, l, k) /\ Row(l, k) = t[k]
  BY RowOfRows
<1>3. u[n] = t[n]
  <2>1. n \in 0..n
    OBVIOUS
  <2> QED
    BY <1>1, <1>2, <2>1, RowsAgree
<1>4. t[k] = Longer(t, l, k)
  BY <1>2 DEF IsRows
<1>5. n \in 0..(k - 1) /\ k # 0
  OBVIOUS
<1>6. v \in t[n]
  BY <1>1, <1>3
<1>7. v \o x \in Longer(t, l, k)
  <2> DEFINE A(i) == {w \o y : w \in t[i], y \in l[i][k]}
  <2>1. v \o x \in A(n)
    BY <1>6
  <2>2. Longer(t, l, k) = IF k = 0 THEN {<<>>} ELSE UNION {A(i) : i \in 0..(k - 1)}
    BY DEF Longer
  <2> HIDE DEF A
  <2> QED
    BY <1>5, <2>1, <2>2
<1> QED
  BY <1>2, <1>4, <1>7

-------------------------------------------------------------------------------
(* Sequences of characters behind each other.                              *)

Join(s, t) == s \o t

LEMMA JoinProperties ==
  ASSUME NEW s \in Seq(Char), NEW t \in Seq(Char)
  PROVE  /\ Join(s, t) \in Seq(Char)
         /\ Len(Join(s, t)) = Len(s) + Len(t)
         /\ \A i \in 1..(Len(s) + Len(t)) :
              Join(s, t)[i] = IF i <= Len(s) THEN s[i] ELSE t[i - Len(s)]
BY ConcatProperties DEF Join

LEMMA JoinNothing ==
  ASSUME NEW s \in Seq(Char) PROVE Join(s, <<>>) = s /\ Join(<<>>, s) = s
BY ConcatEmptySeq DEF Join

LEMMA JoinAssociative ==
  ASSUME NEW s \in Seq(Char), NEW t \in Seq(Char), NEW u \in Seq(Char)
  PROVE  Join(Join(s, t), u) = Join(s, Join(t, u))
BY ConcatAssociative DEF Join

-------------------------------------------------------------------------------
(* What a row of sequences becomes when one more is behind it.             *)

\* A slice of s, and all of p, where they are behind each other.
LEMMA SliceBefore ==
  ASSUME NEW s \in Seq(Char), NEW p \in Seq(Char), NEW j \in 0..Len(s), NEW i \in 0..(j - 1)
  PROVE  SubSeq(s \o p, i + 1, j) = SubSeq(s, i + 1, j)
<1> DEFINE n == Len(s)
           b == i + 1
<1>1. n \in Nat
  BY LenProperties
<1>2. b \in 1..n /\ j \in 1..n
  BY <1>1
<1> HIDE DEF b
<1>3. SubSeq(s \o p, b, j) = SubSeq(s, b, j)
  BY <1>2, SubSeqOfConcat1
<1> QED
  BY <1>3 DEF b

LEMMA SliceBehind ==
  ASSUME NEW s \in Seq(Char), NEW p \in Seq(Char), p # <<>>
  PROVE  /\ SubSeq(s \o p, Len(s) + 1, Len(s \o p)) = p
         /\ Len(s) \in Nat /\ Len(s \o p) \in Nat /\ Len(s) < Len(s \o p)
<1> DEFINE n == Len(s)
           k == Len(p)
           b == n + 1
           e == n + k
<1>1. n \in Nat /\ k \in Nat \ {0} /\ Len(s \o p) = e
  BY LenProperties, ConcatProperties, EmptySeq
<1>2. b \in (n + 1)..(n + k) /\ e \in (n + 1)..(n + k)
  BY <1>1
<1>3. b - n = 1 /\ e - n = k
  BY <1>1
<1> HIDE DEF b, e
<1>4. SubSeq(s \o p, b, e) = SubSeq(p, b - Len(s), e - Len(s))
  BY <1>2, SubSeqOfConcat2
<1>5. SubSeq(p, 1, Len(p)) = p
  BY SubSeqFull
<1> QED
  BY <1>1, <1>3, <1>4, <1>5 DEF b, e

\* Rows of what stands between double quotes, of pieces, and of portions.
LEMMA InDoubleNothing == InDouble(<<>>) = {<<>>}
<1> DEFINE m == [i \in 0..Len(<<>>) |-> [j \in 0..Len(<<>>) |-> Within(SubSeq(<<>>, i + 1, j))]]
<1>1. InDouble(<<>>) = Row(m, Len(<<>>))
  BY DEF InDouble
<1> HIDE DEF m
<1>2. Len(<<>>) = 0
  OBVIOUS
<1> QED
  BY <1>1, <1>2, RowOfNone

LEMMA InDoubleMore ==
  ASSUME NEW s \in Seq(Char), NEW p \in Seq(Char), p # <<>>, NEW v \in InDouble(s), NEW x \in Within(p)
  PROVE  Join(v, x) \in InDouble(Join(s, p))
<1> DEFINE t == s \o p
           n == Len(s)
           k == Len(t)
           A(i, j) == SubSeq(s, i + 1, j)
           B(i, j) == SubSeq(t, i + 1, j)
           m == [i \in 0..n |-> [j \in 0..n |-> Within(A(i, j))]]
           l == [i \in 0..k |-> [j \in 0..k |-> Within(B(i, j))]]
<1>1. n \in Nat /\ k \in Nat /\ n < k /\ B(n, k) = p
  BY SliceBehind
<1>2. v \in Row(m, n) /\ InDouble(t) = Row(l, k)
  BY DEF InDouble
<1>3. \A j \in 0..n : \A i \in 0..(j - 1) : B(i, j) = A(i, j)
  BY SliceBefore
<1> HIDE DEF t, n, k, A, B
<1>4. ASSUME NEW j \in 0..n, NEW i \in 0..(j - 1) PROVE m[i][j] = l[i][j]
  <2>1. i \in 0..n /\ i \in 0..k /\ j \in 0..k
    BY <1>1
  <2> QED
    BY <1>3, <2>1
<1>5. x \in l[n][k]
  BY <1>1
<1> HIDE DEF m, l
<1>6. v \o x \in Row(l, k)
  BY <1>1, <1>2, <1>4, <1>5, RowStep
<1> QED
  BY <1>2, <1>6 DEF t, Join

LEMMA SpeltNothing == Spelt(<<>>) = {<<>>}
<1> DEFINE m == [i \in 0..Len(<<>>) |-> [j \in 0..Len(<<>>) |-> Piece(SubSeq(<<>>, i + 1, j))]]
<1>1. Spelt(<<>>) = Row(m, Len(<<>>))
  BY DEF Spelt
<1> HIDE DEF m
<1>2. Len(<<>>) = 0
  OBVIOUS
<1> QED
  BY <1>1, <1>2, RowOfNone

LEMMA SpeltMore ==
  ASSUME NEW s \in Seq(Char), NEW p \in Seq(Char), p # <<>>, NEW v \in Spelt(s), NEW x \in Piece(p)
  PROVE  Join(v, x) \in Spelt(Join(s, p))
<1> DEFINE t == s \o p
           n == Len(s)
           k == Len(t)
           A(i, j) == SubSeq(s, i + 1, j)
           B(i, j) == SubSeq(t, i + 1, j)
           m == [i \in 0..n |-> [j \in 0..n |-> Piece(A(i, j))]]
           l == [i \in 0..k |-> [j \in 0..k |-> Piece(B(i, j))]]
<1>1. n \in Nat /\ k \in Nat /\ n < k /\ B(n, k) = p
  BY SliceBehind
<1>2. v \in Row(m, n) /\ Spelt(t) = Row(l, k)
  BY DEF Spelt
<1>3. \A j \in 0..n : \A i \in 0..(j - 1) : B(i, j) = A(i, j)
  BY SliceBefore
<1> HIDE DEF t, n, k, A, B
<1>4. ASSUME NEW j \in 0..n, NEW i \in 0..(j - 1) PROVE m[i][j] = l[i][j]
  <2>1. i \in 0..n /\ i \in 0..k /\ j \in 0..k
    BY <1>1
  <2> QED
    BY <1>3, <2>1
<1>5. x \in l[n][k]
  BY <1>1
<1> HIDE DEF m, l
<1>6. v \o x \in Row(l, k)
  BY <1>1, <1>2, <1>4, <1>5, RowStep
<1> QED
  BY <1>2, <1>6 DEF t, Join

LEMMA SentenceNothing == Sentence(<<>>) = {<<>>}
<1> DEFINE m == [i \in 0..Len(<<>>) |-> [j \in 0..Len(<<>>) |-> Portion(SubSeq(<<>>, i + 1, j))]]
<1>1. Sentence(<<>>) = Row(m, Len(<<>>))
  BY DEF Sentence
<1> HIDE DEF m
<1>2. Len(<<>>) = 0
  OBVIOUS
<1> QED
  BY <1>1, <1>2, RowOfNone

LEMMA SentenceMore ==
  ASSUME NEW s \in Seq(Char), NEW p \in Seq(Char), p # <<>>, NEW v \in Sentence(s), NEW x \in Portion(p)
  PROVE  Join(v, x) \in Sentence(Join(s, p))
<1> DEFINE t == s \o p
           n == Len(s)
           k == Len(t)
           A(i, j) == SubSeq(s, i + 1, j)
           B(i, j) == SubSeq(t, i + 1, j)
           m == [i \in 0..n |-> [j \in 0..n |-> Portion(A(i, j))]]
           l == [i \in 0..k |-> [j \in 0..k |-> Portion(B(i, j))]]
<1>1. n \in Nat /\ k \in Nat /\ n < k /\ B(n, k) = p
  BY SliceBehind
<1>2. v \in Row(m, n) /\ Sentence(t) = Row(l, k)
  BY DEF Sentence
<1>3. \A j \in 0..n : \A i \in 0..(j - 1) : B(i, j) = A(i, j)
  BY SliceBefore
<1> HIDE DEF t, n, k, A, B
<1>4. ASSUME NEW j \in 0..n, NEW i \in 0..(j - 1) PROVE m[i][j] = l[i][j]
  <2>1. i \in 0..n /\ i \in 0..k /\ j \in 0..k
    BY <1>1
  <2> QED
    BY <1>3, <2>1
<1>5. x \in l[n][k]
  BY <1>1
<1> HIDE DEF m, l
<1>6. v \o x \in Row(l, k)
  BY <1>1, <1>2, <1>4, <1>5, RowStep
<1> QED
  BY <1>2, <1>6 DEF t, Join

-------------------------------------------------------------------------------
(* What a piece is, between double quotes or not, and a portion.           *)

LEMMA OneChar == ASSUME NEW c PROVE Len(<<c>>) = 1 /\ Len(<<c>>) # 2 /\ <<c>>[1] = c /\ <<c>> # <<>>
OBVIOUS

LEMMA TwoChars ==
  ASSUME NEW b, NEW c PROVE Len(<<b, c>>) = 2 /\ <<b, c>>[1] = b /\ <<b, c>>[2] = c /\ <<b, c>> # <<>>
OBVIOUS

\* What stands between a pair of quotes.
LEMMA BetweenQuotes ==
  ASSUME NEW q \in Char, NEW s \in Seq(Char)
  PROVE  LET t == Join(Join(<<q>>, s), <<q>>)
         IN t \in Seq(Char) /\ t # <<>> /\ Between(t, q) /\ Inner(t) = s /\ t[1] = q /\ Len(t) # 1
            /\ \A i \in 2..(Len(t) - 1) : \E j \in 1..Len(s) : t[i] = s[j]
<1> DEFINE a == <<q>>
           b == Join(a, s)
           t == Join(b, a)
<1>1. a \in Seq(Char) /\ Len(a) = 1 /\ a[1] = q
  OBVIOUS
<1> HIDE DEF a
<1>2. Len(s) \in Nat
  BY LenProperties
<1>3. /\ b \in Seq(Char) /\ Len(b) = Len(a) + Len(s)
      /\ \A i \in 1..(Len(a) + Len(s)) : b[i] = IF i <= Len(a) THEN a[i] ELSE s[i - Len(a)]
  BY <1>1, JoinProperties
<1> HIDE DEF b
<1>4. b \in Seq(Char)
  BY <1>3
<1>5. /\ t \in Seq(Char) /\ Len(t) = Len(b) + Len(a)
      /\ \A i \in 1..(Len(b) + Len(a)) : t[i] = IF i <= Len(b) THEN b[i] ELSE a[i - Len(b)]
  BY <1>1, <1>4, JoinProperties
<1> HIDE DEF t
<1>6. Len(t) = Len(s) + 2 /\ t[1] = q /\ t[Len(s) + 2] = q
  BY <1>1, <1>2, <1>3, <1>5
<1>7. ASSUME NEW i \in 1..Len(s) PROVE t[2 + i - 1] = s[i] /\ t[i + 1] = s[i]
  <2>1. /\ i + 1 \in 1..(Len(b) + Len(a)) /\ i + 1 <= Len(b)
        /\ i + 1 \in 1..(Len(a) + Len(s)) /\ ~(i + 1 <= Len(a))
        /\ i + 1 - Len(a) = i /\ 2 + i - 1 = i + 1
    BY <1>1, <1>2, <1>3
  <2> QED
    BY <1>3, <1>5, <2>1
<1>8. \A i \in 2..(Len(t) - 1) : t[i] = s[i - 1] /\ i - 1 \in 1..Len(s)
  <2> SUFFICES ASSUME NEW i \in 2..(Len(t) - 1) PROVE t[i] = s[i - 1] /\ i - 1 \in 1..Len(s)
    OBVIOUS
  <2>1. i - 1 \in 1..Len(s) /\ (i - 1) + 1 = i
    BY <1>2, <1>6
  <2> QED
    BY <1>7, <2>1
<1>9. Inner(t) = s
  <2> DEFINE u == SubSeq(t, 2, Len(t) - 1)
             n == Len(t) - 1
  <2>1. n \in Nat /\ n - 2 + 1 = Len(s) /\ n = Len(s) + 1
    BY <1>2, <1>6
  <2>2. \A i \in 2..n : t[i] \in Char
    <3>1. \A i \in 2..n : i \in 1..Len(t)
      BY <1>2, <1>6, <2>1
    <3> QED
      BY <1>5, <3>1, ElementOfSeq
  <2>3. u = SubSeq(t, 2, n)
    OBVIOUS
  <2> HIDE DEF u, n
  <2>4. /\ u \in Seq(Char) /\ Len(u) = IF 2 <= n THEN n - 2 + 1 ELSE 0
        /\ \A i \in 1..(n - 2 + 1) : u[i] = t[2 + i - 1]
    <3>1. 2 \in Int /\ n \in Int
      BY <2>1
    <3> QED
      BY <2>2, <2>3, <3>1, SubSeqProperties
  <2>5. Len(u) = Len(s)
    BY <1>2, <2>1, <2>4
  <2>6. \A i \in 1..Len(u) : u[i] = s[i]
    BY <1>7, <2>1, <2>4, <2>5
  <2>7. u = s
    BY <2>4, <2>5, <2>6, SeqEqual
  <2> QED
    BY <2>7 DEF Inner, u
<1>10. Between(t, q)
  BY <1>2, <1>6 DEF Between
<1>11. t # <<>> /\ Len(t) # 1
  BY <1>2, <1>6
<1> QED
  BY <1>5, <1>6, <1>8, <1>9, <1>10, <1>11 DEF t, b, a

LEMMA QuotesApart ==
  /\ "'" # "\\" /\ "\"" # "\\" /\ "'" # "\""
OBVIOUS

\* The four kinds of pieces.
LEMMA PlainPiece == ASSUME NEW c \in Plain PROVE <<c>> \in Piece(<<c>>)
<1>1. Len(<<c>>) = 1 /\ <<c>>[1] = c
  BY OneChar
<1>2. Len(<<c>>) # 2 /\ ~(Len(<<c>>) >= 2)
  OBVIOUS
<1> QED
  BY <1>1, <1>2, Zenon DEF Piece, Between

LEMMA EscapedPiece ==
  ASSUME NEW c PROVE (IF c = "\n" THEN <<>> ELSE <<c>>) \in Piece(<<"\\", c>>)
<1> DEFINE s == <<"\\", c>>
<1>1. Len(s) = 2 /\ Len(s) # 1 /\ s[1] = "\\" /\ s[2] = c
  OBVIOUS
<1> HIDE DEF s
<1>2. ~Between(s, "'") /\ ~Between(s, "\"")
  BY <1>1, QuotesApart, Zenon DEF Between
<1>3. (IF c = "\n" THEN <<>> ELSE <<c>>) \in Piece(s)
  BY <1>1, <1>2, Zenon DEF Piece
<1> QED
  BY <1>3 DEF s

LEMMA SinglePiece ==
  ASSUME NEW s \in Seq(Char), \A i \in 1..Len(s) : s[i] # "'"
  PROVE  s \in Piece(Join(Join(<<"'">>, s), <<"'">>))
<1> DEFINE t == Join(Join(<<"'">>, s), <<"'">>)
<1>1. "'" \in Char
  BY DEF Char, Special
<1>2. /\ Between(t, "'") /\ Inner(t) = s /\ t[1] = "'" /\ Len(t) # 1
      /\ \A i \in 2..(Len(t) - 1) : \E j \in 1..Len(s) : t[i] = s[j]
  BY <1>1, BetweenQuotes
<1> HIDE DEF t
<1>3. ~Between(t, "\"") /\ t[1] # "\\"
  BY <1>2, QuotesApart, Zenon DEF Between
<1>4. \A i \in 2..(Len(t) - 1) : t[i] # "'"
  BY <1>2
<1>5. s \in Piece(t)
  BY <1>2, <1>3, <1>4, Zenon DEF Piece
<1> QED
  BY <1>5 DEF t

LEMMA DoublePiece ==
  ASSUME NEW s \in Seq(Char), NEW d \in InDouble(s)
  PROVE  d \in Piece(Join(Join(<<"\"">>, s), <<"\"">>))
<1> DEFINE t == Join(Join(<<"\"">>, s), <<"\"">>)
<1>1. "\"" \in Char
  BY DEF Char, Special
<1>2. Between(t, "\"") /\ Inner(t) = s /\ t[1] = "\"" /\ Len(t) # 1
  BY <1>1, BetweenQuotes, Zenon
<1> HIDE DEF t
<1>3. ~Between(t, "'") /\ t[1] # "\\"
  BY <1>2, QuotesApart, Zenon DEF Between
<1>4. d \in Piece(t)
  BY <1>2, <1>3, Zenon DEF Piece
<1> QED
  BY <1>4, Zenon DEF t

LEMMA WithinChar == ASSUME NEW c, c # "\"", c # "\\" PROVE <<c>> \in Within(<<c>>)
<1>1. Len(<<c>>) = 1 /\ <<c>>[1] = c /\ Len(<<c>>) # 2
  BY OneChar, Zenon
<1> QED
  BY <1>1, Zenon DEF Within

LEMMA WithinEscaped ==
  ASSUME NEW c
  PROVE  (IF c = "\n" THEN <<>> ELSE IF c \in {"'", "\"", "\\"} THEN <<c>> ELSE <<"\\", c>>)
           \in Within(<<"\\", c>>)
<1> DEFINE s == <<"\\", c>>
<1>1. Len(s) = 2 /\ Len(s) # 1 /\ s[1] = "\\" /\ s[2] = c
  OBVIOUS
<1> HIDE DEF s
<1>2. (IF c = "\n" THEN <<>> ELSE IF c \in {"'", "\"", "\\"} THEN <<c>> ELSE s) \in Within(s)
  BY <1>1, Zenon DEF Within
<1> QED
  BY <1>2, Zenon DEF s

LEMMA PortionAlone == ASSUME NEW b \in Breaks PROVE <<>> \in Portion(<<b>>)
<1>1. Len(<<b>>) = 1 /\ <<b>>[1] = b /\ <<b>> # <<>>
  OBVIOUS
<1> QED
  BY <1>1, Zenon DEF Portion

LEMMA PortionOfWord ==
  ASSUME NEW b \in Breaks, b \in Char, NEW r \in Seq(Char), r # <<>>, NEW w \in Spelt(r)
  PROVE  <<w>> \in Portion(Join(r, <<b>>))
<1> DEFINE t == r \o <<b>>
           n == Len(r)
<1>1. n \in Nat \ {0}
  BY EmptySeq
<1>2. <<b>> \in Seq(Char) /\ Len(<<b>>) = 1 /\ <<b>>[1] = b
  OBVIOUS
<1>3. t \in Seq(Char) /\ Len(t) = n + 1 /\ t[n + 1] = b
  BY <1>1, <1>2, ConcatProperties
<1>4. SubSeq(t, 1, n) = r
  <2>1. SubSeq(t, 1, n) = SubSeq(r, 1, n)
    <3>1. 1 \in 1..Len(r) /\ n \in 1..Len(r)
      BY <1>1
    <3> QED
      BY <1>2, <3>1, SubSeqOfConcat1
  <2> QED
    BY <2>1, SubSeqFull
<1> HIDE DEF t, n
<1>5. t # <<>> /\ Len(t) # 1 /\ Len(t) - 1 = n
  BY <1>1, <1>3
<1>6. <<w>> \in Portion(t)
  BY <1>3, <1>4, <1>5, Zenon DEF Portion
<1> QED
  BY <1>6 DEF t, Join

-------------------------------------------------------------------------------
(* The word so far, w, and what was scanned of it, r.                      *)

Whole(r, w) == w \in Spelt(r)
Backslashed(r, w) ==
  \E p \in Seq(Char) : r = Join(p, <<"\\">>) /\ w \in Spelt(p)
SingleQuoted(r, w) ==
  \E p, s, v \in Seq(Char) :
    /\ r = Join(p, Join(<<"'">>, s)) /\ (\A i \in 1..Len(s) : s[i] # "'")
    /\ w = Join(v, s) /\ v \in Spelt(p)
DoubleQuoted(r, w) ==
  \E p, s, v, x \in Seq(Char) :
    /\ r = Join(p, Join(<<"\"">>, s))
    /\ w = Join(v, x) /\ v \in Spelt(p) /\ x \in InDouble(s)
BackslashedInDouble(r, w) ==
  \E t \in Seq(Char) : r = Join(t, <<"\\">>) /\ DoubleQuoted(t, w)

LEMMA Single == ASSUME NEW c \in Char PROVE <<c>> \in Seq(Char) /\ <<c>> # <<>>
OBVIOUS

LEMMA Pair ==
  ASSUME NEW b \in Char, NEW c \in Char
  PROVE  Join(<<b>>, <<c>>) = <<b, c>> /\ <<b, c>> \in Seq(Char) /\ <<b, c>> # <<>>
<1> DEFINE s == <<b>>
           t == <<c>>
           u == <<b, c>>
<1>1. s \in Seq(Char) /\ Len(s) = 1 /\ s[1] = b /\ t \in Seq(Char) /\ Len(t) = 1 /\ t[1] = c
  OBVIOUS
<1>2. u \in Seq(Char) /\ Len(u) = 2 /\ u[1] = b /\ u[2] = c /\ u # <<>>
  OBVIOUS
<1> HIDE DEF s, t, u
<1>3. /\ Join(s, t) \in Seq(Char) /\ Len(Join(s, t)) = Len(s) + Len(t)
      /\ \A i \in 1..(Len(s) + Len(t)) : (Join(s, t))[i] = IF i <= Len(s) THEN s[i] ELSE t[i - Len(s)]
  BY <1>1, JoinProperties
<1>4. Len(Join(s, t)) = Len(u) /\ \A i \in 1..Len(Join(s, t)) : (Join(s, t))[i] = u[i]
  BY <1>1, <1>2, <1>3
<1>5. Join(s, t) = u
  BY <1>2, <1>3, <1>4, SeqEqual
<1> QED
  BY <1>2, <1>5 DEF s, t, u

LEMMA Marks == "'" \in Char /\ "\"" \in Char /\ "\\" \in Char /\ "\n" \in Char
BY DEF Char, Special

\* A character behind a quote that is open.
LEMMA Behind ==
  ASSUME NEW p \in Seq(Char), NEW q \in Seq(Char), NEW s \in Seq(Char), NEW c \in Seq(Char)
  PROVE  /\ Join(Join(p, Join(q, s)), c) = Join(p, Join(q, Join(s, c)))
         /\ Join(Join(p, Join(q, s)), c) = Join(p, Join(Join(q, s), c))
         /\ Join(s, c) \in Seq(Char)
<1> DEFINE t == Join(q, s)
<1>1. t \in Seq(Char)
  BY JoinProperties
<1>2. Join(s, c) \in Seq(Char)
  BY JoinProperties
<1>3. Join(t, c) = Join(q, Join(s, c))
  BY JoinAssociative
<1> HIDE DEF t
<1>4. Join(Join(p, t), c) = Join(p, Join(t, c))
  BY <1>1, JoinAssociative
<1> QED
  BY <1>2, <1>3, <1>4 DEF t

LEMMA NothingSpelt == Whole(<<>>, <<>>)
BY SpeltNothing DEF Whole

\* What each character makes of the word so far.
LEMMA WholePlain ==
  ASSUME NEW r \in Seq(Char), NEW w, Whole(r, w), NEW c \in Plain
  PROVE  Whole(Join(r, <<c>>), Join(w, <<c>>))
<1>1. c \in Char
  BY DEF Char
<1>2. <<c>> \in Seq(Char) /\ <<c>> # <<>> /\ <<c>> \in Piece(<<c>>)
  BY <1>1, Single, PlainPiece
<1> QED
  BY <1>2, SpeltMore DEF Whole

LEMMA WholeBackslash ==
  ASSUME NEW r \in Seq(Char), NEW w, Whole(r, w)
  PROVE  Backslashed(Join(r, <<"\\">>), w)
BY DEF Whole, Backslashed

LEMMA WholeSingle ==
  ASSUME NEW r \in Seq(Char), NEW w \in Seq(Char), Whole(r, w)
  PROVE  SingleQuoted(Join(r, <<"'">>), w)
<1> DEFINE q == <<"'">>
           e == <<>>
<1>1. e \in Seq(Char) /\ (\A i \in 1..Len(e) : e[i] # "'")
  OBVIOUS
<1>2. q \in Seq(Char)
  BY Marks, Single, Zenon
<1>3. Join(q, e) = q /\ Join(w, e) = w
  <2> HIDE DEF q
  <2> QED
    BY <1>2, JoinNothing
<1>4. w \in Spelt(r)
  BY DEF Whole
<1>5. \E s \in Seq(Char) :
        Join(r, q) = Join(r, Join(q, s)) /\ (\A i \in 1..Len(s) : s[i] # "'") /\ w = Join(w, s)
  <2> HIDE DEF e, q
  <2> QED
    BY <1>1, <1>3
<1> QED
  BY <1>4, <1>5 DEF SingleQuoted

LEMMA WholeDouble ==
  ASSUME NEW r \in Seq(Char), NEW w \in Seq(Char), Whole(r, w)
  PROVE  DoubleQuoted(Join(r, <<"\"">>), w)
<1> DEFINE q == <<"\"">>
           e == <<>>
<1>1. q \in Seq(Char)
  BY Marks, Single, Zenon
<1>2. e \in InDouble(e) /\ e \in Seq(Char)
  BY InDoubleNothing
<1> HIDE DEF q
<1>3. Join(q, e) = q /\ Join(w, e) = w
  BY <1>1, JoinNothing
<1> HIDE DEF e
<1>4. w \in Spelt(r)
  BY DEF Whole
<1>5. Join(r, q) = Join(r, Join(q, e)) /\ w = Join(w, e)
  BY <1>3
<1> QED
  BY <1>1, <1>2, <1>4, <1>5, Zenon DEF DoubleQuoted, q

\* The character behind a backslash.
LEMMA BackslashedMore ==
  ASSUME NEW r, NEW w, Backslashed(r, w), NEW c \in Char
  PROVE  Whole(Join(r, <<c>>), Join(w, IF c = "\n" THEN <<>> ELSE <<c>>))
<1>1. PICK p \in Seq(Char) : r = Join(p, <<"\\">>) /\ w \in Spelt(p)
  BY DEF Backslashed
<1> DEFINE b == <<"\\">>
           d == <<c>>
           t == <<"\\", c>>
           x == IF c = "\n" THEN <<>> ELSE <<c>>
<1>2. b \in Seq(Char) /\ d \in Seq(Char) /\ t \in Seq(Char) /\ t # <<>> /\ Join(b, d) = t
  BY Marks, Single, Pair
<1>3. x \in Piece(t)
  BY EscapedPiece
<1> HIDE DEF b, d, t, x
<1>4. b \in Seq(Char) /\ d \in Seq(Char)
  BY <1>2
<1>5. Join(Join(p, b), d) = Join(p, Join(b, d))
  BY <1>4, JoinAssociative
<1>6. Join(w, x) \in Spelt(Join(p, t))
  BY <1>1, <1>2, <1>3, SpeltMore
<1> QED
  BY <1>1, <1>2, <1>5, <1>6 DEF Whole, b, d, x

LEMMA SingleQuotedMore ==
  ASSUME NEW r, NEW w, SingleQuoted(r, w), NEW c \in Char, c # "'"
  PROVE  SingleQuoted(Join(r, <<c>>), Join(w, <<c>>))
<1>1. PICK p \in Seq(Char), s \in Seq(Char), v \in Seq(Char) :
        /\ r = Join(p, Join(<<"'">>, s)) /\ (\A i \in 1..Len(s) : s[i] # "'")
        /\ w = Join(v, s) /\ v \in Spelt(p)
  BY DEF SingleQuoted
<1> DEFINE q == <<"'">>
           d == <<c>>
           t == Join(s, d)
<1>2. q \in Seq(Char) /\ d \in Seq(Char) /\ Len(d) = 1 /\ d[1] = c
  BY Marks, Single, OneChar
<1>3. r = Join(p, Join(q, s)) /\ w = Join(v, s)
  BY <1>1, Zenon
<1> HIDE DEF q, d
<1>4. q \in Seq(Char) /\ d \in Seq(Char)
  BY <1>2
<1>5. Join(Join(p, Join(q, s)), d) = Join(p, Join(q, t)) /\ t \in Seq(Char)
  BY <1>4, Behind
<1>6. Join(Join(v, s), d) = Join(v, t)
  BY <1>4, JoinAssociative
<1>7. \A i \in 1..Len(t) : t[i] # "'"
  <2>1. /\ Len(t) = Len(s) + Len(d) /\ Len(s) \in Nat
        /\ \A i \in 1..(Len(s) + Len(d)) : t[i] = IF i <= Len(s) THEN s[i] ELSE d[i - Len(s)]
    BY <1>4, JoinProperties, LenProperties
  <2> HIDE DEF t
  <2> SUFFICES ASSUME NEW i \in 1..Len(t) PROVE t[i] # "'"
    OBVIOUS
  <2>2. CASE i <= Len(s)
    <3>1. i \in 1..Len(s) /\ t[i] = s[i]
      BY <1>2, <2>1, <2>2
    <3> QED
      BY <1>1, <3>1
  <2>3. CASE ~(i <= Len(s))
    <3>1. i - Len(s) = 1
      BY <1>2, <2>1, <2>3
    <3> QED
      BY <1>2, <2>1, <2>3, <3>1
  <2> QED
    BY <2>2, <2>3
<1> HIDE DEF t
<1> QED
  BY <1>1, <1>5, <1>6, <1>7, <1>3, Zenon DEF SingleQuoted, q, d

LEMMA SingleQuotedEnds ==
  ASSUME NEW r, NEW w, SingleQuoted(r, w)
  PROVE  Whole(Join(r, <<"'">>), w)
<1>1. PICK p \in Seq(Char), s \in Seq(Char), v \in Seq(Char) :
        /\ r = Join(p, Join(<<"'">>, s)) /\ (\A i \in 1..Len(s) : s[i] # "'")
        /\ w = Join(v, s) /\ v \in Spelt(p)
  BY DEF SingleQuoted
<1> DEFINE q == <<"'">>
           t == Join(Join(q, s), q)
<1>2. q \in Seq(Char)
  BY Marks, Single
<1>3. t \in Seq(Char) /\ t # <<>>
  BY Marks, BetweenQuotes
<1>4. s \in Piece(t)
  BY <1>1, SinglePiece
<1>5. r = Join(p, Join(q, s))
  BY <1>1, Zenon
<1> HIDE DEF q
<1>6. Join(Join(p, Join(q, s)), q) = Join(p, t)
  BY <1>2, Behind
<1> HIDE DEF t
<1>7. Join(v, s) \in Spelt(Join(p, t))
  BY <1>1, <1>3, <1>4, SpeltMore
<1> QED
  BY <1>1, <1>6, <1>7, <1>5, Zenon DEF Whole, q

LEMMA DoubleQuotedMore ==
  ASSUME NEW r, NEW w, DoubleQuoted(r, w), NEW d \in Seq(Char), d # <<>>,
         NEW y \in Within(d), y \in Seq(Char)
  PROVE  DoubleQuoted(Join(r, d), Join(w, y))
<1>1. PICK p \in Seq(Char), s \in Seq(Char), v \in Seq(Char), x \in Seq(Char) :
        r = Join(p, Join(<<"\"">>, s)) /\ w = Join(v, x) /\ v \in Spelt(p) /\ x \in InDouble(s)
  BY Zenon DEF DoubleQuoted
<1> DEFINE q == <<"\"">>
<1>2. q \in Seq(Char)
  BY Marks, Single, Zenon
<1>3. r = Join(p, Join(q, s))
  BY <1>1, Zenon
<1> HIDE DEF q
<1>4. w = Join(v, x) /\ v \in Spelt(p) /\ x \in InDouble(s)
  BY <1>1, Zenon
<1>5. Join(Join(p, Join(q, s)), d) = Join(p, Join(q, Join(s, d))) /\ Join(s, d) \in Seq(Char)
  BY <1>2, Behind
<1>6. Join(Join(v, x), y) = Join(v, Join(x, y))
  BY JoinAssociative
<1>7. Join(x, y) \in Seq(Char)
  BY JoinProperties
<1>8. Join(x, y) \in InDouble(Join(s, d))
  BY <1>4, InDoubleMore
<1> QED
  BY <1>3, <1>4, <1>7, <1>5, <1>6, <1>8, Zenon DEF DoubleQuoted, q

LEMMA DoubleQuotedEnds ==
  ASSUME NEW r, NEW w, DoubleQuoted(r, w)
  PROVE  Whole(Join(r, <<"\"">>), w)
<1>1. PICK p \in Seq(Char), s \in Seq(Char), v \in Seq(Char), x \in Seq(Char) :
        r = Join(p, Join(<<"\"">>, s)) /\ w = Join(v, x) /\ v \in Spelt(p) /\ x \in InDouble(s)
  BY Zenon DEF DoubleQuoted
<1> DEFINE q == <<"\"">>
           t == Join(Join(q, s), q)
<1>2. q \in Seq(Char)
  BY Marks, Single, Zenon
<1>3. t \in Seq(Char) /\ t # <<>>
  BY Marks, BetweenQuotes, Zenon
<1>4. x \in Piece(t)
  BY <1>1, DoublePiece, Zenon
<1>5. r = Join(p, Join(q, s))
  BY <1>1, Zenon
<1> HIDE DEF q
<1>6. w = Join(v, x) /\ v \in Spelt(p)
  BY <1>1, Zenon
<1>7. Join(Join(p, Join(q, s)), q) = Join(p, t)
  BY <1>2, Behind
<1> HIDE DEF t
<1>8. Join(v, x) \in Spelt(Join(p, t))
  BY <1>6, <1>3, <1>4, SpeltMore
<1> QED
  BY <1>5, <1>6, <1>7, <1>8, Zenon DEF Whole, q

LEMMA DoubleQuotedChar ==
  ASSUME NEW r, NEW w, DoubleQuoted(r, w), NEW c \in Char, c # "\"", c # "\\"
  PROVE  DoubleQuoted(Join(r, <<c>>), Join(w, <<c>>))
<1>1. <<c>> \in Seq(Char) /\ <<c>> # <<>> /\ <<c>> \in Within(<<c>>)
  BY Single, WithinChar, Zenon
<1> QED
  BY <1>1, DoubleQuotedMore, Zenon

LEMMA DoubleQuotedBackslash ==
  ASSUME NEW r \in Seq(Char), NEW w, DoubleQuoted(r, w)
  PROVE  BackslashedInDouble(Join(r, <<"\\">>), w)
BY Zenon DEF BackslashedInDouble

LEMMA BackslashedInDoubleMore ==
  ASSUME NEW r, NEW w, BackslashedInDouble(r, w), NEW c \in Char
  PROVE  DoubleQuoted(Join(r, <<c>>),
           Join(w, IF c = "\n" THEN <<>> ELSE IF c \in {"'", "\"", "\\"} THEN <<c>> ELSE <<"\\", c>>))
<1>1. PICK t \in Seq(Char) : r = Join(t, <<"\\">>) /\ DoubleQuoted(t, w)
  BY Zenon DEF BackslashedInDouble
<1> DEFINE b == <<"\\">>
           d == <<c>>
           u == <<"\\", c>>
           y == IF c = "\n" THEN <<>> ELSE IF c \in {"'", "\"", "\\"} THEN <<c>> ELSE <<"\\", c>>
<1>2. b \in Seq(Char) /\ d \in Seq(Char) /\ u \in Seq(Char) /\ u # <<>> /\ Join(b, d) = u
  BY Marks, Single, Pair, Zenon
<1>3. y \in Within(u) /\ y \in Seq(Char)
  <2>1. y \in Within(u)
    BY WithinEscaped, Zenon
  <2>2. <<>> \in Seq(Char)
    BY EmptySeq
  <2> QED
    BY <1>2, <2>1, <2>2, Zenon
<1>4. r = Join(t, b)
  BY <1>1, Zenon
<1> HIDE DEF b, d, u, y
<1>5. b \in Seq(Char) /\ d \in Seq(Char) /\ Join(b, d) = u
  BY <1>2
<1>6. Join(Join(t, b), d) = Join(t, Join(b, d))
  BY <1>2, JoinAssociative
<1>7. DoubleQuoted(Join(t, u), Join(w, y))
  BY <1>1, <1>2, <1>3, DoubleQuotedMore, Zenon
<1>8. Join(r, d) = Join(t, u)
  BY <1>4, <1>5, <1>6
<1> QED
  BY <1>7, <1>8, Zenon DEF d, y

-------------------------------------------------------------------------------
(* Words in a buffer t.                                                    *)

\* StringAt, of any buffer.
StringIn(t, a) ==
  LET ends == {i \in (a + 1)..Len(t) : t[i] = Nul}
  IN SubSeq(t, a + 1, (CHOOSE e \in ends \cup {Len(t) + 1} : \A f \in ends : e <= f) - 1)

WordsIn(t, v) == [i \in 1..Len(v) |-> StringIn(t, v[i])]

\* The word at a ends at e.
EndsAt(t, a, e) == e \in (a + 1)..Len(t) /\ t[e] = Nul /\ \A j \in (a + 1)..(e - 1) : t[j] # Nul

\* It ends within the first b characters.
Ended(t, a, b) == \E e \in (a + 1)..b : EndsAt(t, a, e)

LEMMA StringEnds ==
  ASSUME NEW t \in Seq(Char), NEW a \in Nat, NEW e, EndsAt(t, a, e)
  PROVE  StringIn(t, a) = SubSeq(t, a + 1, e - 1)
<1> DEFINE n == Len(t)
           S == {i \in (a + 1)..n : t[i] = Nul}
           P(x) == x \in S \cup {n + 1} /\ \A f \in S : x <= f
<1>1. n \in Nat
  BY LenProperties
<1>2. e \in S /\ e \in Nat /\ e <= n
  BY <1>1 DEF EndsAt
<1>3. \A f \in S : e <= f
  <2> SUFFICES ASSUME NEW f \in S PROVE e <= f
    OBVIOUS
  <2>1. f \in (a + 1)..n /\ t[f] = Nul
    OBVIOUS
  <2>2. f \notin (a + 1)..(e - 1)
    BY <2>1 DEF EndsAt
  <2> QED
    BY <1>1, <1>2, <2>1, <2>2
<1>4. P(e)
  BY <1>2, <1>3
<1>5. ASSUME NEW x, P(x) PROVE x = e
  <2>1. x <= e
    BY <1>2, <1>5
  <2>2. CASE x \in S
    <3>1. x \in Nat /\ e <= x
      BY <1>1, <1>3, <2>2
    <3> QED
      BY <1>2, <2>1, <3>1
  <2>3. CASE x = n + 1
    BY <1>1, <1>2, <2>1, <2>3
  <2> QED
    BY <1>5, <2>2, <2>3
<1> DEFINE c == CHOOSE x \in S \cup {n + 1} : \A f \in S : x <= f
<1>6. StringIn(t, a) = SubSeq(t, a + 1, c - 1)
  BY DEF StringIn
<1>7. P(c)
  BY <1>4
<1>8. c = e
  BY <1>5, <1>7
<1> HIDE DEF c
<1> QED
  BY <1>6, <1>8

\* A slice behind which something is added.
LEMMA SliceKept ==
  ASSUME NEW t \in Seq(Char), NEW s \in Seq(Char), NEW a \in Nat, NEW e \in (a + 1)..Len(t)
  PROVE  /\ SubSeq(Join(t, s), a + 1, e - 1) = SubSeq(t, a + 1, e - 1)
         /\ \A i \in (a + 1)..e : Join(t, s)[i] = t[i]
         /\ e \in (a + 1)..Len(Join(t, s))
<1> DEFINE k == e - 1
<1>1. Len(t) \in Nat /\ Len(s) \in Nat /\ e \in Nat /\ k \in 0..Len(t)
  BY LenProperties
<1>2. /\ Len(Join(t, s)) = Len(t) + Len(s)
      /\ \A i \in 1..(Len(t) + Len(s)) : Join(t, s)[i] = IF i <= Len(t) THEN t[i] ELSE s[i - Len(t)]
  BY JoinProperties
<1>3. SubSeq(Join(t, s), a + 1, k) = SubSeq(t, a + 1, k)
  <2>1. CASE a < k
    <3>1. a \in 0..(k - 1)
      BY <1>1, <2>1
    <3> HIDE DEF k
    <3> QED
      BY <1>1, <3>1, SliceBefore DEF Join
  <2>2. CASE ~(a < k)
    <3>1. a + 1 \in Int /\ k \in Int /\ k < a + 1
      BY <1>1, <2>2
    <3> DEFINE u == Join(t, s)
               b == a + 1
    <3> HIDE DEF k, u, b
    <3>2. SubSeq(u, b, k) = <<>> /\ SubSeq(t, b, k) = <<>>
      BY <3>1, SubSeqEmpty DEF b
    <3> QED
      BY <3>2 DEF u, b
  <2> QED
    BY <2>1, <2>2
<1>4. \A i \in (a + 1)..e : i \in 1..(Len(t) + Len(s)) /\ i <= Len(t)
  BY <1>1
<1> QED
  BY <1>1, <1>2, <1>3, <1>4

LEMMA WordKept ==
  ASSUME NEW t \in Seq(Char), NEW s \in Seq(Char), NEW a \in Nat, NEW b \in 0..Len(t), Ended(t, a, b)
  PROVE  /\ StringIn(Join(t, s), a) = StringIn(t, a) /\ Ended(Join(t, s), a, b)
         /\ StringIn(t, a) \in Seq(Char)
<1>1. PICK e \in (a + 1)..b : EndsAt(t, a, e)
  BY DEF Ended
<1>2. e \in (a + 1)..Len(t) /\ t[e] = Nul /\ \A j \in (a + 1)..(e - 1) : t[j] # Nul
  BY <1>1 DEF EndsAt
<1> DEFINE u == Join(t, s)
<1>3. /\ SubSeq(u, a + 1, e - 1) = SubSeq(t, a + 1, e - 1)
      /\ \A i \in (a + 1)..e : u[i] = t[i]
      /\ e \in (a + 1)..Len(u)
  BY <1>2, SliceKept
<1>4. u \in Seq(Char)
  BY JoinProperties
<1> HIDE DEF u
<1>5. EndsAt(u, a, e)
  <2>1. e \in (a + 1)..e /\ \A j \in (a + 1)..(e - 1) : j \in (a + 1)..e
    BY <1>2
  <2> QED
    BY <1>2, <1>3, <2>1 DEF EndsAt
<1>6. StringIn(u, a) = SubSeq(u, a + 1, e - 1)
  BY <1>4, <1>5, StringEnds
<1>7. StringIn(t, a) = SubSeq(t, a + 1, e - 1)
  BY <1>1, StringEnds
<1>8. SubSeq(t, a + 1, e - 1) \in Seq(Char)
  <2> DEFINE m == a + 1
             n == e - 1
  <2>1. m \in Int /\ n \in Int /\ \A i \in m..n : i \in 1..Len(t)
    BY <1>2
  <2>2. \A i \in m..n : t[i] \in Char
    BY <2>1, ElementOfSeq
  <2> HIDE DEF m, n
  <2>3. SubSeq(t, m, n) \in Seq(Char)
    BY <2>1, <2>2, SubSeqProperties
  <2> QED
    BY <2>3 DEF m, n
<1> QED
  BY <1>1, <1>3, <1>5, <1>6, <1>7, <1>8 DEF Ended, u

LEMMA WordsKept ==
  ASSUME NEW t \in Seq(Char), NEW s \in Seq(Char), NEW b \in 0..Len(t), NEW v \in Seq(Nat),
         \A i \in 1..Len(v) : Ended(t, v[i], b)
  PROVE  /\ WordsIn(Join(t, s), v) = WordsIn(t, v)
         /\ \A i \in 1..Len(v) : Ended(Join(t, s), v[i], b)
<1> DEFINE u == Join(t, s)
<1>1. ASSUME NEW i \in 1..Len(v) PROVE StringIn(u, v[i]) = StringIn(t, v[i]) /\ Ended(u, v[i], b)
  <2>1. v[i] \in Nat
    BY ElementOfSeq
  <2> QED
    BY <2>1, WordKept
<1> HIDE DEF u
<1>2. WordsIn(u, v) = WordsIn(t, v)
  BY <1>1 DEF WordsIn
<1> QED
  BY <1>1, <1>2 DEF u

\* What is behind b in the buffer.
Rest(t, b) == SubSeq(t, b + 1, Len(t))

LEMMA RestProperties ==
  ASSUME NEW t \in Seq(Char), NEW b \in 0..Len(t)
  PROVE  /\ Rest(t, b) \in Seq(Char) /\ Len(Rest(t, b)) = Len(t) - b
         /\ \A i \in 1..(Len(t) - b) : Rest(t, b)[i] = t[b + i]
<1> DEFINE m == b + 1
           n == Len(t)
<1>1. n \in Nat /\ b \in Nat /\ b <= n
  BY LenProperties
<1>2. m \in Int /\ n \in Int /\ \A i \in m..n : i \in 1..Len(t)
  BY <1>1
<1>3. \A i \in m..n : t[i] \in Char
  BY <1>2, ElementOfSeq
<1>4. n - m + 1 = n - b /\ (IF m <= n THEN n - m + 1 ELSE 0) = n - b
      /\ \A i \in 1..(n - b) : m + i - 1 = b + i
  BY <1>1
<1> HIDE DEF m, n
<1>5. /\ SubSeq(t, m, n) \in Seq(Char)
      /\ Len(SubSeq(t, m, n)) = IF m <= n THEN n - m + 1 ELSE 0
      /\ \A i \in 1..(n - m + 1) : SubSeq(t, m, n)[i] = t[m + i - 1]
  BY <1>2, <1>3, SubSeqProperties
<1>6. SubSeq(t, m, n) = Rest(t, b)
  BY DEF Rest, m, n
<1> QED
  BY <1>4, <1>5, <1>6 DEF n

LEMMA RestGrows ==
  ASSUME NEW t \in Seq(Char), NEW s \in Seq(Char), NEW b \in 0..Len(t)
  PROVE  Rest(Join(t, s), b) = Join(Rest(t, b), s) /\ b \in 0..Len(Join(t, s))
<1> DEFINE u == Join(t, s)
           r == Rest(t, b)
<1>1. Len(t) \in Nat /\ Len(s) \in Nat /\ b \in Nat /\ b <= Len(t)
  BY LenProperties
<1>2. /\ u \in Seq(Char) /\ Len(u) = Len(t) + Len(s)
      /\ \A i \in 1..(Len(t) + Len(s)) : u[i] = IF i <= Len(t) THEN t[i] ELSE s[i - Len(t)]
  BY JoinProperties
<1>3. /\ r \in Seq(Char) /\ Len(r) = Len(t) - b
      /\ \A i \in 1..(Len(t) - b) : r[i] = t[b + i]
  BY RestProperties
<1> HIDE DEF u, r
<1>4. r \in Seq(Char)
  BY <1>3
<1>5. /\ Join(r, s) \in Seq(Char) /\ Len(Join(r, s)) = Len(r) + Len(s)
      /\ \A i \in 1..(Len(r) + Len(s)) : Join(r, s)[i] = IF i <= Len(r) THEN r[i] ELSE s[i - Len(r)]
  BY <1>4, JoinProperties
<1>6. b \in 0..Len(u) /\ u \in Seq(Char)
  BY <1>1, <1>2
<1>7. /\ Rest(u, b) \in Seq(Char) /\ Len(Rest(u, b)) = Len(u) - b
      /\ \A i \in 1..(Len(u) - b) : Rest(u, b)[i] = u[b + i]
  BY <1>6, RestProperties
<1>8. Len(Rest(u, b)) = Len(Join(r, s))
  BY <1>1, <1>2, <1>3, <1>5, <1>7
<1>9. ASSUME NEW i \in 1..Len(Rest(u, b)) PROVE Rest(u, b)[i] = Join(r, s)[i]
  <2>1. i \in Nat /\ i \in 1..(Len(u) - b) /\ i \in 1..(Len(r) + Len(s)) /\ b + i \in 1..(Len(t) + Len(s))
    BY <1>1, <1>2, <1>3, <1>7
  <2>2. Rest(u, b)[i] = IF b + i <= Len(t) THEN t[b + i] ELSE s[b + i - Len(t)]
    BY <1>2, <1>7, <2>1
  <2>3. Join(r, s)[i] = IF i <= Len(r) THEN r[i] ELSE s[i - Len(r)]
    BY <1>5, <2>1
  <2>4. CASE i <= Len(r)
    <3>1. b + i <= Len(t) /\ i \in 1..(Len(t) - b)
      BY <1>1, <1>3, <2>1, <2>4
    <3> QED
      BY <1>3, <2>2, <2>3, <2>4, <3>1
  <2>5. CASE ~(i <= Len(r))
    <3>1. ~(b + i <= Len(t)) /\ b + i - Len(t) = i - Len(r)
      BY <1>1, <1>3, <2>1, <2>5
    <3> QED
      BY <2>2, <2>3, <2>5, <3>1
  <2> QED
    BY <2>4, <2>5
<1>10. Rest(u, b) = Join(r, s)
  <2> DEFINE x == Rest(u, b)
             y == Join(r, s)
  <2>1. x \in Seq(Char) /\ y \in Seq(Char) /\ Len(x) = Len(y) /\ \A i \in 1..Len(x) : x[i] = y[i]
    BY <1>5, <1>7, <1>8, <1>9
  <2> HIDE DEF x, y
  <2>2. x = y
    BY <2>1, SeqEqual
  <2> QED
    BY <2>2 DEF x, y
<1> QED
  BY <1>6, <1>10 DEF u, r

\* The word behind b is finished.
LEMMA WordFinished ==
  ASSUME NEW t \in Seq(Char), NEW b \in 0..Len(t), \A j \in (b + 1)..Len(t) : t[j] # Nul
  PROVE  /\ StringIn(Append(t, Nul), b) = Rest(t, b)
         /\ Ended(Append(t, Nul), b, Len(t) + 1)
<1> DEFINE u == Append(t, Nul)
           e == Len(t) + 1
<1>1. Len(t) \in Nat /\ b \in Nat /\ b <= Len(t)
  BY LenProperties
<1>2. Nul \in Char
  BY DEF Char
<1>3. /\ u \in Seq(Char) /\ Len(u) = Len(t) + 1 /\ u[Len(t) + 1] = Nul
      /\ \A i \in 1..Len(t) : u[i] = t[i]
  BY <1>2, AppendProperties
<1>4. u = Join(t, <<Nul>>)
  BY <1>2, AppendIsConcat DEF Join
<1>5. EndsAt(u, b, e) /\ e \in (b + 1)..(Len(t) + 1)
  <2>1. e \in (b + 1)..Len(u) /\ \A j \in (b + 1)..(e - 1) : j \in 1..Len(t) /\ j \in (b + 1)..Len(t)
    BY <1>1, <1>3
  <2> HIDE DEF u
  <2> QED
    BY <1>1, <1>3, <2>1 DEF EndsAt
<1> HIDE DEF u
<1>6. StringIn(u, b) = SubSeq(u, b + 1, e - 1)
  BY <1>1, <1>3, <1>5, StringEnds
<1>7. SubSeq(u, b + 1, Len(t)) = SubSeq(t, b + 1, Len(t))
  <2> DEFINE n == Len(t)
  <2>1. CASE b < n
    <3>1. b \in 0..(n - 1) /\ n \in 0..Len(t)
      BY <1>1, <2>1
    <3>2. <<Nul>> \in Seq(Char)
      BY <1>2
    <3> HIDE DEF n
    <3>3. SubSeq(t \o <<Nul>>, b + 1, n) = SubSeq(t, b + 1, n)
      BY <3>1, <3>2, SliceBefore
    <3> QED
      BY <1>4, <3>3 DEF Join, n
  <2>2. CASE ~(b < n)
    <3> DEFINE m == b + 1
    <3>1. m \in Int /\ n \in Int /\ n < m
      BY <1>1, <2>2
    <3> HIDE DEF m, n
    <3>2. SubSeq(u, m, n) = <<>> /\ SubSeq(t, m, n) = <<>>
      BY <3>1, SubSeqEmpty
    <3> QED
      BY <3>2 DEF m, n
  <2> QED
    BY <2>1, <2>2
<1>8. e - 1 = Len(t)
  BY <1>1
<1> QED
  BY <1>5, <1>6, <1>7, <1>8 DEF Ended, Rest, u

LEMMA WordsFinished ==
  ASSUME NEW t \in Seq(Char), NEW b \in 0..Len(t), NEW v \in Seq(Nat),
         \A i \in 1..Len(v) : Ended(t, v[i], b), \A j \in (b + 1)..Len(t) : t[j] # Nul
  PROVE  /\ WordsIn(Append(t, Nul), Append(v, b)) = WordsIn(t, v) \o <<Rest(t, b)>>
         /\ \A i \in 1..Len(Append(v, b)) : Ended(Append(t, Nul), Append(v, b)[i], Len(t) + 1)
<1> DEFINE u == Append(t, Nul)
           w == Append(v, b)
           n == Len(v)
           S == Seq(Char)
           x == WordsIn(t, v)
           z == <<Rest(t, b)>>
<1>1. Len(t) \in Nat /\ b \in Nat /\ b <= Len(t) /\ n \in Nat
  BY LenProperties
<1>2. w \in Seq(Nat) /\ Len(w) = n + 1 /\ w[n + 1] = b /\ \A i \in 1..n : w[i] = v[i]
  BY <1>1, AppendProperties
<1>3. <<Nul>> \in Seq(Char) /\ u = Join(t, <<Nul>>)
  <2>1. Nul \in Char
    BY DEF Char
  <2> QED
    BY <2>1, AppendIsConcat DEF Join
<1>4. StringIn(u, b) = Rest(t, b) /\ Ended(u, b, Len(t) + 1)
  BY WordFinished
<1>5. ASSUME NEW i \in 1..n
      PROVE  StringIn(u, v[i]) = StringIn(t, v[i]) /\ Ended(u, v[i], Len(t) + 1) /\ StringIn(t, v[i]) \in S
  <2>1. v[i] \in Nat
    BY ElementOfSeq
  <2>2. StringIn(u, v[i]) = StringIn(t, v[i]) /\ Ended(u, v[i], b) /\ StringIn(t, v[i]) \in S
    <3> DEFINE y == <<Nul>>
               a == v[i]
    <3>1. y \in Seq(Char) /\ a \in Nat /\ Ended(t, a, b)
      BY <1>3, <2>1
    <3> HIDE DEF y, a, u
    <3>2. StringIn(Join(t, y), a) = StringIn(t, a) /\ Ended(Join(t, y), a, b) /\ StringIn(t, a) \in Seq(Char)
      BY <3>1, WordKept
    <3> QED
      BY <1>3, <3>2 DEF y, a
  <2>3. \A e \in (v[i] + 1)..b : e \in (v[i] + 1)..(Len(t) + 1)
    BY <1>1, <2>1
  <2> QED
    BY <2>2, <2>3 DEF Ended
<1>6. x \in Seq(S) /\ Len(x) = n /\ \A i \in 1..n : x[i] = StringIn(t, v[i])
  BY <1>1, <1>5 DEF WordsIn
<1>7. Rest(t, b) \in S
  BY RestProperties
<1>8. z \in Seq(S) /\ Len(z) = 1 /\ z[1] = Rest(t, b)
  BY <1>7
<1> HIDE DEF u, w, x, z, S
<1>9. x \in Seq(S) /\ z \in Seq(S)
  BY <1>6, <1>8
<1>10. /\ x \o z \in Seq(S) /\ Len(x \o z) = Len(x) + Len(z)
      /\ \A i \in 1..(Len(x) + Len(z)) : (x \o z)[i] = IF i <= Len(x) THEN x[i] ELSE z[i - Len(x)]
  BY <1>9, ConcatProperties
<1>11. ASSUME NEW i \in 1..Len(w)
       PROVE  StringIn(u, w[i]) = (x \o z)[i] /\ Ended(u, w[i], Len(t) + 1) /\ StringIn(u, w[i]) \in S
  <2>1. i \in 1..(Len(x) + Len(z))
    BY <1>1, <1>2, <1>6, <1>8
  <2>2. CASE i \in 1..n
    <3>1. (x \o z)[i] = x[i]
      BY <1>1, <1>6, <1>10, <2>1, <2>2
    <3> QED
      BY <1>2, <1>5, <1>6, <2>2, <3>1
  <2>3. CASE i = n + 1
    <3>1. i - Len(x) = 1 /\ ~(i <= Len(x))
      BY <1>1, <1>6, <2>3
    <3>2. (x \o z)[i] = Rest(t, b)
      BY <1>8, <1>10, <2>1, <3>1
    <3> QED
      BY <1>2, <1>4, <1>7, <2>3, <3>2 DEF S
  <2>4. i \in 1..n \/ i = n + 1
    BY <1>1, <1>2
  <2> QED
    BY <2>2, <2>3, <2>4
<1>12. WordsIn(u, w) \in Seq(S) /\ Len(WordsIn(u, w)) = n + 1
       /\ \A i \in 1..(n + 1) : WordsIn(u, w)[i] = StringIn(u, w[i])
  BY <1>1, <1>2, <1>11 DEF WordsIn
<1>13. WordsIn(u, w) = x \o z
  <2> DEFINE y == WordsIn(u, w)
             k == x \o z
  <2>1. y \in Seq(S) /\ k \in Seq(S) /\ Len(y) = Len(k) /\ \A i \in 1..Len(y) : y[i] = k[i]
    BY <1>1, <1>2, <1>6, <1>8, <1>10, <1>11, <1>12
  <2> HIDE DEF y, k
  <2>2. y = k
    BY <2>1, SeqEqual
  <2> QED
    BY <2>2 DEF y, k
<1> QED
  BY <1>11, <1>13 DEF u, w, x, z

-------------------------------------------------------------------------------
(* What was scanned, and what it was made into.                            *)

SoFar(q, r, w) ==
  /\ q = "none" => Whole(r, w)
  /\ q = "one" => Backslashed(r, w)
  /\ q = "single" => SingleQuoted(r, w)
  /\ q = "double" => DoubleQuoted(r, w)
  /\ q = "doubleone" => BackslashedInDouble(r, w)

\* The word that is being scanned.
Word == Rest(text, wstart)

\* Of the input i one part spells the words, and another the word so far.
Spells(i, words, q, k, w) ==
  \E s, r \in Seq(Char) :
    /\ i = Join(s, r)
    /\ words \in Sentence(s)
    /\ SoFar(q, r, w)
    /\ r = <<>> <=> (~k /\ w = <<>>)

Parsed == Spells(input, Words, quote, keep, Word)

\* A finished word has its NUL before the next one, which has none yet.
WordsEnd ==
  /\ \A i \in 1..Len(argv) : Ended(text, argv[i], wstart)
  /\ \A j \in (wstart + 1)..Len(text) : text[j] # Nul

\* A place in one of the words, or in the n characters behind them.
Held(c, words, n) ==
  \/ c.word \in 0..(Len(words) - 1) /\ c.offset \in 0..Len(words[c.word + 1])
  \/ c.word = Len(words) /\ c.offset \in 0..n

\* Where the cursor was met.
CursorHeld == cursor # NoCursor => Held(cursor, Words, Len(text) - wstart)

\* Behind a line that was complete nothing is left of a word.
Idle == at = "caller" /\ result = 0 => ~keep /\ wstart = Len(text)

ParseInv ==
  /\ Idle
  /\ ~beyond =>
       /\ Parsed /\ WordsEnd
       /\ at = "scan" \/ (result = 0 /\ input # <<>>) => CursorHeld

LEMMA WordsAre == Words = WordsIn(text, argv)
BY DEF Words, WordsIn, StringAt, StringIn

LEMMA WordsArePrimed == Words' = WordsIn(text', argv')
BY DEF Words, WordsIn, StringAt, StringIn

LEMMA WordIs ==
  ASSUME TypeOK
  PROVE  /\ Word \in Seq(Char) /\ Len(Word) = Len(text) - wstart
         /\ Len(text) \in Nat /\ Len(argv) \in Nat
BY RestProperties, LenIsNat DEF Word, TypeOK

LEMMA NoWord == ASSUME TypeOK, Len(text) = wstart PROVE Word = <<>>
<1>1. Len(Word) = 0
  BY WordIs DEF TypeOK
<1> QED
  BY <1>1, WordIs, EmptySeq

LEMMA WordsType ==
  ASSUME TypeOK, WordsEnd
  PROVE  Words \in Seq(Seq(Char)) /\ Len(Words) = Len(argv)
<1>1. \A i \in 1..Len(argv) : StringIn(text, argv[i]) \in Seq(Char)
  <2> SUFFICES ASSUME NEW i \in 1..Len(argv) PROVE StringIn(text, argv[i]) \in Seq(Char)
    OBVIOUS
  <2> DEFINE a == argv[i]
             e == <<>>
  <2>1. a \in Nat /\ Ended(text, a, wstart) /\ wstart \in 0..Len(text) /\ text \in Seq(Char)
    BY ElementOfSeq DEF TypeOK, WordsEnd
  <2>2. e \in Seq(Char)
    BY EmptySeq
  <2> HIDE DEF a, e
  <2>3. StringIn(text, a) \in Seq(Char)
    BY <2>1, <2>2, WordKept
  <2> QED
    BY <2>3 DEF a
<1>2. Len(argv) \in Nat
  BY LenIsNat DEF TypeOK
<1> DEFINE S == Seq(Char)
<1> HIDE DEF S
<1>3. WordsIn(text, argv) \in Seq(S) /\ Len(WordsIn(text, argv)) = Len(argv)
  BY <1>1, <1>2 DEF WordsIn, S
<1> QED
  BY <1>3, WordsAre DEF S

\* Characters are put in the word.
LEMMA TextPut ==
  ASSUME TypeOK, WordsEnd, NEW s \in Seq(Char), \A i \in 1..Len(s) : s[i] # Nul, Put(s)
  PROVE  /\ Words' = Words /\ WordsEnd' /\ Word' = Join(Word, s)
         /\ wstart' = wstart /\ argv' = argv /\ Len(text') = Len(text) + Len(s)
<1>1. text' = Join(text, s) /\ wstart' = wstart /\ argv' = argv
  BY DEF Put, Join
<1>2. text \in Seq(Char) /\ wstart \in 0..Len(text) /\ argv \in Seq(Nat) /\ Len(text) \in Nat /\ Len(s) \in Nat
  BY LenIsNat DEF TypeOK
<1>3. /\ Len(text') = Len(text) + Len(s)
      /\ \A i \in 1..(Len(text) + Len(s)) : text'[i] = IF i <= Len(text) THEN text[i] ELSE s[i - Len(text)]
  BY <1>1, <1>2, JoinProperties
<1>4. \A i \in 1..Len(argv) : Ended(text, argv[i], wstart)
  BY DEF WordsEnd
<1>5. WordsIn(text', argv) = WordsIn(text, argv) /\ \A i \in 1..Len(argv) : Ended(text', argv[i], wstart)
  BY <1>1, <1>2, <1>4, WordsKept
<1>6. \A j \in (wstart + 1)..Len(text') : text'[j] # Nul
  <2> SUFFICES ASSUME NEW j \in (wstart + 1)..Len(text') PROVE text'[j] # Nul
    OBVIOUS
  <2>1. j \in 1..(Len(text) + Len(s))
    BY <1>2, <1>3
  <2>2. CASE j <= Len(text)
    <3>1. j \in (wstart + 1)..Len(text)
      BY <1>2, <2>1, <2>2
    <3> QED
      BY <1>3, <2>1, <2>2, <3>1 DEF WordsEnd
  <2>3. CASE ~(j <= Len(text))
    <3>1. j - Len(text) \in 1..Len(s)
      BY <1>2, <2>1, <2>3
    <3> QED
      BY <1>3, <2>1, <2>3, <3>1
  <2> QED
    BY <2>2, <2>3
<1>7. Rest(text', wstart) = Join(Rest(text, wstart), s)
  BY <1>1, <1>2, RestGrows
<1> QED
  BY <1>1, <1>3, <1>5, <1>6, <1>7, WordsAre, WordsArePrimed DEF WordsEnd, Word

\* The word is finished, or there is none.
LEMMA TextFinished ==
  ASSUME TypeOK, WordsEnd, Finish
  PROVE  /\ WordsEnd' /\ ~keep'
         /\ \/ /\ keep \/ Word # <<>>
               /\ Words' = Words \o <<Word>> /\ Len(argv') = Len(argv) + 1
               /\ wstart' = Len(text') /\ Word' = <<>>
            \/ /\ ~keep /\ Word = <<>> /\ Len(text) = wstart
               /\ Words' = Words /\ UNCHANGED <<text, wstart, argv>> /\ Word' = <<>>
<1>1. text \in Seq(Char) /\ wstart \in 0..Len(text) /\ argv \in Seq(Nat) /\ Len(text) \in Nat /\ wstart \in Nat
  BY LenIsNat DEF TypeOK
<1>2. CASE keep \/ Len(text) # wstart
  <2>1. argv' = Append(argv, wstart) /\ text' = Append(text, Nul) /\ wstart' = Len(text) + 1 /\ keep' = FALSE
    BY <1>2 DEF Finish
  <2>2. /\ \A i \in 1..Len(argv) : Ended(text, argv[i], wstart)
        /\ \A j \in (wstart + 1)..Len(text) : text[j] # Nul
    BY DEF WordsEnd
  <2>3. /\ WordsIn(text', argv') = WordsIn(text, argv) \o <<Rest(text, wstart)>>
        /\ \A i \in 1..Len(argv') : Ended(text', argv'[i], wstart')
    BY <1>1, <2>1, <2>2, WordsFinished
  <2>4. text' \in Seq(Char) /\ Len(text') = Len(text) + 1 /\ Len(argv') = Len(argv) + 1
    <3>1. Nul \in Char
      BY DEF Char
    <3> QED
      BY <1>1, <2>1, <3>1, TextAppended, WordAdded
  <2>5. \A j \in (wstart' + 1)..Len(text') : text'[j] # Nul
    BY <1>1, <2>1, <2>4
  <2>6. Word' = <<>>
    <3> DEFINE t == text'
               b == wstart'
    <3>1. t \in Seq(Char) /\ b \in 0..Len(t) /\ Len(t) - b = 0
      BY <1>1, <2>1, <2>4
    <3> HIDE DEF t, b
    <3>2. Rest(t, b) \in Seq(Char) /\ Len(Rest(t, b)) = 0
      BY <3>1, RestProperties
    <3>3. Rest(t, b) = <<>>
      BY <3>2, EmptySeq
    <3> QED
      BY <3>3 DEF Word, t, b
  <2>7. keep \/ Word # <<>>
    <3>1. CASE Len(text) # wstart
      <4>1. Len(Word) # 0
        BY <1>1, <3>1, WordIs
      <4> QED
        BY <4>1
    <3> QED
      BY <1>2, <3>1
  <2> QED
    BY <2>1, <2>3, <2>4, <2>5, <2>6, <2>7, WordsAre, WordsArePrimed DEF WordsEnd, Word
<1>3. CASE ~(keep \/ Len(text) # wstart)
  <2>1. text' = text /\ wstart' = wstart /\ argv' = argv /\ keep' = FALSE /\ ~keep /\ Len(text) = wstart
    BY <1>3 DEF Finish, wordVars
  <2>2. Word = <<>>
    BY <2>1, NoWord
  <2>3. Word' = Word /\ Words' = Words /\ WordsEnd'
    BY <2>1 DEF Word, Words, StringAt, WordsEnd
  <2> QED
    BY <2>1, <2>2, <2>3
<1> QED
  BY <1>2, <1>3

\* Within quotes, or behind a backslash, something was scanned of the word.
LEMMA SpeltSoFar ==
  ASSUME NEW q, q # "none", q \in {"none", "single", "double", "one", "doubleone"},
         NEW r, NEW w, SoFar(q, r, w)
  PROVE  r # <<>>
<1>1. ASSUME NEW p \in Seq(Char), NEW s \in Seq(Char), s # <<>>, r = Join(p, s) PROVE r # <<>>
  BY <1>1, ConcatEqualIffEmpty DEF Join
<1>2. ASSUME NEW c \in Char, NEW s \in Seq(Char) PROVE Join(<<c>>, s) \in Seq(Char) /\ Join(<<c>>, s) # <<>>
  <2> DEFINE d == <<c>>
  <2>1. d \in Seq(Char) /\ d # <<>>
    OBVIOUS
  <2> HIDE DEF d
  <2>2. Join(d, s) \in Seq(Char) /\ Join(d, s) # <<>>
    BY <2>1, JoinProperties, ConcatEqualIffEmpty DEF Join
  <2> QED
    BY <2>2 DEF d
<1>3. CASE q = "one"
  <2>1. PICK p \in Seq(Char) : r = Join(p, <<"\\">>)
    BY <1>3, Zenon DEF SoFar, Backslashed
  <2>2. <<"\\">> \in Seq(Char) /\ <<"\\">> # <<>>
    BY Marks, Single, Zenon
  <2> QED
    BY <1>1, <2>1, <2>2, Zenon
<1>4. CASE q = "single"
  <2>1. PICK p \in Seq(Char), s \in Seq(Char) : r = Join(p, Join(<<"'">>, s))
    BY <1>4, Zenon DEF SoFar, SingleQuoted
  <2> QED
    BY <1>1, <1>2, <2>1, Marks, Zenon
<1>5. CASE q = "double"
  <2>1. PICK p \in Seq(Char), s \in Seq(Char) : r = Join(p, Join(<<"\"">>, s))
    BY <1>5, Zenon DEF SoFar, DoubleQuoted
  <2> QED
    BY <1>1, <1>2, <2>1, Marks, Zenon
<1>6. CASE q = "doubleone"
  <2>1. PICK p \in Seq(Char) : r = Join(p, <<"\\">>)
    BY <1>6, Zenon DEF SoFar, BackslashedInDouble
  <2>2. <<"\\">> \in Seq(Char) /\ <<"\\">> # <<>>
    BY Marks, Single, Zenon
  <2> QED
    BY <1>1, <2>1, <2>2, Zenon
<1> QED
  BY <1>3, <1>4, <1>5, <1>6

LEMMA CharsApart ==
  /\ "'" # Nul /\ "\"" # Nul /\ "\\" # Nul /\ "\n" # Nul /\ Separator # Nul
  /\ "'" # "\n" /\ "\"" # "\n" /\ "\\" # "\n" /\ Separator # "\n"
  /\ Separator # "'" /\ Separator # "\"" /\ Separator # "\\"
  /\ Separator \in Breaks /\ "\n" \in Breaks /\ Separator \in Char
BY Zenon DEF Nul, Separator, Breaks, Char

LEMMA PlainApart ==
  ASSUME NEW c \in Plain
  PROVE  c # Nul /\ c # "\n" /\ c # "'" /\ c # "\"" /\ c # "\\" /\ c \in Char
BY PlainAssumption, Zenon DEF Special, Char

\* The input and one character.
LEMMA Recorded ==
  ASSUME TypeOK, ~beyond, NEW c \in Char, Record(c)
  PROVE  input' = Join(input, <<c>>) /\ ~beyond'
<1>1. input' = Append(input, c) /\ ~beyond'
  BY DEF Record
<1> QED
  BY <1>1, AppendIsConcat DEF TypeOK, Join

\* A character of the word that is being scanned.
LEMMA CharacterParsed ==
  ASSUME TypeOK, ~beyond, Parsed, NEW c \in Char, Record(c), Words' = Words,
         NEW s \in Seq(Char), Word' = Join(Word, s),
         keep' \/ s # <<>> \/ (keep' = keep /\ quote # "none"),
         \A r \in Seq(Char) : SoFar(quote, r, Word) => SoFar(quote', Join(r, <<c>>), Join(Word, s))
  PROVE  Parsed'
<1> DEFINE d == <<c>>
           w == Word
           i == input
           q == quote
<1>1. PICK p \in Seq(Char), r \in Seq(Char) :
        i = Join(p, r) /\ Words \in Sentence(p) /\ SoFar(q, r, w) /\ (r = <<>> <=> (~keep /\ w = <<>>))
  BY DEF Parsed, Spells
<1>2. d \in Seq(Char) /\ d # <<>> /\ w \in Seq(Char)
  BY Single, WordIs
<1>3. input' = Join(i, d)
  BY Recorded
<1>4. SoFar(quote', Join(r, d), Join(w, s))
  BY <1>1
<1>5. q # "none" => r # <<>>
  BY <1>1, SpeltSoFar DEF TypeOK
<1> HIDE DEF d, w, i, q
<1>6. d \in Seq(Char)
  BY <1>2
<1>7. Join(Join(p, r), d) = Join(p, Join(r, d))
  BY <1>6, JoinAssociative
<1>8. Join(r, d) \in Seq(Char) /\ Join(r, d) # <<>>
  BY <1>2, ConcatEqualIffEmpty, ConcatProperties DEF Join
<1>9. ~(~keep' /\ Join(w, s) = <<>>)
  <2>1. Join(w, s) = <<>> => w = <<>> /\ s = <<>>
    BY <1>2, ConcatEqualIffEmpty DEF Join
  <2> QED
    BY <1>1, <1>5, <2>1 DEF q
<1>10. input' = Join(p, Join(r, d))
  BY <1>1, <1>3, <1>7
<1> QED
  BY <1>1, <1>4, <1>8, <1>9, <1>10, Zenon DEF Parsed, Spells, w

\* The end of a word.
LEMMA BreakParsed ==
  ASSUME TypeOK, WordsEnd, ~beyond, Parsed, quote = "none", quote' = "none",
         NEW b \in Breaks, b \in Char, Record(b), Finish
  PROVE  Parsed'
<1> DEFINE d == <<b>>
           w == Word
           e == <<>>
<1>1. PICK p \in Seq(Char), r \in Seq(Char) :
        input = Join(p, r) /\ Words \in Sentence(p) /\ SoFar(quote, r, w) /\ (r = e <=> (~keep /\ w = e))
  BY DEF Parsed, Spells
<1>2. d \in Seq(Char) /\ d # e
  BY Single
<1>3. input' = Join(input, d)
  BY Recorded
<1>4. w \in Spelt(r)
  BY <1>1 DEF SoFar, Whole
<1>5. /\ ~keep' /\ Word' = e
      /\ \/ (keep \/ w # e) /\ Words' = Words \o <<w>>
         \/ ~keep /\ w = e /\ Words' = Words
  BY TextFinished, Zenon
<1>6. SoFar("none", e, e)
  BY NothingSpelt, Zenon DEF SoFar
<1>7. e \in Seq(Char)
  BY EmptySeq
<1>8. Words \in Seq(Seq(Char))
  BY WordsType
<1>9. \E s \in Seq(Char) : input' = Join(s, e) /\ Words' \in Sentence(s)
  <2>1. CASE (keep \/ w # e) /\ Words' = Words \o <<w>>
    <3>1. r # e
      BY <1>1, <2>1
    <3>2. <<w>> \in Portion(Join(r, d))
      BY <1>4, <3>1, PortionOfWord
    <3> DEFINE u == Join(r, d)
               x == <<w>>
    <3> HIDE DEF d, w, e, x
    <3>3. u \in Seq(Char) /\ u # e
      BY <1>2, ConcatEqualIffEmpty, ConcatProperties DEF Join, e
    <3>4. Join(Join(p, r), d) = Join(p, Join(r, d))
      BY <1>2, JoinAssociative
    <3> HIDE DEF u
    <3>5. Join(Words, x) \in Sentence(Join(p, u))
      BY <1>1, <3>2, <3>3, SentenceMore DEF u, x, e
    <3>6. Join(p, u) \in Seq(Char)
      BY <3>3, JoinProperties
    <3>7. Join(Join(p, u), e) = Join(p, u)
      BY <3>6, JoinNothing DEF e
    <3>8. Join(Words, x) = Words'
      BY <2>1 DEF Join, x
    <3> QED
      BY <1>1, <1>3, <3>4, <3>5, <3>6, <3>7, <3>8, Zenon DEF u
  <2>2. CASE ~keep /\ w = e /\ Words' = Words
    <3>1. r = e
      BY <1>1, <2>2
    <3>2. e \in Portion(d)
      BY PortionAlone
    <3>3. Join(Words, e) = Words
      BY <1>8, ConcatEmptySeq DEF Join
    <3> HIDE DEF d, w, e
    <3>4. Join(p, e) = p
      BY JoinNothing DEF e
    <3>5. Join(Words, e) \in Sentence(Join(p, d))
      BY <1>1, <1>2, <3>2, SentenceMore DEF e
    <3>6. Join(p, d) \in Seq(Char)
      BY <1>2, JoinProperties
    <3>7. Join(Join(p, d), e) = Join(p, d)
      BY <3>6, JoinNothing DEF e
    <3> QED
      BY <1>1, <1>3, <2>2, <3>1, <3>3, <3>4, <3>5, <3>6, <3>7, Zenon
  <2> QED
    BY <1>5, <2>1, <2>2
<1> HIDE DEF e
<1> QED
  BY <1>5, <1>6, <1>7, <1>9, Zenon DEF Parsed, Spells, e

-------------------------------------------------------------------------------
(* The cursor.                                                             *)

LEMMA HeldMore ==
  ASSUME NEW c, NEW words, NEW n \in Nat, NEW m \in Nat, n <= m, Held(c, words, n)
  PROVE  Held(c, words, m)
BY DEF Held

LEMMA HeldFinished ==
  ASSUME NEW c, NEW words \in Seq(Seq(Char)), NEW w \in Seq(Char), Held(c, words, Len(w))
  PROVE  Held(c, words \o <<w>>, 0)
<1> DEFINE S == Seq(Char)
           x == <<w>>
           t == words \o x
           n == Len(words)
<1>1. x \in Seq(S) /\ Len(x) = 1 /\ x[1] = w /\ n \in Nat
  OBVIOUS
<1> HIDE DEF S, x
<1>2. words \in Seq(S)
  BY DEF S
<1>3. /\ t \in Seq(S) /\ Len(t) = Len(words) + Len(x)
      /\ \A i \in 1..(Len(words) + Len(x)) : t[i] = IF i <= Len(words) THEN words[i] ELSE x[i - Len(words)]
  BY <1>1, <1>2, ConcatProperties
<1> HIDE DEF t
<1>4. CASE c.word \in 0..(n - 1) /\ c.offset \in 0..Len(words[c.word + 1])
  <2> DEFINE k == c.word + 1
  <2>1. k \in 1..n /\ c.word \in 0..(Len(t) - 1)
    BY <1>1, <1>3, <1>4
  <2> HIDE DEF k
  <2>2. t[k] = words[k]
    BY <1>1, <1>3, <2>1
  <2> QED
    BY <1>4, <2>1, <2>2 DEF Held, k, t, x
<1>5. CASE c.word = n /\ c.offset \in 0..Len(w)
  <2>1. /\ n + 1 \in 1..(Len(words) + Len(x)) /\ ~(n + 1 <= Len(words))
        /\ (n + 1) - Len(words) = 1 /\ n \in 0..(Len(t) - 1)
    BY <1>1, <1>3
  <2>2. t[n + 1] = w
    BY <1>1, <1>3, <2>1
  <2> QED
    BY <1>5, <2>1, <2>2 DEF Held, t, x
<1> QED
  BY <1>4, <1>5 DEF Held

LEMMA HereHeld ==
  ASSUME TypeOK, WordsEnd PROVE Held(Here, Words, Len(text) - wstart)
BY WordsType, WordIs DEF Held, Here, TypeOK

LEMMA CursorMarked ==
  ASSUME TypeOK, WordsEnd, CursorHeld, Mark
  PROVE  cursor' # NoCursor => Held(cursor', Words, Len(text) - wstart)
BY HereHeld DEF CursorHeld, Mark

LEMMA CursorPut ==
  ASSUME TypeOK, WordsEnd, CursorHeld, Mark,
         Words' = Words, wstart' = wstart, NEW s \in Seq(Char), Len(text') = Len(text) + Len(s)
  PROVE  CursorHeld'
<1> DEFINE n == Len(text) - wstart
           m == Len(text') - wstart'
<1>1. n \in Nat /\ m \in Nat /\ n <= m
  BY LenIsNat DEF TypeOK
<1>2. cursor' # NoCursor => Held(cursor', Words, n)
  BY CursorMarked
<1> HIDE DEF n
<1>3. cursor' # NoCursor => Held(cursor', Words, m)
  BY <1>1, <1>2, HeldMore
<1> QED
  BY <1>3 DEF CursorHeld

\* Wherever the word is finished, the cursor that was met is still in it.
LEMMA CursorFinished ==
  ASSUME TypeOK, TypeOK', WordsEnd, Finish, cursor' # NoCursor => Held(cursor', Words, Len(text) - wstart)
  PROVE  CursorHeld'
<1>1. Words \in Seq(Seq(Char)) /\ Word \in Seq(Char) /\ Len(Word) = Len(text) - wstart
  BY WordsType, WordIs
<1>2. \/ Words' = Words \o <<Word>> /\ wstart' = Len(text')
      \/ Words' = Words /\ text' = text /\ wstart' = wstart
  BY TextFinished
<1>3. CASE Words' = Words \o <<Word>> /\ wstart' = Len(text')
  <2>1. Len(text') - wstart' = 0
    BY <1>3, LenIsNat DEF TypeOK
  <2>2. cursor' # NoCursor => Held(cursor', Words \o <<Word>>, 0)
    BY <1>1, HeldFinished
  <2> QED
    BY <1>3, <2>1, <2>2 DEF CursorHeld
<1>4. CASE Words' = Words /\ text' = text /\ wstart' = wstart
  BY <1>4 DEF CursorHeld
<1> QED
  BY <1>2, <1>3, <1>4

-------------------------------------------------------------------------------
(* What the steps scan.                                                    *)

\* Behind a character the scan goes on, or an allocation failed.
LEMMA RoomGoesOn == ASSUME Room PROVE at' = "scan" \/ (at' = "caller" /\ result' = -1)
BY DEF Room

LEMMA RoomIdle == ASSUME Room PROVE Idle'
BY RoomGoesOn DEF Idle

LEMMA FirstOrSecond == (\A i \in 1..1 : i = 1) /\ \A i \in 1..2 : i = 1 \/ i = 2
OBVIOUS

\* A character of a word.
LEMMA CharacterStep ==
  ASSUME IInv, IInv', ParseInv, NEW c \in Char, Scan(c), Room,
         NEW s \in Seq(Char), \A i \in 1..Len(s) : s[i] # Nul, Put(s),
         keep' \/ s # <<>> \/ (keep' = keep /\ quote # "none"),
         \A r \in Seq(Char), w \in Seq(Char) : SoFar(quote, r, w) => SoFar(quote', Join(r, <<c>>), Join(w, s))
  PROVE  ParseInv'
<1>1. TypeOK /\ Record(c) /\ Mark /\ at = "scan" /\ Idle'
  BY RoomIdle DEF IInv, Scan
<1>2. CASE beyond
  BY <1>1, <1>2 DEF ParseInv, Record
<1>3. CASE ~beyond
  <2>1. Parsed /\ WordsEnd /\ CursorHeld
    BY <1>1, <1>3 DEF ParseInv
  <2>2. /\ Words' = Words /\ WordsEnd' /\ Word' = Join(Word, s)
        /\ wstart' = wstart /\ Len(text') = Len(text) + Len(s)
    BY <1>1, <2>1, TextPut
  <2>3. CursorHeld'
    BY <1>1, <2>1, <2>2, CursorPut
  <2>4. \A r \in Seq(Char) : SoFar(quote, r, Word) => SoFar(quote', Join(r, <<c>>), Join(Word, s))
    BY <1>1, WordIs
  <2>5. Parsed'
    BY <1>1, <1>3, <2>1, <2>2, <2>4, CharacterParsed
  <2> QED
    BY <1>1, <2>2, <2>3, <2>5 DEF ParseInv
<1> QED
  BY <1>2, <1>3

\* A character that only changes the quoting state.
LEMMA SwitchStep ==
  ASSUME IInv, IInv', ParseInv, NEW c \in Char, Scan(c), Room, UNCHANGED wordVars,
         keep' \/ (keep' = keep /\ quote # "none"),
         \A r \in Seq(Char), w \in Seq(Char) : SoFar(quote, r, w) => SoFar(quote', Join(r, <<c>>), w)
  PROVE  ParseInv'
<1> DEFINE e == <<>>
<1>1. e \in Seq(Char) /\ \A i \in 1..Len(e) : e[i] # Nul
  OBVIOUS
<1>2. Put(e)
  BY ConcatEmptySeq DEF Put, wordVars, IInv, TypeOK
<1> HIDE DEF e
<1>3. \A w \in Seq(Char) : Join(w, e) = w
  BY JoinNothing DEF e
<1>4. \A r \in Seq(Char), w \in Seq(Char) : SoFar(quote, r, w) => SoFar(quote', Join(r, <<c>>), Join(w, e))
  BY <1>3
<1> QED
  BY <1>1, <1>2, <1>4, CharacterStep

\* A character that stands for itself.
LEMMA QuotedStep ==
  ASSUME IInv, IInv', ParseInv, NEW c \in Char, c # Nul, Scan(c), Room,
         UNCHANGED quote, Put(<<c>>), quote \in {"none", "single", "double"},
         quote = "none" => c \in Plain,
         quote = "single" => c # "'",
         quote = "double" => c # "\"" /\ c # "\\"
  PROVE  ParseInv'
<1> DEFINE d == <<c>>
<1>1. d \in Seq(Char) /\ d # <<>> /\ \A i \in 1..Len(d) : d[i] # Nul
  <2>1. d \in Seq(Char) /\ Len(d) = 1 /\ d[1] = c /\ d # <<>>
    BY Single, OneChar, Zenon
  <2>2. \A i \in 1..1 : i = 1
    BY FirstOrSecond
  <2> QED
    BY <2>1, <2>2, Zenon
<1>2. ASSUME NEW r \in Seq(Char), NEW w \in Seq(Char), SoFar(quote, r, w)
      PROVE  SoFar(quote', Join(r, d), Join(w, d))
  <2>1. CASE quote = "none"
    <3>1. c \in Plain /\ Whole(r, w)
      BY <1>2, <2>1, Zenon DEF SoFar
    <3>2. Whole(Join(r, d), Join(w, d))
      BY <3>1, WholePlain, Zenon
    <3> QED
      BY <2>1, <3>2, Zenon DEF SoFar
  <2>2. CASE quote = "single"
    <3>1. c # "'" /\ SingleQuoted(r, w)
      BY <1>2, <2>2, Zenon DEF SoFar
    <3>2. SingleQuoted(Join(r, d), Join(w, d))
      BY <3>1, SingleQuotedMore, Zenon
    <3> QED
      BY <2>2, <3>2, Zenon DEF SoFar
  <2>3. CASE quote = "double"
    <3>1. c # "\"" /\ c # "\\" /\ DoubleQuoted(r, w)
      BY <1>2, <2>3, Zenon DEF SoFar
    <3>2. DoubleQuoted(Join(r, d), Join(w, d))
      BY <3>1, DoubleQuotedChar, Zenon
    <3> QED
      BY <2>3, <3>2, Zenon DEF SoFar
  <2> QED
    BY <2>1, <2>2, <2>3, Zenon
<1> HIDE DEF d
<1> QED
  BY <1>1, <1>2, CharacterStep, Zenon DEF d

\* A character behind a backslash.
LEMMA EscapedStep ==
  ASSUME IInv, IInv', ParseInv, NEW c \in Char, c # Nul, c # "\n", Scan(c), Room, Escaped(c)
  PROVE  ParseInv'
<1> DEFINE x == IF c \in {"'", "\"", "\\"} THEN <<c>> ELSE <<"\\", c>>
           s == IF quote = "doubleone" THEN x ELSE <<c>>
<1>1. /\ quote \in {"one", "doubleone"} /\ Put(s)
      /\ quote' = IF quote = "one" THEN "none" ELSE "double"
  BY Zenon DEF Escaped
<1>2. s \in Seq(Char) /\ s # <<>> /\ \A i \in 1..Len(s) : s[i] # Nul
  <2>1. <<c>> \in Seq(Char) /\ Len(<<c>>) = 1 /\ <<c>>[1] = c /\ <<c>> # <<>>
    BY Single, OneChar, Zenon
  <2>2. /\ <<"\\", c>> \in Seq(Char) /\ Len(<<"\\", c>>) = 2
        /\ <<"\\", c>>[1] = "\\" /\ <<"\\", c>>[2] = c /\ <<"\\", c>> # <<>>
    BY Marks, Pair, TwoChars, Zenon
  <2>3. (\A i \in 1..1 : i = 1) /\ \A i \in 1..2 : i = 1 \/ i = 2
    BY FirstOrSecond
  <2>4. "\\" # Nul
    BY CharsApart, Zenon
  <2>5. s = <<c>> \/ s = <<"\\", c>>
    BY Zenon
  <2> HIDE DEF s, x
  <2>6. CASE s = <<c>>
    BY <2>1, <2>3, <2>6, Zenon
  <2>7. CASE s = <<"\\", c>>
    BY <2>2, <2>3, <2>4, <2>7, Zenon
  <2> QED
    BY <2>5, <2>6, <2>7
<1>3. ASSUME NEW r \in Seq(Char), NEW w \in Seq(Char), SoFar(quote, r, w)
      PROVE  SoFar(quote', Join(r, <<c>>), Join(w, s))
  <2>1. CASE quote = "one"
    <3>1. Backslashed(r, w) /\ quote' = "none" /\ s = <<c>>
      BY <1>1, <1>3, <2>1, Zenon DEF SoFar
    <3>2. Whole(Join(r, <<c>>), Join(w, IF c = "\n" THEN <<>> ELSE <<c>>))
      BY <3>1, BackslashedMore, Zenon
    <3>3. (IF c = "\n" THEN <<>> ELSE <<c>>) = s
      BY <3>1, Zenon
    <3> HIDE DEF s
    <3>4. Whole(Join(r, <<c>>), Join(w, s))
      BY <3>2, <3>3, Zenon
    <3> QED
      BY <3>1, <3>4, Zenon DEF SoFar
  <2>2. CASE quote = "doubleone"
    <3>1. BackslashedInDouble(r, w) /\ quote' = "double" /\ s = x
      BY <1>1, <1>3, <2>2, Zenon DEF SoFar
    <3>2. DoubleQuoted(Join(r, <<c>>), Join(w, IF c = "\n" THEN <<>> ELSE x))
      BY <3>1, BackslashedInDoubleMore, Zenon
    <3>3. (IF c = "\n" THEN <<>> ELSE x) = s
      BY <3>1, Zenon
    <3> HIDE DEF s, x
    <3>4. DoubleQuoted(Join(r, <<c>>), Join(w, s))
      BY <3>2, <3>3, Zenon
    <3> QED
      BY <3>1, <3>4, Zenon DEF SoFar
  <2> QED
    BY <1>1, <2>1, <2>2, Zenon
<1> HIDE DEF s
<1> QED
  BY <1>1, <1>2, <1>3, CharacterStep, Zenon

LEMMA SingleQuoteParses == ASSUME IInv, IInv', ParseInv, SingleQuote PROVE ParseInv'
<1> DEFINE c == "'"
<1>1. c \in Char /\ c # Nul /\ c # "\n" /\ c # "\"" /\ c # "\\"
  BY Marks, CharsApart, Zenon
<1>2. Scan(c) /\ Room /\ keep'
  BY Zenon DEF SingleQuote
<1>3. CASE Switch("none", "single")
  <2>1. \A r \in Seq(Char), w \in Seq(Char) : SoFar(quote, r, w) => SoFar(quote', Join(r, <<c>>), w)
    BY <1>3, WholeSingle, Zenon DEF SoFar, Switch
  <2> QED
    BY <1>1, <1>2, <1>3, <2>1, SwitchStep, Zenon DEF Switch
<1>4. CASE Switch("single", "none")
  <2>1. \A r \in Seq(Char), w \in Seq(Char) : SoFar(quote, r, w) => SoFar(quote', Join(r, <<c>>), w)
    BY <1>4, SingleQuotedEnds, Zenon DEF SoFar, Switch
  <2> QED
    BY <1>1, <1>2, <1>4, <2>1, SwitchStep, Zenon DEF Switch
<1>5. CASE Escaped(c)
  BY <1>1, <1>2, <1>5, EscapedStep, Zenon
<1>6. CASE Quoted(c, {"double"})
  <2>1. quote = "double" /\ UNCHANGED quote /\ Put(<<c>>)
    BY <1>6, Zenon DEF Quoted
  <2> QED
    BY <1>1, <1>2, <2>1, QuotedStep, Zenon
<1> QED
  BY <1>3, <1>4, <1>5, <1>6, Zenon DEF SingleQuote

LEMMA DoubleQuoteParses == ASSUME IInv, IInv', ParseInv, DoubleQuote PROVE ParseInv'
<1> DEFINE c == "\""
<1>1. c \in Char /\ c # Nul /\ c # "\n" /\ c # "'" /\ c # "\\"
  BY Marks, CharsApart, Zenon
<1>2. Scan(c) /\ Room /\ keep'
  BY Zenon DEF DoubleQuote
<1>3. CASE Switch("none", "double")
  <2>1. \A r \in Seq(Char), w \in Seq(Char) : SoFar(quote, r, w) => SoFar(quote', Join(r, <<c>>), w)
    BY <1>3, WholeDouble, Zenon DEF SoFar, Switch
  <2> QED
    BY <1>1, <1>2, <1>3, <2>1, SwitchStep, Zenon DEF Switch
<1>4. CASE Switch("double", "none")
  <2>1. \A r \in Seq(Char), w \in Seq(Char) : SoFar(quote, r, w) => SoFar(quote', Join(r, <<c>>), w)
    BY <1>4, DoubleQuotedEnds, Zenon DEF SoFar, Switch
  <2> QED
    BY <1>1, <1>2, <1>4, <2>1, SwitchStep, Zenon DEF Switch
<1>5. CASE Escaped(c)
  BY <1>1, <1>2, <1>5, EscapedStep, Zenon
<1>6. CASE Quoted(c, {"single"})
  <2>1. quote = "single" /\ UNCHANGED quote /\ Put(<<c>>)
    BY <1>6, Zenon DEF Quoted
  <2> QED
    BY <1>1, <1>2, <2>1, QuotedStep, Zenon
<1> QED
  BY <1>3, <1>4, <1>5, <1>6, Zenon DEF DoubleQuote

LEMMA BackslashParses == ASSUME IInv, IInv', ParseInv, Backslash PROVE ParseInv'
<1> DEFINE c == "\\"
<1>1. c \in Char /\ c # Nul /\ c # "\n" /\ c # "'"
  BY Marks, CharsApart, QuotesApart, Zenon
<1>2. Scan(c) /\ Room /\ keep'
  BY Zenon DEF Backslash
<1>3. CASE Switch("none", "one")
  <2>1. \A r \in Seq(Char), w \in Seq(Char) : SoFar(quote, r, w) => SoFar(quote', Join(r, <<c>>), w)
    BY <1>3, WholeBackslash, Zenon DEF SoFar, Switch
  <2> QED
    BY <1>1, <1>2, <1>3, <2>1, SwitchStep, Zenon DEF Switch
<1>4. CASE Switch("double", "doubleone")
  <2>1. \A r \in Seq(Char), w \in Seq(Char) : SoFar(quote, r, w) => SoFar(quote', Join(r, <<c>>), w)
    BY <1>4, DoubleQuotedBackslash, Zenon DEF SoFar, Switch
  <2> QED
    BY <1>1, <1>2, <1>4, <2>1, SwitchStep, Zenon DEF Switch
<1>5. CASE Escaped(c)
  BY <1>1, <1>2, <1>5, EscapedStep, Zenon
<1>6. CASE Quoted(c, {"single"})
  <2>1. quote = "single" /\ UNCHANGED quote /\ Put(<<c>>)
    BY <1>6, Zenon DEF Quoted
  <2> QED
    BY <1>1, <1>2, <2>1, QuotedStep, Zenon
<1> QED
  BY <1>3, <1>4, <1>5, <1>6, Zenon DEF Backslash

LEMMA PlainCharParses ==
  ASSUME IInv, IInv', ParseInv, NEW c \in Plain \cup {Separator}, PlainChar(c)
  PROVE  ParseInv'
<1>1. c \in Char /\ c # Nul /\ c # "\n" /\ c # "'" /\ c # "\"" /\ c # "\\"
  BY PlainApart, CharsApart, Zenon
<1>2. Scan(c) /\ Room
  BY Zenon DEF PlainChar
<1>3. CASE Escaped(c)
  BY <1>1, <1>2, <1>3, EscapedStep, Zenon
<1>4. CASE ~Escaped(c)
  <2>1. /\ Put(<<c>>) /\ UNCHANGED quote
        /\ quote \in IF c = Separator THEN {"single", "double"} ELSE {"none", "single", "double"}
    BY <1>4, Zenon DEF PlainChar, Quoted
  <2>2. quote \in {"none", "single", "double"} /\ (quote = "none" => c \in Plain)
    BY <2>1, Zenon
  <2> QED
    BY <1>1, <1>2, <2>1, <2>2, QuotedStep, Zenon
<1> QED
  BY <1>3, <1>4

LEMMA NewlineParses == ASSUME IInv, IInv', ParseInv, Newline PROVE ParseInv'
<1> DEFINE c == "\n"
<1>1. c \in Char /\ c # Nul /\ c # "'" /\ c # "\"" /\ c # "\\"
  BY Marks, CharsApart, Zenon
<1>2. Scan(c) /\ Room /\ quote # "none" /\ keep' = keep
  BY Zenon DEF Newline
<1>3. CASE Switch("one", "none")
  <2>1. ASSUME NEW r \in Seq(Char), NEW w \in Seq(Char), SoFar(quote, r, w)
        PROVE  SoFar(quote', Join(r, <<c>>), w)
    <3>1. Backslashed(r, w) /\ quote' = "none"
      BY <1>3, <2>1, Zenon DEF SoFar, Switch
    <3>2. Whole(Join(r, <<c>>), Join(w, IF c = "\n" THEN <<>> ELSE <<c>>))
      BY <1>1, <3>1, BackslashedMore, Zenon
    <3>3. (IF c = "\n" THEN <<>> ELSE <<c>>) = <<>> /\ Join(w, <<>>) = w
      BY JoinNothing, Zenon
    <3>4. Whole(Join(r, <<c>>), w)
      BY <3>2, <3>3, Zenon
    <3> QED
      BY <3>1, <3>4, Zenon DEF SoFar
  <2> QED
    BY <1>1, <1>2, <1>3, <2>1, SwitchStep, Zenon DEF Switch
<1>4. CASE Switch("doubleone", "double")
  <2>1. ASSUME NEW r \in Seq(Char), NEW w \in Seq(Char), SoFar(quote, r, w)
        PROVE  SoFar(quote', Join(r, <<c>>), w)
    <3> DEFINE x == IF c \in {"'", "\"", "\\"} THEN <<c>> ELSE <<"\\", c>>
    <3>1. BackslashedInDouble(r, w) /\ quote' = "double"
      BY <1>4, <2>1, Zenon DEF SoFar, Switch
    <3>2. DoubleQuoted(Join(r, <<c>>), Join(w, IF c = "\n" THEN <<>> ELSE x))
      BY <1>1, <3>1, BackslashedInDoubleMore, Zenon
    <3> HIDE DEF x
    <3>3. (IF c = "\n" THEN <<>> ELSE x) = <<>> /\ Join(w, <<>>) = w
      BY JoinNothing, Zenon
    <3>4. DoubleQuoted(Join(r, <<c>>), w)
      BY <3>2, <3>3, Zenon
    <3> QED
      BY <3>1, <3>4, Zenon DEF SoFar
  <2> QED
    BY <1>1, <1>2, <1>4, <2>1, SwitchStep, Zenon DEF Switch
<1>5. CASE Quoted(c, {"single", "double"})
  <2>1. quote \in {"single", "double"} /\ UNCHANGED quote /\ Put(<<c>>)
    BY <1>5, Zenon DEF Quoted
  <2>2. quote \in {"none", "single", "double"}
    BY <2>1
  <2> QED
    BY <1>1, <1>2, <2>1, <2>2, QuotedStep, Zenon
<1> QED
  BY <1>3, <1>4, <1>5, Zenon DEF Newline

LEMMA EndOfWordParses == ASSUME IInv, IInv', ParseInv, EndOfWord PROVE ParseInv'
<1>1. /\ TypeOK /\ TypeOK' /\ Record(Separator) /\ Mark /\ at = "scan" /\ Idle' /\ Finish
      /\ quote = "none" /\ quote' = "none"
  BY RoomIdle DEF IInv, EndOfWord, Scan
<1> DEFINE b == Separator
<1>2. b \in Breaks /\ b \in Char
  BY CharsApart
<1> HIDE DEF b
<1>3. CASE beyond
  BY <1>1, <1>3 DEF ParseInv, Record
<1>4. CASE ~beyond
  <2>1. Parsed /\ WordsEnd /\ CursorHeld
    BY <1>1, <1>4 DEF ParseInv
  <2>2. Record(b)
    BY <1>1 DEF b
  <2>3. Parsed'
    BY <1>1, <1>2, <1>4, <2>1, <2>2, BreakParsed
  <2>4. WordsEnd'
    BY <1>1, <2>1, TextFinished
  <2>5. CursorHeld'
    BY <1>1, <2>1, CursorMarked, CursorFinished
  <2> QED
    BY <1>1, <2>3, <2>4, <2>5 DEF ParseInv
<1> QED
  BY <1>3, <1>4

\* The end of a line that is complete.
LEMMA OkParses ==
  ASSUME IInv, IInv', ParseInv, at = "scan", quote = "none", quote' = "none", Ok, Record("\n")
  PROVE  ParseInv'
<1>1. TypeOK /\ TypeOK' /\ Finish
  BY DEF IInv, Ok
<1>2. "\n" \in Breaks /\ "\n" \in Char
  BY CharsApart, Marks
<1>3. Idle'
  <2>1. ~keep'
    BY DEF Finish, Ok
  <2>2. CASE keep \/ Len(text) # wstart
    <3>1. text' = Append(text, Nul) /\ wstart' = Len(text) + 1 /\ Nul \in Char
      BY <2>2 DEF Finish, Ok, Char
    <3>2. wstart' = Len(text')
      BY <1>1, <3>1, TextAppended DEF TypeOK
    <3> QED
      BY <2>1, <3>2 DEF Idle
  <2>3. CASE ~(keep \/ Len(text) # wstart)
    BY <2>1, <2>3 DEF Idle, Finish, Ok, wordVars
  <2> QED
    BY <2>2, <2>3
<1>4. CASE beyond
  BY <1>3, <1>4 DEF ParseInv, Record
<1>5. CASE ~beyond
  <2>1. Parsed /\ WordsEnd /\ CursorHeld
    BY <1>5 DEF ParseInv
  <2>2. Parsed'
    BY <1>1, <1>2, <1>5, <2>1, BreakParsed
  <2>3. WordsEnd'
    BY <1>1, <2>1, TextFinished
  <2>4. cursor' # NoCursor => Held(cursor', Words, Len(text) - wstart)
    BY <1>1, <2>1, HereHeld DEF Ok, CursorHeld
  <2>5. CursorHeld'
    BY <1>1, <2>1, <2>4, CursorFinished
  <2> QED
    BY <1>3, <2>2, <2>3, <2>5 DEF ParseInv
<1> QED
  BY <1>4, <1>5

LEMMA EndAtNewlineParses == ASSUME IInv, IInv', ParseInv, EndAtNewline PROVE ParseInv'
BY OkParses DEF EndAtNewline

\* What was scanned and what it was made into stay as they are.
LEMMA NothingScanned ==
  ASSUME UNCHANGED <<text, wstart, argv, quote, keep, input>>
  PROVE  (Parsed => Parsed') /\ (WordsEnd => WordsEnd') /\ Words' = Words
<1>1. Words' = Words /\ Word' = Word
  BY WordsAre, WordsArePrimed DEF Word
<1>2. WordsEnd => WordsEnd'
  BY DEF WordsEnd
<1> QED
  BY <1>1, <1>2 DEF Parsed

LEMMA EndOfLineParses == ASSUME IInv, IInv', ParseInv, EndOfLine PROVE ParseInv'
<1>1. CASE quote = "none" /\ Ok /\ quote' = quote /\ Record("\n")
  BY <1>1, OkParses DEF EndOfLine
<1>2. CASE /\ result' \in {1, 2, 3} /\ at' = "caller"
           /\ UNCHANGED <<wordVars, quote, keep, cursor, auxVars>>
  <2>1. /\ text' = text /\ wstart' = wstart /\ argv' = argv /\ quote' = quote /\ keep' = keep
        /\ input' = input /\ beyond' = beyond /\ result' # 0 /\ at' = "caller"
    BY <1>2 DEF wordVars, auxVars
  <2>2. (Parsed => Parsed') /\ (WordsEnd => WordsEnd')
    BY <2>1, NothingScanned
  <2> QED
    BY <2>1, <2>2 DEF ParseInv, Idle
<1> QED
  BY <1>1, <1>2 DEF EndOfLine

LEMMA EndQuotedParses == ASSUME EndQuoted PROVE ParseInv'
<1>1. beyond' /\ Idle'
  BY RoomIdle DEF EndQuoted
<1> QED
  BY <1>1 DEF ParseInv

LEMMA CallParses == ASSUME IInv, ParseInv, Call PROVE ParseInv'
<1>1. /\ text' = text /\ wstart' = wstart /\ argv' = argv /\ quote' = quote /\ keep' = keep
      /\ input' = input /\ beyond' = beyond /\ at' = "scan" /\ cursor' = NoCursor
  BY DEF Call, wordVars, stateVars, auxVars
<1>2. (Parsed => Parsed') /\ (WordsEnd => WordsEnd') /\ Words' = Words
  BY <1>1, NothingScanned
<1> QED
  BY <1>1, <1>2 DEF ParseInv, Idle, CursorHeld

\* Nothing was scanned.
LEMMA NothingParsed ==
  LET e == <<>> IN
    /\ Spells(e, WordsIn(e, e), "none", FALSE, Rest(e, 0))
    /\ \A i \in 1..Len(e) : Ended(e, e[i], 0)
    /\ \A j \in (0 + 1)..Len(e) : e[j] # Nul
<1> DEFINE e == <<>>
<1>1. WordsIn(e, e) = e
  BY DEF WordsIn
<1>2. e \in Sentence(e)
  BY SentenceNothing
<1>3. e \in Seq(Char) /\ Len(e) = 0
  BY EmptySeq
<1>4. Rest(e, 0) = e
  <2> DEFINE b == 0
  <2>1. b \in 0..Len(e) /\ Len(e) - b = 0
    BY <1>3
  <2> HIDE DEF e, b
  <2>2. Rest(e, b) \in Seq(Char) /\ Len(Rest(e, b)) = 0
    BY <1>3, <2>1, RestProperties
  <2>3. Rest(e, b) = e
    BY <2>2, EmptySeq DEF e
  <2> QED
    BY <2>3 DEF b
<1>5. SoFar("none", e, e)
  BY NothingSpelt, Zenon DEF SoFar
<1>6. Join(e, e) = e
  BY <1>3, JoinNothing
<1>7. (\A i \in 1..Len(e) : Ended(e, e[i], 0)) /\ \A j \in (0 + 1)..Len(e) : e[j] # Nul
  OBVIOUS
<1> HIDE DEF e
<1>8. Spells(e, e, "none", FALSE, e)
  BY <1>2, <1>3, <1>5, <1>6, Zenon DEF Spells, e
<1>9. Spells(e, WordsIn(e, e), "none", FALSE, Rest(e, 0))
  BY <1>1, <1>4, <1>8, Zenon
<1> QED
  BY <1>7, <1>9 DEF e

LEMMA InitParses == Init => ParseInv
<1> SUFFICES ASSUME Init PROVE ParseInv
  OBVIOUS
<1>1. text = <<>> /\ wstart = 0 /\ argv = <<>> /\ quote = "none" /\ keep = FALSE /\ input = <<>>
  BY DEF Init
<1>2. Parsed
  BY <1>1, NothingParsed, WordsAre, Zenon DEF Parsed, Word
<1>3. WordsEnd
  BY <1>1, NothingParsed, Zenon DEF WordsEnd
<1>4. Idle
  BY <1>1 DEF Idle
<1> QED
  BY <1>2, <1>3, <1>4 DEF Init, ParseInv

LEMMA ResetParses == ASSUME Reset PROVE ParseInv'
<1>1. text' = <<>> /\ wstart' = 0 /\ argv' = <<>> /\ quote' = "none" /\ keep' = FALSE /\ input' = <<>>
  BY DEF Reset
<1>2. Parsed'
  BY <1>1, NothingParsed, WordsArePrimed, Zenon DEF Parsed, Word
<1>3. WordsEnd'
  BY <1>1, NothingParsed, Zenon DEF WordsEnd
<1>4. Idle'
  BY <1>1 DEF Idle
<1>5. at' = "caller" /\ input' = <<>>
  BY DEF Reset
<1> QED
  BY <1>2, <1>3, <1>4, <1>5 DEF ParseInv

LEMMA StepParses == IInv /\ IInv' /\ ParseInv /\ [Next]_vars => ParseInv'
<1> SUFFICES ASSUME IInv, IInv', ParseInv, [Next]_vars PROVE ParseInv'
  OBVIOUS
<1>1. CASE UNCHANGED vars
  <2>1. UNCHANGED <<text, wstart, argv, quote, keep, input, beyond, at, result, cursor>>
    BY <1>1 DEF vars, wordVars, stateVars, auxVars
  <2>2. (Parsed => Parsed') /\ (WordsEnd => WordsEnd') /\ Words' = Words
    BY <2>1, NothingScanned
  <2> QED
    BY <2>1, <2>2 DEF ParseInv, Idle, CursorHeld
<1>2. CASE Next
  BY <1>2, CallParses, ResetParses, SingleQuoteParses, DoubleQuoteParses, BackslashParses,
     PlainCharParses, EndOfWordParses, NewlineParses, EndAtNewlineParses, EndOfLineParses,
     EndQuotedParses DEF Next
<1> QED
  BY <1>1, <1>2

PInv == IInv /\ ParseInv

LEMMA PInvAlways == Spec => []PInv
<1>1. Init => PInv
  BY InitKeeps, InitParses DEF PInv
<1>2. PInv /\ [Next]_vars => PInv'
  BY StepKeeps, StepParses DEF PInv
<1> QED
  BY <1>1, <1>2, PTL DEF Spec

\* Whatever is scanned, in however many lines, and whatever the buffers did
\* meanwhile, the words that tok_line returns are those the input spells.
THEOREM WordsAlwaysSpelt == Spec => []WordsSpelt
<1>1. PInv => WordsSpelt
  <2> SUFFICES ASSUME IInv, ParseInv, at = "caller", result = 0, ~beyond PROVE Words \in Sentence(input)
    BY DEF WordsSpelt, PInv
  <2>1. ~keep /\ Word = <<>>
    BY NoWord DEF ParseInv, Idle, IInv
  <2>2. PICK s \in Seq(Char), r \in Seq(Char) :
          input = Join(s, r) /\ Words \in Sentence(s) /\ (r = <<>> <=> (~keep /\ Word = <<>>))
    BY DEF ParseInv, Parsed, Spells
  <2>3. r = <<>>
    BY <2>1, <2>2
  <2>4. Join(s, <<>>) = s
    BY JoinNothing
  <2> QED
    BY <2>2, <2>3, <2>4
<1> QED
  BY PInvAlways, <1>1, PTL

\* The place tok_line reports for the cursor is one in a word, or behind the
\* last one.
THEOREM CursorAlwaysInWord == Spec => []CursorInWord
<1>1. PInv => CursorInWord
  <2> SUFFICES ASSUME IInv, ParseInv, at = "caller", result = 0, ~beyond, cursor # NoCursor, input # <<>>
               PROVE  \/ cursor.word \in 0..(Len(argv) - 1) /\ cursor.offset \in 0..Len(Words[cursor.word + 1])
                      \/ cursor = [word |-> Len(argv), offset |-> 0]
    BY DEF CursorInWord, PInv
  <2>1. wstart = Len(text) /\ CursorHeld /\ WordsEnd /\ TypeOK
    BY DEF ParseInv, Idle, IInv
  <2>2. Len(Words) = Len(argv) /\ Len(text) - wstart = 0
    BY <2>1, WordsType, WordIs
  <2>3. Held(cursor, Words, 0)
    BY <2>1, <2>2 DEF CursorHeld
  <2>4. CASE cursor.word = Len(argv) /\ cursor.offset \in 0..0
    <3>1. cursor \in [word : Int, offset : Int] /\ cursor.offset = 0
      BY <2>1, <2>4 DEF TypeOK
    <3> QED
      BY <2>4, <3>1
  <2> QED
    BY <2>2, <2>3, <2>4 DEF Held
<1> QED
  BY PInvAlways, <1>1, PTL
===============================================================================
