---------------------------- MODULE LineEditProofs ----------------------------
(***************************************************************************)
(* What holds of the line and its buffers for every text, every argument   *)
(* and all sizes: the buffers hold the line, the cursor stays in it, what  *)
(* is erased is kept, no code point is cut in half and no letter is lost.  *)
(*                                                                         *)
(* LineTextProofs says what places the loops over words and graphemes come *)
(* to.  Here follow the loops over lines and the growth of the buffers,    *)
(* one lemma for each command, about all of the texts at once, and         *)
(* StepKeeps, from which the theorems follow.                              *)
(***************************************************************************)
EXTENDS LineEdit, LineTextProofs, FiniteSetTheorems, TLAPS

-------------------------------------------------------------------------------
(* Lines of the text.                                                      *)

\* b is the k-th of a set, by key.
IsNth(S, key, k, b) == b \in S /\ Cardinality({c \in S : key[c] <= key[b]}) = k

\* A finite set has an element for each rank up to its size.
LEMMA NthExists ==
  ASSUME NEW S, IsFiniteSet(S), NEW key, key \in [S -> Nat],
         \A x, y \in S : key[x] = key[y] => x = y,
         NEW n \in 1..Cardinality(S)
  PROVE  \E b : IsNth(S, key, n, b)
<1> DEFINE First(L, k) == L \subseteq S /\ Cardinality(L) = k /\ \A x \in L, y \in S \ L : key[x] < key[y]
           Good(k) == \E L : First(L, k)
           Bad == {k \in 0..n : ~Good(k)}
<1>0. Cardinality(S) \in Nat /\ n \in Nat \ {0} /\ n <= Cardinality(S)
  BY FS_CardinalityType
<1>1. Good(0)
  <2>1. First({}, 0)
    BY FS_EmptySet
  <2> QED
    BY <2>1
<1>2. ASSUME NEW k \in 0..(n - 1), NEW L, First(L, k)
      PROVE  \E b \in S \ L : First(L \cup {b}, k + 1) /\ IsNth(S, key, k + 1, b)
  <2>1. IsFiniteSet(L) /\ L \subseteq S /\ Cardinality(L) = k
    BY <1>2, FS_Subset
  <2>2. S \ L # {}
    BY <1>0, <2>1
  <2> DEFINE K == {key[x] : x \in S \ L}
  <2>3. K \subseteq Nat /\ K # {}
    BY <2>2
  <2>4. PICK e \in K : \A f \in K : e <= f
    BY <2>3, LeastNumber
  <2>5. PICK b \in S \ L : e = key[b]
    OBVIOUS
  <2>6. \A y \in S \ L : key[b] <= key[y]
    BY <2>4, <2>5
  <2> HIDE DEF K
  <2>7. Cardinality(L \cup {b}) = k + 1
    BY <2>1, <2>5, FS_AddElement
  <2>8. ASSUME NEW x \in L \cup {b}, NEW y \in S \ (L \cup {b}) PROVE key[x] < key[y]
    <3>1. key[b] <= key[y] /\ key[b] # key[y]
      BY <2>5, <2>6
    <3>2. key[b] \in Nat /\ key[y] \in Nat
      BY <2>5
    <3>3. x \in L => key[x] < key[y]
      BY <1>2
    <3> QED
      BY <3>1, <3>2, <3>3
  <2>9. {c \in S : key[c] <= key[b]} = L \cup {b}
    <3>1. ASSUME NEW c \in S, key[c] <= key[b] PROVE c \in L \cup {b}
      <4>1. key[b] <= key[c] \/ c \in L
        BY <2>6
      <4>2. key[b] \in Nat /\ key[c] \in Nat
        BY <2>5
      <4> QED
        BY <2>5, <3>1, <4>1, <4>2
    <3>2. ASSUME NEW c \in L \cup {b} PROVE c \in S /\ key[c] <= key[b]
      <4>1. c \in L => key[c] < key[b]
        BY <1>2, <2>5
      <4>2. c \in S /\ key[b] \in Nat /\ key[c] \in Nat
        BY <2>1, <2>5
      <4> QED
        BY <4>1, <4>2
    <3> QED
      BY <3>1, <3>2
  <2>10. First(L \cup {b}, k + 1)
    BY <2>1, <2>5, <2>7, <2>8
  <2>11. IsNth(S, key, k + 1, b)
    BY <2>5, <2>7, <2>9 DEF IsNth
  <2> QED
    BY <2>5, <2>10, <2>11
<1> HIDE DEF First
<1>3. Bad = {}
  <2> SUFFICES ASSUME Bad # {} PROVE FALSE
    OBVIOUS
  <2>1. Bad \subseteq Nat /\ \A k \in 0..n : k \in Bad <=> ~Good(k)
    OBVIOUS
  <2>2. \A k \in Bad : k \in 0..n
    OBVIOUS
  <2> HIDE DEF Bad
  <2>3. PICK e \in Bad : \A f \in Bad : e <= f
    BY <2>1, LeastNumber
  <2>4. e \in 0..n /\ e # 0 /\ ~Good(e)
    BY <1>1, <2>1, <2>2
  <2>5. e - 1 \in 0..n /\ e - 1 \notin Bad /\ e - 1 \in 0..(n - 1) /\ (e - 1) + 1 = e
    BY <1>0, <2>3, <2>4
  <2>6. PICK L : First(L, e - 1)
    BY <2>1, <2>5
  <2>7. PICK b \in S \ L : First(L \cup {b}, (e - 1) + 1)
    BY <1>2, <2>5, <2>6
  <2> QED
    BY <2>4, <2>5, <2>7
<1>4. n - 1 \in 0..n /\ n - 1 \in 0..(n - 1) /\ (n - 1) + 1 = n
  BY <1>0
<1>5. PICK L : First(L, n - 1)
  BY <1>3, <1>4
<1>6. PICK b \in S \ L : IsNth(S, key, (n - 1) + 1, b)
  BY <1>2, <1>4, <1>5
<1> QED
  BY <1>4, <1>6

LEMMA BreaksAreNumbers ==
  ASSUME NEW p \in Nat, NEW q \in Nat
  PROVE  Breaks(p, q) \subseteq p..(q - 1) /\ Breaks(p, q) \subseteq Nat /\ IsFiniteSet(Breaks(p, q))
<1>1. Breaks(p, q) \subseteq p..(q - 1)
  BY DEF Breaks
<1>2. IsFiniteSet(p..(q - 1))
  BY FS_Interval
<1>3. IsFiniteSet(Breaks(p, q))
  BY <1>1, <1>2, FS_Subset
<1>4. p..(q - 1) \subseteq Nat
  OBVIOUS
<1> QED
  BY <1>1, <1>3, <1>4

LEMMA NthBreakBelow ==
  ASSUME NEW p \in Nat, NEW q \in Nat, NEW n \in 1..Cardinality(Breaks(p, q))
  PROVE  \E b \in Breaks(p, q) : Cardinality({c \in Breaks(p, q) : c <= b}) = n
<1> DEFINE S == Breaks(p, q)
           key == [x \in S |-> x]
<1>1. S \subseteq Nat /\ IsFiniteSet(S)
  BY BreaksAreNumbers
<1>2. n \in 1..Cardinality(S)
  OBVIOUS
<1> HIDE DEF S
<1>3. key \in [S -> Nat] /\ \A x \in S : key[x] = x
  BY <1>1
<1> HIDE DEF key
<1>4. PICK b : IsNth(S, key, n, b)
  BY <1>1, <1>2, <1>3, NthExists
<1>5. b \in S /\ Cardinality({c \in S : key[c] <= key[b]}) = n
  BY <1>4 DEF IsNth
<1>6. {c \in S : key[c] <= key[b]} = {c \in S : c <= b}
  BY <1>3, <1>5
<1> QED
  BY <1>5, <1>6 DEF S

LEMMA NthBreakAbove ==
  ASSUME NEW p \in Nat, NEW q \in Nat, NEW n \in 1..Cardinality(Breaks(p, q))
  PROVE  \E b \in Breaks(p, q) : Cardinality({c \in Breaks(p, q) : c >= b}) = n
<1> DEFINE S == Breaks(p, q)
           key == [x \in S |-> q - x]
<1>1. S \subseteq Nat /\ IsFiniteSet(S) /\ S \subseteq p..(q - 1)
  BY BreaksAreNumbers
<1>2. n \in 1..Cardinality(S)
  OBVIOUS
<1> HIDE DEF S
<1>3. key \in [S -> Nat] /\ \A x \in S : key[x] = q - x
  <2>1. \A x \in S : q - x \in Nat
    BY <1>1
  <2> QED
    BY <2>1
<1> HIDE DEF key
<1>4. \A x, y \in S : (key[x] = key[y] => x = y) /\ (key[x] <= key[y] <=> x >= y)
  <2> SUFFICES ASSUME NEW x \in S, NEW y \in S
               PROVE  (key[x] = key[y] => x = y) /\ (key[x] <= key[y] <=> x >= y)
    OBVIOUS
  <2>1. x \in Nat /\ y \in Nat /\ key[x] = q - x /\ key[y] = q - y
    BY <1>1, <1>3
  <2> QED
    BY <2>1
<1>5. PICK b : IsNth(S, key, n, b)
  BY <1>1, <1>2, <1>3, <1>4, NthExists
<1>6. b \in S /\ Cardinality({c \in S : key[c] <= key[b]}) = n
  BY <1>5 DEF IsNth
<1>7. {c \in S : key[c] <= key[b]} = {c \in S : c >= b}
  BY <1>4, <1>6
<1> QED
  BY <1>6, <1>7 DEF S

LEMMA LineStartIsBefore ==
  ASSUME line \in Text, NEW p \in 0..Len(line)
  PROVE  LineStart(p) \in 0..p
<1>0. Len(line) \in Nat /\ p \in Nat
  BY TextLen
<1> DEFINE q == SkipBack(line, p, Char \ {Break})
<1>1. /\ q \in 0..p /\ (q = 0 \/ At(line, q - 1) \notin Char \ {Break})
      /\ \A i \in q..(p - 1) : At(line, i) \in Char \ {Break}
  BY SkipBackStops
<1> HIDE DEF q
<1>2. Breaks(q, p) = {}
  BY <1>1 DEF Breaks
<1>3. q = 0 \/ At(line, q - 1) = Break
  <2>1. q # 0 => q - 1 \in Nat
    BY <1>1
  <2> QED
    BY <1>1, <2>1, AtIsChar
<1>4. \E s \in 0..p : Breaks(s, p) = {} /\ (s = 0 \/ At(line, s - 1) = Break)
  BY <1>1, <1>2, <1>3
<1> QED
  BY <1>4, Zenon DEF LineStart

LEMMA AcrossStays ==
  ASSUME line \in Text, NEW s \in 0..Len(line), NEW n
  PROVE  Across(s, n) \in s..Len(line)
<1>0. Len(line) \in Nat /\ s \in Nat
  BY TextLen
<1> DEFINE Ends == {i \in s..Len(line) : i = s + n \/ i = Len(line) \/ At(line, i) = Break}
<1>1. Ends \subseteq Nat /\ Len(line) \in Ends
  BY <1>0
<1>2. \E e \in Ends : \A f \in Ends : e <= f
  BY <1>1, LeastNumber
<1>3. Across(s, n) \in Ends
  BY <1>2, Zenon DEF Across
<1> QED
  BY <1>3

-------------------------------------------------------------------------------
(* Room.                                                                   *)

TextsTyped ==
  /\ line \in Text /\ kill \in Text
  /\ lead \in BOOLEAN
  /\ mark \in Nat /\ limit \in Nat
  /\ size \in [Buffers -> Nat]

\* The cut buffer and the mark may be as large as any line was.
AllFit ==
  /\ Len(line) < limit /\ Len(kill) < limit /\ mark < limit
  /\ \A b \in Buffers : limit + EL_LEAVE <= size[b]

IInv ==
  /\ TextsTyped /\ AllFit
  /\ lead => cursor \in 0..Len(line)

Doubles(d, n, g) == g = [k \in 0..n |-> IF k = 0 THEN d ELSE 2 * g[k - 1]]

LEMMA DoublesGrow ==
  ASSUME NEW d \in Nat \ {0}, NEW n \in Nat, NEW g, Doubles(d, n, g), NEW k \in 0..n
  PROVE  g[k] \in Nat /\ g[k] >= d + k
<1> DEFINE S == {j \in 0..n : g[j] \in Nat /\ g[j] >= d + j}
           h == [j \in 0..k |-> j]
<1>1. \A j \in 0..n : g[j] = IF j = 0 THEN d ELSE 2 * g[j - 1]
  BY DEF Doubles
<1>2. 0 \in S
  BY <1>1
<1>3. ASSUME NEW j \in 1..k, j - 1 \in S PROVE j \in S
  <2>1. g[j - 1] \in Nat /\ g[j - 1] >= d + (j - 1) /\ j \in 0..n /\ j # 0
    BY <1>3
  <2>2. g[j] = 2 * g[j - 1]
    BY <1>1, <2>1
  <2> QED
    BY <2>1, <2>2
<1> HIDE DEF S
<1>4. h[0] \in S /\ \A j \in 1..k : h[j - 1] \in S => h[j] \in S
  BY <1>2, <1>3
<1>5. h[k] = k
  OBVIOUS
<1> HIDE DEF h
<1>6. h[k] \in S
  BY <1>4, k \in Nat, LoopStays
<1> QED
  BY <1>5, <1>6 DEF S

LEMMA DoublesExist ==
  ASSUME NEW d \in Nat, NEW n \in Nat
  PROVE  \E g : Doubles(d, n, g)
<1> DEFINE F == [x \in Nat |-> 2 * x]
<1>1. F \in [Nat -> Nat] /\ \A x \in Nat : F[x] = 2 * x
  OBVIOUS
<1> HIDE DEF F
<1>2. PICK f : Loops(Nat, F, d, n, f)
  BY <1>1, LoopExists
<1>3. \A k \in 0..n : f[k] = IF k = 0 THEN d ELSE 2 * f[k - 1]
  <2>1. \A k \in 1..n : k - 1 \in 0..n
    OBVIOUS
  <2>2. \A k \in 1..n : f[k - 1] \in Nat /\ f[k] = F[f[k - 1]]
    BY <1>2, <2>1 DEF Loops
  <2>3. \A k \in 1..n : f[k] = 2 * f[k - 1]
    BY <1>1, <2>2
  <2>4. f[0] = d /\ \A k \in 0..n : k # 0 => k \in 1..n
    BY <1>2 DEF Loops
  <2> QED
    BY <2>3, <2>4
<1>4. Doubles(d, n, f)
  BY <1>2, <1>3 DEF Doubles, Loops
<1> QED
  BY <1>4

LEMMA NewSizeHolds ==
  ASSUME limit \in Nat, NEW add \in Nat
  PROVE  /\ NewSize(add) \in Nat
         /\ NewSize(add) >= 2 * (limit + EL_LEAVE)
         /\ NewSize(add) >= limit + EL_LEAVE + add
<1> DEFINE old == limit + EL_LEAVE
           c == CHOOSE g : Doubles(2 * old, add, g)
           k == CHOOSE k \in 0..add : /\ c[k] - old >= add
                                      /\ \A j \in 0..(k - 1) : c[j] - old < add
<1>1. old \in Nat /\ 2 * old \in Nat \ {0}
  BY DEF EL_LEAVE
<1>2. NewSize(add) = IF add <= old THEN 2 * old ELSE c[k]
  BY Zenon DEF NewSize, Doubles
<1> HIDE DEF old
<1>3. Doubles(2 * old, add, c)
  <2>1. \E g : Doubles(2 * old, add, g)
    BY <1>1, DoublesExist
  <2> QED
    BY <2>1
<1> HIDE DEF c
<1>4. \A j \in 0..add : c[j] \in Nat /\ c[j] >= 2 * old + j
  BY <1>1, <1>3, DoublesGrow
<1>5. k \in 0..add /\ c[k] - old >= add
  <2> DEFINE Enough == {j \in 0..add : c[j] - old >= add}
  <2>1. add \in Enough /\ Enough \subseteq Nat
    BY <1>1, <1>4
  <2>2. PICK e \in Enough : \A f \in Enough : e <= f
    BY <2>1, LeastNumber
  <2>3. e \in 0..add /\ c[e] - old >= add
    OBVIOUS
  <2>4. ASSUME NEW j \in 0..(e - 1) PROVE c[j] - old < add
    <3>1. j \in 0..add /\ ~(e <= j)
      BY <2>3
    <3>2. ~(c[j] - old >= add)
      BY <2>2, <3>1
    <3>3. c[j] \in Nat
      BY <1>4, <3>1
    <3> QED
      BY <1>1, <3>2, <3>3
  <2>5. \E i \in 0..add : c[i] - old >= add /\ \A j \in 0..(i - 1) : c[j] - old < add
    BY <2>3, <2>4
  <2> QED
    BY <2>5, Zenon
<1> HIDE DEF k
<1>6. c[k] \in Nat /\ c[k] >= 2 * old
  BY <1>1, <1>4, <1>5
<1>7. NewSize(add) \in Nat /\ NewSize(add) >= 2 * old /\ NewSize(add) >= old + add
  BY <1>1, <1>2, <1>5, <1>6
<1> QED
  BY <1>7 DEF old

\* Whatever grew, each buffer holds the limit, and the limit is never less.
SizesKept ==
  /\ limit' \in Nat /\ limit <= limit'
  /\ size' \in [Buffers -> Nat]
  /\ \A b \in Buffers : limit' + EL_LEAVE <= size'[b]

LEMMA GrowKeepsSizes ==
  ASSUME IInv, NEW add \in Nat, NEW ok \in BOOLEAN, Grow(add, ok)
  PROVE  SizesKept /\ (ok => limit + add <= limit')
<1> DEFINE new == NewSize(add)
<1>1. limit \in Nat /\ size \in [Buffers -> Nat] /\ \A b \in Buffers : limit + EL_LEAVE <= size[b]
  BY DEF IInv, TextsTyped, AllFit
<1>2. new \in Nat /\ new >= 2 * (limit + EL_LEAVE) /\ new >= limit + EL_LEAVE + add
  BY <1>1, NewSizeHolds
<1>3. PICK grown : /\ ok => grown = Buffers
                   /\ size' = [b \in Buffers |-> IF b \in grown THEN new ELSE size[b]]
                   /\ limit' = IF ok THEN new - EL_LEAVE ELSE limit
  BY DEF Grow
<1> HIDE DEF new
<1>4. size' \in [Buffers -> Nat]
  BY <1>1, <1>2, <1>3
<1>5. \A b \in Buffers : size'[b] = IF b \in grown THEN new ELSE size[b]
  BY <1>3
<1>6. CASE ok
  <2>1. limit' = new - 2 /\ new - 2 \in Nat /\ limit + add <= new - 2
    BY <1>1, <1>2, <1>3, <1>6 DEF EL_LEAVE
  <2>2. \A b \in Buffers : size'[b] = new
    BY <1>3, <1>5, <1>6
  <2> QED
    BY <1>1, <1>2, <1>4, <2>1, <2>2 DEF SizesKept, EL_LEAVE
<1>7. CASE ~ok
  <2>1. limit' = limit
    BY <1>3, <1>7
  <2>2. limit + EL_LEAVE <= new
    BY <1>1, <1>2 DEF EL_LEAVE
  <2>3. \A b \in Buffers : limit + EL_LEAVE <= size'[b]
    BY <1>1, <1>5, <2>2
  <2> QED
    BY <1>1, <1>4, <1>7, <2>1, <2>3 DEF SizesKept
<1> QED
  BY <1>6, <1>7

LEMMA RoomKeepsSizes ==
  ASSUME IInv, NEW add \in Nat, NEW ok \in BOOLEAN, Room(add, ok)
  PROVE  SizesKept /\ (ok => Len(line) + add < limit')
<1>1. /\ limit \in Nat /\ size \in [Buffers -> Nat] /\ \A b \in Buffers : limit + EL_LEAVE <= size[b]
      /\ Len(line) \in Nat /\ Len(line) < limit
  BY TextLen DEF IInv, TextsTyped, AllFit
<1>2. CASE Len(line) + add < limit /\ ok /\ UNCHANGED sizeVars
  BY <1>1, <1>2 DEF SizesKept, sizeVars
<1>3. CASE Grow(add, ok)
  <2>1. SizesKept /\ (ok => limit + add <= limit')
    BY <1>3, GrowKeepsSizes
  <2>2. limit' \in Nat
    BY <2>1 DEF SizesKept
  <2> QED
    BY <1>1, <2>1, <2>2
<1> QED
  BY <1>2, <1>3 DEF Room

-------------------------------------------------------------------------------
(* Each command and call keeps the invariant, and all but those that       *)
(* CursorStays names leave the cursor in the line.                         *)

InLine == cursor' \in 0..Len(line')

\* What an edit without a change of size has to keep.
TextsKept ==
  /\ line' \in Text /\ Len(line') <= Len(line)
  /\ kill' \in Text /\ Len(kill') < limit

LEMMA InvHolds ==
  ASSUME IInv
  PROVE  /\ line \in Text /\ kill \in Text /\ Len(line) \in Nat /\ Len(kill) \in Nat
         /\ limit \in Nat /\ mark \in Nat /\ Len(line) < limit /\ Len(kill) < limit /\ mark < limit
BY TextLen DEF IInv, TextsTyped, AllFit

LEMMA CommandHolds ==
  ASSUME IInv, Command
  PROVE  cursor \in 0..Len(line) /\ cursor \in Nat /\ ~lead /\ Whole(line) /\ cursor <= Len(line)
<1>1. Len(line) \in Nat
  BY InvHolds
<1> QED
  BY <1>1 DEF Command

LEMMA EditsKeep ==
  ASSUME IInv, Edits, TextsKept
  PROVE  IInv'
<1>1. ~lead /\ UNCHANGED <<mark, lead, limit, size>>
  BY DEF Edits, Command, sizeVars
<1>2. Len(line') \in Nat /\ Len(line) \in Nat /\ limit \in Nat /\ Len(line) < limit
  BY InvHolds, TextLen DEF TextsKept
<1>3. TextsTyped'
  BY <1>1 DEF IInv, TextsTyped, TextsKept
<1>4. AllFit'
  BY <1>1, <1>2 DEF IInv, AllFit, TextsKept
<1> QED
  BY <1>1, <1>3, <1>4 DEF IInv

LEMMA MovesKeep ==
  ASSUME IInv, Moves
  PROVE  IInv' /\ (cursor' \in 0..Len(line) => InLine)
<1>1. Edits /\ line' = line /\ kill' = kill
  BY DEF Moves
<1>2. TextsKept
  BY <1>1, InvHolds DEF TextsKept
<1> QED
  BY <1>1, <1>2, EditsKeep DEF InLine

\* Places of steps on and back, as numbers.
LEMMA StepsOn ==
  ASSUME IInv, Command, NEW n \in Nat
  PROVE  /\ NextGraphemes(line, cursor, n) \in cursor..Len(line)
         /\ NextWord(line, cursor, n) \in cursor..Len(line)
         /\ PrevGraphemes(line, cursor, n) \in 0..cursor
         /\ PrevWord(line, cursor, n) \in 0..cursor
<1>1. line \in Text /\ cursor \in 0..Len(line)
  BY InvHolds, CommandHolds
<1>2. NextGraphemes(line, cursor, n) \in Behind(line, cursor)
  BY <1>1, NextGraphemesStay
<1>3. NextWord(line, cursor, n) \in Behind(line, cursor)
  BY <1>1, NextWordStays
<1>4. PrevGraphemes(line, cursor, n) \in Ahead(line, cursor)
  BY <1>1, PrevGraphemesStay
<1>5. PrevWord(line, cursor, n) \in Ahead(line, cursor)
  BY <1>1, PrevWordStays
<1> QED
  BY <1>2, <1>3, <1>4, <1>5 DEF Behind, Ahead

LEMMA MovingKeeps ==
  ASSUME IInv, NEW n \in Nat,
         \/ MoveToEnd \/ MoveToBeg \/ NextChar(n) \/ PrevChar(n)
         \/ NextWordMove(n) \/ PrevWordMove(n)
  PROVE  IInv' /\ InLine
<1>1. Moves /\ Command
  BY DEF MoveToEnd, MoveToBeg, NextChar, PrevChar, NextWordMove, PrevWordMove, Moves, Edits
<1>2. Len(line) \in Nat /\ cursor \in Nat /\ cursor <= Len(line)
  BY <1>1, InvHolds, CommandHolds
<1>3. cursor' \in 0..Len(line)
  <2>1. \A x \in cursor..Len(line) : x \in 0..Len(line)
    BY <1>2
  <2>2. \A x \in 0..cursor : x \in 0..Len(line)
    BY <1>2
  <2>3. /\ NextGraphemes(line, cursor, n) \in 0..Len(line)
        /\ NextWord(line, cursor, n) \in 0..Len(line)
        /\ PrevGraphemes(line, cursor, n) \in 0..Len(line)
        /\ PrevWord(line, cursor, n) \in 0..Len(line)
    BY <1>1, <2>1, <2>2, StepsOn
  <2>4. 0 \in 0..Len(line) /\ Len(line) \in 0..Len(line)
    BY <1>2
  <2> QED
    BY <2>3, <2>4 DEF MoveToEnd, MoveToBeg, NextChar, PrevChar, NextWordMove, PrevWordMove
<1> QED
  BY <1>1, <1>3, MovesKeep

LEMMA MoveByKeeps ==
  ASSUME IInv, NEW n \in Int, MoveBy(n)
  PROVE  IInv' /\ InLine
<1>1. Moves /\ Command
  BY DEF MoveBy, Moves, Edits
<1>2. Len(line) \in Nat /\ cursor \in Nat /\ cursor <= Len(line)
  BY <1>1, InvHolds, CommandHolds
<1>3. cursor' \in 0..Len(line)
  BY <1>2 DEF MoveBy
<1> QED
  BY <1>1, <1>3, MovesKeep

LEMMA PrevLineKeeps ==
  ASSUME IInv, NEW n \in Nat, PrevLine(n)
  PROVE  IInv' /\ (n # 0 => InLine)
<1>1. Moves /\ Command
  BY DEF PrevLine, Moves, Edits
<1>2. line \in Text /\ Len(line) \in Nat /\ cursor \in Nat /\ cursor <= Len(line)
  BY <1>1, InvHolds, CommandHolds
<1>3. ASSUME n # 0 PROVE cursor' \in 0..Len(line)
  <2> DEFINE breaks == Breaks(0, cursor)
             nth == CHOOSE b \in breaks : Cardinality({c \in breaks : c >= b}) = n
  <2>1. Cardinality(breaks) >= n /\ cursor' = Across(LineStart(nth), Column)
    BY <1>3, Zenon DEF PrevLine
  <2>2. IsFiniteSet(breaks) /\ breaks \subseteq 0..(cursor - 1)
    BY <1>2, BreaksAreNumbers
  <2>3. n \in 1..Cardinality(breaks)
    BY <1>3, <2>1, <2>2, FS_CardinalityType
  <2>4. nth \in breaks
    <3>1. \E b \in breaks : Cardinality({c \in breaks : c >= b}) = n
      BY <1>2, <2>3, NthBreakAbove
    <3> QED
      BY <3>1, Zenon
  <2>5. nth \in 0..Len(line) /\ nth \in Nat /\ nth <= Len(line)
    BY <1>2, <2>2, <2>4
  <2> HIDE DEF nth
  <2>6. LineStart(nth) \in 0..nth
    BY <1>2, <2>5, LineStartIsBefore
  <2>7. LineStart(nth) \in 0..Len(line)
    BY <1>2, <2>5, <2>6
  <2>8. Across(LineStart(nth), Column) \in LineStart(nth)..Len(line)
    BY <1>2, <2>7, AcrossStays
  <2> QED
    BY <1>2, <2>1, <2>7, <2>8
<1> QED
  BY <1>1, <1>3, MovesKeep

LEMMA NextLineKeeps ==
  ASSUME IInv, NEW n \in Nat, NextLine(n)
  PROVE  IInv' /\ (n # 0 => InLine)
<1>1. Moves /\ Command
  BY DEF NextLine, Moves, Edits
<1>2. line \in Text /\ Len(line) \in Nat /\ cursor \in Nat /\ cursor <= Len(line)
  BY <1>1, InvHolds, CommandHolds
<1>3. ASSUME n # 0 PROVE cursor' \in 0..Len(line)
  <2> DEFINE breaks == Breaks(cursor, Len(line))
             nth == CHOOSE b \in breaks : Cardinality({c \in breaks : c <= b}) = n
  <2>1. Cardinality(breaks) >= n /\ cursor' = Across(nth + 1, Column)
    BY <1>3, Zenon DEF NextLine
  <2>2. IsFiniteSet(breaks) /\ breaks \subseteq cursor..(Len(line) - 1)
    BY <1>2, BreaksAreNumbers
  <2>3. n \in 1..Cardinality(breaks)
    BY <1>3, <2>1, <2>2, FS_CardinalityType
  <2>4. nth \in breaks
    <3>1. \E b \in breaks : Cardinality({c \in breaks : c <= b}) = n
      BY <1>2, <2>3, NthBreakBelow
    <3> QED
      BY <3>1, Zenon
  <2>5. nth + 1 \in 0..Len(line)
    BY <1>2, <2>2, <2>4
  <2> HIDE DEF nth
  <2>6. Across(nth + 1, Column) \in (nth + 1)..Len(line)
    BY <1>2, <2>5, AcrossStays
  <2> QED
    BY <1>2, <2>1, <2>5, <2>6
<1> QED
  BY <1>1, <1>3, MovesKeep

-------------------------------------------------------------------------------
(* Erasing.                                                                *)
PutsBack == cursor' <= Len(line') /\ line = Inserted(line', cursor', kill')

LEMMA CutKeeps ==
  ASSUME IInv, Edits, NEW q \in 0..Len(line), NEW p \in 0..q, Cut(p, q)
  PROVE  IInv' /\ InLine /\ PutsBack
<1>0. line \in Text /\ Len(line) \in Nat /\ limit \in Nat /\ Len(line) < limit
  BY InvHolds
<1>1. cursor' = p /\ line' = Without(line, p, q) /\ kill' = From(line, p, q)
  BY DEF Cut
<1>2. p \in Nat /\ q \in Nat /\ p <= q /\ q <= Len(line)
  BY <1>0
<1>3. line' \in Text /\ Len(line') = Len(line) - (q - p)
  BY <1>0, <1>1, WithoutIsText
<1>4. kill' \in Text /\ Len(kill') = q - p
  BY <1>0, <1>1, <1>2, FromIsText
<1>5. TextsKept
  <2>1. Len(line) - (q - p) <= Len(line) /\ q - p < limit
    BY <1>0, <1>2
  <2> QED
    BY <1>3, <1>4, <2>1 DEF TextsKept
<1>6. cursor' \in 0..Len(line') /\ cursor' <= Len(line')
  BY <1>0, <1>1, <1>2, <1>3
<1>7. line = Inserted(line', cursor', kill')
  BY <1>0, <1>1, CutGoesBack
<1> QED
  BY <1>5, <1>6, <1>7, EditsKeep DEF InLine, PutsBack

LEMMA CuttingKeeps ==
  ASSUME IInv, NEW n \in Nat,
         \/ DeleteNextChar(n) \/ DeleteOrList(n) \/ DeletePrevChar(n)
         \/ DeletePrevWord(n) \/ DeleteNextWord(n) \/ DeleteStr(n)
         \/ KillLine \/ KillWholeLine \/ KillRegion
  PROVE  IInv' /\ InLine /\ PutsBack
<1>1. Edits /\ Command
  BY DEF DeleteNextChar, DeleteOrList, DeletePrevChar, DeletePrevWord, DeleteNextWord, DeleteStr,
         KillLine, KillWholeLine, KillRegion, Edits
<1>2. Len(line) \in Nat /\ cursor \in Nat /\ cursor <= Len(line) /\ mark \in Nat
  BY <1>1, InvHolds, CommandHolds
<1>3. \E q \in 0..Len(line) : \E p \in 0..q : Cut(p, q)
  <2>1. CASE DeleteNextChar(n) \/ DeleteOrList(n)
    <3> DEFINE q == NextGraphemes(line, cursor, n)
    <3>1. Cut(cursor, q)
      BY <2>1 DEF DeleteNextChar, DeleteOrList
    <3>2. q \in cursor..Len(line)
      BY <1>1, StepsOn
    <3> HIDE DEF q
    <3>3. q \in 0..Len(line) /\ cursor \in 0..q
      BY <1>2, <3>2
    <3> QED
      BY <3>1, <3>3
  <2>2. CASE DeletePrevChar(n)
    <3> DEFINE p == PrevGraphemes(line, cursor, n)
    <3>1. Cut(p, cursor)
      BY <2>2 DEF DeletePrevChar
    <3>2. p \in 0..cursor
      BY <1>1, StepsOn
    <3> HIDE DEF p
    <3>3. cursor \in 0..Len(line)
      BY <1>2
    <3> QED
      BY <3>1, <3>2, <3>3
  <2>3. CASE DeletePrevWord(n)
    <3> DEFINE p == PrevWord(line, cursor, n)
    <3>1. Cut(p, cursor)
      BY <2>3 DEF DeletePrevWord
    <3>2. p \in 0..cursor
      BY <1>1, StepsOn
    <3> HIDE DEF p
    <3>3. cursor \in 0..Len(line)
      BY <1>2
    <3> QED
      BY <3>1, <3>2, <3>3
  <2>4. CASE DeleteNextWord(n)
    <3> DEFINE q == NextWord(line, cursor, n)
    <3>1. Cut(cursor, q)
      BY <2>4 DEF DeleteNextWord
    <3>2. q \in cursor..Len(line)
      BY <1>1, StepsOn
    <3> HIDE DEF q
    <3>3. q \in 0..Len(line) /\ cursor \in 0..q
      BY <1>2, <3>2
    <3> QED
      BY <3>1, <3>3
  <2>5. CASE DeleteStr(n)
    <3>1. Cut(cursor - n, cursor) /\ n <= cursor
      BY <2>5 DEF DeleteStr
    <3>2. cursor \in 0..Len(line) /\ cursor - n \in 0..cursor
      BY <1>2, <3>1
    <3> QED
      BY <3>1, <3>2
  <2>6. CASE KillLine
    <3>1. Cut(cursor, Len(line)) /\ Len(line) \in 0..Len(line) /\ cursor \in 0..Len(line)
      BY <1>2, <2>6 DEF KillLine
    <3> QED
      BY <3>1
  <2>7. CASE KillWholeLine
    <3>1. Cut(0, Len(line)) /\ Len(line) \in 0..Len(line) /\ 0 \in 0..Len(line)
      BY <1>2, <2>7 DEF KillWholeLine
    <3> QED
      BY <3>1
  <2>8. CASE KillRegion
    <3> DEFINE q == IF mark < Len(line) THEN mark ELSE Len(line)
    <3>1. CASE mark > cursor
      <4>1. Cut(cursor, q)
        BY <2>8, <3>1 DEF KillRegion
      <4>2. q \in 0..Len(line) /\ cursor \in 0..q
        BY <1>2, <3>1
      <4> HIDE DEF q
      <4> QED
        BY <4>1, <4>2
    <3>2. CASE ~(mark > cursor)
      <4>1. Cut(mark, cursor)
        BY <2>8, <3>2 DEF KillRegion
      <4>2. cursor \in 0..Len(line) /\ mark \in 0..cursor
        BY <1>2, <3>2
      <4> QED
        BY <4>1, <4>2
    <3> QED
      BY <3>1, <3>2
  <2> QED
    BY <2>1, <2>2, <2>3, <2>4, <2>5, <2>6, <2>7, <2>8
<1>4. PICK q \in 0..Len(line) : \E p \in 0..q : Cut(p, q)
  BY <1>3
<1>5. PICK p \in 0..q : Cut(p, q)
  BY <1>4
<1> QED
  BY <1>1, <1>5, CutKeeps

LEMMA EdDeletePrevCharKeeps ==
  ASSUME IInv, NEW n \in Nat, EdDeletePrevChar(n)
  PROVE  /\ IInv' /\ InLine
         /\ n = 0 => Len(line) <= Len(line')
         /\ n = 1 => PutsBack
<1>1. Edits /\ Command
  BY DEF EdDeletePrevChar, Edits
<1>2. /\ line \in Text /\ Len(line) \in Nat /\ cursor \in Nat /\ cursor <= Len(line)
      /\ kill \in Text /\ limit \in Nat /\ Len(kill) < limit /\ Len(line) < limit
  BY <1>1, InvHolds, CommandHolds
<1> DEFINE p == PrevGraphemes(line, cursor, n)
           e == IF NextGrapheme(line, p) < cursor THEN NextGrapheme(line, p) ELSE cursor
<1>3. cursor' = p /\ line' = Without(line, p, cursor) /\ kill' = IF n = 0 THEN kill ELSE From(line, p, e)
  BY DEF EdDeletePrevChar, Grapheme
<1>4. p \in 0..cursor /\ (n = 0 => p = cursor) /\ (n = 1 => p = PrevGrapheme(line, cursor))
  BY <1>1, <1>2, StepsOn, PrevGraphemesStay
<1>5. n = 1 => NextGrapheme(line, p) >= cursor
  <2>1. NextGrapheme(line, PrevGrapheme(line, cursor)) >= cursor
    BY <1>2, PrevGraphemeStays
  <2> QED
    BY <1>4, <2>1
<1> HIDE DEF p
<1>6. p \in Nat /\ p <= cursor /\ p \in 0..Len(line) /\ cursor \in 0..Len(line)
  BY <1>2, <1>4
<1>7. NextGrapheme(line, p) \in p..Len(line)
  BY <1>2, <1>6, NextGraphemeStays
<1>8. e \in Nat /\ p <= e /\ e <= cursor
  BY <1>2, <1>6, <1>7
<1>9. n = 1 => e = cursor
  BY <1>2, <1>5, <1>6, <1>7
<1> HIDE DEF e
<1>10. line' \in Text /\ Len(line') = Len(line) - (cursor - p)
  <2>1. Without(line, p, cursor) \in Text /\ Len(Without(line, p, cursor)) = Len(line) - (cursor - p)
    BY <1>2, <1>4, <1>6, WithoutIsText
  <2> QED
    BY <1>3, <2>1
<1>11. kill' \in Text /\ Len(kill') < limit
  <2>1. From(line, p, e) \in Text /\ Len(From(line, p, e)) = e - p
    BY <1>2, <1>6, <1>8, FromIsText
  <2>2. e - p < limit
    BY <1>2, <1>6, <1>8
  <2> QED
    BY <1>2, <1>3, <2>1, <2>2
<1>12. TextsKept
  BY <1>2, <1>6, <1>10, <1>11 DEF TextsKept
<1>13. cursor' \in 0..Len(line') /\ cursor' <= Len(line')
  BY <1>2, <1>3, <1>6, <1>10
<1>14. n = 1 => line = Inserted(line', cursor', kill')
  <2> SUFFICES ASSUME n = 1 PROVE line = Inserted(line', cursor', kill')
    OBVIOUS
  <2>1. kill' = From(line, p, cursor)
    BY <1>3, <1>9
  <2>2. line = Inserted(Without(line, p, cursor), p, From(line, p, cursor))
    BY <1>2, <1>4, <1>6, CutGoesBack
  <2> QED
    BY <1>3, <2>1, <2>2
<1>15. n = 0 => Len(line) <= Len(line')
  BY <1>2, <1>4, <1>6, <1>10
<1> QED
  BY <1>1, <1>12, <1>13, <1>14, <1>15, EditsKeep DEF InLine, PutsBack

-------------------------------------------------------------------------------
(* Typing and what else makes the line longer.                             *)

NotShorter == Len(line) <= Len(line')

LEMMA LongerKeeps ==
  ASSUME IInv, SizesKept, line' \in Text, Len(line') < limit', kill' = kill,
         mark' \in Nat, mark' < limit', lead' \in BOOLEAN, lead' => InLine
  PROVE  IInv'
<1>1. Len(kill) \in Nat /\ limit \in Nat /\ Len(kill) < limit /\ kill \in Text
  BY InvHolds
<1>2. TextsTyped'
  BY <1>1 DEF TextsTyped, SizesKept
<1>3. AllFit'
  <2>1. Len(kill) < limit'
    BY <1>1 DEF SizesKept
  <2> QED
    BY <2>1 DEF AllFit, SizesKept
<1> QED
  BY <1>2, <1>3 DEF IInv, InLine

LEMMA SameSizes ==
  ASSUME IInv, UNCHANGED sizeVars
  PROVE  SizesKept /\ limit' = limit
BY DEF IInv, TextsTyped, AllFit, SizesKept, sizeVars

LEMMA InsertKeeps ==
  ASSUME IInv, NEW c \in Char, NEW n \in Nat, cursor \in 0..Len(line), Insert(c, n)
  PROVE  SizesKept /\ line' \in Text /\ Len(line') < limit' /\ InLine /\ NotShorter
<1>0. line \in Text /\ Len(line) \in Nat /\ limit \in Nat /\ Len(line) < limit
  BY InvHolds
<1>1. PICK ok \in BOOLEAN :
        /\ Room(n, ok)
        /\ IF ~ok THEN UNCHANGED textVars
           ELSE /\ cursor' = cursor + n
                /\ line' = IF mode = "insert" \/ cursor = Len(line) \/ n # 1
                           THEN Inserted(line, cursor, Repeat(c, n))
                           ELSE Over(line, cursor, <<c>>)
  BY DEF Insert
<1>2. SizesKept /\ (ok => Len(line) + n < limit')
  BY <1>1, RoomKeepsSizes
<1>3. limit' \in Nat /\ limit <= limit'
  BY <1>2 DEF SizesKept
<1>4. CASE ~ok
  <2>1. line' = line /\ cursor' = cursor
    BY <1>1, <1>4 DEF textVars
  <2> QED
    BY <1>0, <1>2, <1>3, <2>1 DEF InLine, NotShorter
<1>5. CASE ok /\ (mode = "insert" \/ cursor = Len(line) \/ n # 1)
  <2>1. Repeat(c, n) \in Text /\ Len(Repeat(c, n)) = n
    BY RepeatIsText
  <2>2. line' = Inserted(line, cursor, Repeat(c, n)) /\ cursor' = cursor + n
    BY <1>1, <1>5
  <2>3. line' \in Text /\ Len(line') = Len(line) + n
    BY <1>0, <2>1, <2>2, InsertedLength
  <2> QED
    BY <1>0, <1>2, <1>3, <1>5, <2>2, <2>3 DEF InLine, NotShorter
<1>6. CASE ok /\ ~(mode = "insert" \/ cursor = Len(line) \/ n # 1)
  <2>1. <<c>> \in Text
    <3>1. <<c>> \in Seq(Char)
      OBVIOUS
    <3> QED
      BY <3>1 DEF Text
  <2>2. line' = Over(line, cursor, <<c>>) /\ cursor' = cursor + n /\ n = 1 /\ cursor # Len(line)
    BY <1>1, <1>6
  <2>3. line' \in Text /\ Len(line') = Len(line)
    BY <1>0, <2>1, <2>2, OverIsText
  <2> QED
    BY <1>0, <1>2, <1>3, <1>6, <2>2, <2>3 DEF InLine, NotShorter
<1> QED
  BY <1>4, <1>5, <1>6

LEMMA TypingKeeps ==
  ASSUME IInv, NEW n \in Nat, NEW c \in Char, Type(c, n) \/ TypeTrail
  PROVE  IInv' /\ InLine /\ NotShorter
<1>1. cursor \in 0..Len(line)
  BY CommandHolds DEF Type, TypeTrail, IInv
<1>2. PICK d \in Char, m \in Nat : Insert(d, m)
  <2>1. TypeTrail => Insert(Trail, 1) /\ Trail \in Char
    BY CharsAreApart DEF TypeTrail
  <2> QED
    BY <2>1 DEF Type
<1>3. SizesKept /\ line' \in Text /\ Len(line') < limit' /\ InLine /\ NotShorter
  BY <1>1, <1>2, InsertKeeps
<1>4. kill' = kill /\ mark' = mark /\ lead' \in BOOLEAN
  BY DEF Type, TypeTrail, killVars
<1>5. mark' \in Nat /\ mark' < limit'
  BY <1>3, <1>4, InvHolds DEF SizesKept
<1> QED
  BY <1>3, <1>4, <1>5, LongerKeeps

LEMMA ToggleKeeps ==
  ASSUME IInv, ToggleOverwrite
  PROVE  IInv' /\ InLine /\ NotShorter
<1>1. cursor \in 0..Len(line) /\ ~lead /\ Len(line) \in Nat
  BY CommandHolds, InvHolds DEF ToggleOverwrite
<1>2. UNCHANGED <<line, cursor, kill, mark, lead, limit, size>>
  BY DEF ToggleOverwrite, textVars, killVars, sizeVars
<1>3. TextsTyped' /\ AllFit'
  BY <1>2 DEF IInv, TextsTyped, AllFit
<1> QED
  BY <1>1, <1>2, <1>3 DEF IInv, InLine, NotShorter

LEMMA InsertStrKeeps ==
  ASSUME IInv, NEW s \in Text, InsertStr(s)
  PROVE  IInv' /\ InLine /\ NotShorter
<1>0. /\ line \in Text /\ Len(line) \in Nat /\ limit \in Nat /\ Len(line) < limit
      /\ cursor \in 0..Len(line) /\ Len(s) \in Nat /\ mark \in Nat /\ mark < limit
  BY InvHolds, CommandHolds, TextLen DEF InsertStr
<1>1. PICK ok \in BOOLEAN :
        /\ Room(Len(s), ok)
        /\ IF ok THEN line' = Inserted(line, cursor, s) /\ cursor' = cursor + Len(s)
           ELSE UNCHANGED textVars
  BY DEF InsertStr
<1>2. SizesKept /\ (ok => Len(line) + Len(s) < limit')
  BY <1>0, <1>1, RoomKeepsSizes
<1>3. limit' \in Nat /\ limit <= limit'
  BY <1>2 DEF SizesKept
<1>4. line' \in Text /\ Len(line') < limit' /\ InLine /\ NotShorter
  <2>1. CASE ~ok
    <3>1. line' = line /\ cursor' = cursor
      BY <1>1, <2>1 DEF textVars
    <3> QED
      BY <1>0, <1>3, <3>1 DEF InLine, NotShorter
  <2>2. CASE ok
    <3>1. line' = Inserted(line, cursor, s) /\ cursor' = cursor + Len(s)
      BY <1>1, <2>2
    <3>2. line' \in Text /\ Len(line') = Len(line) + Len(s)
      BY <1>0, <3>1, InsertedLength
    <3> QED
      BY <1>0, <1>2, <1>3, <2>2, <3>1, <3>2 DEF InLine, NotShorter
  <2> QED
    BY <2>1, <2>2
<1>5. kill' = kill /\ mark' = mark /\ lead' \in BOOLEAN
  BY DEF InsertStr, killVars, IInv, TextsTyped
<1>6. mark' \in Nat /\ mark' < limit'
  BY <1>0, <1>3, <1>5
<1> QED
  BY <1>2, <1>4, <1>5, <1>6, LongerKeeps

LEMMA ReplaceStrKeeps ==
  ASSUME IInv, NEW s \in Text, ReplaceStr(s)
  PROVE  IInv' /\ InLine
<1>0. /\ line \in Text /\ Len(line) \in Nat /\ limit \in Nat /\ Len(line) < limit
      /\ cursor \in 0..Len(line) /\ Len(s) \in Nat /\ mark \in Nat /\ mark < limit
  BY InvHolds, CommandHolds, TextLen DEF ReplaceStr
<1>1. PICK ok \in BOOLEAN :
        /\ IF Len(s) < limit THEN ok /\ UNCHANGED sizeVars ELSE Grow(Len(s), ok)
        /\ IF ok THEN line' = s /\ cursor' = (IF cursor > Len(s) THEN Len(s) ELSE cursor)
           ELSE UNCHANGED textVars
  BY DEF ReplaceStr
<1>2. SizesKept /\ (ok => Len(s) < limit')
  <2>1. CASE Len(s) < limit
    <3>1. UNCHANGED sizeVars
      BY <1>1, <2>1
    <3> QED
      BY <2>1, <3>1, SameSizes
  <2>2. CASE ~(Len(s) < limit)
    <3>1. SizesKept /\ (ok => limit + Len(s) <= limit')
      BY <1>0, <1>1, <2>2, GrowKeepsSizes
    <3>2. limit' \in Nat
      BY <3>1 DEF SizesKept
    <3>3. limit > 0
      BY <1>0
    <3> QED
      BY <1>0, <3>1, <3>2, <3>3
  <2> QED
    BY <2>1, <2>2
<1>3. limit' \in Nat /\ limit <= limit'
  BY <1>2 DEF SizesKept
<1>4. line' \in Text /\ Len(line') < limit' /\ InLine
  <2>1. CASE ~ok
    <3>1. line' = line /\ cursor' = cursor
      BY <1>1, <2>1 DEF textVars
    <3> QED
      BY <1>0, <1>3, <3>1 DEF InLine
  <2>2. CASE ok
    <3>1. line' = s /\ cursor' = (IF cursor > Len(s) THEN Len(s) ELSE cursor)
      BY <1>1, <2>2
    <3> QED
      BY <1>0, <1>2, <2>2, <3>1 DEF InLine
  <2> QED
    BY <2>1, <2>2
<1>5. kill' = kill /\ mark' = mark /\ lead' \in BOOLEAN
  BY DEF ReplaceStr, killVars, IInv, TextsTyped
<1>6. mark' \in Nat /\ mark' < limit'
  BY <1>0, <1>3, <1>5
<1> QED
  BY <1>2, <1>4, <1>5, <1>6, LongerKeeps

LEMMA YankKeeps ==
  ASSUME IInv, NEW n \in Nat, Yank(n)
  PROVE  IInv' /\ InLine /\ NotShorter
<1>0. /\ line \in Text /\ Len(line) \in Nat /\ limit \in Nat /\ Len(line) < limit
      /\ cursor \in 0..Len(line) /\ kill \in Text /\ Len(kill) \in Nat
  BY InvHolds, CommandHolds DEF Yank
<1>1. /\ UNCHANGED <<kill, lead, sizeVars>> /\ Len(line) + Len(kill) < limit
      /\ line' = Inserted(line, cursor, kill) /\ mark' = cursor
      /\ cursor' = IF n = 1 THEN cursor + Len(kill) ELSE cursor
  BY DEF Yank
<1>2. SizesKept /\ limit' = limit
  BY <1>1, SameSizes
<1>3. line' \in Text /\ Len(line') = Len(line) + Len(kill)
  BY <1>0, <1>1, InsertedIsText
<1>4. Len(line') < limit' /\ InLine /\ NotShorter /\ mark' \in Nat /\ mark' < limit'
  BY <1>0, <1>1, <1>2, <1>3 DEF InLine, NotShorter
<1>5. lead' \in BOOLEAN /\ kill' = kill
  BY <1>1 DEF IInv, TextsTyped
<1> QED
  BY <1>2, <1>3, <1>4, <1>5, LongerKeeps

LEMMA CopyPrevWordKeeps ==
  ASSUME IInv, NEW n \in Nat, CopyPrevWord(n)
  PROVE  IInv' /\ InLine /\ NotShorter
<1>0. /\ line \in Text /\ Len(line) \in Nat /\ limit \in Nat /\ Len(line) < limit
      /\ cursor \in 0..Len(line) /\ cursor \in Nat /\ mark \in Nat /\ mark < limit
  BY InvHolds, CommandHolds DEF CopyPrevWord
<1> DEFINE word == From(line, PrevWord(line, cursor, n), cursor)
           gap == From(line, cursor, cursor + Len(word))
<1>1. word \in Text /\ Len(word) \in Nat
  <2> DEFINE p == PrevWord(line, cursor, n)
  <2>1. p \in 0..cursor
    BY StepsOn DEF CopyPrevWord
  <2> HIDE DEF p
  <2>2. p \in Nat /\ p <= cursor
    BY <1>0, <2>1
  <2>3. From(line, p, cursor) \in Text
    BY <1>0, <2>2, FromIsText
  <2> QED
    BY <2>3, TextLen DEF p
<1>2. UNCHANGED <<kill, mark, lead>>
  BY DEF CopyPrevWord, killVars
<1>3. PICK ok \in BOOLEAN :
        LET text == IF ok THEN Inserted(line, cursor, gap) ELSE line
            fits == cursor + Len(word) <= Len(text)
        IN /\ Room(Len(word), ok)
           /\ \/ /\ line' = Over(text, cursor, word)
                 /\ cursor' = IF fits THEN cursor + Len(word) ELSE Len(text)
              \/ /\ line' = text /\ UNCHANGED cursor
              \/ /\ line' = Over(text, cursor, Repeat(Old, Len(text) - cursor))
                 /\ cursor' = Len(text)
  BY DEF CopyPrevWord
<1> HIDE DEF word
<1>4. gap \in Text /\ Len(gap) = Len(word)
  <2> DEFINE q == cursor + Len(word)
  <2>1. q \in Nat /\ cursor <= q /\ q - cursor = Len(word)
    BY <1>0, <1>1
  <2> HIDE DEF q
  <2>2. From(line, cursor, q) \in Text /\ Len(From(line, cursor, q)) = Len(word)
    BY <1>0, <2>1, FromIsText
  <2> QED
    BY <2>2 DEF q
<1> HIDE DEF gap
<1>5. SizesKept /\ (ok => Len(line) + Len(word) < limit')
  BY <1>1, <1>3, RoomKeepsSizes
<1>6. limit' \in Nat /\ limit <= limit'
  BY <1>5 DEF SizesKept
<1> DEFINE text == IF ok THEN Inserted(line, cursor, gap) ELSE line
<1>7. text \in Text /\ Len(text) \in Nat /\ Len(text) < limit' /\ Len(line) <= Len(text)
  <2>1. CASE ok
    <3>1. Inserted(line, cursor, gap) \in Text /\ Len(Inserted(line, cursor, gap)) = Len(line) + Len(word)
      BY <1>0, <1>4, InsertedLength
    <3> QED
      BY <1>0, <1>1, <1>5, <2>1, <3>1
  <2>2. CASE ~ok
    BY <1>0, <1>6, <2>2
  <2> QED
    BY <2>1, <2>2
<1>8. \/ /\ line' = Over(text, cursor, word)
         /\ cursor' = IF cursor + Len(word) <= Len(text) THEN cursor + Len(word) ELSE Len(text)
      \/ line' = text /\ cursor' = cursor
      \/ /\ line' = Over(text, cursor, Repeat(Old, Len(text) - cursor))
         /\ cursor' = Len(text)
  BY <1>3
<1> HIDE DEF text
<1>9. line' \in Text /\ Len(line') = Len(text)
  <2>1. Len(text) - cursor \in Nat
    BY <1>0, <1>7
  <2>2. Repeat(Old, Len(text) - cursor) \in Text
    BY <2>1, RepeatIsText, CharsAreApart
  <2>3. Over(text, cursor, word) \in Text /\ Len(Over(text, cursor, word)) = Len(text)
    BY <1>0, <1>1, <1>7, OverIsText
  <2>4. /\ Over(text, cursor, Repeat(Old, Len(text) - cursor)) \in Text
        /\ Len(Over(text, cursor, Repeat(Old, Len(text) - cursor))) = Len(text)
    BY <1>0, <1>7, <2>2, OverIsText
  <2> QED
    BY <1>7, <1>8, <2>3, <2>4
<1>10. InLine
  <2>1. cursor' \in 0..Len(text)
    BY <1>0, <1>1, <1>7, <1>8
  <2> QED
    BY <1>9, <2>1 DEF InLine
<1>11. Len(line') < limit' /\ NotShorter
  BY <1>7, <1>9 DEF NotShorter
<1>12. lead' \in BOOLEAN /\ kill' = kill /\ mark' \in Nat /\ mark' < limit'
  BY <1>0, <1>2, <1>6 DEF IInv, TextsTyped
<1> QED
  BY <1>5, <1>9, <1>10, <1>11, <1>12, LongerKeeps

-------------------------------------------------------------------------------
(* The mark, changing, and what an application erases.                     *)

LEMMA MarkingKeeps ==
  ASSUME IInv, SetMark \/ ExchangeMark \/ CopyRegion
  PROVE  IInv' /\ NotShorter /\ (InLine \/ cursor' = mark)
<1>0. /\ line \in Text /\ Len(line) \in Nat /\ limit \in Nat /\ Len(line) < limit
      /\ cursor \in 0..Len(line) /\ cursor \in Nat /\ ~lead /\ mark \in Nat /\ mark < limit /\ cursor < limit
      /\ kill \in Text /\ Len(kill) < limit
  <2>1. Command
    BY DEF SetMark, ExchangeMark, CopyRegion, Edits
  <2>2. /\ line \in Text /\ Len(line) \in Nat /\ limit \in Nat /\ Len(line) < limit
        /\ cursor \in 0..Len(line) /\ cursor \in Nat /\ ~lead /\ mark \in Nat /\ mark < limit
        /\ kill \in Text /\ Len(kill) < limit
    BY <2>1, InvHolds, CommandHolds
  <2> QED
    BY <2>2
<1>1. UNCHANGED <<line, lead, limit, size>> /\ mark' \in {mark, cursor} /\ cursor' \in {cursor, mark}
  BY DEF SetMark, ExchangeMark, CopyRegion, Edits, textVars, sizeVars
<1>2. kill' \in Text /\ Len(kill') < limit
  <2>1. CASE SetMark \/ ExchangeMark
    BY <1>0, <2>1 DEF SetMark, ExchangeMark
  <2>2. CASE CopyRegion
    <3>1. kill' = IF mark > cursor THEN From(line, cursor, mark) ELSE From(line, mark, cursor)
      BY <2>2 DEF CopyRegion
    <3>2. CASE mark > cursor
      <4>0. line \in Text /\ cursor \in Nat /\ mark \in Nat /\ cursor <= mark
        BY <1>0, <3>2
      <4>1. From(line, cursor, mark) \in Text /\ Len(From(line, cursor, mark)) = mark - cursor
        BY <4>0, FromIsText
      <4>2. kill' = From(line, cursor, mark)
        BY <3>1, <3>2
      <4>3. mark - cursor < limit
        BY <1>0
      <4> QED
        BY <4>1, <4>2, <4>3
    <3>3. CASE ~(mark > cursor)
      <4>0. line \in Text /\ cursor \in Nat /\ mark \in Nat /\ mark <= cursor
        BY <1>0, <3>3
      <4>1. From(line, mark, cursor) \in Text /\ Len(From(line, mark, cursor)) = cursor - mark
        BY <4>0, FromIsText
      <4>2. kill' = From(line, mark, cursor)
        BY <3>1, <3>3
      <4>3. cursor - mark < limit
        BY <1>0
      <4> QED
        BY <4>1, <4>2, <4>3
    <3> QED
      BY <3>2, <3>3
  <2> QED
    BY <2>1, <2>2
<1>3. TextsTyped'
  BY <1>0, <1>1, <1>2 DEF IInv, TextsTyped
<1>4. AllFit'
  BY <1>0, <1>1, <1>2 DEF IInv, AllFit
<1>5. NotShorter /\ (InLine \/ cursor' = mark)
  BY <1>0, <1>1 DEF NotShorter, InLine
<1> QED
  BY <1>0, <1>1, <1>3, <1>4, <1>5 DEF IInv

LEMMA SwappedIsText ==
  ASSUME line \in Text, NEW p \in 2..Len(line)
  PROVE  /\ Swapped(p) \in Text /\ Len(Swapped(p)) = Len(line)
         /\ \A i \in 1..Len(line) : Swapped(p)[i] = IF i = p THEN line[p - 1]
                                                    ELSE IF i = p - 1 THEN line[p] ELSE line[i]
<1>1. Len(line) \in Nat /\ line \in [1..Len(line) -> Char] /\ p \in Nat
  BY TextLen
<1>2. p \in 1..Len(line) /\ p - 1 \in 1..Len(line) /\ p # p - 1
  BY <1>1
<1>3. Swapped(p) \in [1..Len(line) -> Char]
  BY <1>1, <1>2 DEF Swapped
<1>4. \A i \in 1..Len(line) : Swapped(p)[i] = IF i = p THEN line[p - 1]
                                              ELSE IF i = p - 1 THEN line[p] ELSE line[i]
  BY <1>1, <1>2 DEF Swapped
<1> QED
  BY <1>1, <1>3, <1>4, IsText

LEMMA TransposingKeeps ==
  ASSUME IInv, TransposeChars \/ GosmacsTranspose
  PROVE  IInv' /\ InLine /\ NotShorter
<1>1. Edits /\ Command /\ kill' = kill
  BY DEF TransposeChars, GosmacsTranspose, Edits
<1>2. /\ line \in Text /\ Len(line) \in Nat /\ cursor \in Nat /\ cursor <= Len(line)
      /\ kill \in Text /\ Len(kill) < limit
  BY <1>1, InvHolds, CommandHolds
<1>3. cursor' \in 0..Len(line) /\ line' = IF cursor' > 1 THEN Swapped(cursor') ELSE line
  BY <1>2 DEF TransposeChars, GosmacsTranspose
<1>4. line' \in Text /\ Len(line') = Len(line)
  <2>1. CASE cursor' > 1
    <3>1. cursor' \in 2..Len(line)
      BY <1>2, <1>3, <2>1
    <3> QED
      BY <1>2, <1>3, <2>1, <3>1, SwappedIsText
  <2>2. CASE ~(cursor' > 1)
    BY <1>2, <1>3, <2>2
  <2> QED
    BY <2>1, <2>2
<1>5. TextsKept /\ InLine /\ NotShorter
  BY <1>1, <1>2, <1>3, <1>4 DEF TextsKept, InLine, NotShorter
<1> QED
  BY <1>1, <1>5, EditsKeep

LEMMA FoldedIsText ==
  ASSUME NEW s \in Text
  PROVE  /\ Upcased(s) \in Text /\ Len(Upcased(s)) = Len(s)
         /\ Downcased(s) \in Text /\ Len(Downcased(s)) = Len(s)
         /\ Capitalised(s) \in Text /\ Len(Capitalised(s)) = Len(s)
<1>1. Len(s) \in Nat /\ s \in [1..Len(s) -> Char]
  BY TextLen
<1>2. Lower \subseteq Char /\ Upper \subseteq Char /\ Up \in [Lower -> Upper] /\ Down \in [Upper -> Lower]
  BY CaseAssumption DEF Char
<1>3. Upcased(s) \in [1..Len(s) -> Char]
  BY <1>1, <1>2 DEF Upcased
<1>4. Downcased(s) \in [1..Len(s) -> Char]
  BY <1>1, <1>2 DEF Downcased
<1>5. Capitalised(s) \in [1..Len(s) -> Char]
  BY <1>3, <1>4 DEF Capitalised
<1> QED
  BY <1>1, <1>3, <1>4, <1>5, IsText

\* The case commands put one of three texts over the word.
Fold(s) == {Upcased(s), Downcased(s), Capitalised(s)}

FoldsTo(n) ==
  /\ Edits /\ kill' = kill
  /\ cursor' = NextWord(line, cursor, n)
  /\ \E t \in Fold(From(line, cursor, cursor')) : line' = Over(line, cursor, t)

LEMMA CaseCommands ==
  ASSUME NEW n, UpperCase(n) \/ LowerCase(n) \/ CapitolCase(n)
  PROVE  FoldsTo(n)
BY DEF UpperCase, LowerCase, CapitolCase, FoldsTo, Fold

LEMMA FoldingKeeps ==
  ASSUME IInv, NEW n \in Nat, UpperCase(n) \/ LowerCase(n) \/ CapitolCase(n)
  PROVE  IInv' /\ InLine /\ NotShorter
<1>1. FoldsTo(n) /\ Edits /\ Command
  BY CaseCommands DEF FoldsTo, Edits
<1>2. /\ line \in Text /\ Len(line) \in Nat /\ cursor \in Nat /\ cursor <= Len(line)
      /\ kill \in Text /\ Len(kill) < limit
  BY <1>1, InvHolds, CommandHolds
<1> DEFINE e == NextWord(line, cursor, n)
<1>3. e \in cursor..Len(line)
  BY <1>1, StepsOn
<1>4. cursor' = e /\ \E t \in Fold(From(line, cursor, e)) : line' = Over(line, cursor, t)
  BY <1>1 DEF FoldsTo
<1> HIDE DEF e
<1>5. e \in Nat /\ cursor <= e /\ e <= Len(line)
  BY <1>2, <1>3
<1>6. From(line, cursor, e) \in Text
  BY <1>2, <1>5, FromIsText
<1>7. PICK t \in Text : line' = Over(line, cursor, t)
  BY <1>4, <1>6, FoldedIsText DEF Fold
<1>8. line' \in Text /\ Len(line') = Len(line)
  BY <1>2, <1>7, OverIsText
<1>9. TextsKept /\ InLine /\ NotShorter
  BY <1>1, <1>2, <1>4, <1>5, <1>8 DEF TextsKept, InLine, NotShorter, FoldsTo
<1> QED
  BY <1>1, <1>9, EditsKeep

LEMMA DeleteRangeKeeps ==
  ASSUME IInv, NEW p \in Nat, NEW q \in Nat, DeleteRange(p, q)
  PROVE  IInv'
<1>1. Edits /\ Command /\ kill' = kill /\ p < q /\ q < Len(line)
  BY DEF DeleteRange, Edits
<1>2. line \in Text /\ Len(line) \in Nat /\ kill \in Text /\ Len(kill) < limit
  BY InvHolds
<1> DEFINE moved == IF q - p < Len(line) - q THEN q - p ELSE Len(line) - q
           end == q + moved
           over == Over(line, p, From(line, q, end))
           most == Len(line) - moved
<1>3. line' = SubSeq(over, 1, most)
  BY DEF DeleteRange
<1>4. end \in Nat /\ q <= end /\ most \in Nat /\ most <= Len(line)
  BY <1>1, <1>2
<1> HIDE DEF moved, end, most
<1>5. From(line, q, end) \in Text
  BY <1>2, <1>4, FromIsText
<1>6. over \in Text /\ Len(over) = Len(line)
  BY <1>2, <1>5, OverIsText
<1> HIDE DEF over
<1>7. over \in [1..Len(line) -> Char]
  BY <1>6, TextLen
<1>8. line' \in Text /\ Len(line') = most
  <2>1. SubSeq(over, 1, most) = [i \in 1..most |-> over[i]]
    BY <1>4, <1>6 DEF Text
  <2>2. \A i \in 1..most : over[i] \in Char
    BY <1>2, <1>4, <1>7
  <2>3. line' \in [1..most -> Char]
    BY <1>3, <2>1, <2>2
  <2> QED
    BY <1>4, <2>3, IsText
<1>9. TextsKept
  BY <1>1, <1>2, <1>4, <1>8 DEF TextsKept
<1> QED
  BY <1>1, <1>9, EditsKeep

LEMMA ResetKeeps ==
  ASSUME IInv, Reset
  PROVE  IInv' /\ InLine
<1>1. line' = <<>> /\ cursor' = 0 /\ mark' = 0 /\ lead' = FALSE /\ kill' = kill /\ UNCHANGED sizeVars
  BY DEF Reset
<1>2. SizesKept /\ limit' = limit
  BY <1>1, SameSizes
<1>3. limit' \in Nat /\ 0 < limit'
  BY <1>2, InvHolds
<1>4. line' \in Text /\ Len(line') = 0
  BY <1>1, EmptySeq DEF Text
<1>5. InLine
  BY <1>1, <1>4 DEF InLine
<1> QED
  BY <1>1, <1>2, <1>3, <1>4, <1>5, LongerKeeps

-------------------------------------------------------------------------------
(* Every step.                                                             *)

LeavesLine ==
  \/ cursor' = mark \/ \E p, q \in 0..MaxLine : DeleteRange(p, q)
  \/ PrevLine(0) \/ NextLine(0)

KeepsLess ==
  \/ \E n \in Args \ {0, 1} : EdDeletePrevChar(n)
  \/ Reset \/ \E s \in Strings : ReplaceStr(s)
  \/ \E p, q \in 0..MaxLine : DeleteRange(p, q)

GoodStep == IInv' /\ (InLine \/ LeavesLine) /\ (NotShorter \/ PutsBack \/ KeepsLess)

LEMMA MovesAreAsLong ==
  ASSUME IInv, Moves
  PROVE  NotShorter
BY InvHolds DEF Moves, NotShorter

LEMMA ArgumentSteps ==
  ASSUME IInv, NEW n \in Args, WithArgument(n)
  PROVE  GoodStep
<1>0. n \in Nat
  BY ArgsAssumption
<1>1. CASE NextChar(n) \/ PrevChar(n) \/ NextWordMove(n) \/ PrevWordMove(n)
  <2>1. Moves
    BY <1>1 DEF NextChar, PrevChar, NextWordMove, PrevWordMove
  <2> QED
    BY <1>0, <1>1, <2>1, MovingKeeps, MovesAreAsLong DEF GoodStep
<1>2. CASE PrevLine(n)
  <2>1. Moves
    BY <1>2 DEF PrevLine
  <2>2. IInv' /\ (n # 0 => InLine) /\ NotShorter
    BY <1>0, <1>2, <2>1, PrevLineKeeps, MovesAreAsLong
  <2>3. n = 0 => LeavesLine
    BY <1>2 DEF LeavesLine
  <2> QED
    BY <2>2, <2>3 DEF GoodStep
<1>3. CASE NextLine(n)
  <2>1. Moves
    BY <1>3 DEF NextLine
  <2>2. IInv' /\ (n # 0 => InLine) /\ NotShorter
    BY <1>0, <1>3, <2>1, NextLineKeeps, MovesAreAsLong
  <2>3. n = 0 => LeavesLine
    BY <1>3 DEF LeavesLine
  <2> QED
    BY <2>2, <2>3 DEF GoodStep
<1>4. CASE DeleteNextChar(n) \/ DeleteOrList(n) \/ DeletePrevChar(n)
           \/ DeletePrevWord(n) \/ DeleteNextWord(n) \/ DeleteStr(n)
  BY <1>0, <1>4, CuttingKeeps DEF GoodStep
<1>5. CASE EdDeletePrevChar(n)
  <2>1. IInv' /\ InLine /\ (n = 0 => NotShorter) /\ (n = 1 => PutsBack)
    BY <1>0, <1>5, EdDeletePrevCharKeeps DEF NotShorter
  <2>2. n \notin {0, 1} => KeepsLess
    BY <1>5 DEF KeepsLess
  <2> QED
    BY <2>1, <2>2 DEF GoodStep
<1>6. CASE Yank(n)
  BY <1>0, <1>6, YankKeeps DEF GoodStep
<1>7. CASE CopyPrevWord(n)
  BY <1>0, <1>7, CopyPrevWordKeeps DEF GoodStep
<1>8. CASE UpperCase(n) \/ LowerCase(n) \/ CapitolCase(n)
  BY <1>0, <1>8, FoldingKeeps DEF GoodStep
<1> QED
  BY <1>1, <1>2, <1>3, <1>4, <1>5, <1>6, <1>7, <1>8 DEF WithArgument

LEMMA StepKeeps ==
  ASSUME IInv, Next
  PROVE  GoodStep
<1>1. CASE \E c \in Typed \cup {Lead}, n \in Args : Type(c, n)
  <2>1. PICK c \in Typed \cup {Lead}, n \in Args : Type(c, n)
    BY <1>1
  <2>2. c \in Char /\ n \in Nat
    BY TypedAssumption, ArgsAssumption, CharsAreApart
  <2> QED
    BY <2>1, <2>2, TypingKeeps DEF GoodStep
<1>2. CASE TypeTrail
  BY <1>2, 0 \in Nat, CharsAreApart, TypingKeeps DEF GoodStep
<1>3. CASE ToggleOverwrite
  BY <1>3, ToggleKeeps DEF GoodStep
<1>4. CASE MoveToEnd \/ MoveToBeg
  <2>1. Moves
    BY <1>4 DEF MoveToEnd, MoveToBeg
  <2> QED
    BY <1>4, <2>1, 0 \in Nat, MovingKeeps, MovesAreAsLong DEF GoodStep
<1>5. CASE \E n \in Args : WithArgument(n)
  BY <1>5, ArgumentSteps
<1>6. CASE KillLine \/ KillWholeLine \/ KillRegion
  BY <1>6, 0 \in Nat, CuttingKeeps DEF GoodStep
<1>7. CASE CopyRegion \/ SetMark \/ ExchangeMark
  BY <1>7, MarkingKeeps DEF GoodStep, LeavesLine
<1>8. CASE TransposeChars \/ GosmacsTranspose
  BY <1>8, TransposingKeeps DEF GoodStep
<1>9. CASE \E s \in Strings : InsertStr(s) \/ ReplaceStr(s)
  <2>1. PICK s \in Strings : InsertStr(s) \/ ReplaceStr(s)
    BY <1>9
  <2>2. s \in Text
    BY StringsAssumption
  <2>3. CASE InsertStr(s)
    BY <2>2, <2>3, InsertStrKeeps DEF GoodStep
  <2>4. CASE ReplaceStr(s)
    <3>1. KeepsLess
      BY <2>4 DEF KeepsLess
    <3> QED
      BY <2>2, <2>4, <3>1, ReplaceStrKeeps DEF GoodStep
  <2> QED
    BY <2>1, <2>3, <2>4
<1>10. CASE \E p, q \in 0..MaxLine : DeleteRange(p, q)
  <2>1. PICK p \in 0..MaxLine, q \in 0..MaxLine : DeleteRange(p, q)
    BY <1>10
  <2>2. p \in Nat /\ q \in Nat
    BY BoundsAssumption
  <2>3. LeavesLine /\ KeepsLess
    BY <1>10 DEF LeavesLine, KeepsLess
  <2> QED
    BY <2>1, <2>2, <2>3, DeleteRangeKeeps DEF GoodStep
<1>11. CASE \E n \in Args : MoveBy(n) \/ MoveBy(-n)
  <2>1. PICK n \in Args : MoveBy(n) \/ MoveBy(-n)
    BY <1>11
  <2>2. n \in Int /\ -n \in Int
    BY ArgsAssumption
  <2>3. Moves
    BY <2>1 DEF MoveBy
  <2> QED
    BY <2>1, <2>2, <2>3, MoveByKeeps, MovesAreAsLong DEF GoodStep
<1>12. CASE Reset
  <2>1. KeepsLess
    BY <1>12 DEF KeepsLess
  <2> QED
    BY <1>12, <2>1, ResetKeeps DEF GoodStep
<1> QED
  BY <1>1, <1>2, <1>3, <1>4, <1>5, <1>6, <1>7, <1>8, <1>9, <1>10, <1>11, <1>12 DEF Next

\* The invariant the theorems rest on: the texts and sizes have their types,
\* what is cut and the mark are below the limit as the line is, and each buffer
\* holds the limit (ch_enlargebufs).
THEOREM Inductive == Spec => []IInv
<1>1. Init => IInv
  <2> SUFFICES ASSUME Init PROVE IInv
    OBVIOUS
  <2>1. BufSize \in Nat /\ limit \in Nat /\ limit > 0 /\ limit + EL_LEAVE = BufSize
    BY SizeAssumption DEF Init, EL_LEAVE
  <2>2. <<>> \in Text /\ Len(<<>>) = 0
    BY EmptySeq DEF Text
  <2>3. size \in [Buffers -> Nat] /\ \A b \in Buffers : size[b] = BufSize
    BY <2>1 DEF Init
  <2>4. TextsTyped
    BY <2>1, <2>2, <2>3 DEF Init, TextsTyped
  <2>5. AllFit
    BY <2>1, <2>2, <2>3 DEF Init, AllFit
  <2> QED
    BY <2>4, <2>5 DEF Init, IInv
<1>2. IInv /\ [Next]_vars => IInv'
  <2> SUFFICES ASSUME IInv, [Next]_vars PROVE IInv'
    OBVIOUS
  <2>1. CASE Next
    BY <2>1, StepKeeps DEF GoodStep
  <2>2. CASE UNCHANGED vars
    BY <2>2 DEF IInv, TextsTyped, AllFit, vars, textVars, killVars, sizeVars
  <2> QED
    BY <2>1, <2>2
<1> QED
  BY <1>1, <1>2, PTL DEF Spec

\* However the line comes to be as long as it is, and whichever buffers could
\* not grow, the line with a newline and a NUL fits in each, and what is cut in
\* the cut buffer (ch_enlargebufs, c_insert).
THEOREM NothingOverflows == Spec => []BuffersHold
<1>1. IInv => BuffersHold
  <2> SUFFICES ASSUME IInv PROVE BuffersHold
    OBVIOUS
  <2>1. /\ Len(line) < limit /\ Len(kill) < limit /\ \A b \in Buffers : limit + EL_LEAVE <= size[b]
        /\ limit \in Nat /\ size \in [Buffers -> Nat] /\ Len(kill) \in Nat
    BY TextLen DEF IInv, AllFit, TextsTyped
  <2>2. "kill" \in Buffers /\ size["kill"] \in Nat /\ limit + 2 <= size["kill"]
    BY <2>1 DEF Buffers, EL_LEAVE
  <2>3. Len(kill) < size["kill"]
    BY <2>1, <2>2
  <2> QED
    BY <2>1, <2>3 DEF BuffersHold
<1> QED
  BY <1>1, Inductive, PTL

\* The cursor leaves the line only to a mark behind its end, with el_deletestr1
\* or by a line command with an argument of 0.
THEOREM CursorHolds == Spec => CursorStays
<1>1. IInv /\ [Next]_vars =>
        [cursor' \notin 0..Len(line') =>
           \/ cursor' = mark \/ \E p, q \in 0..MaxLine : DeleteRange(p, q)
           \/ PrevLine(0) \/ NextLine(0)]_vars
  <2> SUFFICES ASSUME IInv, Next PROVE InLine \/ LeavesLine
    BY DEF InLine, LeavesLine
  <2> QED
    BY StepKeeps DEF GoodStep
<1> QED
  BY <1>1, Inductive, PTL DEF Spec, CursorStays

\* What a step takes from the line is in the cut buffer, and put back at the
\* cursor it makes the line what it was (c_delafter, c_delbefore); that the one
\* grapheme of ed_delete_prev_char is all it erased is a fact about graphemes.
THEOREM CutsGoBack == Spec => CutIsKept
<1>1. IInv /\ [Next]_vars =>
        [Len(line') < Len(line) =>
           \/ cursor' <= Len(line') /\ line = Inserted(line', cursor', kill')
           \/ \E n \in Args \ {0, 1} : EdDeletePrevChar(n)
           \/ Reset \/ \E s \in Strings : ReplaceStr(s)
           \/ \E p, q \in 0..MaxLine : DeleteRange(p, q)]_vars
  <2> SUFFICES ASSUME IInv, Next, Len(line') < Len(line) PROVE PutsBack \/ KeepsLess
    BY DEF PutsBack, KeepsLess
  <2>1. GoodStep
    BY StepKeeps
  <2>2. ~NotShorter
    <3>1. Len(line) \in Nat /\ Len(line') \in Nat
      <4>1. line \in Text /\ line' \in Text
        BY <2>1 DEF GoodStep, IInv, TextsTyped
      <4> QED
        BY <4>1, TextLen
    <3> QED
      BY <3>1 DEF NotShorter
  <2> QED
    BY <2>1, <2>2 DEF GoodStep
<1> QED
  BY <1>1, Inductive, PTL DEF Spec, CutIsKept

-------------------------------------------------------------------------------
(* Code points.                                                            *)

LEMMA AtOfWithout ==
  ASSUME NEW s \in Text, NEW q \in 0..Len(s), NEW p \in 0..q, NEW i \in Nat
  PROVE  At(Without(s, p, q), i) = IF i < p THEN At(s, i) ELSE At(s, i + (q - p))
<1>0. Len(s) \in Nat /\ p \in Nat /\ q \in Nat /\ p <= q /\ q <= Len(s)
  BY TextLen
<1> DEFINE w == Without(s, p, q)
           d == q - p
<1>1. /\ Len(w) = Len(s) - d
      /\ \A j \in 1..(Len(s) - d) : w[j] = IF j <= p THEN s[j] ELSE s[j + d]
  BY WithoutIsText
<1>2. d \in Nat /\ p + d = q
  BY <1>0
<1> HIDE DEF w, d
<1>3. CASE i < Len(w)
  <2>1. i + 1 \in 1..(Len(s) - d) /\ At(w, i) = w[i + 1]
    BY <1>0, <1>1, <1>2, <1>3 DEF At
  <2>2. w[i + 1] = IF i + 1 <= p THEN s[i + 1] ELSE s[i + 1 + d]
    BY <1>1, <2>1
  <2>3. CASE i < p
    <3>1. i + 1 <= p /\ At(s, i) = s[i + 1]
      BY <1>0, <2>3 DEF At
    <3> QED
      BY <2>1, <2>2, <2>3, <3>1 DEF w
  <2>4. CASE ~(i < p)
    <3>1. ~(i + 1 <= p) /\ i + d < Len(s) /\ i + 1 + d = i + d + 1
      BY <1>0, <1>1, <1>2, <1>3, <2>4
    <3>2. At(s, i + d) = s[i + d + 1]
      BY <3>1 DEF At
    <3>3. At(w, i) = At(s, i + d)
      BY <2>1, <2>2, <3>1, <3>2
    <3> QED
      BY <2>4, <3>3, Zenon DEF w, d
  <2> QED
    BY <2>3, <2>4
<1>4. CASE ~(i < Len(w))
  <2>1. ~(i < p) /\ ~(i + d < Len(s))
    BY <1>0, <1>1, <1>2, <1>4
  <2>2. At(w, i) = Old /\ At(s, i + d) = Old
    BY <1>4, <2>1 DEF At
  <2> QED
    BY <2>1, <2>2, Zenon DEF w, d
<1> QED
  BY <1>3, <1>4

\* What is cut out between code points cuts none.
LEMMA WithoutIsWhole ==
  ASSUME NEW s \in Text, Whole(s), NEW q, Between(s, q), NEW p, Between(s, p), p <= q
  PROVE  Whole(Without(s, p, q)) /\ Between(Without(s, p, q), p)
<1>0. /\ Len(s) \in Nat /\ p \in Nat /\ q \in Nat /\ q \in 0..Len(s) /\ p \in 0..q
      /\ q <= Len(s) /\ p \in 0..Len(s)
  BY TextLen DEF Between
<1> DEFINE w == Without(s, p, q)
           d == q - p
<1>1. w \in Text /\ Len(w) = Len(s) - d
  BY <1>0, WithoutIsText
<1>2. d \in Nat /\ p + d = q
  BY <1>0
<1>3. \A i \in Nat : At(w, i) = IF i < p THEN At(s, i) ELSE At(s, i + d)
  BY <1>0, AtOfWithout
<1> HIDE DEF w, d
<1>4. \A i \in Nat : i < Len(s) =>
        /\ At(s, i) = Lead => At(s, i + 1) = Trail
        /\ At(s, i) = Trail => i > 0 /\ At(s, i - 1) = Lead
  <2> SUFFICES ASSUME NEW i \in Nat, i < Len(s)
               PROVE  /\ At(s, i) = Lead => At(s, i + 1) = Trail
                      /\ At(s, i) = Trail => i > 0 /\ At(s, i - 1) = Lead
    OBVIOUS
  <2>1. i \in 0..(Len(s) - 1)
    BY <1>0
  <2> QED
    BY <2>1 DEF Whole
<1>5. p > 0 => At(s, p - 1) # Lead
  <2> SUFFICES ASSUME p > 0, At(s, p - 1) = Lead PROVE FALSE
    OBVIOUS
  <2>1. p - 1 \in Nat /\ p - 1 < Len(s) /\ p - 1 + 1 = p
    BY <1>0
  <2>2. At(s, p - 1 + 1) = Trail
    BY <1>4, <2>1
  <2>3. Pair(s, p - 1)
    BY <2>2 DEF Pair
  <2> QED
    BY <2>3 DEF Between
<1>6. At(s, q) # Trail
  <2> SUFFICES ASSUME At(s, q) = Trail PROVE FALSE
    OBVIOUS
  <2>1. q < Len(s)
    BY <1>0, CharsAreApart DEF At
  <2>2. q > 0 /\ At(s, q - 1) = Lead /\ q - 1 + 1 = q
    BY <1>0, <1>4, <2>1
  <2>3. Pair(s, q - 1)
    BY <2>2 DEF Pair
  <2> QED
    BY <2>2, <2>3 DEF Between
<1>7. ASSUME NEW i \in 0..(Len(w) - 1)
      PROVE  /\ At(w, i) = Lead => At(w, i + 1) = Trail
             /\ At(w, i) = Trail => i > 0 /\ At(w, i - 1) = Lead
  <2>0. i \in Nat /\ i < Len(w) /\ i + 1 \in Nat /\ i + d \in Nat
    BY <1>0, <1>1, <1>2
  <2>1. CASE i + 1 < p
    <3>1. At(w, i) = At(s, i) /\ At(w, i + 1) = At(s, i + 1) /\ i < Len(s)
      BY <1>0, <1>3, <2>0, <2>1
    <3>2. i > 0 => i - 1 \in Nat /\ i - 1 < p
      BY <1>0, <2>0, <2>1
    <3>3. i > 0 => At(w, i - 1) = At(s, i - 1)
      BY <1>3, <3>2
    <3> QED
      BY <1>4, <2>0, <3>1, <3>3
  <2>2. CASE i + 1 = p
    <3>1. At(w, i) = At(s, i) /\ i < Len(s) /\ p > 0 /\ p - 1 = i
      BY <1>0, <1>3, <2>0, <2>2
    <3>2. At(s, i) # Lead
      BY <1>5, <3>1
    <3>3. i > 0 => i - 1 \in Nat /\ i - 1 < p
      BY <1>0, <2>0, <2>2
    <3>4. i > 0 => At(w, i - 1) = At(s, i - 1)
      BY <1>3, <3>3
    <3> QED
      BY <1>4, <2>0, <3>1, <3>2, <3>4
  <2>3. CASE i = p
    <3>1. At(w, i) = At(s, i + d) /\ At(w, i + 1) = At(s, i + 1 + d) /\ i + d = q
      BY <1>0, <1>2, <1>3, <2>0, <2>3
    <3>2. i + 1 + d = i + d + 1 /\ i + d < Len(s)
      BY <1>0, <1>1, <1>2, <2>0
    <3> QED
      BY <1>4, <1>6, <2>0, <3>1, <3>2
  <2>4. CASE i > p
    <3>1. At(w, i) = At(s, i + d) /\ At(w, i + 1) = At(s, i + 1 + d) /\ i - 1 \in Nat /\ ~(i - 1 < p) /\ i > 0
      BY <1>0, <1>3, <2>0, <2>4
    <3>2. At(w, i - 1) = At(s, i - 1 + d)
      BY <1>3, <3>1
    <3> DEFINE j == i + d
    <3>3. j \in Nat /\ i + 1 + d = j + 1 /\ i - 1 + d = j - 1 /\ j < Len(s)
      BY <1>0, <1>1, <1>2, <2>0
    <3>4. At(w, i) = At(s, j) /\ At(w, i + 1) = At(s, j + 1) /\ At(w, i - 1) = At(s, j - 1)
      BY <3>1, <3>2, <3>3
    <3> HIDE DEF j
    <3>5. /\ At(s, j) = Lead => At(s, j + 1) = Trail
          /\ At(s, j) = Trail => At(s, j - 1) = Lead
      BY <1>4, <3>3
    <3> QED
      BY <3>1, <3>4, <3>5
  <2> QED
    BY <1>0, <2>0, <2>1, <2>2, <2>3, <2>4
<1>8. Whole(w)
  BY <1>7 DEF Whole
<1>9. Between(w, p)
  <2>1. p \in 0..Len(w)
    BY <1>0, <1>1, <1>2
  <2>2. At(w, p) = At(s, q)
    <3>1. At(w, p) = At(s, p + d)
      BY <1>0, <1>3
    <3> QED
      BY <1>2, <3>1
  <2> QED
    BY <1>1, <1>6, <2>1, <2>2, BetweenCodePoints
<1> QED
  BY <1>8, <1>9 DEF w

LEMMA GraphemeCommandsAreWhole ==
  ASSUME IInv, InWhole, ByGrapheme
  PROVE  Between(line', cursor') /\ Whole(line')
<1>1. PICK n \in Args : \/ NextChar(n) \/ PrevChar(n) \/ NextWordMove(n) \/ PrevWordMove(n)
                        \/ DeleteNextChar(n) \/ DeletePrevChar(n) \/ DeletePrevWord(n) \/ DeleteNextWord(n)
  BY DEF ByGrapheme
<1>2. n \in Nat /\ line \in Text /\ cursor \in 0..Len(line) /\ Whole(line) /\ Between(line, cursor)
  BY ArgsAssumption, InvHolds DEF InWhole, Between
<1>3. \A x \in Behind(line, cursor) : Between(line, x) /\ cursor <= x
  BY <1>2 DEF Behind
<1>4. \A x \in Ahead(line, cursor) : Between(line, x) /\ x <= cursor
  BY <1>2 DEF Ahead
<1>5. /\ NextGraphemes(line, cursor, n) \in Behind(line, cursor)
      /\ NextWord(line, cursor, n) \in Behind(line, cursor)
      /\ PrevGraphemes(line, cursor, n) \in Ahead(line, cursor)
      /\ PrevWord(line, cursor, n) \in Ahead(line, cursor)
  BY <1>2, NextGraphemesStay, NextWordStays, PrevGraphemesStay, PrevWordStays
<1>6. CASE NextChar(n) \/ PrevChar(n) \/ NextWordMove(n) \/ PrevWordMove(n)
  <2>1. line' = line /\ cursor' \in Behind(line, cursor) \cup Ahead(line, cursor)
    BY <1>5, <1>6 DEF NextChar, PrevChar, NextWordMove, PrevWordMove, Moves
  <2> QED
    BY <1>2, <1>3, <1>4, <2>1
<1>7. ASSUME NEW p, NEW q, Cut(p, q), Between(line, p), Between(line, q), p <= q
      PROVE  Between(line', cursor') /\ Whole(line')
  <2>1. cursor' = p /\ line' = Without(line, p, q)
    BY <1>7 DEF Cut
  <2>2. Whole(Without(line, p, q)) /\ Between(Without(line, p, q), p)
    BY <1>2, <1>7, WithoutIsWhole
  <2> QED
    BY <2>1, <2>2
<1>8. CASE DeleteNextChar(n) \/ DeleteNextWord(n)
  <2>1. PICK q \in Behind(line, cursor) : Cut(cursor, q)
    BY <1>5, <1>8 DEF DeleteNextChar, DeleteNextWord
  <2> QED
    BY <1>2, <1>3, <1>7, <2>1
<1>9. CASE DeletePrevChar(n) \/ DeletePrevWord(n)
  <2>1. PICK p \in Ahead(line, cursor) : Cut(p, cursor)
    BY <1>5, <1>9 DEF DeletePrevChar, DeletePrevWord
  <2> QED
    BY <1>2, <1>4, <1>7, <2>1
<1> QED
  BY <1>1, <1>6, <1>8, <1>9

\* A command that goes by graphemes or words, begun between code points of a
\* whole line, ends between code points of a whole line (el_next_grapheme,
\* el_prev_grapheme, c__next_word, c__prev_word).
THEOREM NoCodePointIsCut == Spec => CodePointsKept
<1>1. IInv /\ [Next]_vars =>
        [~(Between(line', cursor') /\ Whole(line')) /\ InWhole => ~ByGrapheme]_vars
  BY GraphemeCommandsAreWhole
<1> QED
  BY <1>1, Inductive, PTL DEF Spec, CodePointsKept

-------------------------------------------------------------------------------
(* Letters.                                                                *)

\* A letter comes back from its upper case, and has one case.  It is so of the
\* letters that have both, but not of every character towupper changes.
CaseReturns == Lower \cap Upper = {} /\ \A c \in Lower : Down[Up[c]] = c

Down1(c) == IF c \in Upper THEN Down[c] ELSE c

LEMMA FoldedAt ==
  ASSUME NEW s \in Text
  PROVE  /\ Len(Folded(s)) = Len(s)
         /\ \A i \in 1..Len(s) : Folded(s)[i] = Down1(s[i])
BY FoldedIsText DEF Folded, Downcased, Down1

\* With two characters swapped a text has each letter as often.
LEMMA SwappedCounts ==
  ASSUME line \in Text, NEW p \in 2..Len(line), NEW c
  PROVE  Count(Folded(Swapped(p)), c) = Count(Folded(line), c)
<1>0. Len(line) \in Nat /\ p \in Nat /\ p \in 1..Len(line) /\ p - 1 \in 1..Len(line) /\ p - 1 # p
  BY TextLen
<1> DEFINE s == Swapped(p)
           S == {i \in 1..Len(Folded(line)) : Folded(line)[i] = c}
           T == {i \in 1..Len(Folded(s)) : Folded(s)[i] = c}
           g == [i \in 1..Len(line) |-> IF i = p THEN p - 1 ELSE IF i = p - 1 THEN p ELSE i]
           f == [i \in S |-> g[i]]
<1>1. /\ s \in Text /\ Len(s) = Len(line)
      /\ \A i \in 1..Len(line) : s[i] = IF i = p THEN line[p - 1]
                                        ELSE IF i = p - 1 THEN line[p] ELSE line[i]
  BY SwappedIsText
<1> HIDE DEF s
<1>2. /\ \A i \in 1..Len(line) : g[i] \in 1..Len(line)
      /\ \A i \in 1..Len(line) : g[g[i]] = i
      /\ \A i \in 1..Len(line) : s[i] = line[g[i]]
  BY <1>0, <1>1
<1> HIDE DEF g
<1>3. S = {i \in 1..Len(line) : Down1(line[i]) = c}
  BY FoldedAt
<1>4. T = {i \in 1..Len(line) : Down1(s[i]) = c}
  BY <1>1, FoldedAt
<1> HIDE DEF S, T
<1>5. \A i \in S : g[i] \in T
  <2> SUFFICES ASSUME NEW i \in S PROVE g[i] \in T
    OBVIOUS
  <2>1. i \in 1..Len(line) /\ Down1(line[i]) = c
    BY <1>3
  <2>2. g[i] \in 1..Len(line) /\ s[g[i]] = line[i]
    BY <1>2, <2>1
  <2> QED
    BY <1>4, <2>1, <2>2
<1>6. \A j \in T : g[j] \in S
  <2> SUFFICES ASSUME NEW j \in T PROVE g[j] \in S
    OBVIOUS
  <2>1. j \in 1..Len(line) /\ Down1(s[j]) = c
    BY <1>4
  <2> QED
    BY <1>2, <1>3, <2>1
<1>7. S \subseteq 1..Len(line) /\ T \subseteq 1..Len(line)
  BY <1>3, <1>4
<1>8. f \in [S -> T] /\ \A i \in S : f[i] = g[i]
  BY <1>5
<1> HIDE DEF f
<1>9. \A i, j \in S : f[i] = f[j] => i = j
  <2> SUFFICES ASSUME NEW i \in S, NEW j \in S, f[i] = f[j] PROVE i = j
    OBVIOUS
  <2>1. g[i] = g[j] /\ g[g[i]] = i /\ g[g[j]] = j
    BY <1>2, <1>7, <1>8
  <2> QED
    BY <2>1
<1>10. \A j \in T : \E i \in S : f[i] = j
  <2> SUFFICES ASSUME NEW j \in T PROVE \E i \in S : f[i] = j
    OBVIOUS
  <2>1. g[j] \in S /\ g[g[j]] = j
    BY <1>2, <1>6, <1>7
  <2> QED
    BY <1>8, <2>1
<1>11. ExistsBijection(S, T)
  <2>1. f \in Bijection(S, T)
    BY <1>8, <1>9, <1>10 DEF Bijection, Injection, IsInjective, Surjection
  <2> QED
    BY <2>1 DEF ExistsBijection
<1>12. IsFiniteSet(S)
  <2>1. IsFiniteSet(1..Len(line))
    BY <1>0, FS_Interval
  <2> QED
    BY <1>7, <2>1, FS_Subset
<1>13. Cardinality(T) = Cardinality(S)
  BY <1>11, <1>12, FS_Bijection
<1> QED
  BY <1>13 DEF Count, S, T, s

\* What the case commands put over a word.
LEMMA FoldAt ==
  ASSUME CaseReturns, NEW s \in Text, NEW t \in Fold(s), NEW i \in 1..Len(s)
  PROVE  t \in Text /\ Len(t) = Len(s) /\ Down1(t[i]) = Down1(s[i])
<1>1. t \in Text /\ Len(t) = Len(s)
  BY FoldedIsText DEF Fold
<1>2. s[i] \in Char
  BY TextLen
<1>3. t[i] \in {IF s[i] \in Lower THEN Up[s[i]] ELSE s[i], Down1(s[i])}
  <2>1. Upcased(s)[i] = (IF s[i] \in Lower THEN Up[s[i]] ELSE s[i]) /\ Downcased(s)[i] = Down1(s[i])
    BY DEF Upcased, Downcased, Down1
  <2>2. Capitalised(s)[i] \in {Upcased(s)[i], Downcased(s)[i]}
    BY DEF Capitalised
  <2> QED
    BY <2>1, <2>2 DEF Fold
<1>4. s[i] \in Lower => Up[s[i]] \in Upper /\ Down[Up[s[i]]] = s[i] /\ s[i] \notin Upper
  BY CaseAssumption DEF CaseReturns
<1>5. s[i] \in Upper => Down[s[i]] \in Lower /\ Down[s[i]] \notin Upper
  BY CaseAssumption DEF CaseReturns
<1>6. Down1(t[i]) = Down1(s[i])
  BY <1>3, <1>4, <1>5 DEF Down1
<1> QED
  BY <1>1, <1>6

LettersStay ==
  /\ \A c \in Char : Count(Folded(line'), c) = Count(Folded(line), c)
  /\ From(line', cursor', Len(line')) = From(line, cursor', Len(line))
  /\ \A i \in 1..(cursor - 2) : line'[i] = line[i]

\* A text that is another but for some characters before a place.
LEMMA BehindUnchanged ==
  ASSUME NEW s \in Text, NEW t \in Text, Len(s) = Len(t), NEW p \in 0..Len(s),
         \A i \in 1..Len(s) : i > p => t[i] = s[i]
  PROVE  From(t, p, Len(t)) = From(s, p, Len(s))
<1>0. Len(s) \in Nat /\ p \in Nat
  BY TextLen
<1>1. ASSUME NEW i \in 1..(Len(s) - p) PROVE At(t, p + i - 1) = At(s, p + i - 1)
  <2>1. p + i - 1 < Len(s) /\ p + i - 1 + 1 \in 1..Len(s) /\ p + i - 1 + 1 > p
    BY <1>0
  <2> QED
    BY <2>1 DEF At
<1> QED
  BY <1>1 DEF From

LEMMA TransposingKeepsLetters ==
  ASSUME IInv, TransposeChars \/ GosmacsTranspose
  PROVE  LettersStay
<1>1. Edits /\ Command
  BY DEF TransposeChars, GosmacsTranspose, Edits
<1>2. line \in Text /\ Len(line) \in Nat /\ cursor \in Nat /\ cursor <= Len(line)
  BY <1>1, InvHolds, CommandHolds
<1>3. /\ cursor' \in Nat /\ cursor' <= Len(line) /\ cursor <= cursor'
      /\ line' = IF cursor' > 1 THEN Swapped(cursor') ELSE line
  BY <1>2 DEF TransposeChars, GosmacsTranspose
<1>4. CASE cursor' > 1
  <2> DEFINE p == cursor'
  <2>1. p \in 2..Len(line) /\ line' = Swapped(p)
    BY <1>2, <1>3, <1>4
  <2> HIDE DEF p
  <2>2. /\ line' \in Text /\ Len(line') = Len(line)
        /\ \A i \in 1..Len(line) : line'[i] = IF i = p THEN line[p - 1]
                                              ELSE IF i = p - 1 THEN line[p] ELSE line[i]
    BY <1>2, <2>1, SwappedIsText
  <2>3. \A c \in Char : Count(Folded(line'), c) = Count(Folded(line), c)
    BY <1>2, <2>1, SwappedCounts
  <2>4. \A i \in 1..Len(line) : i > p \/ i < p - 1 => line'[i] = line[i]
    BY <1>2, <2>1, <2>2
  <2>5. From(line', p, Len(line')) = From(line, p, Len(line))
    <3>1. p \in 0..Len(line)
      BY <1>2, <2>1
    <3> QED
      BY <1>2, <2>2, <2>4, <3>1, BehindUnchanged
  <2>6. \A i \in 1..(cursor - 2) : line'[i] = line[i]
    <3>0. p \in Nat /\ cursor <= p
      BY <1>3 DEF p
    <3>1. \A i \in 1..(cursor - 2) : i \in 1..Len(line) /\ i < p - 1
      BY <1>2, <3>0
    <3> QED
      BY <2>4, <3>1
  <2> QED
    BY <2>3, <2>5, <2>6 DEF LettersStay, p
<1>5. CASE ~(cursor' > 1)
  BY <1>3, <1>5 DEF LettersStay
<1> QED
  BY <1>4, <1>5

LEMMA FoldingKeepsLetters ==
  ASSUME CaseReturns, IInv, NEW n \in Nat, UpperCase(n) \/ LowerCase(n) \/ CapitolCase(n)
  PROVE  LettersStay
<1>1. FoldsTo(n) /\ Edits /\ Command
  BY CaseCommands DEF FoldsTo, Edits
<1>2. line \in Text /\ Len(line) \in Nat /\ cursor \in Nat /\ cursor <= Len(line)
  BY <1>1, InvHolds, CommandHolds
<1> DEFINE e == NextWord(line, cursor, n)
           word == From(line, cursor, e)
<1>3. e \in cursor..Len(line)
  BY <1>1, StepsOn
<1>4. PICK t \in Fold(word) : line' = Over(line, cursor, t) /\ cursor' = e
  BY <1>1 DEF FoldsTo
<1> HIDE DEF e
<1>5. e \in Nat /\ cursor <= e /\ e <= Len(line) /\ e \in 0..Len(line) /\ e - cursor \in Nat
  BY <1>2, <1>3
<1>6. word \in Text /\ Len(word) = e - cursor /\ \A j \in 1..(e - cursor) : word[j] = At(line, cursor + j - 1)
  BY <1>2, <1>5, FromIsText
<1> HIDE DEF word
<1>7. t \in Text /\ Len(t) = e - cursor
  BY <1>6, FoldedIsText DEF Fold
<1>8. \A j \in 1..(e - cursor) : Down1(t[j]) = Down1(word[j])
  BY <1>6, FoldAt
<1>9. line' \in Text /\ Len(line') = Len(line)
  BY <1>2, <1>4, <1>7, OverIsText
<1>10. \A i \in 1..Len(line) : line'[i] = IF i - cursor \in 1..(e - cursor) THEN t[i - cursor] ELSE line[i]
  BY <1>4, <1>7 DEF Over
<1>11. \A i \in 1..Len(line) : i > e \/ i <= cursor => line'[i] = line[i]
  <2> SUFFICES ASSUME NEW i \in 1..Len(line), i > e \/ i <= cursor PROVE line'[i] = line[i]
    OBVIOUS
  <2>1. i - cursor \notin 1..(e - cursor)
    BY <1>2, <1>5
  <2> QED
    BY <1>10, <2>1
<1>12. \A i \in 1..Len(line) : Down1(line'[i]) = Down1(line[i])
  <2> SUFFICES ASSUME NEW i \in 1..Len(line) PROVE Down1(line'[i]) = Down1(line[i])
    OBVIOUS
  <2>1. CASE i - cursor \in 1..(e - cursor)
    <3> DEFINE j == i - cursor
    <3>1. j \in 1..(e - cursor) /\ cursor + j - 1 = i - 1 /\ i - 1 < Len(line) /\ i - 1 + 1 = i
      BY <1>2, <1>5, <2>1
    <3>2. line'[i] = t[j]
      BY <1>10, <2>1
    <3> HIDE DEF j
    <3>3. word[j] = At(line, i - 1)
      BY <1>6, <3>1
    <3>4. At(line, i - 1) = line[i]
      BY <3>1 DEF At
    <3> QED
      BY <1>8, <3>1, <3>2, <3>3, <3>4
  <2>2. CASE i - cursor \notin 1..(e - cursor)
    BY <1>10, <2>2
  <2> QED
    BY <2>1, <2>2
<1>13. Folded(line') = Folded(line)
  <2>1. Folded(line') = [i \in 1..Len(line') |-> Down1(line'[i])]
    BY DEF Folded, Downcased, Down1
  <2>2. Folded(line) = [i \in 1..Len(line) |-> Down1(line[i])]
    BY DEF Folded, Downcased, Down1
  <2> QED
    BY <1>9, <1>12, <2>1, <2>2
<1>14. From(line', e, Len(line')) = From(line, e, Len(line))
  BY <1>2, <1>5, <1>9, <1>11, BehindUnchanged
<1>15. \A i \in 1..(cursor - 2) : line'[i] = line[i]
  <2>1. \A i \in 1..(cursor - 2) : i \in 1..Len(line) /\ i <= cursor
    BY <1>2
  <2> QED
    BY <1>11, <2>1
<1> QED
  BY <1>4, <1>13, <1>14, <1>15 DEF LettersStay

\* Transposing and the case commands keep each letter, in either case, as often
\* as it was, and leave alone what is behind the cursor they leave and what is
\* more than two before the one they found (ed_transpose_chars, em_upper_case).
THEOREM LettersStayAsTheyAre == ASSUME CaseReturns PROVE Spec => LettersKept
<1>1. IInv /\ [Next]_vars =>
        [Rearranges =>
           /\ \A c \in Char : Count(Folded(line'), c) = Count(Folded(line), c)
           /\ From(line', cursor', Len(line')) = From(line, cursor', Len(line))
           /\ \A i \in 1..(cursor - 2) : line'[i] = line[i]]_vars
  <2> SUFFICES ASSUME IInv, Rearranges PROVE LettersStay
    BY DEF LettersStay
  <2>1. CASE TransposeChars \/ GosmacsTranspose
    BY <2>1, TransposingKeepsLetters
  <2>2. CASE \E n \in Args : UpperCase(n) \/ LowerCase(n) \/ CapitolCase(n)
    <3>1. PICK n \in Args : UpperCase(n) \/ LowerCase(n) \/ CapitolCase(n)
      BY <2>2
    <3>2. n \in Nat
      BY ArgsAssumption
    <3> QED
      BY <3>1, <3>2, FoldingKeepsLetters
  <2> QED
    BY <2>1, <2>2 DEF Rearranges
<1> QED
  BY <1>1, Inductive, PTL DEF Spec, LettersKept
===============================================================================
