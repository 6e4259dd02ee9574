---------------------------- MODULE LineTextProofs ----------------------------
(***************************************************************************)
(* What the operators of LineText make of any text: where the loops over   *)
(* words and graphemes come to, and what putting in and taking out give.   *)
(* A loop stays in a set of places that one turn of it stays in            *)
(* (LoopStays), and is defined because it does (LoopExists).               *)
(***************************************************************************)
EXTENDS LineText, SequenceTheorems, FiniteSetTheorems, WellFoundedInduction, TLAPS

-------------------------------------------------------------------------------
(* Texts.                                                                  *)

LEMMA LeastNumber ==
  ASSUME NEW S, S \subseteq Nat, S # {}
  PROVE  \E e \in S : \A f \in S : e <= f
<1> DEFINE R == OpToRel(<, Nat)
<1>1. IsWellFoundedOn(R, Nat)
  BY NatLessThanWellFounded
<1>2. \A e, f \in Nat : <<e, f>> \in R <=> e < f
  BY DEF OpToRel
<1> HIDE DEF R
<1>3. PICK e \in S : \A f \in S : ~(<<f, e>> \in R)
  BY <1>1, WFMin
<1>4. ASSUME NEW f \in S PROVE e <= f
  <2>1. e \in Nat /\ f \in Nat
    OBVIOUS
  <2>2. ~(f < e)
    BY <1>2, <1>3, <2>1
  <2> QED
    BY <2>1, <2>2
<1> QED
  BY <1>4

LEMMA CharsAreApart ==
  /\ Other \subseteq Char /\ WordChar \subseteq Char
  /\ Old \in Char /\ Lead \in Char /\ Trail \in Char /\ Break \in Char
  /\ Lead \notin WordChar /\ Trail \notin WordChar /\ Old \notin WordChar
  /\ Lead # Trail /\ Lead # Combining /\ Trail # Combining
  /\ Old # Lead /\ Old # Trail /\ Old # Combining /\ Old # Break
BY CaseAssumption DEF Other, Char, WordChar, Blank, Break, Lead, Trail, Combining, Open, Close, Old

\* Any n characters are a text.
LEMMA IsText ==
  ASSUME NEW n \in Nat, NEW t, t \in [1..n -> Char]
  PROVE  t \in Text /\ Len(t) = n
<1>1. t \in Seq(Char)
  BY SeqDef
<1>2. Len(t) \in Nat /\ DOMAIN t = 1..Len(t)
  BY <1>1, LenProperties
<1>3. 1..Len(t) = 1..n
  BY <1>2
<1>4. Len(t) = n
  BY <1>2, <1>3
<1> QED
  BY <1>1, <1>4 DEF Text

LEMMA TextLen ==
  ASSUME NEW s \in Text
  PROVE  Len(s) \in Nat /\ s \in [1..Len(s) -> Char] /\ DOMAIN s = 1..Len(s)
BY LenProperties DEF Text

LEMMA AtIsChar ==
  ASSUME NEW s \in Text, NEW p \in Nat
  PROVE  At(s, p) \in Char
<1>1. Len(s) \in Nat /\ s \in [1..Len(s) -> Char]
  BY TextLen
<1>2. p < Len(s) => p + 1 \in 1..Len(s)
  BY <1>1
<1> QED
  BY <1>1, <1>2, CharsAreApart DEF At

LEMMA FromIsText ==
  ASSUME NEW s \in Text, NEW p \in Nat, NEW q \in Nat, p <= q
  PROVE  /\ From(s, p, q) \in Text /\ Len(From(s, p, q)) = q - p
         /\ \A i \in 1..(q - p) : From(s, p, q)[i] = At(s, p + i - 1)
<1>1. q - p \in Nat
  OBVIOUS
<1>2. \A i \in 1..(q - p) : At(s, p + i - 1) \in Char
  <2>1. \A i \in 1..(q - p) : p + i - 1 \in Nat
    OBVIOUS
  <2> QED
    BY <2>1, AtIsChar
<1>3. From(s, p, q) \in [1..(q - p) -> Char]
  BY <1>2 DEF From
<1>4. \A i \in 1..(q - p) : From(s, p, q)[i] = At(s, p + i - 1)
  BY DEF From
<1> QED
  BY <1>1, <1>3, <1>4, IsText

LEMMA RepeatIsText ==
  ASSUME NEW c \in Char, NEW n \in Nat
  PROVE  Repeat(c, n) \in Text /\ Len(Repeat(c, n)) = n
<1>1. Repeat(c, n) \in [1..n -> Char]
  BY DEF Repeat
<1> QED
  BY <1>1, IsText

\* The character at a place of what is put together from two.
LEMMA InsertedIsText ==
  ASSUME NEW s \in Text, NEW p \in 0..Len(s), NEW t \in Text
  PROVE  /\ Inserted(s, p, t) \in Text
         /\ Len(Inserted(s, p, t)) = Len(s) + Len(t)
         /\ \A i \in 1..(Len(s) + Len(t)) :
              Inserted(s, p, t)[i] = IF i <= p THEN s[i]
                                     ELSE IF i <= p + Len(t) THEN t[i - p] ELSE s[i - Len(t)]
<1>0. s \in Seq(Char) /\ t \in Seq(Char) /\ Len(s) \in Nat /\ Len(t) \in Nat /\ p \in Nat
  BY TextLen DEF Text
<1> DEFINE a == SubSeq(s, 1, p)
           b == SubSeq(s, p + 1, Len(s))
<1>1. a \in Seq(Char) /\ Len(a) = p /\ \A i \in 1..p : a[i] = s[i]
  BY <1>0, SubSeqProperties
<1>2. b \in Seq(Char) /\ Len(b) = Len(s) - p /\ \A i \in 1..(Len(s) - p) : b[i] = s[p + i]
  BY <1>0, SubSeqProperties
<1> HIDE DEF a, b
<1>3. /\ a \o t \in Seq(Char) /\ Len(a \o t) = p + Len(t)
      /\ \A i \in 1..(p + Len(t)) : (a \o t)[i] = IF i <= p THEN s[i] ELSE t[i - p]
  <2>1. /\ a \o t \in Seq(Char) /\ Len(a \o t) = Len(a) + Len(t)
        /\ \A i \in 1..(Len(a) + Len(t)) : (a \o t)[i] = IF i <= Len(a) THEN a[i] ELSE t[i - Len(a)]
    BY <1>0, <1>1, ConcatProperties
  <2>2. /\ Len(a \o t) = p + Len(t)
        /\ \A i \in 1..(p + Len(t)) : (a \o t)[i] = IF i <= p THEN a[i] ELSE t[i - p]
    BY <1>1, <2>1
  <2>3. ASSUME NEW i \in 1..(p + Len(t))
        PROVE  (a \o t)[i] = IF i <= p THEN s[i] ELSE t[i - p]
    <3>1. i <= p => a[i] = s[i]
      BY <1>0, <1>1
    <3> QED
      BY <2>2, <3>1
  <2> QED
    BY <2>1, <2>2, <2>3
<1>4. Inserted(s, p, t) = (a \o t) \o b
  BY DEF Inserted, a, b
<1> DEFINE c == a \o t
<1>5. /\ c \in Seq(Char) /\ Len(c) = p + Len(t)
      /\ \A i \in 1..(p + Len(t)) : c[i] = IF i <= p THEN s[i] ELSE t[i - p]
  BY <1>3
<1> HIDE DEF c
<1>6. /\ c \o b \in Seq(Char) /\ Len(c \o b) = Len(c) + Len(b)
      /\ \A i \in 1..(Len(c) + Len(b)) : (c \o b)[i] = IF i <= Len(c) THEN c[i] ELSE b[i - Len(c)]
  BY <1>2, <1>5, ConcatProperties
<1>7. ASSUME NEW i \in 1..(Len(s) + Len(t))
      PROVE  (c \o b)[i] = IF i <= p THEN s[i] ELSE IF i <= p + Len(t) THEN t[i - p] ELSE s[i - Len(t)]
  <2>0. i \in Nat /\ p + Len(t) \in Nat
    BY <1>0
  <2>1. i \in 1..(Len(c) + Len(b))
    BY <1>0, <1>2, <1>5
  <2>2. CASE i <= p + Len(t)
    BY <1>0, <1>5, <1>6, <2>1, <2>2
  <2>3. CASE ~(i <= p + Len(t))
    <3> DEFINE j == i - Len(c)
    <3>1. j \in 1..(Len(s) - p) /\ p + j = i - Len(t)
      BY <1>0, <1>5, <2>3
    <3> HIDE DEF j
    <3>2. b[j] = s[p + j]
      BY <1>2, <3>1
    <3>3. (c \o b)[i] = b[j]
      BY <1>0, <1>5, <1>6, <2>1, <2>3 DEF j
    <3>4. ~(i <= p) /\ ~(i <= p + Len(t))
      BY <1>0, <2>0, <2>3
    <3>5. (c \o b)[i] = s[i - Len(t)]
      BY <3>1, <3>2, <3>3
    <3> QED
      BY <3>4, <3>5, Zenon
  <2> QED
    BY <2>2, <2>3
<1>8. Inserted(s, p, t) = c \o b
  BY <1>4 DEF c
<1>9. Len(c \o b) = Len(s) + Len(t) /\ c \o b \in Text
  BY <1>0, <1>2, <1>5, <1>6 DEF Text
<1> QED
  BY <1>7, <1>8, <1>9, Zenon

LEMMA InsertedLength ==
  ASSUME NEW s \in Text, NEW p \in 0..Len(s), NEW t \in Text
  PROVE  Inserted(s, p, t) \in Text /\ Len(Inserted(s, p, t)) = Len(s) + Len(t)
BY InsertedIsText

LEMMA WithoutIsText ==
  ASSUME NEW s \in Text, NEW q \in 0..Len(s), NEW p \in 0..q
  PROVE  /\ Without(s, p, q) \in Text
         /\ Len(Without(s, p, q)) = Len(s) - (q - p)
         /\ \A i \in 1..(Len(s) - (q - p)) :
              Without(s, p, q)[i] = IF i <= p THEN s[i] ELSE s[i + (q - p)]
<1>0. s \in Seq(Char) /\ Len(s) \in Nat /\ p \in Nat /\ q \in Nat /\ p <= q /\ q <= Len(s)
  BY TextLen DEF Text
<1> DEFINE a == SubSeq(s, 1, p)
           b == SubSeq(s, q + 1, Len(s))
<1>1. a \in Seq(Char) /\ Len(a) = p /\ \A i \in 1..p : a[i] = s[i]
  BY <1>0, SubSeqProperties
<1>2. b \in Seq(Char) /\ Len(b) = Len(s) - q /\ \A i \in 1..(Len(s) - q) : b[i] = s[q + i]
  BY <1>0, SubSeqProperties
<1> HIDE DEF a, b
<1>3. /\ a \o b \in Seq(Char) /\ Len(a \o b) = Len(a) + Len(b)
      /\ \A i \in 1..(Len(a) + Len(b)) : (a \o b)[i] = IF i <= Len(a) THEN a[i] ELSE b[i - Len(a)]
  BY <1>1, <1>2, ConcatProperties
<1>4. ASSUME NEW i \in 1..(Len(s) - (q - p))
      PROVE  (a \o b)[i] = IF i <= p THEN s[i] ELSE s[i + (q - p)]
  <2>0. i \in Nat
    BY <1>0
  <2>1. i \in 1..(Len(a) + Len(b))
    BY <1>0, <1>1, <1>2
  <2>2. CASE i <= p
    BY <1>0, <1>1, <1>3, <2>1, <2>2
  <2>3. CASE i > p
    <3> DEFINE j == i - Len(a)
    <3>1. j \in 1..(Len(s) - q) /\ q + j = i + (q - p)
      BY <1>0, <1>1, <2>3
    <3> HIDE DEF j
    <3>2. b[j] = s[q + j]
      BY <1>2, <3>1
    <3>3. (a \o b)[i] = b[j]
      BY <1>0, <1>1, <1>3, <2>1, <2>3 DEF j
    <3>4. ~(i <= p)
      BY <1>0, <2>0, <2>3
    <3>5. (a \o b)[i] = s[i + (q - p)]
      BY <3>1, <3>2, <3>3
    <3> QED
      BY <3>4, <3>5, Zenon
  <2>4. i <= p \/ i > p
    BY <1>0, <2>0
  <2> QED
    BY <2>2, <2>3, <2>4, Zenon
<1>5. Without(s, p, q) = a \o b
  BY DEF Without, a, b
<1> QED
  BY <1>0, <1>1, <1>2, <1>3, <1>4, <1>5 DEF Text

LEMMA OverIsText ==
  ASSUME NEW s \in Text, NEW p \in Nat, NEW t \in Text
  PROVE  Over(s, p, t) \in Text /\ Len(Over(s, p, t)) = Len(s)
<1>1. Len(s) \in Nat /\ s \in [1..Len(s) -> Char] /\ Len(t) \in Nat /\ t \in [1..Len(t) -> Char]
  BY TextLen
<1>2. \A i \in 1..Len(s) : (IF i - p \in 1..Len(t) THEN t[i - p] ELSE s[i]) \in Char
  BY <1>1
<1>3. Over(s, p, t) \in [1..Len(s) -> Char]
  BY <1>2 DEF Over
<1> QED
  BY <1>1, <1>3, IsText

-------------------------------------------------------------------------------
(* Places.                                                                 *)

LEMMA SkipOnStops ==
  ASSUME NEW s \in Text, NEW p \in 0..Len(s), NEW set
  PROVE  /\ SkipOn(s, p, set) \in p..Len(s)
         /\ \A i \in p..(SkipOn(s, p, set) - 1) : At(s, i) \in set
         /\ SkipOn(s, p, set) = Len(s) \/ At(s, SkipOn(s, p, set)) \notin set
<1>0. Len(s) \in Nat /\ p \in Nat
  BY TextLen
<1> DEFINE Stops == {q \in p..Len(s) : q = Len(s) \/ At(s, q) \notin set}
<1>1. Stops \subseteq Nat /\ Len(s) \in Stops
  BY <1>0
<1>2. PICK e \in Stops : \A f \in Stops : e <= f
  BY <1>1, LeastNumber
<1>3. e \in p..Len(s) /\ (e = Len(s) \/ At(s, e) \notin set)
  OBVIOUS
<1>4. ASSUME NEW i \in p..(e - 1) PROVE At(s, i) \in set
  <2>1. i \in p..Len(s) /\ i # Len(s) /\ ~(e <= i)
    BY <1>0, <1>3
  <2> QED
    BY <1>2, <2>1
<1>5. \E q \in p..Len(s) : (\A i \in p..(q - 1) : At(s, i) \in set) /\ (q = Len(s) \/ At(s, q) \notin set)
  BY <1>3, <1>4
<1> QED
  BY <1>5, Zenon DEF SkipOn

LEMMA SkipBackStops ==
  ASSUME NEW s \in Text, NEW p \in 0..Len(s), NEW set
  PROVE  /\ SkipBack(s, p, set) \in 0..p
         /\ \A i \in SkipBack(s, p, set)..(p - 1) : At(s, i) \in set
         /\ SkipBack(s, p, set) = 0 \/ At(s, SkipBack(s, p, set) - 1) \notin set
<1>0. Len(s) \in Nat /\ p \in Nat
  BY TextLen
<1> DEFINE Stops == {d \in 0..p : p - d = 0 \/ At(s, p - d - 1) \notin set}
<1>1. Stops \subseteq Nat /\ p \in Stops
  BY <1>0
<1>2. PICK e \in Stops : \A f \in Stops : e <= f
  BY <1>1, LeastNumber
<1>3. p - e \in 0..p /\ (p - e = 0 \/ At(s, p - e - 1) \notin set) /\ e \in 0..p
  BY <1>0
<1>4. ASSUME NEW i \in (p - e)..(p - 1) PROVE At(s, i) \in set
  <2> DEFINE d == p - i - 1
  <2>1. d \in 0..p /\ p - d # 0 /\ ~(e <= d) /\ p - d - 1 = i
    BY <1>0, <1>3
  <2> HIDE DEF d
  <2> QED
    BY <1>2, <2>1
<1>5. \E q \in 0..p : (\A i \in q..(p - 1) : At(s, i) \in set) /\ (q = 0 \/ At(s, q - 1) \notin set)
  BY <1>3, <1>4
<1> QED
  BY <1>5, Zenon DEF SkipBack

-------------------------------------------------------------------------------
(* Loops over an argument.                                                 *)

\* g is where F leads from p, turn by turn.
Loops(S, F, p, n, g) ==
  g \in [0..n -> S] /\ g[0] = p /\ \A k \in 1..n : g[k] = F[g[k - 1]]

\* A step within a set can be taken any number of times.
LEMMA LoopExists ==
  ASSUME NEW S, NEW F, F \in [S -> S], NEW p \in S, NEW n \in Nat
  PROVE  \E g : Loops(S, F, p, n, g)
<1> DEFINE Good(m) == \E g \in [0..m -> S] : g[0] = p /\ \A k \in 1..m : g[k] = F[g[k - 1]]
           Bad == {m \in Nat : ~Good(m)}
<1>1. Good(0)
  <2> DEFINE g == [k \in 0..0 |-> p]
  <2>1. g \in [0..0 -> S] /\ g[0] = p /\ \A k \in 1..0 : g[k] = F[g[k - 1]]
    OBVIOUS
  <2> QED
    BY <2>1
<1>2. ASSUME NEW m \in Nat \ {0}, Good(m - 1) PROVE Good(m)
  <2>1. PICK g \in [0..(m - 1) -> S] : g[0] = p /\ \A k \in 1..(m - 1) : g[k] = F[g[k - 1]]
    BY <1>2
  <2> DEFINE h == [k \in 0..m |-> IF k = m THEN F[g[m - 1]] ELSE g[k]]
  <2>2. m - 1 \in 0..(m - 1) /\ g[m - 1] \in S
    OBVIOUS
  <2>3. h \in [0..m -> S]
    <3>1. \A k \in 0..m : k # m => k \in 0..(m - 1)
      OBVIOUS
    <3> QED
      BY <2>2, <3>1
  <2>4. h[0] = p
    BY <2>1
  <2>5. ASSUME NEW k \in 1..m PROVE h[k] = F[h[k - 1]]
    <3>1. k - 1 \in 0..m /\ k - 1 # m /\ h[k - 1] = g[k - 1]
      OBVIOUS
    <3>2. CASE k = m
      BY <3>1, <3>2
    <3>3. CASE k # m
      <4>1. k \in 1..(m - 1)
        BY <3>3
      <4> QED
        BY <2>1, <3>1, <3>3, <4>1
    <3> QED
      BY <3>2, <3>3
  <2> QED
    BY <2>3, <2>4, <2>5
<1> HIDE DEF Good
<1>3. Bad = {}
  <2> SUFFICES ASSUME Bad # {} PROVE FALSE
    OBVIOUS
  <2>1. Bad \subseteq Nat /\ \A m \in Nat : m \in Bad <=> ~Good(m)
    OBVIOUS
  <2> HIDE DEF Bad
  <2>2. PICK e \in Bad : \A f \in Bad : e <= f
    BY <2>1, LeastNumber
  <2>3. e \in Nat /\ ~Good(e) /\ e # 0
    BY <1>1, <2>1
  <2>4. e - 1 \in Nat /\ e - 1 \notin Bad /\ e \in Nat \ {0}
    BY <2>2, <2>3
  <2> QED
    BY <1>2, <2>1, <2>3, <2>4
<1>4. Good(n)
  BY <1>3
<1> QED
  BY <1>4 DEF Good, Loops

\* It stays in the set.
LEMMA LoopStays ==
  ASSUME NEW S, NEW n \in Nat, NEW g, g[0] \in S,
         \A k \in 1..n : g[k - 1] \in S => g[k] \in S
  PROVE  g[n] \in S
<1> DEFINE Bad == {k \in 0..n : g[k] \notin S}
<1>1. Bad = {}
  <2> SUFFICES ASSUME Bad # {} PROVE FALSE
    OBVIOUS
  <2>1. Bad \subseteq Nat /\ \A k \in 0..n : k \in Bad <=> g[k] \notin S
    OBVIOUS
  <2>2. \A k \in Bad : k \in 0..n
    OBVIOUS
  <2> HIDE DEF Bad
  <2>3. PICK e \in Bad : \A f \in Bad : e <= f
    BY <2>1, LeastNumber
  <2>4. e \in 0..n /\ e # 0
    BY <2>1, <2>2
  <2>5. e - 1 \in 0..n /\ e - 1 \notin Bad /\ e \in 1..n
    BY <2>3, <2>4
  <2> QED
    BY <2>1, <2>5
<1>2. n \in 0..n
  OBVIOUS
<1> QED
  BY <1>1, <1>2

-------------------------------------------------------------------------------
(* Graphemes.                                                              *)

LEMMA PairFits ==
  ASSUME NEW s \in Text, NEW p \in Nat, Pair(s, p)
  PROVE  p + 2 <= Len(s)
<1>1. Len(s) \in Nat /\ At(s, p + 1) = Trail
  BY TextLen DEF Pair
<1>2. p + 1 < Len(s)
  BY <1>1, CharsAreApart DEF At
<1> QED
  BY <1>1, <1>2

\* Where no code point is cut by x, it is by none behind or ahead of x either.
LEMMA BetweenCodePoints ==
  ASSUME NEW s \in Text, NEW x \in 0..Len(s)
  PROVE  /\ Between(s, x) <=> (x > 0 => ~Pair(s, x - 1))
         /\ x > 0 /\ At(s, x - 1) # Lead => Between(s, x)
         /\ At(s, x) # Trail => Between(s, x)
<1>1. Len(s) \in Nat /\ x \in Nat
  BY TextLen
<1>2. x > 0 => x - 1 + 1 = x
  BY <1>1
<1> QED
  BY <1>1, <1>2 DEF Between, Pair

LEMMA NextGraphemeStays ==
  ASSUME NEW s \in Text, NEW x \in 0..Len(s)
  PROVE  /\ NextGrapheme(s, x) \in x..Len(s)
         /\ Whole(s) /\ Between(s, x) => Between(s, NextGrapheme(s, x))
<1>0. Len(s) \in Nat /\ x \in Nat
  BY TextLen
<1>1. CASE x >= Len(s)
  <2>1. x = Len(s) /\ NextGrapheme(s, x) = x
    BY <1>0, <1>1 DEF NextGrapheme
  <2> QED
    BY <1>0, <2>1
<1>2. CASE x < Len(s)
  <2> DEFINE w == x + (IF Pair(s, x) THEN 2 ELSE 1)
             e == SkipOn(s, w, {Combining})
  <2>1. w \in 0..Len(s) /\ w \in Nat /\ w > x
    BY <1>0, <1>2, PairFits
  <2>2. NextGrapheme(s, x) = e
    BY <1>0, <1>2 DEF NextGrapheme
  <2>3. Whole(s) => Between(s, w)
    <3>1. CASE Pair(s, x)
      <4>1. w = x + 2 /\ w - 1 = x + 1 /\ At(s, x + 1) = Trail
        BY <1>0, <3>1 DEF Pair
      <4>2. w > 0 /\ At(s, w - 1) # Lead
        BY <2>1, <4>1, CharsAreApart
      <4> HIDE DEF w
      <4> QED
        BY <2>1, <4>2, BetweenCodePoints
    <3>2. CASE ~Pair(s, x)
      <4>1. w = x + 1 /\ w - 1 = x
        BY <1>0, <3>2
      <4>2. w > 0 => ~Pair(s, w - 1)
        BY <3>2, <4>1
      <4> HIDE DEF w
      <4> QED
        BY <2>1, <4>2, BetweenCodePoints
    <3> QED
      BY <3>1, <3>2
  <2> HIDE DEF w
  <2>4. e \in w..Len(s) /\ \A i \in w..(e - 1) : At(s, i) \in {Combining}
    BY <2>1, SkipOnStops
  <2> HIDE DEF e
  <2>5. e \in 0..Len(s) /\ e \in x..Len(s)
    BY <1>0, <2>1, <2>4
  <2>6. CASE e = w
    BY <2>2, <2>3, <2>5, <2>6
  <2>7. CASE e # w
    <3>1. e > 0 /\ e - 1 \in w..(e - 1)
      BY <1>0, <2>1, <2>4, <2>7
    <3>2. At(s, e - 1) # Lead
      BY <2>4, <3>1, CharsAreApart
    <3>3. Between(s, e)
      BY <2>5, <3>1, <3>2, BetweenCodePoints
    <3> QED
      BY <2>2, <2>5, <3>3
  <2> QED
    BY <2>6, <2>7
<1> QED
  BY <1>0, <1>1, <1>2

\* Back by a code point, and on back from the places of marks.
Back(s, q) == IF q > 1 /\ Pair(s, q - 2) THEN q - 2 ELSE q - 1

StartOf(s, g, q) == IF q = 0 \/ At(s, q) # Combining THEN q ELSE g[Back(s, q)]

FindsStart(s, p, g) == g = [q \in 0..p |-> StartOf(s, g, q)]

LEMMA BackIsBack ==
  ASSUME NEW s \in Text, NEW q \in Nat \ {0}
  PROVE  Back(s, q) \in 0..(q - 1)
BY DEF Back

LEMMA StartExists ==
  ASSUME NEW s \in Text, NEW p \in Nat
  PROVE  \E g : FindsStart(s, p, g)
<1> DEFINE Good(m) == \E g : \A q \in 0..m : g[q] = StartOf(s, g, q)
           Bad == {m \in Nat : ~Good(m)}
<1>1. Good(0)
  <2> DEFINE g == [q \in 0..0 |-> q]
  <2>1. \A q \in 0..0 : g[q] = StartOf(s, g, q)
    BY DEF StartOf
  <2> QED
    BY <2>1
<1>2. ASSUME NEW m \in Nat \ {0}, Good(m - 1) PROVE Good(m)
  <2>1. PICK g : \A q \in 0..(m - 1) : g[q] = StartOf(s, g, q)
    BY <1>2
  <2> DEFINE h == [q \in 0..m |-> StartOf(s, g, q)]
  <2>2. \A q \in 0..(m - 1) : h[q] = g[q]
    BY <2>1
  <2>3. ASSUME NEW q \in 0..m PROVE h[q] = StartOf(s, h, q)
    <3>1. h[q] = StartOf(s, g, q)
      OBVIOUS
    <3> HIDE DEF h
    <3>2. q # 0 => Back(s, q) \in 0..(m - 1)
      <4>1. q # 0 => q \in Nat \ {0} /\ q - 1 <= m - 1
        OBVIOUS
      <4> QED
        BY <4>1, BackIsBack
    <3>3. q # 0 => h[Back(s, q)] = g[Back(s, q)]
      BY <2>2, <3>2
    <3> QED
      BY <3>1, <3>3 DEF StartOf
  <2> QED
    BY <2>3
<1> HIDE DEF Good
<1>3. Bad = {}
  <2> SUFFICES ASSUME Bad # {} PROVE FALSE
    OBVIOUS
  <2>1. Bad \subseteq Nat /\ \A m \in Nat : m \in Bad <=> ~Good(m)
    OBVIOUS
  <2> HIDE DEF Bad
  <2>2. PICK e \in Bad : \A f \in Bad : e <= f
    BY <2>1, LeastNumber
  <2>3. e \in Nat /\ ~Good(e) /\ e # 0
    BY <1>1, <2>1
  <2>4. e - 1 \in Nat /\ e - 1 \notin Bad /\ e \in Nat \ {0}
    BY <2>2, <2>3
  <2> QED
    BY <1>2, <2>1, <2>3, <2>4
<1>4. PICK g : \A q \in 0..p : g[q] = StartOf(s, g, q)
  BY <1>3 DEF Good
<1> DEFINE h == [q \in 0..p |-> g[q]]
<1>5. ASSUME NEW q \in 0..p PROVE h[q] = StartOf(s, h, q)
  <2>1. h[q] = StartOf(s, g, q)
    BY <1>4
  <2>2. q # 0 => Back(s, q) \in 0..p
    <3>1. q # 0 => q \in Nat \ {0} /\ q - 1 <= p
      OBVIOUS
    <3> QED
      BY <3>1, BackIsBack
  <2>3. q # 0 => h[Back(s, q)] = g[Back(s, q)]
    BY <2>2
  <2> QED
    BY <2>1, <2>3 DEF StartOf
<1>6. h = [q \in 0..p |-> StartOf(s, h, q)]
  BY <1>5
<1> QED
  BY <1>6 DEF FindsStart

LEMMA PrevGraphemeUnfolds ==
  ASSUME NEW s \in Text, NEW p \in Nat \ {0}
  PROVE  \E g : FindsStart(s, p, g) /\ PrevGrapheme(s, p) = g[Back(s, p)]
<1> DEFINE c == CHOOSE g : FindsStart(s, p, g)
<1>1. FindsStart(s, p, c)
  BY StartExists
<1>2. PrevGrapheme(s, p) = c[Back(s, p)]
  BY Zenon DEF PrevGrapheme, FindsStart, StartOf, Back
<1> QED
  BY <1>1, <1>2

\* From r to behind q there is one code point and the marks on it.
OneGrapheme(s, r, q) ==
  /\ r \in 0..q
  /\ \A j \in (r + (IF Pair(s, r) THEN 2 ELSE 1))..q : At(s, j) = Combining
  /\ Between(s, q) => Between(s, r)

LEMMA OneBack ==
  ASSUME NEW s \in Text, NEW q \in 1..Len(s)
  PROVE  /\ Back(s, q) \in 0..(q - 1)
         /\ Between(s, q) => Between(s, Back(s, q))
         /\ Back(s, q) = q - 1 \/ (Back(s, q) = q - 2 /\ Pair(s, Back(s, q)))
<1>0. Len(s) \in Nat /\ q \in Nat \ {0}
  BY TextLen
<1>1. Back(s, q) \in 0..(q - 1) /\ (Back(s, q) = q - 1 \/ (Back(s, q) = q - 2 /\ Pair(s, Back(s, q))))
  BY <1>0, BackIsBack DEF Back
<1>2. Between(s, Back(s, q))
  <2>1. CASE q > 1 /\ Pair(s, q - 2)
    <3>1. Back(s, q) = q - 2 /\ q - 2 \in 0..Len(s) /\ At(s, q - 2) # Trail
      BY <1>0, <2>1, CharsAreApart DEF Back, Pair
    <3>2. Between(s, q - 2)
      BY <3>1, BetweenCodePoints
    <3> QED
      BY <3>1, <3>2
  <2>2. CASE ~(q > 1 /\ Pair(s, q - 2))
    <3> DEFINE b == q - 1
    <3>1. Back(s, q) = b /\ b \in 0..Len(s) /\ (b > 0 => ~Pair(s, b - 1))
      <4>1. b - 1 = q - 2 /\ (b > 0 => q > 1)
        BY <1>0
      <4> QED
        BY <1>0, <2>2, <4>1 DEF Back
    <3> HIDE DEF b
    <3>2. Between(s, b)
      BY <3>1, BetweenCodePoints
    <3> QED
      BY <3>1, <3>2
  <2> QED
    BY <2>1, <2>2
<1> QED
  BY <1>1, <1>2

\* A step back over a mark, or from the place asked for, comes to a place whose
\* grapheme goes on to where the step was from.
LEMMA OneGraphemeMore ==
  ASSUME NEW s \in Text, NEW g, NEW q \in 1..Len(s),
         g[Back(s, q)] = StartOf(s, g, Back(s, q)),
         OneGrapheme(s, g[Back(s, q)], Back(s, q))
  PROVE  LET r == g[Back(s, q)]
         IN /\ r \in 0..(q - 1) /\ (Between(s, q) => Between(s, r))
            /\ \A j \in (r + (IF Pair(s, r) THEN 2 ELSE 1))..(q - 1) : At(s, j) = Combining
<1>0. Len(s) \in Nat /\ q \in Nat \ {0}
  BY TextLen
<1> DEFINE b == Back(s, q)
           r == g[b]
           w == r + (IF Pair(s, r) THEN 2 ELSE 1)
<1>1. /\ b \in 0..(q - 1) /\ (Between(s, q) => Between(s, b))
      /\ b = q - 1 \/ (b = q - 2 /\ Pair(s, b))
  BY OneBack
<1>2. r \in 0..b /\ (Between(s, b) => Between(s, r)) /\ \A j \in w..b : At(s, j) = Combining
  BY DEF OneGrapheme
<1>3. b = q - 2 /\ Pair(s, b) => r = b /\ w = q
  <2>1. b = q - 2 /\ Pair(s, b) => At(s, b) # Combining
    BY CharsAreApart DEF Pair
  <2>2. b = q - 2 /\ Pair(s, b) => r = b
    BY <2>1 DEF StartOf
  <2> HIDE DEF b
  <2> QED
    BY <1>0, <1>1, <2>2
<1> HIDE DEF b, w
<1>4. ASSUME NEW j \in w..(q - 1) PROVE At(s, j) = Combining
  <2>1. CASE b = q - 1
    BY <1>2, <2>1
  <2>2. CASE b = q - 2 /\ Pair(s, b)
    BY <1>0, <1>3, <2>2
  <2> QED
    BY <1>1, <2>1, <2>2
<1>5. r \in 0..(q - 1) /\ (Between(s, q) => Between(s, r))
  BY <1>0, <1>1, <1>2
<1> QED
  BY <1>4, <1>5 DEF b, w

LEMMA StartIsFound ==
  ASSUME NEW s \in Text, NEW p \in 0..Len(s), NEW g, FindsStart(s, p, g), NEW q \in 0..p
  PROVE  OneGrapheme(s, g[q], q)
<1>0. Len(s) \in Nat /\ p \in Nat
  BY TextLen
<1> DEFINE Bad == {k \in 0..p : ~OneGrapheme(s, g[k], k)}
<1>1. \A k \in 0..p : g[k] = StartOf(s, g, k)
  BY DEF FindsStart
<1>2. Bad = {}
  <2> SUFFICES ASSUME Bad # {} PROVE FALSE
    OBVIOUS
  <2>1. Bad \subseteq Nat /\ \A k \in 0..p : k \in Bad <=> ~OneGrapheme(s, g[k], k)
    OBVIOUS
  <2>2. \A k \in Bad : k \in 0..p
    OBVIOUS
  <2> HIDE DEF Bad
  <2>3. PICK e \in Bad : \A f \in Bad : e <= f
    BY <2>1, LeastNumber
  <2>4. e \in 0..p /\ e \in Nat /\ ~OneGrapheme(s, g[e], e) /\ e <= Len(s)
    BY <1>0, <2>1, <2>2
  <2>5. CASE e = 0 \/ At(s, e) # Combining
    <3>1. g[e] = e
      BY <1>1, <2>4, <2>5 DEF StartOf
    <3>2. \A j \in (e + (IF Pair(s, e) THEN 2 ELSE 1))..e : FALSE
      BY <2>4
    <3> QED
      BY <2>4, <3>1, <3>2 DEF OneGrapheme
  <2>6. CASE ~(e = 0 \/ At(s, e) # Combining)
    <3> DEFINE b == Back(s, e)
               r == g[b]
    <3>1. e \in 1..Len(s) /\ e # 0 /\ At(s, e) = Combining
      BY <1>0, <2>4, <2>6
    <3>2. b \in 0..(e - 1)
      BY <3>1, OneBack
    <3> HIDE DEF b
    <3>3. b \in 0..p /\ b \notin Bad
      BY <2>3, <2>4, <3>2
    <3>4. g[b] = StartOf(s, g, b) /\ OneGrapheme(s, g[b], b)
      BY <1>1, <2>1, <3>3
    <3>5. /\ r \in 0..(e - 1) /\ (Between(s, e) => Between(s, r))
          /\ \A j \in (r + (IF Pair(s, r) THEN 2 ELSE 1))..(e - 1) : At(s, j) = Combining
      BY <3>1, <3>4, OneGraphemeMore DEF b
    <3>6. g[e] = r
      BY <1>1, <2>4, <3>1 DEF StartOf, b
    <3>7. r \in 0..e /\ (Between(s, e) => Between(s, r))
      BY <2>4, <3>5
    <3> HIDE DEF r
    <3>8. ASSUME NEW j \in (r + (IF Pair(s, r) THEN 2 ELSE 1))..e PROVE At(s, j) = Combining
      <4>1. j = e \/ j \in (r + (IF Pair(s, r) THEN 2 ELSE 1))..(e - 1)
        BY <2>4, <3>7
      <4> QED
        BY <3>1, <3>5, <4>1
    <3> QED
      BY <2>4, <3>6, <3>7, <3>8 DEF OneGrapheme
  <2> QED
    BY <2>5, <2>6
<1> QED
  BY <1>2

\* What is one grapheme back is between code points when the place was, and the
\* grapheme there is all of the text up to the place, or more.
LEMMA PrevGraphemeStays ==
  ASSUME NEW s \in Text, NEW p \in 0..Len(s)
  PROVE  /\ PrevGrapheme(s, p) \in 0..p
         /\ Between(s, p) => Between(s, PrevGrapheme(s, p))
         /\ NextGrapheme(s, PrevGrapheme(s, p)) >= p
<1>0. Len(s) \in Nat /\ p \in Nat
  BY TextLen
<1>1. CASE p = 0
  <2>1. PrevGrapheme(s, p) = 0
    BY <1>1 DEF PrevGrapheme
  <2>2. NextGrapheme(s, 0) \in 0..Len(s)
    BY <1>0, <1>1, NextGraphemeStays
  <2> QED
    BY <1>0, <1>1, <2>1, <2>2
<1>2. CASE p # 0
  <2>1. p \in 1..Len(s) /\ p \in Nat \ {0}
    BY <1>0, <1>2
  <2>2. PICK g : FindsStart(s, p, g) /\ PrevGrapheme(s, p) = g[Back(s, p)]
    BY <2>1, PrevGraphemeUnfolds
  <2>3. Back(s, p) \in 0..p
    BY <1>0, <2>1, OneBack
  <2>4. g[Back(s, p)] = StartOf(s, g, Back(s, p)) /\ OneGrapheme(s, g[Back(s, p)], Back(s, p))
    <3>1. OneGrapheme(s, g[Back(s, p)], Back(s, p))
      BY <2>2, <2>3, StartIsFound
    <3> QED
      BY <2>2, <2>3, <3>1 DEF FindsStart
  <2> DEFINE r == g[Back(s, p)]
             w == r + (IF Pair(s, r) THEN 2 ELSE 1)
  <2>5. r \in 0..(p - 1) /\ (Between(s, p) => Between(s, r)) /\ \A j \in w..(p - 1) : At(s, j) = Combining
    BY <2>1, <2>4, OneGraphemeMore
  <2>6. PrevGrapheme(s, p) = r
    BY <2>2
  <2> HIDE DEF r
  <2>7. w \in 0..Len(s) /\ r < Len(s) /\ r \in Nat
    BY <1>0, <2>1, <2>5, PairFits
  <2> DEFINE e == SkipOn(s, w, {Combining})
  <2>8. NextGrapheme(s, r) = e
    BY <1>0, <2>7 DEF NextGrapheme
  <2> HIDE DEF w
  <2>9. e \in w..Len(s) /\ (e = Len(s) \/ At(s, e) # Combining)
    BY <2>7, SkipOnStops
  <2> HIDE DEF e
  <2>10. e >= p
    <3> SUFFICES ASSUME e < p PROVE FALSE
      BY <1>0, <2>7, <2>9
    <3>1. e \in w..(p - 1) /\ e # Len(s)
      BY <1>0, <2>7, <2>9
    <3> QED
      BY <2>5, <2>9, <3>1
  <2>11. r \in 0..p
    BY <1>0, <2>5
  <2> QED
    BY <2>5, <2>6, <2>8, <2>10, <2>11
<1> QED
  BY <1>1, <1>2

\* The places a step on, and a step back, may come to.
Behind(s, p) == {x \in p..Len(s) : Whole(s) /\ Between(s, p) => Between(s, x)}
Ahead(s, p) == {x \in 0..p : Whole(s) /\ Between(s, p) => Between(s, x)}

OnByGraphemes(s, p, n, g) == g = [k \in 0..n |-> IF k = 0 THEN p ELSE NextGrapheme(s, g[k - 1])]
BackByGraphemes(s, p, n, g) == g = [k \in 0..n |-> IF k = 0 THEN p ELSE PrevGrapheme(s, g[k - 1])]

LEMMA NextGraphemesStay ==
  ASSUME NEW s \in Text, NEW p \in 0..Len(s), NEW n \in Nat
  PROVE  /\ NextGraphemes(s, p, n) \in Behind(s, p)
         /\ n = 0 => NextGraphemes(s, p, n) = p
<1>0. Len(s) \in Nat /\ p \in Nat
  BY TextLen
<1> DEFINE S == Behind(s, p)
           F == [x \in S |-> NextGrapheme(s, x)]
           c == CHOOSE g : OnByGraphemes(s, p, n, g)
<1>1. p \in S
  BY <1>0 DEF Behind
<1>2. ASSUME NEW x \in S PROVE NextGrapheme(s, x) \in S
  <2>1. x \in 0..Len(s) /\ x \in p..Len(s) /\ (Whole(s) /\ Between(s, p) => Between(s, x))
    BY <1>0 DEF Behind
  <2>2. /\ NextGrapheme(s, x) \in x..Len(s)
        /\ Whole(s) /\ Between(s, x) => Between(s, NextGrapheme(s, x))
    BY <2>1, NextGraphemeStays
  <2> QED
    BY <1>0, <2>1, <2>2 DEF Behind
<1> HIDE DEF S
<1>3. F \in [S -> S] /\ \A x \in S : F[x] = NextGrapheme(s, x)
  BY <1>2
<1> HIDE DEF F
<1>4. PICK f : Loops(S, F, p, n, f)
  <2>1. F \in [S -> S]
    BY <1>3
  <2> QED
    BY <1>1, <2>1, LoopExists, Zenon
<1>5. \A k \in 0..n : f[k] = IF k = 0 THEN p ELSE NextGrapheme(s, f[k - 1])
  <2>1. \A k \in 1..n : k - 1 \in 0..n
    OBVIOUS
  <2> QED
    BY <1>3, <1>4, <2>1 DEF Loops
<1>6. OnByGraphemes(s, p, n, f)
  BY <1>4, <1>5 DEF OnByGraphemes, Loops
<1>7. OnByGraphemes(s, p, n, c)
  BY <1>6
<1>8. NextGraphemes(s, p, n) = c[n]
  BY Zenon DEF NextGraphemes, OnByGraphemes
<1> HIDE DEF c
<1>9. c[0] = p /\ \A k \in 1..n : c[k] = NextGrapheme(s, c[k - 1])
  BY <1>7 DEF OnByGraphemes
<1>10. c[n] \in S
  <2>1. c[0] \in S /\ \A k \in 1..n : c[k - 1] \in S => c[k] \in S
    BY <1>1, <1>2, <1>9
  <2> QED
    BY <2>1, LoopStays, Zenon
<1> QED
  BY <1>8, <1>9, <1>10 DEF S

LEMMA PrevGraphemesStay ==
  ASSUME NEW s \in Text, NEW p \in 0..Len(s), NEW n \in Nat
  PROVE  /\ PrevGraphemes(s, p, n) \in Ahead(s, p)
         /\ n = 0 => PrevGraphemes(s, p, n) = p
         /\ n = 1 => PrevGraphemes(s, p, n) = PrevGrapheme(s, p)
<1>0. Len(s) \in Nat /\ p \in Nat
  BY TextLen
<1> DEFINE S == Ahead(s, p)
           F == [x \in S |-> PrevGrapheme(s, x)]
           c == CHOOSE g : BackByGraphemes(s, p, n, g)
<1>1. p \in S
  BY <1>0 DEF Ahead
<1>2. ASSUME NEW x \in S PROVE PrevGrapheme(s, x) \in S
  <2>1. x \in 0..Len(s) /\ x \in 0..p /\ (Whole(s) /\ Between(s, p) => Between(s, x))
    BY <1>0 DEF Ahead
  <2>2. PrevGrapheme(s, x) \in 0..x /\ (Between(s, x) => Between(s, PrevGrapheme(s, x)))
    BY <2>1, PrevGraphemeStays
  <2> QED
    BY <1>0, <2>1, <2>2 DEF Ahead
<1> HIDE DEF S
<1>3. F \in [S -> S] /\ \A x \in S : F[x] = PrevGrapheme(s, x)
  BY <1>2
<1> HIDE DEF F
<1>4. PICK f : Loops(S, F, p, n, f)
  <2>1. F \in [S -> S]
    BY <1>3
  <2> QED
    BY <1>1, <2>1, LoopExists, Zenon
<1>5. \A k \in 0..n : f[k] = IF k = 0 THEN p ELSE PrevGrapheme(s, f[k - 1])
  <2>1. \A k \in 1..n : k - 1 \in 0..n
    OBVIOUS
  <2> QED
    BY <1>3, <1>4, <2>1 DEF Loops
<1>6. BackByGraphemes(s, p, n, f)
  BY <1>4, <1>5 DEF BackByGraphemes, Loops
<1>7. BackByGraphemes(s, p, n, c)
  BY <1>6
<1>8. PrevGraphemes(s, p, n) = c[n]
  BY Zenon DEF PrevGraphemes, BackByGraphemes
<1> HIDE DEF c
<1>9. c[0] = p /\ \A k \in 1..n : c[k] = PrevGrapheme(s, c[k - 1])
  BY <1>7 DEF BackByGraphemes
<1>10. c[n] \in S
  <2>1. c[0] \in S /\ \A k \in 1..n : c[k - 1] \in S => c[k] \in S
    BY <1>1, <1>2, <1>9
  <2> QED
    BY <2>1, LoopStays, Zenon
<1> QED
  BY <1>8, <1>9, <1>10 DEF S

-------------------------------------------------------------------------------
(* Words.  No half of a code point is of a word.                           *)

WordOn(s, x) == SkipOn(s, SkipOn(s, x, Char \ WordChar), WordChar)
WordBack(s, x) == SkipBack(s, SkipBack(s, x, Char \ WordChar), WordChar)

LEMMA WordOnStays ==
  ASSUME NEW s \in Text, NEW x \in 0..Len(s)
  PROVE  WordOn(s, x) \in x..Len(s) /\ Between(s, WordOn(s, x))
<1>0. Len(s) \in Nat /\ x \in Nat
  BY TextLen
<1> DEFINE a == SkipOn(s, x, Char \ WordChar)
           b == SkipOn(s, a, WordChar)
<1>1. a \in x..Len(s) /\ (a = Len(s) \/ At(s, a) \notin Char \ WordChar)
  BY SkipOnStops
<1>2. a \in 0..Len(s) /\ a \in Nat
  BY <1>0, <1>1
<1> HIDE DEF a
<1>3. At(s, a) # Trail
  <2>1. a = Len(s) => At(s, a) = Old
    BY <1>0, <1>2 DEF At
  <2>2. At(s, a) \in Char
    BY <1>2, AtIsChar
  <2> QED
    BY <1>1, <2>1, <2>2, CharsAreApart
<1>4. Between(s, a)
  BY <1>2, <1>3, BetweenCodePoints
<1>5. b \in a..Len(s) /\ \A i \in a..(b - 1) : At(s, i) \in WordChar
  BY <1>2, SkipOnStops
<1> HIDE DEF b
<1>6. b \in 0..Len(s) /\ b \in x..Len(s)
  BY <1>0, <1>1, <1>2, <1>5
<1>7. Between(s, b)
  <2>1. CASE b = a
    BY <1>4, <2>1
  <2>2. CASE b # a
    <3>1. b > 0 /\ b - 1 \in a..(b - 1)
      BY <1>0, <1>2, <1>5, <2>2
    <3>2. At(s, b - 1) # Lead
      BY <1>5, <3>1, CharsAreApart
    <3> QED
      BY <1>6, <3>1, <3>2, BetweenCodePoints
  <2> QED
    BY <2>1, <2>2
<1> QED
  BY <1>6, <1>7 DEF WordOn, a, b

LEMMA WordBackStays ==
  ASSUME NEW s \in Text, NEW x \in 0..Len(s)
  PROVE  WordBack(s, x) \in 0..x /\ Between(s, WordBack(s, x))
<1>0. Len(s) \in Nat /\ x \in Nat
  BY TextLen
<1> DEFINE a == SkipBack(s, x, Char \ WordChar)
           b == SkipBack(s, a, WordChar)
<1>1. a \in 0..x /\ (a = 0 \/ At(s, a - 1) \notin Char \ WordChar)
  BY SkipBackStops
<1>2. a \in 0..Len(s) /\ a \in Nat
  BY <1>0, <1>1
<1> HIDE DEF a
<1>3. Between(s, a)
  <2>1. CASE a = 0
    BY <1>2, <2>1, BetweenCodePoints
  <2>2. CASE a # 0
    <3>1. a - 1 \in Nat /\ a > 0
      BY <1>2, <2>2
    <3>2. At(s, a - 1) \in WordChar
      BY <1>1, <2>2, <3>1, AtIsChar
    <3> QED
      BY <1>2, <3>1, <3>2, BetweenCodePoints, CharsAreApart
  <2> QED
    BY <2>1, <2>2
<1>4. b \in 0..a /\ \A i \in b..(a - 1) : At(s, i) \in WordChar
  BY <1>2, SkipBackStops
<1> HIDE DEF b
<1>5. b \in 0..Len(s) /\ b \in 0..x
  BY <1>0, <1>1, <1>2, <1>4
<1>6. Between(s, b)
  <2>1. CASE b = a
    BY <1>3, <2>1
  <2>2. CASE b # a
    <3>1. b \in b..(a - 1)
      BY <1>2, <1>4, <2>2
    <3>2. At(s, b) # Trail
      BY <1>4, <3>1, CharsAreApart
    <3> QED
      BY <1>5, <3>2, BetweenCodePoints
  <2> QED
    BY <2>1, <2>2
<1> QED
  BY <1>5, <1>6 DEF WordBack, a, b

OnByWords(s, p, n, g) == g = [k \in 0..n |-> IF k = 0 THEN p ELSE WordOn(s, g[k - 1])]
BackByWords(s, p, n, g) == g = [k \in 0..n |-> IF k = 0 THEN p ELSE WordBack(s, g[k - 1])]

LEMMA NextWordStays ==
  ASSUME NEW s \in Text, NEW p \in 0..Len(s), NEW n \in Nat
  PROVE  NextWord(s, p, n) \in Behind(s, p)
<1>0. Len(s) \in Nat /\ p \in Nat
  BY TextLen
<1> DEFINE S == Behind(s, p)
           F == [x \in S |-> WordOn(s, x)]
           c == CHOOSE g : OnByWords(s, p, n, g)
<1>1. p \in S
  BY <1>0 DEF Behind
<1>2. ASSUME NEW x \in S PROVE WordOn(s, x) \in S
  <2>1. x \in 0..Len(s) /\ x \in p..Len(s)
    BY <1>0 DEF Behind
  <2>2. WordOn(s, x) \in x..Len(s) /\ Between(s, WordOn(s, x))
    BY <2>1, WordOnStays
  <2> QED
    BY <1>0, <2>1, <2>2 DEF Behind
<1> HIDE DEF S
<1>3. F \in [S -> S] /\ \A x \in S : F[x] = WordOn(s, x)
  BY <1>2
<1> HIDE DEF F
<1>4. PICK f : Loops(S, F, p, n, f)
  <2>1. F \in [S -> S]
    BY <1>3
  <2> QED
    BY <1>1, <2>1, LoopExists, Zenon
<1>5. \A k \in 0..n : f[k] = IF k = 0 THEN p ELSE WordOn(s, f[k - 1])
  <2>1. \A k \in 1..n : k - 1 \in 0..n
    OBVIOUS
  <2> QED
    BY <1>3, <1>4, <2>1 DEF Loops
<1>6. OnByWords(s, p, n, f)
  BY <1>4, <1>5 DEF OnByWords, Loops
<1>7. OnByWords(s, p, n, c)
  BY <1>6
<1>8. NextWord(s, p, n) = c[n]
  BY Zenon DEF NextWord, OnByWords, WordOn
<1> HIDE DEF c
<1>9. c[0] = p /\ \A k \in 1..n : c[k] = WordOn(s, c[k - 1])
  BY <1>7 DEF OnByWords
<1>10. c[n] \in S
  <2>1. c[0] \in S /\ \A k \in 1..n : c[k - 1] \in S => c[k] \in S
    BY <1>1, <1>2, <1>9
  <2> QED
    BY <2>1, LoopStays, Zenon
<1> QED
  BY <1>8, <1>10 DEF S

LEMMA PrevWordStays ==
  ASSUME NEW s \in Text, NEW p \in 0..Len(s), NEW n \in Nat
  PROVE  PrevWord(s, p, n) \in Ahead(s, p)
<1>0. Len(s) \in Nat /\ p \in Nat
  BY TextLen
<1> DEFINE S == Ahead(s, p)
           F == [x \in S |-> WordBack(s, x)]
           c == CHOOSE g : BackByWords(s, p, n, g)
<1>1. p \in S
  BY <1>0 DEF Ahead
<1>2. ASSUME NEW x \in S PROVE WordBack(s, x) \in S
  <2>1. x \in 0..Len(s) /\ x \in 0..p
    BY <1>0 DEF Ahead
  <2>2. WordBack(s, x) \in 0..x /\ Between(s, WordBack(s, x))
    BY <2>1, WordBackStays
  <2> QED
    BY <1>0, <2>1, <2>2 DEF Ahead
<1> HIDE DEF S
<1>3. F \in [S -> S] /\ \A x \in S : F[x] = WordBack(s, x)
  BY <1>2
<1> HIDE DEF F
<1>4. PICK f : Loops(S, F, p, n, f)
  <2>1. F \in [S -> S]
    BY <1>3
  <2> QED
    BY <1>1, <2>1, LoopExists, Zenon
<1>5. \A k \in 0..n : f[k] = IF k = 0 THEN p ELSE WordBack(s, f[k - 1])
  <2>1. \A k \in 1..n : k - 1 \in 0..n
    OBVIOUS
  <2> QED
    BY <1>3, <1>4, <2>1 DEF Loops
<1>6. BackByWords(s, p, n, f)
  BY <1>4, <1>5 DEF BackByWords, Loops
<1>7. BackByWords(s, p, n, c)
  BY <1>6
<1>8. PrevWord(s, p, n) = c[n]
  BY Zenon DEF PrevWord, BackByWords, WordBack
<1> HIDE DEF c
<1>9. c[0] = p /\ \A k \in 1..n : c[k] = WordBack(s, c[k - 1])
  BY <1>7 DEF BackByWords
<1>10. c[n] \in S
  <2>1. c[0] \in S /\ \A k \in 1..n : c[k - 1] \in S => c[k] \in S
    BY <1>1, <1>2, <1>9
  <2> QED
    BY <2>1, LoopStays, Zenon
<1> QED
  BY <1>8, <1>10 DEF S

-------------------------------------------------------------------------------
(* What was taken out goes back in at the place it was taken from.         *)

LEMMA CutGoesBack ==
  ASSUME NEW s \in Text, NEW q \in 0..Len(s), NEW p \in 0..q
  PROVE  s = Inserted(Without(s, p, q), p, From(s, p, q))
<1>0. Len(s) \in Nat /\ p \in Nat /\ q \in Nat /\ p <= q /\ q <= Len(s) /\ s \in Seq(Char)
  BY TextLen DEF Text
<1> DEFINE w == Without(s, p, q)
           f == From(s, p, q)
           t == Inserted(w, p, f)
<1>1. /\ w \in Text /\ Len(w) = Len(s) - (q - p)
      /\ \A i \in 1..(Len(s) - (q - p)) : w[i] = IF i <= p THEN s[i] ELSE s[i + (q - p)]
  BY WithoutIsText
<1>2. f \in Text /\ Len(f) = q - p /\ \A i \in 1..(q - p) : f[i] = At(s, p + i - 1)
  BY <1>0, FromIsText
<1> HIDE DEF w, f
<1>3. p \in 0..Len(w) /\ Len(w) + Len(f) = Len(s)
  BY <1>0, <1>1, <1>2
<1>4. /\ t \in Text /\ Len(t) = Len(s)
      /\ \A i \in 1..Len(s) : t[i] = IF i <= p THEN w[i]
                                     ELSE IF i <= p + Len(f) THEN f[i - p] ELSE w[i - Len(f)]
  <2>1. /\ t \in Text /\ Len(t) = Len(w) + Len(f)
        /\ \A i \in 1..(Len(w) + Len(f)) : t[i] = IF i <= p THEN w[i]
                                     ELSE IF i <= p + Len(f) THEN f[i - p] ELSE w[i - Len(f)]
    BY <1>1, <1>2, <1>3, InsertedIsText, Zenon
  <2> HIDE DEF t
  <2>2. 1..(Len(w) + Len(f)) = 1..Len(s)
    BY <1>3
  <2> QED
    BY <1>3, <2>1, <2>2, Zenon
<1> HIDE DEF t
<1>5. ASSUME NEW i \in 1..Len(s) PROVE s[i] = t[i]
  <2>0. i \in Nat /\ i >= 1 /\ i <= Len(s)
    BY <1>0
  <2>1. CASE i <= p
    <3>1. i \in 1..(Len(s) - (q - p)) /\ t[i] = w[i]
      BY <1>0, <1>4, <2>0, <2>1
    <3> QED
      BY <1>1, <2>1, <3>1
  <2>2. CASE ~(i <= p) /\ i <= q
    <3> DEFINE j == i - p
    <3>1. j \in 1..(q - p) /\ p + j - 1 = i - 1 /\ i - 1 < Len(s) /\ i - 1 + 1 = i
      BY <1>0, <2>0, <2>2
    <3>2. t[i] = f[j]
      <4>1. i <= p + Len(f)
        BY <1>0, <1>2, <2>0, <2>2
      <4> QED
        BY <1>4, <2>2, <4>1
    <3> HIDE DEF j
    <3>3. f[j] = At(s, i - 1)
      BY <1>2, <3>1
    <3>4. At(s, i - 1) = s[i]
      BY <3>1 DEF At
    <3> QED
      BY <3>2, <3>3, <3>4
  <2>3. CASE ~(i <= p) /\ ~(i <= q)
    <3> DEFINE j == i - Len(f)
    <3>1. j \in 1..(Len(s) - (q - p)) /\ ~(j <= p) /\ j + (q - p) = i /\ ~(i <= p + Len(f))
      BY <1>0, <1>2, <2>0, <2>3
    <3>2. t[i] = w[j]
      BY <1>4, <2>3, <3>1
    <3> HIDE DEF j
    <3>3. w[j] = s[i]
      BY <1>1, <3>1
    <3> QED
      BY <3>2, <3>3
  <2> QED
    BY <2>1, <2>2, <2>3
<1>6. s = t
  <2>1. t \in Seq(Char) /\ Len(s) = Len(t)
    BY <1>4 DEF Text
  <2> QED
    BY <1>0, <1>5, <2>1, SeqEqual
<1> QED
  BY <1>6 DEF t, w, f

===============================================================================
