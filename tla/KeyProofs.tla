------------------------------- MODULE KeyProofs -------------------------------
(***************************************************************************)
(* Proofs about KeyMap and ReadLoop: the bindings, and the loop that reads *)
(* keys and runs what they are bound to.                                   *)
(*                                                                         *)
(* KeyMap, for tables of any size, any standard bindings and any           *)
(* sequences: every end of a key has a binding, what is bound can be       *)
(* typed, a bind takes effect, and the tree implements the table of        *)
(* KeyTable.  The tree is a set of paths closed under prefixes (IsTree).   *)
(* What an operation does is first said of the leaves: adding a key        *)
(* replaces those in conflict with it (AddedLeaves), deleting one takes    *)
(* those that begin with it (DeletedLeaves), clearing a character those it *)
(* leads to (ClearedLeaves).  The invariant KeyInv is then kept by every   *)
(* action (NextGood), each of which is a step of the table (TableStep).    *)
(*                                                                         *)
(* ReadLoop, for every key table, every set of key sequences and strings,  *)
(* and every number of characters: the argument is the one typed, the meta *)
(* key is for the next character, and the strings of the input queue are   *)
(* consumed as the one sequence of characters that module InputQueue       *)
(* describes.  The argument is a fold over the commands since the last     *)
(* that was no prefix, and the characters waiting are the strings          *)
(* flattened; what one more command or one more string adds to either      *)
(* comes first.                                                            *)
(***************************************************************************)
EXTENDS KeyMap, ReadLoop, SequenceTheorems, WellFoundedInduction, TLAPS

-------------------------------------------------------------------------------
(* Numbers.                                                                *)

LEMMA LeastNumber ==
  ASSUME NEW S, S \subseteq Nat, S # {}
  PROVE  \E e \in S : \A f \in S : e <= f
<1> DEFINE R == OpToRel(<, Nat)
<1>1. IsWellFoundedOn(R, Nat)
  BY NatLessThanWellFounded
<1>2. \A e, f \in Nat : <<e, f>> \in R <=> e < f
  BY DEF OpToRel
<1> HIDE DEF R
<1>3. PICK e \in S : \A f \in S : ~(<<f, e>> \in R)
  BY <1>1, WFMin
<1>4. ASSUME NEW f \in S PROVE e <= f
  <2>1. e \in Nat /\ f \in Nat
    OBVIOUS
  <2>2. ~(f < e)
    BY <1>2, <1>3, <2>1
  <2> QED
    BY <2>1, <2>2
<1> QED
  BY <1>4

-------------------------------------------------------------------------------
(* Prefixes.                                                               *)

KeySeqs == {w \in Seq(Nat) : w # <<>>}

LEMMA PrefixPoints ==
  ASSUME NEW p \in Seq(Nat), NEW q \in Seq(Nat)
  PROVE  IsPrefix(p, q) <=> Len(p) <= Len(q) /\ \A i \in 1..Len(p) : p[i] = q[i]
<1>1. Len(p) \in Nat /\ Len(q) \in Nat
  BY LenProperties
<1>2. /\ SubSeq(p, 1, Len(p)) = p
  BY SubSeqFull
<1>3. ASSUME Len(p) <= Len(q)
      PROVE  /\ SubSeq(q, 1, Len(p)) \in Seq(Nat) /\ Len(SubSeq(q, 1, Len(p))) = Len(p)
             /\ \A i \in 1..Len(p) : SubSeq(q, 1, Len(p))[i] = q[i]
  <2>1. \A i \in 1..Len(p) : q[i] \in Nat
    BY <1>1, <1>3, ElementOfSeq
  <2>2. /\ SubSeq(q, 1, Len(p)) \in Seq(Nat)
        /\ Len(SubSeq(q, 1, Len(p))) = IF 1 <= Len(p) THEN Len(p) - 1 + 1 ELSE 0
        /\ \A i \in 1..(Len(p) - 1 + 1) : SubSeq(q, 1, Len(p))[i] = q[1 + i - 1]
    BY <1>1, <2>1, SubSeqProperties
  <2> QED
    BY <1>1, <2>2
<1> DEFINE r == SubSeq(q, 1, Len(p))
<1> HIDE DEF r
<1>4. Len(p) <= Len(q) => (p = r <=> \A i \in 1..Len(p) : p[i] = q[i])
  BY <1>1, <1>3, SeqEqual DEF r
<1> QED
  BY <1>2, <1>4 DEF IsPrefix, r

LEMMA PrefixRefl ==
  ASSUME NEW p \in Seq(Nat)
  PROVE  IsPrefix(p, p)
BY PrefixPoints, LenProperties

LEMMA PrefixTrans ==
  ASSUME NEW p \in Seq(Nat), NEW q \in Seq(Nat), NEW r \in Seq(Nat),
         IsPrefix(p, q), IsPrefix(q, r)
  PROVE  IsPrefix(p, r)
<1>1. Len(p) \in Nat /\ Len(q) \in Nat /\ Len(r) \in Nat
  BY LenProperties
<1>2. Len(p) <= Len(q) /\ \A i \in 1..Len(p) : p[i] = q[i]
  BY PrefixPoints
<1>3. Len(q) <= Len(r) /\ \A i \in 1..Len(q) : q[i] = r[i]
  BY PrefixPoints
<1>4. Len(p) <= Len(r) /\ \A i \in 1..Len(p) : p[i] = r[i]
  BY <1>1, <1>2, <1>3
<1> QED
  BY <1>4, PrefixPoints

LEMMA PrefixAntisym ==
  ASSUME NEW p \in Seq(Nat), NEW q \in Seq(Nat), IsPrefix(p, q), IsPrefix(q, p)
  PROVE  p = q
<1>1. Len(p) \in Nat /\ Len(q) \in Nat
  BY LenProperties
<1>2. Len(p) <= Len(q) /\ Len(q) <= Len(p) /\ \A i \in 1..Len(p) : p[i] = q[i]
  BY PrefixPoints
<1>3. Len(p) = Len(q)
  BY <1>1, <1>2
<1> QED
  BY <1>2, <1>3, SeqEqual

\* Two that begin the same sequence begin one another.
LEMMA PrefixLinear ==
  ASSUME NEW p \in Seq(Nat), NEW q \in Seq(Nat), NEW r \in Seq(Nat),
         IsPrefix(p, r), IsPrefix(q, r)
  PROVE  IsPrefix(p, q) \/ IsPrefix(q, p)
<1>1. Len(p) \in Nat /\ Len(q) \in Nat /\ Len(r) \in Nat
  BY LenProperties
<1>2. Len(p) <= Len(r) /\ \A i \in 1..Len(p) : p[i] = r[i]
  BY PrefixPoints
<1>3. Len(q) <= Len(r) /\ \A i \in 1..Len(q) : q[i] = r[i]
  BY PrefixPoints
<1>4. CASE Len(p) <= Len(q)
  <2>1. \A i \in 1..Len(p) : p[i] = q[i]
    BY <1>1, <1>2, <1>3, <1>4
  <2> QED
    BY <1>4, <2>1, PrefixPoints
<1>5. CASE Len(q) <= Len(p)
  <2>1. \A i \in 1..Len(q) : q[i] = p[i]
    BY <1>1, <1>2, <1>3, <1>5
  <2> QED
    BY <1>5, <2>1, PrefixPoints
<1> QED
  BY <1>1, <1>4, <1>5

\* The nodes on the way to a key.
LEMMA PathsArePrefixes ==
  ASSUME NEW k \in KeySeqs
  PROVE  Paths(k) = {p \in KeySeqs : IsPrefix(p, k)}
<1>1. k \in Seq(Nat) /\ Len(k) \in Nat /\ \A i \in 1..Len(k) : k[i] \in Nat
  BY LenProperties, ElementOfSeq DEF KeySeqs
<1>2. ASSUME NEW i \in 1..Len(k)
      PROVE  SubSeq(k, 1, i) \in KeySeqs /\ IsPrefix(SubSeq(k, 1, i), k)
  <2>1. \A j \in 1..i : k[j] \in Nat
    BY <1>1
  <2> DEFINE p == SubSeq(k, 1, i)
  <2>2. p \in Seq(Nat) /\ Len(p) = i /\ \A j \in 1..i : p[j] = k[j]
    <3>1. /\ p \in Seq(Nat) /\ Len(p) = IF 1 <= i THEN i - 1 + 1 ELSE 0
          /\ \A j \in 1..(i - 1 + 1) : p[j] = k[1 + j - 1]
      BY <1>1, <2>1, SubSeqProperties
    <3> QED
      BY <1>1, <3>1
  <2> HIDE DEF p
  <2>3. p # <<>>
    BY <1>1, <2>2
  <2>4. IsPrefix(p, k)
    BY <1>1, <2>2, PrefixPoints
  <2> QED
    BY <2>2, <2>3, <2>4 DEF KeySeqs, p
<1>3. ASSUME NEW p \in KeySeqs, IsPrefix(p, k)
      PROVE  \E i \in 1..Len(k) : p = SubSeq(k, 1, i)
  <2>1. p \in Seq(Nat) /\ Len(p) \in Nat \ {0} /\ Len(p) <= Len(k)
    BY <1>1, <1>3, PrefixPoints, EmptySeq DEF KeySeqs
  <2>2. SubSeq(p, 1, Len(p)) = SubSeq(k, 1, Len(p))
    BY <1>3 DEF IsPrefix
  <2>3. p = SubSeq(k, 1, Len(p)) /\ Len(p) \in 1..Len(k)
    BY <1>1, <2>1, <2>2, SubSeqFull
  <2> QED
    BY <2>3
<1> QED
  BY <1>2, <1>3 DEF Paths

LEMMA PrefixHead ==
  ASSUME NEW p \in KeySeqs, NEW q \in KeySeqs, IsPrefix(p, q)
  PROVE  Head(p) = Head(q)
<1>1. Len(p) \in Nat \ {0} /\ p \in Seq(Nat) /\ q \in Seq(Nat)
  BY EmptySeq DEF KeySeqs
<1>2. p[1] = q[1]
  BY <1>1, PrefixPoints
<1> QED
  BY <1>1, <1>2 DEF KeySeqs

LEMMA SingleIsPrefix ==
  ASSUME NEW c \in Nat, NEW q \in KeySeqs
  PROVE  <<c>> \in KeySeqs /\ (IsPrefix(<<c>>, q) <=> Head(q) = c)
<1>1. Len(q) \in Nat \ {0} /\ q \in Seq(Nat) /\ Head(q) = q[1]
  BY EmptySeq DEF KeySeqs
<1>2. <<c>> \in KeySeqs /\ <<c>> \in Seq(Nat) /\ Len(<<c>>) = 1 /\ <<c>>[1] = c
  BY DEF KeySeqs
<1>3. IsPrefix(<<c>>, q) <=> Len(<<c>>) <= Len(q) /\ \A i \in 1..Len(<<c>>) : <<c>>[i] = q[i]
  BY <1>1, <1>2, PrefixPoints
<1> QED
  BY <1>1, <1>2, <1>3

\* What the proofs about trees use of prefixes.
LEMMA PrefixOrder ==
  /\ \A p \in KeySeqs : IsPrefix(p, p)
  /\ \A p, q, r \in KeySeqs : IsPrefix(p, q) /\ IsPrefix(q, r) => IsPrefix(p, r)
  /\ \A p, q \in KeySeqs : IsPrefix(p, q) /\ IsPrefix(q, p) => p = q
  /\ \A p, q, r \in KeySeqs : IsPrefix(p, r) /\ IsPrefix(q, r) => IsPrefix(p, q) \/ IsPrefix(q, p)
<1>1. \A p \in KeySeqs : p \in Seq(Nat)
  BY DEF KeySeqs
<1> HIDE DEF KeySeqs
<1> QED
  BY <1>1, PrefixRefl, PrefixTrans, PrefixAntisym, PrefixLinear

-------------------------------------------------------------------------------
(* Trees.                                                                  *)

IsTree(t) ==
  /\ DOMAIN t \subseteq KeySeqs
  /\ \A p \in DOMAIN t, q \in KeySeqs : IsPrefix(q, p) => q \in DOMAIN t

AllBound(t) == \A p \in Leaves(t) : t[p] # "none"

Conflicting(p, k) == IsPrefix(p, k) \/ IsPrefix(k, p)

\* The leaves after a key was added: it, and those it has no conflict with.
LEMMA AddedLeaves ==
  ASSUME NEW t, IsTree(t), NEW k \in KeySeqs, NEW v
  PROVE  /\ IsTree(Added(t, k, v))
         /\ Leaves(Added(t, k, v)) = {k} \cup {p \in Leaves(t) : ~Conflicting(p, k)}
         /\ Added(t, k, v)[k] = v
         /\ \A p \in Leaves(t) : ~Conflicting(p, k) => Added(t, k, v)[p] = t[p]
<1> DEFINE u == Added(t, k, v)
           D == {q \in DOMAIN t : ~Longer(k, q)} \cup {p \in KeySeqs : IsPrefix(p, k)}
<1>1. /\ DOMAIN u = D
      /\ \A p \in D : u[p] = IF p = k THEN v ELSE IF p \in DOMAIN t THEN t[p] ELSE "none"
  BY PathsArePrefixes DEF Added
<1>2. IsTree(u)
  <2>1. D \subseteq KeySeqs
    BY DEF IsTree
  <2>2. ASSUME NEW p \in D, NEW q \in KeySeqs, IsPrefix(q, p) PROVE q \in D
    <3>1. CASE IsPrefix(p, k)
      BY <2>1, <2>2, <3>1, PrefixOrder
    <3>2. CASE p \in DOMAIN t /\ ~Longer(k, p)
      <4>1. q \in DOMAIN t
        BY <2>2, <3>2 DEF IsTree
      <4>2. ~Longer(k, q)
        BY <2>1, <2>2, <3>2, PrefixOrder DEF Longer, IsStrictPrefix
      <4> QED
        BY <4>1, <4>2
    <3> QED
      BY <3>1, <3>2
  <2> QED
    BY <1>1, <2>1, <2>2 DEF IsTree
<1> HIDE DEF u
<1>3. k \in D /\ u[k] = v
  BY <1>1, PrefixOrder
<1>4. ASSUME NEW p \in Leaves(t), ~Conflicting(p, k)
      PROVE  u[p] = t[p] /\ p \in D /\ p # k
  BY <1>1, <1>3, <1>4, PrefixOrder DEF Leaves, Conflicting, Longer, IsStrictPrefix, IsTree
<1>5. ASSUME NEW p \in Leaves(t), ~Conflicting(p, k)
      PROVE  p \in Leaves(u)
  <2>1. ASSUME NEW q \in D PROVE ~Longer(p, q)
    <3>1. CASE q \in DOMAIN t
      BY <3>1 DEF Leaves
    <3>2. CASE q \in KeySeqs /\ IsPrefix(q, k)
      BY <1>5, <3>2, PrefixOrder DEF Leaves, Longer, IsStrictPrefix, Conflicting, IsTree
    <3> QED
      BY <3>1, <3>2
  <2> QED
    BY <1>1, <1>4, <1>5, <2>1 DEF Leaves
<1>6. k \in Leaves(u)
  <2>1. ASSUME NEW q \in D PROVE ~Longer(k, q)
    BY PrefixOrder DEF Longer, IsStrictPrefix
  <2> QED
    BY <1>1, <1>3, <2>1 DEF Leaves
<1>7. ASSUME NEW p \in Leaves(u), p # k
      PROVE  p \in Leaves(t) /\ ~Conflicting(p, k)
  <2>1. p \in D /\ p \in KeySeqs /\ \A q \in D : ~Longer(p, q)
    BY <1>1, <1>2 DEF Leaves, IsTree
  <2>2. ~IsPrefix(p, k)
    BY <1>3, <1>7, <2>1 DEF Longer, IsStrictPrefix
  <2>3. p \in DOMAIN t /\ ~IsPrefix(k, p)
    BY <1>7, <2>1, <2>2 DEF Longer, IsStrictPrefix
  <2>4. ASSUME NEW q \in DOMAIN t PROVE ~Longer(p, q)
    <3>1. CASE q \in D
      BY <2>1, <3>1
    <3>2. CASE Longer(k, q)
      <4>1. q \in KeySeqs
        BY DEF IsTree
      <4> QED
        BY <2>1, <2>2, <2>3, <3>2, <4>1, PrefixOrder DEF Longer, IsStrictPrefix
    <3> QED
      BY <3>1, <3>2
  <2> QED
    BY <2>2, <2>3, <2>4 DEF Leaves, Conflicting
<1> QED
  BY <1>2, <1>3, <1>4, <1>5, <1>6, <1>7 DEF u

\* The leaves after a key was deleted: those that do not begin with it.
LEMMA DeletedLeaves ==
  ASSUME NEW t, IsTree(t), NEW k \in KeySeqs
  PROVE  /\ IsTree(KeymacroDelete(t, k))
         /\ k \in DOMAIN t =>
              Leaves(KeymacroDelete(t, k)) = {p \in Leaves(t) : ~IsPrefix(k, p)}
         /\ \A p \in DOMAIN KeymacroDelete(t, k) : KeymacroDelete(t, k)[p] = t[p]
<1>1. CASE k \notin DOMAIN t
  BY <1>1 DEF KeymacroDelete
<1>2. CASE k \in DOMAIN t
  <2> DEFINE left == {p \in DOMAIN t : ~IsPrefix(k, p)}
             bare == {p \in left : /\ Longer(p, k)
                                   /\ \A q \in left : Longer(p, q) => IsPrefix(q, k)}
             u == KeymacroDelete(t, k)
  <2>1. DOMAIN u = left \ bare /\ \A p \in left \ bare : u[p] = t[p]
    BY <1>2 DEF KeymacroDelete
  <2>2. IsTree(u)
    <3>1. left \subseteq KeySeqs
      BY DEF IsTree
    <3>2. ASSUME NEW p \in left \ bare, NEW q \in KeySeqs, IsPrefix(q, p) PROVE q \in left \ bare
      <4>1. q \in left
        BY <3>1, <3>2, PrefixOrder DEF IsTree
      <4>2. CASE q = p
        BY <4>2
      <4>3. CASE q # p
        <5> SUFFICES ASSUME q \in bare PROVE FALSE
          BY <4>1
        <5>1. Longer(q, p)
          BY <3>2, <4>3 DEF Longer, IsStrictPrefix
        <5>2. IsPrefix(p, k) /\ p # k
          BY <3>1, <5>1, PrefixOrder
        <5>3. PICK r \in left : Longer(p, r) /\ ~IsPrefix(r, k)
          BY <5>2 DEF Longer, IsStrictPrefix
        <5>4. Longer(q, r)
          BY <3>1, <3>2, <4>3, <5>1, <5>3, PrefixOrder DEF Longer, IsStrictPrefix
        <5> QED
          BY <5>3, <5>4
      <4> QED
        BY <4>2, <4>3
    <3> QED
      BY <2>1, <3>1, <3>2 DEF IsTree
  <2> HIDE DEF u
  <2>3. \A p \in left : p \in KeySeqs
    BY DEF IsTree
  <2>4. ASSUME NEW p \in Leaves(u) PROVE p \in Leaves(t) /\ ~IsPrefix(k, p)
    <3>1. p \in left /\ p \notin bare /\ p \in KeySeqs /\ \A q \in left \ bare : ~Longer(p, q)
      BY <2>1, <2>3 DEF Leaves
    <3>2. ~Longer(p, k)
      <4> SUFFICES ASSUME Longer(p, k) PROVE FALSE
        OBVIOUS
      <4>1. PICK q \in left : Longer(p, q) /\ ~IsPrefix(q, k)
        BY <3>1
      <4>2. q \notin bare
        BY <4>1 DEF Longer, IsStrictPrefix
      <4> QED
        BY <3>1, <4>1, <4>2
    <3>3. ASSUME NEW q \in DOMAIN t PROVE ~Longer(p, q)
      <4> SUFFICES ASSUME Longer(p, q) PROVE FALSE
        OBVIOUS
      <4>1. q \in KeySeqs
        BY DEF IsTree
      <4>2. CASE q \in left
        <5>1. q \in bare
          BY <3>1, <4>2
        <5> QED
          BY <3>1, <3>2, <4>1, <5>1, PrefixOrder DEF Longer, IsStrictPrefix
      <4>3. CASE IsPrefix(k, q)
        BY <3>1, <3>2, <4>1, <4>3, PrefixOrder DEF Longer, IsStrictPrefix
      <4> QED
        BY <4>2, <4>3
    <3> QED
      BY <3>1, <3>3 DEF Leaves
  <2>5. ASSUME NEW p \in Leaves(t), ~IsPrefix(k, p) PROVE p \in Leaves(u)
    <3>1. p \in left /\ \A q \in DOMAIN t : ~Longer(p, q)
      BY <2>5 DEF Leaves
    <3>2. p \notin bare
      BY <1>2, <3>1
    <3> QED
      BY <2>1, <3>1, <3>2 DEF Leaves
  <2> QED
    BY <2>1, <2>2, <2>4, <2>5 DEF u
<1> QED
  BY <1>1, <1>2

\* Keys are added with a binding, so no leaf is without one.
LEMMA AddKeeps ==
  ASSUME NEW t, IsTree(t), AllBound(t), NEW k \in KeySeqs, NEW v, v # "none"
  PROVE  IsTree(KeymacroAdd(t, k, v)) /\ AllBound(KeymacroAdd(t, k, v))
<1>1. CASE v = "lead-in"
  BY <1>1 DEF KeymacroAdd
<1>2. CASE v # "lead-in"
  <2> DEFINE u == Added(t, k, v)
  <2>1. /\ IsTree(u) /\ Leaves(u) = {k} \cup {p \in Leaves(t) : ~Conflicting(p, k)}
        /\ u[k] = v /\ \A p \in Leaves(t) : ~Conflicting(p, k) => u[p] = t[p]
    BY AddedLeaves
  <2> HIDE DEF u
  <2>2. AllBound(u)
    BY <2>1 DEF AllBound
  <2> QED
    BY <1>2, <2>1, <2>2 DEF KeymacroAdd, u
<1> QED
  BY <1>1, <1>2

LEMMA DeleteKeeps ==
  ASSUME NEW t, IsTree(t), AllBound(t), NEW k \in KeySeqs
  PROVE  IsTree(KeymacroDelete(t, k)) /\ AllBound(KeymacroDelete(t, k))
<1>1. CASE k \notin DOMAIN t
  BY <1>1 DEF KeymacroDelete
<1>2. CASE k \in DOMAIN t
  <2> DEFINE u == KeymacroDelete(t, k)
  <2>1. /\ IsTree(u) /\ Leaves(u) = {p \in Leaves(t) : ~IsPrefix(k, p)}
        /\ \A p \in DOMAIN u : u[p] = t[p]
    BY <1>2, DeletedLeaves
  <2> HIDE DEF u
  <2>2. \A p \in Leaves(u) : p \in DOMAIN u
    BY DEF Leaves
  <2>3. AllBound(u)
    BY <2>1, <2>2 DEF AllBound
  <2> QED
    BY <2>1, <2>3 DEF u
<1> QED
  BY <1>1, <1>2

LEMMA ClearKeeps ==
  ASSUME NEW t, IsTree(t), AllBound(t), NEW k \in KeySeqs, NEW m, NEW o
  PROVE  IsTree(KeymacroClear(t, m, o, k)) /\ AllBound(KeymacroClear(t, m, o, k))
BY DeleteKeeps DEF KeymacroClear

-------------------------------------------------------------------------------
(* The standard bindings.                                                  *)

Tables == [Chars -> Command]

LEMMA CharsAreNumbers ==
  /\ NKeys \in Nat /\ NKeys > 1 /\ MetaBit \in Nat /\ MetaBit # 0 /\ NKeys = 2 * MetaBit
  /\ \A c \in Chars : c \in Nat /\ c % NKeys = c
  /\ \A c \in Nat : c % NKeys \in Chars
<1>1. NKeys \in Nat /\ NKeys > 1 /\ NKeys % 2 = 0
  BY NKeysAssumption
<1>2. NKeys = 2 * (NKeys \div 2) /\ NKeys \div 2 \in Nat /\ NKeys \div 2 # 0
  BY <1>1
<1>3. ASSUME NEW c \in Chars PROVE c \in Nat /\ c % NKeys = c
  BY <1>1 DEF Chars
<1>4. ASSUME NEW c \in Nat PROVE c % NKeys \in Chars
  BY <1>1 DEF Chars
<1> QED
  BY <1>1, <1>2, <1>3, <1>4 DEF MetaBit

LEMMA MetaLeadIsChar ==
  ASSUME NEW m \in Tables
  PROVE  MetaLead(m) \in Chars /\ (HasMeta(m) => m[MetaLead(m)] = "meta-next")
<1>1. CASE HasMeta(m)
  <2> DEFINE S == {c \in Chars : m[c] = "meta-next"}
  <2>1. S \subseteq Nat /\ S # {}
    BY <1>1, CharsAreNumbers DEF HasMeta
  <2>2. PICK e \in S : \A f \in S : e <= f
    BY <2>1, LeastNumber
  <2>3. e \in Chars /\ m[e] = "meta-next"
    OBVIOUS
  <2>4. ASSUME NEW d \in 0..(e - 1) PROVE m[d] # "meta-next"
    <3>1. d \in Chars /\ ~(e <= d)
      BY <2>3, CharsAreNumbers DEF Chars
    <3> QED
      BY <2>2, <3>1
  <2>5. \E c \in Chars : m[c] = "meta-next" /\ \A d \in 0..(c - 1) : m[d] # "meta-next"
    BY <2>3, <2>4
  <2>6. FirstMeta(m) \in Chars /\ m[FirstMeta(m)] = "meta-next"
    BY <2>5 DEF FirstMeta
  <2> QED
    BY <1>1, <2>6 DEF MetaLead
<1>2. CASE ~HasMeta(m)
  BY <1>2, CharsAssumption DEF MetaLead
<1> QED
  BY <1>1, <1>2

LEMMA PairPrefix ==
  ASSUME NEW l \in Nat, NEW c \in Nat
  PROVE  /\ <<l, c>> \in KeySeqs /\ <<l>> \in KeySeqs /\ <<l>> # <<l, c>>
         /\ IsPrefix(<<l>>, <<l, c>>) /\ Head(<<l, c>>) = l /\ Head(<<l>>) = l
<1>1. <<l, c>> \in Seq(Nat) /\ <<l, c>> # <<>> /\ Head(<<l, c>>) = l /\ Len(<<l, c>>) = 2
  OBVIOUS
<1>2. <<l>> \in Seq(Nat) /\ <<l>> # <<>> /\ Head(<<l>>) = l /\ Len(<<l>>) = 1
  OBVIOUS
<1>3. <<l, c>> \in KeySeqs /\ <<l>> \in KeySeqs
  BY <1>1, <1>2 DEF KeySeqs
<1>4. IsPrefix(<<l>>, <<l, c>>)
  BY <1>1, <1>3, SingleIsPrefix
<1> QED
  BY <1>1, <1>2, <1>3, <1>4

LEMMA MetaTreeOK ==
  ASSUME NEW m \in Tables
  PROVE  /\ IsTree(MetaTree(m)) /\ AllBound(MetaTree(m))
         /\ \A p \in DOMAIN MetaTree(m) : Head(p) = MetaLead(m)
<1> DEFINE t == MetaTree(m)
           l == MetaLead(m)
           bound == {c \in MetaBit..(NKeys - 1) : m[c] \notin {"insert", "unassigned", "lead-in"}}
           below == {<<l, c - MetaBit>> : c \in bound}
<1>1. l \in Nat
  BY MetaLeadIsChar, CharsAreNumbers
<1>2. /\ DOMAIN t = below \cup (IF bound = {} THEN {} ELSE {<<l>>})
      /\ \A p \in below : t[p] = IF Len(p) = 1 THEN "none" ELSE m[p[2] + MetaBit]
  BY Zenon DEF MetaTree
<1> HIDE DEF t
<1>3. ASSUME NEW c \in bound
      PROVE  /\ <<l, c - MetaBit>> \in KeySeqs /\ Head(<<l, c - MetaBit>>) = l
             /\ t[<<l, c - MetaBit>>] # "none"
  <2>1. c \in Nat /\ c - MetaBit \in Nat /\ (c - MetaBit) + MetaBit = c /\ c \in Chars
    BY CharsAreNumbers DEF Chars
  <2>2. <<l, c - MetaBit>> \in KeySeqs /\ Head(<<l, c - MetaBit>>) = l
    BY <1>1, <2>1, PairPrefix
  <2>3. t[<<l, c - MetaBit>>] = m[c]
    BY <1>2, <2>1
  <2>4. m[c] \in Command
    BY <2>1 DEF Tables
  <2> QED
    BY <2>2, <2>3, <2>4 DEF Command
<1>4. <<l>> \in KeySeqs /\ Head(<<l>>) = l
  BY <1>1, PairPrefix, 0 \in Nat
<1>5. IsTree(t) /\ \A p \in DOMAIN t : Head(p) = l
  <2>1. \A p \in DOMAIN t : p \in KeySeqs /\ Head(p) = l
    BY <1>2, <1>3, <1>4
  <2>2. ASSUME NEW p \in DOMAIN t, NEW q \in KeySeqs, IsPrefix(q, p) PROVE q \in DOMAIN t
    <3>1. CASE p = <<l>>
      <4>1. Len(q) \in Nat /\ Len(q) # 0 /\ q \in Seq(Nat) /\ Len(q) <= Len(p)
        BY <2>2, <3>1, EmptySeq DEF KeySeqs, IsPrefix
      <4>2. Len(q) = 1 /\ q[1] = Head(q) /\ Head(q) = Head(p)
        BY <2>1, <2>2, <3>1, <4>1, PrefixHead
      <4>3. q = p
        BY <1>1, <3>1, <4>1, <4>2
      <4> QED
        BY <4>3
    <3>2. CASE p \in below
      <4>1. PICK c \in bound : p = <<l, c - MetaBit>>
        BY <3>2
      <4>2. Len(p) = 2 /\ p \in Seq(Nat) /\ q \in Seq(Nat) /\ Head(q) = l
        BY <2>1, <2>2, <4>1, PrefixHead DEF KeySeqs
      <4>3. Len(q) \in Nat /\ Len(q) # 0 /\ Len(q) <= 2 /\ q[1] = l
        BY <2>2, <4>2, EmptySeq DEF KeySeqs, IsPrefix
      <4>4. CASE Len(q) = 1
        <5>1. q = <<l>>
          BY <4>2, <4>3, <4>4
        <5> QED
          BY <1>2, <3>2, <5>1
      <4>5. CASE Len(q) = 2
        <5>1. IsPrefix(p, q)
          BY <2>2, <4>2, <4>5 DEF IsPrefix
        <5> QED
          BY <2>1, <2>2, <5>1, PrefixOrder
      <4>6. Len(q) = 1 \/ Len(q) = 2
        <5> DEFINE n == Len(q)
        <5>1. n \in Nat /\ n # 0 /\ n <= 2
          BY <4>3
        <5> HIDE DEF n
        <5>2. n = 1 \/ n = 2
          BY <5>1
        <5> QED
          BY <5>2 DEF n
      <4> QED
        BY <4>4, <4>5, <4>6
    <3> QED
      BY <1>2, <3>1, <3>2
  <2> QED
    BY <2>1, <2>2 DEF IsTree
<1>6. ASSUME NEW p \in Leaves(t) PROVE t[p] # "none"
  <2>1. CASE p \in below
    BY <1>3, <2>1
  <2>2. CASE p \notin below
    <3>1. p = <<l>> /\ bound # {}
      BY <1>2, <2>2 DEF Leaves
    <3>2. PICK c \in bound : TRUE
      BY <3>1
    <3>3. c - MetaBit \in Nat
      BY CharsAreNumbers
    <3>4. Longer(p, <<l, c - MetaBit>>)
      BY <1>1, <3>1, <3>3, PairPrefix DEF Longer, IsStrictPrefix
    <3>5. <<l, c - MetaBit>> \in DOMAIN t
      BY <1>2
    <3> QED
      BY <3>4, <3>5 DEF Leaves
  <2> QED
    BY <2>1, <2>2
<1> QED
  BY <1>5, <1>6 DEF AllBound, t

-------------------------------------------------------------------------------
(* What leads to a key.                                                    *)

Leads(m, o, p) == Head(p) \in Chars /\ "lead-in" \in {m[Head(p)], o[Head(p)]}

\* Some table leads to each key of t that is not an arrow's.
Reached(m, o, t) == \A p \in Leaves(t) \ Arrows : Leads(m, o, p)

LEMMA HeadsAreNumbers ==
  ASSUME NEW p \in KeySeqs
  PROVE  Head(p) \in Nat /\ Head(p) % NKeys \in Chars
<1>1. Head(p) \in Nat
  BY HeadTailProperties DEF KeySeqs
<1> QED
  BY <1>1, CharsAreNumbers

LEMMA LeavesAreKeys ==
  ASSUME NEW t, IsTree(t), NEW p \in Leaves(t)
  PROVE  p \in KeySeqs
BY DEF Leaves, IsTree

\* Clearing a character takes all keys it leads to, if nothing else does.
LEMMA ClearedLeaves ==
  ASSUME NEW t, IsTree(t), NEW k \in KeySeqs, Len(k) = 1, NEW m, NEW o
  PROVE  /\ \/ KeymacroClear(t, m, o, k) = t
            \/ Leaves(KeymacroClear(t, m, o, k)) = {p \in Leaves(t) : Head(p) # Head(k)}
         /\ \A p \in Leaves(KeymacroClear(t, m, o, k)) :
              p \in Leaves(t) /\ KeymacroClear(t, m, o, k)[p] = t[p]
         /\ Head(k) \in Chars /\ m[Head(k)] = "lead-in" /\ o[Head(k)] # "lead-in" =>
              \A p \in Leaves(KeymacroClear(t, m, o, k)) : Head(p) # Head(k)
<1> DEFINE c == Head(k)
           u == KeymacroClear(t, m, o, k)
           d == KeymacroDelete(t, k)
           guard == c <= NKeys /\ m[c % NKeys] = "lead-in" /\ o[c % NKeys] # "lead-in"
<1>1. u = IF guard THEN d ELSE t
  BY DEF KeymacroClear
<1>2. c \in Nat /\ k = <<c>>
  <2>1. k \in Seq(Nat) /\ k # <<>> /\ Head(k) = k[1]
    BY DEF KeySeqs
  <2> QED
    BY <2>1, HeadsAreNumbers
<1>3. \A p \in Leaves(t) : p \in KeySeqs /\ (IsPrefix(k, p) <=> Head(p) = c)
  BY <1>2, LeavesAreKeys, SingleIsPrefix
<1>4. CASE k \in DOMAIN t
  <2>1. /\ Leaves(d) = {p \in Leaves(t) : ~IsPrefix(k, p)} /\ \A p \in DOMAIN d : d[p] = t[p]
    BY <1>4, DeletedLeaves
  <2> HIDE DEF d, u, c
  <2>2. Leaves(d) = {p \in Leaves(t) : Head(p) # c} /\ \A p \in Leaves(d) : d[p] = t[p]
    BY <1>3, <2>1 DEF Leaves
  <2>3. c \in Chars => c <= NKeys /\ c % NKeys = c
    BY CharsAreNumbers DEF Chars
  <2> QED
    BY <1>1, <2>2, <2>3 DEF u, c
<1>5. CASE k \notin DOMAIN t
  <2>1. u = t
    BY <1>1, <1>5 DEF KeymacroDelete
  <2>2. \A p \in Leaves(t) : Head(p) # c
    BY <1>3, <1>5 DEF Leaves, IsTree
  <2> QED
    BY <2>1, <2>2
<1> QED
  BY <1>4, <1>5

\* Two tables and the tree they share.
IsMap(m, o, t) == m \in Tables /\ o \in Tables /\ IsTree(t) /\ AllBound(t)

LEMMA ReachedEitherWay ==
  ASSUME NEW m, NEW o, NEW t
  PROVE  (Reached(m, o, t) <=> Reached(o, m, t)) /\ (IsMap(m, o, t) <=> IsMap(o, m, t))
BY DEF Reached, Leads, IsMap

\* A character is given another command, and what it led to is cleared.
LEMMA RebindKeeps ==
  ASSUME NEW m, NEW o, NEW t, IsMap(m, o, t), NEW c \in Chars, NEW x \in Command
  PROVE  LET n == [m EXCEPT ![c] = x]
             u == KeymacroClear(t, m, o, <<c>>)
         IN IsMap(n, o, u) /\ (Reached(m, o, t) => Reached(n, o, u))
<1> DEFINE n == [m EXCEPT ![c] = x]
           u == KeymacroClear(t, m, o, <<c>>)
<1>1. <<c>> \in KeySeqs /\ Len(<<c>>) = 1 /\ Head(<<c>>) = c
  BY CharsAreNumbers DEF KeySeqs
<1>2. IsTree(u) /\ AllBound(u)
  BY <1>1, ClearKeeps DEF IsMap
<1>3. n \in Tables
  BY DEF Tables, IsMap
<1>4. ASSUME Reached(m, o, t) PROVE Reached(n, o, u)
  <2> SUFFICES ASSUME NEW p \in Leaves(u) \ Arrows PROVE Leads(n, o, p)
    BY DEF Reached
  <2>1. /\ p \in Leaves(t)
        /\ m[c] = "lead-in" /\ o[c] # "lead-in" => Head(p) # c
    BY <1>1, ClearedLeaves DEF IsMap
  <2>2. Leads(m, o, p)
    BY <1>4, <2>1 DEF Reached
  <2>3. Head(p) # c => n[Head(p)] = m[Head(p)]
    BY <2>2 DEF Leads, Tables, IsMap
  <2> HIDE DEF n, u
  <2>4. CASE Head(p) = c
    <3>1. o[c] = "lead-in"
      BY <2>1, <2>2, <2>4 DEF Leads
    <3> QED
      BY <2>2, <2>4, <3>1 DEF Leads
  <2>5. CASE Head(p) # c
    BY <2>2, <2>3, <2>5 DEF Leads
  <2> QED
    BY <2>4, <2>5
<1> QED
  BY <1>2, <1>3, <1>4 DEF IsMap

LEMMA LeadInKeeps ==
  ASSUME NEW m, NEW o, NEW t, IsMap(m, o, t), NEW c \in Nat
  PROVE  /\ IsMap(LeadIn(m, c), o, t) /\ LeadIn(m, c)[c % NKeys] = "lead-in"
         /\ Reached(m, o, t) => Reached(LeadIn(m, c), o, t)
<1> DEFINE n == LeadIn(m, c)
<1>1. c % NKeys \in Chars
  BY CharsAreNumbers
<1>2. n \in Tables /\ \A d \in Chars : n[d] = IF d = c % NKeys THEN "lead-in" ELSE m[d]
  BY <1>1 DEF LeadIn, Tables, IsMap, Command
<1> HIDE DEF n
<1>3. Reached(m, o, t) => Reached(n, o, t)
  BY <1>2 DEF Reached, Leads
<1> QED
  BY <1>1, <1>2, <1>3 DEF IsMap, n

LEMMA AddReached ==
  ASSUME NEW m, NEW o, NEW t, IsMap(m, o, t), NEW k \in KeySeqs, NEW v, v # "none"
  PROVE  /\ IsMap(m, o, KeymacroAdd(t, k, v))
         /\ Reached(m, o, t) /\ (k \in Arrows \/ Leads(m, o, k)) => Reached(m, o, KeymacroAdd(t, k, v))
<1>1. IsMap(m, o, KeymacroAdd(t, k, v))
  BY AddKeeps DEF IsMap
<1>2. Leaves(KeymacroAdd(t, k, v)) \subseteq {k} \cup Leaves(t)
  BY AddedLeaves DEF KeymacroAdd, IsMap
<1> QED
  BY <1>1, <1>2 DEF Reached

LEMMA ClearBothKeeps ==
  ASSUME NEW m, NEW o, NEW t, IsMap(m, o, t), NEW old \in Chars, NEW new \in Chars,
         NEW standard \in Tables, NEW command \in Command
  PROVE  LET n == Restored(m, standard, old, new, command)
             u == ClearBoth(t, m, o, old, new, standard)
         IN IsMap(n, o, u) /\ (Reached(m, o, t) => Reached(n, o, u))
<1> DEFINE n1 == [m EXCEPT ![old] = standard[old]]
           u1 == KeymacroClear(t, m, o, <<old>>)
           n2 == [n1 EXCEPT ![new] = command]
           u2 == KeymacroClear(u1, n1, o, <<new>>)
<1>1. standard[old] \in Command
  BY DEF Tables
<1>2. IsMap(n1, o, u1) /\ (Reached(m, o, t) => Reached(n1, o, u1))
  BY <1>1, RebindKeeps
<1>3. IsMap(n2, o, u2) /\ (Reached(n1, o, u1) => Reached(n2, o, u2))
  BY <1>2, RebindKeeps
<1>4. Restored(m, standard, old, new, command) = n2
  BY DEF Restored
<1>5. ClearBoth(t, m, o, old, new, standard) = u2
  BY DEF ClearBoth
<1> QED
  BY <1>2, <1>3, <1>4, <1>5

LEMMA TtyBoundKeeps ==
  ASSUME NEW b, IsMap(b.key, b.alt, b.tree), NEW v \in BOOLEAN,
         NEW old \in Chars, NEW new \in Chars
  PROVE  LET n == TtyBound(b, v, old, new)
         IN /\ n = [key |-> n.key, alt |-> n.alt, tree |-> n.tree]
            /\ IsMap(n.key, n.alt, n.tree)
            /\ Reached(b.key, b.alt, b.tree) => Reached(n.key, n.alt, n.tree)
<1> DEFINE n == TtyBound(b, v, old, new)
           dkey == IF v THEN ViInsert ELSE Emacs
           k == Restored(b.key, dkey, old, new, "erase")
           t == ClearBoth(b.tree, b.key, b.alt, old, new, dkey)
           a == Restored(b.alt, ViCommand, old, new, "other")
           u == ClearBoth(t, b.alt, k, old, new, ViCommand)
<1>1. dkey \in Tables /\ ViCommand \in Tables /\ {"erase", "other"} \subseteq Command
  BY TablesAssumption DEF Tables, Command
<1>2. IsMap(k, b.alt, t) /\ (Reached(b.key, b.alt, b.tree) => Reached(k, b.alt, t))
  BY <1>1, ClearBothKeeps
<1>3. IsMap(a, k, u) /\ (Reached(b.alt, k, t) => Reached(a, k, u))
  <2>1. IsMap(b.alt, k, t)
    BY <1>2, ReachedEitherWay
  <2> HIDE DEF k, t
  <2> QED
    BY <1>1, <2>1, ClearBothKeeps
<1>4. n = IF v THEN [key |-> k, alt |-> a, tree |-> u] ELSE [key |-> k, alt |-> b.alt, tree |-> t]
  BY DEF TtyBound
<1> HIDE DEF n, k, t, a, u
<1>5. CASE v
  <2>1. n.key = k /\ n.alt = a /\ n.tree = u /\ n = [key |-> k, alt |-> a, tree |-> u]
    BY <1>4, <1>5
  <2> QED
    BY <1>2, <1>3, <2>1, ReachedEitherWay DEF n
<1>6. CASE ~v
  <2>1. n.key = k /\ n.alt = b.alt /\ n.tree = t /\ n = [key |-> k, alt |-> b.alt, tree |-> t]
    BY <1>4, <1>6
  <2> QED
    BY <1>2, <2>1 DEF n
<1> QED
  BY <1>5, <1>6

\* What an arrow is bound to when it is bound.
ArrowValues == (Command \ {"lead-in"}) \cup {"string"}

LEMMA ArrowKeys ==
  /\ Ansi \in KeySeqs /\ Termcap \in KeySeqs /\ CtrlX \in KeySeqs /\ Words \subseteq KeySeqs
  /\ Len(Ansi) > 1 => Tail(Ansi) \in KeySeqs
  /\ Head(Termcap) \in Chars
<1>1. Ansi \in KeySeqs /\ Termcap \in KeySeqs /\ CtrlX \in KeySeqs /\ Words \subseteq KeySeqs
  BY SequencesAssumption DEF KeySeqs
<1>2. Len(Ansi) > 1 => Tail(Ansi) \in KeySeqs
  <2> SUFFICES ASSUME Len(Ansi) > 1 PROVE Tail(Ansi) \in KeySeqs
    OBVIOUS
  <2>1. Ansi \in Seq(Nat) /\ Ansi # <<>> /\ Len(Ansi) \in Nat
    BY <1>1, LenProperties DEF KeySeqs
  <2> DEFINE u == Tail(Ansi)
             n == Len(Ansi)
  <2>2. u \in Seq(Nat) /\ Len(u) = n - 1 /\ n \in Nat /\ n > 1
    BY <2>1, HeadTailProperties
  <2> HIDE DEF u, n
  <2>3. Len(u) # 0
    BY <2>2
  <2>4. u # <<>>
    BY <2>2, <2>3, EmptySeq
  <2> QED
    BY <2>2, <2>4 DEF KeySeqs, u
<1> QED
  BY <1>1, <1>2, CharsAssumption

LEMMA ResetArrowKeeps ==
  ASSUME NEW m, NEW o, NEW t, IsMap(m, o, t), NEW v \in BOOLEAN, NEW a \in ArrowValues
  PROVE  /\ IsMap(m, o, ResetArrow(t, v, a))
         /\ Reached(m, o, t) => Reached(m, o, ResetArrow(t, v, a))
<1>1. a # "none"
  BY DEF ArrowValues, Command
<1> DEFINE u == KeymacroAdd(t, Ansi, a)
<1>2. IsMap(m, o, u) /\ (Reached(m, o, t) => Reached(m, o, u))
  BY <1>1, ArrowKeys, AddReached DEF Arrows
<1> HIDE DEF u
<1>3. Len(Ansi) > 1 => LET w == KeymacroAdd(u, Tail(Ansi), a) IN
                         IsMap(m, o, w) /\ (Reached(m, o, u) => Reached(m, o, w))
  <2> SUFFICES ASSUME Len(Ansi) > 1
               PROVE  LET w == KeymacroAdd(u, Tail(Ansi), a) IN
                        IsMap(m, o, w) /\ (Reached(m, o, u) => Reached(m, o, w))
    OBVIOUS
  <2> DEFINE k == Tail(Ansi)
  <2>1. k \in KeySeqs /\ k \in Arrows
    BY ArrowKeys DEF Arrows
  <2> HIDE DEF k
  <2>2. IsMap(m, o, KeymacroAdd(u, k, a)) /\ (Reached(m, o, u) => Reached(m, o, KeymacroAdd(u, k, a)))
    BY <1>1, <1>2, <2>1, AddReached
  <2> QED
    BY <2>2 DEF k
<1> QED
  BY <1>2, <1>3 DEF ResetArrow, u

\* The tables and the tree after the arrow's sequence on this terminal.
LEMMA TermArrowKeeps ==
  ASSUME NEW m, NEW o, NEW t, IsMap(m, o, t), NEW a \in ArrowValues,
         NEW n, NEW u,
         LET j == Head(Termcap) IN
           \/ n = LeadIn(m, j) /\ u = KeymacroAdd(t, Termcap, a)
           \/ n = m /\ u = t
           \/ /\ m[j] = "unassigned" /\ a = "string" /\ n = m
              /\ u = KeymacroAdd(KeymacroClear(t, m, o, Termcap), Termcap, a)
           \/ /\ m[j] = "unassigned" /\ a # "string" /\ n = [m EXCEPT ![j] = a]
              /\ u = KeymacroClear(t, m, o, Termcap)
  PROVE  /\ IsMap(n, o, u) /\ (Reached(m, o, t) => Reached(n, o, u))
         /\ u \in {t, KeymacroAdd(t, Termcap, a)}
<1> DEFINE j == Head(Termcap)
<1>1. j \in Chars /\ j \in Nat /\ j % NKeys = j /\ Termcap \in KeySeqs /\ Termcap \in Arrows /\ a # "none"
  BY ArrowKeys, CharsAreNumbers DEF Arrows, ArrowValues, Command
<1>2. m[j] = "unassigned" => KeymacroClear(t, m, o, Termcap) = t
  BY <1>1 DEF KeymacroClear
<1> HIDE DEF j
<1>3. /\ IsMap(m, o, KeymacroAdd(t, Termcap, a))
      /\ Reached(m, o, t) => Reached(m, o, KeymacroAdd(t, Termcap, a))
  BY <1>1, AddReached
<1>4. CASE n = LeadIn(m, j) /\ u = KeymacroAdd(t, Termcap, a)
  BY <1>1, <1>3, <1>4, LeadInKeeps
<1>5. CASE n = m /\ u = t
  BY <1>5
<1>6. CASE n = m /\ u = KeymacroAdd(t, Termcap, a)
  BY <1>3, <1>6
<1>7. CASE m[j] = "unassigned" /\ a # "string" /\ n = [m EXCEPT ![j] = a] /\ u = t
  <2>1. n \in Tables /\ \A d \in Chars : n[d] = IF d = j THEN a ELSE m[d]
    BY <1>1, <1>7 DEF Tables, IsMap, ArrowValues
  <2>2. Reached(m, o, t) => Reached(n, o, t)
    <3> SUFFICES ASSUME Reached(m, o, t), NEW p \in Leaves(t) \ Arrows PROVE Leads(n, o, p)
      BY DEF Reached
    <3>1. Leads(m, o, p)
      BY DEF Reached
    <3> QED
      BY <1>7, <2>1, <3>1 DEF Leads
  <2> QED
    BY <1>7, <2>1, <2>2 DEF IsMap
<1> QED
  BY <1>2, <1>4, <1>5, <1>6, <1>7 DEF j

IsBindings(b) == b = [key |-> b.key, alt |-> b.alt, tree |-> b.tree] /\ IsMap(b.key, b.alt, b.tree)

ReachedIn(b) == Reached(b.key, b.alt, b.tree)

\* Which keys binding the arrow adds.
ArrowAdded(t, u, v, a) == u \in {ResetArrow(t, v, a), KeymacroAdd(ResetArrow(t, v, a), Termcap, a)}

LEMMA ArrowBoundKeeps ==
  ASSUME NEW b, IsBindings(b), NEW v \in BOOLEAN, NEW a \in ArrowValues
  PROVE  /\ IsBindings(ArrowBound(b, v, a))
         /\ ReachedIn(b) => ReachedIn(ArrowBound(b, v, a))
         /\ ArrowAdded(b.tree, ArrowBound(b, v, a).tree, v, a)
<1> DEFINE t == ResetArrow(b.tree, v, a)
           m == Main(b, v)
           o == IF v THEN b.key ELSE b.alt
           r == ArrowBound(b, v, a)
           j == Head(Termcap)
<1>1. IsMap(m, o, b.tree)
  BY ReachedEitherWay DEF IsBindings, Main
<1>2. IsMap(m, o, t) /\ (Reached(m, o, b.tree) => Reached(m, o, t))
  BY <1>1, ResetArrowKeeps
<1>3. PICK n, u : /\ r = WithMain(b, v, n, u)
                  /\ \/ n = LeadIn(m, j) /\ u = KeymacroAdd(t, Termcap, a)
                     \/ n = m /\ u = t
                     \/ /\ m[j] = "unassigned" /\ a = "string" /\ n = m
                        /\ u = KeymacroAdd(KeymacroClear(t, m, o, Termcap), Termcap, a)
                     \/ /\ m[j] = "unassigned" /\ a # "string" /\ n = [m EXCEPT ![j] = a]
                        /\ u = KeymacroClear(t, m, o, Termcap)
  <2> DEFINE std == IF v THEN ViCommand ELSE Emacs
  <2>1. r = IF Len(Termcap) > 1 /\ m[j] \in {std[j], "lead-in"}
            THEN WithMain(b, v, LeadIn(m, j), KeymacroAdd(t, Termcap, a))
            ELSE IF m[j] # "unassigned" THEN WithMain(b, v, m, t)
            ELSE IF a = "string" THEN WithMain(b, v, m, KeymacroAdd(KeymacroClear(t, m, o, Termcap), Termcap, a))
            ELSE WithMain(b, v, [m EXCEPT ![j] = a], KeymacroClear(t, m, o, Termcap))
    BY DEF ArrowBound
  <2> HIDE DEF r, m, o, t, j, std
  <2> QED
    BY <2>1
<1> HIDE DEF r, t, m, o, j
<1>4. IsMap(n, o, u) /\ (Reached(m, o, t) => Reached(n, o, u)) /\ u \in {t, KeymacroAdd(t, Termcap, a)}
  BY <1>2, <1>3, TermArrowKeeps DEF j
<1>5. CASE v
  <2>1. r = [key |-> b.key, alt |-> n, tree |-> u]
    BY <1>3, <1>5 DEF WithMain, IsBindings
  <2>2. m = b.alt /\ o = b.key
    BY <1>5 DEF m, o, Main
  <2>3. r.key = o /\ r.alt = n /\ r.tree = u /\ r = [key |-> r.key, alt |-> r.alt, tree |-> r.tree]
    BY <2>1, <2>2
  <2>4. IsMap(o, n, u) /\ (Reached(o, m, b.tree) => Reached(o, n, u))
    BY <1>2, <1>4, ReachedEitherWay
  <2>5. IsBindings(r) /\ (ReachedIn(b) => ReachedIn(r)) /\ ArrowAdded(b.tree, r.tree, v, a)
    BY <1>4, <2>2, <2>3, <2>4 DEF IsBindings, ReachedIn, ArrowAdded, t
  <2> QED
    BY <2>5 DEF r
<1>6. CASE ~v
  <2>1. r = [key |-> n, alt |-> b.alt, tree |-> u]
    BY <1>3, <1>6 DEF WithMain, IsBindings
  <2>2. m = b.key /\ o = b.alt
    BY <1>6 DEF m, o, Main
  <2>3. r.key = n /\ r.alt = o /\ r.tree = u /\ r = [key |-> r.key, alt |-> r.alt, tree |-> r.tree]
    BY <2>1, <2>2
  <2>4. IsBindings(r) /\ (ReachedIn(b) => ReachedIn(r)) /\ ArrowAdded(b.tree, r.tree, v, a)
    BY <1>2, <1>4, <2>2, <2>3 DEF IsBindings, ReachedIn, ArrowAdded, t
  <2> QED
    BY <2>4 DEF r
<1> QED
  BY <1>5, <1>6


\* The three standard tables and, for alt in emacs, an empty one.
StandardTable == {Emacs, ViInsert, ViCommand, [c \in Chars |-> "unassigned"]}

LEMMA MetaLeadIsLow ==
  ASSUME NEW m \in StandardTable
  PROVE  m \in Tables /\ MetaLead(m) \in Chars \ Printable
<1>1. m \in Tables
  BY TablesAssumption DEF StandardTable, Tables, Command
<1> DEFINE l == MetaLead(m)
<1>2. l \in Chars /\ (HasMeta(m) => m[l] = "meta-next") /\ (~HasMeta(m) => l = Escape)
  BY <1>1, MetaLeadIsChar DEF MetaLead
<1> HIDE DEF l
<1>3. HasMeta(m) => m \in {Emacs, ViInsert, ViCommand}
  BY DEF StandardTable, HasMeta
<1>4. l < MetaBit
  <2>1. CASE HasMeta(m)
    BY <1>2, <1>3, <2>1, StandardAssumption
  <2>2. CASE ~HasMeta(m)
    BY <1>2, <2>2, StandardAssumption, CharsAreNumbers DEF MetaBit
  <2> QED
    BY <2>1, <2>2
<1>5. l \notin Printable
  <2>1. ASSUME l \in Printable PROVE FALSE
    <3>1. l \in MetaBit..(NKeys - 1)
      BY <2>1, StandardAssumption
    <3> QED
      BY <1>4, <3>1, CharsAreNumbers DEF MetaBit
  <2> QED
    BY <2>1
<1> QED
  BY <1>1, <1>2, <1>5 DEF l

LEMMA CtrlXIsLow ==
  Head(CtrlX) \in Chars \ Printable
<1> DEFINE j == Head(CtrlX)
<1>1. j \in 0..(MetaBit - 1)
  BY StandardAssumption
<1>2. \A c \in Printable : c \in MetaBit..(NKeys - 1)
  BY StandardAssumption
<1> HIDE DEF j
<1>3. j \in Chars /\ j \notin Printable
  BY <1>1, <1>2, CharsAreNumbers DEF MetaBit, Chars
<1> QED
  BY <1>3 DEF j

\* Every table and tree that the standard bindings make has its keys bound and
\* reached.
LEMMA StandardKeeps ==
  ASSUME NEW v \in BOOLEAN, NEW a \in ArrowValues, NEW e \in Chars
  PROVE  IsBindings(StandardBindings(v, a, e)) /\ ReachedIn(StandardBindings(v, a, e))
<1> DEFINE k == IF v THEN ViInsert ELSE Emacs
           o == IF v THEN ViCommand ELSE [c \in Chars |-> "unassigned"]
           in == MetaTable(k, o, v)
           m == IF in = "key" THEN k ELSE o
           k1 == IF in = "key" THEN LeadIn(k, MetaLead(k)) ELSE k
           o1 == IF in = "alt" THEN LeadIn(o, MetaLead(o)) ELSE o
           k2 == Nls(k1)
           t == IF v THEN MetaTree(m) ELSE KeymacroAdd(MetaTree(m), CtrlX, "exchange-mark")
           b == [key |-> k2, alt |-> o1, tree |-> t]
           n == TtyBound(b, v, e, e)
<1>1. k \in StandardTable /\ o \in StandardTable /\ m \in StandardTable /\ in \in {"key", "alt"}
  BY DEF StandardTable, MetaTable
<1>2. ~v => k = Emacs
  OBVIOUS
<1>3. k1 = IF in = "key" THEN LeadIn(k, MetaLead(k)) ELSE k
  OBVIOUS
<1>4. o1 = IF in = "alt" THEN LeadIn(o, MetaLead(o)) ELSE o
  OBVIOUS
<1>5. m = IF in = "key" THEN k ELSE o
  OBVIOUS
<1>6. StandardBindings(v, a, e) = ArrowBound(n, v, a)
  BY DEF StandardBindings
<1> HIDE DEF k, o, in, m, k1, o1
<1>7. \A l \in Chars : LeadIn(k, l) = [k EXCEPT ![l] = "lead-in"] /\ LeadIn(o, l) = [o EXCEPT ![l] = "lead-in"]
  BY CharsAreNumbers DEF LeadIn
<1>8. k \in Tables /\ o \in Tables /\ m \in Tables
  BY <1>1, MetaLeadIsLow
<1>9. k1 \in Tables /\ o1 \in Tables
  <2>1. MetaLead(k) \in Chars /\ MetaLead(o) \in Chars
    BY <1>1, MetaLeadIsLow
  <2>2. LeadIn(k, MetaLead(k)) \in Tables /\ LeadIn(o, MetaLead(o)) \in Tables
    BY <1>7, <1>8, <2>1 DEF Tables, Command
  <2> QED
    BY <1>3, <1>4, <1>8, <2>2
<1>10. k2 \in Tables /\ \A c \in Chars \ Printable : k2[c] = k1[c]
  BY <1>9 DEF Nls, Tables, Command
<1> HIDE DEF k2
<1> DEFINE l == MetaLead(m)
<1>11. l \in Chars \ Printable
  BY <1>1, MetaLeadIsLow
<1>12. "lead-in" \in {k2[l], o1[l]}
  <2>1. CASE in = "key"
    <3>1. k1[l] = "lead-in"
      BY <1>3, <1>5, <1>7, <1>8, <1>11, <2>1 DEF Tables
    <3> QED
      BY <1>10, <1>11, <3>1
  <2>2. CASE in = "alt"
    BY <1>4, <1>5, <1>7, <1>8, <1>11, <2>2 DEF Tables
  <2> QED
    BY <1>1, <2>1, <2>2
<1>13. /\ IsTree(MetaTree(m)) /\ AllBound(MetaTree(m))
       /\ \A p \in DOMAIN MetaTree(m) : Head(p) = l
  BY <1>8, MetaTreeOK
<1>14. IsMap(k2, o1, MetaTree(m)) /\ Reached(k2, o1, MetaTree(m))
  BY <1>9, <1>10, <1>11, <1>12, <1>13 DEF IsMap, Reached, Leads, Leaves
<1>15. IsMap(k2, o1, t) /\ Reached(k2, o1, t)
  <2>1. CASE v
    BY <1>14, <2>1
  <2>2. CASE ~v
    <3> DEFINE j == Head(CtrlX)
    <3>1. j \in Chars \ Printable /\ k[j] = "lead-in"
      BY <1>2, <2>2, CtrlXIsLow, StandardAssumption
    <3>2. k1[j] = "lead-in"
      BY <1>1, <1>3, <1>7, <1>8, <3>1, MetaLeadIsLow DEF Tables
    <3>3. Leads(k2, o1, CtrlX)
      BY <1>10, <3>1, <3>2 DEF Leads
    <3>4. CtrlX \in KeySeqs
      BY ArrowKeys
    <3> DEFINE u == KeymacroAdd(MetaTree(m), CtrlX, "exchange-mark")
    <3>5. IsMap(k2, o1, u) /\ Reached(k2, o1, u)
      BY <1>14, <3>3, <3>4, AddReached
    <3>6. t = u
      BY <2>2
    <3> QED
      BY <3>5, <3>6
  <2> QED
    BY <2>1, <2>2
<1> HIDE DEF t
<1>16. IsBindings(n) /\ ReachedIn(n)
  <2>1. IsMap(b.key, b.alt, b.tree) /\ Reached(b.key, b.alt, b.tree)
    BY <1>15
  <2> HIDE DEF b
  <2> QED
    BY <2>1, TtyBoundKeeps DEF IsBindings, ReachedIn
<1> HIDE DEF n
<1> QED
  BY <1>6, <1>16, ArrowBoundKeeps


-------------------------------------------------------------------------------
(* What each operation does to the table of keys.                          *)

\* The keys of B are bound, and those in conflict with them are lost.
BindsKeys(t, u, B) ==
  /\ Leaves(u) = B \cup {p \in Leaves(t) : \A b \in B : ~Conflicting(p, b)}
  /\ \A p \in Leaves(t) : (\A b \in B : ~Conflicting(p, b)) => u[p] = t[p]

\* The keys that begin with a character of C are unbound.
ClearsHeads(t, u, C) ==
  /\ Leaves(u) = {p \in Leaves(t) : Head(p) \notin C}
  /\ \A p \in Leaves(u) : u[p] = t[p]

\* The keys that begin with k are unbound.
ClearsBelow(t, u, k) ==
  /\ Leaves(u) = {p \in Leaves(t) : ~IsPrefix(k, p)}
  /\ \A p \in Leaves(u) : u[p] = t[p]

TableStep(t, u) ==
  \/ \E B \in SUBSET KeySeqs : BindsKeys(t, u, B)
  \/ \E C : ClearsHeads(t, u, C)
  \/ \E k \in KeySeqs : ClearsBelow(t, u, k)
  \/ LeafTable(u) \in StandardTables

LEMMA SameTree ==
  ASSUME NEW t
  PROVE  TableStep(t, t)
<1>1. ClearsHeads(t, t, {})
  BY DEF ClearsHeads
<1> QED
  BY <1>1 DEF TableStep

LEMMA AddBinds ==
  ASSUME NEW t, IsTree(t), NEW k \in KeySeqs, NEW v
  PROVE  TableStep(t, KeymacroAdd(t, k, v))
<1>1. CASE v = "lead-in"
  BY <1>1, SameTree DEF KeymacroAdd
<1>2. CASE v # "lead-in"
  <2>1. BindsKeys(t, Added(t, k, v), {k})
    BY AddedLeaves DEF BindsKeys
  <2>2. {k} \in SUBSET KeySeqs
    OBVIOUS
  <2> QED
    BY <1>2, <2>1, <2>2 DEF KeymacroAdd, TableStep
<1> QED
  BY <1>1, <1>2

\* Adding a key after others that it is apart from.
LEMMA BindAnother ==
  ASSUME NEW t, NEW u, IsTree(u), NEW B, BindsKeys(t, u, B),
         NEW k \in KeySeqs, NEW v, \A b \in B : Conflicting(b, k) => b = k
  PROVE  IsTree(Added(u, k, v)) /\ BindsKeys(t, Added(u, k, v), B \cup {k})
<1> DEFINE w == Added(u, k, v)
<1>1. /\ IsTree(w)
      /\ Leaves(w) = {k} \cup {p \in Leaves(u) : ~Conflicting(p, k)}
      /\ \A p \in Leaves(u) : ~Conflicting(p, k) => w[p] = u[p]
  BY AddedLeaves
<1> HIDE DEF w
<1>2. BindsKeys(t, w, B \cup {k})
  <2>1. Leaves(w) = (B \cup {k}) \cup {p \in Leaves(t) : \A b \in B \cup {k} : ~Conflicting(p, b)}
    BY <1>1 DEF BindsKeys
  <2>2. ASSUME NEW p \in Leaves(t), \A b \in B \cup {k} : ~Conflicting(p, b)
        PROVE  w[p] = t[p]
    BY <1>1, <2>2 DEF BindsKeys
  <2> QED
    BY <2>1, <2>2 DEF BindsKeys
<1> QED
  BY <1>1, <1>2 DEF w

LEMMA ArrowsBind ==
  ASSUME NEW t, IsTree(t), NEW v \in BOOLEAN, NEW a \in ArrowValues, NEW u,
         ArrowAdded(t, u, v, a)
  PROVE  TableStep(t, u)
<1>1. a # "lead-in" /\ a # "none"
  BY DEF ArrowValues, Command
<1> DEFINE sent == {Ansi, Termcap} \cup (IF Len(Ansi) > 1 THEN {Tail(Ansi)} ELSE {})
           r == ResetArrow(t, v, a)
<1>2. sent \subseteq KeySeqs /\ \A p, q \in sent : Conflicting(p, q) => p = q
  BY ArrowKeys, ArrowsAssumption DEF Conflicting
<1>3. Ansi \in sent /\ Termcap \in sent /\ (Len(Ansi) > 1 => Tail(Ansi) \in sent)
  OBVIOUS
<1> HIDE DEF sent
<1>4. IsTree(Added(t, Ansi, a)) /\ BindsKeys(t, Added(t, Ansi, a), {Ansi})
  BY <1>2, <1>3, AddedLeaves DEF BindsKeys
<1>5. \E B \in SUBSET sent : IsTree(r) /\ BindsKeys(t, r, B)
  <2>1. CASE v /\ Len(Ansi) > 1
    <3>1. r = Added(Added(t, Ansi, a), Tail(Ansi), a)
      BY <1>1, <2>1 DEF ResetArrow, KeymacroAdd
    <3> DEFINE k == Tail(Ansi)
               w == Added(t, Ansi, a)
    <3>2. k \in sent /\ k \in KeySeqs
      BY <1>2, <1>3, <2>1
    <3> HIDE DEF k, w, r
    <3>3. IsTree(Added(w, k, a)) /\ BindsKeys(t, Added(w, k, a), {Ansi} \cup {k})
      BY <1>2, <1>3, <1>4, <3>2, BindAnother DEF w
    <3> QED
      BY <1>3, <3>1, <3>2, <3>3 DEF k, w
  <2>2. CASE ~(v /\ Len(Ansi) > 1)
    <3>1. r = Added(t, Ansi, a)
      BY <1>1, <2>2 DEF ResetArrow, KeymacroAdd
    <3> QED
      BY <1>3, <1>4, <3>1
  <2> QED
    BY <2>1, <2>2
<1> HIDE DEF r
<1>6. PICK B \in SUBSET sent : IsTree(r) /\ BindsKeys(t, r, B)
  BY <1>5
<1>7. IsTree(Added(r, Termcap, a)) /\ BindsKeys(t, Added(r, Termcap, a), B \cup {Termcap})
  BY <1>2, <1>3, <1>6, BindAnother
<1>8. u \in {r, Added(r, Termcap, a)}
  BY <1>1 DEF ArrowAdded, KeymacroAdd, r
<1>9. \E E \in SUBSET KeySeqs : BindsKeys(t, u, E)
  BY <1>2, <1>3, <1>6, <1>7, <1>8
<1> QED
  BY <1>9 DEF TableStep

LEMMA ClearClears ==
  ASSUME NEW t, IsTree(t), NEW k \in KeySeqs, Len(k) = 1, NEW m, NEW o
  PROVE  \E C : ClearsHeads(t, KeymacroClear(t, m, o, k), C)
<1> DEFINE u == KeymacroClear(t, m, o, k)
<1>1. /\ u = t \/ Leaves(u) = {p \in Leaves(t) : Head(p) # Head(k)}
      /\ \A p \in Leaves(u) : p \in Leaves(t) /\ u[p] = t[p]
  BY ClearedLeaves
<1> HIDE DEF u
<1>2. ClearsHeads(t, u, {}) \/ ClearsHeads(t, u, {Head(k)})
  BY <1>1 DEF ClearsHeads
<1> QED
  BY <1>2 DEF u

LEMMA ClearAnother ==
  ASSUME NEW t, NEW u, NEW w, NEW C, NEW E, ClearsHeads(t, u, C), ClearsHeads(u, w, E)
  PROVE  ClearsHeads(t, w, C \cup E)
BY DEF ClearsHeads

LEMMA BothClear ==
  ASSUME NEW t, IsTree(t), AllBound(t), NEW m, NEW o, NEW old \in Chars, NEW new \in Chars, NEW standard
  PROVE  \E C : ClearsHeads(t, ClearBoth(t, m, o, old, new, standard), C)
<1> DEFINE u == KeymacroClear(t, m, o, <<old>>)
           n == [m EXCEPT ![old] = standard[old]]
           w == KeymacroClear(u, n, o, <<new>>)
<1>1. \A c \in Chars : <<c>> \in KeySeqs /\ Len(<<c>>) = 1
  BY CharsAreNumbers DEF KeySeqs
<1>2. IsTree(u) /\ AllBound(u)
  BY <1>1, ClearKeeps
<1>3. PICK C : ClearsHeads(t, u, C)
  BY <1>1, ClearClears
<1> HIDE DEF u, n
<1>4. PICK E : ClearsHeads(u, w, E)
  BY <1>1, <1>2, ClearClears
<1>5. ClearBoth(t, m, o, old, new, standard) = w
  BY DEF ClearBoth, u, n
<1> HIDE DEF w
<1> QED
  BY <1>3, <1>4, <1>5, ClearAnother

LEMMA TtyBoundClears ==
  ASSUME NEW b, IsMap(b.key, b.alt, b.tree), NEW v \in BOOLEAN,
         NEW old \in Chars, NEW new \in Chars
  PROVE  \E C : ClearsHeads(b.tree, TtyBound(b, v, old, new).tree, C)
<1> DEFINE dkey == IF v THEN ViInsert ELSE Emacs
           k == Restored(b.key, dkey, old, new, "erase")
           t == ClearBoth(b.tree, b.key, b.alt, old, new, dkey)
           a == Restored(b.alt, ViCommand, old, new, "other")
           u == ClearBoth(t, b.alt, k, old, new, ViCommand)
<1>1. PICK C : ClearsHeads(b.tree, t, C)
  BY BothClear DEF IsMap
<1>2. IsTree(t) /\ AllBound(t)
  <2>1. dkey \in Tables /\ "erase" \in Command
    BY TablesAssumption DEF Tables, Command
  <2> QED
    BY <2>1, ClearBothKeeps DEF IsMap
<1> HIDE DEF t, k
<1>3. PICK E : ClearsHeads(t, u, E)
  BY <1>2, BothClear
<1>4. TtyBound(b, v, old, new).tree = IF v THEN u ELSE t
  <2>1. TtyBound(b, v, old, new) = IF v THEN [key |-> k, alt |-> a, tree |-> u] ELSE [key |-> k, alt |-> b.alt, tree |-> t]
    BY DEF TtyBound, t, k
  <2> HIDE DEF a, u
  <2> QED
    BY <2>1
<1> HIDE DEF u
<1>5. ClearsHeads(b.tree, u, C \cup E)
  BY <1>1, <1>3, ClearAnother
<1>6. TtyBound(b, v, old, new).tree \in {t, u}
  BY <1>4
<1> QED
  BY <1>1, <1>5, <1>6


-------------------------------------------------------------------------------
(* The invariant.                                                          *)

KeyInv ==
  /\ IsMap(key, alt, tree)
  /\ vi \in BOOLEAN
  /\ arrow \in ArrowValues \cup {"none"}
  /\ arrow \in (Commands \ {"lead-in"}) \cup {"up", "string", "none"}
  /\ erase \in Specials \cup {Erase}

\* What a user binds begins with a character that the tables have.
WordsInTables == \A w \in Words : Head(w) \in Chars

\* A step keeps the keys bound, changes the table of keys as a step of the
\* abstract table does, and keeps the keys reached.
GoodStep ==
  /\ IsMap(key', alt', tree')
  /\ TableStep(tree, tree')
  /\ WordsInTables /\ Reached(key, alt, tree) => Reached(key', alt', tree')

LEMMA ArrowIsBound ==
  ASSUME KeyInv, arrow # "none"
  PROVE  arrow \in ArrowValues
BY DEF KeyInv

LEMMA BindingsAre ==
  ASSUME KeyInv
  PROVE  /\ IsBindings(Bindings) /\ Bindings.tree = tree /\ erase \in Chars
         /\ ReachedIn(Bindings) <=> Reached(key, alt, tree)
<1>1. Bindings.key = key /\ Bindings.alt = alt /\ Bindings.tree = tree
  BY DEF Bindings
<1>2. Bindings = [key |-> Bindings.key, alt |-> Bindings.alt, tree |-> Bindings.tree]
  BY DEF Bindings
<1>3. erase \in Chars
  BY CharsAssumption DEF KeyInv
<1> QED
  BY <1>1, <1>2, <1>3 DEF IsBindings, ReachedIn, KeyInv

\* A table and the tree changed by a user, whichever the table is.
LEMMA RebindGood ==
  ASSUME KeyInv, NEW a \in BOOLEAN, NEW m, NEW t, Rebind(a, m, t),
         IsMap(m, OtherTable(a), t), TableStep(tree, t),
         WordsInTables /\ Reached(Table(a), OtherTable(a), tree) => Reached(m, OtherTable(a), t)
  PROVE  GoodStep
<1>1. CASE a
  <2>1. key' = key /\ alt' = m /\ tree' = t /\ Table(a) = alt /\ OtherTable(a) = key
    BY <1>1 DEF Rebind, Table, OtherTable
  <2>2. IsMap(key', alt', tree')
    BY <2>1, ReachedEitherWay
  <2>3. WordsInTables /\ Reached(key, alt, tree) => Reached(key', alt', tree')
    BY <2>1, ReachedEitherWay
  <2> QED
    BY <2>1, <2>2, <2>3 DEF GoodStep
<1>2. CASE ~a
  BY <1>2 DEF Rebind, Table, OtherTable, GoodStep
<1> QED
  BY <1>1, <1>2

LEMMA TablesAre ==
  ASSUME KeyInv, NEW a \in BOOLEAN
  PROVE  IsMap(Table(a), OtherTable(a), tree)
BY ReachedEitherWay DEF KeyInv, Table, OtherTable

\* A sequence bound by the user, to a string or to a command.
LEMMA LeadInGood ==
  ASSUME KeyInv, NEW a \in BOOLEAN, NEW w \in Words, NEW x, x # "none",
         Rebind(a, LeadIn(Table(a), Head(w)), KeymacroAdd(tree, w, x))
  PROVE  GoodStep
<1> DEFINE m == Table(a)
           o == OtherTable(a)
           n == LeadIn(m, Head(w))
           u == KeymacroAdd(tree, w, x)
<1>1. w \in KeySeqs /\ Head(w) \in Nat
  BY ArrowKeys, HeadsAreNumbers
<1>2. IsMap(m, o, tree)
  BY TablesAre
<1> HIDE DEF m, o
<1>3. /\ IsMap(n, o, tree) /\ n[Head(w) % NKeys] = "lead-in"
      /\ Reached(m, o, tree) => Reached(n, o, tree)
  BY <1>1, <1>2, LeadInKeeps
<1> HIDE DEF n
<1>4. /\ IsMap(n, o, u)
      /\ Reached(n, o, tree) /\ Leads(n, o, w) => Reached(n, o, u)
  BY <1>1, <1>3, AddReached
<1>5. WordsInTables => Leads(n, o, w)
  BY <1>3, CharsAreNumbers DEF WordsInTables, Leads
<1>6. TableStep(tree, u)
  BY <1>1, AddBinds DEF KeyInv, IsMap
<1>7. Rebind(a, n, u)
  BY DEF n, m
<1> HIDE DEF u
<1> QED
  BY <1>3, <1>4, <1>5, <1>6, <1>7, RebindGood DEF m, o

LEMMA InitMapGood ==
  ASSUME KeyInv, NEW v \in BOOLEAN, InitMap(v)
  PROVE  KeyInv' /\ GoodStep
<1>1. CASE Abort
  <2>1. UNCHANGED <<key, alt, vi, tree, arrow, erase>>
    BY <1>1 DEF Abort
  <2> QED
    BY <2>1, SameTree DEF KeyInv, GoodStep
<1>2. CASE /\ arrow # "none" /\ Install(StandardBindings(v, arrow, erase)) /\ vi' = v
           /\ UNCHANGED <<arrow, erase, aborted>>
  <2> DEFINE b == StandardBindings(v, arrow, erase)
  <2>1. arrow \in ArrowValues /\ erase \in Chars
    BY <1>2, ArrowIsBound, BindingsAre
  <2>2. IsBindings(b) /\ ReachedIn(b)
    BY <2>1, StandardKeeps
  <2>3. LeafTable(b.tree) \in StandardTables
    <3>1. arrow \in Commands \cup {"up", "string"}
      BY <1>2 DEF KeyInv
    <3> QED
      BY <3>1 DEF StandardTables, KeyInv
  <2>4. key' = b.key /\ alt' = b.alt /\ tree' = b.tree /\ vi' = v /\ arrow' = arrow /\ erase' = erase
    BY <1>2 DEF Install
  <2> HIDE DEF b
  <2>5. GoodStep
    BY <2>2, <2>3, <2>4 DEF IsBindings, ReachedIn, GoodStep, TableStep
  <2> QED
    BY <2>4, <2>5 DEF KeyInv, GoodStep
<1> QED
  BY <1>1, <1>2 DEF InitMap

LEMMA SetTerminalGood ==
  ASSUME KeyInv, SetTerminal
  PROVE  KeyInv' /\ GoodStep
<1>1. CASE Abort
  <2>1. UNCHANGED <<key, alt, vi, tree, arrow, erase>>
    BY <1>1 DEF Abort
  <2> QED
    BY <2>1, SameTree DEF KeyInv, GoodStep
<1>2. CASE /\ arrow # "none" /\ Install(ArrowBound(Bindings, vi, arrow))
           /\ UNCHANGED <<vi, arrow, erase, aborted>>
  <2> DEFINE b == ArrowBound(Bindings, vi, arrow)
  <2>1. arrow \in ArrowValues /\ vi \in BOOLEAN
    BY <1>2, ArrowIsBound DEF KeyInv
  <2>2. /\ IsBindings(b) /\ (ReachedIn(Bindings) => ReachedIn(b))
        /\ ArrowAdded(tree, b.tree, vi, arrow)
    BY <2>1, BindingsAre, ArrowBoundKeeps
  <2>3. TableStep(tree, b.tree)
    <3> HIDE DEF b
    <3> QED
      BY <2>1, <2>2, ArrowsBind DEF KeyInv, IsMap
  <2>4. key' = b.key /\ alt' = b.alt /\ tree' = b.tree /\ vi' = vi /\ arrow' = arrow /\ erase' = erase
    BY <1>2 DEF Install
  <2> HIDE DEF b
  <2>5. Reached(key, alt, tree) => Reached(key', alt', tree')
    BY <2>2, <2>4, BindingsAre DEF ReachedIn
  <2>6. GoodStep
    BY <2>2, <2>3, <2>4, <2>5 DEF IsBindings, GoodStep
  <2> QED
    BY <2>4, <2>6 DEF KeyInv, GoodStep
<1> QED
  BY <1>1, <1>2 DEF SetTerminal

LEMMA EraseChangedGood ==
  ASSUME KeyInv, NEW c \in Specials, EraseChanged(c)
  PROVE  KeyInv' /\ GoodStep
<1> DEFINE b == TtyBound(Bindings, vi, erase, c)
<1>1. c \in Chars /\ erase \in Chars /\ vi \in BOOLEAN
  BY CharsAssumption, BindingsAre DEF KeyInv
<1>2. IsMap(Bindings.key, Bindings.alt, Bindings.tree)
  BY BindingsAre DEF IsBindings
<1>3. /\ b = [key |-> b.key, alt |-> b.alt, tree |-> b.tree]
      /\ IsMap(b.key, b.alt, b.tree)
      /\ Reached(Bindings.key, Bindings.alt, Bindings.tree) => Reached(b.key, b.alt, b.tree)
  BY <1>1, <1>2, TtyBoundKeeps
<1>4. TableStep(tree, b.tree)
  <2>1. \E C : ClearsHeads(Bindings.tree, b.tree, C)
    BY <1>1, <1>2, TtyBoundClears
  <2>2. Bindings.tree = tree
    BY BindingsAre
  <2> HIDE DEF b
  <2> QED
    BY <2>1, <2>2 DEF TableStep
<1>5. key' = b.key /\ alt' = b.alt /\ tree' = b.tree /\ vi' = vi /\ arrow' = arrow /\ erase' = c
  BY DEF EraseChanged, Install
<1> HIDE DEF b
<1>6. Reached(key, alt, tree) => Reached(key', alt', tree')
  BY <1>3, <1>5, BindingsAre DEF ReachedIn
<1>7. GoodStep
  BY <1>3, <1>4, <1>5, <1>6 DEF GoodStep
<1> QED
  BY <1>5, <1>7 DEF KeyInv, GoodStep

LEMMA BindStringGood ==
  ASSUME KeyInv, NEW a \in BOOLEAN, NEW w \in Words, BindString(a, w)
  PROVE  KeyInv' /\ GoodStep
<1>1. GoodStep
  BY LeadInGood DEF BindString
<1> QED
  BY <1>1 DEF KeyInv, GoodStep, BindString, Rebind

LEMMA BindCommandGood ==
  ASSUME KeyInv, NEW a \in BOOLEAN, NEW w \in Words, NEW command \in Commands, BindCommand(a, w, command)
  PROVE  KeyInv' /\ GoodStep
<1>1. command \in Command /\ command # "none"
  BY CommandsAssumption DEF Command
<1>2. CASE Len(w) > 1
  <2>1. GoodStep
    BY <1>1, <1>2, LeadInGood DEF BindCommand
  <2> QED
    BY <1>2, <2>1 DEF KeyInv, GoodStep, BindCommand, Rebind
<1>3. CASE ~(Len(w) > 1)
  <2> DEFINE m == Table(a)
             o == OtherTable(a)
             c == Head(w) % NKeys
             n == [m EXCEPT ![c] = command]
             u == KeymacroClear(tree, m, o, w)
  <2>1. w \in KeySeqs /\ Head(w) \in Nat /\ c \in Chars
    BY ArrowKeys, HeadsAreNumbers
  <2>2. Len(w) = 1 /\ w = <<Head(w)>>
    <3> DEFINE l == Len(w)
    <3>1. l \in Nat /\ l # 0 /\ ~(l > 1) /\ w \in Seq(Nat) /\ Head(w) = w[1]
      BY <1>3, <2>1, EmptySeq DEF KeySeqs
    <3> HIDE DEF l
    <3>2. l = 1
      BY <3>1
    <3> QED
      BY <3>1, <3>2 DEF l
  <2>3. IsMap(m, o, tree)
    BY TablesAre
  <2>4. Rebind(a, n, u)
    BY <1>3 DEF BindCommand
  <2> HIDE DEF m, o
  <2>5. IsMap(n, o, u)
    BY <1>1, <2>1, <2>3, ClearKeeps DEF IsMap, Tables
  <2>6. TableStep(tree, u)
    BY <2>1, <2>2, <2>3, ClearClears DEF TableStep, IsMap
  <2>7. WordsInTables /\ Reached(m, o, tree) => Reached(n, o, u)
    <3> SUFFICES ASSUME WordsInTables, Reached(m, o, tree) PROVE Reached(n, o, u)
      OBVIOUS
    <3>1. Head(w) \in Chars /\ c = Head(w)
      BY CharsAreNumbers DEF WordsInTables
    <3> DEFINE d == Head(w)
    <3>2. d \in Chars /\ c = d /\ w = <<d>>
      BY <2>2, <3>1
    <3>3. u = KeymacroClear(tree, m, o, <<d>>) /\ n = [m EXCEPT ![d] = command]
      BY <3>2
    <3> HIDE DEF d, n, u
    <3> QED
      BY <1>1, <2>3, <3>2, <3>3, RebindKeeps
  <2> HIDE DEF n, u
  <2>8. GoodStep
    BY <2>4, <2>5, <2>6, <2>7, RebindGood DEF m, o
  <2> QED
    BY <2>4, <2>8 DEF KeyInv, GoodStep, Rebind
<1> QED
  BY <1>2, <1>3

LEMMA UnbindKeyGood ==
  ASSUME KeyInv, NEW a \in BOOLEAN, NEW w \in Words, UnbindKey(a, w)
  PROVE  KeyInv' /\ GoodStep
<1> DEFINE m == Table(a)
           o == OtherTable(a)
           c == Head(w) % NKeys
<1>1. w \in KeySeqs /\ c \in Chars
  BY ArrowKeys, HeadsAreNumbers
<1>2. IsMap(m, o, tree)
  BY TablesAre
<1>3. CASE Len(w) > 1 \/ m[c] = "lead-in"
  <2> DEFINE u == KeymacroDelete(tree, w)
  <2>1. Rebind(a, m, u)
    BY <1>3 DEF UnbindKey
  <2> HIDE DEF m, o
  <2>2. /\ u = tree \/ Leaves(u) = {p \in Leaves(tree) : ~IsPrefix(w, p)}
        /\ \A p \in Leaves(u) : u[p] = tree[p]
    <3>1. IsTree(tree)
      BY <1>2 DEF IsMap
    <3>2. CASE w \in DOMAIN tree
      BY <1>1, <3>1, <3>2, DeletedLeaves DEF Leaves
    <3>3. CASE w \notin DOMAIN tree
      BY <3>3 DEF KeymacroDelete
    <3> QED
      BY <3>2, <3>3
  <2>3. IsMap(m, o, u)
    BY <1>1, <1>2, DeleteKeeps DEF IsMap
  <2>4. TableStep(tree, u)
    <3>1. CASE u = tree
      BY <3>1, SameTree
    <3>2. CASE Leaves(u) = {p \in Leaves(tree) : ~IsPrefix(w, p)}
      <4>1. ClearsBelow(tree, u, w)
        BY <2>2, <3>2 DEF ClearsBelow
      <4> QED
        BY <1>1, <4>1 DEF TableStep
    <3> QED
      BY <2>2, <3>1, <3>2
  <2> HIDE DEF u
  <2>5. Reached(m, o, tree) => Reached(m, o, u)
    BY <2>2 DEF Reached
  <2>6. GoodStep
    BY <2>1, <2>3, <2>4, <2>5, RebindGood DEF m, o
  <2> QED
    BY <2>1, <2>6 DEF KeyInv, GoodStep, Rebind
<1>4. CASE ~(Len(w) > 1 \/ m[c] = "lead-in")
  <2> DEFINE n == [m EXCEPT ![c] = "unassigned"]
  <2>1. Rebind(a, n, tree)
    BY <1>4 DEF UnbindKey
  <2> HIDE DEF m, o, c
  <2>2. n \in Tables /\ \A d \in Chars : n[d] = IF d = c THEN "unassigned" ELSE m[d]
    BY <1>1, <1>2 DEF IsMap, Tables, Command
  <2> HIDE DEF n
  <2>3. IsMap(n, o, tree)
    BY <1>2, <2>2 DEF IsMap
  <2>4. Reached(m, o, tree) => Reached(n, o, tree)
    BY <1>4, <2>2 DEF Reached, Leads
  <2>5. GoodStep
    BY <2>1, <2>3, <2>4, SameTree, RebindGood DEF m, o
  <2> QED
    BY <2>1, <2>5 DEF KeyInv, GoodStep, Rebind
<1> QED
  BY <1>3, <1>4

LEMMA BindArrowGood ==
  ASSUME KeyInv, NEW v \in (Commands \ {"lead-in"}) \cup {"string", "none"}, BindArrow(v)
  PROVE  KeyInv' /\ GoodStep
<1>1. arrow' = v /\ key' \in {key, LeadIn(key, ArrowName)} /\ UNCHANGED <<alt, vi, tree, erase>>
  BY DEF BindArrow
<1>2. IsMap(LeadIn(key, ArrowName), alt, tree)
      /\ (Reached(key, alt, tree) => Reached(LeadIn(key, ArrowName), alt, tree))
  BY LeadInKeeps, CharsAssumption DEF KeyInv
<1>3. GoodStep
  BY <1>1, <1>2, SameTree DEF GoodStep, KeyInv
<1>4. v \in ArrowValues \cup {"none"}
  BY CommandsAssumption DEF ArrowValues
<1> QED
  BY <1>1, <1>3, <1>4 DEF KeyInv, GoodStep

LEMMA NextGood ==
  ASSUME KeyInv, MapNext
  PROVE  KeyInv' /\ GoodStep
<1>1. ASSUME NEW v \in BOOLEAN, InitMap(v) PROVE KeyInv' /\ GoodStep
  BY <1>1, InitMapGood
<1>2. ASSUME SetTerminal PROVE KeyInv' /\ GoodStep
  BY <1>2, SetTerminalGood
<1>3. ASSUME NEW c \in Specials, EraseChanged(c) PROVE KeyInv' /\ GoodStep
  BY <1>3, EraseChangedGood
<1>4. ASSUME NEW a \in BOOLEAN, NEW w \in Words, BindString(a, w) PROVE KeyInv' /\ GoodStep
  BY <1>4, BindStringGood
<1>5. ASSUME NEW a \in BOOLEAN, NEW w \in Words, UnbindKey(a, w) PROVE KeyInv' /\ GoodStep
  BY <1>5, UnbindKeyGood
<1>6. ASSUME NEW a \in BOOLEAN, NEW w \in Words, NEW command \in Commands, BindCommand(a, w, command)
      PROVE  KeyInv' /\ GoodStep
  BY <1>6, BindCommandGood
<1>7. ASSUME NEW v \in (Commands \ {"lead-in"}) \cup {"string", "none"}, BindArrow(v)
      PROVE  KeyInv' /\ GoodStep
  BY <1>7, BindArrowGood
<1> QED
  BY <1>1, <1>2, <1>3, <1>4, <1>5, <1>6, <1>7 DEF MapNext


LEMMA KeyInvStep ==
  ASSUME KeyInv, [MapNext]_mapVars
  PROVE  KeyInv' /\ GoodStep
<1>1. CASE MapNext
  BY <1>1, NextGood
<1>2. CASE UNCHANGED mapVars
  BY <1>2, SameTree DEF mapVars, KeyInv, GoodStep
<1> QED
  BY <1>1, <1>2

LEMMA StandardIsATable ==
  ASSUME NEW v \in BOOLEAN, NEW a \in Commands \cup {"up", "string"}, NEW e \in Specials \cup {Erase}
  PROVE  LeafTable(StandardBindings(v, a, e).tree) \in StandardTables
BY DEF StandardTables

LEMMA KeyInvInit ==
  ASSUME MapInit
  PROVE  KeyInv /\ Reached(key, alt, tree) /\ LeafTable(tree) \in StandardTables
<1> DEFINE b == StandardBindings(FALSE, "up", Erase)
<1>1. "up" \in ArrowValues /\ Erase \in Chars
  BY CharsAssumption DEF ArrowValues, Command
<1>2. IsBindings(b) /\ ReachedIn(b)
  BY <1>1, StandardKeeps
<1>3. LeafTable(b.tree) \in StandardTables
  <2>1. FALSE \in BOOLEAN /\ "up" \in Commands \cup {"up", "string"} /\ Erase \in Specials \cup {Erase}
    OBVIOUS
  <2> QED
    BY <2>1, StandardIsATable
<1>4. key = b.key /\ alt = b.alt /\ tree = b.tree
  BY DEF MapInit
<1> HIDE DEF b
<1>5. IsMap(key, alt, tree) /\ Reached(key, alt, tree) /\ LeafTable(tree) \in StandardTables
  BY <1>2, <1>3, <1>4 DEF IsBindings, ReachedIn
<1> QED
  BY <1>1, <1>5 DEF KeyInv, MapInit

LEMMA KeyInvHolds ==
  MapSpec => []KeyInv
<1>1. MapInit => KeyInv
  BY KeyInvInit
<1>2. KeyInv /\ [MapNext]_mapVars => KeyInv'
  BY KeyInvStep
<1> QED
  BY <1>1, <1>2, PTL DEF MapSpec

\* A key typed to its end has a binding: node__delete takes the nodes that led
\* to what it deletes, and nothing else leaves a node that leads nowhere.
THEOREM EveryEndIsBound ==
  MapSpec => []LeavesBound
<1>1. KeyInv => LeavesBound
  BY DEF KeyInv, IsMap, AllBound, LeavesBound
<1> QED
  BY <1>1, KeyInvHolds, PTL

\* What a user binds can be typed, as long as it begins with a character that
\* the tables have: keymacro_clear returns for any other, but the table's
\* entry for its low byte is changed all the same.
THEOREM BoundIsReached ==
  ASSUME \A w \in Words : Head(w) \in Chars
  PROVE  MapSpec => []KeysReachable
<1> DEFINE Inv == KeyInv /\ Reached(key, alt, tree)
<1>1. MapInit => Inv
  BY KeyInvInit
<1>2. Inv /\ [MapNext]_mapVars => Inv'
  <2> SUFFICES ASSUME Inv, [MapNext]_mapVars PROVE Inv'
    OBVIOUS
  <2>1. KeyInv' /\ GoodStep
    BY KeyInvStep
  <2>2. Reached(key', alt', tree')
    BY <2>1 DEF GoodStep, WordsInTables
  <2> QED
    BY <2>1, <2>2
<1>3. Inv => KeysReachable
  BY CharsAreNumbers DEF Reached, Leads, KeysReachable
<1> QED
  BY <1>1, <1>2, <1>3, PTL DEF MapSpec

\* A sequence that was just bound to a string is what typing it gives.
THEOREM BindingTakesEffect ==
  MapSpec => BindTakesEffect
<1>1. ASSUME KeyInv, NEW a \in BOOLEAN, NEW w \in Words, BindString(a, w)
      PROVE  w \in Leaves(tree') /\ tree'[w] = "string"
  <2>1. tree' = Added(tree, w, "string")
    BY <1>1 DEF BindString, Rebind, KeymacroAdd
  <2>2. w \in KeySeqs
    BY ArrowKeys
  <2> QED
    BY <1>1, <2>1, <2>2, AddedLeaves DEF KeyInv, IsMap
<1> DEFINE Effect == \A a \in BOOLEAN, w \in Words :
                       BindString(a, w) => w \in Leaves(tree') /\ tree'[w] = "string"
<1>2. KeyInv /\ [MapNext]_mapVars => [Effect]_mapVars
  BY <1>1
<1> QED
  BY <1>2, KeyInvHolds, PTL DEF MapSpec, BindTakesEffect


-------------------------------------------------------------------------------
(* The tree implements the table of keys.                                  *)

LEMMA PrefixOfInstance ==
  ASSUME NEW p, NEW q
  PROVE  Bound!IsPrefix(p, q) <=> IsPrefix(p, q)
BY DEF Bound!IsPrefix, IsPrefix

LEMMA LeafTableIs ==
  ASSUME NEW t
  PROVE  DOMAIN LeafTable(t) = Leaves(t) /\ \A p \in Leaves(t) : LeafTable(t)[p] = t[p]
BY DEF LeafTable

LEMMA LeavesApart ==
  ASSUME NEW t, IsTree(t)
  PROVE  Bound!PrefixFree(Leaves(t))
BY PrefixOfInstance DEF Bound!PrefixFree, Leaves, Longer, IsStrictPrefix

\* A table that keeps the bindings of another, without some keys.
LEMMA TableWithout ==
  ASSUME NEW K, \A p \in Leaves(tree') : p \in Leaves(tree) /\ p \notin K,
         \A p \in Leaves(tree) : p \notin K => p \in Leaves(tree'),
         \A p \in Leaves(tree') : tree'[p] = tree[p]
  PROVE  LeafTable(tree') = Bound!Without(K)
<1>1. DOMAIN LeafTable(tree) = Leaves(tree) /\ \A p \in Leaves(tree) : LeafTable(tree)[p] = tree[p]
  BY LeafTableIs
<1>2. Bound!Without(K) = [p \in Leaves(tree) \ K |-> LeafTable(tree)[p]]
  BY <1>1 DEF Bound!Without
<1>3. LeafTable(tree') = [p \in Leaves(tree') |-> tree'[p]]
  BY DEF LeafTable
<1>4. Leaves(tree') = Leaves(tree) \ K
  OBVIOUS
<1>5. \A p \in Leaves(tree') : tree'[p] = LeafTable(tree)[p]
  BY <1>1
<1> QED
  BY <1>2, <1>3, <1>4, <1>5

LEMMA BindStep ==
  ASSUME NEW B, BindsKeys(tree, tree', B)
  PROVE  Bound!Bind
<1> DEFINE T == LeafTable(tree)
           U == LeafTable(tree')
           lost == {k \in DOMAIN T : \E b \in B : Bound!Conflict(k, b)}
<1>1. Bound!Bind <=> \E bound \in SUBSET DOMAIN U :
        LET gone == {k \in DOMAIN T : \E b \in bound : Bound!Conflict(k, b)} IN
        /\ DOMAIN U = bound \cup (DOMAIN T \ gone)
        /\ \A k \in DOMAIN T \ gone : U[k] = T[k]
  BY DEF Bound!Bind, LeafTable, Leaves
<1>2. \A k, b : Bound!Conflict(k, b) <=> Conflicting(k, b)
  BY PrefixOfInstance DEF Bound!Conflict, Conflicting
<1>3. /\ DOMAIN T = Leaves(tree) /\ DOMAIN U = Leaves(tree')
      /\ \A p \in Leaves(tree) : T[p] = tree[p]
      /\ \A p \in Leaves(tree') : U[p] = tree'[p]
  BY LeafTableIs
<1> HIDE DEF T, U
<1>4. B \in SUBSET DOMAIN U /\ DOMAIN U = B \cup (DOMAIN T \ lost)
  BY <1>2, <1>3 DEF BindsKeys
<1>5. \A k \in DOMAIN T \ lost : U[k] = T[k]
  BY <1>2, <1>3, <1>4 DEF BindsKeys
<1> QED
  BY <1>1, <1>4, <1>5

LEMMA TableStepIsStep ==
  ASSUME IsTree(tree), IsTree(tree'), TableStep(tree, tree')
  PROVE  [Bound!TableNext]_(LeafTable(tree))
<1> DEFINE T == LeafTable(tree)
           U == LeafTable(tree')
<1>1. /\ DOMAIN T = Leaves(tree) /\ DOMAIN U = Leaves(tree') /\ U = T'
  BY LeafTableIs
<1>2. Bound!PrefixFree(DOMAIN U)
  BY <1>1, LeavesApart
<1>3. CASE \E B \in SUBSET KeySeqs : BindsKeys(tree, tree', B)
  BY <1>1, <1>2, <1>3, BindStep DEF Bound!TableNext
<1>4. CASE \E C : ClearsHeads(tree, tree', C)
  <2>1. PICK C : ClearsHeads(tree, tree', C)
    BY <1>4
  <2> DEFINE heads == {Head(k) : k \in DOMAIN T} \cap C
             K == {k \in DOMAIN T : Head(k) \in heads}
  <2>2. Leaves(tree') = {p \in Leaves(tree) : p \notin K}
    BY <1>1, <2>1 DEF ClearsHeads
  <2>3. \A p \in Leaves(tree') : tree'[p] = tree[p]
    BY <2>1 DEF ClearsHeads
  <2>4. heads \in SUBSET {Head(k) : k \in DOMAIN T}
    OBVIOUS
  <2> HIDE DEF heads
  <2>5. /\ \A p \in Leaves(tree') : p \in Leaves(tree) /\ p \notin K
        /\ \A p \in Leaves(tree) : p \notin K => p \in Leaves(tree')
    <3> HIDE DEF K
    <3> QED
      BY <2>2
  <2>6. U = Bound!Without(K)
    <3> HIDE DEF K
    <3> QED
      BY <2>3, <2>5, TableWithout
  <2>7. Bound!Unbind
    BY <1>1, <2>4, <2>6 DEF Bound!Unbind
  <2> QED
    BY <1>1, <1>2, <2>7 DEF Bound!TableNext
<1>5. CASE \E k \in KeySeqs : ClearsBelow(tree, tree', k)
  <2>1. PICK k \in KeySeqs : ClearsBelow(tree, tree', k)
    BY <1>5
  <2>2. \A p \in Leaves(tree') : tree'[p] = tree[p]
    BY <2>1 DEF ClearsBelow
  <2>3. CASE \A p \in Leaves(tree) : ~IsPrefix(k, p)
    <3>1. Leaves(tree') = Leaves(tree)
      BY <2>1, <2>3 DEF ClearsBelow
    <3>2. U = T
      BY <2>2, <3>1 DEF LeafTable
    <3> QED
      BY <1>1, <3>2
  <2>4. CASE \E p \in Leaves(tree) : IsPrefix(k, p)
    <3>1. PICK q \in Leaves(tree) : IsPrefix(k, q)
      BY <2>4
    <3>2. k \in Paths(q)
      BY <3>1, LeavesAreKeys, PathsArePrefixes
    <3>3. PICK i \in 1..Len(q) : k = SubSeq(q, 1, i)
      BY <3>2 DEF Paths
    <3> DEFINE K == {l \in DOMAIN T : Bound!IsPrefix(SubSeq(q, 1, i), l)}
    <3>4. Leaves(tree') = {p \in Leaves(tree) : p \notin K}
      BY <1>1, <2>1, <3>3, PrefixOfInstance DEF ClearsBelow
    <3>5. /\ \A p \in Leaves(tree') : p \in Leaves(tree) /\ p \notin K
          /\ \A p \in Leaves(tree) : p \notin K => p \in Leaves(tree')
      <4> HIDE DEF K
      <4> QED
        BY <3>4
    <3>6. U = Bound!Without(K)
      <4> HIDE DEF K
      <4> QED
        BY <2>2, <3>5, TableWithout
    <3>7. q \in DOMAIN T
      BY <1>1
    <3>8. Bound!Unbind
      BY <1>1, <3>6, <3>7 DEF Bound!Unbind
    <3> QED
      BY <1>1, <1>2, <3>8 DEF Bound!TableNext
  <2> QED
    BY <2>3, <2>4
<1>6. CASE LeafTable(tree') \in StandardTables
  BY <1>1, <1>2, <1>6 DEF Bound!TableNext, Bound!Restore
<1> QED
  BY <1>3, <1>4, <1>5, <1>6 DEF TableStep


\* The tree of nodes behaves as a table of sequences in which none begins
\* another: what a bind loses is what it conflicts with, what an unbind loses
\* is what begins with the sequence or with a character, and only the standard
\* bindings replace it as a whole.
THEOREM ImplementsTheTable ==
  MapSpec => ImplementsTable
<1>1. MapInit => Bound!TableInit
  BY KeyInvInit DEF Bound!TableInit
<1>2. KeyInv /\ [MapNext]_mapVars => [Bound!TableNext]_(LeafTable(tree))
  <2> SUFFICES ASSUME KeyInv, [MapNext]_mapVars PROVE [Bound!TableNext]_(LeafTable(tree))
    OBVIOUS
  <2>1. IsTree(tree) /\ IsTree(tree') /\ TableStep(tree, tree')
    BY KeyInvStep DEF KeyInv, GoodStep, IsMap
  <2> QED
    BY <2>1, TableStepIsStep
<1> QED
  BY <1>1, <1>2, KeyInvHolds, PTL DEF MapSpec, ImplementsTable, Bound!TableSpec

-------------------------------------------------------------------------------
(* The argument and the input queue: ReadLoop.                             *)

\* The greatest of some of the first n numbers is one of them.
LEMMA MaxIsMember ==
  ASSUME NEW n \in Nat, NEW s, s \subseteq 1..n, s # {}
  PROVE  Max(s) \in s /\ \A x \in s : x <= Max(s)
<1> DEFINE T == {n - x : x \in s}
<1>1. T \subseteq Nat /\ T # {}
  <2>1. \A x \in s : x \in 1..n /\ n - x \in Nat
    OBVIOUS
  <2> QED
    BY <2>1
<1>2. PICK d \in T : \A f \in T : d <= f
  BY <1>1, LeastNumber
<1>3. PICK x \in s : d = n - x
  BY <1>2
<1>4. ASSUME NEW y \in s PROVE x >= y
  <2>1. n - x <= n - y
    BY <1>2, <1>3
  <2>2. x \in 1..n /\ y \in 1..n
    OBVIOUS
  <2> QED
    BY <2>1, <2>2
<1>5. \E m \in s : \A y \in s : m >= y
  BY <1>4
<1>6. Max(s) \in s /\ \A y \in s : Max(s) >= y
  BY <1>5 DEF Max
<1> QED
  BY <1>6

LEMMA MaxOfInterval ==
  ASSUME NEW n \in Nat \ {0}
  PROVE  Max(1..n) = n
<1>1. Max(1..n) \in 1..n /\ \A x \in 1..n : x <= Max(1..n)
  BY MaxIsMember, n \in 1..n
<1> QED
  BY <1>1

-------------------------------------------------------------------------------
(* Folding Typing over the commands of an argument.                        *)

Start == [value |-> 1, open |-> TRUE, reading |-> FALSE]

\* What the fold is for the positions s of keys, from the fold g for fewer.
OneMore(keys, g, s) == IF s = {} THEN Start ELSE Typing(g[s \ {Max(s)}], keys[Max(s)])

FoldsTyping(keys, g) == g = [s \in SUBSET (DOMAIN keys) |-> OneMore(keys, g, s)]

ArgumentOf(keys) == FoldLeft(Typing, Start, keys)

LEMMA FoldUnfolds ==
  ASSUME NEW keys, NEW h, FoldsTyping(keys, h)
  PROVE  \E g : FoldsTyping(keys, g) /\ ArgumentOf(keys) = g[DOMAIN keys]
<1> DEFINE c == CHOOSE g : FoldsTyping(keys, g)
<1>1. FoldsTyping(keys, c)
  OBVIOUS
<1>2. ArgumentOf(keys) = c[DOMAIN keys]
  BY Zenon DEF ArgumentOf, FoldLeft, MapThenFoldSet, FoldsTyping, OneMore
<1> QED
  BY <1>1, <1>2

LEMMA FewerPositions ==
  ASSUME NEW m \in Nat \ {0}, NEW s \in SUBSET (1..m), s # {}
  PROVE  s \ {Max(s)} \in SUBSET (1..(m - 1))
<1>1. Max(s) \in s /\ \A x \in s : x <= Max(s)
  BY MaxIsMember
<1>2. ASSUME NEW x \in s, x # Max(s) PROVE x \in 1..(m - 1)
  <2>1. x \in 1..m /\ Max(s) \in 1..m /\ x <= Max(s)
    BY <1>1
  <2> QED
    BY <1>2, <2>1
<1> QED
  BY <1>2

LEMMA FoldExists ==
  ASSUME NEW keys, NEW n \in Nat, DOMAIN keys = 1..n
  PROVE  \E g : FoldsTyping(keys, g)
<1> DEFINE Good(m) == \E g : \A s \in SUBSET (1..m) : g[s] = OneMore(keys, g, s)
           Bad == {m \in 0..n : ~Good(m)}
<1>1. Good(0)
  <2> DEFINE g == [s \in {{}} |-> Start]
  <2>1. \A s \in SUBSET (1..0) : s = {}
    OBVIOUS
  <2>2. \A s \in SUBSET (1..0) : g[s] = OneMore(keys, g, s)
    BY <2>1 DEF OneMore
  <2> QED
    BY <2>2
<1>2. ASSUME NEW m \in Nat \ {0}, Good(m - 1) PROVE Good(m)
  <2>1. PICK g : \A s \in SUBSET (1..(m - 1)) : g[s] = OneMore(keys, g, s)
    BY <1>2
  <2> DEFINE h == [s \in SUBSET (1..m) |-> OneMore(keys, g, s)]
  <2>2. \A s \in SUBSET (1..(m - 1)) : s \in SUBSET (1..m)
    OBVIOUS
  <2>3. \A s \in SUBSET (1..(m - 1)) : h[s] = g[s]
    BY <2>1, <2>2
  <2>4. ASSUME NEW s \in SUBSET (1..m) PROVE h[s] = OneMore(keys, h, s)
    <3>1. h[s] = OneMore(keys, g, s)
      OBVIOUS
    <3> HIDE DEF h
    <3>2. s # {} => h[s \ {Max(s)}] = g[s \ {Max(s)}]
      BY <2>3, FewerPositions
    <3> QED
      BY <3>1, <3>2 DEF OneMore
  <2> QED
    BY <2>4
<1> HIDE DEF Good
<1>3. Bad = {}
  <2> SUFFICES ASSUME Bad # {} PROVE FALSE
    OBVIOUS
  <2>1. Bad \subseteq Nat
    OBVIOUS
  <2>2. \A m \in Bad : m \in 0..n /\ ~Good(m)
    OBVIOUS
  <2>3. \A m \in 0..n : m \notin Bad => Good(m)
    OBVIOUS
  <2> HIDE DEF Bad
  <2>4. PICK e \in Bad : \A f \in Bad : e <= f
    BY <2>1, LeastNumber
  <2>5. e \in 0..n /\ e # 0
    BY <1>1, <2>2
  <2>6. e - 1 \in 0..n /\ e - 1 \notin Bad /\ e \in Nat \ {0}
    BY <2>1, <2>4, <2>5
  <2> QED
    BY <1>2, <2>2, <2>3, <2>6
<1>4. Good(n)
  BY <1>3, n \in 0..n
<1>5. PICK g : \A s \in SUBSET (1..n) : g[s] = OneMore(keys, g, s)
  BY <1>4 DEF Good
<1> DEFINE h == [s \in SUBSET (1..n) |-> g[s]]
<1>6. ASSUME NEW s \in SUBSET (1..n) PROVE h[s] = OneMore(keys, h, s)
  <2>1. h[s] = OneMore(keys, g, s)
    BY <1>5
  <2>2. h[s \ {Max(s)}] = g[s \ {Max(s)}]
    OBVIOUS
  <2> QED
    BY <2>1, <2>2 DEF OneMore
<1>7. h = [s \in SUBSET (1..n) |-> OneMore(keys, h, s)]
  BY <1>6
<1> QED
  BY <1>7 DEF FoldsTyping

LEMMA ArgumentOfNone == ArgumentOf(<<>>) = Start
<1>1. DOMAIN <<>> = 1..0
  OBVIOUS
<1>2. PICK g : FoldsTyping(<<>>, g) /\ ArgumentOf(<<>>) = g[DOMAIN <<>>]
  BY <1>1, FoldExists, FoldUnfolds
<1>3. DOMAIN <<>> = {} /\ {} \in SUBSET (DOMAIN <<>>)
  OBVIOUS
<1>4. g[{}] = OneMore(<<>>, g, {})
  BY <1>2, <1>3 DEF FoldsTyping
<1> QED
  BY <1>2, <1>3, <1>4 DEF OneMore

LEMMA FoldOfPrefix ==
  ASSUME NEW keys, NEW n \in Nat, DOMAIN keys = 1..n, NEW g, FoldsTyping(keys, g),
         NEW m \in 1..n
  PROVE  g[1..m] = Typing(g[1..(m - 1)], keys[m])
<1>1. 1..m \in SUBSET (DOMAIN keys) /\ 1..m # {}
  <2>1. 1..m \subseteq 1..n /\ m \in 1..m
    OBVIOUS
  <2> QED
    BY <2>1
<1>2. g[1..m] = OneMore(keys, g, 1..m)
  BY <1>1 DEF FoldsTyping
<1>3. Max(1..m) = m
  BY MaxOfInterval
<1>4. (1..m) \ {m} = 1..(m - 1)
  OBVIOUS
<1> QED
  BY <1>1, <1>2, <1>3, <1>4 DEF OneMore

\* One command more is one step of Typing more.
LEMMA ArgumentOfAppend ==
  ASSUME NEW K, NEW keys \in Seq(K), NEW k \in K
  PROVE  ArgumentOf(Append(keys, k)) = Typing(ArgumentOf(keys), k)
<1> DEFINE n == Len(keys)
           more == Append(keys, k)
<1>1. /\ n \in Nat /\ DOMAIN keys = 1..n /\ DOMAIN more = 1..(n + 1)
      /\ more[n + 1] = k /\ \A i \in 1..n : more[i] = keys[i]
  BY AppendProperties, LenProperties
<1> HIDE DEF n, more
<1>2. PICK g : FoldsTyping(keys, g) /\ ArgumentOf(keys) = g[1..n]
  BY <1>1, FoldExists, FoldUnfolds
<1>3. PICK h : FoldsTyping(more, h) /\ ArgumentOf(more) = h[1..(n + 1)]
  <2>1. n + 1 \in Nat
    BY <1>1
  <2> QED
    BY <1>1, <2>1, FoldExists, FoldUnfolds
<1> DEFINE Bad == {m \in 0..n : h[1..m] # g[1..m]}
<1>4. Bad = {}
  <2> SUFFICES ASSUME Bad # {} PROVE FALSE
    OBVIOUS
  <2> Bad \subseteq Nat
    BY <1>1
  <2> HIDE DEF Bad
  <2>1. PICK e \in Bad : \A f \in Bad : e <= f
    BY LeastNumber
  <2>2. CASE e = 0
    <3>1. 1..0 = {} /\ {} \in SUBSET (DOMAIN keys) /\ {} \in SUBSET (DOMAIN more)
      OBVIOUS
    <3>2. g[{}] = Start /\ h[{}] = Start
      BY <1>2, <1>3, <3>1 DEF FoldsTyping, OneMore
    <3> QED
      BY <2>1, <2>2, <3>1, <3>2 DEF Bad
  <2>3. CASE e # 0
    <3>1. e \in 1..n /\ e \in 1..(n + 1) /\ n + 1 \in Nat /\ e - 1 \in 0..n
      BY <1>1, <2>1, <2>3 DEF Bad
    <3>2. e - 1 \notin Bad
      BY <1>1, <2>1, <3>1
    <3>3. g[1..e] = Typing(g[1..(e - 1)], keys[e])
      BY <1>1, <1>2, <3>1, FoldOfPrefix
    <3>4. h[1..e] = Typing(h[1..(e - 1)], more[e])
      BY <1>1, <1>3, <3>1, FoldOfPrefix
    <3>5. h[1..(e - 1)] = g[1..(e - 1)] /\ more[e] = keys[e]
      BY <1>1, <3>1, <3>2 DEF Bad
    <3>6. h[1..e] = g[1..e]
      BY <3>3, <3>4, <3>5
    <3> QED
      BY <2>1, <3>6 DEF Bad
  <2> QED
    BY <2>2, <2>3
<1>5. h[1..n] = g[1..n]
  BY <1>1, <1>4
<1>6. h[1..(n + 1)] = Typing(h[1..n], k)
  <2>1. n + 1 \in 1..(n + 1) /\ n + 1 \in Nat /\ (n + 1) - 1 = n
    BY <1>1
  <2> DEFINE l == n + 1
  <2>2. l \in Nat /\ l \in 1..l /\ DOMAIN more = 1..l /\ FoldsTyping(more, h)
    BY <1>1, <1>3, <2>1
  <2> HIDE DEF l
  <2>3. h[1..l] = Typing(h[1..(l - 1)], more[l])
    BY <2>2, FoldOfPrefix
  <2> QED
    BY <1>1, <2>1, <2>3 DEF l
<1> QED
  BY <1>2, <1>3, <1>5, <1>6 DEF more

-------------------------------------------------------------------------------
(* The argument.                                                           *)

ArgumentCommands == {"universal-argument", "meta-next", "digit", "argument-digit"}

ArgumentKeys == ArgumentCommands \X (0..9)

\* The fold of the argument's commands, and what the next digit will do.
ArgumentRead(open) == [value |-> argument, open |-> open, reading |-> doingarg]

ArgInv ==
  /\ argkeys \in Seq(ArgumentKeys)
  /\ doingarg \in BOOLEAN
  /\ \E open \in BOOLEAN :
       /\ ArgumentOf(argkeys) = ArgumentRead(open)
       /\ doingarg => (open <=> lastcmd # "universal-argument")

MetaInv == metanext => at \in {"application", "command"} /\ Metas(argkeys)

LEMMA NothingRead ==
  ASSUME argkeys' = <<>>, argument' = 1, doingarg' = FALSE
  PROVE  ArgInv'
<1>1. ArgumentOf(argkeys') = ArgumentRead(TRUE)'
  BY ArgumentOfNone DEF Start, ArgumentRead
<1>2. argkeys' \in Seq(ArgumentKeys)
  OBVIOUS
<1> QED
  BY <1>1, <1>2 DEF ArgInv

LEMMA ArgumentStays ==
  ASSUME ArgInv, UNCHANGED <<argument, doingarg, lastcmd, argkeys>>
  PROVE  ArgInv'
BY DEF ArgInv, ArgumentRead

\* A command that keeps the argument is the next in its fold.
LEMMA ArgumentGoesOn ==
  ASSUME ArgInv, NEW name \in ArgumentCommands, GoOn(name)
  PROVE  /\ argkeys' \in Seq(ArgumentKeys) /\ argkeys' # <<>> /\ Last(argkeys')[1] = name
         /\ ArgumentOf(argkeys') =
              Typing(ArgumentOf(argkeys), <<name, IF ch \in DOMAIN Digit THEN DigitValue ELSE 0>>)
         /\ at' = "command" /\ lastcmd' = LastCmd(name)
<1> DEFINE k == <<name, IF ch \in DOMAIN Digit THEN DigitValue ELSE 0>>
<1>1. k \in ArgumentKeys
  BY DigitAssumption DEF ArgumentKeys, DigitValue
<1>2. argkeys' = Append(argkeys, k) /\ argkeys \in Seq(ArgumentKeys)
  BY DEF GoOn, ArgInv, DigitValue
<1>3. k[1] = name
  OBVIOUS
<1> HIDE DEF k
<1>4. ArgumentOf(Append(argkeys, k)) = Typing(ArgumentOf(argkeys), k)
  BY <1>1, <1>2, ArgumentOfAppend
<1>5. Append(argkeys, k) \in Seq(ArgumentKeys) /\ Last(Append(argkeys, k)) = k /\ Append(argkeys, k) # <<>>
  BY <1>1, <1>2, AppendProperties DEF Last
<1> QED
  BY <1>2, <1>3, <1>4, <1>5 DEF k, GoOn

LEMMA FinishForgets ==
  ASSUME NEW name, NEW f, Finish(name, f)
  PROVE  ArgInv'
BY NothingRead DEF Finish

LEMMA EndForgets ==
  ASSUME NEW name, NEW f, NEW r, EndLine(name, f, r)
  PROVE  ArgInv'
BY NothingRead DEF EndLine

LEMMA ResetForgets == Reset => ArgInv' /\ MetaInv'
BY NothingRead DEF Reset, MetaInv

LEMMA DigitKeeps ==
  ASSUME ArgInv, DigitCommand
  PROVE  ArgInv'
<1>1. CASE \E f : Finish("digit", f)
  BY <1>1, FinishForgets
<1>2. CASE /\ GoOn("digit") /\ doingarg /\ ch \in DOMAIN Digit /\ UNCHANGED doingarg
           /\ argument' = IF lastcmd = "universal-argument" THEN DigitValue
                          ELSE argument * 10 + DigitValue
  <2>1. PICK open \in BOOLEAN : /\ ArgumentOf(argkeys) = ArgumentRead(open)
                                /\ open <=> lastcmd # "universal-argument"
    BY <1>2 DEF ArgInv
  <2> DEFINE k == <<"digit", DigitValue>>
  <2>2. k[1] = "digit" /\ k[2] = DigitValue
    OBVIOUS
  <2>3. /\ argkeys' \in Seq(ArgumentKeys)
        /\ ArgumentOf(argkeys') = Typing(ArgumentOf(argkeys), k)
        /\ lastcmd' = "other"
    BY <1>2, ArgumentGoesOn DEF ArgumentCommands, LastCmd
  <2> HIDE DEF k
  <2>4. Typing(ArgumentRead(open), k) = ArgumentRead(TRUE)'
    BY <1>2, <2>1, <2>2 DEF Typing, ArgumentRead
  <2> QED
    BY <1>2, <2>1, <2>3, <2>4 DEF ArgInv
<1> QED
  BY <1>1, <1>2 DEF DigitCommand

LEMMA ArgumentDigitKeeps ==
  ASSUME ArgInv, ArgumentDigit
  PROVE  ArgInv'
<1>1. CASE \E f : Finish("argument-digit", f)
  BY <1>1, FinishForgets
<1>2. CASE /\ GoOn("argument-digit") /\ ch \in DOMAIN Digit /\ doingarg' = TRUE
           /\ argument' = IF doingarg THEN argument * 10 + DigitValue ELSE DigitValue
  <2>1. PICK open \in BOOLEAN : ArgumentOf(argkeys) = ArgumentRead(open)
    BY DEF ArgInv
  <2> DEFINE k == <<"argument-digit", DigitValue>>
  <2>2. k[1] = "argument-digit" /\ k[2] = DigitValue
    OBVIOUS
  <2>3. /\ argkeys' \in Seq(ArgumentKeys)
        /\ ArgumentOf(argkeys') = Typing(ArgumentOf(argkeys), k)
        /\ lastcmd' = "other"
    BY <1>2, ArgumentGoesOn DEF ArgumentCommands, LastCmd
  <2> HIDE DEF k
  <2>4. Typing(ArgumentRead(open), k) = ArgumentRead(TRUE)'
    BY <1>2, <2>2 DEF Typing, ArgumentRead
  <2> QED
    BY <1>2, <2>1, <2>3, <2>4 DEF ArgInv
<1> QED
  BY <1>1, <1>2 DEF ArgumentDigit

LEMMA UniversalKeeps ==
  ASSUME ArgInv, UniversalArgument
  PROVE  ArgInv'
<1>1. CASE \E f : Finish("universal-argument", f)
  BY <1>1, FinishForgets
<1>2. CASE GoOn("universal-argument") /\ doingarg' = TRUE /\ argument' = argument * 4
  <2>1. PICK open \in BOOLEAN : ArgumentOf(argkeys) = ArgumentRead(open)
    BY DEF ArgInv
  <2> DEFINE k == <<"universal-argument", IF ch \in DOMAIN Digit THEN DigitValue ELSE 0>>
  <2>2. k[1] = "universal-argument"
    OBVIOUS
  <2>3. /\ argkeys' \in Seq(ArgumentKeys)
        /\ ArgumentOf(argkeys') = Typing(ArgumentOf(argkeys), k)
        /\ lastcmd' = "universal-argument"
    BY <1>2, ArgumentGoesOn DEF ArgumentCommands, LastCmd
  <2> HIDE DEF k
  <2>4. Typing(ArgumentRead(open), k) = ArgumentRead(FALSE)'
    BY <1>2, <2>2 DEF Typing, ArgumentRead
  <2> QED
    BY <1>2, <2>1, <2>3, <2>4 DEF ArgInv
<1> QED
  BY <1>1, <1>2 DEF UniversalArgument

LEMMA MetaKeeps ==
  ASSUME ArgInv, MetaNext
  PROVE  ArgInv' /\ MetaInv'
<1>1. GoOn("meta-next") /\ UNCHANGED <<argument, doingarg>>
  BY DEF MetaNext
<1>2. PICK open \in BOOLEAN : ArgumentOf(argkeys) = ArgumentRead(open)
  BY DEF ArgInv
<1> DEFINE k == <<"meta-next", IF ch \in DOMAIN Digit THEN DigitValue ELSE 0>>
<1>3. k[1] = "meta-next"
  OBVIOUS
<1>4. /\ argkeys' \in Seq(ArgumentKeys)
      /\ ArgumentOf(argkeys') = Typing(ArgumentOf(argkeys), k)
      /\ lastcmd' = "other" /\ at' = "command"
      /\ argkeys' # <<>> /\ Last(argkeys')[1] = "meta-next"
  BY <1>1, ArgumentGoesOn DEF ArgumentCommands, LastCmd
<1> HIDE DEF k
<1>5. Typing(ArgumentRead(open), k) = ArgumentRead(TRUE)'
  BY <1>1, <1>3 DEF Typing, ArgumentRead
<1>6. doingarg' \in BOOLEAN
  BY <1>1 DEF ArgInv
<1>7. ArgInv'
  BY <1>2, <1>4, <1>5, <1>6 DEF ArgInv
<1> QED
  BY <1>4, <1>7 DEF MetaInv, Metas

\* A command runs with the meta key spent.
LEMMA MetaSpent ==
  ASSUME MetaInv, UNCHANGED metanext, at \notin {"application", "command"}
  PROVE  MetaInv'
BY DEF MetaInv

LEMMA CharacterKeeps ==
  ASSUME ArgInv, MetaInv, NEW c, GetCharacter(c)
  PROVE  ArgInv' /\ MetaInv'
<1>1. CASE GetKey(c)
  <2>1. ArgInv'
    BY <1>1, ArgumentStays DEF GetKey
  <2>2. metanext' = FALSE
    BY <1>1 DEF GetKey, TakeKey
  <2> QED
    BY <2>1, <2>2 DEF MetaInv
<1>2. CASE GetNextKey(c)
  <2>1. ArgInv'
    BY <1>2, ArgumentStays DEF GetNextKey, stateVars
  <2>2. MetaInv'
    BY <1>2, MetaSpent DEF GetNextKey, stateVars
  <2> QED
    BY <2>1, <2>2
<1>3. CASE GetQuoted(c)
  <2>1. ArgInv'
    BY <1>3, FinishForgets DEF GetQuoted
  <2>2. MetaInv'
    BY <1>3, MetaSpent DEF GetQuoted
  <2> QED
    BY <2>1, <2>2
<1> QED
  BY <1>1, <1>2, <1>3 DEF GetCharacter

LEMMA WorkKeeps ==
  ASSUME ArgInv, MetaInv, Work
  PROVE  ArgInv' /\ MetaInv'
<1>1. ASSUME NEW c, GetCharacter(c)
      PROVE  ArgInv' /\ MetaInv'
  BY <1>1, CharacterKeeps
<1>2. CASE Lookup
  <2>1. ArgInv'
    BY <1>2, ArgumentStays DEF Lookup, stateVars
  <2>2. MetaInv'
    BY <1>2, MetaSpent DEF Lookup, stateVars
  <2> QED
    BY <2>1, <2>2
<1>3. CASE SelfInsert \/ KillLine \/ Unassigned
  <2>1. ArgInv'
    BY <1>3, FinishForgets DEF SelfInsert, KillLine, Unassigned
  <2>2. MetaInv'
    BY <1>3, MetaSpent DEF SelfInsert, KillLine, Unassigned, Kept, Run
  <2> QED
    BY <2>1, <2>2
<1>4. CASE DigitCommand
  <2>1. MetaInv'
    BY <1>4, MetaSpent DEF DigitCommand, Kept, Run
  <2> QED
    BY <1>4, <2>1, DigitKeeps
<1>5. CASE ArgumentDigit
  <2>1. MetaInv'
    BY <1>5, MetaSpent DEF ArgumentDigit, Kept, Run
  <2> QED
    BY <1>5, <2>1, ArgumentDigitKeeps
<1>6. CASE UniversalArgument
  <2>1. MetaInv'
    BY <1>6, MetaSpent DEF UniversalArgument, Kept, Run
  <2> QED
    BY <1>6, <2>1, UniversalKeeps
<1>7. CASE MetaNext
  BY <1>7, MetaKeeps
<1>8. CASE QuotedInsert
  <2>1. ArgInv'
    BY <1>8, ArgumentStays DEF QuotedInsert, stateVars
  <2>2. MetaInv'
    BY <1>8, MetaSpent DEF QuotedInsert, stateVars, Run
  <2> QED
    BY <2>1, <2>2
<1>9. CASE Newline \/ EndOfFile
  <2>1. ArgInv'
    BY <1>9, EndForgets DEF Newline, EndOfFile
  <2>2. MetaInv'
    BY <1>9, MetaSpent DEF Newline, EndOfFile, Kept, Run
  <2> QED
    BY <2>1, <2>2
<1>10. CASE PushCommand
  <2>1. ArgInv'
    BY <1>10, FinishForgets DEF PushCommand
  <2>2. MetaInv'
    BY <1>10, MetaSpent DEF PushCommand, Run
  <2> QED
    BY <2>1, <2>2
<1>11. CASE Fatal
  BY <1>11, ResetForgets DEF Fatal
<1> QED
  BY <1>1, <1>2, <1>3, <1>4, <1>5, <1>6, <1>7, <1>8, <1>9, <1>10, <1>11 DEF Work

LEMMA FailureKeeps ==
  ASSUME ArgInv, MetaInv, ReadFails
  PROVE  ArgInv' /\ MetaInv'
<1>1. CASE UNCHANGED <<argument, doingarg, lastcmd, argkeys>> /\ at' = "application"
  <2>1. ArgInv'
    BY <1>1, ArgumentStays
  <2>2. MetaInv'
    BY <1>1 DEF MetaInv, Metas, ReadFails
  <2> QED
    BY <2>1, <2>2
<1>2. CASE at = "quoted" /\ \E f, r : EndLine("quoted-insert", f, r)
  <2>1. ArgInv'
    BY <1>2, EndForgets
  <2>2. MetaInv'
    BY <1>2, MetaSpent DEF ReadFails
  <2> QED
    BY <2>1, <2>2
<1> QED
  BY <1>1, <1>2 DEF ReadFails, Return

LEMMA ApplicationKeeps ==
  ASSUME ArgInv, MetaInv, Application
  PROVE  ArgInv' /\ MetaInv'
<1>1. CASE Reset
  BY <1>1, ResetForgets
<1>2. CASE UNCHANGED stateVars /\ at' \in {"application", "command"}
  <2>1. ArgInv'
    BY <1>2, ArgumentStays DEF stateVars
  <2>2. MetaInv'
    BY <1>2 DEF MetaInv, Metas, stateVars
  <2> QED
    BY <2>1, <2>2
<1> QED
  BY <1>1, <1>2 DEF Application, Call, SetUnbuffered, Prepare, Push

LEMMA ArgumentStep == ArgInv /\ MetaInv /\ [Next]_vars => ArgInv' /\ MetaInv'
<1> SUFFICES ASSUME ArgInv, MetaInv, [Next]_vars PROVE ArgInv' /\ MetaInv'
  OBVIOUS
<1>1. CASE Work
  BY <1>1, WorkKeeps
<1>2. CASE Wait
  <2>1. ASSUME NEW c, GetCharacter(c) PROVE ArgInv' /\ MetaInv'
    BY <2>1, CharacterKeeps
  <2> QED
    BY <1>2, <2>1, FailureKeeps DEF Wait
<1>3. CASE Application
  BY <1>3, ApplicationKeeps
<1>4. CASE UNCHANGED vars
  <2>1. ArgInv'
    BY <1>4, ArgumentStays DEF vars, stateVars
  <2>2. MetaInv'
    BY <1>4 DEF MetaInv, Metas, vars, stateVars
  <2> QED
    BY <2>1, <2>2
<1> QED
  BY <1>1, <1>2, <1>3, <1>4 DEF Next

LEMMA ArgumentAlways == Spec => [](ArgInv /\ MetaInv)
<1>1. Init => ArgInv /\ MetaInv
  <2> SUFFICES ASSUME Init PROVE ArgInv /\ MetaInv
    OBVIOUS
  <2>1. ArgumentOf(argkeys) = ArgumentRead(TRUE)
    BY ArgumentOfNone DEF Init, Start, ArgumentRead
  <2>2. argkeys \in Seq(ArgumentKeys)
    BY DEF Init
  <2> QED
    BY <2>1, <2>2 DEF Init, ArgInv, MetaInv
<1> QED
  BY <1>1, ArgumentStep, PTL DEF Spec

\* The argument is the one typed in front of the next command.
THEOREM ArgumentRight == Spec => []ArgumentAsTyped
<1>1. ArgInv => ArgumentAsTyped
  <2> SUFFICES ASSUME ArgInv PROVE ArgumentAsTyped
    OBVIOUS
  <2>1. PICK open \in BOOLEAN : ArgumentOf(argkeys) = ArgumentRead(open)
    BY DEF ArgInv
  <2>2. ArgumentOf(argkeys).value = argument /\ ArgumentOf(argkeys).reading = doingarg
    BY <2>1 DEF ArgumentRead
  <2> QED
    BY <2>2 DEF ArgumentAsTyped, ArgumentOf, Start
<1> QED
  BY <1>1, ArgumentAlways, PTL

\* The meta key is for the very next character.
THEOREM MetaRight == Spec => []MetaForNextKey
<1>1. MetaInv => MetaForNextKey
  BY DEF MetaInv, MetaForNextKey
<1> QED
  BY <1>1, ArgumentAlways, PTL

-------------------------------------------------------------------------------
(* The characters of several strings, one after the other.                 *)

Texts == Seq(Nat \ {0})

\* What flattening unfolds to: g[i] is the first i strings put together.
Flattens(seqs, g) ==
  g = [i \in 1..Len(seqs) |-> IF i = 1 THEN seqs[i] ELSE g[i - 1] \o seqs[i]]

LEMMA FlattenUnfolds ==
  ASSUME NEW seqs \in Seq(Texts), seqs # <<>>, NEW h, Flattens(seqs, h)
  PROVE  \E g : Flattens(seqs, g) /\ FlattenSeq(seqs) = g[Len(seqs)]
<1> DEFINE c == CHOOSE g : Flattens(seqs, g)
<1>1. Flattens(seqs, c)
  OBVIOUS
<1>2. Len(seqs) # 0
  BY EmptySeq
<1>3. FlattenSeq(seqs) = c[Len(seqs)]
  BY Zenon, <1>2 DEF FlattenSeq, Flattens
<1> QED
  BY <1>1, <1>3

LEMMA FlattenExists ==
  ASSUME NEW seqs, NEW n \in Nat, Len(seqs) = n
  PROVE  \E g : Flattens(seqs, g)
<1> DEFINE Rhs(g, i) == IF i = 1 THEN seqs[i] ELSE g[i - 1] \o seqs[i]
           Good(m) == \E g : \A i \in 1..m : g[i] = Rhs(g, i)
           Bad == {m \in 0..n : ~Good(m)}
<1>1. Good(0)
  OBVIOUS
<1>2. ASSUME NEW m \in Nat \ {0}, Good(m - 1) PROVE Good(m)
  <2>1. PICK g : \A i \in 1..(m - 1) : g[i] = Rhs(g, i)
    BY <1>2
  <2> DEFINE h == [i \in 1..m |-> Rhs(g, i)]
  <2>2. \A i \in 1..(m - 1) : h[i] = g[i]
    BY <2>1
  <2>3. ASSUME NEW i \in 1..m PROVE h[i] = Rhs(h, i)
    <3>1. h[i] = Rhs(g, i)
      OBVIOUS
    <3>2. i # 1 => i - 1 \in 1..(m - 1)
      OBVIOUS
    <3> HIDE DEF h
    <3> QED
      BY <2>2, <3>1, <3>2
  <2> HIDE DEF h
  <2> QED
    BY <2>3
<1> HIDE DEF Good
<1>3. Bad = {}
  <2> SUFFICES ASSUME Bad # {} PROVE FALSE
    OBVIOUS
  <2>1. Bad \subseteq Nat
    OBVIOUS
  <2>2. \A m \in Bad : m \in 0..n /\ ~Good(m)
    OBVIOUS
  <2>3. \A m \in 0..n : m \notin Bad => Good(m)
    OBVIOUS
  <2> HIDE DEF Bad
  <2>4. PICK e \in Bad : \A f \in Bad : e <= f
    BY <2>1, LeastNumber
  <2>5. e \in 0..n /\ e # 0
    BY <1>1, <2>2
  <2>6. e - 1 \in 0..n /\ e - 1 \notin Bad /\ e \in Nat \ {0}
    BY <2>1, <2>4, <2>5
  <2> QED
    BY <1>2, <2>2, <2>3, <2>6
<1>4. Good(n)
  BY <1>3, n \in 0..n
<1>5. PICK g : \A i \in 1..n : g[i] = Rhs(g, i)
  BY <1>4 DEF Good
<1> DEFINE h == [i \in 1..n |-> g[i]]
<1>6. ASSUME NEW i \in 1..n PROVE h[i] = Rhs(h, i)
  <2>1. h[i] = Rhs(g, i)
    BY <1>5
  <2>2. i # 1 => h[i - 1] = g[i - 1]
    OBVIOUS
  <2> QED
    BY <2>1, <2>2
<1>7. h = [i \in 1..n |-> Rhs(h, i)]
  BY <1>6
<1> QED
  BY <1>7 DEF Flattens

LEMMA FlattenOfNone == FlattenSeq(<<>>) = <<>>
BY DEF FlattenSeq

\* The first m strings of seqs and of more are the same ones.
LEMMA FlattenSamePrefix ==
  ASSUME NEW seqs \in Seq(Texts), NEW more \in Seq(Texts), Len(seqs) <= Len(more),
         \A i \in 1..Len(seqs) : more[i] = seqs[i],
         NEW g, Flattens(seqs, g), NEW h, Flattens(more, h)
  PROVE  \A m \in 1..Len(seqs) : h[m] = g[m] /\ g[m] \in Texts
<1> DEFINE n == Len(seqs)
           Bad == {m \in 1..n : ~(h[m] = g[m] /\ g[m] \in Texts)}
<1>1. n \in Nat /\ Len(more) \in Nat /\ n <= Len(more)
  BY LenProperties
<1>2. \A m \in 1..n : /\ g[m] = IF m = 1 THEN seqs[m] ELSE g[m - 1] \o seqs[m]
                      /\ h[m] = IF m = 1 THEN seqs[m] ELSE h[m - 1] \o seqs[m]
  <2>1. \A m \in 1..n : m \in 1..Len(more)
    BY <1>1
  <2>2. \A m \in 1..n : g[m] = IF m = 1 THEN seqs[m] ELSE g[m - 1] \o seqs[m]
    BY Zenon DEF Flattens
  <2>3. \A m \in 1..Len(more) : h[m] = IF m = 1 THEN more[m] ELSE h[m - 1] \o more[m]
    BY Zenon DEF Flattens
  <2> QED
    BY <2>1, <2>2, <2>3
<1>3. \A m \in 1..n : seqs[m] \in Texts
  BY ElementOfSeq
<1> HIDE DEF n
<1>4. Bad = {}
  <2> SUFFICES ASSUME Bad # {} PROVE FALSE
    OBVIOUS
  <2>1. Bad \subseteq Nat
    BY <1>1
  <2>2. \A m \in Bad : m \in 1..n /\ ~(h[m] = g[m] /\ g[m] \in Texts)
    OBVIOUS
  <2>3. \A m \in 1..n : m \notin Bad => h[m] = g[m] /\ g[m] \in Texts
    OBVIOUS
  <2> HIDE DEF Bad
  <2>4. PICK e \in Bad : \A f \in Bad : e <= f
    BY <2>1, LeastNumber
  <2>5. e \in 1..n
    BY <2>2
  <2>6. e # 1
    BY <1>2, <1>3, <2>2, <2>5
  <2>7. e - 1 \in 1..n /\ e - 1 \notin Bad
    BY <1>1, <2>1, <2>4, <2>5, <2>6
  <2>8. g[e] = g[e - 1] \o seqs[e] /\ h[e] = g[e - 1] \o seqs[e]
    BY <1>2, <2>3, <2>5, <2>6, <2>7
  <2>9. g[e - 1] \in Texts /\ seqs[e] \in Texts
    BY <1>3, <2>3, <2>5, <2>7
  <2>10. g[e - 1] \o seqs[e] \in Texts
    BY <2>9, ConcatProperties DEF Texts
  <2> QED
    BY <2>2, <2>8, <2>10
<1> QED
  BY <1>4 DEF n

LEMMA TextsAssociate ==
  ASSUME NEW s \in Texts, NEW w \in Texts, NEW x \in Texts
  PROVE  (s \o w) \o x = s \o (w \o x)
BY ConcatAssociative DEF Texts

LEMMA FlattenIsText ==
  ASSUME NEW seqs \in Seq(Texts)
  PROVE  FlattenSeq(seqs) \in Texts
<1>1. CASE seqs = <<>>
  <2>1. <<>> \in Texts
    BY EmptySeq DEF Texts
  <2> QED
    BY <1>1, <2>1, FlattenOfNone
<1>2. CASE seqs # <<>>
  <2>1. Len(seqs) \in Nat \ {0}
    BY <1>2, EmptySeq
  <2>2. PICK g : Flattens(seqs, g) /\ FlattenSeq(seqs) = g[Len(seqs)]
    BY <1>2, <2>1, FlattenExists, FlattenUnfolds
  <2>3. \A m \in 1..Len(seqs) : g[m] \in Texts
    BY <2>1, <2>2, FlattenSamePrefix
  <2> QED
    BY <2>1, <2>2, <2>3
<1> QED
  BY <1>1, <1>2

LEMMA FlattenOfAppend ==
  ASSUME NEW seqs \in Seq(Texts), NEW s \in Texts
  PROVE  FlattenSeq(Append(seqs, s)) = FlattenSeq(seqs) \o s
<1> DEFINE n == Len(seqs)
           more == Append(seqs, s)
<1>1. /\ n \in Nat /\ more \in Seq(Texts) /\ more # <<>> /\ Len(more) = n + 1
      /\ \A i \in 1..n : more[i] = seqs[i]
      /\ more[n + 1] = s
  BY AppendProperties, LenProperties
<1> HIDE DEF more
<1>2. PICK h : Flattens(more, h) /\ FlattenSeq(more) = h[n + 1]
  <2>1. n + 1 \in Nat
    BY <1>1
  <2>2. \E h : Flattens(more, h)
    BY <1>1, <2>1, FlattenExists
  <2> QED
    BY <1>1, <2>2, FlattenUnfolds
<1>3. h[n + 1] = IF n + 1 = 1 THEN s ELSE h[n] \o s
  <2>1. n + 1 \in 1..Len(more) /\ (n + 1) - 1 = n
    BY <1>1
  <2>2. \A m \in 1..Len(more) : h[m] = IF m = 1 THEN more[m] ELSE h[m - 1] \o more[m]
    BY Zenon, <1>2 DEF Flattens
  <2>3. h[n + 1] = IF n + 1 = 1 THEN more[n + 1] ELSE h[(n + 1) - 1] \o more[n + 1]
    BY <2>1, <2>2
  <2> QED
    BY <1>1, <2>1, <2>3
<1>4. CASE seqs = <<>>
  <2>1. n = 0
    BY <1>4
  <2>2. FlattenSeq(more) = s
    BY <1>1, <1>2, <1>3, <2>1
  <2>3. <<>> \o s = s
    BY ConcatEmptySeq DEF Texts
  <2> QED
    BY <1>4, <2>2, <2>3, FlattenOfNone DEF more
<1>5. CASE seqs # <<>>
  <2>1. n \in Nat \ {0}
    BY <1>5, EmptySeq
  <2>2. PICK g : Flattens(seqs, g) /\ FlattenSeq(seqs) = g[n]
    BY <1>5, <2>1, FlattenExists, FlattenUnfolds
  <2>3. h[n] = g[n]
    <3>1. Len(seqs) <= Len(more) /\ n \in 1..Len(seqs)
      BY <1>1, <2>1
    <3> QED
      BY <1>1, <1>2, <2>2, <3>1, FlattenSamePrefix
  <2> QED
    BY <1>2, <1>3, <2>1, <2>2, <2>3 DEF more
<1> QED
  BY <1>4, <1>5

LEMMA FlattenOfCons ==
  ASSUME NEW s \in Texts, NEW rest \in Seq(Texts)
  PROVE  FlattenSeq(<<s>> \o rest) = s \o FlattenSeq(rest)
<1> DEFINE Fails(r) == FlattenSeq(<<s>> \o r) # s \o FlattenSeq(r)
           Bad == {n \in Nat : \E r \in Seq(Texts) : Len(r) = n /\ Fails(r)}
<1>1. Bad = {}
  <2> SUFFICES ASSUME Bad # {} PROVE FALSE
    OBVIOUS
  <2>1. Bad \subseteq Nat
    OBVIOUS
  <2>2. \A n \in Bad : \E r \in Seq(Texts) : Len(r) = n /\ Fails(r)
    OBVIOUS
  <2>3. \A n \in Nat : n \notin Bad => \A r \in Seq(Texts) : Len(r) = n => ~Fails(r)
    OBVIOUS
  <2> HIDE DEF Bad
  <2>4. PICK e \in Bad : \A f \in Bad : e <= f
    BY <2>1, LeastNumber
  <2> HIDE DEF Fails
  <2>5. PICK r \in Seq(Texts) : Len(r) = e /\ Fails(r)
    BY <2>2
  <2>6. r # <<>>
    <3>1. <<s>> \o <<>> = Append(<<>>, s) /\ <<>> \in Seq(Texts)
      OBVIOUS
    <3>2. FlattenSeq(Append(<<>>, s)) = <<>> \o s
      BY <3>1, FlattenOfAppend, FlattenOfNone
    <3>3. <<>> \o s = s \o <<>>
      BY ConcatEmptySeq DEF Texts
    <3>4. ~Fails(<<>>)
      BY <3>1, <3>2, <3>3, FlattenOfNone DEF Fails
    <3> QED
      BY <2>5, <3>4
  <2>7. PICK u \in Seq(Texts), x \in Texts : r = Append(u, x)
    BY <2>6, SequenceEmptyOrAppend
  <2>8. Len(u) \in Nat /\ e = Len(u) + 1
    BY <2>5, <2>7, AppendProperties, LenProperties
  <2>9. ~Fails(u)
    BY <2>1, <2>3, <2>4, <2>8
  <2>10. <<s>> \in Seq(Texts) /\ <<s>> \o u \in Seq(Texts)
    BY ConcatProperties
  <2>11. <<s>> \o r = Append(<<s>> \o u, x)
    <3>1. r = u \o <<x>> /\ <<x>> \in Seq(Texts) /\ Append(<<s>> \o u, x) = (<<s>> \o u) \o <<x>>
      BY <2>7, <2>10, AppendIsConcat
    <3> QED
      BY <2>10, <3>1, ConcatAssociative
  <2>12. FlattenSeq(<<s>> \o r) = FlattenSeq(<<s>> \o u) \o x
    BY <2>10, <2>11, FlattenOfAppend
  <2>13. FlattenSeq(r) = FlattenSeq(u) \o x
    BY <2>7, FlattenOfAppend
  <2>14. (s \o FlattenSeq(u)) \o x = s \o (FlattenSeq(u) \o x)
    <3>1. FlattenSeq(u) \in Texts
      BY FlattenIsText
    <3> QED
      BY <3>1, TextsAssociate
  <2>15. FlattenSeq(<<s>> \o u) = s \o FlattenSeq(u)
    BY <2>9 DEF Fails
  <2>16. ~Fails(r)
    BY <2>12, <2>13, <2>14, <2>15 DEF Fails
  <2> QED
    BY <2>5, <2>16
<1>2. Len(rest) \in Nat
  BY LenProperties
<1> QED
  BY <1>1, <1>2

\* The strings from the i-th one on.
From(seqs, i) == SubSeq(seqs, i, Len(seqs))

LEMMA FromIsSeq ==
  ASSUME NEW seqs \in Seq(Texts), NEW i \in Nat \ {0}
  PROVE  From(seqs, i) \in Seq(Texts)
<1>1. Len(seqs) \in Nat /\ \A j \in i..Len(seqs) : seqs[j] \in Texts
  BY LenProperties, ElementOfSeq
<1> QED
  BY <1>1, SubSeqProperties DEF From

LEMMA FlattenFrom ==
  ASSUME NEW seqs \in Seq(Texts), NEW i \in 1..Len(seqs)
  PROVE  /\ From(seqs, i) = <<seqs[i]>> \o From(seqs, i + 1)
         /\ FlattenSeq(From(seqs, i)) = seqs[i] \o FlattenSeq(From(seqs, i + 1))
<1>1. Len(seqs) \in Nat /\ Len(seqs) \in i..Len(seqs)
  BY LenProperties
<1>2. From(seqs, i) = <<seqs[i]>> \o From(seqs, i + 1)
  BY <1>1, SubSeqRecursiveFirst DEF From
<1>3. seqs[i] \in Texts /\ From(seqs, i + 1) \in Seq(Texts)
  BY FromIsSeq, ElementOfSeq
<1> QED
  BY <1>2, <1>3, FlattenOfCons

\* Strings without a character left add nothing.
LEMMA FlattenSkips ==
  ASSUME NEW seqs \in Seq(Texts), NEW i \in 1..(Len(seqs) + 1),
         \A j \in 1..(i - 1) : seqs[j] = <<>>
  PROVE  FlattenSeq(seqs) = FlattenSeq(From(seqs, i))
<1> DEFINE Fails(m) == FlattenSeq(seqs) # FlattenSeq(From(seqs, m))
           Bad == {m \in 1..i : Fails(m)}
<1>1. Len(seqs) \in Nat
  BY LenProperties
<1>2. ~Fails(1)
  BY SubSeqFull DEF From
<1> HIDE DEF Fails
<1>3. Bad = {}
  <2> SUFFICES ASSUME Bad # {} PROVE FALSE
    OBVIOUS
  <2>1. Bad \subseteq Nat
    BY <1>1
  <2>2. \A m \in Bad : m \in 1..i /\ Fails(m)
    OBVIOUS
  <2>3. \A m \in 1..i : m \notin Bad => ~Fails(m)
    OBVIOUS
  <2> HIDE DEF Bad
  <2>4. PICK e \in Bad : \A f \in Bad : e <= f
    BY <2>1, LeastNumber
  <2>5. e \in 1..i /\ e # 1
    BY <1>2, <2>2
  <2> DEFINE d == e - 1
  <2>6. d \in 1..(i - 1) /\ d \in 1..i /\ d \in 1..Len(seqs) /\ d < e /\ d + 1 = e
    BY <1>1, <2>5
  <2> HIDE DEF d
  <2>7. ~Fails(d)
    BY <2>1, <2>3, <2>4, <2>6
  <2>8. FlattenSeq(From(seqs, d)) = seqs[d] \o FlattenSeq(From(seqs, e))
    BY <2>6, FlattenFrom
  <2>9. seqs[d] = <<>>
    BY <2>6
  <2>10. FlattenSeq(From(seqs, e)) \in Texts
    BY <2>5, FromIsSeq, FlattenIsText
  <2>11. <<>> \o FlattenSeq(From(seqs, e)) = FlattenSeq(From(seqs, e))
    BY <2>10, ConcatEmptySeq DEF Texts
  <2>12. ~Fails(e)
    BY <2>7, <2>8, <2>9, <2>11 DEF Fails
  <2> QED
    BY <2>2, <2>12
<1> QED
  BY <1>1, <1>3 DEF Fails

-------------------------------------------------------------------------------
(* The characters waiting.                                                 *)

\* The strings q of which o characters of the first are consumed.
Left(q, o) == [i \in 1..Len(q) |-> IF i = 1 THEN SubSeq(q[1], o + 1, Len(q[1])) ELSE q[i]]

Characters == FlattenSeq(Left(macros, offset))

QueueInv ==
  /\ macros \in Seq(Texts) /\ offset \in Nat
  /\ offset # 0 => macros # <<>> /\ offset <= Len(macros[1])

LEMMA RestOfText ==
  ASSUME NEW s \in Texts, NEW o \in Nat
  PROVE  /\ SubSeq(s, o + 1, Len(s)) \in Texts
         /\ SubSeq(s, o + 1, Len(s)) # <<>> <=> Len(s) > o
<1>1. Len(s) \in Nat /\ o + 1 \in Nat /\ \A j \in (o + 1)..Len(s) : s[j] \in Nat \ {0}
  BY LenProperties, ElementOfSeq DEF Texts
<1>2. /\ SubSeq(s, o + 1, Len(s)) \in Texts
      /\ Len(SubSeq(s, o + 1, Len(s))) = IF o + 1 <= Len(s) THEN Len(s) - (o + 1) + 1 ELSE 0
  BY <1>1, SubSeqProperties DEF Texts
<1>3. SubSeq(s, o + 1, Len(s)) # <<>> <=> Len(SubSeq(s, o + 1, Len(s))) # 0
  BY <1>2, EmptySeq DEF Texts
<1> QED
  BY <1>1, <1>2, <1>3

\* How much of the i-th string is consumed.
Used(o, i) == IF i = 1 THEN o ELSE 0

LEMMA LeftAt ==
  ASSUME NEW q \in Seq(Texts), NEW o \in Nat, NEW i \in 1..Len(q)
  PROVE  /\ Left(q, o)[i] \in Texts
         /\ Left(q, o)[i] = SubSeq(q[i], Used(o, i) + 1, Len(q[i]))
         /\ Left(q, o)[i] # <<>> <=> Len(q[i]) > Used(o, i)
         /\ Used(o, i) = 0 => Left(q, o)[i] = q[i]
<1>1. q[i] \in Texts
  BY ElementOfSeq
<1>2. Left(q, o)[i] = IF i = 1 THEN SubSeq(q[i], o + 1, Len(q[i])) ELSE q[i]
  BY DEF Left
<1>3. SubSeq(q[i], 1, Len(q[i])) = q[i]
  BY <1>1, SubSeqFull DEF Texts
<1> DEFINE l == Left(q, o)[i]
           u == Used(o, i)
<1>4. l = SubSeq(q[i], u + 1, Len(q[i]))
  <2>1. CASE i = 1
    BY <1>2, <2>1 DEF Used
  <2>2. CASE i # 1
    <3>1. u + 1 = 1
      BY <2>2 DEF Used
    <3> QED
      BY <1>2, <1>3, <2>2, <3>1
  <2> QED
    BY <2>1, <2>2
<1>5. u \in Nat
  BY DEF Used
<1> HIDE DEF l, u
<1>6. l \in Texts /\ (l # <<>> <=> Len(q[i]) > u)
  BY <1>1, <1>4, <1>5, RestOfText
<1>7. u = 0 => l = q[i]
  BY <1>3, <1>4
<1> QED
  BY <1>4, <1>6, <1>7 DEF l, u

LEMMA LeftIsSeq ==
  ASSUME NEW q \in Seq(Texts), NEW o \in Nat
  PROVE  Left(q, o) \in Seq(Texts) /\ Len(Left(q, o)) = Len(q)
<1> DEFINE l == Left(q, o)
<1>1. Len(q) \in Nat
  BY LenProperties
<1>2. \A i \in 1..Len(q) : l[i] \in Texts
  BY LeftAt
<1>3. l = [i \in 1..Len(q) |-> l[i]]
  BY DEF Left
<1> HIDE DEF l
<1>4. l \in [1..Len(q) -> Texts]
  BY <1>2, <1>3
<1>5. l \in Seq(Texts) /\ Len(l) = Len(q)
  BY <1>1, <1>4
<1> QED
  BY <1>5 DEF l

LEMMA LeftOfWhole ==
  ASSUME NEW q \in Seq(Texts)
  PROVE  Left(q, 0) = q
<1> DEFINE l == Left(q, 0)
<1>1. ASSUME NEW i \in 1..Len(q) PROVE l[i] = q[i]
  <2>1. Used(0, i) = 0
    BY DEF Used
  <2> QED
    BY <2>1, LeftAt
<1>2. l \in Seq(Texts) /\ Len(l) = Len(q)
  BY LeftIsSeq
<1> HIDE DEF l
<1>3. l = q
  BY <1>1, <1>2, SeqEqual
<1> QED
  BY <1>3 DEF l

LEMMA LeftOfAppend ==
  ASSUME NEW q \in Seq(Texts), NEW o \in Nat, q = <<>> => o = 0, NEW s \in Texts
  PROVE  Left(Append(q, s), o) = Append(Left(q, o), s)
<1> DEFINE p == Append(q, s)
           l == Left(p, o)
           r == Left(q, o)
           m == Append(r, s)
           n == Len(q)
<1>1. /\ p \in Seq(Texts) /\ Len(p) = n + 1 /\ n \in Nat
      /\ \A i \in 1..n : p[i] = q[i]
      /\ p[n + 1] = s
  BY AppendProperties, LenProperties
<1>2. r \in Seq(Texts) /\ Len(r) = n
  BY LeftIsSeq
<1>3. ASSUME NEW i \in 1..n PROVE r[i] = SubSeq(q[i], Used(o, i) + 1, Len(q[i]))
  BY LeftAt
<1> HIDE DEF p, r
<1>4. l \in Seq(Texts) /\ Len(l) = n + 1
  BY <1>1, LeftIsSeq
<1>5. ASSUME NEW i \in 1..(n + 1) PROVE l[i] = SubSeq(p[i], Used(o, i) + 1, Len(p[i]))
  <2>1. i \in 1..Len(p)
    BY <1>1
  <2> QED
    BY <1>1, <2>1, LeftAt
<1>6. m \in Seq(Texts) /\ Len(m) = n + 1 /\ (\A i \in 1..n : m[i] = r[i]) /\ m[n + 1] = s
  BY <1>2, AppendProperties
<1> HIDE DEF l, m
<1>7. l[n + 1] = s
  <2>1. n + 1 = 1 => o = 0
    BY <1>1, EmptySeq
  <2>2. Used(o, n + 1) = 0
    BY <2>1 DEF Used
  <2>3. n + 1 \in 1..(n + 1)
    <3>1. n \in Nat
      BY <1>1
    <3> HIDE DEF n
    <3> QED
      BY <3>1
  <2>4. l[n + 1] = SubSeq(s, 1, Len(s))
    <3>1. l[n + 1] = SubSeq(p[n + 1], 0 + 1, Len(p[n + 1]))
      BY <1>5, <2>2, <2>3
    <3> QED
      BY <1>1, <3>1
  <2> QED
    BY <2>4, SubSeqFull DEF Texts
<1>8. ASSUME NEW i \in 1..(n + 1) PROVE l[i] = m[i]
  <2>1. CASE i = n + 1
    BY <1>6, <1>7, <2>1
  <2>2. CASE i # n + 1
    <3>1. i \in 1..n
      BY <1>1, <2>2
    <3>2. l[i] = SubSeq(q[i], Used(o, i) + 1, Len(q[i]))
      BY <1>1, <1>5, <3>1
    <3> QED
      BY <1>3, <1>6, <3>1, <3>2
  <2> QED
    BY <2>1, <2>2
<1>9. l = m
  BY <1>4, <1>6, <1>8, SeqEqual
<1> QED
  BY <1>9 DEF l, m, p, r

LEMMA LeftBehind ==
  ASSUME NEW q \in Seq(Texts), NEW o \in Nat, NEW i \in 1..Len(q)
  PROVE  From(Left(q, o), i + 1) = From(q, i + 1)
<1> DEFINE n == Len(q)
           l == Left(q, o)
           f == From(l, i + 1)
           g == From(q, i + 1)
<1>1. n \in Nat /\ l \in Seq(Texts) /\ Len(l) = n
  BY LeftIsSeq, LenProperties
<1>2. ASSUME NEW j \in (i + 1)..n
      PROVE  j \in 1..n /\ l[j] = q[j] /\ q[j] \in Texts
  <2>1. j \in 1..Len(q) /\ j # 1
    BY <1>1
  <2>2. q[j] \in Texts
    BY <2>1, ElementOfSeq
  <2>3. Used(o, j) = 0
    BY <2>1 DEF Used
  <2> QED
    BY <2>1, <2>2, <2>3, LeftAt
<1> HIDE DEF n, l
<1>3. i + 1 \in Int /\ n \in Int
  BY <1>1
<1>4. /\ f \in Seq(Texts) /\ Len(f) = IF i + 1 <= n THEN n - (i + 1) + 1 ELSE 0
      /\ \A j \in 1..(n - (i + 1) + 1) : f[j] = l[i + 1 + j - 1]
  BY <1>1, <1>2, <1>3, SubSeqProperties DEF From
<1>5. /\ g \in Seq(Texts) /\ Len(g) = IF i + 1 <= n THEN n - (i + 1) + 1 ELSE 0
      /\ \A j \in 1..(n - (i + 1) + 1) : g[j] = q[i + 1 + j - 1]
  BY <1>1, <1>2, <1>3, SubSeqProperties DEF From, n
<1> HIDE DEF f, g
<1>6. \A j \in 1..(n - (i + 1) + 1) : f[j] = g[j]
  <2>1. \A j \in 1..(n - (i + 1) + 1) : i + 1 + j - 1 \in (i + 1)..n
    BY <1>1
  <2> QED
    BY <1>2, <1>4, <1>5, <2>1
<1>7. Len(f) = Len(g) /\ \A j \in 1..Len(f) : f[j] = g[j]
  BY <1>1, <1>4, <1>5, <1>6
<1>8. f = g
  BY <1>4, <1>5, <1>7, SeqEqual
<1> QED
  BY <1>8 DEF f, g, l

LEMMA LeftOfFrom ==
  ASSUME NEW q \in Seq(Texts), NEW k \in Nat, NEW i \in 1..Len(q)
  PROVE  /\ Left(From(q, i), k) # <<>>
         /\ FlattenSeq(Left(From(q, i), k))
              = SubSeq(q[i], k + 1, Len(q[i])) \o FlattenSeq(From(q, i + 1))
<1> DEFINE f == From(q, i)
<1>1. f = <<q[i]>> \o From(q, i + 1)
  BY FlattenFrom
<1>2. q[i] \in Texts /\ From(q, i + 1) \in Seq(Texts) /\ f \in Seq(Texts)
  BY FromIsSeq, ElementOfSeq
<1>3. /\ Len(f) = 1 + Len(From(q, i + 1)) /\ Len(From(q, i + 1)) \in Nat /\ f[1] = q[i]
      /\ From(f, 2) = From(q, i + 1)
  <2>1. <<q[i]>> \in Seq(Texts) /\ Len(<<q[i]>>) = 1 /\ <<q[i]>>[1] = q[i]
    BY <1>2
  <2>2. Len(f) = 1 + Len(From(q, i + 1)) /\ Len(From(q, i + 1)) \in Nat
    BY <1>1, <1>2, <2>1, ConcatProperties, LenProperties
  <2>3. f[1] = q[i]
    <3>1. 1 \in 1..(1 + Len(From(q, i + 1)))
      BY <2>2
    <3> QED
      BY <1>1, <1>2, <2>1, <3>1, ConcatProperties
  <2> HIDE DEF f
  <2>4. f = <<f[1]>> \o From(f, 2)
    <3>1. 1 \in 1..Len(f) /\ 1 + 1 = 2
      BY <2>2
    <3>2. From(f, 1) = <<f[1]>> \o From(f, 1 + 1)
      BY <1>2, <3>1, FlattenFrom
    <3>3. From(f, 1) = f
      BY <1>2, SubSeqFull DEF From
    <3> QED
      BY <3>1, <3>2, <3>3
  <2>5. From(f, 2) \in Seq(Texts)
    BY <1>2, FromIsSeq
  <2>6. <<q[i]>> \o From(f, 2) = <<q[i]>> \o From(q, i + 1)
    BY <1>1, <2>3, <2>4
  <2>7. From(f, 2) = From(q, i + 1)
    <3>1. \A t, v, w \in Seq(Texts) : t \o v = t \o w => v = w
      BY ConcatSimplifications
    <3> QED
      BY <1>2, <2>1, <2>5, <2>6, <3>1
  <2> QED
    BY <2>2, <2>3, <2>7
<1> HIDE DEF f
<1> DEFINE l == Left(f, k)
<1>4. 1 \in 1..Len(f)
  BY <1>3
<1>5. l \in Seq(Texts) /\ Len(l) = Len(f) /\ l[1] = SubSeq(q[i], k + 1, Len(q[i]))
  <2>1. Used(k, 1) = k
    BY DEF Used
  <2>2. l \in Seq(Texts) /\ Len(l) = Len(f)
    BY <1>2, LeftIsSeq
  <2>3. l[1] = SubSeq(f[1], Used(k, 1) + 1, Len(f[1]))
    BY <1>2, <1>4, LeftAt
  <2> QED
    BY <1>3, <2>1, <2>2, <2>3
<1>6. From(l, 2) = From(q, i + 1)
  <2>1. From(l, 1 + 1) = From(f, 1 + 1)
    BY <1>2, <1>4, LeftBehind
  <2>2. 1 + 1 = 2
    OBVIOUS
  <2> QED
    BY <1>3, <2>1, <2>2
<1> HIDE DEF l
<1>7. From(l, 1) = l
  BY <1>5, SubSeqFull DEF From
<1>8. FlattenSeq(l) = SubSeq(q[i], k + 1, Len(q[i])) \o FlattenSeq(From(q, i + 1))
  <2>1. FlattenSeq(From(l, 1)) = l[1] \o FlattenSeq(From(l, 1 + 1))
    <3>1. 1 \in 1..Len(l)
      BY <1>4, <1>5
    <3> QED
      BY <1>5, <3>1, FlattenFrom
  <2>2. 1 + 1 = 2
    OBVIOUS
  <2> QED
    BY <1>5, <1>6, <1>7, <2>1, <2>2
<1>9. l # <<>>
  BY <1>3, <1>5
<1> QED
  BY <1>8, <1>9 DEF f, l

LEMMA FromFirst ==
  ASSUME NEW q \in Seq(Texts), NEW i \in 1..Len(q)
  PROVE  From(q, i) # <<>> /\ From(q, i)[1] = q[i]
<1>1. Len(q) \in Nat /\ \A j \in i..Len(q) : q[j] \in Texts
  BY LenProperties, ElementOfSeq
<1>2. /\ Len(From(q, i)) = Len(q) - i + 1
      /\ \A j \in 1..(Len(q) - i + 1) : From(q, i)[j] = q[i + j - 1]
  BY <1>1, SubSeqProperties DEF From
<1>3. 1 \in 1..(Len(q) - i + 1) /\ i + 1 - 1 = i /\ Len(q) - i + 1 # 0
  BY <1>1
<1>4. From(q, i)[1] = q[i]
  BY <1>2, <1>3
<1>5. From(q, i) # <<>>
  BY <1>2, <1>3
<1> QED
  BY <1>4, <1>5

LEMMA HeadOfMore ==
  ASSUME NEW c \in Nat \ {0}, NEW t \in Texts
  PROVE  <<c>> \o t # <<>> /\ Head(<<c>> \o t) = c /\ Tail(<<c>> \o t) = t
<1> DEFINE m == <<c>> \o t
<1>1. <<c>> \in Texts /\ Len(<<c>>) = 1 /\ <<c>>[1] = c
  BY DEF Texts
<1>2. Len(t) \in Nat
  BY LenProperties DEF Texts
<1>3. /\ m \in Texts /\ Len(m) = 1 + Len(t)
      /\ \A j \in 1..(1 + Len(t)) : m[j] = IF j <= 1 THEN <<c>>[j] ELSE t[j - 1]
  BY <1>1, ConcatProperties DEF Texts
<1> HIDE DEF m
<1>4. m # <<>> /\ Head(m) = m[1]
  BY <1>2, <1>3 DEF Texts
<1>5. m[1] = c
  <2>1. 1 \in 1..(1 + Len(t)) /\ 1 <= 1
    BY <1>2
  <2> QED
    BY <1>1, <1>3, <2>1
<1>6. Tail(m) \in Texts /\ Len(Tail(m)) = Len(m) - 1 /\ \A j \in 1..Len(Tail(m)) : Tail(m)[j] = m[j + 1]
  BY <1>3, <1>4, HeadTailProperties DEF Texts
<1>7. Len(Tail(m)) = Len(t)
  BY <1>2, <1>3, <1>6
<1>8. ASSUME NEW j \in 1..Len(t) PROVE Tail(m)[j] = t[j]
  <2>1. j + 1 \in 1..(1 + Len(t)) /\ ~(j + 1 <= 1) /\ (j + 1) - 1 = j
    BY <1>2
  <2> QED
    BY <1>3, <1>6, <1>7, <2>1
<1>9. Tail(m) = t
  BY <1>6, <1>7, <1>8, SeqEqual DEF Texts
<1> QED
  BY <1>4, <1>5, <1>9 DEF m

\* The character el_wgetc takes from the queue is the first one waiting.
LEMMA TakesFirst ==
  ASSUME QueueInv, NEW c, TakeQueued(c)
  PROVE  /\ QueueInv'
         /\ Characters # <<>> /\ c = Head(Characters) /\ Characters' = Tail(Characters)
         /\ taken' = [char |-> c, from |-> "queue"]
<1>1. macros \in Seq(Texts) /\ offset \in Nat
  BY DEF QueueInv
<1>2. PICK i \in Waiting :
        LET k == Used(offset, i) + 1
            done == k = Len(macros[i])
        IN /\ \A j \in Waiting : i <= j
           /\ c = macros[i][k]
           /\ macros' = SubSeq(macros, IF done THEN i + 1 ELSE i, Len(macros))
           /\ offset' = IF done THEN 0 ELSE k
           /\ taken' = [char |-> c, from |-> "queue"]
  <2>1. \A j : Used(offset, j) + 1 = IF j = 1 THEN offset + 1 ELSE 1
    BY <1>1 DEF Used
  <2> QED
    BY <2>1 DEF TakeQueued
<1> DEFINE u == Used(offset, i)
           k == u + 1
           s == macros[i]
           l == Left(macros, offset)
           rest == FlattenSeq(From(macros, i + 1))
           tail == SubSeq(s, k + 1, Len(s)) \o rest
<1>3. i \in 1..Len(macros) /\ Len(macros) \in Nat /\ Len(s) > u /\ u \in Nat
  BY <1>1, LenProperties DEF Waiting, Used
<1>4. s \in Texts /\ Len(s) \in Nat
  BY <1>1, <1>3, ElementOfSeq, LenProperties DEF Texts
<1>5. \A j \in 1..(i - 1) : l[j] = <<>>
  <2> SUFFICES ASSUME NEW j \in 1..(i - 1) PROVE l[j] = <<>>
    OBVIOUS
  <2>1. j \in 1..Len(macros) /\ ~(i <= j)
    BY <1>3
  <2>2. j \notin Waiting
    BY <1>2, <2>1
  <2>3. ~(Len(macros[j]) > Used(offset, j))
    BY <2>1, <2>2 DEF Waiting, Used
  <2> QED
    BY <1>1, <2>1, <2>3, LeftAt
<1>6. l \in Seq(Texts) /\ Len(l) = Len(macros)
  BY <1>1, LeftIsSeq
<1>7. l[i] = SubSeq(s, k, Len(s))
  BY <1>1, <1>3, LeftAt
<1>8. From(l, i + 1) = From(macros, i + 1)
  BY <1>1, <1>3, LeftBehind
<1>9. From(macros, i + 1) \in Seq(Texts) /\ rest \in Texts
  <2>1. i + 1 \in Nat \ {0}
    BY <1>3
  <2>2. From(macros, i + 1) \in Seq(Texts)
    BY <1>1, <2>1, FromIsSeq
  <2> QED
    BY <2>2, FlattenIsText
<1>10. macros' = From(macros, IF k = Len(s) THEN i + 1 ELSE i)
  BY <1>2 DEF From
<1>11. offset' = IF k = Len(s) THEN 0 ELSE k
  BY <1>2
<1>12. c = s[k]
  BY <1>2
<1>13. taken' = [char |-> c, from |-> "queue"]
  BY <1>2
<1> HIDE DEF u, s, l
<1>14. FlattenSeq(l) = l[i] \o rest
  <2>1. FlattenSeq(l) = FlattenSeq(From(l, i))
    <3>1. i \in 1..(Len(l) + 1)
      BY <1>3, <1>6
    <3> QED
      BY <1>5, <1>6, <3>1, FlattenSkips
  <2>2. FlattenSeq(From(l, i)) = l[i] \o FlattenSeq(From(l, i + 1))
    BY <1>3, <1>6, FlattenFrom
  <2> QED
    BY <1>8, <2>1, <2>2
<1> HIDE DEF rest
<1>15. k \in 1..Len(s) /\ Len(s) \in k..Len(s) /\ k \in Nat
  BY <1>3, <1>4
<1> HIDE DEF k
<1>16. c \in Nat \ {0}
  BY <1>4, <1>12, <1>15, ElementOfSeq DEF Texts
<1>17. SubSeq(s, k, Len(s)) = <<c>> \o SubSeq(s, k + 1, Len(s))
  BY <1>4, <1>12, <1>15, SubSeqRecursiveFirst DEF Texts
<1>18. SubSeq(s, k + 1, Len(s)) \in Texts
  BY <1>4, <1>15, RestOfText
<1>19. FlattenSeq(l) = <<c>> \o tail /\ tail \in Texts
  <2>1. <<c>> \in Texts
    BY <1>16 DEF Texts
  <2>2. (<<c>> \o SubSeq(s, k + 1, Len(s))) \o rest = <<c>> \o (SubSeq(s, k + 1, Len(s)) \o rest)
    <3> DEFINE a == <<c>>
               b == SubSeq(s, k + 1, Len(s))
    <3>1. a \in Texts /\ b \in Texts /\ rest \in Texts
      BY <1>9, <1>18, <2>1
    <3> HIDE DEF a, b
    <3>2. (a \o b) \o rest = a \o (b \o rest)
      BY <3>1, ConcatAssociative DEF Texts
    <3> QED
      BY <3>2 DEF a, b
  <2>3. tail \in Texts
    BY <1>9, <1>18, ConcatProperties DEF Texts
  <2> QED
    BY <1>7, <1>14, <1>17, <2>2, <2>3
<1>20. CASE k = Len(s)
  <2>1. macros' = From(macros, i + 1) /\ offset' = 0
    BY <1>10, <1>11, <1>20
  <2>2. Left(macros, offset)' = From(macros, i + 1)
    BY <1>9, <2>1, LeftOfWhole
  <2>3. Characters' = rest
    BY <2>2 DEF Characters, rest
  <2>4. SubSeq(s, k + 1, Len(s)) = <<>>
    <3>1. k + 1 \in Int /\ Len(s) \in Int /\ Len(s) < k + 1
      BY <1>4, <1>20
    <3> QED
      BY <3>1, SubSeqEmpty
  <2>5. tail = rest
    BY <1>9, <2>4, ConcatEmptySeq DEF Texts
  <2>6. QueueInv'
    BY <1>9, <2>1 DEF QueueInv
  <2> HIDE DEF tail
  <2>7. Characters = <<c>> \o tail
    BY <1>19 DEF Characters, l
  <2> QED
    BY <1>13, <1>16, <1>19, <2>3, <2>5, <2>6, <2>7, HeadOfMore
<1>21. CASE k # Len(s)
  <2>1. macros' = From(macros, i) /\ offset' = k
    BY <1>10, <1>11, <1>21
  <2>2. FlattenSeq(Left(From(macros, i), k)) = tail
    BY <1>1, <1>3, <1>15, LeftOfFrom DEF s, rest
  <2>3. Characters' = tail
    BY <2>1, <2>2 DEF Characters
  <2>4. QueueInv'
    <3>1. From(macros, i) \in Seq(Texts)
      BY <1>1, <1>3, FromIsSeq
    <3>2. From(macros, i) # <<>> /\ From(macros, i)[1] = s
      BY <1>1, <1>3, FromFirst DEF s
    <3> QED
      BY <1>15, <2>1, <3>1, <3>2 DEF QueueInv
  <2> HIDE DEF tail
  <2>5. Characters = <<c>> \o tail
    BY <1>19 DEF Characters, l
  <2> QED
    BY <1>13, <1>16, <1>19, <2>3, <2>4, <2>5, HeadOfMore
<1> QED
  BY <1>20, <1>21

LEMMA NothingWaits ==
  ASSUME QueueInv, Waiting = {}
  PROVE  Characters = <<>>
<1> DEFINE l == Left(macros, offset)
           n == Len(macros)
<1>1. macros \in Seq(Texts) /\ offset \in Nat /\ n \in Nat
  BY LenProperties DEF QueueInv
<1>2. l \in Seq(Texts) /\ Len(l) = n
  BY <1>1, LeftIsSeq
<1>3. ASSUME NEW j \in 1..n PROVE l[j] = <<>>
  <2>1. ~(Len(macros[j]) > Used(offset, j))
    BY DEF Waiting, Used
  <2> QED
    BY <1>1, <2>1, LeftAt
<1> HIDE DEF l, n
<1>4. FlattenSeq(l) = FlattenSeq(From(l, n + 1))
  <2>1. n + 1 \in 1..(Len(l) + 1) /\ \A j \in 1..((n + 1) - 1) : l[j] = <<>>
    BY <1>1, <1>2, <1>3
  <2> QED
    BY <1>2, <2>1, FlattenSkips
<1>5. From(l, n + 1) = <<>>
  <2>1. n + 1 \in Int /\ Len(l) \in Int /\ Len(l) < n + 1
    BY <1>1, <1>2
  <2> QED
    BY <2>1, SubSeqEmpty DEF From
<1> QED
  BY <1>4, <1>5, FlattenOfNone DEF Characters, l

LEMMA NothingLeft ==
  ASSUME macros' = <<>>, offset' = 0
  PROVE  QueueInv' /\ Characters' = <<>>
<1>1. <<>> \in Seq(Texts)
  BY EmptySeq
<1>2. Characters' = <<>>
  <2>1. Left(<<>>, 0) = <<>>
    BY <1>1, LeftOfWhole
  <2> QED
    BY <2>1, FlattenOfNone DEF Characters
<1> QED
  BY <1>1, <1>2 DEF QueueInv

\* A string pushed goes behind all that waits, or nowhere.
LEMMA PushesBehind ==
  ASSUME QueueInv, NEW s \in Texts, macros' = Pushed(macros, s), UNCHANGED offset
  PROVE  /\ QueueInv'
         /\ \/ Characters' = Characters
            \/ Len(Characters') > Len(Characters) /\ IsPrefix(Characters, Characters')
<1>1. macros \in Seq(Texts) /\ offset \in Nat /\ (offset # 0 => macros # <<>> /\ offset <= Len(macros[1]))
  BY DEF QueueInv
<1>2. CASE macros' = macros
  BY <1>1, <1>2 DEF QueueInv, Characters
<1>3. CASE macros' = Append(macros, s)
  <2> DEFINE m == Append(macros, s)
             ch1 == Characters
             ch2 == ch1 \o s
  <2>1. /\ m \in Seq(Texts) /\ m # <<>>
        /\ macros # <<>> => m[1] = macros[1]
    <3>1. Len(macros) \in Nat /\ (macros # <<>> => 1 \in 1..Len(macros))
      BY <1>1, EmptySeq, LenProperties
    <3> QED
      BY <1>1, <3>1, AppendProperties
  <2> HIDE DEF m
  <2>2. QueueInv'
    BY <1>1, <1>3, <2>1 DEF QueueInv, m
  <2>3. Characters' = ch2
    <3>1. Left(macros, offset)' = Append(Left(macros, offset), s)
      BY <1>1, <1>3, LeftOfAppend
    <3>2. Left(macros, offset) \in Seq(Texts)
      BY <1>1, LeftIsSeq
    <3> QED
      BY <3>1, <3>2, FlattenOfAppend DEF Characters
  <2>4. ch1 \in Texts
    BY <1>1, LeftIsSeq, FlattenIsText DEF Characters
  <2> HIDE DEF ch1
  <2>5. s # <<>> => Len(ch2) > Len(ch1) /\ IsPrefix(ch1, ch2)
    <3>1. /\ Len(ch1) \in Nat /\ Len(s) \in Nat /\ (s # <<>> => Len(s) # 0)
          /\ Len(ch2) = Len(ch1) + Len(s) /\ ch2 \in Texts
      BY <2>4, ConcatProperties, LenProperties, EmptySeq DEF Texts
    <3>2. SubSeq(ch2, 1, Len(ch1)) = SubSeq(ch1, 1, Len(ch1))
      <4>1. CASE Len(ch1) = 0
        BY <4>1, SubSeqEmpty
      <4>2. CASE Len(ch1) # 0
        <5>1. 1 \in 1..Len(ch1) /\ Len(ch1) \in 1..Len(ch1)
          BY <3>1, <4>2
        <5> QED
          BY <2>4, <5>1, SubSeqOfConcat1 DEF Texts
      <4> QED
        BY <4>1, <4>2
    <3> QED
      BY <3>1, <3>2 DEF IsPrefix
  <2>6. s = <<>> => ch2 = ch1
    BY <2>4, ConcatEmptySeq DEF Texts
  <2> QED
    BY <2>2, <2>3, <2>5, <2>6 DEF ch1
<1> QED
  BY <1>2, <1>3 DEF Pushed

\* What the input queue promises, in terms of the characters waiting.
Promised ==
  \/ /\ Characters # <<>> /\ Characters' = Tail(Characters)
     /\ taken' = [char |-> Head(Characters), from |-> "queue"]
  \/ Characters = <<>> /\ taken'.from = "terminal" /\ UNCHANGED Characters
  \/ /\ Len(Characters') > Len(Characters) /\ IsPrefix(Characters, Characters')
     /\ UNCHANGED taken
  \/ Characters' = <<>> /\ UNCHANGED taken
  \/ UNCHANGED <<Characters, taken>>

LEMMA QueueStays ==
  ASSUME QueueInv, UNCHANGED <<macros, offset, taken>>
  PROVE  QueueInv' /\ Promised
<1>1. QueueInv'
  BY DEF QueueInv
<1>2. Characters' = Characters
  BY DEF Characters
<1> QED
  BY <1>1, <1>2 DEF Promised

LEMMA PushPromised ==
  ASSUME QueueInv, NEW s \in Texts, macros' = Pushed(macros, s), UNCHANGED <<offset, taken>>
  PROVE  QueueInv' /\ Promised
BY PushesBehind DEF Promised

LEMMA TakePromised ==
  ASSUME QueueInv, NEW c, TakeQueued(c) \/ TakeTyped(c)
  PROVE  QueueInv' /\ Promised
<1>1. CASE TakeQueued(c)
  BY <1>1, TakesFirst DEF Promised
<1>2. CASE TakeTyped(c)
  <2>1. Waiting = {} /\ macros' = <<>> /\ offset' = 0 /\ taken'.from = "terminal"
    BY <1>2 DEF TakeTyped
  <2> QED
    BY <2>1, NothingWaits, NothingLeft DEF Promised
<1> QED
  BY <1>1, <1>2

LEMMA QueueStep == QueueInv /\ [Next]_vars => QueueInv' /\ Promised
<1> SUFFICES ASSUME QueueInv, [Next]_vars PROVE QueueInv' /\ Promised
  OBVIOUS
<1> USE DEF queueVars
<1>1. ASSUME NEW c, GetCharacter(c) PROVE QueueInv' /\ Promised
  BY <1>1, TakePromised DEF GetCharacter, GetKey, GetNextKey, GetQuoted
<1>2. CASE Lookup
  <2> DEFINE named == path \in DOMAIN Keys
             command == named /\ Keys[path] \in LoopCommand
  <2>1. macros' = (IF named /\ ~command THEN Pushed(macros, Keys[path]) ELSE macros)
    BY <1>2 DEF Lookup
  <2>2. UNCHANGED <<offset, taken>>
    BY <1>2 DEF Lookup
  <2>3. CASE named /\ ~command
    <3>1. Keys[path] \in Texts
      BY <2>3, KeysAssumption DEF Texts
    <3>2. macros' = Pushed(macros, Keys[path])
      BY <2>1, <2>3
    <3> QED
      BY <2>2, <3>1, <3>2, PushPromised
  <2>4. CASE ~(named /\ ~command)
    <3>1. macros' = macros
      BY <2>1, <2>4
    <3> QED
      BY <2>2, <3>1, QueueStays
  <2> QED
    BY <2>3, <2>4
<1>3. CASE \/ SelfInsert \/ DigitCommand \/ ArgumentDigit \/ UniversalArgument \/ Newline
           \/ EndOfFile \/ KillLine \/ Unassigned
  <2>1. Kept
    BY <1>3 DEF SelfInsert, DigitCommand, ArgumentDigit, UniversalArgument, Newline, EndOfFile,
                KillLine, Unassigned
  <2> QED
    BY <2>1, QueueStays DEF Kept
<1>4. CASE MetaNext \/ QuotedInsert
  BY <1>4, QueueStays DEF MetaNext, QuotedInsert
<1>5. CASE PushCommand
  <2>1. UNCHANGED <<offset, taken>> /\ (macros' = macros \/ \E s \in Strings : macros' = Pushed(macros, s))
    BY <1>5 DEF PushCommand
  <2>2. \A s \in Strings : s \in Texts
    BY StringAssumption DEF Texts
  <2> QED
    BY <2>1, <2>2, QueueStays, PushPromised
<1>6. CASE Fatal
  <2>1. macros' = <<>> /\ offset' = 0 /\ UNCHANGED taken
    BY <1>6 DEF Fatal
  <2> QED
    BY <2>1, NothingLeft DEF Promised
<1>7. CASE ReadFails
  <2>1. macros' = <<>> /\ offset' = 0 /\ UNCHANGED taken
    BY <1>7 DEF ReadFails, InputEnds
  <2> QED
    BY <2>1, NothingLeft DEF Promised
<1>8. CASE Call \/ SetUnbuffered \/ Prepare
  BY <1>8, QueueStays DEF Call, SetUnbuffered, Prepare
<1>9. ASSUME NEW s \in Strings, Push(s) PROVE QueueInv' /\ Promised
  <2>1. s \in Texts
    BY StringAssumption DEF Texts
  <2> QED
    BY <1>9, <2>1, PushPromised DEF Push
<1>10. CASE UNCHANGED vars
  BY <1>10, QueueStays DEF vars
<1>11. CASE Work
  BY <1>1, <1>2, <1>3, <1>4, <1>5, <1>6, <1>11 DEF Work
<1>12. CASE Wait
  BY <1>1, <1>7, <1>12 DEF Wait
<1>13. CASE Application
  BY <1>8, <1>9, <1>13 DEF Application
<1> QED
  BY <1>10, <1>11, <1>12, <1>13 DEF Next

\* Characters are taken in the order in which the strings they are in were
\* pushed or expanded: the loop implements the queue.
THEOREM ImplementsTheQueue == Spec => ImplementsQueue
<1>1. Init => QueueInv /\ Queue!QueueInit
  <2> SUFFICES ASSUME Init PROVE QueueInv /\ Queue!QueueInit
    OBVIOUS
  <2>1. macros = <<>> /\ offset = 0
    BY DEF Init
  <2>2. QueueInv
    BY <2>1, EmptySeq DEF QueueInv
  <2>3. Characters = <<>>
    BY <2>1, EmptySeq, LeftOfWhole, FlattenOfNone DEF Characters
  <2> QED
    BY <2>2, <2>3 DEF Queue!QueueInit, Characters, Left
<1>2. Promised => [Queue!QueueNext]_(Queue!queueVars)
  <2>1. Queue!Take <=> /\ Characters # <<>> /\ taken' = [char |-> Head(Characters), from |-> "queue"]
                       /\ Characters' = Tail(Characters)
    BY DEF Queue!Take, Characters, Left
  <2>2. Queue!ReadTerminal <=> Characters = <<>> /\ taken'.from = "terminal" /\ UNCHANGED Characters
    BY DEF Queue!ReadTerminal, Characters, Left
  <2>3. Queue!AppendString <=> /\ Len(Characters') > Len(Characters) /\ IsPrefix(Characters, Characters')
                               /\ UNCHANGED taken
    BY DEF Queue!AppendString, Queue!IsPrefix, IsPrefix, Characters, Left
  <2>4. Queue!Flush <=> Characters' = <<>> /\ UNCHANGED taken
    BY DEF Queue!Flush, Characters, Left
  <2>5. UNCHANGED (Queue!queueVars) <=> UNCHANGED <<Characters, taken>>
    BY DEF Queue!queueVars, Characters, Left
  <2> QED
    BY <2>1, <2>2, <2>3, <2>4, <2>5 DEF Promised, Queue!QueueNext
<1>3. QueueInv /\ [Next]_vars => QueueInv' /\ [Queue!QueueNext]_(Queue!queueVars)
  BY <1>2, QueueStep
<1> QED
  BY <1>1, <1>3, PTL DEF Spec, ImplementsQueue, Queue!QueueSpec
===============================================================================
