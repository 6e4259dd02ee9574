----------------------------- MODULE HistoryProofs ----------------------------
(***************************************************************************)
(* Proofs about History and the readline functions over it, for every set  *)
(* of texts and every bound.                                               *)
(*                                                                         *)
(* The inductive invariant is TypeOK, CursorLive and NumbersDescend taken  *)
(* together: a cursor that names a live event is what makes the place      *)
(* At(cursor) exist, and numbers that fall along the list are what makes   *)
(* it the only one, so none of the three is inductive alone.  While a file *)
(* is loaded LoadInv is needed besides: the lines still to come are the    *)
(* end of the file, and those entered are the others that could be         *)
(* decoded.  Every step is then shown to be a step of HistoryLog or to     *)
(* leave the log alone.                                                    *)
(*                                                                         *)
(* The readline functions have a specification of their own, RlSpec, whose *)
(* steps are several calls of history() each.  The same invariant, with    *)
(* the counts beside it, is shown to hold of them (RlInvariance); only the *)
(* walks and stifle_history need lemmas that History does not have.        *)
(***************************************************************************)
EXTENDS RlHistory, SequenceTheorems, WellFoundedInduction, TLAPS

IInv == TypeOK /\ CursorLive /\ NumbersDescend

\* The part of IInv about the list, the cursor and the event number.
ListInv ==
  /\ list \in Seq(Event) /\ cursor \in Nat /\ eventid \in Nat
  /\ CursorLive /\ NumbersDescend

LoadSet ==
  [busy : BOOLEAN, todo : Seq(Text), base : Seq(Text), bad : SUBSET Int, entered : Seq(Int)]

\* The part about all else.
RestOK ==
  /\ max \in Nat /\ unique \in BOOLEAN /\ h_ent \in Int
  /\ fns \in {"builtin", "user"}
  /\ file \in Seq(Text)
  /\ loading \in LoadSet

LEMMA Parts == IInv <=> ListInv /\ RestOK
BY DEF IInv, ListInv, RestOK, TypeOK, LoadSet

LEMMA PartsAfter == IInv' <=> ListInv' /\ RestOK'
BY DEF IInv, ListInv, RestOK, TypeOK, LoadSet

-------------------------------------------------------------------------------
(* Lists.                                                                  *)

\* The newest k events of a list.
LEMMA PrefixList ==
  ASSUME NEW l \in Seq(Event), NEW k \in 0..Len(l)
  PROVE  /\ SubSeq(l, 1, k) \in Seq(Event)
         /\ Len(SubSeq(l, 1, k)) = k
         /\ \A i \in 1..k : SubSeq(l, 1, k)[i] = l[i]
<1>1. Len(l) \in Nat /\ \A i \in 1..k : l[i] \in Event
  BY LenProperties, ElementOfSeq
<1>2. \A i \in 1..(k - 1 + 1) : SubSeq(l, 1, k)[i] = l[1 + i - 1]
  BY <1>1, SubSeqProperties
<1> QED
  BY <1>1, <1>2, SubSeqProperties

\* A list with a new event in front.
LEMMA ConsList ==
  ASSUME NEW l \in Seq(Event), NEW e \in Event
  PROVE  /\ <<e>> \o l \in Seq(Event)
         /\ Len(<<e>> \o l) = Len(l) + 1
         /\ (<<e>> \o l)[1] = e
         /\ \A i \in 2..(Len(l) + 1) : (<<e>> \o l)[i] = l[i - 1]
<1>1. <<e>> \in Seq(Event) /\ Len(<<e>>) = 1 /\ <<e>>[1] = e
  OBVIOUS
<1>2. Len(l) \in Nat
  BY LenProperties
<1>3. \A i \in 1..(1 + Len(l)) :
        (<<e>> \o l)[i] = IF i <= 1 THEN <<e>>[i] ELSE l[i - 1]
  BY <1>1, ConcatProperties
<1> QED
  BY <1>1, <1>2, <1>3, ConcatProperties

\* A list with the event at place i unlinked.
LEMMA UnlinkedList ==
  ASSUME NEW l \in Seq(Event), NEW i \in 1..Len(l)
  PROVE  /\ RemoveAt(l, i) \in Seq(Event)
         /\ Len(RemoveAt(l, i)) = Len(l) - 1
         /\ \A j \in 1..(Len(l) - 1) :
              RemoveAt(l, i)[j] = IF j < i THEN l[j] ELSE l[j + 1]
<1> DEFINE a == SubSeq(l, 1, i - 1)
           b == SubSeq(l, i + 1, Len(l))
<1>1. Len(l) \in Nat /\ \A j \in 1..Len(l) : l[j] \in Event
  BY LenProperties, ElementOfSeq
<1>2. a \in Seq(Event) /\ Len(a) = i - 1 /\ \A j \in 1..(i - 1) : a[j] = l[j]
  BY <1>1, PrefixList
<1>3. /\ b \in Seq(Event) /\ Len(b) = Len(l) - i
      /\ \A j \in 1..(Len(l) - i) : b[j] = l[i + j]
  <2>1. \A j \in (i + 1)..Len(l) : l[j] \in Event
    BY <1>1
  <2>2. /\ b \in Seq(Event)
        /\ Len(b) = IF i + 1 <= Len(l) THEN Len(l) - (i + 1) + 1 ELSE 0
        /\ \A j \in 1..(Len(l) - (i + 1) + 1) : b[j] = l[(i + 1) + j - 1]
    BY <1>1, <2>1, SubSeqProperties, i + 1 \in Int, Len(l) \in Int
  <2> QED
    BY <1>1, <2>2
<1>4. /\ a \o b \in Seq(Event) /\ Len(a \o b) = Len(a) + Len(b)
      /\ \A j \in 1..(Len(a) + Len(b)) :
           (a \o b)[j] = IF j <= Len(a) THEN a[j] ELSE b[j - Len(a)]
  BY <1>2, <1>3, ConcatProperties
<1>5. RemoveAt(l, i) = a \o b
  BY DEF RemoveAt
<1> HIDE DEF a, b
<1>6. Len(a) + Len(b) = Len(l) - 1
  BY <1>1, <1>2, <1>3
<1>7. ASSUME NEW j \in 1..(Len(l) - 1)
      PROVE  (a \o b)[j] = IF j < i THEN l[j] ELSE l[j + 1]
  <2>1. (a \o b)[j] = IF j <= i - 1 THEN a[j] ELSE b[j - (i - 1)]
    BY <1>2, <1>4, <1>6
  <2>2. CASE j < i
    BY <1>1, <1>2, <2>1, <2>2
  <2>3. CASE ~(j < i)
    <3>1. j - (i - 1) \in 1..(Len(l) - i) /\ i + (j - (i - 1)) = j + 1
      BY <1>1, <2>3
    <3> QED
      BY <1>1, <1>3, <2>1, <2>3, <3>1
  <2> QED
    BY <2>2, <2>3
<1> QED
  BY <1>4, <1>5, <1>6, <1>7

\* The place At(n) of a live event n is one, and holds the event n.
LEMMA AtLive ==
  ASSUME ListInv, NEW n \in Live
  PROVE  /\ Len(list) \in Nat /\ At(n) \in 1..Len(list)
         /\ list[At(n)].num = n /\ list[At(n)] \in Event
<1>1. \E i \in 1..Len(list) : list[i].num = n
  BY DEF Live
<1>2. At(n) \in 1..Len(list) /\ list[At(n)].num = n
  BY <1>1 DEF At
<1> QED
  BY <1>2, LenProperties, ElementOfSeq DEF ListInv

-------------------------------------------------------------------------------
(* What the operations on the list keep.                                   *)

\* A live event has its place, and lists are numbered by naturals.
LEMMA EntersKeep ==
  ASSUME ListInv, max \in Nat, NEW s \in Text, DefEnter(s)
  PROVE  ListInv'
<1>1. CASE Ignored(s)
  BY <1>1 DEF DefEnter, defVars, ListInv, CursorLive, NumbersDescend, Live
<1>2. CASE ~Ignored(s)
  <2> DEFINE l == <<NewEvent(s)>> \o list
             k == Kept(Len(l))
  <2>1. NewEvent(s) \in Event /\ NewEvent(s).num = eventid + 1
    BY DEF ListInv, NewEvent, Event
  <2>2. /\ l \in Seq(Event) /\ Len(l) = Len(list) + 1
        /\ l[1] = NewEvent(s)
        /\ \A i \in 2..(Len(list) + 1) : l[i] = list[i - 1]
        /\ Len(list) \in Nat
    BY <2>1, ConsList, LenProperties DEF ListInv
  <2>3. /\ \A i \in 1..Len(l) : l[i].num \in 1..(eventid + 1)
        /\ \A i, j \in 1..Len(l) : i < j => l[i].num > l[j].num
    <3>1. \A i \in 2..Len(l) : l[i] = list[i - 1] /\ i - 1 \in 1..Len(list)
      BY <2>2
    <3>2. eventid \in Nat /\ \A i \in 1..Len(list) : list[i].num \in 1..eventid
      BY DEF ListInv, NumbersDescend
    <3>3. \A i \in 2..Len(l) : l[i].num \in 1..eventid
      BY <3>1, <3>2
    <3>4. \A i, j \in 2..Len(l) : i < j => l[i].num > l[j].num
      <4>1. SUFFICES ASSUME NEW i \in 2..Len(l), NEW j \in 2..Len(l), i < j
                     PROVE  l[i].num > l[j].num
        OBVIOUS
      <4>2. i - 1 \in 1..Len(list) /\ j - 1 \in 1..Len(list) /\ i - 1 < j - 1
        BY <4>1, <3>1
      <4>3. list[i - 1].num > list[j - 1].num
        BY <4>2 DEF ListInv, NumbersDescend
      <4> QED
        BY <4>3, <3>1
    <3>5. l[1].num = eventid + 1
      BY <2>1, <2>2
    <3> HIDE DEF l
    <3>6. Len(l) \in Nat
      BY <2>2
    <3> QED
      BY <3>2, <3>3, <3>4, <3>5, <3>6
  <2>4. /\ k \in 0..Len(l) /\ Len(l) \in Nat
        /\ (max = 0 => k = 0) /\ (max > 0 => k >= 1)
    BY <2>2 DEF Kept
  <2>5. /\ list' = Trim(l) /\ eventid' = eventid + 1
        /\ cursor' = IF max = 0 THEN 0 ELSE eventid + 1
    BY <1>2 DEF DefEnter
  <2> HIDE DEF l
  <2>6. /\ list' \in Seq(Event) /\ Len(list') = k
        /\ \A i \in 1..k : list'[i] = l[i]
    BY <2>2, <2>4, <2>5, PrefixList DEF Trim
  <2>7. NumbersDescend'
    <3> HIDE DEF k
    <3>1. \A i \in 1..Len(list') : i \in 1..Len(l) /\ list'[i] = l[i]
      BY <2>4, <2>6
    <3> QED
      BY <2>3, <2>5, <3>1 DEF NumbersDescend
  <2>8. CursorLive'
    <3>1. CASE max = 0
      BY <3>1, <2>5 DEF CursorLive
    <3>2. CASE max > 0
      <4>1. 1 \in 1..Len(list') /\ list'[1].num = eventid + 1
        BY <3>2, <2>1, <2>2, <2>4, <2>6
      <4> QED
        BY <3>2, <4>1, <2>5 DEF CursorLive, Live
    <3> QED
      BY <3>1, <3>2
  <2> QED
    BY <2>5, <2>6, <2>7, <2>8 DEF ListInv
<1> QED
  BY <1>1, <1>2

LEMMA EditsKeep ==
  ASSUME ListInv, NEW i \in 1..Len(list), NEW s \in Text, SetText(i, s),
         eventid' = eventid, cursor' \in Live \cup {0}
  PROVE  ListInv'
<1>1. Len(list) \in Nat /\ \A j \in 1..Len(list) : list[j] \in Event
  BY LenProperties, ElementOfSeq DEF ListInv
<1>2. DOMAIN list = 1..Len(list)
  BY LenProperties DEF ListInv
<1> DEFINE e == [list[i] EXCEPT !.str = s]
<1>3. e \in Event /\ e.num = list[i].num
  BY <1>1 DEF Event
<1>4. list' = [list EXCEPT ![i] = e]
  BY DEF SetText
<1> HIDE DEF e
<1>5. /\ list' \in Seq(Event) /\ Len(list') = Len(list)
      /\ \A j \in 1..Len(list) : list'[j] = IF j = i THEN e ELSE list[j]
  BY <1>3, <1>4, ExceptSeq DEF ListInv
<1>6. \A j \in 1..Len(list) : list'[j].num = list[j].num
  BY <1>3, <1>5
<1>7. Live' = Live
  BY <1>5, <1>6 DEF Live
<1>8. NumbersDescend'
  BY <1>5, <1>6 DEF ListInv, NumbersDescend
<1>9. cursor' \in Nat /\ CursorLive'
  BY <1>1, <1>7 DEF CursorLive, Live, Event
<1> QED
  BY <1>5, <1>8, <1>9 DEF ListInv

LEMMA DeletesKeep ==
  ASSUME ListInv, NEW i \in 1..Len(list), Delete(i), eventid' = eventid
  PROVE  ListInv'
<1>1. Len(list) \in Nat /\ \A j \in 1..Len(list) : list[j] \in Event
  BY LenProperties, ElementOfSeq DEF ListInv
<1>2. /\ list' \in Seq(Event) /\ Len(list') = Len(list) - 1
      /\ \A j \in 1..(Len(list) - 1) : list'[j] = IF j < i THEN list[j] ELSE list[j + 1]
  BY UnlinkedList DEF Delete, ListInv
<1>3. NumbersDescend'
  <2>1. \A j \in 1..Len(list') : list'[j].num \in 1..eventid
    <3>1. SUFFICES ASSUME NEW j \in 1..(Len(list) - 1)
                   PROVE  list'[j].num \in 1..eventid
      BY <1>2
    <3>2. j \in 1..Len(list) /\ j + 1 \in 1..Len(list)
      BY <1>1
    <3>3. list'[j] = list[j] \/ list'[j] = list[j + 1]
      BY <1>2
    <3> QED
      BY <3>2, <3>3 DEF ListInv, NumbersDescend
  <2>2. ASSUME NEW j \in 1..Len(list'), NEW k \in 1..Len(list'), j < k
        PROVE  list'[j].num > list'[k].num
    <3>1. j \in 1..(Len(list) - 1) /\ k \in 1..(Len(list) - 1)
      BY <1>2
    <3> DEFINE p(m) == IF m < i THEN m ELSE m + 1
    <3>2. p(j) \in 1..Len(list) /\ p(k) \in 1..Len(list) /\ p(j) < p(k)
      BY <1>1, <3>1, <2>2
    <3>3. list'[j] = list[p(j)] /\ list'[k] = list[p(k)]
      BY <1>2, <3>1
    <3> HIDE DEF p
    <3> QED
      BY <3>2, <3>3 DEF ListInv, NumbersDescend
  <2> QED
    BY <2>1, <2>2 DEF NumbersDescend
<1>4. cursor' \in Nat /\ CursorLive'
  <2>1. CASE i > 1
    <3>1. i - 1 \in 1..Len(list') /\ list'[i - 1] = list[i - 1]
      BY <1>1, <1>2, <2>1
    <3>2. cursor' = list'[i - 1].num /\ list[i - 1] \in Event
      BY <1>1, <2>1, <3>1 DEF Delete, AfterDelete
    <3> QED
      BY <3>1, <3>2 DEF CursorLive, Live, Event
  <2>2. CASE ~(i > 1) /\ Len(list) > 1
    <3>1. 1 \in 1..Len(list') /\ list'[1] = list[2] /\ list[2] \in Event
      BY <1>1, <1>2, <2>2
    <3>2. cursor' = list'[1].num
      BY <2>2, <3>1 DEF Delete, AfterDelete
    <3> QED
      BY <3>1, <3>2 DEF CursorLive, Live, Event
  <2>3. CASE ~(i > 1) /\ ~(Len(list) > 1)
    BY <2>3 DEF Delete, AfterDelete, CursorLive
  <2> QED
    BY <2>1, <2>2, <2>3
<1> QED
  BY <1>2, <1>3, <1>4 DEF ListInv

LEMMA MovesKeep ==
  ASSUME ListInv, list' = list, eventid' = eventid, cursor' \in Live \cup {0}
  PROVE  ListInv'
<1>1. \A j \in 1..Len(list) : list[j] \in Event
  BY ElementOfSeq DEF ListInv
<1>2. Live \subseteq Nat
  BY <1>1 DEF Live, Event
<1>3. cursor' \in Nat
  BY <1>2
<1>4. CursorLive'
  BY DEF CursorLive, Live
<1>5. NumbersDescend'
  BY DEF ListInv, NumbersDescend
<1> QED
  BY <1>3, <1>4, <1>5 DEF ListInv

LEMMA EmptyingKeeps == Empty => ListInv'
<1> SUFFICES ASSUME Empty PROVE ListInv'
  OBVIOUS
<1>1. list' = <<>> /\ Len(list') = 0 /\ cursor' = 0 /\ eventid' = 0
  BY DEF Empty
<1> QED
  BY <1>1 DEF ListInv, CursorLive, NumbersDescend, Live

-------------------------------------------------------------------------------
(* The places a walk of the list may stop at.                              *)

LEMMA EndsLive ==
  ASSUME ListInv
  PROVE  Newest \in Live \cup {0} /\ Oldest \in Live \cup {0}
<1>1. Len(list) \in Nat /\ (list # <<>> => Len(list) > 0)
  BY EmptySeq, LenProperties DEF ListInv
<1>2. list # <<>> => 1 \in 1..Len(list) /\ Len(list) \in 1..Len(list)
  BY <1>1
<1> QED
  BY <1>2 DEF Newest, Oldest, Live

LEMMA CursorPlace ==
  ASSUME ListInv, cursor # 0
  PROVE  /\ Len(list) \in Nat /\ At(cursor) \in 1..Len(list)
         /\ list[At(cursor)] \in Event
BY AtLive DEF ListInv, CursorLive

\* A call that moves the cursor and does nothing else.
LEMMA MoveToKeeps ==
  ASSUME ListInv, NEW n, MoveTo(n), n \in Live \cup {0}
  PROVE  ListInv'
BY MovesKeep DEF MoveTo

LEMMA SearchesKeep ==
  ASSUME ListInv, NEW n, SearchNumber(n) \/ SearchText(n)
  PROVE  ListInv'
<1>1. /\ cursor # 0 /\ Len(list) \in Nat
      /\ \/ \E i \in At(cursor)..Len(list) : MoveTo(list[i].num)
         \/ \E i \in 1..At(cursor) : MoveTo(list[i].num)
         \/ MoveTo(Oldest) \/ MoveTo(Newest)
  BY LenProperties DEF SearchNumber, SearchText, Walk, WalkOlder, WalkNewer, ListInv
<1>2. (At(cursor)..Len(list)) \cup (1..At(cursor)) \subseteq 1..Len(list)
  BY <1>1, CursorPlace
<1>3. ASSUME NEW i \in 1..Len(list), MoveTo(list[i].num)
      PROVE  ListInv'
  BY <1>3, MoveToKeeps DEF Live
<1> QED
  BY <1>1, <1>2, <1>3, EndsLive, MoveToKeeps

-------------------------------------------------------------------------------
(* The invariant.                                                          *)

LEMMA InitIInv == Init => IInv
<1> SUFFICES ASSUME Init PROVE IInv
  OBVIOUS
<1>1. list = <<>> /\ Len(list) = 0
  BY DEF Init
<1>2. ListInv
  BY <1>1 DEF Init, ListInv, CursorLive, NumbersDescend
<1>3. RestOK
  <2>1. <<>> \in Seq(Text)
    BY EmptySeq
  <2>2. loading \in LoadSet
    BY <2>1 DEF Init, Idle, LoadSet
  <2>3. max \in Nat /\ unique \in BOOLEAN /\ h_ent \in Int
    <3>1. unique \in BOOLEAN
      BY DEF Init
    <3>2. h_ent \in Int /\ max \in Nat
      BY DEF Init
    <3> QED
      BY <3>1, <3>2
  <2> QED
    BY <2>1, <2>2, <2>3 DEF Init, RestOK
<1> QED
  BY <1>2, <1>3, Parts

\* The texts of a list, and of its newest events, are texts.
LEMMA TextsOK ==
  ASSUME NEW l \in Seq(Event)
  PROVE  Texts(l) \in Seq(Text) /\ Reverse(Texts(l)) \in Seq(Text)
<1>1. Len(l) \in Nat /\ \A i \in 1..Len(l) : l[i] \in Event
  BY LenProperties, ElementOfSeq
<1>2. /\ Texts(l) \in Seq(Text) /\ Len(Texts(l)) = Len(l)
      /\ \A i \in 1..Len(l) : Texts(l)[i] \in Text
  <2>1. Texts(l) \in [1..Len(l) -> Text]
    BY <1>1 DEF Texts, Event
  <2> QED
    BY <1>1, <2>1, SeqDef
<1>3. Reverse(Texts(l)) \in [1..Len(l) -> Text]
  BY <1>1, <1>2 DEF Reverse
<1> QED
  BY <1>1, <1>2, <1>3, SeqDef

\* The calls that enter, change, delete or move: one case for each action.
LEMMA ListInvStep ==
  ASSUME ListInv, RestOK, Next
  PROVE  ListInv'
<1> USE DEF RestOK
<1>1. ASSUME UNCHANGED defVars
      PROVE  ListInv'
  BY <1>1 DEF defVars, ListInv, CursorLive, NumbersDescend, Live
<1>2. ASSUME NEW s \in Text, Enter(s)
      PROVE  ListInv'
  BY <1>2, EntersKeep DEF Enter
<1>3. ASSUME NEW s \in Text, Add(s)
      PROVE  ListInv'
  <2>1. CASE cursor = 0
    BY <1>3, <2>1, EntersKeep DEF Add
  <2>2. CASE cursor # 0
    <3>1. list[At(cursor)].str \o s \in Text
      BY <2>2, CursorPlace, ConcatProperties DEF Text, Event
    <3>2. cursor \in Live /\ At(cursor) \in 1..Len(list)
      BY <2>2, CursorPlace DEF ListInv, CursorLive
    <3> QED
      BY <1>3, <2>2, <3>1, <3>2, EditsKeep DEF Add
  <2> QED
    BY <2>1, <2>2
<1>4. ASSUME NEW s \in Text, AppendEntered(s)
      PROVE  ListInv'
  <2>1. DefSet(h_ent) \in Live \cup {0}
    BY DEF DefSet, ListInv, CursorLive
  <2>2. CASE h_ent \in Live
    <3>1. list[At(h_ent)].str \o s \in Text /\ At(h_ent) \in 1..Len(list)
      BY <2>2, AtLive, ConcatProperties DEF Text, Event
    <3> QED
      BY <1>4, <2>1, <2>2, <3>1, EditsKeep DEF AppendEntered
  <2>3. CASE h_ent \notin Live
    BY <1>4, <2>1, <2>3, MovesKeep DEF AppendEntered
  <2> QED
    BY <2>2, <2>3
<1>5. ASSUME NEW s \in Text, Replace(s)
      PROVE  ListInv'
  <2>1. CASE cursor = 0
    BY <1>5, <2>1, <1>1 DEF Replace, defVars
  <2>2. CASE cursor # 0
    <3>1. cursor \in Live /\ At(cursor) \in 1..Len(list)
      BY <2>2, CursorPlace DEF ListInv, CursorLive
    <3> QED
      BY <1>5, <2>2, <3>1, EditsKeep DEF Replace
  <2> QED
    BY <2>1, <2>2
<1>6. ASSUME NEW n, Del(n)
      PROVE  ListInv'
  <2>1. CASE n \in Live
    BY <1>6, <2>1, AtLive, DeletesKeep DEF Del
  <2>2. CASE n \notin Live
    <3>1. DefSet(n) \in Live \cup {0}
      BY DEF DefSet, ListInv, CursorLive
    <3> QED
      BY <1>6, <2>2, <3>1, MovesKeep DEF Del
  <2> QED
    BY <2>1, <2>2
<1>7. ASSUME NEW n \in Nat, NEW keep, DelData(n, keep)
      PROVE  ListInv'
  <2>1. CASE list = <<>>
    BY <1>7, <2>1, <1>1 DEF DelData, defVars
  <2>2. CASE list # <<>> /\ Nth(n) < 1
    BY <1>7, <2>2, MovesKeep DEF DelData
  <2>3. CASE list # <<>> /\ ~(Nth(n) < 1)
    <3>1. Nth(n) \in 1..Len(list)
      <4>1. Len(list) \in Nat
        BY LenProperties DEF ListInv
      <4> QED
        BY <2>3, <4>1 DEF Nth
    <3>2. CASE keep
      <4>1. list[Nth(n)].num \in Live
        BY <3>1 DEF Live
      <4> QED
        BY <1>7, <2>3, <3>2, <4>1, MovesKeep DEF DelData
    <3>3. CASE ~keep
      BY <1>7, <2>3, <3>1, <3>3, DeletesKeep DEF DelData
    <3> QED
      BY <3>2, <3>3
  <2> QED
    BY <2>1, <2>2, <2>3
<1>8. ASSUME First \/ LastEvent
      PROVE  ListInv'
  BY <1>8, EndsLive, MoveToKeeps DEF First, LastEvent
<1>9. ASSUME NextEvent \/ PrevEvent
      PROVE  ListInv'
  <2>1. /\ cursor # 0
        /\ \/ At(cursor) < Len(list) /\ MoveTo(list[At(cursor) + 1].num)
           \/ At(cursor) > 1 /\ MoveTo(list[At(cursor) - 1].num)
    BY <1>9 DEF NextEvent, PrevEvent
  <2>2. At(cursor) < Len(list) => At(cursor) + 1 \in 1..Len(list)
    BY <2>1, CursorPlace
  <2>3. At(cursor) > 1 => At(cursor) - 1 \in 1..Len(list)
    BY <2>1, CursorPlace
  <2> QED
    BY <2>1, <2>2, <2>3, MoveToKeeps DEF Live
<1>10. ASSUME NEW n, SetEvent(n)
       PROVE  ListInv'
  <2>1. DefSet(n) \in Live \cup {0}
    BY DEF DefSet, ListInv, CursorLive
  <2> QED
    BY <1>10, <2>1, MoveToKeeps DEF SetEvent
<1>11. ASSUME Clear \/ EndAndInit
       PROVE  ListInv'
  BY <1>11, EmptyingKeeps DEF Clear, EndAndInit
<1>12. ASSUME NEW n, SetSize(n) \/ SetUnique(n)
       PROVE  ListInv'
  BY <1>12, <1>1 DEF SetSize, SetUnique
<1>13. ASSUME NEW n, Save \/ SaveLast(n)
       PROVE  ListInv'
  BY <1>13, EndsLive, MovesKeep DEF Save, SaveLast, SaveWalk
<1>14. ASSUME SaveFails \/ LoadBegin \/ LoadEnd
       PROVE  ListInv'
  BY <1>14, <1>1 DEF SaveFails, LoadBegin, LoadEnd
<1>15. ASSUME LoadLine
       PROVE  ListInv'
  <2>1. loading.todo \in Seq(Text) /\ loading.todo # <<>>
    BY <1>15 DEF LoadLine, LoadSet
  <2>2. Head(loading.todo) \in Text
    BY <2>1, HeadTailProperties
  <2>3. UNCHANGED defVars \/ DefEnter(Head(loading.todo))
    BY <1>15 DEF LoadLine
  <2> QED
    BY <1>1, <2>2, <2>3, EntersKeep
<1>16. ASSUME SetFunctions \/ SetFunctionsFails
       PROVE  ListInv'
  BY <1>16, <1>1, EmptyingKeeps DEF SetFunctions, SetFunctionsFails
<1>17. Lines \subseteq Text /\ Numbers \subseteq Nat
  BY LinesAssumption, BoundsAssumption DEF Numbers
<1> HIDE DEF RestOK
<1> QED
  BY <1>2, <1>3, <1>4, <1>5, <1>6, <1>7, <1>8, <1>9, <1>10, <1>11, <1>12,
     <1>13, <1>14, <1>15, <1>16, <1>17, SearchesKeep DEF Next

LEMMA RestStep ==
  ASSUME ListInv, RestOK, Next
  PROVE  RestOK'
<1>1. Texts(list) \in Seq(Text)
  BY TextsOK DEF ListInv
<1>2. /\ Numbers \subseteq Nat /\ 0..MaxSize \subseteq Nat
      /\ <<>> \in Seq(Text)
  BY BoundsAssumption, SizeAssumption, EmptySeq DEF Numbers
<1>3. loading' \in LoadSet
  <2>1. CASE UNCHANGED loading
    BY <2>1 DEF RestOK
  <2>2. CASE LoadBegin
    BY <2>2, <1>1, EmptySeq DEF LoadBegin, Idle, RestOK, LoadSet
  <2>3. CASE LoadLine
    <3> DEFINE i == LineNo
               e == <<i>> \o loading.entered
    <3>1. /\ file \in Seq(Text) /\ loading.todo \in Seq(Text) /\ loading.todo # <<>>
          /\ loading \in LoadSet /\ loading.entered \in Seq(Int)
          /\ loading.bad \in SUBSET Int /\ loading.base \in Seq(Text)
      BY <2>3 DEF LoadLine, RestOK, LoadSet
    <3>2. Tail(loading.todo) \in Seq(Text) /\ i \in Int
      BY <3>1, HeadTailProperties, LenProperties DEF LineNo
    <3>3. \/ loading' = [loading EXCEPT !.todo = Tail(loading.todo), !.bad = @ \cup {i}]
          \/ loading' = [loading EXCEPT !.todo = Tail(loading.todo), !.entered = e]
      BY <2>3 DEF LoadLine
    <3> HIDE DEF i
    <3>4. e \in Seq(Int)
      <4>1. <<i>> \in Seq(Int)
        BY <3>2
      <4> QED
        BY <3>1, <4>1, ConcatProperties
    <3> HIDE DEF e
    <3> QED
      BY <3>1, <3>2, <3>3, <3>4 DEF LoadSet
  <2>4. CASE LoadEnd
    BY <2>4, <1>2, EmptySeq DEF LoadEnd, Idle, LoadSet
  <2> QED
    BY <2>1, <2>2, <2>3, <2>4
       DEF Next, Enter, Add, AppendEntered, Replace, Del, DelData, MoveTo, First,
           LastEvent, NextEvent, PrevEvent, SetEvent, SearchNumber, SearchText,
           Walk, WalkOlder, WalkNewer, Clear, SetSize, SetUnique, Save, SaveLast,
           SaveWalk, SaveFails, SetFunctions, SetFunctionsFails, EndAndInit, refVars
<1>4. file' \in Seq(Text)
  <2>1. CASE UNCHANGED file
    BY <2>1 DEF RestOK
  <2>2. ASSUME NEW n \in Nat, SaveWalk(n)
        PROVE  file' \in Seq(Text)
    <3>1. Len(list) \in Nat /\ (list # <<>> => Len(list) > 0)
      BY LenProperties, EmptySeq DEF ListInv
    <3>2. SaveFrom(n) \in 0..Len(list)
      BY <3>1 DEF SaveFrom
    <3>3. SubSeq(list, 1, SaveFrom(n)) \in Seq(Event)
      BY <3>2, PrefixList DEF ListInv
    <3> QED
      BY <2>2, <3>3, TextsOK DEF SaveWalk
  <2>3. Len(list) \in Nat
    BY LenProperties DEF ListInv
  <2>4. CASE Save \/ (\E n \in Numbers : SaveLast(n))
    BY <1>2, <2>2, <2>3, <2>4 DEF Save, SaveLast
  <2>5. CASE SaveFails
    BY <2>5, <1>2 DEF SaveFails
  <2> QED
    BY <2>1, <2>4, <2>5
       DEF Next, Enter, Add, AppendEntered, Replace, Del, DelData, MoveTo, First,
           LastEvent, NextEvent, PrevEvent, SetEvent, SearchNumber, SearchText,
           Walk, WalkOlder, WalkNewer, Clear, SetSize, SetUnique, LoadBegin, LoadLine,
           LoadEnd, SetFunctions, SetFunctionsFails, EndAndInit
<1>5. max' \in Nat /\ unique' \in BOOLEAN
  <2>1. CASE UNCHANGED optVars
    BY <2>1 DEF optVars, RestOK
  <2>2. ASSUME NEW n \in 0..MaxSize, SetSize(n)
        PROVE  max' \in Nat /\ unique' \in BOOLEAN
    BY <2>2, <1>2 DEF SetSize, RestOK
  <2>3. ASSUME NEW u \in BOOLEAN, SetUnique(u)
        PROVE  max' \in Nat /\ unique' \in BOOLEAN
    BY <2>3 DEF SetUnique, RestOK
  <2>4. CASE SetFunctionsFails \/ EndAndInit
    <3>1. (max' = 0 /\ unique' = FALSE) \/ UNCHANGED optVars
      BY <2>4 DEF SetFunctionsFails, EndAndInit, optVars
    <3>2. 0 \in Nat
      OBVIOUS
    <3> QED
      BY <3>1, <3>2 DEF optVars, RestOK
  <2> QED
    BY <2>1, <2>2, <2>3, <2>4
       DEF Next, Enter, Add, AppendEntered, Replace, Del, DelData, MoveTo, First,
           LastEvent, NextEvent, PrevEvent, SetEvent, SearchNumber, SearchText,
           Walk, WalkOlder, WalkNewer, Clear, Save, SaveLast, SaveWalk, SaveFails,
           LoadBegin, LoadLine, LoadEnd, SetFunctions
<1>6. /\ h_ent' \in Int
      /\ fns' \in {"builtin", "user"}
  <2>1. CASE UNCHANGED refVars
    BY <2>1 DEF refVars, RestOK
  <2>2. ASSUME NEW s, Enter(s)
        PROVE  /\ h_ent' \in Int
               /\ fns' \in {"builtin", "user"}
    <3>1. h_ent' = 0 \/ h_ent' = eventid + 1
      BY <2>2 DEF Enter
    <3>2. h_ent' \in Int
      BY <3>1 DEF ListInv
    <3> QED
      BY <2>2, <3>2 DEF Enter, RestOK
  <2>3. CASE SetFunctions \/ SetFunctionsFails \/ EndAndInit
    <3>1. h_ent' = -1
      BY <2>3 DEF SetFunctions, SetFunctionsFails, EndAndInit
    <3> QED
      BY <2>3, <3>1 DEF SetFunctions, SetFunctionsFails, EndAndInit, RestOK
  <2> QED
    BY <2>1, <2>2, <2>3
       DEF Next, Add, AppendEntered, Replace, Del, DelData, MoveTo, First,
           LastEvent, NextEvent, PrevEvent, SetEvent, SearchNumber, SearchText,
           Walk, WalkOlder, WalkNewer, Clear, SetSize, SetUnique, Save, SaveLast,
           SaveWalk, SaveFails, LoadBegin, LoadLine, LoadEnd
<1> QED
  BY <1>3, <1>4, <1>5, <1>6 DEF RestOK

\* The list, its cursor and its numbers are as IInv says in every state.
THEOREM Invariance == Spec => []IInv
<1>1. IInv /\ [Next]_vars => IInv'
  <2> SUFFICES ASSUME IInv, [Next]_vars PROVE IInv'
    OBVIOUS
  <2>1. CASE Next
    BY <2>1, Parts, PartsAfter, ListInvStep, RestStep
  <2>2. CASE UNCHANGED vars
    BY <2>2 DEF vars, IInv, TypeOK, CursorLive, NumbersDescend, Live
  <2> QED
    BY <2>1, <2>2
<1> QED
  BY <1>1, InitIInv, PTL DEF Spec

\* The type invariant of the history list.
THEOREM TypeCorrect == Spec => []TypeOK
<1>1. IInv => TypeOK
  BY DEF IInv
<1> QED
  BY <1>1, Invariance, PTL

\* The cursor points to the header or to an event of the list, never to one
\* that history_def_delete or the trim of history_def_enter has freed.
THEOREM CursorNeverDangles == Spec => []CursorLive
<1>1. IInv => CursorLive
  BY DEF IInv
<1> QED
  BY <1>1, Invariance, PTL

\* Event numbers fall along the list, so each names one event.
THEOREM NumbersName == Spec => []NumbersDescend
<1>1. IInv => NumbersDescend
  BY DEF IInv
<1> QED
  BY <1>1, Invariance, PTL

-------------------------------------------------------------------------------
(* The size limit.                                                         *)

\* Only history_def_enter makes the list longer, and it trims what it made.
LEMMA GrowthStep ==
  ASSUME ListInv, RestOK, Next, Len(list') > Len(list)
  PROVE  Len(list') <= max'
<1>1. Len(list) \in Nat
  BY LenProperties DEF ListInv
<1>2. ASSUME NEW s \in Text, DefEnter(s), max' = max
      PROVE  Len(list') <= max'
  <2>1. CASE Ignored(s)
    BY <1>1, <1>2, <2>1 DEF DefEnter, defVars
  <2>2. CASE ~Ignored(s)
    <3> DEFINE l == <<NewEvent(s)>> \o list
    <3>1. NewEvent(s) \in Event
      BY DEF ListInv, NewEvent, Event
    <3>2. l \in Seq(Event) /\ Len(l) \in Nat
      BY <3>1, ConsList, LenProperties DEF ListInv
    <3>3. Kept(Len(l)) \in 0..Len(l) /\ Kept(Len(l)) <= max
      BY <3>2 DEF Kept, RestOK
    <3>4. list' = SubSeq(l, 1, Kept(Len(l)))
      BY <1>2, <2>2 DEF DefEnter, Trim
    <3> HIDE DEF l
    <3>5. Len(list') = Kept(Len(l))
      BY <3>2, <3>3, <3>4, PrefixList
    <3> QED
      BY <1>2, <3>3, <3>5
  <2> QED
    BY <2>1, <2>2
<1>3. \A i, s : ~SetText(i, s)
  <2>1. ASSUME NEW i, NEW s, SetText(i, s)
        PROVE  Len(list') = Len(list)
    <3>1. list' \in [1..Len(list) -> {list'[j] : j \in 1..Len(list)}]
      BY <2>1, LenProperties DEF SetText, ListInv
    <3> QED
      BY <1>1, <3>1, LenProperties, SeqDef
  <2> QED
    BY <1>1, <2>1
<1>4. \A i \in 1..Len(list) : ~Delete(i)
  BY <1>1, UnlinkedList DEF Delete, ListInv
<1>5. ~Empty
  BY <1>1 DEF Empty
<1>6. list' # list
  BY <1>1
<1>7. ASSUME NEW n, Del(n)
      PROVE  FALSE
  BY <1>4, <1>6, <1>7, AtLive DEF Del
<1>8. ASSUME NEW n \in Nat, NEW keep, DelData(n, keep)
      PROVE  FALSE
  <2>1. list # <<>> /\ ~(Nth(n) < 1)
    BY <1>6, <1>8 DEF DelData
  <2>2. Nth(n) \in 1..Len(list)
    BY <1>1, <2>1 DEF Nth
  <2> QED
    BY <1>4, <1>6, <1>8, <2>1, <2>2 DEF DelData
<1>9. \/ \E s \in Lines : (Enter(s) \/ Add(s)) /\ DefEnter(s)
      \/ LoadLine
  BY <1>3, <1>5, <1>6, <1>7, <1>8, BoundsAssumption
     DEF Next, Enter, Add, AppendEntered, Replace, MoveTo, First,
         LastEvent, NextEvent, PrevEvent, SetEvent, SearchNumber, SearchText,
         Walk, WalkOlder, WalkNewer, Clear, SetSize, SetUnique, Save, SaveLast, SaveWalk,
         SaveFails, LoadBegin, LoadEnd, SetFunctions, SetFunctionsFails,
         EndAndInit, Numbers, defVars
<1>10. CASE \E s \in Lines : (Enter(s) \/ Add(s)) /\ DefEnter(s)
  BY <1>2, <1>10, LinesAssumption DEF Enter, Add, optVars
<1>11. CASE LoadLine
  <2>1. Head(loading.todo) \in Text
    BY <1>11, HeadTailProperties DEF LoadLine, RestOK, LoadSet
  <2>2. \/ UNCHANGED defVars
        \/ DefEnter(Head(loading.todo)) /\ max' = max
    BY <1>11 DEF LoadLine, optVars
  <2> QED
    BY <1>2, <1>3, <2>1, <2>2 DEF defVars
<1> QED
  BY <1>9, <1>10, <1>11

\* No call makes the list longer than the size H_SETSIZE last gave it.
THEOREM SizeLimit == Spec => NeverGrowsPastSize
<1>1. IInv /\ [Next]_vars => [Len(list') > Len(list) => Len(list') <= max']_vars
  BY Parts, GrowthStep
<1> QED
  BY <1>1, Invariance, PTL DEF Spec, NeverGrowsPastSize

-------------------------------------------------------------------------------
(* What a call may do to the list.                                         *)

Enters(s) ==
  /\ list' = Trim(<<NewEvent(s)>> \o list)
  /\ eventid' = eventid + 1

\* The text of the event at place i is replaced, and the cursor is there.
Edited(i, s) == SetText(i, s) /\ list[i].num = cursor' /\ eventid' = eventid

Deleted(i) == list' = RemoveAt(list, i) /\ eventid' = eventid

\* Every call leaves the list alone, empties it, enters one event in front,
\* or edits or unlinks one.
LEMMA ListSteps ==
  ASSUME ListInv, RestOK, Next
  PROVE  \/ UNCHANGED <<list, eventid>>
         \/ list' = <<>> /\ eventid' = 0
         \/ \E s \in Text : Enters(s)
         \/ \E i \in 1..Len(list), s \in Text : Edited(i, s)
         \/ \E i \in 1..Len(list) : Deleted(i)
<1> DEFINE Goal == \/ UNCHANGED <<list, eventid>>
                   \/ list' = <<>> /\ eventid' = 0
                   \/ \E s \in Text : Enters(s)
                   \/ \E i \in 1..Len(list), s \in Text : Edited(i, s)
                   \/ \E i \in 1..Len(list) : Deleted(i)
<1>1. ASSUME NEW s \in Text, DefEnter(s)
      PROVE  Goal
  BY <1>1 DEF DefEnter, defVars, Enters
<1>2. ASSUME NEW s \in Text, Enter(s)
      PROVE  Goal
  BY <1>1, <1>2 DEF Enter
<1>3. ASSUME NEW s \in Text, Add(s)
      PROVE  Goal
  <2>1. CASE cursor = 0
    BY <1>1, <1>3, <2>1 DEF Add
  <2>2. CASE cursor # 0
    <3>1. /\ list[At(cursor)].str \o s \in Text /\ At(cursor) \in 1..Len(list)
          /\ list[At(cursor)].num = cursor
      BY <2>2, AtLive, ConcatProperties DEF Text, Event, ListInv, CursorLive
    <3>2. Edited(At(cursor), list[At(cursor)].str \o s)
      BY <1>3, <2>2, <3>1 DEF Add, Edited
    <3> QED
      BY <3>1, <3>2
  <2> QED
    BY <2>1, <2>2
<1>4. ASSUME NEW s \in Text, AppendEntered(s)
      PROVE  Goal
  <2>1. CASE h_ent \in Live
    <3>1. /\ list[At(h_ent)].str \o s \in Text /\ At(h_ent) \in 1..Len(list)
          /\ list[At(h_ent)].num = h_ent
      BY <2>1, AtLive, ConcatProperties DEF Text, Event
    <3>2. list # <<>>
      <4>1. Len(<<>>) = 0
        BY EmptySeq
      <4> QED
        BY <3>1, <4>1
    <3>3. Edited(At(h_ent), list[At(h_ent)].str \o s)
      BY <1>4, <2>1, <3>1, <3>2 DEF AppendEntered, Edited, DefSet
    <3> QED
      BY <3>1, <3>3
  <2>2. CASE h_ent \notin Live
    BY <1>4, <2>2 DEF AppendEntered
  <2> QED
    BY <2>1, <2>2
<1>5. ASSUME NEW s \in Text, Replace(s)
      PROVE  Goal
  <2>1. CASE cursor = 0
    BY <1>5, <2>1 DEF Replace
  <2>2. CASE cursor # 0
    <3>1. At(cursor) \in 1..Len(list) /\ list[At(cursor)].num = cursor
      BY <2>2, AtLive DEF ListInv, CursorLive
    <3>2. Edited(At(cursor), s)
      BY <1>5, <2>2, <3>1 DEF Replace, Edited
    <3> QED
      BY <3>1, <3>2
  <2> QED
    BY <2>1, <2>2
<1>6. ASSUME NEW n, Del(n)
      PROVE  Goal
  BY <1>6, AtLive DEF Del, Delete, Deleted
<1>7. ASSUME NEW n \in Nat, NEW keep, DelData(n, keep)
      PROVE  Goal
  <2>1. CASE list = <<>> \/ Nth(n) < 1 \/ keep
    BY <1>7, <2>1 DEF DelData
  <2>2. CASE ~(list = <<>> \/ Nth(n) < 1 \/ keep)
    <3>1. Nth(n) \in 1..Len(list)
      <4>1. Len(list) \in Nat
        BY LenProperties DEF ListInv
      <4> QED
        BY <2>2, <4>1 DEF Nth
    <3> QED
      BY <1>7, <2>2, <3>1 DEF DelData, Delete, Deleted
  <2> QED
    BY <2>1, <2>2
<1>8. ASSUME LoadLine
      PROVE  Goal
  <2>1. Head(loading.todo) \in Text
    BY <1>8, HeadTailProperties DEF LoadLine, RestOK, LoadSet
  <2>2. UNCHANGED defVars \/ DefEnter(Head(loading.todo))
    BY <1>8 DEF LoadLine
  <2>3. UNCHANGED defVars => Goal
    BY DEF defVars
  <2> QED
    BY <1>1, <2>1, <2>2, <2>3
<1>9. Lines \subseteq Text /\ Numbers \subseteq Nat
  BY LinesAssumption, BoundsAssumption DEF Numbers
<1> HIDE DEF Goal
<1>10. (UNCHANGED <<list, eventid>> \/ Empty) => Goal
  BY DEF Goal, Empty
<1>11. Goal
  BY <1>2, <1>3, <1>4, <1>5, <1>6, <1>7, <1>8, <1>9, <1>10
     DEF Next, MoveTo, First, LastEvent, NextEvent, PrevEvent, SetEvent,
         SearchNumber, SearchText, Walk, WalkOlder, WalkNewer, Clear, SetSize,
         SetUnique, Save, SaveLast, SaveWalk, SaveFails, LoadBegin, LoadEnd,
         SetFunctions, SetFunctionsFails, EndAndInit, defVars
<1> QED
  BY <1>11 DEF Goal

\* A list with the new event in front, and what the trim leaves of it.
LEMMA EnteredList ==
  ASSUME ListInv, RestOK, NEW s \in Text, Enters(s)
  PROVE  LET l == <<NewEvent(s)>> \o list
         IN /\ l \in Seq(Event) /\ Len(l) = Len(list) + 1 /\ Len(list) \in Nat
            /\ l[1].num = eventid + 1
            /\ \A i \in 2..Len(l) : i - 1 \in 1..Len(list) /\ l[i] = list[i - 1]
            /\ list' \in Seq(Event) /\ Len(list') = Kept(Len(l)) /\ Kept(Len(l)) \in 0..Len(l)
            /\ \A i \in 1..Len(list') : i \in 1..Len(l) /\ list'[i] = l[i]
<1> DEFINE l == <<NewEvent(s)>> \o list
           k == Kept(Len(l))
<1>1. NewEvent(s) \in Event /\ NewEvent(s).num = eventid + 1
  BY DEF ListInv, NewEvent, Event
<1>2. /\ l \in Seq(Event) /\ Len(l) = Len(list) + 1 /\ Len(list) \in Nat
      /\ l[1] = NewEvent(s)
      /\ \A i \in 2..(Len(list) + 1) : l[i] = list[i - 1]
  BY <1>1, ConsList, LenProperties DEF ListInv
<1>3. k \in 0..Len(l)
  BY <1>2 DEF Kept, RestOK
<1>4. list' = SubSeq(l, 1, k)
  BY DEF Enters, Trim
<1> HIDE DEF l
<1>5. list' \in Seq(Event) /\ Len(list') = k /\ \A i \in 1..k : list'[i] = l[i]
  BY <1>2, <1>3, <1>4, PrefixList
<1>6. \A i \in 1..Len(list') : i \in 1..Len(l) /\ list'[i] = l[i]
  BY <1>2, <1>3, <1>5
<1>7. \A i \in 2..Len(l) : i - 1 \in 1..Len(list) /\ l[i] = list[i - 1]
  BY <1>2
<1> QED
  BY <1>1, <1>2, <1>3, <1>5, <1>6, <1>7 DEF l

-------------------------------------------------------------------------------
(* One event edited, and the numbered log.                                 *)

\* A list whose numbers fall: the number of an event gives its place.
Descends(l) == \A i, j \in 1..Len(l) : i < j => l[i].num > l[j].num

LEMMA NumberGivesPlace ==
  ASSUME NEW l \in Seq(Event), Descends(l),
         NEW i \in 1..Len(l), NEW j \in 1..Len(l), l[i].num = l[j].num
  PROVE  i = j
<1>1. Len(l) \in Nat /\ l[i] \in Event /\ l[j] \in Event
  BY LenProperties, ElementOfSeq
<1>2. l[i].num \in Nat /\ l[j].num \in Nat
  BY <1>1 DEF Event
<1>3. ~(i < j) /\ ~(j < i)
  BY <1>2 DEF Descends
<1> QED
  BY <1>1, <1>3

\* Every event of the list after a call was there before it, at a place that
\* may differ and with its text but for an edited one, or it is new.
LEMMA EventsSurvive ==
  ASSUME ListInv, ListInv', RestOK, Next, NEW j \in 1..Len(list')
  PROVE  \/ list'[j].num = eventid + 1 /\ eventid' = eventid + 1
         \/ \E i \in 1..Len(list) :
              /\ list'[j].num = list[i].num
              /\ list'[j].str = list[i].str \/ list[i].num = cursor'
<1>1. Len(list) \in Nat /\ Len(list') \in Nat
  BY LenProperties DEF ListInv
<1>2. CASE UNCHANGED <<list, eventid>>
  BY <1>2
<1>3. CASE list' = <<>>
  <2>1. Len(<<>>) = 0
    BY EmptySeq
  <2> QED
    BY <1>3, <2>1
<1>4. ASSUME NEW s \in Text, Enters(s)
      PROVE  \/ list'[j].num = eventid + 1 /\ eventid' = eventid + 1
             \/ \E i \in 1..Len(list) : list'[j] = list[i]
  <2> DEFINE l == <<NewEvent(s)>> \o list
  <2>1. /\ l[1].num = eventid + 1 /\ j \in 1..Len(l) /\ list'[j] = l[j]
        /\ \A i \in 2..Len(l) : i - 1 \in 1..Len(list) /\ l[i] = list[i - 1]
    BY <1>4, EnteredList
  <2> HIDE DEF l
  <2>2. CASE j = 1
    BY <1>4, <2>1, <2>2 DEF Enters
  <2>3. CASE j # 1
    <3>1. j \in 2..Len(l)
      BY <2>1, <2>3
    <3> QED
      BY <2>1, <3>1
  <2> QED
    BY <2>2, <2>3
<1>5. ASSUME NEW i \in 1..Len(list), NEW s \in Text, Edited(i, s)
      PROVE  /\ j \in 1..Len(list) /\ list'[j].num = list[j].num
             /\ list'[j].str = list[j].str \/ list[j].num = cursor'
  <2> DEFINE e == [list[i] EXCEPT !.str = s]
  <2>1. e \in Event /\ e.num = list[i].num
    <3>1. list[i] \in Event
      BY ElementOfSeq DEF ListInv
    <3> QED
      BY <3>1 DEF Event
  <2>2. list' = [list EXCEPT ![i] = e]
    BY <1>5 DEF Edited, SetText
  <2> HIDE DEF e
  <2>3. /\ Len(list') = Len(list)
        /\ \A k \in 1..Len(list) : list'[k] = IF k = i THEN e ELSE list[k]
    BY <2>1, <2>2, ExceptSeq DEF ListInv
  <2> QED
    BY <1>5, <2>1, <2>3 DEF Edited
<1>6. ASSUME NEW i \in 1..Len(list), Deleted(i)
      PROVE  \E k \in 1..Len(list) : list'[j] = list[k]
  <2>1. /\ j \in 1..(Len(list) - 1)
        /\ list'[j] = IF j < i THEN list[j] ELSE list[j + 1]
    BY <1>1, <1>6, UnlinkedList DEF Deleted, ListInv
  <2>2. j \in 1..Len(list) /\ j + 1 \in 1..Len(list)
    BY <1>1, <2>1
  <2> QED
    BY <2>1, <2>2
<1> QED
  BY <1>2, <1>3, <1>4, <1>5, <1>6, ListSteps

\* Each call changes the text of at most one surviving event, the one the
\* cursor is on when the call returns.
THEOREM EditsOne == Spec => OneEventEdited
<1>1. ASSUME ListInv, ListInv', RestOK, Next,
             NEW i \in 1..Len(list), NEW j \in 1..Len(list'),
             list[i].num = list'[j].num, list[i].str # list'[j].str
      PROVE  list[i].num = cursor'
  <2>1. list[i].num \in 1..eventid /\ eventid \in Nat
    BY <1>1 DEF ListInv, NumbersDescend
  <2>2. PICK k \in 1..Len(list) :
          /\ list'[j].num = list[k].num
          /\ list'[j].str = list[k].str \/ list[k].num = cursor'
    BY <1>1, <2>1, EventsSurvive
  <2>3. i = k
    BY <1>1, <2>2, NumberGivesPlace DEF ListInv, NumbersDescend, Descends
  <2> QED
    BY <1>1, <2>2, <2>3
<1>2. IInv /\ IInv' /\ [Next]_vars
        => [\A i \in 1..Len(list), j \in 1..Len(list') :
              list[i].num = list'[j].num /\ list[i].str # list'[j].str
                => list[i].num = cursor']_vars
  BY <1>1, Parts, PartsAfter
<1> QED
  BY <1>2, Invariance, PTL DEF Spec, OneEventEdited

\* The log a list stands for.
PlaceOf(l, n) == CHOOSE i \in 1..Len(l) : l[i].num = n
Nums(l) == {l[i].num : i \in 1..Len(l)}
LogOf(l) == [n \in Nums(l) |-> l[PlaceOf(l, n)].str]

LEMMA LogOfList ==
  ASSUME NEW l \in Seq(Event), Descends(l), NEW i \in 1..Len(l)
  PROVE  l[i].num \in DOMAIN LogOf(l) /\ LogOf(l)[l[i].num] = l[i].str
<1>1. l[i].num \in Nums(l)
  BY DEF Nums
<1>2. PlaceOf(l, l[i].num) \in 1..Len(l) /\ l[PlaceOf(l, l[i].num)].num = l[i].num
  BY DEF PlaceOf
<1>3. PlaceOf(l, l[i].num) = i
  BY <1>2, NumberGivesPlace
<1> QED
  BY <1>1, <1>3 DEF LogOf

\* The numbers of the events that are left, from some number on.
LEMMA EnterDropsOldest ==
  ASSUME ListInv, ListInv', RestOK, NEW s \in Text, Enters(s)
  PROVE  \E oldest \in 1..(eventid + 2) :
           Nums(list') = {n \in Nums(list) \cup {eventid + 1} : n >= oldest}
<1> DEFINE l == <<NewEvent(s)>> \o list
           k == Len(list')
           oldest == IF k = 0 THEN eventid + 2 ELSE l[k].num
<1>1. /\ l \in Seq(Event) /\ Len(l) = Len(list) + 1 /\ Len(list) \in Nat
      /\ l[1].num = eventid + 1
      /\ \A i \in 2..Len(l) : i - 1 \in 1..Len(list) /\ l[i] = list[i - 1]
      /\ k \in 0..Len(l)
      /\ \A i \in 1..k : i \in 1..Len(l) /\ list'[i] = l[i]
  BY EnteredList
<1>2. /\ eventid \in Nat
      /\ \A i \in 1..Len(list) : list[i].num \in 1..eventid
      /\ \A i, j \in 1..Len(list) : i < j => list[i].num > list[j].num
  BY DEF ListInv, NumbersDescend
<1> HIDE DEF l, k
<1>3. \A i \in 1..Len(l) : l[i].num \in 1..(eventid + 1)
  <2>1. SUFFICES ASSUME NEW i \in 1..Len(l) PROVE l[i].num \in 1..(eventid + 1)
    OBVIOUS
  <2>2. i = 1 \/ i \in 2..Len(l)
    BY <1>1
  <2>3. CASE i = 1
    BY <1>1, <1>2, <2>3
  <2>4. CASE i \in 2..Len(l)
    <3>1. list[i - 1].num \in 1..eventid /\ l[i] = list[i - 1]
      BY <1>1, <1>2, <2>4
    <3> QED
      BY <1>2, <3>1
  <2> QED
    BY <2>2, <2>3, <2>4
<1>4. ASSUME NEW i \in 1..Len(l), NEW j \in 1..Len(l), i < j
      PROVE  l[i].num > l[j].num
  <2>1. j \in 2..Len(l) /\ (i = 1 \/ i \in 2..Len(l))
    BY <1>1, <1>4
  <2>2. CASE i = 1
    <3>1. l[j].num \in 1..eventid
      BY <1>1, <1>2, <2>1
    <3> QED
      BY <1>1, <1>2, <2>2, <3>1
  <2>3. CASE i \in 2..Len(l)
    <3>1. /\ i - 1 \in 1..Len(list) /\ j - 1 \in 1..Len(list) /\ i - 1 < j - 1
          /\ l[i] = list[i - 1] /\ l[j] = list[j - 1]
      BY <1>1, <1>4, <2>1, <2>3
    <3> QED
      BY <1>2, <3>1
  <2> QED
    BY <2>1, <2>2, <2>3
<1>5. Nums(list) \cup {eventid + 1} = {l[i].num : i \in 1..Len(l)}
  <2>1. \A i \in 1..Len(list) : i + 1 \in 2..Len(l) /\ l[i + 1] = list[i]
    BY <1>1
  <2>2. ASSUME NEW i \in 1..Len(l)
        PROVE  l[i].num \in Nums(list) \cup {eventid + 1}
    <3>1. i = 1 \/ i \in 2..Len(l)
      BY <1>1
    <3> QED
      BY <1>1, <3>1 DEF Nums
  <2>3. 1 \in 1..Len(l) /\ \A i \in 1..Len(list) : i + 1 \in 1..Len(l)
    BY <1>1
  <2>4. ASSUME NEW n \in Nums(list) \cup {eventid + 1}
        PROVE  n \in {l[i].num : i \in 1..Len(l)}
    <3>1. CASE n = eventid + 1
      BY <1>1, <2>3, <3>1
    <3>2. CASE n \in Nums(list)
      <4>1. PICK i \in 1..Len(list) : n = list[i].num
        BY <3>2 DEF Nums
      <4>2. n = l[i + 1].num /\ i + 1 \in 1..Len(l)
        BY <2>1, <2>3, <4>1
      <4> QED
        BY <4>2
    <3> QED
      BY <3>1, <3>2
  <2> QED
    BY <2>2, <2>4
<1>6. Nums(list') = {l[i].num : i \in 1..k}
  BY <1>1 DEF Nums, k
<1>7. oldest \in 1..(eventid + 2)
  <2>1. CASE k = 0
    BY <1>2, <2>1
  <2>2. CASE k # 0
    <3>1. k \in 1..Len(l)
      BY <1>1, <2>2
    <3>2. l[k].num \in 1..(eventid + 1)
      BY <1>3, <3>1
    <3> QED
      BY <1>2, <2>2, <3>2
  <2> QED
    BY <2>1, <2>2
<1>8. ASSUME NEW i \in 1..Len(l)
      PROVE  l[i].num >= oldest <=> i \in 1..k
  <2>1. l[i].num \in 1..(eventid + 1)
    BY <1>3
  <2>2. CASE k = 0
    BY <1>2, <2>1, <2>2
  <2>3. CASE k # 0
    <3>1. k \in 1..Len(l) /\ oldest = l[k].num
      BY <1>1, <2>3
    <3>2. l[k].num \in 1..(eventid + 1)
      BY <1>3, <3>1
    <3>3. (i < k => l[i].num > l[k].num) /\ (k < i => l[k].num > l[i].num)
      BY <1>4, <3>1
    <3> HIDE DEF oldest
    <3>4. i < k \/ i = k \/ k < i
      BY <1>1, <3>1
    <3> QED
      BY <1>1, <1>2, <2>1, <3>1, <3>2, <3>3, <3>4
  <2> QED
    BY <2>2, <2>3
<1> HIDE DEF oldest
<1>9. \A i \in 1..k : i \in 1..Len(l)
  BY <1>1
<1>10. Nums(list') = {n \in Nums(list) \cup {eventid + 1} : n >= oldest}
  BY <1>5, <1>6, <1>8, <1>9
<1> QED
  BY <1>7, <1>10

\* What a step does to the log is what it does to the list.
LEMMA SurvivorsKeepText ==
  ASSUME ListInv, ListInv', NEW j \in 1..Len(list'), NEW i \in 1..Len(list),
         list'[j] = list[i]
  PROVE  LogOf(list')[list'[j].num] = LogOf(list)[list'[j].num]
<1>1. Descends(list) /\ list \in Seq(Event)
  BY DEF ListInv, NumbersDescend, Descends
<1>2. Descends(list') /\ list' \in Seq(Event)
  BY DEF ListInv, NumbersDescend, Descends
<1>3. LogOf(list)[list[i].num] = list[i].str
  BY <1>1, LogOfList
<1>4. LogOf(list')[list'[j].num] = list'[j].str
  BY <1>2, LogOfList
<1> QED
  BY <1>3, <1>4

LEMMA LogStep ==
  ASSUME ListInv, ListInv', RestOK, Next
  PROVE  Log!LogNext \/ UNCHANGED Log!logVars
<1> DEFINE old == LogOf(list)
           new == LogOf(list')
<1>1. [n \in Live |-> list[At(n)].str] = old
  BY DEF Live, At, LogOf, Nums, PlaceOf
<1>2. [n \in Live |-> list[At(n)].str]' = new
  BY DEF Live, At, LogOf, Nums, PlaceOf
<1>3. DOMAIN old = Nums(list) /\ DOMAIN new = Nums(list')
  BY DEF LogOf
<1>4. /\ list \in Seq(Event) /\ list' \in Seq(Event) /\ eventid \in Nat
      /\ Descends(list) /\ Descends(list')
      /\ \A n \in Nums(list) : n \in 1..eventid
      /\ Len(list) \in Nat
  BY LenProperties DEF ListInv, NumbersDescend, Descends, Nums
<1>5. ASSUME NEW j \in 1..Len(list'), NEW i \in 1..Len(list), list'[j] = list[i]
      PROVE  new[list'[j].num] = old[list'[j].num]
  BY <1>5, SurvivorsKeepText
<1> HIDE DEF old, new
<1>6. CASE UNCHANGED <<list, eventid>>
  BY <1>1, <1>2, <1>6 DEF Log!logVars, old, new
<1>7. CASE list' = <<>> /\ eventid' = 0
  <2>1. Nums(list') = {}
    BY <1>7, EmptySeq DEF Nums
  <2>2. new = [n \in {} |-> {}]
    BY <2>1 DEF new, LogOf
  <2> QED
    BY <1>2, <1>7, <2>2 DEF Log!LogNext, Log!LogClear, Log!LogInit
<1>8. ASSUME NEW s \in Text, Enters(s)
      PROVE  Log!LogEnter
  <2>1. PICK oldest \in 1..(eventid + 2) :
          Nums(list') = {n \in Nums(list) \cup {eventid + 1} : n >= oldest}
    BY <1>8, EnterDropsOldest
  <2>2. ASSUME NEW n \in Nums(list') \ {eventid + 1}
        PROVE  new[n] = old[n]
    <3> DEFINE l == <<NewEvent(s)>> \o list
    <3>1. /\ l[1].num = eventid + 1
          /\ \A i \in 2..Len(l) : i - 1 \in 1..Len(list) /\ l[i] = list[i - 1]
          /\ \A i \in 1..Len(list') : i \in 1..Len(l) /\ list'[i] = l[i]
      BY <1>8, EnteredList
    <3> HIDE DEF l
    <3>2. PICK j \in 1..Len(list') : list'[j].num = n
      BY DEF Nums
    <3>3. j \in 2..Len(l)
      BY <2>2, <3>1, <3>2
    <3>4. list'[j] = list[j - 1] /\ j - 1 \in 1..Len(list)
      BY <3>1, <3>2, <3>3
    <3> QED
      BY <1>5, <3>2, <3>4
  <2>3. eventid' = eventid + 1
    BY <1>8 DEF Enters
  <2> QED
    BY <1>1, <1>2, <1>3, <2>1, <2>2, <2>3 DEF Log!LogEnter, Log!Unchanged
<1>9. ASSUME NEW i \in 1..Len(list), NEW s \in Text, Edited(i, s)
      PROVE  Log!LogEdit
  <2> DEFINE e == [list[i] EXCEPT !.str = s]
  <2>1. e \in Event /\ e.num = list[i].num
    <3>1. list[i] \in Event
      BY <1>4, ElementOfSeq
    <3> QED
      BY <3>1 DEF Event
  <2>2. list' = [list EXCEPT ![i] = e] /\ eventid' = eventid
    BY <1>9 DEF Edited, SetText
  <2> HIDE DEF e
  <2>3. /\ Len(list') = Len(list)
        /\ \A k \in 1..Len(list) : list'[k] = IF k = i THEN e ELSE list[k]
    BY <1>4, <2>1, <2>2, ExceptSeq
  <2>4. Nums(list') = Nums(list)
    <3>1. \A k \in 1..Len(list) : list'[k].num = list[k].num
      BY <2>1, <2>3
    <3> QED
      BY <2>3, <3>1 DEF Nums
  <2>5. ASSUME NEW m \in Nums(list) \ {list[i].num}
        PROVE  new[m] = old[m]
    <3>1. PICK k \in 1..Len(list) : list[k].num = m
      BY DEF Nums
    <3>2. list'[k] = list[k] /\ k \in 1..Len(list')
      BY <2>3, <2>5, <3>1
    <3> QED
      BY <1>5, <3>1, <3>2
  <2>6. list[i].num \in Nums(list)
    BY DEF Nums
  <2>7. \E n \in Nums(list) : \A m \in Nums(list) \ {n} : new[m] = old[m]
    BY <2>5, <2>6
  <2>8. DOMAIN new = DOMAIN old /\ \E n \in DOMAIN old : \A m \in DOMAIN old \ {n} : new[m] = old[m]
    BY <1>3, <2>4, <2>7
  <2> QED
    BY <1>1, <1>2, <2>2, <2>8 DEF Log!LogEdit, Log!Unchanged
<1>10. ASSUME NEW i \in 1..Len(list), Deleted(i)
       PROVE  Log!LogDelete
  <2> DEFINE n == list[i].num
  <2>1. /\ Len(list') = Len(list) - 1
        /\ \A j \in 1..(Len(list) - 1) :
             list'[j] = IF j < i THEN list[j] ELSE list[j + 1]
    BY <1>4, <1>10, UnlinkedList DEF Deleted
  <2>2. ASSUME NEW j \in 1..Len(list')
        PROVE  \E k \in 1..Len(list) : k # i /\ list'[j] = list[k]
    <3>1. j \in 1..Len(list) /\ j + 1 \in 1..Len(list) /\ j \in 1..(Len(list) - 1)
      BY <1>4, <2>1
    <3>2. CASE j < i
      BY <2>1, <3>1, <3>2
    <3>3. CASE ~(j < i)
      <4>1. list'[j] = list[j + 1] /\ j + 1 # i
        BY <2>1, <3>1, <3>3
      <4> QED
        BY <3>1, <4>1
    <3> QED
      BY <3>2, <3>3
  <2>3. ASSUME NEW k \in 1..Len(list), k # i
        PROVE  \E j \in 1..Len(list') : list'[j] = list[k]
    <3>1. CASE k < i
      <4>1. k \in 1..(Len(list) - 1)
        BY <1>4, <3>1
      <4> QED
        BY <2>1, <3>1, <4>1
    <3>2. CASE ~(k < i)
      <4>1. k - 1 \in 1..(Len(list) - 1) /\ ~(k - 1 < i) /\ (k - 1) + 1 = k
        BY <1>4, <2>3, <3>2
      <4> QED
        BY <2>1, <4>1
    <3> QED
      BY <3>1, <3>2
  <2>4. \A k \in 1..Len(list) : k # i => list[k].num # n
    BY <1>4, NumberGivesPlace
  <2> HIDE DEF n
  <2>5. Nums(list') = Nums(list) \ {n}
    <3>1. \A m \in Nums(list') : m \in Nums(list) \ {n}
      BY <2>2, <2>4 DEF Nums
    <3>2. ASSUME NEW m \in Nums(list) \ {n}
          PROVE  m \in Nums(list')
      <4>1. PICK k \in 1..Len(list) : list[k].num = m
        BY DEF Nums
      <4>2. k # i
        BY <3>2, <4>1 DEF n
      <4> QED
        BY <2>3, <4>1, <4>2 DEF Nums
    <3> QED
      BY <3>1, <3>2
  <2>6. \A m \in Nums(list') : new[m] = old[m]
    <3>1. SUFFICES ASSUME NEW m \in Nums(list') PROVE new[m] = old[m]
      OBVIOUS
    <3>2. PICK j \in 1..Len(list') : list'[j].num = m
      BY DEF Nums
    <3> QED
      BY <1>5, <2>2, <3>2
  <2>7. new = [m \in Nums(list) \ {n} |-> old[m]]
    <3>1. new = [m \in DOMAIN new |-> new[m]]
      BY DEF new, LogOf
    <3> QED
      BY <1>3, <2>5, <2>6, <3>1
  <2>8. n \in Nums(list) /\ eventid' = eventid
    BY <1>10 DEF Nums, Deleted, n
  <2> QED
    BY <1>1, <1>2, <1>3, <2>7, <2>8 DEF Log!LogDelete
<1> QED
  BY <1>6, <1>7, <1>8, <1>9, <1>10, ListSteps DEF Log!LogNext

\* The list implements the numbered log: an event keeps its number while it
\* lives, new ones are numbered upwards and only the oldest make room.
THEOREM ImplementsTheLog == Spec => ImplementsLog
<1>1. Init => Log!LogInit
  <2>1. Init => Live = {} /\ eventid = 0
    BY EmptySeq DEF Init, Live
  <2> QED
    BY <2>1 DEF Log!LogInit
<1>2. IInv /\ IInv' /\ [Next]_vars => [Log!LogNext]_(Log!logVars)
  <2>1. UNCHANGED vars => UNCHANGED Log!logVars
    BY DEF vars, Log!logVars, Live, At
  <2> QED
    BY <2>1, LogStep, Parts, PartsAfter
<1> QED
  BY <1>1, <1>2, Invariance, PTL DEF Spec, ImplementsLog, Log!LogSpec

-------------------------------------------------------------------------------
(* Half-way through H_LOAD.                                                *)

\* The texts at some places of the file, and what a list becomes by them; at
\* first it is as it was, and may be longer than max.
LinesAt(f, e) == [k \in 1..Len(e) |-> f[e[k]]]

Expected(m, f, e, base) ==
  LET all == LinesAt(f, e) \o base
  IN IF e = <<>> THEN base
     ELSE SubSeq(all, 1, IF Len(all) > m THEN m ELSE Len(all))

\* The places e are those of the first r lines that are not in bad, the last
\* one first.
Exactly(e, r, bad) ==
  /\ \A k \in 1..Len(e) : e[k] \in 1..r \ bad
  /\ \A i \in 1..r \ bad : \E k \in 1..Len(e) : e[k] = i
  /\ \A j, k \in 1..Len(e) : j < k => e[j] > e[k]

\* LoadedSoFar with what makes it inductive: the lines still to read are the
\* rest of the file, and only lines read were found to be undecodable.
LoadInv ==
  loading.busy =>
    /\ LineNo \in 1..(Len(file) + 1)
    /\ loading.todo = SubSeq(file, LineNo, Len(file))
    /\ loading.bad \subseteq 1..(LineNo - 1)
    /\ Exactly(loading.entered, LineNo - 1, loading.bad)
    /\ ~unique => Texts(list) = Expected(max, file, loading.entered, loading.base)

\* The texts of a list and of its newest events.
LEMMA TextsOfList ==
  ASSUME NEW l \in Seq(Event)
  PROVE  /\ Texts(l) \in Seq(Text) /\ Len(Texts(l)) = Len(l) /\ Len(l) \in Nat
         /\ \A i \in 1..Len(l) : Texts(l)[i] = l[i].str
<1>1. Len(l) \in Nat /\ Texts(l) \in Seq(Text)
  BY TextsOK, LenProperties
<1>2. DOMAIN Texts(l) = 1..Len(l) /\ DOMAIN Texts(l) = 1..Len(Texts(l)) /\ Len(Texts(l)) \in Nat
  BY <1>1, LenProperties DEF Texts
<1>3. Len(Texts(l)) = Len(l)
  BY <1>1, <1>2
<1> QED
  BY <1>1, <1>3 DEF Texts

\* The newest k of some texts.
LEMMA PrefixTexts ==
  ASSUME NEW t \in Seq(Text), NEW k \in 0..Len(t)
  PROVE  /\ SubSeq(t, 1, k) \in Seq(Text) /\ Len(SubSeq(t, 1, k)) = k
         /\ \A i \in 1..k : SubSeq(t, 1, k)[i] = t[i]
<1>1. Len(t) \in Nat /\ \A i \in 1..k : t[i] \in Text
  BY LenProperties, ElementOfSeq
<1>2. \A i \in 1..(k - 1 + 1) : SubSeq(t, 1, k)[i] = t[1 + i - 1]
  BY <1>1, SubSeqProperties
<1> QED
  BY <1>1, <1>2, SubSeqProperties

LEMMA ConsTexts ==
  ASSUME NEW t \in Seq(Text), NEW s \in Text
  PROVE  /\ <<s>> \o t \in Seq(Text) /\ Len(<<s>> \o t) = Len(t) + 1 /\ Len(t) \in Nat
         /\ (<<s>> \o t)[1] = s
         /\ \A i \in 2..(Len(t) + 1) : (<<s>> \o t)[i] = t[i - 1]
<1>1. <<s>> \in Seq(Text) /\ Len(<<s>>) = 1 /\ <<s>>[1] = s
  OBVIOUS
<1>2. Len(t) \in Nat
  BY LenProperties
<1>3. \A i \in 1..(1 + Len(t)) : (<<s>> \o t)[i] = IF i <= 1 THEN <<s>>[i] ELSE t[i - 1]
  BY <1>1, ConcatProperties
<1> QED
  BY <1>1, <1>2, <1>3, ConcatProperties

LEMMA ReversedTexts ==
  ASSUME NEW t \in Seq(Text)
  PROVE  /\ Reverse(t) \in Seq(Text) /\ Len(Reverse(t)) = Len(t) /\ Len(t) \in Nat
         /\ \A i \in 1..Len(t) : Reverse(t)[i] = t[Len(t) - i + 1]
<1>1. Len(t) \in Nat /\ \A i \in 1..Len(t) : t[i] \in Text
  BY LenProperties, ElementOfSeq
<1>2. Reverse(t) \in [1..Len(t) -> Text]
  BY <1>1 DEF Reverse
<1>3. Reverse(t) \in Seq(Text)
  BY <1>1, <1>2, SeqDef
<1>4. DOMAIN Reverse(t) = 1..Len(t) /\ DOMAIN Reverse(t) = 1..Len(Reverse(t)) /\ Len(Reverse(t)) \in Nat
  BY <1>2, <1>3, LenProperties
<1>5. Len(Reverse(t)) = Len(t)
  BY <1>1, <1>4
<1> QED
  BY <1>1, <1>3, <1>5 DEF Reverse

\* Entering puts the text in front of the others and cuts to the size.
LEMMA EnteredTexts ==
  ASSUME ListInv, RestOK, NEW s \in Text, Enters(s)
  PROVE  LET t == <<s>> \o Texts(list) IN Texts(list') = SubSeq(t, 1, Kept(Len(t)))
<1> DEFINE l == <<NewEvent(s)>> \o list
           t == <<s>> \o Texts(list)
           r == SubSeq(t, 1, Kept(Len(t)))
<1>1. /\ l \in Seq(Event) /\ Len(l) = Len(list) + 1 /\ Len(list) \in Nat
      /\ \A i \in 2..Len(l) : i - 1 \in 1..Len(list) /\ l[i] = list[i - 1]
      /\ list' \in Seq(Event) /\ Len(list') = Kept(Len(l)) /\ Kept(Len(l)) \in 0..Len(l)
      /\ \A i \in 1..Len(list') : i \in 1..Len(l) /\ list'[i] = l[i]
  BY EnteredList
<1>2. l[1].str = s
  <2>1. NewEvent(s) \in Event /\ NewEvent(s).str = s
    BY DEF ListInv, NewEvent, Event
  <2> QED
    BY <2>1, ConsList DEF ListInv
<1>3. /\ Texts(list) \in Seq(Text) /\ Len(Texts(list)) = Len(list)
      /\ \A i \in 1..Len(list) : Texts(list)[i] = list[i].str
  BY TextsOfList DEF ListInv
<1>4. /\ t \in Seq(Text) /\ Len(t) = Len(list) + 1 /\ t[1] = s
      /\ \A i \in 2..(Len(list) + 1) : t[i] = Texts(list)[i - 1]
  BY <1>3, ConsTexts
<1> HIDE DEF l, t
<1>5. Len(t) = Len(l)
  BY <1>1, <1>4
<1>6. \A i \in 1..Len(l) : t[i] = l[i].str
  <2>1. SUFFICES ASSUME NEW i \in 1..Len(l) PROVE t[i] = l[i].str
    OBVIOUS
  <2>2. i = 1 \/ i \in 2..Len(l)
    BY <1>1
  <2> QED
    BY <1>1, <1>2, <1>3, <1>4, <2>2
<1>7. r \in Seq(Text) /\ Len(r) = Kept(Len(l)) /\ \A i \in 1..Kept(Len(l)) : r[i] = t[i]
  BY <1>1, <1>4, <1>5, PrefixTexts
<1>8. /\ Texts(list') \in Seq(Text) /\ Len(Texts(list')) = Len(list')
      /\ \A i \in 1..Len(list') : Texts(list')[i] = list'[i].str
  BY <1>1, TextsOfList
<1> HIDE DEF r
<1>9. Texts(list') = r
  <2>1. \A i \in 1..Len(r) : Texts(list')[i] = r[i]
    BY <1>1, <1>6, <1>7, <1>8
  <2> QED
    BY <1>1, <1>7, <1>8, <2>1, SeqEqual
<1> QED
  BY <1>9 DEF r, t

\* Cutting before a text is put in front changes nothing, since the list is
\* cut after it as well.
LEMMA CutOnce ==
  ASSUME max \in Nat, NEW s \in Text, NEW all \in Seq(Text)
  PROVE  LET t == <<s>> \o SubSeq(all, 1, Kept(Len(all)))
             a == <<s>> \o all
         IN SubSeq(t, 1, Kept(Len(t))) = SubSeq(a, 1, Kept(Len(a)))
<1> DEFINE n == Len(all)
           k == Kept(n)
           c == SubSeq(all, 1, k)
           t == <<s>> \o c
           a == <<s>> \o all
           m == Kept(Len(t))
           u == SubSeq(t, 1, m)
           v == SubSeq(a, 1, m)
<1>1. n \in Nat /\ k \in 0..n /\ k = IF n > max THEN max ELSE n
  BY LenProperties DEF Kept
<1>2. c \in Seq(Text) /\ Len(c) = k /\ \A i \in 1..k : c[i] = all[i]
  BY <1>1, PrefixTexts
<1> HIDE DEF n, k, c
<1>3. /\ t \in Seq(Text) /\ Len(t) = k + 1 /\ t[1] = s
      /\ \A i \in 2..(k + 1) : t[i] = c[i - 1]
  BY <1>2, ConsTexts
<1>4. /\ a \in Seq(Text) /\ Len(a) = n + 1 /\ a[1] = s
      /\ \A i \in 2..(n + 1) : a[i] = all[i - 1]
  BY ConsTexts DEF n
<1> HIDE DEF t, a
<1>5. Kept(Len(a)) = m /\ m \in 0..(k + 1) /\ m \in 0..(n + 1)
  BY <1>1, <1>3, <1>4 DEF Kept
<1> HIDE DEF m
<1>6. u \in Seq(Text) /\ Len(u) = m /\ \A i \in 1..m : u[i] = t[i]
  BY <1>3, <1>5, PrefixTexts
<1>7. v \in Seq(Text) /\ Len(v) = m /\ \A i \in 1..m : v[i] = a[i]
  BY <1>4, <1>5, PrefixTexts
<1> HIDE DEF u, v
<1>8. ASSUME NEW i \in 1..m
      PROVE  u[i] = v[i]
  <2>1. CASE i = 1
    BY <1>3, <1>4, <1>6, <1>7, <2>1
  <2>2. CASE i # 1
    <3>1. i \in 2..(k + 1) /\ i \in 2..(n + 1) /\ i - 1 \in 1..k
      BY <1>1, <1>5, <2>2
    <3>2. u[i] = c[i - 1]
      BY <1>3, <1>6, <3>1
    <3>3. v[i] = all[i - 1]
      BY <1>4, <1>7, <3>1
    <3> QED
      BY <1>2, <3>1, <3>2, <3>3
  <2> QED
    BY <2>1, <2>2
<1>9. u = v
  BY <1>6, <1>7, <1>8, SeqEqual
<1> QED
  BY <1>5, <1>9 DEF u, v, t, a, c, k, n, m

\* A place in front of the others.
LEMMA ConsPlaces ==
  ASSUME NEW e \in Seq(Int), NEW i \in Int
  PROVE  /\ <<i>> \o e \in Seq(Int) /\ Len(<<i>> \o e) = Len(e) + 1 /\ Len(e) \in Nat
         /\ (<<i>> \o e)[1] = i
         /\ \A k \in 2..(Len(e) + 1) : (<<i>> \o e)[k] = e[k - 1]
<1>1. <<i>> \in Seq(Int) /\ Len(<<i>>) = 1 /\ <<i>>[1] = i
  OBVIOUS
<1>2. Len(e) \in Nat
  BY LenProperties
<1>3. \A k \in 1..(1 + Len(e)) : (<<i>> \o e)[k] = IF k <= 1 THEN <<i>>[k] ELSE e[k - 1]
  BY <1>1, ConcatProperties
<1> QED
  BY <1>1, <1>2, <1>3, ConcatProperties

\* A line that is passed over is none of those entered.
LEMMA PassedOver ==
  ASSUME NEW e \in Seq(Int), NEW r \in Nat, NEW bad, Exactly(e, r, bad)
  PROVE  Exactly(e, r + 1, bad \cup {r + 1})
<1>1. 1..(r + 1) \ (bad \cup {r + 1}) = 1..r \ bad
  <2>1. 1..(r + 1) = 1..r \cup {r + 1}
    OBVIOUS
  <2>2. r + 1 \notin 1..r
    OBVIOUS
  <2> QED
    BY <2>1, <2>2
<1> QED
  BY <1>1 DEF Exactly

\* A line that is entered comes in front of those entered before it.
LEMMA EnteredNext ==
  ASSUME NEW e \in Seq(Int), NEW r \in Nat, NEW bad, Exactly(e, r, bad), bad \subseteq 1..r
  PROVE  Exactly(<<r + 1>> \o e, r + 1, bad)
<1> DEFINE c == <<r + 1>> \o e
           n == Len(e)
<1>1. /\ n \in Nat /\ Len(c) = n + 1 /\ c[1] = r + 1
      /\ \A k \in 2..(n + 1) : c[k] = e[k - 1]
  BY ConsPlaces, r + 1 \in Int
<1>2. 1..(r + 1) \ bad = (1..r \ bad) \cup {r + 1}
  <2>1. 1..(r + 1) = 1..r \cup {r + 1} /\ r + 1 \notin 1..r
    OBVIOUS
  <2> QED
    BY <2>1
<1> HIDE DEF c
<1>3. \A k \in 1..n : e[k] \in 1..r \ bad /\ e[k] < r + 1
  BY DEF Exactly
<1>4. \A j, k \in 1..n : j < k => e[j] > e[k]
  BY DEF Exactly
<1>5. \A k \in 1..(n + 1) : k = 1 \/ (k \in 2..(n + 1) /\ k - 1 \in 1..n)
  BY <1>1
<1> HIDE DEF n
<1>6. \A k \in 1..Len(c) : c[k] \in 1..(r + 1) \ bad
  BY <1>1, <1>2, <1>3, <1>5
<1>7. ASSUME NEW i \in 1..(r + 1) \ bad
      PROVE  \E k \in 1..Len(c) : c[k] = i
  <2>1. CASE i = r + 1
    <3>1. 1 \in 1..Len(c)
      BY <1>1
    <3> QED
      BY <1>1, <2>1, <3>1
  <2>2. CASE i \in 1..r \ bad
    <3>1. PICK k \in 1..n : e[k] = i
      BY <2>2 DEF Exactly, n
    <3>2. k + 1 \in 2..(n + 1) /\ k + 1 \in 1..(n + 1) /\ (k + 1) - 1 = k
      BY <1>1
    <3> QED
      BY <1>1, <3>1, <3>2
  <2> QED
    BY <1>2, <2>1, <2>2
<1>8. ASSUME NEW j \in 1..Len(c), NEW k \in 1..Len(c), j < k
      PROVE  c[j] > c[k]
  <2>1. k \in 2..(n + 1) /\ k - 1 \in 1..n /\ c[k] = e[k - 1]
    BY <1>1, <1>8
  <2>2. CASE j = 1
    BY <1>1, <1>3, <2>1, <2>2
  <2>3. CASE j # 1
    <3>1. j \in 2..(n + 1) /\ j - 1 \in 1..n /\ c[j] = e[j - 1] /\ j - 1 < k - 1
      BY <1>1, <1>8, <2>3
    <3> QED
      BY <1>4, <2>1, <3>1
  <2> QED
    BY <2>2, <2>3
<1> QED
  BY <1>6, <1>7, <1>8 DEF Exactly, c

\* The texts at places of the file, and at one place more.
LEMMA LinesOK ==
  ASSUME NEW f \in Seq(Text), NEW e \in Seq(Int), \A k \in 1..Len(e) : e[k] \in 1..Len(f)
  PROVE  /\ LinesAt(f, e) \in Seq(Text) /\ Len(LinesAt(f, e)) = Len(e)
         /\ \A k \in 1..Len(e) : LinesAt(f, e)[k] = f[e[k]]
<1>1. Len(e) \in Nat /\ \A i \in 1..Len(f) : f[i] \in Text
  BY LenProperties, ElementOfSeq
<1>2. LinesAt(f, e) \in [1..Len(e) -> Text]
  BY <1>1 DEF LinesAt
<1>3. LinesAt(f, e) \in Seq(Text)
  <2> DEFINE a == LinesAt(f, e)
             n == Len(e)
  <2>1. n \in Nat /\ a \in [1..n -> Text]
    BY <1>1, <1>2
  <2> HIDE DEF a, n
  <2>2. a \in Seq(Text)
    BY <2>1, SeqDef
  <2> QED
    BY <2>2 DEF a
<1>4. /\ DOMAIN LinesAt(f, e) = 1..Len(e) /\ Len(LinesAt(f, e)) \in Nat
      /\ DOMAIN LinesAt(f, e) = 1..Len(LinesAt(f, e))
  BY <1>2, <1>3, LenProperties
<1>5. Len(LinesAt(f, e)) = Len(e)
  BY <1>1, <1>4
<1> QED
  BY <1>3, <1>5 DEF LinesAt

LEMMA LineInFront ==
  ASSUME NEW f \in Seq(Text), NEW e \in Seq(Int), \A k \in 1..Len(e) : e[k] \in 1..Len(f),
         NEW i \in 1..Len(f)
  PROVE  LinesAt(f, <<i>> \o e) = <<f[i]>> \o LinesAt(f, e)
<1> DEFINE c == <<i>> \o e
           n == Len(e)
           a == LinesAt(f, c)
           g == LinesAt(f, e)
           b == <<f[i]>> \o g
<1>1. /\ n \in Nat /\ c \in Seq(Int) /\ Len(c) = n + 1 /\ c[1] = i
      /\ \A k \in 2..(n + 1) : c[k] = e[k - 1]
  BY ConsPlaces
<1>2. g \in Seq(Text) /\ Len(g) = n /\ \A k \in 1..n : g[k] = f[e[k]]
  BY LinesOK
<1>3. f[i] \in Text
  BY ElementOfSeq
<1> HIDE DEF g
<1>4. /\ b \in Seq(Text) /\ Len(b) = n + 1 /\ b[1] = f[i]
      /\ \A k \in 2..(n + 1) : b[k] = g[k - 1]
  BY <1>2, <1>3, ConsTexts
<1> HIDE DEF b, c
<1>5. \A k \in 1..(n + 1) : k = 1 \/ (k \in 2..(n + 1) /\ k - 1 \in 1..n)
  BY <1>1
<1>6. \A k \in 1..Len(c) : c[k] \in 1..Len(f)
  BY <1>1, <1>5
<1>7. a \in Seq(Text) /\ Len(a) = n + 1 /\ \A k \in 1..(n + 1) : a[k] = f[c[k]]
  BY <1>1, <1>6, LinesOK
<1> HIDE DEF a, n
<1>8. ASSUME NEW k \in 1..(n + 1)
      PROVE  a[k] = b[k]
  <2>1. CASE k = 1
    BY <1>1, <1>4, <1>7, <2>1
  <2>2. CASE k \in 2..(n + 1) /\ k - 1 \in 1..n
    <3>1. b[k] = g[k - 1] /\ a[k] = f[c[k]] /\ c[k] = e[k - 1]
      BY <1>1, <1>4, <1>7, <2>2
    <3>2. g[k - 1] = f[e[k - 1]]
      BY <1>2, <2>2
    <3> QED
      BY <3>1, <3>2
  <2> QED
    BY <1>5, <2>1, <2>2
<1>9. a = b
  BY <1>4, <1>7, <1>8, SeqEqual
<1> QED
  BY <1>9 DEF a, b, c, g

\* What entering one line more makes of the list.
LEMMA ExpectedNext ==
  ASSUME max \in Nat, NEW f \in Seq(Text), NEW base \in Seq(Text), NEW e \in Seq(Int),
         \A k \in 1..Len(e) : e[k] \in 1..Len(f), NEW i \in 1..Len(f)
  PROVE  LET t == <<f[i]>> \o Expected(max, f, e, base)
         IN Expected(max, f, <<i>> \o e, base) = SubSeq(t, 1, Kept(Len(t)))
<1> DEFINE g == LinesAt(f, e)
           s == f[i]
           all == g \o base
           a == <<s>> \o all
<1>1. g \in Seq(Text) /\ Len(g) = Len(e) /\ s \in Text /\ LinesAt(f, <<i>> \o e) = <<s>> \o g
  BY LinesOK, LineInFront, ElementOfSeq
<1>2. <<i>> \o e # <<>>
  BY ConsPlaces, EmptySeq, LenProperties, i \in Int
<1> HIDE DEF g, s
<1>3. all \in Seq(Text) /\ (<<s>> \o g) \o base = a
  <2>1. <<s>> \in Seq(Text)
    BY <1>1
  <2>2. all \in Seq(Text)
    BY <1>1, ConcatProperties
  <2>3. g \in Seq(Text) /\ base \in Seq(Text)
    BY <1>1
  <2>4. (<<s>> \o g) \o base = <<s>> \o (g \o base)
    BY <2>1, <2>3, ConcatAssociative
  <2> QED
    BY <2>2, <2>4
<1>4. Expected(max, f, <<i>> \o e, base) = SubSeq(a, 1, Kept(Len(a)))
  BY <1>1, <1>2, <1>3 DEF Expected, Kept
<1>5. CASE e = <<>>
  <2>1. g = <<>>
    BY <1>1, <1>5, EmptySeq
  <2>2. all = base
    BY <2>1, ConcatEmptySeq
  <2>3. Expected(max, f, e, base) = base
    BY <1>5 DEF Expected
  <2> HIDE DEF all
  <2> QED
    BY <1>4, <2>2, <2>3 DEF s
<1>6. CASE e # <<>>
  <2> DEFINE c == SubSeq(all, 1, Kept(Len(all)))
  <2>1. Expected(max, f, e, base) = c
    <3>1. Expected(max, f, e, base) = LET b == LinesAt(f, e) \o base
                                      IN SubSeq(b, 1, Kept(Len(b)))
      BY <1>6, Zenon DEF Expected, Kept
    <3> QED
      BY <3>1 DEF g
  <2> HIDE DEF all
  <2>2. LET t == <<s>> \o c IN SubSeq(t, 1, Kept(Len(t))) = SubSeq(a, 1, Kept(Len(a)))
    BY <1>1, <1>3, CutOnce
  <2> HIDE DEF c
  <2> QED
    BY <1>4, <2>1, <2>2 DEF s
<1> QED
  BY <1>5, <1>6

\* The line read next is at the place LineNo, and the rest of the file stays.
LEMMA NextLine ==
  ASSUME RestOK, LoadInv, LoadLine
  PROVE  /\ LineNo \in 1..Len(file) /\ Len(file) \in Nat
         /\ Head(loading.todo) = file[LineNo] /\ file[LineNo] \in Text
         /\ LineNo' = LineNo + 1
         /\ loading'.todo = SubSeq(file, LineNo + 1, Len(file))
<1> DEFINE n == Len(file)
           p == Len(loading.todo)
           q == Len(Tail(loading.todo))
           k == LineNo
<1>1. /\ file \in Seq(Text) /\ n \in Nat /\ loading.todo \in Seq(Text) /\ loading.todo # <<>>
      /\ k \in 1..(n + 1) /\ loading.todo = SubSeq(file, k, n) /\ k = n - p + 1
      /\ loading \in LoadSet /\ loading'.todo = Tail(loading.todo) /\ file' = file
  <2>1. loading \in LoadSet /\ file \in Seq(Text) /\ loading.busy
    BY DEF RestOK, LoadLine
  <2>2. loading'.todo = Tail(loading.todo) /\ file' = file /\ loading.todo # <<>>
    BY <2>1 DEF LoadLine, LoadSet
  <2> QED
    BY <2>1, <2>2, LenProperties DEF LoadInv, LoadSet, LineNo
<1>2. p \in Nat /\ p > 0 /\ q = p - 1
  <2>1. \A t \in Seq(Text) : t # <<>> => Len(t) \in Nat \ {0}
    BY EmptySeq, LenProperties
  <2>2. p \in Nat \ {0}
    BY <1>1, <2>1
  <2>3. q = p - 1
    BY <1>1, HeadTailProperties
  <2> QED
    BY <2>2, <2>3
<1>3. LineNo' = n - q + 1
  BY <1>1 DEF LineNo
<1> HIDE DEF n, p, q, k
<1>4. k \in 1..n /\ n \in k..n /\ LineNo' = k + 1
  BY <1>1, <1>2, <1>3
<1>5. Head(SubSeq(file, k, n)) = file[k] /\ Tail(SubSeq(file, k, n)) = SubSeq(file, k + 1, n)
  BY <1>1, <1>4, HeadTailOfSubSeq DEF n
<1>6. file[k] \in Text
  BY <1>1, <1>4, ElementOfSeq DEF n
<1> QED
  BY <1>1, <1>4, <1>5, <1>6 DEF n, k

LEMMA ReadingStep ==
  ASSUME ListInv, RestOK, LoadInv, LoadLine
  PROVE  LoadInv'
<1> DEFINE r == LineNo - 1
           e == loading.entered
           base == loading.base
           bad == loading.bad
           s == file[LineNo]
<1>1. /\ r \in Nat /\ r + 1 = LineNo /\ LineNo \in 1..Len(file) /\ Len(file) \in Nat
      /\ Head(loading.todo) = s /\ s \in Text
      /\ LineNo' = r + 2 /\ (r + 2) - 1 = r + 1
      /\ loading'.todo = SubSeq(file, r + 2, Len(file))
  <2>1. /\ LineNo \in 1..Len(file) /\ Len(file) \in Nat
        /\ Head(loading.todo) = s /\ s \in Text
        /\ LineNo' = LineNo + 1
        /\ loading'.todo = SubSeq(file, LineNo + 1, Len(file))
    BY NextLine
  <2>2. r \in Nat /\ r + 1 = LineNo /\ LineNo + 1 = r + 2 /\ (r + 2) - 1 = r + 1
    BY <2>1
  <2> QED
    BY <2>1, <2>2
<1>2. /\ e \in Seq(Int) /\ base \in Seq(Text) /\ file \in Seq(Text) /\ max \in Nat
      /\ bad \subseteq 1..r /\ Exactly(e, r, bad)
      /\ ~unique => Texts(list) = Expected(max, file, e, base)
  BY DEF RestOK, LoadSet, LoadInv, LoadLine
<1>3. loading \in LoadSet /\ file' = file /\ max' = max /\ unique' = unique
  BY DEF RestOK, LoadLine, optVars
<1>4. \A k \in 1..Len(e) : e[k] \in 1..Len(file)
  BY <1>1, <1>2 DEF Exactly
<1>5. r + 2 \in 1..(Len(file) + 1) /\ 1..r \subseteq 1..(r + 1) /\ r + 1 \in 1..(r + 1)
  BY <1>1
<1> HIDE DEF r, s
<1>6. CASE /\ loading' = [loading EXCEPT !.todo = Tail(loading.todo), !.bad = @ \cup {LineNo}]
           /\ UNCHANGED defVars
  <2>1. /\ loading'.bad = bad \cup {r + 1} /\ loading'.entered = e /\ loading'.base = base
        /\ list' = list
    BY <1>1, <1>3, <1>6 DEF LoadSet, defVars
  <2>2. Exactly(e, r + 1, bad \cup {r + 1})
    BY <1>1, <1>2, PassedOver
  <2>3. ~unique' => Texts(list') = Expected(max', file', loading'.entered, loading'.base)
    BY <1>2, <1>3, <2>1
  <2> HIDE DEF bad, e, base
  <2>4. bad \cup {r + 1} \subseteq 1..(r + 1)
    BY <1>2, <1>5
  <2> QED
    BY <1>1, <1>3, <1>5, <2>1, <2>2, <2>3, <2>4 DEF LoadInv
<1>7. CASE /\ DefEnter(Head(loading.todo))
           /\ loading' = [loading EXCEPT !.todo = Tail(loading.todo), !.entered = <<LineNo>> \o @]
  <2> DEFINE c == <<r + 1>> \o e
  <2>1. loading'.bad = bad /\ loading'.entered = c /\ loading'.base = base
    BY <1>1, <1>3, <1>7 DEF LoadSet
  <2>2. Exactly(c, r + 1, bad)
    BY <1>1, <1>2, EnteredNext
  <2>3. ASSUME ~unique
        PROVE  Texts(list') = Expected(max, file, c, base)
    <3>1. Texts(list') = SubSeq(<<s>> \o Texts(list), 1, Kept(Len(<<s>> \o Texts(list))))
      <4>1. Enters(s)
        BY <1>1, <1>7, <2>3 DEF DefEnter, Ignored, Enters
      <4> QED
        BY <1>1, <4>1, EnteredTexts
    <3>2. Texts(list) = Expected(max, file, e, base)
      BY <1>2, <2>3
    <3>3. LET t == <<s>> \o Expected(max, file, e, base)
          IN Expected(max, file, c, base) = SubSeq(t, 1, Kept(Len(t)))
      BY <1>1, <1>2, <1>4, ExpectedNext DEF s
    <3> QED
      BY <3>1, <3>2, <3>3
  <2> HIDE DEF c
  <2>4. ~unique' => Texts(list') = Expected(max', file', loading'.entered, loading'.base)
    BY <1>3, <2>1, <2>3
  <2> HIDE DEF bad, e, base
  <2>5. bad \subseteq 1..(r + 1)
    BY <1>2, <1>5
  <2> QED
    BY <1>1, <1>3, <1>5, <2>1, <2>2, <2>4, <2>5 DEF LoadInv
<1> QED
  BY <1>6, <1>7 DEF LoadLine

\* No other call is made while H_LOAD is under way.
LEMMA LoadStep ==
  ASSUME ListInv, RestOK, LoadInv, Next
  PROVE  LoadInv'
<1>1. CASE loading.busy
  <2>1. LoadLine \/ LoadEnd
    BY <1>1 DEF Next, Ready, Enter, Add, AppendEntered, Replace, Del, DelData,
       MoveTo, First, LastEvent, NextEvent, PrevEvent, SetEvent, SearchNumber,
       SearchText, Walk, WalkOlder, WalkNewer, Clear, SetSize, SetUnique, Save,
       SaveLast, SaveFails, LoadBegin, SetFunctions, SetFunctionsFails, EndAndInit
  <2>2. LoadEnd => LoadInv'
    BY DEF LoadEnd, Idle, LoadInv
  <2> QED
    BY <2>1, <2>2, ReadingStep
<1>2. CASE ~loading.busy
  <2>1. loading' = loading \/ LoadBegin \/ LoadEnd \/ LoadLine
    BY DEF Next, Enter, Add, AppendEntered, Replace, Del, DelData, MoveTo, First,
       LastEvent, NextEvent, PrevEvent, SetEvent, SearchNumber, SearchText, Walk,
       WalkOlder, WalkNewer, Clear, SetSize, SetUnique, Save, SaveLast, SaveWalk,
       SaveFails, SetFunctions, SetFunctionsFails, EndAndInit
  <2>2. CASE LoadBegin
    <3>1. /\ loading'.todo = file /\ loading'.base = Texts(list)
          /\ loading'.bad = {} /\ loading'.entered = <<>>
          /\ file' = file /\ list' = list
      BY <2>2 DEF LoadBegin, defVars, Idle
    <3>2. file \in Seq(Text) /\ Len(file) \in Nat
      BY LenProperties DEF RestOK
    <3>3. LineNo' = 1 /\ 1 \in 1..(Len(file) + 1) /\ 1 - 1 = 0
      BY <3>1, <3>2 DEF LineNo
    <3>4. SubSeq(file, 1, Len(file)) = file
      BY <3>2, SubSeqFull
    <3>5. Exactly(<<>>, 0, {})
      BY EmptySeq DEF Exactly
    <3>6. Texts(list') = Expected(max', file', loading'.entered, loading'.base)
      BY <3>1 DEF Expected
    <3> QED
      BY <3>1, <3>3, <3>4, <3>5, <3>6 DEF LoadInv
  <2> QED
    BY <1>2, <2>1, <2>2 DEF LoadInv, LoadEnd, LoadLine
<1> QED
  BY <1>1, <1>2

\* Half-way through H_LOAD, wherever it may fail, the list holds the lines
\* read so far that could be decoded, in front of what it held before and cut
\* to its size.
THEOREM LoadsInOrder == Spec => []LoadedSoFar
<1>1. Init => LoadInv
  BY DEF Init, Idle, LoadInv
<1>2. IInv /\ LoadInv /\ [Next]_vars => LoadInv'
  <2>1. ASSUME LoadInv, UNCHANGED vars
        PROVE  LoadInv'
    <3>1. loading' = loading /\ file' = file /\ list' = list /\ unique' = unique /\ max' = max
      BY <2>1 DEF vars
    <3>2. LineNo' = LineNo
      BY <3>1 DEF LineNo
    <3> QED
      BY <2>1, <3>1, <3>2 DEF LoadInv
  <2> QED
    BY <2>1, Parts, LoadStep
<1>3. LoadInv => LoadedSoFar
  BY DEF LoadInv, LoadedSoFar, Exactly, Expected, LinesAt, Kept
<1> QED
  BY <1>1, <1>2, <1>3, Invariance, PTL DEF Spec

-------------------------------------------------------------------------------
(* The readline functions.                                                 *)

CountOK == history_length \in Nat /\ history_offset \in Int /\ history_base \in Int

RlInv == ListInv /\ RestOK /\ CountOK

LEMMA LeastNumber ==
  ASSUME NEW S, S \subseteq Nat, S # {}
  PROVE  \E e \in S : \A f \in S : e <= f
<1> DEFINE R == OpToRel(<, Nat)
<1>1. IsWellFoundedOn(R, Nat)
  BY NatLessThanWellFounded
<1>2. \A e, f \in Nat : <<e, f>> \in R <=> e < f
  BY DEF OpToRel
<1> HIDE DEF R
<1>3. PICK e \in S : \A f \in S : ~(<<f, e>> \in R)
  BY <1>1, WFMin
<1>4. ASSUME NEW f \in S PROVE e <= f
  <2>1. e \in Nat /\ f \in Nat
    OBVIOUS
  <2>2. ~(f < e)
    BY <1>2, <1>3, <2>1
  <2> QED
    BY <2>1, <2>2
<1> QED
  BY <1>4

LEMMA MinIsLeast ==
  ASSUME NEW S, S \subseteq Nat, S # {}
  PROVE  Min(S) \in S
BY LeastNumber DEF Min

\* Of numbers up to n the greatest is the one that is least below n.
LEMMA MaxIsGreatest ==
  ASSUME NEW n \in Nat, NEW S, S \subseteq 0..n, S # {}
  PROVE  Max(S) \in S
<1> DEFINE below == {n - e : e \in S}
<1>1. \A e \in S : e \in Nat /\ n - e \in Nat
  OBVIOUS
<1>2. below \subseteq Nat /\ below # {}
  BY <1>1
<1>3. PICK b \in below : \A f \in below : b <= f
  <2> HIDE DEF below
  <2> QED
    BY <1>2, LeastNumber
<1>4. PICK e \in S : b = n - e
  OBVIOUS
<1>5. ASSUME NEW f \in S PROVE e >= f
  <2>1. n - e <= n - f
    BY <1>3, <1>4
  <2>2. e \in Nat /\ f \in Nat
    OBVIOUS
  <2> QED
    BY <2>1, <2>2
<1> QED
  BY <1>5 DEF Max

\* A walk stops at an event or at the header.
LEMMA HitsLive ==
  ASSUME ListInv, NEW found, found \subseteq ToSet(list)
  PROVE  /\ \A c : NewerHit(c, found) \in Live \cup {0}
         /\ \A c \in Nat : OlderHit(c, found) \in Live \cup {0}
<1>1. /\ Len(list) \in Nat /\ DOMAIN list = 1..Len(list)
      /\ \A i \in 1..Len(list) : list[i] \in Event
  BY LenProperties, ElementOfSeq DEF ListInv
<1>2. \A e \in found : e.num \in Live /\ e.num \in Nat
  BY <1>1 DEF ToSet, Live, Event
<1>3. ASSUME NEW c PROVE NewerHit(c, found) \in Live \cup {0}
  <2> DEFINE hits == {e.num : e \in {f \in found : f.num >= c}}
  <2>1. hits \subseteq Nat /\ hits \subseteq Live
    BY <1>2
  <2>2. NewerHit(c, found) = IF hits = {} THEN 0 ELSE Min(hits)
    BY DEF NewerHit
  <2> HIDE DEF hits
  <2> QED
    BY <2>1, <2>2, MinIsLeast
<1>4. ASSUME NEW c \in Nat PROVE OlderHit(c, found) \in Live \cup {0}
  <2> DEFINE hits == {0} \cup {e.num : e \in {f \in found : f.num <= c}}
  <2>1. hits \subseteq 0..c /\ hits \subseteq Live \cup {0} /\ hits # {}
    BY <1>2
  <2>2. OlderHit(c, found) = Max(hits)
    BY DEF OlderHit
  <2> HIDE DEF hits
  <2> QED
    BY <2>1, <2>2, MaxIsGreatest
<1> QED
  BY <1>3, <1>4

\* Where history_def_set and a walk may leave the cursor.
LEMMA StopsLive ==
  ASSUME ListInv
  PROVE  /\ \A n : DefSet(n) \in Live \cup {0}
         /\ \A n : AtPlace(n) \in Live \cup {0} \/ n \notin Int
         /\ cursor \in Live \cup {0}
         /\ cursor # 0 => DefSet(cursor) = cursor
<1>1. cursor \in Live \cup {0}
  BY DEF ListInv, CursorLive
<1>2. \A n : DefSet(n) \in Live \cup {0}
  BY <1>1 DEF DefSet
<1>3. cursor # 0 => DefSet(cursor) = cursor
  BY <1>1 DEF DefSet
<1>4. ASSUME NEW n \in Int PROVE AtPlace(n) \in Live \cup {0}
  <2>1. Len(list) \in Nat
    BY LenProperties DEF ListInv
  <2>2. Nth(n) \in Int /\ Nth(n) <= Len(list)
    BY <2>1 DEF Nth
  <2>3. Nth(n) >= 1 => Nth(n) \in 1..Len(list)
    BY <2>1, <2>2
  <2> QED
    BY <1>1, <2>2, <2>3 DEF AtPlace, Live
<1> QED
  BY <1>1, <1>2, <1>3, <1>4

\* What H_DELDATA leaves, from any place.
LEMMA DelDataKeeps ==
  ASSUME ListInv, NEW n \in Int, DelData(n, FALSE)
  PROVE  ListInv'
<1>1. Len(list) \in Nat
  BY LenProperties DEF ListInv
<1>2. Nth(n) \in Int /\ Nth(n) <= Len(list)
  BY <1>1 DEF Nth
<1>3. eventid' = eventid
  BY DEF DelData
<1>4. CASE list = <<>> \/ Nth(n) < 1
  <2>1. list' = list /\ (cursor' = cursor \/ cursor' = 0)
    BY <1>4 DEF DelData
  <2> QED
    BY <1>3, <2>1, MovesKeep DEF ListInv, CursorLive
<1>5. CASE list # <<>> /\ ~(Nth(n) < 1)
  <2>1. Delete(Nth(n)) /\ Nth(n) \in 1..Len(list)
    BY <1>1, <1>2, <1>5 DEF DelData
  <2> QED
    BY <1>3, <2>1, DeletesKeep
<1> QED
  BY <1>4, <1>5

\* The newest of some events with falling numbers, as a list.
LEMMA PrefixKeeps ==
  ASSUME NEW l \in Seq(Event), NEW d \in Nat, Descends(l),
         \A i \in 1..Len(l) : l[i].num \in 1..d,
         NEW k \in 0..Len(l), list' = SubSeq(l, 1, k), eventid' = d,
         cursor' = 0 \/ \E i \in 1..k : cursor' = l[i].num
  PROVE  ListInv'
<1>1. /\ list' \in Seq(Event) /\ Len(list') = k /\ Len(l) \in Nat
      /\ \A i \in 1..k : list'[i] = l[i]
  BY PrefixList, LenProperties
<1>2. \A i \in 1..k : i \in 1..Len(l) /\ list'[i].num = l[i].num /\ l[i].num \in 1..d
  BY <1>1
<1>3. NumbersDescend'
  BY <1>1, <1>2 DEF NumbersDescend, Descends
<1>4. cursor' \in Nat /\ CursorLive'
  BY <1>1, <1>2 DEF CursorLive, Live
<1> QED
  BY <1>1, <1>3, <1>4 DEF ListInv

LEMMA ListDescends ==
  ASSUME ListInv
  PROVE  /\ list \in Seq(Event) /\ Len(list) \in Nat /\ Descends(list) /\ eventid \in Nat
         /\ \A i \in 1..Len(list) : list[i].num \in 1..eventid /\ list[i].num \in Nat
BY LenProperties DEF ListInv, NumbersDescend, Descends

\* The oldest events go until n are left, or the first of them only.
LEMMA StifleKeeps ==
  ASSUME ListInv, NEW n \in Nat, Stifle(n)
  PROVE  ListInv'
<1>1. CASE ~(history_length > n)
  <2>1. list' = list /\ cursor' = cursor /\ eventid' = eventid
    BY <1>1 DEF Stifle
  <2> QED
    BY <2>1, MovesKeep, StopsLive
<1>2. CASE history_length > n
  <2> DEFINE left == IF n < Len(list) THEN n ELSE Len(list) - 1
  <2>1. /\ list' = SubSeq(list, 1, left) /\ eventid' = eventid
        /\ cursor' = IF left = 0 THEN 0 ELSE list[left].num
        /\ list # <<>>
    BY <1>2 DEF Stifle
  <2>2. Len(list) \in Nat /\ Len(list) > 0
    BY <2>1, EmptySeq, LenProperties DEF ListInv
  <2>3. left \in 0..Len(list)
    BY <2>2
  <2> HIDE DEF left
  <2>4. left # 0 => left \in 1..left
    BY <2>2, <2>3
  <2> QED
    BY <2>1, <2>3, <2>4, ListDescends, PrefixKeeps
<1> QED
  BY <1>1, <1>2

\* What is read comes in front, each line with the next number, and the oldest
\* events go.
LEMMA ReadKeeps ==
  ASSUME ListInv, RestOK, ReadHistory
  PROVE  ListInv'
<1>1. PICK n \in 0..(Len(file) - 1) :
        \E at \in Taken(n) :
        LET new == [i \in 1..n |-> [num |-> eventid + i, str |-> file[at[i]]]]
        IN /\ eventid' = eventid + n
           /\ list' = IF n = 0 THEN list ELSE Trim(Reverse(new) \o list)
           /\ cursor' = IF n = 0 THEN cursor ELSE IF list' = <<>> THEN 0 ELSE list'[1].num
  BY DEF ReadHistory
<1>2. PICK at \in Taken(n) :
        LET new == [i \in 1..n |-> [num |-> eventid + i, str |-> file[at[i]]]]
        IN /\ eventid' = eventid + n
           /\ list' = IF n = 0 THEN list ELSE Trim(Reverse(new) \o list)
           /\ cursor' = IF n = 0 THEN cursor ELSE IF list' = <<>> THEN 0 ELSE list'[1].num
  BY <1>1
<1>3. /\ Len(file) \in Nat /\ n \in Nat /\ n + 1 <= Len(file) /\ eventid \in Nat
      /\ \A i \in 1..Len(file) : file[i] \in Text
  BY LenProperties, ElementOfSeq DEF RestOK, ListInv
<1> DEFINE new == [i \in 1..n |-> [num |-> eventid + i, str |-> file[at[i]]]]
           front == Reverse(new)
<1>4. \A i \in 1..n : file[at[i]] \in Text
  <2>1. \A i \in 1..n : at[i] \in 2..Len(file)
    BY DEF Taken
  <2> QED
    BY <1>3, <2>1
<1>5. \A i \in 1..n : new[i] \in Event /\ new[i].num = eventid + i
  BY <1>3, <1>4 DEF Event
<1>6. new \in [1..n -> Event]
  BY <1>3, <1>4 DEF Event
<1> HIDE DEF new
<1>7. new \in Seq(Event) /\ Len(new) = n
  <2>1. new \in Seq(Event)
    BY <1>3, <1>6, SeqDef
  <2>2. DOMAIN new = 1..n /\ DOMAIN new = 1..Len(new) /\ Len(new) \in Nat
    BY <1>6, <2>1, LenProperties
  <2> QED
    BY <1>3, <2>1, <2>2
<1>8. front \in [1..n -> Event] /\ \A i \in 1..n : front[i] = new[n - i + 1]
  <2>1. \A i \in 1..n : n - i + 1 \in 1..n
    BY <1>3
  <2> QED
    BY <1>5, <1>7, <2>1 DEF Reverse
<1> HIDE DEF front
<1>9. front \in Seq(Event) /\ Len(front) = n
  <2>1. front \in Seq(Event)
    BY <1>3, <1>8, SeqDef
  <2>2. DOMAIN front = 1..n /\ DOMAIN front = 1..Len(front) /\ Len(front) \in Nat
    BY <1>8, <2>1, LenProperties
  <2> QED
    BY <1>3, <2>1, <2>2
<1>10. \A i \in 1..n : front[i].num = eventid + (n - i + 1)
  <2> SUFFICES ASSUME NEW i \in 1..n PROVE front[i].num = eventid + (n - i + 1)
    OBVIOUS
  <2> DEFINE j == n - i + 1
  <2>1. j \in 1..n /\ front[i] = new[j]
    BY <1>3, <1>8
  <2> HIDE DEF j
  <2>2. front[i].num = eventid + j
    BY <1>5, <2>1
  <2> QED
    BY <2>2 DEF j
<1> DEFINE all == front \o list
<1>11. /\ all \in Seq(Event) /\ Len(all) = n + Len(list) /\ Len(list) \in Nat
       /\ \A i \in 1..(n + Len(list)) : all[i] = IF i <= n THEN front[i] ELSE list[i - n]
  <2>1. list \in Seq(Event) /\ Len(list) \in Nat
    BY ListDescends
  <2>2. /\ all \in Seq(Event) /\ Len(all) = Len(front) + Len(list)
        /\ \A i \in 1..(Len(front) + Len(list)) :
             all[i] = IF i <= Len(front) THEN front[i] ELSE list[i - Len(front)]
    BY <1>9, <2>1, ConcatProperties
  <2>3. Len(front) = n
    BY <1>9
  <2> QED
    BY <2>1, <2>2, <2>3, Zenon
<1> HIDE DEF all
<1>12. \A i \in 1..Len(all) :
         all[i].num = IF i <= n THEN eventid + (n - i + 1) ELSE list[i - n].num
  <2> SUFFICES ASSUME NEW i \in 1..Len(all)
               PROVE  all[i].num = IF i <= n THEN eventid + (n - i + 1) ELSE list[i - n].num
    OBVIOUS
  <2>1. i \in Nat /\ i >= 1 /\ all[i] = IF i <= n THEN front[i] ELSE list[i - n]
    BY <1>3, <1>11
  <2>2. i <= n => front[i].num = eventid + (n - i + 1)
    BY <1>3, <1>10, <2>1
  <2> QED
    BY <2>1, <2>2
<1>13. \A i \in 1..Len(all) : ~(i <= n) => i - n \in 1..Len(list) /\ all[i].num \in 1..eventid
  <2> SUFFICES ASSUME NEW i \in 1..Len(all), ~(i <= n)
               PROVE  i - n \in 1..Len(list) /\ all[i].num \in 1..eventid
    OBVIOUS
  <2> DEFINE m == i - n
  <2>1. m \in 1..Len(list)
    BY <1>3, <1>11
  <2>2. all[i].num = list[m].num
    BY <1>12
  <2> HIDE DEF m
  <2>3. all[i].num \in 1..eventid
    BY <2>1, <2>2, ListDescends
  <2> QED
    BY <2>1, <2>3 DEF m
<1>14. Descends(all)
  <2> SUFFICES ASSUME NEW i \in 1..Len(all), NEW j \in 1..Len(all), i < j
               PROVE  all[i].num > all[j].num
    BY DEF Descends
  <2>1. i \in Nat /\ j \in Nat
    BY <1>11
  <2>2. CASE j <= n
    <3>1. all[i].num = eventid + (n - i + 1) /\ all[j].num = eventid + (n - j + 1)
      BY <1>3, <1>12, <2>1, <2>2
    <3>2. n \in Nat /\ eventid \in Int
      BY <1>3
    <3> QED
      BY <2>1, <3>1, <3>2
  <2>3. CASE i <= n /\ ~(j <= n)
    BY <1>3, <1>12, <1>13, <2>1, <2>3
  <2>4. CASE ~(i <= n)
    <3> DEFINE a == i - n
               b == j - n
    <3>1. a \in 1..Len(list) /\ b \in 1..Len(list) /\ a < b
      BY <1>3, <1>13, <2>1, <2>4
    <3>2. all[i].num = list[a].num /\ all[j].num = list[b].num
      BY <1>3, <1>12, <2>1, <2>4
    <3> HIDE DEF a, b
    <3> QED
      BY <3>1, <3>2, ListDescends DEF Descends
  <2> QED
    BY <1>3, <2>1, <2>2, <2>3, <2>4
<1>15. \A i \in 1..Len(all) : all[i].num \in 1..(eventid + n)
  <2> SUFFICES ASSUME NEW i \in 1..Len(all) PROVE all[i].num \in 1..(eventid + n)
    OBVIOUS
  <2>1. i \in Nat /\ i >= 1 /\ n \in Nat /\ eventid \in Nat
    BY <1>3, <1>11
  <2>2. CASE i <= n
    <3>1. all[i].num = eventid + (n - i + 1)
      BY <1>12, <2>2
    <3> QED
      BY <2>1, <2>2, <3>1
  <2>3. CASE ~(i <= n)
    <3>1. all[i].num \in 1..eventid
      BY <1>13, <2>3
    <3> QED
      BY <2>1, <3>1
  <2> QED
    BY <2>2, <2>3
<1>16. CASE n = 0
  <2>1. list' = list /\ cursor' = cursor /\ eventid' = eventid
    BY <1>2, <1>3, <1>16
  <2> QED
    BY <2>1, MovesKeep, StopsLive
<1>17. CASE n # 0
  <2> DEFINE k == Kept(Len(all))
  <2>1. /\ list' = SubSeq(all, 1, k) /\ eventid' = eventid + n
        /\ cursor' = IF list' = <<>> THEN 0 ELSE list'[1].num
    BY <1>2, <1>17 DEF Trim, all, front, new
  <2>2. k \in 0..Len(all) /\ Len(all) \in Nat
    BY <1>3, <1>11 DEF Kept, RestOK
  <2> HIDE DEF k
  <2>3. list' \in Seq(Event) /\ Len(list') = k /\ \A i \in 1..k : list'[i] = all[i]
    BY <1>11, <2>1, <2>2, PrefixList
  <2>4. list' # <<>> => 1 \in 1..k
    BY <2>2, <2>3, EmptySeq
  <2>5. cursor' = 0 \/ \E i \in 1..k : cursor' = all[i].num
    BY <2>1, <2>3, <2>4
  <2> DEFINE d == eventid + n
  <2>6. d \in Nat /\ eventid' = d /\ \A i \in 1..Len(all) : all[i].num \in 1..d
    BY <1>3, <1>15, <2>1
  <2> HIDE DEF d
  <2> QED
    BY <1>11, <1>14, <2>1, <2>2, <2>5, <2>6, PrefixKeeps
<1> QED
  BY <1>16, <1>17

LEMMA LooksKeep ==
  ASSUME ListInv, NEW c, Looks(c), c \in Live \cup {0}
  PROVE  ListInv'
BY MovesKeep DEF Looks

\* Where the functions that look may leave the cursor.
LEMMA MovesAndAsksLook ==
  ASSUME ListInv, CountOK, Moves \/ Asks
  PROVE  \/ UNCHANGED vars
         \/ \E c \in Live \cup {0} : Looks(c)
<1>1. \A f : f \subseteq ToSet(list) =>
        /\ \A c, end : end \in Live \cup {0} => Stop(NewerHit(c, f), end) \in Live \cup {0}
        /\ \A c, end : c \in Nat /\ end \in Live \cup {0} => Stop(OlderHit(c, f), end) \in Live \cup {0}
  BY HitsLive DEF Stop
<1>2. /\ \A n : Numbered(n) \subseteq ToSet(list)
      /\ \A s : Containing(s) \subseteq ToSet(list) /\ Beginning(s) \subseteq ToSet(list)
  BY DEF Numbered, Containing, Beginning
<1>3. Newest \in Live \cup {0} /\ Oldest \in Live \cup {0} /\ cursor \in Nat /\ Newest \in Nat
  <2>1. Newest \in Live \cup {0} /\ Oldest \in Live \cup {0}
    BY EndsLive
  <2>2. Live \subseteq Nat
    BY ListDescends DEF Live
  <2> QED
    BY <2>1, <2>2 DEF ListInv
<1>4. (\A n : DefSet(n) \in Live \cup {0}) /\ \A n : AtPlace(n) \in Live \cup {0} \/ n \notin Int
  BY StopsLive
<1>5. CASE UsingHistory \/ \E n \in Places : SetPos(n)
  BY <1>5 DEF UsingHistory, SetPos
<1>6. CASE CurrentHistory
  BY <1>1, <1>2, <1>3, <1>6 DEF CurrentHistory
<1>7. CASE PreviousHistory \/ NextHistory
  BY <1>1, <1>2, <1>3, <1>7 DEF PreviousHistory, NextHistory, Steps
<1>8. CASE HistoryList \/ EventLast
  BY <1>3, <1>8 DEF HistoryList, EventLast
<1>9. ASSUME NEW s, Search(s) \/ SearchPrefix(s)
      PROVE  \E c \in Live \cup {0} : Looks(c)
  BY <1>1, <1>2, <1>3, <1>4, <1>9 DEF Search, SearchPrefix
<1>10. ASSUME NEW s, NEW n, SearchPos(s, n)
       PROVE  \E c \in Live \cup {0} : Looks(c)
  <2>1. /\ NewerHit(Oldest, Numbered(cursor)) \in Live \cup {0}
        /\ OlderHit(Newest, Numbered(cursor)) \in Live \cup {0}
    BY <1>2, <1>3, HitsLive
  <2> QED
    BY <1>1, <1>2, <1>3, <1>10, <2>1 DEF SearchPos
<1>11. CASE TotalBytes
  BY <1>1, <1>2, <1>3, <1>11 DEF TotalBytes
<1>12. ASSUME NEW n \in Int, HistoryGet(n)
       PROVE  \E c \in Live \cup {0} : Looks(c)
  <2>1. n - history_base \in Int
    BY DEF CountOK
  <2> QED
    BY <1>4, <1>12, <2>1 DEF HistoryGet
<1>13. ASSUME NEW n \in Int, EventNumber(n)
       PROVE  \E c \in Live \cup {0} : Looks(c)
  <2>1. history_length - n + history_base \in Int
    BY DEF CountOK
  <2> QED
    BY <1>12, <1>13, <2>1 DEF EventNumber
<1>14. ASSUME NEW s, EventText(s) \/ EventContains(s)
       PROVE  \E c \in Live \cup {0} : Looks(c)
  BY <1>3, <1>4, <1>14 DEF EventText, EventContains
<1>15. Places \subseteq Int
  BY DEF Places
<1> QED
  BY <1>5, <1>6, <1>7, <1>8, <1>9, <1>10, <1>11, <1>12, <1>13, <1>14, <1>15 DEF Moves, Asks

\* The functions that change the list: one case for each.
LEMMA ChangesKeepList ==
  ASSUME ListInv, RestOK, Changes
  PROVE  ListInv'
<1>1. ASSUME NEW s \in Text, AddHistory(s)
      PROVE  ListInv'
  BY <1>1, EntersKeep DEF AddHistory, Entered, RestOK
<1>2. ASSUME NEW s \in Text, NEW n, ReplaceEntry(n, s)
      PROVE  ListInv'
  <2> DEFINE hit == NewerHit(Oldest, Numbered(n))
  <2>1. hit \in Live \cup {0}
    BY HitsLive DEF Numbered
  <2>2. CASE hit = 0
    BY <1>2, <2>2, EndsLive, MovesKeep DEF ReplaceEntry
  <2>3. CASE hit # 0
    <3>1. At(hit) \in 1..Len(list)
      BY <2>1, <2>3, AtLive
    <3>2. cursor' \in Live \cup {0} /\ SetText(At(hit), s) /\ eventid' = eventid
      BY <1>2, <2>3, StopsLive DEF ReplaceEntry
    <3> HIDE DEF hit
    <3> QED
      BY <3>1, <3>2, EditsKeep
  <2> QED
    BY <2>2, <2>3
<1>3. ASSUME NEW n \in Int, RemoveHistory(n)
      PROVE  ListInv'
  BY <1>3, DelDataKeeps DEF RemoveHistory
<1>4. ASSUME Unstifle
      PROVE  ListInv'
  BY <1>4, MovesKeep, StopsLive DEF Unstifle, defVars
<1>5. ASSUME ClearHistory \/ Initialize
      PROVE  ListInv'
  BY <1>5, EmptyingKeeps DEF ClearHistory, Initialize, Clear
<1>6. ASSUME NEW n, WriteHistory \/ AppendHistory(n)
      PROVE  ListInv'
  BY <1>6, EndsLive, MovesKeep DEF WriteHistory, AppendHistory
<1>7. Lines \subseteq Text /\ Places \subseteq Int /\ 0..MaxSize \subseteq Nat
  BY LinesAssumption DEF Places
<1> QED
  BY <1>1, <1>2, <1>3, <1>4, <1>5, <1>6, <1>7, StifleKeeps, ReadKeeps DEF Changes

\* The texts of some events behind those of a file.
LEMMA FileGrows ==
  ASSUME NEW t \in Seq(Text), NEW l \in Seq(Event), NEW c \in {<<>>, <<Cookie>>}
  PROVE  t \o c \o Reverse(Texts(l)) \in Seq(Text)
<1>1. c \in Seq(Text)
  <2>1. <<Cookie>> \in Seq(Text) /\ <<>> \in Seq(Text)
    BY CookieAssumption
  <2> QED
    BY <2>1
<1>2. Reverse(Texts(l)) \in Seq(Text)
  BY TextsOK
<1> QED
  BY <1>1, <1>2, ConcatProperties

LEMMA ChangesKeepRest ==
  ASSUME ListInv, RestOK, Changes
  PROVE  RestOK'
<1>1. UNCHANGED <<unique, refVars, loading>>
  BY DEF Changes, AddHistory, Entered, ReplaceEntry, RemoveHistory, DelData, Stifle, Unstifle,
         ClearHistory, Clear, Initialize, WriteHistory, ReadHistory, AppendHistory, optVars
<1>2. max' \in Nat
  <2>1. max' = max \/ max' = IntMax \/ max' \in 0..MaxSize
    BY DEF Changes, AddHistory, Entered, ReplaceEntry, RemoveHistory, DelData, Stifle, Unstifle,
           ClearHistory, Clear, Initialize, WriteHistory, ReadHistory, AppendHistory, optVars
  <2> QED
    BY <2>1, IntMaxAssumption DEF RestOK
<1>3. file' \in Seq(Text)
  <2>1. CASE WriteHistory
    BY <2>1, FileGrows, TextsOK, CookieAssumption, ConcatProperties DEF WriteHistory, ListInv
  <2>2. ASSUME NEW n \in Places, AppendHistory(n)
        PROVE  file' \in Seq(Text)
    <3>1. Len(list) \in Nat /\ (list # <<>> => Len(list) > 0) /\ n \in Nat
      BY EmptySeq, LenProperties DEF ListInv, Places
    <3>2. SaveFrom(n) \in 0..Len(list)
      BY <3>1 DEF SaveFrom
    <3>3. SubSeq(list, 1, SaveFrom(n)) \in Seq(Event)
      BY <3>2, PrefixList DEF ListInv
    <3>4. PICK again \in BOOLEAN :
            file' = file \o (IF again THEN <<Cookie>> ELSE <<>>)
                         \o Reverse(Texts(SubSeq(list, 1, SaveFrom(n))))
      BY <2>2 DEF AppendHistory
    <3> QED
      BY <3>3, <3>4, FileGrows DEF RestOK
  <2>3. CASE UNCHANGED file
    BY <2>3 DEF RestOK
  <2> QED
    BY <2>1, <2>2, <2>3
       DEF Changes, AddHistory, Entered, ReplaceEntry, RemoveHistory, DelData, Stifle, Unstifle,
           ClearHistory, Clear, Initialize, ReadHistory
<1> QED
  BY <1>1, <1>2, <1>3 DEF RestOK, refVars

LEMMA CountsKeep ==
  ASSUME ListInv, ListInv', CountOK, Changes \/ Moves \/ Asks
  PROVE  CountOK'
<1>1. Len(list) \in Nat /\ Len(list') \in Nat /\ (list # <<>> => Len(list) > 0)
  BY EmptySeq, LenProperties DEF ListInv
<1>2. CASE UNCHANGED counters
  BY <1>2 DEF counters, CountOK
<1>3. ASSUME NEW s, AddHistory(s)
      PROVE  CountOK'
  BY <1>1, <1>3 DEF AddHistory, CountOK
<1>4. ASSUME NEW n, RemoveHistory(n)
      PROVE  CountOK'
  BY <1>1, <1>4 DEF RemoveHistory, CountOK
<1>5. ASSUME NEW n \in 0..MaxSize, Stifle(n)
      PROVE  CountOK'
  <2>1. n \in Nat /\ history_offset' = history_offset
    BY <1>5 DEF Stifle
  <2>2. history_base' = history_base \/ history_base' = history_length - n
    BY <1>5 DEF Stifle
  <2>3. \/ history_length' = history_length
        \/ history_length' = n
        \/ list # <<>> /\ history_length' = Len(list) - 1
    BY <1>5 DEF Stifle
  <2> QED
    BY <1>1, <2>1, <2>2, <2>3 DEF CountOK
<1>6. CASE ClearHistory \/ Initialize
  BY <1>6 DEF ClearHistory, Initialize, CountOK
<1>7. CASE ReadHistory
  <2>1. /\ history_length' = history_length \/ history_length' = Len(list')
        /\ history_offset' = history_offset /\ history_base' = history_base
    BY <1>7 DEF ReadHistory
  <2> QED
    BY <1>1, <2>1 DEF CountOK
<1>8. CASE UsingHistory \/ (\E n \in Places : SetPos(n)) \/ PreviousHistory \/ NextHistory
  BY <1>8 DEF UsingHistory, SetPos, PreviousHistory, NextHistory, Steps, Places, CountOK
<1>9. ASSUME NEW s, NEW n \in Places, SearchPos(s, n)
      PROVE  CountOK'
  BY <1>9 DEF SearchPos, Places, CountOK
<1>10. \/ UNCHANGED counters
       \/ \E s : AddHistory(s) \/ \E n \in Places : SearchPos(s, n)
       \/ \E n : RemoveHistory(n)
       \/ \E n \in 0..MaxSize : Stifle(n)
       \/ ClearHistory \/ Initialize \/ ReadHistory
       \/ UsingHistory \/ (\E n \in Places : SetPos(n)) \/ PreviousHistory \/ NextHistory
  BY DEF Changes, Moves, Asks, Counts, ReplaceEntry, Unstifle, WriteHistory, AppendHistory,
         CurrentHistory, HistoryList, EventLast, Search, SearchPrefix, TotalBytes, HistoryGet,
         EventNumber, EventText, EventContains
<1> QED
  BY <1>2, <1>3, <1>4, <1>5, <1>6, <1>7, <1>8, <1>9, <1>10

LEMMA RlStep ==
  ASSUME RlInv, RlNext
  PROVE  RlInv'
<1> USE DEF RlInv
<1>1. CASE Changes
  BY <1>1, ChangesKeepList, ChangesKeepRest, CountsKeep
<1>2. CASE Moves \/ Asks
  <2>1. CASE UNCHANGED vars
    <3>1. ListInv' /\ RestOK'
      BY <2>1 DEF vars, ListInv, RestOK, CursorLive, NumbersDescend, Live
    <3> QED
      BY <1>2, <3>1, CountsKeep
  <2>2. ASSUME NEW c \in Live \cup {0}, Looks(c)
        PROVE  RlInv'
    <3>1. ListInv'
      BY <2>2, LooksKeep
    <3>2. RestOK'
      BY <2>2 DEF Looks, RestOK, optVars, refVars
    <3> QED
      BY <1>2, <3>1, <3>2, CountsKeep
  <2> QED
    BY <1>2, <2>1, <2>2, MovesAndAsksLook
<1> QED
  BY <1>1, <1>2 DEF RlNext

\* What is kept of a history through every order of the readline functions:
\* list, cursor and numbers are as history() needs them, whatever files are
\* read and however far, and the three counts are integers.
THEOREM RlInvariance == RlSpec => []RlInv
<1>1. RlInit => RlInv
  <2> SUFFICES ASSUME RlInit PROVE RlInv
    OBVIOUS
  <2>1. list = <<>> /\ Len(list) = 0 /\ cursor = 0 /\ eventid = 0
    BY DEF RlInit
  <2>2. ListInv
    BY <2>1 DEF ListInv, CursorLive, NumbersDescend
  <2>3. <<>> \in Seq(Text) /\ max \in Nat
    BY EmptySeq, IntMaxAssumption DEF RlInit
  <2>4. unique \in BOOLEAN /\ fns \in {"builtin", "user"} /\ h_ent \in Int
    <3>1. h_ent \in Int
      BY DEF RlInit
    <3> QED
      BY <3>1 DEF RlInit
  <2>5. file \in Seq(Text) /\ loading \in LoadSet
    BY <2>3, EmptySeq DEF RlInit, Idle, LoadSet
  <2>6. CountOK
    BY DEF RlInit, CountOK
  <2> QED
    BY <2>2, <2>3, <2>4, <2>5, <2>6 DEF RlInv, RestOK
<1>2. RlInv /\ [RlNext]_rlVars => RlInv'
  <2>1. RlInv /\ UNCHANGED rlVars => RlInv'
    BY DEF RlInv, rlVars, vars, counters, ListInv, RestOK, CountOK, CursorLive, NumbersDescend, Live
  <2> QED
    BY <2>1, RlStep
<1> QED
  BY <1>1, <1>2, PTL DEF RlSpec

LEMMA EditKeepsLength ==
  ASSUME ListInv, NEW i \in 1..Len(list), NEW s \in Text, SetText(i, s)
  PROVE  Len(list') = Len(list)
<1> DEFINE e == [list[i] EXCEPT !.str = s]
<1>1. list[i] \in Event
  BY ElementOfSeq DEF ListInv
<1>2. e \in Event /\ list' = [list EXCEPT ![i] = e]
  BY <1>1 DEF Event, SetText
<1> HIDE DEF e
<1> QED
  BY <1>2, ExceptSeq DEF ListInv

\* The list as the functions leave it that do not add an event.
LEMMA LengthsAgree ==
  ASSUME RlInv, RlNext, history_length = Len(list), ~ReadHistory
  PROVE  history_length' = Len(list')
<1> USE DEF RlInv
<1>1. Len(list) \in Nat /\ (list # <<>> => Len(list) > 0)
  BY EmptySeq, LenProperties DEF ListInv
<1>2. CASE list' = list /\ history_length' = history_length
  BY <1>2
<1>3. ASSUME NEW s, AddHistory(s)
      PROVE  history_length' = Len(list')
  BY <1>3 DEF AddHistory
<1>4. ASSUME NEW s \in Text, NEW n, ReplaceEntry(n, s)
      PROVE  history_length' = Len(list')
  <2> DEFINE hit == NewerHit(Oldest, Numbered(n))
  <2>1. hit \in Live \cup {0}
    BY HitsLive DEF Numbered
  <2>2. history_length' = history_length
    BY <1>4 DEF ReplaceEntry, Counts, counters
  <2>3. CASE hit = 0
    BY <1>4, <2>2, <2>3 DEF ReplaceEntry
  <2>4. CASE hit # 0
    <3>1. At(hit) \in 1..Len(list)
      BY <2>1, <2>4, AtLive
    <3>2. SetText(At(hit), s)
      BY <1>4, <2>4 DEF ReplaceEntry
    <3> HIDE DEF hit
    <3> QED
      BY <2>2, <3>1, <3>2, EditKeepsLength
  <2> QED
    BY <2>3, <2>4
<1>5. ASSUME NEW n, RemoveHistory(n)
      PROVE  history_length' = Len(list')
  BY <1>5 DEF RemoveHistory
<1>6. ASSUME NEW n \in 0..MaxSize, Stifle(n)
      PROVE  history_length' = Len(list')
  <2> DEFINE left == IF n < Len(list) THEN n ELSE Len(list) - 1
  <2>1. CASE ~(history_length > n)
    BY <1>2, <1>6, <2>1 DEF Stifle
  <2>2. CASE history_length > n
    <3>1. list' = SubSeq(list, 1, left) /\ history_length' = left /\ list # <<>>
      BY <1>6, <2>2 DEF Stifle
    <3>2. left \in 0..Len(list)
      BY <1>1, <3>1
    <3> HIDE DEF left
    <3> QED
      BY <3>1, <3>2, PrefixList DEF ListInv
  <2> QED
    BY <2>1, <2>2
<1>7. CASE ClearHistory \/ Initialize
  <2>1. list' = <<>> /\ history_length' = 0
    BY <1>7 DEF ClearHistory, Clear, Initialize, Empty
  <2> QED
    BY <2>1
<1>8. CASE Unstifle \/ WriteHistory \/ \E n : AppendHistory(n)
  BY <1>2, <1>8 DEF Unstifle, WriteHistory, AppendHistory, defVars, Counts, counters
<1>9. CASE Moves \/ Asks
  <2>1. list' = list
    BY <1>9, MovesAndAsksLook DEF Looks, vars
  <2>2. history_length' = history_length
    BY <1>9 DEF Moves, Asks, Counts, counters, UsingHistory, SetPos, CurrentHistory, PreviousHistory,
                NextHistory, Steps, HistoryList, EventLast, Search, SearchPrefix, SearchPos,
                TotalBytes, HistoryGet, EventNumber, EventText, EventContains
  <2> QED
    BY <1>2, <2>1, <2>2
<1>10. Lines \subseteq Text
  BY LinesAssumption
<1> QED
  BY <1>3, <1>4, <1>5, <1>6, <1>7, <1>8, <1>9, <1>10 DEF RlNext, Changes

\* history_length is the length of the list through every order of the readline
\* functions, until a read fails half-way; history_list makes room for that many
\* events and aborts at one more.
THEOREM LengthIsTrue == RlSpec => LengthExact
<1>1. RlInv /\ [RlNext]_rlVars
        => [history_length' # Len(list') => history_length # Len(list) \/ ReadHistory]_rlVars
  BY LengthsAgree
<1> QED
  BY <1>1, RlInvariance, PTL DEF RlSpec, LengthExact

\* What add_history does to the list and the base: the new event is in front,
\* and the base goes on by the one that made room for it.
LEMMA PlacesStay ==
  ASSUME RlInv, NEW s \in Text, AddHistory(s), eventid' # eventid,
         history_length = Len(list), Len(list) <= max
  PROVE  /\ \A i \in 1..Len(list), j \in 1..Len(list') :
              list[i].num = list'[j].num =>
                history_base' + Place(list', j) = history_base + Place(list, i)
         /\ history_offset = history_length => history_offset' = history_length'
<1> USE DEF RlInv
<1>1. Entered(s) /\ ~Ignored(s)
  BY DEF AddHistory, Entered, DefEnter, defVars
<1> DEFINE l == <<NewEvent(s)>> \o list
           k == Kept(Len(l))
<1>2. /\ NewEvent(s) \in Event /\ NewEvent(s).num = eventid + 1
      /\ list' = Trim(l)
  BY <1>1 DEF ListInv, NewEvent, Event, Entered, DefEnter
<1>3. /\ l \in Seq(Event) /\ Len(l) = Len(list) + 1 /\ Len(list) \in Nat
      /\ l[1] = NewEvent(s)
      /\ \A i \in 2..(Len(list) + 1) : l[i] = list[i - 1]
  BY <1>2, ConsList, LenProperties DEF ListInv
<1>4. max \in Nat /\ k \in 0..Len(l) /\ k = IF Len(list) = max THEN max ELSE Len(list) + 1
  BY <1>3 DEF Kept, RestOK
<1> HIDE DEF l, k
<1>5. list' \in Seq(Event) /\ Len(list') = k /\ \A i \in 1..k : list'[i] = l[i]
  BY <1>2, <1>3, <1>4, PrefixList DEF Trim, k
<1>6. ASSUME NEW i \in 1..Len(list), NEW j \in 1..Len(list'), list[i].num = list'[j].num
      PROVE  j = i + 1
  <2>1. j \in 1..Len(l) /\ list'[j] = l[j] /\ j \in Nat /\ i \in Nat
    <3>1. j \in 1..k
      BY <1>5
    <3> QED
      BY <1>3, <1>4, <1>5, <3>1
  <2>2. j # 1
    <3>1. list[i].num # eventid + 1
      BY ListDescends
    <3> QED
      BY <1>2, <1>3, <1>6, <2>1, <3>1
  <2> DEFINE m == j - 1
  <2>3. m \in 1..Len(list) /\ list'[j] = list[m]
    BY <1>3, <2>1, <2>2
  <2> HIDE DEF m
  <2>4. i = m
    BY <1>6, <2>3, ListDescends, NumberGivesPlace
  <2> QED
    BY <2>1, <2>4 DEF m
<1>7. history_base \in Int
  BY DEF CountOK
<1>8. CASE Len(list) = max
  <2>1. history_base' = history_base + 1 /\ history_offset' = history_offset
        /\ history_length' = history_length
    BY <1>4, <1>5, <1>8 DEF AddHistory
  <2>2. ASSUME NEW i \in 1..Len(list), NEW j \in 1..Len(list'), list[i].num = list'[j].num
        PROVE  history_base' + Place(list', j) = history_base + Place(list, i)
    <3>1. j = i + 1 /\ i \in Nat /\ Len(list') = Len(list)
      BY <1>3, <1>4, <1>5, <1>6, <1>8, <2>2
    <3> QED
      BY <1>3, <1>7, <2>1, <3>1 DEF Place
  <2> QED
    BY <2>1, <2>2
<1>9. CASE Len(list) # max
  <2>1. Len(list') = Len(list) + 1 /\ Len(list') # history_length
    BY <1>3, <1>4, <1>5, <1>9
  <2>2. history_base' = history_base /\ history_offset' = history_offset + 1
        /\ history_length' = Len(list')
    BY <2>1 DEF AddHistory
  <2>3. ASSUME NEW i \in 1..Len(list), NEW j \in 1..Len(list'), list[i].num = list'[j].num
        PROVE  history_base' + Place(list', j) = history_base + Place(list, i)
    <3>1. j = i + 1 /\ i \in Nat
      BY <1>6, <2>3
    <3> QED
      BY <1>3, <1>7, <2>1, <2>2, <3>1 DEF Place
  <2> QED
    BY <1>3, <2>1, <2>2, <2>3
<1> QED
  BY <1>8, <1>9

\* An event keeps the number history_get has for it when another is added, and
\* a position at the end of the history stays there (add_history).
THEOREM EventsKeepNumbers == RlSpec => NumbersStay
<1>1. ASSUME RlInv, eventid' # eventid, \E s \in Lines : AddHistory(s),
             history_length = Len(list), Len(list) <= max
      PROVE  /\ \A i \in 1..Len(list), j \in 1..Len(list') :
                  list[i].num = list'[j].num =>
                    history_base' + Place(list', j) = history_base + Place(list, i)
             /\ history_offset = history_length => history_offset' = history_length'
  BY <1>1, PlacesStay, LinesAssumption
<1>2. RlInv /\ [RlNext]_rlVars
        => [eventid' # eventid /\ (\E s \in Lines : AddHistory(s)) /\ history_length = Len(list) /\ Len(list) <= max =>
              /\ \A i \in 1..Len(list), j \in 1..Len(list') :
                   list[i].num = list'[j].num =>
                     history_base' + Place(list', j) = history_base + Place(list, i)
              /\ history_offset = history_length => history_offset' = history_length']_rlVars
  BY <1>1
<1> QED
  BY <1>2, RlInvariance, PTL DEF RlSpec, NumbersStay

\* Functions that answer a question put the cursor back, through all the calls
\* of history() they make, but for an event of a line that is not found, after
\* which the newest is current (history_get, history_total_bytes,
\* get_history_event).
THEOREM AsksPutBack == RlSpec => LooksLeaveCursor
<1>1. ASSUME RlInv, Asks
      PROVE  cursor' = cursor \/ cursor' = Newest
  <2>1. ListInv /\ (cursor # 0 => DefSet(cursor) = cursor)
    BY <1>1, StopsLive DEF RlInv
  <2>2. cursor # 0 => NewerHit(Oldest, Numbered(cursor)) = cursor
    <3> SUFFICES ASSUME cursor # 0 PROVE NewerHit(Oldest, Numbered(cursor)) = cursor
      OBVIOUS
    <3>1. /\ Len(list) \in Nat /\ At(cursor) \in 1..Len(list) /\ list[At(cursor)].num = cursor
          /\ DOMAIN list = 1..Len(list) /\ cursor \in Nat /\ list # <<>>
      BY <2>1, AtLive, LenProperties DEF ListInv, CursorLive
    <3>2. Oldest <= cursor
      <4>1. At(cursor) = Len(list) \/ At(cursor) < Len(list)
        BY <3>1
      <4>2. Len(list) \in 1..Len(list) /\ Oldest = list[Len(list)].num
        BY <3>1 DEF Oldest
      <4> QED
        BY <2>1, <3>1, <4>1, <4>2, ListDescends DEF Descends
    <3> DEFINE hits == {e.num : e \in {f \in Numbered(cursor) : f.num >= Oldest}}
    <3>3. hits = {cursor}
      <4>1. list[At(cursor)] \in ToSet(list)
        BY <3>1 DEF ToSet
      <4>2. list[At(cursor)] \in {f \in Numbered(cursor) : f.num >= Oldest}
        BY <3>1, <3>2, <4>1 DEF Numbered
      <4>3. cursor \in hits
        BY <3>1, <4>2
      <4>4. \A e \in Numbered(cursor) : e.num = cursor
        BY DEF Numbered
      <4> QED
        BY <4>3, <4>4
    <3>4. NewerHit(Oldest, Numbered(cursor)) = IF hits = {} THEN 0 ELSE Min(hits)
      BY DEF NewerHit
    <3> HIDE DEF hits
    <3> QED
      BY <3>1, <3>3, <3>4, MinIsLeast
  <2>3. TotalBytes => cursor' = cursor
    BY <2>2 DEF TotalBytes, Stop, Looks
  <2>4. \A n : HistoryGet(n) => cursor' = cursor
    BY <2>1 DEF HistoryGet, Looks
  <2>5. \A n : EventNumber(n) => cursor' = cursor
    BY <2>4 DEF EventNumber
  <2>6. \A s : EventText(s) \/ EventContains(s) => cursor' = cursor \/ cursor' = Newest
    BY <2>1 DEF EventText, EventContains, Looks
  <2> QED
    BY <1>1, <2>3, <2>4, <2>5, <2>6 DEF Asks
<1>2. RlInv /\ [RlNext]_rlVars => [cursor' # cursor /\ cursor' # Newest => ~Asks]_rlVars
  BY <1>1
<1> QED
  BY <1>2, RlInvariance, PTL DEF RlSpec, LooksLeaveCursor
===============================================================================
