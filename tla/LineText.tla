------------------------------- MODULE LineText --------------------------------
(***************************************************************************)
(* The text of the line and the places in it: the functions of chared.c    *)
(* and common.c that look for a word or a grapheme.  A place is what the   *)
(* code has as a pointer less el_line.buffer, so it counts from 0.         *)
(***************************************************************************)
EXTENDS Integers, Sequences

CONSTANTS
  Lower, Upper, \* letters in lower and in upper case
  Up, Down      \* towupper and towlower, on those

Blank == " "
Break == "\n"
Lead == "lead"              \* the two halves of a supplementary code point,
Trail == "trail"            \* where wchar_t has 16 bits
Combining == "combining"    \* a mark on the character before it
Open == "("
Close == ")"
Old == "old"                \* what an earlier text left behind the end
Other == {Blank, Break, Lead, Trail, Combining, Open, Close, Old}
Char == Lower \cup Upper \cup Other

ASSUME CaseAssumption ==
  /\ Up \in [Lower -> Upper] /\ Down \in [Upper -> Lower]
  /\ (Lower \cup Upper) \cap Other = {}

Text == Seq(Char)

\* The character at a place, which may be behind the end.
At(s, p) == IF p < Len(s) THEN s[p + 1] ELSE Old

\* The characters from a place to another.
From(s, p, q) == [i \in 1..(q - p) |-> At(s, p + i - 1)]

\* The text with others put in at a place, over those at a place, and
\* without those from a place to another.
Inserted(s, p, t) == SubSeq(s, 1, p) \o t \o SubSeq(s, p + 1, Len(s))
Over(s, p, t) == [i \in 1..Len(s) |-> IF i - p \in 1..Len(t) THEN t[i - p] ELSE s[i]]
Without(s, p, q) == SubSeq(s, 1, p) \o SubSeq(s, q + 1, Len(s))

Repeat(c, n) == [i \in 1..n |-> c]

-------------------------------------------------------------------------------
(* Words.                                                                  *)

\* ce__isword.
WordChar == Lower \cup Upper \cup {Combining}

\* As far back, and on, as there are characters of a set.
SkipBack(s, p, set) ==
  CHOOSE q \in 0..p : (\A i \in q..(p - 1) : At(s, i) \in set) /\ (q = 0 \/ At(s, q - 1) \notin set)
SkipOn(s, p, set) ==
  CHOOSE q \in p..Len(s) : (\A i \in p..(q - 1) : At(s, i) \in set) /\ (q = Len(s) \/ At(s, q) \notin set)

\* c__prev_word and c__next_word with ce__isword.
PrevWord(s, p, n) ==
  LET back[k \in 0..n] ==
        IF k = 0 THEN p ELSE SkipBack(s, SkipBack(s, back[k - 1], Char \ WordChar), WordChar)
  IN back[n]
NextWord(s, p, n) ==
  LET on[k \in 0..n] ==
        IF k = 0 THEN p ELSE SkipOn(s, SkipOn(s, on[k - 1], Char \ WordChar), WordChar)
  IN on[n]

-------------------------------------------------------------------------------
(* Graphemes.                                                              *)

\* The halves of one code point are at p and behind it.
Pair(s, p) == At(s, p) = Lead /\ At(s, p + 1) = Trail

\* el_next_grapheme: a code point and the marks on it.
NextGrapheme(s, p) ==
  IF p >= Len(s) THEN p ELSE SkipOn(s, p + (IF Pair(s, p) THEN 2 ELSE 1), {Combining})

\* Mutant: one wchar_t back is one code point back.
PrevGrapheme_OneChar(s, p) ==
  LET start[q \in 0..p] == IF q = 0 \/ At(s, q) # Combining THEN q ELSE start[q - 1]
  IN IF p = 0 THEN 0 ELSE start[p - 1]

\* el_prev_grapheme: back by one code point, and on back while it is a mark.
PrevGrapheme(s, p) ==
  LET back(q) == IF q > 1 /\ Pair(s, q - 2) THEN q - 2 ELSE q - 1
      start[q \in 0..p] == IF q = 0 \/ At(s, q) # Combining THEN q ELSE start[back(q)]
  IN IF p = 0 THEN 0 ELSE start[back(p)]

\* The loops over an argument.
NextGraphemes(s, p, n) == LET on[k \in 0..n] == IF k = 0 THEN p ELSE NextGrapheme(s, on[k - 1]) IN on[n]
PrevGraphemes(s, p, n) == LET back[k \in 0..n] == IF k = 0 THEN p ELSE PrevGrapheme(s, back[k - 1]) IN back[n]

\* The grapheme at a place, up to another place.
Grapheme(s, p, q) == From(s, p, IF NextGrapheme(s, p) < q THEN NextGrapheme(s, p) ELSE q)

-------------------------------------------------------------------------------
(* Case.                                                                   *)

Upcased(s) == [i \in 1..Len(s) |-> IF s[i] \in Lower THEN Up[s[i]] ELSE s[i]]
Downcased(s) == [i \in 1..Len(s) |-> IF s[i] \in Upper THEN Down[s[i]] ELSE s[i]]

\* The first letter in upper case and all behind it in lower case.
Capitalised(s) ==
  [i \in 1..Len(s) |->
     IF \E j \in 1..(i - 1) : s[j] \in Lower \cup Upper THEN Downcased(s)[i] ELSE Upcased(s)[i]]

-------------------------------------------------------------------------------
(* What a text should be.                                                  *)

\* No half of a code point is alone.
Whole(s) ==
  \A p \in 0..(Len(s) - 1) :
    /\ At(s, p) = Lead => At(s, p + 1) = Trail
    /\ At(s, p) = Trail => p > 0 /\ At(s, p - 1) = Lead

\* A place between code points.
Between(s, p) == p \in 0..Len(s) /\ ~(p > 0 /\ Pair(s, p - 1))
===============================================================================
