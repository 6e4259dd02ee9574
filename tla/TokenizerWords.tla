---------------------------- MODULE TokenizerWords ----------------------------
(***************************************************************************)
(* What the tokenizer makes of a line, against the grammar of words: a     *)
(* line is a row of words with separators behind them, a word is a row of  *)
(* pieces, and a piece is a character, an escaped one, or a row of them    *)
(* between quotes.                                                         *)
(***************************************************************************)
EXTENDS Tokenizer

\* The string at an address of the word buffer, as C reads it.
StringAt(a) ==
  LET ends == {i \in (a + 1)..Len(text) : text[i] = Nul}
  IN SubSeq(text, a + 1, (CHOOSE e \in ends \cup {Len(text) + 1} :
                            \A f \in ends : e <= f) - 1)

Words == [i \in 1..Len(argv) |-> StringAt(argv[i])]

-------------------------------------------------------------------------------
(* Rows.  What is between the places i and j of a sequence of n stands for *)
(* any of m[i][j], or is no member of the row where there is none.         *)

Row(m, n) ==
  LET upTo[k \in 0..n] ==
        IF k = 0 THEN {<<>>} ELSE UNION {{v \o x : v \in upTo[i], x \in m[i][k]} : i \in 0..(k - 1)}
  IN upTo[n]

Breaks == {Separator, "\n"}
Inner(s) == SubSeq(s, 2, Len(s) - 1)
Between(s, q) == Len(s) >= 2 /\ s[1] = q /\ s[Len(s)] = q

\* What stands between double quotes: a backslash escapes a quote and itself,
\* and eats a newline.
Within(s) ==
  CASE Len(s) = 1 /\ s[1] \notin {"\"", "\\"} -> {s}
    [] Len(s) = 2 /\ s[1] = "\\" ->
         {IF s[2] = "\n" THEN <<>> ELSE IF s[2] \in {"'", "\"", "\\"} THEN <<s[2]>> ELSE s}
    [] OTHER -> {}
InDouble(s) == Row([i \in 0..Len(s) |-> [j \in 0..Len(s) |-> Within(SubSeq(s, i + 1, j))]], Len(s))

\* What a piece stands for; the empty set when it is none.
Piece(s) ==
  CASE Len(s) = 1 /\ s[1] \in Plain -> {s}
    [] Len(s) = 2 /\ s[1] = "\\" -> {IF s[2] = "\n" THEN <<>> ELSE <<s[2]>>}
    [] Between(s, "'") /\ (\A i \in 2..(Len(s) - 1) : s[i] # "'") -> {Inner(s)}
    [] Between(s, "\"") -> InDouble(Inner(s))
    [] OTHER -> {}
Spelt(s) == Row([i \in 0..Len(s) |-> [j \in 0..Len(s) |-> Piece(SubSeq(s, i + 1, j))]], Len(s))

\* A word with the separator behind it, or a separator alone.
Portion(s) ==
  IF s = <<>> \/ s[Len(s)] \notin Breaks THEN {}
  ELSE IF Len(s) = 1 THEN {<<>>}
  ELSE {<<w>> : w \in Spelt(SubSeq(s, 1, Len(s) - 1))}
Sentence(s) == Row([i \in 0..Len(s) |-> [j \in 0..Len(s) |-> Portion(SubSeq(s, i + 1, j))]], Len(s))

-------------------------------------------------------------------------------
(* Properties.                                                             *)

\* However the input came in lines, and whatever the buffers did meanwhile,
\* the words are those it spells.
WordsSpelt ==
  at = "caller" /\ result = 0 /\ ~beyond => Words \in Sentence(input)

\* The cursor is in the word it is reported in, or behind the last one.
CursorInWord ==
  at = "caller" /\ result = 0 /\ ~beyond /\ cursor # NoCursor /\ input # <<>> =>
    \/ cursor.word \in 0..(Len(argv) - 1) /\ cursor.offset \in 0..Len(Words[cursor.word + 1])
    \/ cursor = [word |-> Len(argv), offset |-> 0]
===============================================================================
