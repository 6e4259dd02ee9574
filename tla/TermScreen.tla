------------------------------- MODULE TermScreen -------------------------------
(***************************************************************************)
(* The terminal and what terminal.c sends to it.  A screen is a record of  *)
(* what the terminal shows and of what the library believes it shows; each *)
(* function of terminal.c is an operator that returns the screen after it. *)
(* Rows and columns count from 0 at the beginning of the prompt.           *)
(***************************************************************************)
EXTENDS Integers, Sequences

CONSTANTS
  EL_BUFSIZ,    \* slots of a row of el_display, less one
  NEAR          \* how far the cursor is moved step by step

ASSUME TermScreenAssumption == EL_BUFSIZ \in Nat /\ NEAR \in Nat

NUL == "NUL"
FILL == "FILL"              \* MB_FILL_CHAR, the right half of a wide character
Blank == " "
Mark == "mark"              \* combines with the character before it
Wide == "wide"              \* takes two columns
Literal == "lit"            \* an escape sequence with the character behind it
LiteralEnd == "lit0"        \* an escape sequence that ends the prompt
Literals == {Literal, LiteralEnd}
Glue == "$"                 \* the character of a Literal

\* wcwidth.
Width(c) == IF c = Wide THEN 2 ELSE IF c \in {Mark, NUL} THEN 0 ELSE 1

\* ct_cell_vcols.  BOUND: each code point is one wchar_t.
Cols(c) == IF c \in {FILL, LiteralEnd} THEN 0 ELSE Width(c)

\* The slot at a place of a row of el_display, which counts from 0.
Slot(row, p) == row[p + 1]

\* wcslen.
RowEnd(row) == CHOOSE e \in 0..EL_BUFSIZ : Slot(row, e) = NUL /\ \A p \in 0..(e - 1) : Slot(row, p) # NUL

MinOf(a, b) == IF a < b THEN a ELSE b

\* display_vcol.
display_vcol(row, p) ==
  LET col[k \in 0..p] == IF k = 0 THEN 0 ELSE col[k - 1] + Cols(Slot(row, k - 1))
  IN col[MinOf(p, RowEnd(row))]

\* The first slot from a place on that takes a column.
NextBase(row, p) ==
  CHOOSE e \in p..EL_BUFSIZ :
    /\ Slot(row, e) = NUL \/ Cols(Slot(row, e)) # 0
    /\ \A i \in p..(e - 1) : Slot(row, i) # NUL /\ Cols(Slot(row, i)) = 0

-------------------------------------------------------------------------------
(* The terminal.                                                           *)

\* A cell shows a character and the marks on it; the right half of a wide
\* one is empty.
Clear == <<Blank>>
IsWide(cell) == cell # <<>> /\ cell[1] = Wide

\* Half of a wide character does not stay.
Mended(row) ==
  [j \in 1..Len(row) |->
     IF IsWide(row[j]) /\ (j = Len(row) \/ row[j + 1] # <<>>) THEN Clear
     ELSE IF row[j] = <<>> /\ (j = 1 \/ ~IsWide(row[j - 1])) THEN Clear
     ELSE row[j]]

WithRow(s, row) == [s EXCEPT !.cells[s.row + 1] = Mended(row)]
Here(s) == s.cells[s.row + 1]
EmptyRow(s) == [j \in 1..s.term.cols |-> Clear]

\* On to the next row, from the last one by scrolling.
Down(s) ==
  IF s.row + 1 < s.term.rows THEN [s EXCEPT !.row = @ + 1, !.wrap = FALSE]
  ELSE [s EXCEPT !.cells = Append(Tail(@), EmptyRow(s)), !.wrap = FALSE]

CR(s) == [s EXCEPT !.col = 0, !.wrap = FALSE]
NL(s) == CR(Down(s))
BS(s) == [s EXCEPT !.col = IF @ > 0 THEN @ - 1 ELSE 0, !.wrap = FALSE]
Up(s, n) == [s EXCEPT !.row = IF @ > n THEN @ - n ELSE 0, !.wrap = FALSE]
ToCol(s, n) == [s EXCEPT !.col = IF n < s.term.cols THEN n ELSE s.term.cols - 1, !.wrap = FALSE]

\* A mark goes to the character before the cursor, which after a wrap that
\* waits is the one under it.
BaseAt(row, at) == IF at > 1 /\ row[at] = <<>> THEN at - 1 ELSE at
Marked(s, base, c) == IF base = 0 THEN s ELSE [s EXCEPT !.cells[s.row + 1][base] = Append(@, c)]
Combined(s, c) == Marked(s, BaseAt(Here(s), IF s.wrap THEN s.col + 1 ELSE s.col), c)

\* A character in the last column makes the cursor wrap, at once or when the
\* next one comes.
Advanced(s, w) ==
  IF s.col + w < s.term.cols THEN [s EXCEPT !.col = @ + w]
  ELSE IF ~s.term.am THEN [s EXCEPT !.col = s.term.cols - 1]
  ELSE IF s.term.late THEN [s EXCEPT !.col = s.term.cols - 1, !.wrap = TRUE]
  ELSE NL(s)

Wrapped(s) == IF s.wrap THEN NL(s) ELSE s
Written(s, c) ==
  WithRow(s, [j \in 1..s.term.cols |->
                IF j = s.col + 1 THEN <<c>> ELSE IF j = s.col + 2 /\ Width(c) = 2 THEN <<>> ELSE Here(s)[j]])
Shown(s, c) == IF Width(c) = 0 THEN Combined(s, c) ELSE Advanced(Written(Wrapped(s), c), Width(c))

\* Cells opened, taken away, and cleared, from the cursor on.
Opened(s, n) ==
  WithRow(s, [j \in 1..s.term.cols |->
                IF j <= s.col THEN Here(s)[j] ELSE IF j <= s.col + n THEN Clear ELSE Here(s)[j - n]])
Closed(s, n) ==
  WithRow(s, [j \in 1..s.term.cols |->
                IF j <= s.col THEN Here(s)[j]
                ELSE IF j + n <= s.term.cols THEN Here(s)[j + n] ELSE Clear])
Erased(s) == WithRow(s, [j \in 1..s.term.cols |-> IF j <= s.col THEN Here(s)[j] ELSE Clear])

-------------------------------------------------------------------------------
(* terminal.c.                                                             *)

terminal__putc(s, c) ==
  IF c \in {FILL, LiteralEnd} THEN s
  ELSE IF c = "\n" THEN NL(s)
  ELSE Shown(s, IF c = Literal THEN Glue ELSE c)

RECURSIVE Put(_, _)
Put(s, text) == IF text = <<>> THEN s ELSE Put(terminal__putc(s, Head(text)), Tail(text))

RECURSIVE Lines(_, _)
Lines(s, n) == IF n <= 0 THEN s ELSE Lines(NL(s), n - 1)

\* terminal_move_to_line.  BOUND: the terminal can move up.
terminal_move_to_line(s, where) ==
  IF where = s.v \/ where >= s.term.rows THEN s
  ELSE IF where > s.v THEN [Lines(s, where - s.v) EXCEPT !.v = where, !.h = 0]
  ELSE [Up(s, s.v - where) EXCEPT !.v = where]

\* The slot behind those that take the columns before a column, and the column
\* where the row ends before it.
RECURSIVE SlotOf(_, _, _, _)
SlotOf(row, col, p, vis) ==
  IF vis >= col \/ Slot(row, p) = NUL THEN [p |-> p, vis |-> vis]
  ELSE SlotOf(row, col, IF Cols(Slot(row, p)) = 0 THEN p + 1 ELSE NextBase(row, p + 1), vis + Cols(Slot(row, p)))

\* The characters of a row from a place until a column is reached, with all
\* that takes no column behind each.
RECURSIVE WriteTo(_, _, _, _)
WriteTo(s, row, at, where) ==
  IF Slot(row, at.p) = NUL \/ (at.vis >= where /\ Cols(Slot(row, at.p)) # 0) THEN s
  ELSE WriteTo(terminal__putc(s, Slot(row, at.p)), row,
               [p |-> at.p + 1, vis |-> at.vis + Cols(Slot(row, at.p))], where)

\* Situations in which what terminal.c and refresh.c send does not do what they
\* take it to do:
\*   inside    the cursor moves right from the middle of a wide character, the
\*             rest of which is not sent
\*   edge      the cursor moves step by step, or text is written, while it is taken
\*             to be behind the last column; or it is moved there by writing on a
\*             terminal that wraps at once
\*   blank     the blank that settles a wrap strikes a cell of the next row that is
\*             not written again
\*   erase     a row is cleared with more blanks than it has columns
\*   orphan    a mark is sent after the cursor has left the row of its character
\*   cluster   what is kept in the middle of a row ends before a mark
\*   slots     a row is changed as if each slot were a column
\*   clear     what an insertion pushed to the right is not cleared
\*   stale     a character is put into a row of el_display that ends before old text
\*   wide      a wrap is settled behind a wide character that was typed where it did
\*             not fit, and was stored in the row before its own
\*   wrap      a wrap that was put off is settled on a display that was cleared, or
\*             not settled before the line is erased
\*   size      the size of the terminal changes while the line has one row, or the
\*             cursor is at the beginning of a row, or after a line of several rows
\*   tab       a tab is drawn to a multiple of slots, not of columns
\*   break     a newline after a full row is counted as two rows
\*   newline   a newline is sent as a character of its row
\* The run goes on after none of them.
Met(s, what, holds) == IF holds THEN [s EXCEPT !.met = @ \cup {what}] ELSE s

AtEdge(s, where) == Met(s, "edge", s.h = s.term.cols \/ (where = s.term.cols /\ ~s.term.late))

RECURSIVE Back(_, _)
Back(s, n) == IF n = 0 THEN s ELSE Back(BS(s), n - 1)
Forward(s, row, from, where) == WriteTo(AtEdge(Met(s, "inside", from.vis > s.h), where), row, from, where)

\* From the column where the cursor is taken to be, at once or step by step.
RECURSIVE Moved(_, _, _)
Moved(s, from, where) ==
  IF where = 0 THEN CR(s)
  ELSE IF s.term.par /\ where - from \notin -NEAR..NEAR THEN ToCol(s, where)
  ELSE IF where > from THEN Forward(s, s.disp[s.v + 1], SlotOf(s.disp[s.v + 1], from, 0, 0), where)
  ELSE IF from - where > where THEN Moved([CR(s) EXCEPT !.h = 0], 0, where)
  ELSE Back(AtEdge(s, where), from - where)

\* terminal_move_to_char.  BOUND: a row has at most eight columns, where no tab
\* is sent.
terminal_move_to_char(s, where) ==
  IF where = s.h \/ where > s.term.cols THEN s ELSE [Moved(s, s.h, where) EXCEPT !.h = where]

Sum(text) == LET sum[k \in 0..Len(text)] == IF k = 0 THEN 0 ELSE sum[k - 1] + Cols(text[k]) IN sum[Len(text)]

\* The wrap is settled with a blank and a step back, which may strike a cell.
EndRow(s, strikes) ==
  IF s.h < s.term.cols THEN s
  ELSE IF ~s.term.am THEN [s EXCEPT !.h = s.term.cols - 1]
  ELSE [BS(Shown(s, Blank)) EXCEPT !.h = 0, !.v = IF @ + 1 < s.term.rows THEN @ + 1 ELSE @, !.struck = @ \/ strikes]

terminal_overwrite(s, text) ==
  IF text = <<>> THEN s
  ELSE EndRow([Put(Met(s, "edge", s.h = s.term.cols), text) EXCEPT !.h = @ + Sum(text)],
              s.cells[s.base + s.v + 2][1] # Clear)

terminal_deletechars(s, n) ==
  IF n <= 0 \/ ~s.term.delete \/ n > s.term.cols THEN s ELSE Closed(s, n)

\* One cell is opened for one column, before the character that takes it.
RECURSIVE InsertEach(_, _)
InsertEach(s, text) ==
  IF text = <<>> THEN s
  ELSE InsertEach([terminal__putc(IF Cols(Head(text)) = 0 THEN s ELSE Opened(s, Cols(Head(text))), Head(text))
                     EXCEPT !.h = @ + Cols(Head(text))], Tail(text))

terminal_insertwrite(s, text) ==
  IF text = <<>> \/ ~s.term.insert THEN s
  ELSE IF s.term.par /\ Len(text) > 1
  THEN terminal_overwrite(IF Sum(text) > 0 THEN Opened(s, Sum(text)) ELSE s, text)
  ELSE InsertEach(s, text)

terminal_clear_EOL(s, n) ==
  IF n <= 0 THEN s
  ELSE IF s.term.ceol THEN Erased(s)
  ELSE [Put(Met(s, "erase", s.h + n > s.term.cols), [j \in 1..n |-> Blank]) EXCEPT !.h = @ + n]
===============================================================================
