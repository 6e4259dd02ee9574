-------------------------------- MODULE Refresh ---------------------------------
(***************************************************************************)
(* The redisplay: the prompt and the line are drawn into an image of the   *)
(* screen, and what differs from the last image is sent to the terminal,   *)
(* row by row; a character typed at the end goes there at once.            *)
(***************************************************************************)
EXTENDS TermScreen, TLC

CONSTANTS
  TabStop,        \* columns between tab stops
  Settings,       \* a terminal, its prompts, and the lines that are tried on it
  MIN_END_KEEP    \* how long what is kept must be

CTRL == "ctrl"    \* drawn as two characters
Break == "\n"
Tab == "\t"

ASSUME RefreshAssumption == MIN_END_KEEP \in Nat \ {0} /\ TabStop \in Nat \ {0}

VARIABLES
  set,            \* the setting
  line, cursor,
  scr,            \* the screen, and what the library believes of it
  phase,          \* the line is read; it is erased until it is drawn again; or it has ended
  keys            \* BOUND: steps of a line, set.keys at most

vars == <<set, line, cursor, scr, phase, keys>>

\* ct_visual_char.
Visual(c) == IF c = CTRL THEN <<"^", "A">> ELSE <<c>>

-------------------------------------------------------------------------------
(* Drawing.  A drawing has the rows of el_vdisplay up to where they end,   *)
(* the row, and the column in it (r_cursor.v, r_vcursor_h); r_cursor.h is   *)
(* the length of the row.                                                  *)

Drawing(term) == [term |-> term, rows |-> [i \in 1..term.rows |-> <<>>], v |-> 0, vh |-> 0, odd |-> FALSE]
Drawn(d) == d.rows[d.v + 1]
Slots(d) == Len(Drawn(d))

\* re_nextline: from the last row the rows move up.
re_nextline(d) ==
  IF d.v + 1 < d.term.rows THEN [d EXCEPT !.v = @ + 1, !.vh = 0]
  ELSE [d EXCEPT !.rows = Append(Tail(@), <<>>), !.vh = 0]

With(d, slots, w) == [d EXCEPT !.rows[d.v + 1] = @ \o slots, !.vh = @ + w]

Fresh(d) == IF d.vh >= d.term.cols THEN re_nextline(d) ELSE d
Pad(d, w) == IF d.vh < d.term.cols /\ d.vh + w > d.term.cols THEN d.term.cols - d.vh ELSE 0
Padded(d, n) == With(d, [i \in 1..n |-> Blank], n)

\* re_putc of a character that takes room, and of a mark.
re_putc(d, c) ==
  IF Width(c) = 0 THEN With(d, <<c>>, 0)
  ELSE With(Fresh(Padded(d, Pad(d, Width(c)))), IF Width(c) = 2 THEN <<c, FILL>> ELSE <<c>>, Width(c))

re_putliteral(d, c) == Fresh(With(d, <<c>>, Cols(c)))

RECURSIVE PutAll(_, _)
PutAll(d, text) == IF text = <<>> THEN d ELSE PutAll(re_putc(d, Head(text)), Tail(text))

\* A tab goes to the next slot that is a multiple; odd when slots are not columns.
RECURSIVE ToStop(_)
ToStop(d) == IF Slots(d) % TabStop = 0 THEN d ELSE ToStop(re_putc(d, Blank))

\* re_addc.
re_addc(d, c) ==
  CASE c = Break -> re_nextline(d)
    [] c = Tab -> ToStop(re_putc([d EXCEPT !.odd = @ \/ Slots(d) # d.vh], Blank))
    [] OTHER -> PutAll(d, Visual(c))

\* prompt_print.
RECURSIVE prompt_print(_, _)
prompt_print(d, text) ==
  IF text = <<>> THEN d
  ELSE prompt_print(IF Head(text) \in Literals THEN re_putliteral(d, Head(text)) ELSE re_putc(d, Head(text)),
                    Tail(text))

Pos(d) == [h |-> d.vh, v |-> d.v]

RECURSIVE AddAll(_, _)
AddAll(d, text) == IF text = <<>> THEN d ELSE AddAll(re_addc(d, Head(text)), Tail(text))

-------------------------------------------------------------------------------
(* Updating a row.                                                         *)

\* A row of el_display: what is in it, to its end.
Row(slots) == [p \in 1..(EL_BUFSIZ + 1) |-> IF p <= Len(slots) THEN slots[p] ELSE NUL]
Ended(row, p) == [row EXCEPT ![p + 1] = NUL]
Part(row, p, q) == SubSeq(row, p + 1, q)

\* re__copy_and_pad.
re__copy_and_pad(row, slots, width) ==
  [p \in 1..(EL_BUFSIZ + 1) |->
     IF p <= MinOf(Len(slots), width) THEN slots[p] ELSE IF p <= width THEN Blank
     ELSE IF p = width + 1 THEN NUL ELSE row[p]]

re_insert(row, at, dlen, text, n) ==
  LET num == MinOf(n, dlen - at)
  IN IF num <= 0 THEN row
     ELSE [p \in 1..(EL_BUFSIZ + 1) |->
             IF p = dlen + 1 THEN NUL ELSE IF p <= at \/ p > dlen THEN row[p]
             ELSE IF p <= at + num THEN text[p - at] ELSE row[p - num]]

re_delete(row, at, dlen, num) ==
  IF num <= 0 THEN row
  ELSE IF at + num >= dlen THEN Ended(row, at)
  ELSE [p \in 1..(EL_BUFSIZ + 1) |->
          IF p = dlen + 1 THEN NUL
          ELSE IF p > at /\ p <= dlen - num THEN row[p + num] ELSE row[p]]

re__strncopy(row, at, text) ==
  [p \in 1..(EL_BUFSIZ + 1) |-> IF p - at \in 1..Len(text) THEN text[p - at] ELSE row[p]]

\* re_overwrite_nc: with the marks that follow what is written.
Trail(s, row, q, after) ==
  Put(Met(s, "orphan", s.h = 0 /\ \E i \in q..(after - 1) : Slot(row, i) = Mark), Part(row, q, after))
re_overwrite_nc(s, row, p, q) ==
  IF p >= q THEN s ELSE Trail(terminal_overwrite(s, Part(row, p, q)), row, q, NextBase(row, q))

-------------------------------------------------------------------------------
(* re_update_line.  What is the same at the beginning of the old and the    *)
(* new row, in the middle and at their end is kept; what is between is      *)
(* written, and cells are opened or taken away where the lengths differ.    *)

\* The first difference, from the beginning of the cluster it is in.
FirstDiff(old, new) ==
  LET differ == CHOOSE p \in 0..EL_BUFSIZ :
                  /\ Slot(old, p) = NUL \/ Slot(old, p) # Slot(new, p)
                  /\ \A q \in 0..(p - 1) : Slot(old, q) # NUL /\ Slot(old, q) = Slot(new, q)
      within(p) == /\ p > 0 /\ Slot(old, p) \notin Literals
                   /\ Width(Slot(old, p)) = 0 \/ Slot(old, p) = FILL
      back[p \in 0..differ] == IF within(p) THEN back[p - 1] ELSE p
  IN back[differ]

\* The end of a row, without the blanks behind a place.
Stripped(row, p) ==
  CHOOSE e \in p..RowEnd(row) :
    /\ e = p \/ Slot(row, e - 1) # Blank
    /\ \A q \in e..(RowEnd(row) - 1) : Slot(row, q) = Blank

\* Where the same ends begin.
LastSame(old, new, fd, oe, ne) ==
  LET most == MinOf(oe, ne) - fd
      same == CHOOSE n \in 0..most :
                /\ \A j \in 1..n : Slot(old, oe - j) = Slot(new, ne - j)
                /\ n = most \/ Slot(old, oe - n - 1) # Slot(new, ne - n - 1)
      kept == IF same = most THEN same - 1 ELSE same
  IN [ols |-> oe - kept, nls |-> ne - kept]

\* How many slots are the same from a place of each row on, before the ends.
RECURSIVE Match(_, _, _, _, _, _)
Match(a, p, aend, b, q, bend) ==
  IF p < aend /\ q < bend /\ Slot(a, p) = Slot(b, q) THEN 1 + Match(a, p + 1, aend, b, q + 1, bend) ELSE 0

\* The best middle: what is at the first difference of one row, found further
\* on in the other.
Better(best, n, at, m, inserted) ==
  IF best.n < n /\ 2 * n > at - m.fd THEN [n |-> n, at |-> at, inserted |-> inserted] ELSE best

RECURSIVE Middle(_, _, _, _, _, _, _, _)
Middle(a, aend, b, bend, m, at, best, inserted) ==
  IF at >= bend \/ Slot(a, m.fd) = NUL THEN best
  ELSE Middle(a, aend, b, bend, m, at + 1,
              IF Slot(b, at) # Slot(a, m.fd) THEN best
              ELSE Better(best, Match(a, m.fd, aend, b, at, bend), at, m, inserted), inserted)

Longest(old, new, m) ==
  Middle(new, m.nls, old, m.ols, m, m.fd,
         Middle(old, m.ols, new, m.nls, m, m.fd, [n |-> 0, at |-> 0, inserted |-> TRUE], TRUE), FALSE)

\* The places of both rows: they are the same until fd and end at oe and ne; the
\* middle is from osb to ose and from nsb to nse, the same ends are from ols and
\* from nls.  No middle is an empty one before the ends.
MiddleAt(m, best) ==
  IF best.n = 0 THEN [osb |-> m.ols, ose |-> m.ols, nsb |-> m.nls, nse |-> m.nls]
  ELSE IF best.inserted
  THEN [osb |-> m.fd, ose |-> m.fd + best.n, nsb |-> best.at, nse |-> best.at + best.n]
  ELSE [osb |-> best.at, ose |-> best.at + best.n, nsb |-> m.fd, nse |-> m.fd + best.n]
WithMiddle(old, new, m) == MiddleAt(m, Longest(old, new, m)) @@ m

DropMiddle(m, drop) ==
  IF drop THEN [m EXCEPT !.osb = m.ols, !.ose = m.ols, !.nsb = m.nls, !.nse = m.nls] ELSE m
DropEnd(m, drop) == IF drop THEN [m EXCEPT !.ols = m.oe, !.nls = m.ne] ELSE m

\* By how much the new row is longer before the middle, and behind it.
Fx(m) == m.nsb - m.osb
Sx(m) == (m.nls - m.nse) - (m.ols - m.ose)

\* Without the capability, no middle and no end that would need it.
Insertable(term, m, fx, sx) ==
  IF term.insert THEN m ELSE DropEnd(DropMiddle(m, fx > 0), sx > 0 \/ m.ols < m.nls)
Deletable(term, m, fx, sx) ==
  IF term.delete THEN m ELSE DropEnd(DropMiddle(m, fx < 0), sx < 0 \/ m.ols > m.nls)
LongEnough(m) == DropMiddle(m, m.ose - m.osb < MIN_END_KEEP)
Kept(term, m) == LongEnough(Deletable(term, Insertable(term, m, Fx(m), Sx(m)), Fx(m), Sx(m)))

Placed(term, m) == Kept(term, DropEnd(m, m.oe - m.ols < MIN_END_KEEP))
Places(term, old, new, fd, oe, ne) ==
  Placed(term, WithMiddle(old, new, [fd |-> fd, oe |-> oe, ne |-> ne] @@ LastSame(old, new, fd, oe, ne)))

\* The columns of a part of a row.
Span(row, p, q) == display_vcol(row, q) - display_vcol(row, p)

\* Slots are taken for columns: a row has as many slots as columns, and what is
\* opened for the slots by which a part is longer is as wide as the part is wider.
Cramped(s, i) == Met(s, "slots", RowEnd(s.disp[i + 1]) > s.term.cols)
Fitting(s, text, wider) == Met(s, "slots", Sum(text) # wider)

Opening(s, text, wider) == terminal_insertwrite(Fitting(s, text, wider), text)

\* Old and new from their first difference to the middle, when cells have to be
\* opened first.  The cursor is at the first difference.
FirstInsert(s, i, new, m) ==
  LET p == m.fd + Fx(m)
  IN IF m.nsb # m.ne
     THEN [re_overwrite_nc([Cramped(Opening(s, Part(new, m.fd, p),
                                            Span(new, m.fd, m.nsb) - Span(s.disp[i + 1], m.fd, m.osb)), i)
                              EXCEPT !.disp[i + 1] = re_insert(@, m.fd, s.term.cols, Part(new, m.fd, p), Fx(m))],
                           new, p, m.nsb)
             EXCEPT !.disp[i + 1] = re__strncopy(@, p, Part(new, p, m.nsb))]
     ELSE [terminal_overwrite(s, Part(new, m.fd, m.nsb))
             EXCEPT !.disp[i + 1] = re__strncopy(@, m.fd, Part(new, m.fd, m.nsb))]

\* The columns by which the row gets shorter.
Shorter(s, i, new, m) == display_vcol(s.disp[i + 1], m.oe) - display_vcol(new, m.ne)

\* When cells have to be taken away first.
FirstDelete(s, i, new, m) ==
  IF m.osb # m.oe
  THEN [re_overwrite_nc([Cramped(terminal_deletechars(s, Span(s.disp[i + 1], m.fd, m.osb) - Span(new, m.fd, m.nsb)), i)
                           EXCEPT !.disp[i + 1] = re_delete(@, m.fd, s.term.cols, -Fx(m))], new, m.fd, m.nsb)
          EXCEPT !.disp[i + 1] = re__strncopy(@, m.fd, Part(new, m.fd, m.nsb))]
  ELSE terminal_clear_EOL(re_overwrite_nc(s, new, m.fd, m.nsb), Shorter(s, i, new, m))

\* Old and new behind the middle.
SecondDelete(s, i, was, new, m) ==
  IF m.ols # m.oe
  THEN re_overwrite_nc(terminal_deletechars(s, Span(s.disp[i + 1], m.ose, m.ols) - Span(new, m.nse, m.nls)),
                       new, m.nse, m.nls)
  ELSE terminal_clear_EOL(
         Met(re_overwrite_nc(s, new, m.nse, m.nls), "clear",
             LET left == Span(was, m.ose, m.oe) - Span(new, m.nse, m.ne)
             IN left > 0 /\ left > Shorter(s, i, new, m)),
         Shorter(s, i, new, m))

SecondInsert(s, was, new, m) ==
  LET p == m.nse + Sx(m)
  IN IF m.ols # m.oe
     THEN re_overwrite_nc(Opening(s, Part(new, m.nse, p), Span(new, m.nse, m.nls) - Span(was, m.ose, m.ols)),
                          new, p, m.nls)
     ELSE re_overwrite_nc(s, new, m.nse, m.nls)

\* What is kept in the middle ends before marks.
Splits(old, new, m) ==
  m.osb < m.ose /\ (Slot(old, m.ose) = Mark \/ Slot(new, m.nse) = Mark)

\* Cells are opened first if what is kept does not go over the edge.
Early(term, old, new, m) ==
  /\ m.nsb # m.fd /\ Fx(m) > 0
  /\ display_vcol(old, IF m.ols # m.oe THEN m.oe ELSE m.ose)
       + Span(new, m.fd, m.nsb) - Span(old, m.fd, m.osb) <= term.cols

First(s, i, new, m, early) ==
  IF early THEN FirstInsert(terminal_move_to_char(s, display_vcol(new, m.fd)), i, new, m)
  ELSE IF Fx(m) < 0 THEN FirstDelete(terminal_move_to_char(s, display_vcol(s.disp[i + 1], m.fd)), i, new, m)
  ELSE s

\* The first change has written the row to its end.
Complete(m, early) == (early /\ m.nsb = m.ne) \/ (Fx(m) < 0 /\ m.osb = m.oe)

Delete(s, i, was, new, m, from) ==
  IF Sx(m) < 0 /\ from < s.term.cols THEN SecondDelete(terminal_move_to_char(s, from), i, was, new, m) ELSE s
Late(s, i, new, m, early) ==
  IF ~early /\ m.nsb # m.fd /\ Fx(m) >= 0
  THEN FirstInsert(terminal_move_to_char(s, display_vcol(new, m.fd)), i, new, m) ELSE s
Insert(s, was, new, m) ==
  IF Sx(m) >= 0 THEN SecondInsert(terminal_move_to_char(s, display_vcol(new, m.nse)), was, new, m) ELSE s

Rest(s, i, was, new, m, early) ==
  IF Complete(m, early) THEN s
  ELSE Insert(Late(Delete(s, i, was, new, m,
                          display_vcol(s.disp[i + 1], m.ose + IF early \/ Fx(m) < 0 THEN Fx(m) ELSE 0)),
                   i, new, m, early), was, new, m)

InOrder(s, i, was, new, m, early) == Rest(First(s, i, new, m, early), i, was, new, m, early)
Update(s, i, was, new, m) ==
  InOrder(Met(terminal_move_to_line(s, i), "cluster", Splits(was, new, m)), i, was, new, m,
          Early(s.term, was, new, m))

\* The old row is in disp without its blanks.
UpdateTo(s, i, new, fd, oe, ne) ==
  [IF oe = fd /\ ne = fd THEN s
   ELSE Update(s, i, s.disp[i + 1], new, Places(s.term, s.disp[i + 1], new, fd, oe, ne))
     EXCEPT !.disp[i + 1] = re__copy_and_pad(@, Part(new, 0, ne), EL_BUFSIZ)]
UpdateWhole(s, i, new, fd, oe, ne) == UpdateTo([s EXCEPT !.disp[i + 1] = Ended(@, oe)], i, Ended(new, ne), fd, oe, ne)
UpdateFrom(s, i, new, newcv, fd) ==
  UpdateWhole(s, i, new, fd, Stripped(s.disp[i + 1], fd),
              IF i >= newcv \/ ~s.term.am THEN Stripped(new, fd) ELSE RowEnd(new))
re_update_line(s, i, new, newcv) == UpdateFrom(s, i, new, newcv, FirstDiff(s.disp[i + 1], new))

-------------------------------------------------------------------------------
(* What the screen should show: the text laid out on rows, each character   *)
(* whole, a mark with the character before it.                              *)

NewRow(p) == [p EXCEPT !.rows = Append(@, <<>>), !.col = 0]
LastRow(p) == p.rows[Len(p.rows)]

OnRow(p, cells, w) == [p EXCEPT !.rows[Len(p.rows)] = @ \o cells, !.col = @ + w]
Roomy(p, w) == IF p.col + w > p.cols THEN NewRow(p) ELSE p

Laid(p, c) ==
  CASE c = LiteralEnd -> p
    [] c = Break -> NewRow(p)
    [] c = Mark -> [p EXCEPT !.rows[Len(p.rows)][BaseAt(LastRow(p), Len(LastRow(p)))] = Append(@, c)]
    [] c = Literal -> OnRow(Roomy(p, 1), <<<<Glue>>>>, 1)
    [] OTHER -> OnRow(Roomy(p, Width(c)), IF Width(c) = 2 THEN <<<<c>>, <<>>>> ELSE <<<<c>>>>, Width(c))

RECURSIVE TabLaid(_)
TabLaid(p) == IF p.col % TabStop = 0 THEN p ELSE TabLaid(Laid(p, Blank))

RECURSIVE Layout(_, _)
Layout(p, text) ==
  IF text = <<>> THEN p
  ELSE Layout(CASE Head(text) = CTRL -> Laid(Laid(p, "^"), "A")
                [] Head(text) = Tab -> TabLaid(Laid(p, Blank))
                [] OTHER -> Laid(p, Head(text)), Tail(text))

Page(term, text) == Layout([cols |-> term.cols, rows |-> <<<<>>>>, col |-> 0], text)

\* The blank that settled a wrap struck a cell that was not written again.
Holes(cells, shown) == \E j \in 1..Len(shown) : cells[j] = Clear /\ shown[j] # Clear
Image(term, row) == Page(term, SelectSeq(Part(row, 0, RowEnd(row)), LAMBDA c : c # FILL)).rows[1]
Struck(s, last) ==
  s.struck /\ \E i \in 1..last : Holes(s.cells[s.base + i + 1], Image(s.term, s.disp[i + 1]))

-------------------------------------------------------------------------------
(* A whole redisplay.                                                      *)

\* Mutant: the rows in use are not counted.
re_fastputc_resolve_wrap_Uncounted(s) ==
  LET t == [s EXCEPT !.rwrap = FALSE, !.h = 0, !.v = IF @ + 1 < s.term.rows THEN @ + 1 ELSE @]
  IN IF s.term.am THEN BS(Shown(t, Blank)) ELSE NL(t)

\* re_fastputc_resolve_wrap: on to the next row, whose image is blank.
re_fastputc_resolve_wrap(s) ==
  LET last == s.v + 1 >= s.term.rows
      at == IF last THEN s.v ELSE s.oldcv + 1
      moved == IF last THEN Append(Tail(s.disp), Head(s.disp)) ELSE s.disp
      t == [s EXCEPT !.rwrap = FALSE, !.h = 0,
                     !.v = IF last THEN @ ELSE @ + 1, !.oldcv = IF last THEN @ ELSE at,
                     !.disp = [moved EXCEPT ![at + 1] = re__copy_and_pad(@, <<>>, s.term.cols)]]
  IN IF s.term.am THEN BS(Shown(t, Blank)) ELSE NL(t)

\* A wide character that did not fit is still taken to be behind the row it left.
Settled(s) == IF s.rwrap THEN re_fastputc_resolve_wrap(Met(s, "wide", s.h > s.term.cols)) ELSE s

\* The rows that are drawn, and those the line no longer uses.
RECURSIVE UpdateRows(_, _, _, _)
UpdateRows(s, rows, i, newcv) ==
  IF i > newcv THEN s ELSE UpdateRows(re_update_line(s, i, Row(rows[i + 1]), newcv), rows, i + 1, newcv)

RECURSIVE EraseRows(_, _)
EraseRows(s, i) ==
  IF i > s.oldcv THEN s
  ELSE EraseRows([terminal_clear_EOL(terminal_move_to_char(terminal_move_to_line(s, i), 0), RowEnd(s.disp[i + 1]))
                    EXCEPT !.disp[i + 1] = Ended(@, 0)], i + 1)

\* Where the cursor is in the drawing: behind what is before it, in the next
\* row if a wide character comes that does not fit.
CursorIn(before, next) ==
  IF next # <<>> /\ Width(next[1]) > 1 /\ before.vh + Width(next[1]) > before.term.cols
  THEN [h |-> 0, v |-> before.v + 1] ELSE [h |-> Slots(before), v |-> before.v]

Target(cols, col, v) == IF col >= cols THEN [h |-> 0, v |-> v + 1] ELSE [h |-> col, v |-> v]
Aim(image, at) == Target(image.term.cols, display_vcol(Row(image.rows[at.v + 1]), at.h), at.v)

Goto(s, to) == terminal_move_to_char(terminal_move_to_line(s, to.v), to.h)
Finish(s, image, to) == Met(Goto(s, to), "blank", Struck(s, image.v))
Erase(s, image, to) == Finish([EraseRows(s, image.v + 1) EXCEPT !.oldcv = image.v], image, to)
Send(s, image, at) ==
  Erase(UpdateRows(terminal_move_to_char(Settled(s), 0), image.rows, 0, image.v), image, Aim(image, at))

\* re_refresh, by what is drawn next: the prompt, the line before the cursor, the
\* line behind it, the right prompt if there is room for it and a gap.
\* BOUND: the emacs map, where the cursor may be behind the line.
RightPrompt(d, rprompt, gap) == prompt_print(PutAll(d, [i \in 1..(gap - 1) |-> Blank]), rprompt)
SendDrawn(s, image, at, right) == Send([s EXCEPT !.rpos = IF right THEN image.vh ELSE 0], image, at)
DrawRight(s, rprompt, size, at, all) ==
  LET gap == all.term.cols - all.vh - size.h
      right == size.h # 0 /\ size.v = 0 /\ all.v = 0 /\ gap > 1
  IN SendDrawn(Met(Met(s, "wrap", s.rwrap /\ s.h = 0), "tab", all.odd),
               IF right THEN RightPrompt(all, rprompt, gap) ELSE all, at, right)
DrawBehind(s, rprompt, text, k, before) ==
  DrawRight(s, rprompt, Pos(prompt_print(Drawing(s.term), rprompt)),
            CursorIn(before, SubSeq(text, k + 1, MinOf(k + 1, Len(text)))),
            AddAll(before, SubSeq(text, k + 1, Len(text))))
DrawLine(s, rprompt, text, k, prompt) ==
  DrawBehind([s EXCEPT !.struck = FALSE, !.ppos = Pos(prompt)], rprompt, text, k,
             AddAll(prompt, SubSeq(text, 1, k)))
re_refresh(s, prompt, rprompt, text, k) ==
  DrawLine(s, rprompt, text, k, prompt_print(Drawing(s.term), prompt))

-------------------------------------------------------------------------------
(* The other ways to the screen.                                           *)

\* Where re_refresh_cursor finds a place of the line, from the end of the prompt.
Over(cols, at) == IF at.h >= cols THEN [h |-> at.h - cols, v |-> at.v + 1] ELSE at
Straddled(cols, at, w) == IF w > 1 /\ at.h + w > cols THEN [h |-> 0, v |-> at.v + 1] ELSE at
Added(cols, at, c) ==
  CASE c = Break -> [h |-> 0, v |-> at.v + 1]
    [] c = Tab -> [at EXCEPT !.h = @ + (TabStop - (@ % TabStop))]
    [] c = CTRL -> [at EXCEPT !.h = @ + 2]
    [] OTHER -> [Straddled(cols, at, Width(c)) EXCEPT !.h = @ + Width(c)]
Walk(cols, from, text) ==
  LET walk[j \in 0..Len(text)] == IF j = 0 THEN from ELSE Over(cols, Added(cols, walk[j - 1], text[j])) IN walk

\* A row that is full when it is broken is counted twice.
Twice(text, k, walk) == \E j \in 2..k : text[j] = Break /\ text[j - 1] # Break /\ walk[j - 1].h = 0

NextWidth(text, k) == IF k < Len(text) THEN Width(text[k + 1]) ELSE 0
CursorTo(s, text, k, walk) == Straddled(s.term.cols, walk[k], NextWidth(text, k))
AlongWalk(s, text, k, walk) == Goto(Met(s, "break", Twice(text, k, walk)), CursorTo(s, text, k, walk))
re_refresh_cursor(s, text, k) == AlongWalk(Settled(s), text, k, Walk(s.term.cols, s.ppos, SubSeq(text, 1, k)))

\* re_cursor_at_width: where the cursor is after the terminal has changed its width,
\* which a wrap that waits leaves at the edge.
Reflow(cols, from, text) ==
  LET walk[j \in 0..Len(text)] == IF j = 0 THEN from ELSE Added(cols, Over(cols, walk[j - 1]), text[j])
  IN walk[Len(text)]
ReflowTo(s, cols, k) == Reflow(cols, [h |-> s.ppos.h % cols, v |-> s.ppos.v + s.ppos.h \div cols], SubSeq(line, 1, k))
re_cursor_at_width(s, cols) ==
  LET at == ReflowTo(s, cols, cursor)
  IN Straddled(cols, IF s.term.late THEN at ELSE Over(cols, at), NextWidth(line, cursor))

\* re_fastputc.  The slot the character is put into, for the column.
FastSlot(found, h) == IF found.vis < h THEN h ELSE found.p
Stored(s, c, w, p) ==
  [Met(s, "stale", w > 0 /\ Slot(s.disp[s.v + 1], p) = NUL /\ Slot(s.disp[s.v + 1], p + w) \notin {NUL, Blank})
     EXCEPT !.disp[s.v + 1] =
              [q \in DOMAIN @ |-> IF q = p + 1 THEN c ELSE IF q = p + 2 /\ w = 2 THEN FILL ELSE @[q]],
            !.h = IF w > 0 THEN @ + w ELSE @,
            !.rwrap = @ \/ (IF w > 0 THEN s.h + w ELSE s.h) >= s.term.cols]

\* A wide character that does not fit is put behind a blank, which only puts a wrap off.
Fits(s, w) == w <= 1 \/ s.rwrap \/ s.h + w <= s.term.cols
FastPut(s, c, w) ==
  Stored(Met(terminal__putc(s, c), "newline", c = Break), c, w,
         FastSlot(SlotOf(s.disp[s.v + 1], s.h, 0, 0), s.h))

RECURSIVE re_fastputc(_, _)
Counted(s) == [s EXCEPT !.oldcv = IF s.v > @ THEN s.v ELSE @]
Fast(s, c, w) == FastPut(IF Fits(s, w) THEN s ELSE re_fastputc(s, Blank), c, w)
Begun(s, w) == IF w # 0 THEN Settled(s) ELSE Met(s, "orphan", s.h = 0)
FastOf(s, c, w) == Fast(Begun(Counted(s), w), c, w)
re_fastputc(s, c) == FastOf(s, c, IF c = Break THEN -1 ELSE Width(c))

RECURSIVE FastAll(_, _)
FastAll(s, text) == IF text = <<>> THEN s ELSE FastAll(re_fastputc(s, Head(text)), Tail(text))

\* re_fastaddc, of the character before the cursor.
re_fastaddc(s, prompt, rprompt, text, k) ==
  IF k = 0 \/ text[k] = Tab \/ k # Len(text) \/ (s.rpos # 0 /\ s.term.cols - s.h - s.rpos < 3)
  THEN re_refresh(s, prompt, rprompt, text, k) ELSE FastAll(s, Visual(text[k]))

re_clear_display(s) ==
  [s EXCEPT !.v = 0, !.h = 0, !.oldcv = 0, !.disp = [i \in DOMAIN @ |-> Ended(@[i], 0)]]

re_goto_bottom(s) == re_clear_display(NL(terminal_move_to_line(s, s.oldcv)))

\* One row of what is above stays on the screen, as output of the client.
Output(term) == [j \in 1..term.cols |-> <<"o">>]
FromHere(s) ==
  [s EXCEPT !.cells = <<Output(s.term)>> \o SubSeq(@, s.row + 1, s.term.rows) \o [i \in 1..(s.row - 1) |-> EmptyRow(s)],
            !.row = 1, !.base = 1]

RECURSIVE ClearUp(_, _)
ClearUp(s, i) ==
  IF i < 0 THEN s
  ELSE ClearUp(terminal_clear_EOL(terminal_move_to_char(terminal_move_to_line(s, i), 0), s.term.cols), i - 1)

\* Without the capability the line is drawn again below.
ClearLines(s) ==
  IF s.term.ceol THEN ClearUp(s, s.oldcv) ELSE FromHere(NL(CR(terminal_move_to_line(s, s.oldcv))))
re_clear_lines(s) == ClearLines(Met(s, "wrap", s.rwrap))

Text == set.prompt \o line

\* The place behind a text, before what comes next.
BehindPage(p, w) ==
  IF p.col + w <= p.cols THEN [row |-> Len(p.rows) - 1, col |-> p.col] ELSE [row |-> Len(p.rows), col |-> 0]
Behind(term, text, next) ==
  BehindPage(Page(term, text), IF next = <<>> \/ next[1] = Break THEN 1 ELSE Width(next[1]))

Height == Len(Page(scr.term, Text).rows)
Before == SubSeq(line, 1, cursor)
After == SubSeq(line, cursor + 1, Len(line))
CursorPlace == Behind(scr.term, set.prompt \o Before, After)

\* The right prompt, one column from the edge, when the line leaves room for it
\* and a gap.
RightOf(p, q) ==
  LET start == p.cols - 1 - q.col
  IN IF q.col > 0 /\ Len(p.rows) = 1 /\ p.col < start THEN [j \in 1..(start - p.col) |-> Clear] \o q.rows[1]
     ELSE <<>>

Filled(term, row) == row \o [j \in 1..(term.cols - Len(row)) |-> Clear]
PictureOf(s, p, right) ==
  [i \in 1..s.term.rows |->
     IF i <= s.base THEN Output(s.term)
     ELSE IF i - s.base > Len(p.rows) THEN Filled(s.term, <<>>)
     ELSE Filled(s.term, p.rows[i - s.base] \o IF i - s.base = 1 THEN right ELSE <<>>)]
PictureOn(s, p) == PictureOf(s, p, RightOf(p, Page(s.term, set.rprompt)))
PictureIn(s) == PictureOn(s, Page(s.term, Text))
Picture == PictureIn(scr)

-------------------------------------------------------------------------------
(* The size of the terminal.                                               *)

EmptyDisplay(term) == [i \in 1..term.rows |-> Row(<<>>)]

\* BOUND: the terminal has wrapped the line again before the library knows, and
\* shows the cursor with its character.
AtPlace(s, p, next, at) ==
  IF s.term.late /\ next = <<>> /\ p.col = s.term.cols
  THEN [s EXCEPT !.row = s.base + at.row - 1, !.col = s.term.cols - 1, !.wrap = TRUE]
  ELSE [s EXCEPT !.row = s.base + at.row, !.col = at.col, !.wrap = FALSE]
Wrap(s) ==
  AtPlace([s EXCEPT !.cells = PictureIn(s)], Page(s.term, set.prompt \o Before), After,
          Behind(s.term, set.prompt \o Before, After))
Resized(s, cols) == [s EXCEPT !.term.cols = cols]
Bare(s) == [s EXCEPT !.cells = [i \in 1..s.term.rows |-> IF i <= s.base THEN Output(s.term) ELSE EmptyRow(s)]]
Widened(s, cols) == Bare(Resized(s, cols))

\* The terminal is cleared from the cursor on, from the beginning of a row.
ClearDown(s) == [s EXCEPT !.cells = [i \in DOMAIN @ |-> IF i > s.row THEN EmptyRow(s) ELSE @[i]]]

\* The row where the cursor is found is not its row (it is where a row that is full
\* ends and the line goes on, or behind a control character that is broken), or the
\* line has one row and nothing is sent; or the line that is measured has ended.
Mistaken(s, at) ==
  IF phase = "ended" THEN at.v > 0
  ELSE (s.oldcv = 0 /\ at.v = 0) \/ at.h > s.term.cols \/ (cursor < Len(line) /\ at.h = s.term.cols)

\* terminal_change_size, after the cursor was found.  BOUND: the terminal can clear
\* to the end of the display; the number of its rows stays.
ChangeSize(s, at) ==
  re_clear_display([IF s.oldcv > 0 \/ at.v > 0 THEN ClearDown(CR(Up(s, at.v))) ELSE s
                      EXCEPT !.disp = EmptyDisplay(s.term)])
BrokenFull(s) == \E j \in 1..cursor : line[j] = Break /\ ReflowTo(s, s.term.cols, j - 1).h >= s.term.cols
MetSize(s, at) == ChangeSize(Met(Met(s, "size", Mistaken(s, at)), "break", BrokenFull(s)), at)
terminal_change_size(s) == MetSize(s, re_cursor_at_width(s, s.term.cols))

el_resize(s, cols) ==
  IF cols = s.term.cols THEN s
  ELSE terminal_change_size(IF phase = "ended" THEN Widened(s, cols) ELSE Wrap(Resized(s, cols)))

-------------------------------------------------------------------------------
(* The line.                                                               *)

BlankScreen(term) ==
  [term |-> term, cells |-> [i \in 1..term.rows |-> [j \in 1..term.cols |-> Clear]],
   base |-> 0, row |-> 0, col |-> 0, wrap |-> FALSE, v |-> 0, h |-> 0,
   disp |-> EmptyDisplay(term), oldcv |-> 0, rwrap |-> FALSE, ppos |-> [h |-> 0, v |-> 0], rpos |-> 0,
   met |-> {}, struck |-> FALSE]

\* BOUND: the line, and the cursor, stay on the screen.
OnScreen(term, text) == Behind(term, set.prompt \o text, <<>>).row + 2 < term.rows

\* A place between two characters, not before a mark.
Between(text, k) == k < Len(text) => text[k + 1] # Mark

Init ==
  /\ set \in Settings
  /\ line = <<>> /\ cursor = 0 /\ phase = "reading" /\ keys = 0
  /\ scr = re_refresh(FromHere([BlankScreen(set.term) EXCEPT !.row = 1]), set.prompt, set.rprompt, <<>>, 0)

Step == scr.met = {} /\ keys < set.keys /\ keys' = keys + 1

\* ed_insert.
Type(c) ==
  LET text == SubSeq(line, 1, cursor) \o <<c>> \o SubSeq(line, cursor + 1, Len(line))
  IN /\ phase = "reading" /\ Step
     /\ c = Mark => cursor > 0 /\ line[cursor] # Break
     /\ Len(line) < set.max /\ OnScreen(scr.term, text)
     /\ line' = text /\ cursor' = cursor + 1
     /\ scr' = re_fastaddc(scr, set.prompt, set.rprompt, text, cursor + 1)
     /\ UNCHANGED <<set, phase>>

\* A command that changes the line and returns CC_REFRESH.
Replace(text, k) ==
  /\ phase = "reading" /\ Step
  /\ text # line /\ OnScreen(scr.term, text) /\ Between(text, k)
  /\ line' = text /\ cursor' = k
  /\ scr' = re_refresh(scr, set.prompt, set.rprompt, text, k)
  /\ UNCHANGED <<set, phase>>

\* A command that moves the cursor and returns CC_CURSOR.
MoveTo(k) ==
  /\ phase = "reading" /\ Step /\ k # cursor /\ Between(line, k)
  /\ cursor' = k
  /\ scr' = re_refresh_cursor(scr, line, k)
  /\ UNCHANGED <<set, line, phase>>

\* ed_redisplay: CC_REDISPLAY.
Redisplay ==
  /\ phase = "reading" /\ Step
  /\ scr' = re_refresh(re_clear_display(re_clear_lines(scr)), set.prompt, set.rprompt, line, cursor)
  /\ UNCHANGED <<set, line, cursor, phase>>

\* ed_clear_screen: the terminal is cleared, and the display drawn again.
ClearScreen ==
  /\ phase = "reading" /\ Step
  /\ scr' = re_refresh(re_clear_display([BlankScreen(scr.term) EXCEPT !.disp = scr.disp, !.rwrap = scr.rwrap]),
                       set.prompt, set.rprompt, line, cursor)
  /\ UNCHANGED <<set, line, cursor, phase>>

\* ed_newline.
Enter ==
  /\ phase = "reading" /\ Step
  /\ scr' = re_goto_bottom(scr)
  /\ phase' = "ended"
  /\ UNCHANGED <<set, line, cursor>>

\* EL_ERASELINE.
EraseLine ==
  /\ phase = "reading" /\ Step
  /\ scr' = re_clear_display(re_clear_lines(scr))
  /\ phase' = "erased"
  /\ UNCHANGED <<set, line, cursor>>

\* SIGWINCH, or a call of el_resize.
Resize(cols) ==
  /\ phase = "reading" /\ Step /\ cols # scr.term.cols /\ OnScreen(Resized(scr, cols).term, line)
  /\ scr' = el_resize(scr, cols)
  /\ phase' = "erased"
  /\ UNCHANGED <<set, line, cursor>>

\* EL_REFRESH, after output that ended at the beginning of a row, if any.
RefreshLine(output) ==
  /\ phase = "erased" /\ scr.met = {}
  /\ scr' = re_refresh(re_clear_display(IF output THEN FromHere(NL(scr)) ELSE scr), set.prompt, set.rprompt, line, cursor)
  /\ phase' = "reading"
  /\ UNCHANGED <<set, line, cursor, keys>>

\* read_prepare, after output that ended at the beginning of a row: the rows are
\* counted from there.  The terminal may have another width than at the last line.
Begin(cols) ==
  /\ phase = "ended" /\ scr.met = {}
  /\ line' = <<>> /\ cursor' = 0 /\ phase' = "reading"
  /\ scr' = re_refresh(re_clear_display(el_resize(FromHere(scr), cols)), set.prompt, set.rprompt, <<>>, 0)
  /\ UNCHANGED <<set, keys>>

Next ==
  \/ \E c \in set.chars : Type(c)
  \/ \E text \in set.lines : \E k \in {0, Len(text)} : Replace(text, k)
  \/ \E k \in 0..Len(line) : MoveTo(k)
  \/ Redisplay \/ ClearScreen \/ EraseLine \/ Enter
  \/ \E cols \in set.widths : Resize(cols)
  \/ \E output \in BOOLEAN : RefreshLine(output)
  \/ \E cols \in set.widths \cup {scr.term.cols} : Begin(cols)

Spec == Init /\ [][Next]_vars

-------------------------------------------------------------------------------
\* The cursor; one that waits at the edge counts as in the next row.
At(s) ==
  IF s.wrap \/ (s.rwrap /\ ~s.term.am) THEN [row |-> s.row + 1 - s.base, col |-> 0]
  ELSE [row |-> s.row - s.base, col |-> s.col]

Shows ==
  CASE phase = "reading" -> scr.cells = Picture /\ At(scr) = CursorPlace
    [] phase = "erased" -> scr.cells = Bare(scr).cells /\ At(scr) = [row |-> 0, col |-> 0]
    [] OTHER -> /\ scr.cells = Picture
                /\ At(scr).col = 0 /\ At(scr).row \in {Height, Behind(scr.term, Text, <<>>).row + 1}

\* After every command the terminal shows the prompt and the line and nothing
\* else below what was there before, and its cursor is where the line's is; at the
\* end of the line the output goes on below it; when the line was erased or the
\* terminal has got another width, it is gone and the cursor is where it began.
\* It does so as long as the code was in none of the situations it does not handle
\* (met, listed in TermScreen): what is kept of each row, the cells that are opened
\* and taken away, the rows that are erased and the wraps that are put off add up
\* to the picture.
\* (re_update_line, re_refresh, re_fastputc, re_refresh_cursor, re_goto_bottom,
\* re_clear_lines, terminal_change_size)
ScreenShows == scr.met = {} => Shows

\* re_clear_eol is there "to make sure that we have cleared the previous contents
\* of the line": where the picture is blank, so is the screen.  (refresh.c:690)
LineCleared ==
  phase = "reading" =>
    \A i \in DOMAIN scr.cells : \A j \in 1..scr.term.cols : Picture[i][j] = Clear => scr.cells[i][j] = Clear
===============================================================================
