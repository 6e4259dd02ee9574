# A TLA+ model of winlibedit

These modules model winlibedit, the line editor of `src/src`: what the functions do to the state
of an `EditLine`, a `History` and a `Tokenizer`, step by step, with the orders, failures and bounds that
tests hardly reach. Each module is checked by TLC on a small instance; for nine of them TLAPS proves
what the runs check for every value of the constants. `PROJECT.json` names the lines each definition
stands for.

## The system

| Part | State | Operations | Interacts with |
|---|---|---|---|
| history list (`history.c`) | circular list of events, cursor, size, last number, `h_ent`, functions in use | the `H_` calls, save and load | called by the application and through `hist_fun_t` by the editor |
| line and editing (`chared.c`, `common.c`, `emacs.c`, `vi.c`) | buffer, cursor, kill buffer, mark, pending operator, redo buffer, input mode | one function per command | run by the dispatch loop; reads keys itself in some commands |
| undo and redo (`chared.c`, `c_undo_*`) | two stacks of saved lines, the line as last recorded | record after each command, undo, redo, reset | runs after every command; depends on `lastcmd` |
| history on the line (`hist.c`, `search.c`) | `eventno`, the saved line, the search pattern | `hist_get`, searches | composes the line, undo and the history list |
| key bindings (`map.c`, `keymacro.c`, part of `terminal.c`, `tty.c`) | two tables, a tree of key sequences, arrow keys | bind, unbind, standard bindings, arrow keys, tty characters | read by the dispatch loop |
| reading keys (`read.c`) | queue of strings, argument, `metanext`, pending sequence | `el_wgetc`, `read_getcmd`, `el_wgets`, `el_wpush` | everything |
| tokenizer (`tokenizer.c`) | words so far, quoting state, buffers | `tok_line`, `tok_str`, `tok_reset` | `parse.c`, applications |
| refresh, terminal, prompt, literal (`refresh.c`, `terminal.c`, `prompt.c`, `literal.c`, `win_ncurses.c`) | what is on the screen, capabilities | redraw, cursor motion | after each command |
| tty and signals (`tty.c`, `sig.c`) | modes, special characters, saved handlers | raw and cooked mode, quote mode, handlers | around each line |
| completion (`filecomplete.c`) | none of its own between calls | complete, list | line, readline |
| readline interface (`readline.c`) | globals over one `EditLine` and one `History` | the GNU names | everything |
| conversions (`chartype.c`, `utf8.c`, `vis.c`, `unvis.c`, `wcwidth.c`) | conversion buffers | encode, decode | everything |

### What is hard in it

The library runs in one thread; what interleaves with it are signals, whose handlers change the terminal between any two of
its steps. Beyond that the hard part is the order of calls and what is left over from one to the next:

* state that outlives the thing it describes: `h_ent`, the cursor on a freed event, `el_history.buf`
  from an earlier line, an event number in an undo snapshot, a character that still leads in;
* one command seen by several mechanisms in a fixed order: the command, then the undo record,
  then `lastcmd`, then the argument;
* failures half-way: an allocation between two related updates, a load that stops, a read that fails inside
  a key sequence or a command, a device that cannot be set;
* three notions of place on the screen, characters, slots of `el_display` and columns, and what the library believes
  the terminal to show, which nothing ever compares with the terminal;
* bounds: undo stacks, list size, the queue of ten strings, the buffers of the tokenizer and of the line.

## Modules

Each component has the actions its code has entry points; what a call does is one step unless something can come between.

| Module | Models | State and actions |
|---|---|---|
| `HistoryLog` | what a history promises | numbered events; enter, edit, delete, clear |
| `History` | `history.c` | one action per `H_` call; `H_LOAD` is one step per line, because each can fail and one that cannot be decoded is passed over |
| `HistoryProofs` | - | the theorems about `History` and `RlHistory` |
| `UndoTimeline` | what undo promises | the states of the line and the place of the present one |
| `Undo` | `c_undo_*` driven by the loop of `el_wgets` | one action per turn of the loop: the command, the record, `lastcmd` |
| `HistNav` | `hist_get` and the commands that call it, in `common.c` and `vi.c`, composed with `Undo` | extends `Undo`; one action per command |
| `HistNavProofs` | - | the theorems about `Undo`, `HistNav` and `HistSearch` |
| `HistSearch` | `ce_inc_search` and `cv_search` (`search.c`) among the commands of `HistNav` | extends `HistNav`; a step is a key, the stack is that of the C calls |
| `KeyChars` | `N_KEYS` and the meta bit | the characters a table has a command for; no state |
| `KeyTable` | what the map of key sequences promises | a table of sequences none of which begins another |
| `KeyMap` | the tables of `map.c`, the tree of `keymacro.c` and all that rebinds keys | one action per form of `bind`, and for the standard bindings, the terminal and the tty |
| `InputQueue` | what the manual says of the input queue | characters waiting, the last one taken |
| `ReadLoop` | `el_wgets`, `el_wgetc`, `read_getcmd`, `el_wpush` of `read.c`, `node_trav`, the commands that act on the loop | one action per character taken, per lookup, per command |
| `KeyProofs` | - | the theorems about `KeyMap` and `ReadLoop` |
| `Tokenizer` | `tokenizer.c` | one action per kind of character and quoting state; the end of a line, a reset |
| `TokenizerWords` | the grammar of words | what a row of characters spells; no state of its own |
| `TokenizerProofs` | - | the theorems about `Tokenizer`, against `TokenizerWords` |
| `LineText` | words, graphemes and case of `chared.c`, `common.c` and `emacs.c` | operators on a text and places in it; no state |
| `LineEdit` | the emacs map as it edits the line, the `el_` calls on the line, `ch_enlargebufs` | one action per command or call |
| `LineTextProofs` | - | lemmas on `LineText`, which the next module and `ViEditProofs` rest on |
| `LineEditProofs` | - | the theorems about `LineEdit` |
| `ViEdit` | both vi maps as they edit the line, the redo record of `el_wgets`, the keys `el_wpush` puts back | one operator per command; a turn of the loop is a step |
| `ViEditProofs` | - | the theorems about `ViEdit` |
| `RlHistory` | the history functions of `readline.c` over `History` | the three numbers beside the list; one action per function |
| `TtyModes` | `tty.c`: settings, masks and characters of the three modes | operators on the record of a terminal; no state of its own |
| `TtySession` | `el_wgets` and the ways to read a line as they set the terminal and the handlers of `sig.c` | the thread's place; one action per call on the device, signals between any two |
| `TtySessionProofs` | - | the theorems about `TtySession` |
| `TermScreen` | the output functions of `terminal.c`, and the terminal that gets it | operators on a screen and on what the library takes it to be; no state of its own |
| `Refresh` | `refresh.c`, `prompt.c` and the commands that draw | line, cursor and screen; one action per return code of a command, and for `EL_ERASELINE`, `EL_REFRESH` and a new width |
| `MC...` | - | the instances TLC checks |

`HistNav` extends `Undo`, `HistSearch` extends `HistNav`, `RlHistory` extends `History`, `TtySession` extends `TtyModes` and `Refresh` extends `TermScreen`: the
second of each pair is used as it is, so what one does the other sees. `LineEdit` and `ViEdit` share `LineText`, `KeyMap` and `ReadLoop` share `KeyChars`.
`History`, `Undo`, `KeyMap` and `ReadLoop` implement `HistoryLog`, `UndoTimeline`, `KeyTable` and `InputQueue`.

How state corresponds to code, where it is not by name:

* `History.list` is the circular list from `header.next` on, newest first. The cursor is the number of the
  event it points to, 0 for the header. `loading.base`, `bad` and `entered` are auxiliary: what the list held, which lines of the file
  could not be decoded and which were entered.
* `Undo.slipped` is auxiliary: a run of typing has begun behind an undo without being recorded. `Undo.line` is `el_line` with `el_history.eventno`. `in_undo` is set and cleared within one turn and has no
  variable. `short` says that memory has run short: from then on each allocation may fail or not.
* `HistNav.draft` is auxiliary, and so is `HistSearch.lost`: it is set where a search writes over the line nobody has saved. `HistSearch.failing` is the static `pchar`.
  `events` is what `HIST_FIRST` and `HIST_NEXT` answer.
* `KeyMap.tree` is the tree of nodes as the set of its paths: a node's `next` is not NULL where a
  longer path goes through it. `aborted` is what `EL_ABORT` leaves.
* `ReadLoop.at` is where `el_wgets` is: between two steps it may wait, and the input may end. `cmd` and `ch` are its locals
  `cmdnum` and `ch`, reset when they are dead. `filled` is all that is kept of the line; `lastcmd` tells the universal
  argument from the others. `taken` and `argkeys` are auxiliary.
* `Tokenizer.text` is the word buffer from `wspace` to `wptr`; `wstart` and `argv` hold offsets in it, which is what stays
  of an address when the buffer moves. `input` and `beyond` are auxiliary: what was scanned, and that the scan has gone on
  behind the end of a line.
* A place of `LineEdit` (`cursor`, `mark`) is a pointer less `el_line.buffer`, which is what stays of it when the buffer moves; it may be
  outside the line where the code lets it be. `limit` and `size` count characters, `size` for each of the four buffers that grow together.
  `lead` is between the two halves of a typed code point. `Old` is any character left behind the end of the line by an earlier one.
* `ViEdit.Redrawn` is what `SIGCONT` does to the cursor while a key is waited for (`src/read.c:345`). `ViEdit.count` is `argument` while `doingarg` is set, and 0 otherwise; `redo.keys` is the redo buffer to its position. `played` is auxiliary:
  the record that is being played back. The replace modes are `mode`, the maps `map`.
* `RlHistory` adds to the state of `History` only `history_length`, `history_offset` and `history_base`. The current event is the cursor
  of the list; a file is its lines.
* `TtyModes` has flags in sets, one for each field of a `termios`, with one or two flags of each kind `tty.c` tells apart, and two characters.
  `TtySession.phase` is where the thread is and `after` where it goes next. `wanted`, `last` and `excuses` are auxiliary: what the user
  and the program asked for last, and what need not hold between lines any more.
* A screen of `TermScreen` has the cells and the cursor of the terminal (`cells`, `row`, `col`, `wrap`) beside `el_display` (`disp`),
  `el_cursor` (`v`, `h`), `r_oldcv`, `r_wrap_pending` (`rwrap`) and the positions of the prompts. `base` is the row the
  prompt began on. `met` and `struck` are auxiliary. A drawing of `Refresh` is `el_vdisplay` with `r_cursor`; a row is the sequence of its slots,
  where `re_update_line`'s pointers are places.

## Runs

| Run | Instance | What it shows |
|---|---|---|
| `history` | `MCHistory.cfg` | Every order of the history calls on a list of up to three events: the cursor, the numbering, the size limit, a load that passes over lines or stops half-way, and the refinement of the numbered log. Properties: `TypeOK`, `CursorLive`, `NumbersDescend`, `LoadedSoFar`, `OneEventEdited`, `ImplementsLog`. |
| `undo` | `MCUndo.cfg` | Every run of typing, quoting, erasing, moving, undoing and redoing with a stack of two on two-character lines, with code points of two wchar_t and with memory that may run short at any time: the record follows the line, the stacks keep their bound and are a timeline, which an edit cuts off. Properties: `StacksBounded`, `CurIsLine`, `ImplementsTimeline`. |
| `nav` | `MCHistNav.cfg` | Going up and down the history and searching it, key by key or for a pattern, while a line is typed and edited: the event number names an event, the line left for an event comes back as it was left, or as much of it as the buffer is given, and an aborted search gives back the line it began on, likewise. Properties: `EventnoInRange`, `DraftFound`, `AbortReturns`. |
| `keymap` | `MCKeyMap.cfg` | Every order of binds, unbinds, standard bindings, new terminals and changed tty characters on two tables that share a map of sequences: the map stays a table of sequences none of which begins another, all of them bound and all of them in reach. Properties: `LeavesBound`, `KeysReachable`, `BindTakesEffect`, `ImplementsTable`. |
| `read` | `MCReadLoop.cfg` | Keys that are inserted, arguments, meta, quoting, key sequences bound to commands and strings, with reads that fail anywhere, buffered and not: the queue is taken in order and drained, and no argument or meta is left over. Properties: `ArgumentAsTyped`, `MetaForNextKey`, `ImplementsQueue`, `QueueDrains`. |
| `tokenizer` | `MCTokenizer.cfg` | Every row of five characters of every kind, in any number of lines, scanned with buffers that grow at the first character and allocations that fail anywhere: the words are those the grammar spells, the cursor is in one of them, and nothing is written behind a buffer. Properties: `TypeOK`, `BuffersHold`, `WordsSpelt`, `CursorInWord`. |
| `line` | `MCLineEdit.cfg` | The emacs commands and the calls of an application on lines of up to three characters, with pairs and combining marks, in buffers that must grow and may fail to at each of them: the line fits in them, the cursor leaves it by three ways only, what is cut is kept, and no command that goes by graphemes or words cuts a code point in half. Properties: `BuffersHold`, `CursorStays`, `CutIsKept`, `CodePointsKept`, `LettersKept`. |
| `readline` | `MCRlHistory.cfg` | Every order of the history functions of the readline interface on up to three events, stifled and not, with files that fail half-way: the length kept beside the list is the list's, the numbers of readline name the same events after an event is added, and the functions that only look leave the current event. Properties: `LengthExact`, `NumbersStay`, `LooksLeaveCursor`. |
| `tty` | `MCTtySession.cfg` | Lines read by el_gets, readline() and the callbacks of readline, with INT, TSTP and CONT at any point, a device that cannot be set, quoted keys, and one change by the user or the program: the terminal is cooked between lines, the settings of the user last, and the handlers of the program come back. Properties: `CookedBetween`, `UserSettingsKept`, `HandlersBack`. |
| `vi` | `MCViEdit.cfg` | Six keys of both vi maps on lines that must grow and may not: operators with every motion, counts, replacing, pasting, character searches and the redo command, with the keys it pushes back, and the cursor where a redisplay puts it. The modes agree, a record that is played back is recorded again, what is cut is kept and the cursor stays in the line, in the command map on a character of it. Properties: `ModesAgree`, `RedoKeepsRecord`, `CutIsKept`, `CursorStays`. |
| `refresh` | `MCRefresh.cfg` | Lines of up to six characters with wide ones, combining marks, escape sequences in two prompts, tabs and newlines, typed, replaced, erased and drawn again on nine kinds of terminals with rows of four to eight columns, two of which change their width: after each command the screen is the picture of the line, unless one of the named situations was met. Properties: `ScreenShows`. |
| `refresh_clear` (counterexample) | `MCRefreshClear.cfg` | A line that is replaced by one that begins with its last character leaves a character of the old one on the screen. Properties: `LineCleared`. |

The bounds are the smallest at which the cases of interest meet: three events are a newest, an oldest and one
between; texts of one and two equal characters are duplicates, prefixes and extensions of each other;
an undo stack of two fills, drops its oldest line and still has one to redo; a table of eight keys has one of each
kind of the standard tables, with and without the meta bit. Sizes, texts and arguments reach past
both ends. None of the properties depends on the value of a character, so no more of them are needed.

`MCUndo` types a letter and code points of two `wchar_t`; a space, which ends a run of typing, is typed in `MCHistNav`, and the proofs hold for every set of keys. `MCHistNav` has an `EL_BUFSIZ` of one, so every line of two characters is cut where it is saved; the
rest of `el_history.buf` is NULs. A line that has come back cut is not searched from, as `src/common.c:797` compares as many characters as the line has with an event that may be shorter, and
reads behind its end. There is memory for an event longer than the line's buffer (`src/hist.c:134`). `MCHistNav` leaves undo out of the commands of the emacs map in the run `nav`: with it the typed line is lost where
undo restores the event number of the line before (see below). The vi map has it, and there only `EventnoInRange` is claimed. Searches are of one character, three calls deep: one begins,
one has found it or not, one goes on or starts again. `View` leaves out of the comparison of states what the last command was beyond typing or
searching, and in the emacs map the stacks of undo, on which nothing there depends. An abort may leave the cursor behind the end of the line (see below); the next step there is another search or the end of the line. `MCKeyMap` binds keys
below `N_KEYS` only (see below). Its deadlock check is off because the program really stops where it aborts.

`MCReadLoop` has one key of each kind, with chains of strings two levels deep and a queue of three. `MaxArgument` bounds the
argument typed at the terminal only; strings still go beyond it.

`MCTokenizer` has one character of each kind and every input of five, which is a word with an escape within quotes and one more
character. Its increments are the least that hold more than the margin, so a buffer grows at the first character and again after
each few; the real ones are twenty and ten. After a failed allocation the only call is `tok_reset`: a caller that goes on calling
writes two characters more each time, and the margin is for the first.

`MCLineEdit` has lines of three characters: a letter with a letter on each side, a pair and a mark on it, a character on each side of a
newline. The buffers hold fewer than three at first, so each line of three has seen them grow, after any number of failures. Two commands
put text in, which with arguments, the strings, the cut buffer and copied words makes lines with a newline, a mark or a pair at either end; `MaxKept` is a pair. What commands do once
the cursor is outside the line or half a pair is alone is not followed: the next step there is `ch_reset`, the second half of the pair,
or none, so its deadlock check holds.

`MCViEdit` has six keys from all of both maps, one letter for all that insert themselves, an alias of two keys, on lines of up to five characters with a word of each kind of motion, a bracket pair and a blank; a buffer of
four grows or not at the fifth, and the redo buffer of three keys overflows. Counts are at most two. Its deadlock check is off because the keys
are used up. Keys of undo, history and search are the matter of `Undo` and `HistNav`; ESC in the command map does not change the next key.

`MCRlHistory` has three events of two texts, of which one contains the other: prefixes, substrings and duplicates. Sizes below and at what the list
holds, places beyond both ends, and files that stop half-way.

`MCTtySession` has one change by the user, the program or its flags, at any point, and any number of signals and lines, as the state comes back to
itself. One change meets every later step; handlers run one at a time, setting the device and noting it are two steps where a line begins and
ends, and one in `EL_PREP_TERM`. `EL_SIGNAL` changes between lines only.

`MCRefresh` has nine terminals of five rows: with wraps that are put off, taken at once or absent; with all of insertion, deletion, clearing and
absolute motion, with none, and with some. Rows have four, five or eight columns, so that each line of up to six characters wraps, may end at the edge
exactly, and has a wide character at the edge. `EL_BUFSIZ`, the distance of absolute motion (4), tab stops (8) and `MIN_END_KEEP` (4) are scaled
to these rows. One setting draws all pairs of lines of up to five letters over each other, which is every way two rows can share beginning, middle
and end; the others take four or five steps. Two terminals change their width between three, four and six columns, in the middle of a line and between lines. They
have wrapped the line again before the library knows, as `src/terminal.c:1303-1314` says. The line stays on the screen, with one row of earlier output above it. The run of a line ends where
one of the situations in `met` came up: they are listed below with the fault each is, so `ScreenShows` says that outside of
those the screen is right. `MCRefreshClear` has the code's own constants. Both have no deadlock check, as steps are used up.

### Fairness

Only `ReadLoop` needs fairness: weak fairness of `Work`, the steps the library takes without waiting. It runs in the thread of its
caller and does not block while a character is in the queue or a command is to be run, so such a step is taken. Nothing is
assumed of the terminal or the application: they may stop at any time, and `QueueDrains` does not need them. Pushes by the
application are bounded (`MaxPushes`); a function that pushes its own key each time it runs would keep the queue filled.

## Proofs

What is proved holds for every value of the constants that the `ASSUME`s allow: every size, every set of texts, keys, strings and
settings, any number of steps. Each proof module begins with the argument in a few lines; `PROJECT.json` lists the theorems. In the table,
the strengthening is what had to be added to make the property inductive.

| Module | Theorems | The argument |
|---|---|---|
| `HistoryProofs` | `TypeOK`, `CursorLive`, `NumbersDescend`, `NeverGrowsPastSize`, `OneEventEdited`, `LoadedSoFar`, `ImplementsLog`, `LengthExact`, `NumbersStay`, `LooksLeaveCursor` | `IInv` is the type, a live cursor and descending numbers, and needs all three: the cursor is found again by its number, which needs numbers to be distinct, and a deletion moves it to a neighbour, which must still be there. A load needs `LoadInv` besides: what is still to be read is the end of the file, and what was entered are the lines before it that could be decoded. Each call is then mapped to what `HistoryLog` allows. The same invariant holds of `RlSpec`, whose steps are several calls each: its walks end at an event or the header, and `NumbersStay` is that a new event shifts each place by one. |
| `HistNavProofs`, of `Undo` | `TypeOK`, `StacksBounded`, `CurIsLine`, `ImplementsTimeline` | The bound is not inductive alone: that undo pushes to the redo stack without dropping a line depends on the sum of both, and that a record follows the line on where the cursor may be. The two stacks with `cur` between them are the timeline; undo and redo move the place in it, and an edit of the present state with something undone is a `Slip`, which only `slipped` allows. |
| `TokenizerProofs` | `TypeOK`, `BuffersHold`, `WordsSpelt`, `CursorInWord` | Between two characters both buffers have their margin left, and strictly so where a word is begun, because `tok_line_outok` finishes it without making room first; after a failed allocation they are still not full. What is spelt is proved with `ParseInv`: the input is two parts, of which the first spells the words that are finished and the second, with the quoting state, the word so far (`SoFar`: an open quote, or a backslash, says which piece is not complete). One lemma for each character says what it makes of the word so far; that a row of pieces and one piece more is a row is proved from the recursive function that defines rows (`RowStep`). A finished word stays what it was because its NUL is before the next one. |
| `HistNavProofs`, of `HistNav` | `EventnoInRange`, `DraftKept` | Undo brings back a line with the event number it was saved with, so all lines on both stacks and in `cur` have to name events there are (`KnownLines`). |
| `HistNavProofs`, of `HistSearch` | `DraftFound`, `AbortReturns`, `EventnoInRange` | `SearchInv` says of the calls what `ce_inc_search` leaves to chance: a call that puts an event back must find the typed line in `el_history.buf`, though the call itself has not saved it, and events are shown as they were entered once the first was (`UnderWay`). Each key is taken apart into what the repetition, the search and the calls returned from do to the line (`OnwardLeads`, `OutcomeLeads`, `ReturnHolds`); all of them keep the typed line, as far as it was copied, or set `lost`. The cursor may be behind the end of the line after an abort, so these lemmas are about lines of any cursor. |
| `KeyProofs`, of `KeyMap` | `LeavesBound`, `KeysReachable`, `BindTakesEffect`, `ImplementsTable` | The tree is a set of paths closed under prefixes. Lemmas say which leaves an addition, a deletion and a clear leave (`AddedLeaves`, `DeletedLeaves`, `ClearedLeaves`); with them each operation keeps both tables, the tree and the reach of its keys, and is a step of `KeyTable`. |
| `KeyProofs`, of `ReadLoop` | `ArgumentAsTyped`, `MetaForNextKey`, `ImplementsQueue` | The argument is a fold over the commands since the last that was no prefix, and the characters waiting are the strings flattened: the lemmas say what one more command or string adds to either. The queue needs its offset inside the string on top. |
| `LineEditProofs` | `BuffersHold`, `CursorStays`, `CutIsKept`, `CodePointsKept`, `LettersKept` | What is cut goes into a buffer that may not have grown with the line, so `IInv` has what is cut and the mark below the limit too, and the limit within each buffer. A loop over words, graphemes or lines is a recursive function on places: it is shown to stay in a set of places that one turn stays in, and to be defined because it does. The lemmas of `LineTextProofs` then say where a motion may end and what putting in and taking out make of a text; there is one lemma for each command. |
| `ViEditProofs` | `ModesAgree`, `RedoKeepsRecord`, `CutIsKept`, `CursorStays` | What a command leaves (`Done`) is said once, for every command in what the loop or `vi_redo` gives it (`Ready`): one lemma for each kind of command, one for where each motion goes. `IInv` then follows from `Done` alone. While a record is played back, what is recorded anew and what is still to be read make it up (`PlaysOn`); that needs a record never to have a backspace behind a character it would take away (`Spelt`), and a record that leads into the insert map to have the key that leads out again (`Fits`). Where the cursor may be is part of `Done`, because what the loop does after a command with `CC_CURSOR` or `CC_REFRESH` moves it (`Refreshed`); commands that fail leave it where it was, except pasting (`NoRoom`). |
| `TtySessionProofs` | `CookedBetween`, `HandlersBack`, `UserSettingsKept` | All three speak of the time between lines; `SessionInv` says what holds within one: where the thread may go, whose handlers are in place and what they know, when the device is cooked. `SettingsInv` says where the user's settings are while the device does not show them. |

The assumptions are the named `ASSUME`s of the modules, which TLC evaluates: constants have their types, the stack has room for one line, the
margin of the tokenizer is one of its increments at most, a string bound to a key ends at its NUL, and of the standard tables only what
`map.c:97`, `map.c:665` and `map.c:992-1026` show: ^X leads in, it and the keys that set the meta bit are below that bit, and `map_init_nls` goes only over
the keys above it. `ArrowsAssumption` is about the terminal and not the code: no arrow key sends what begins another's sequence. `BoundIsReached` has a hypothesis
of its own, that sequences bound by the user begin with a character of the table; without it the theorem is false (see below, `src/map.c:1417`). `LettersStayAsTheyAre` has one as well,
that no letter is both and a lower-case one comes back from its upper case; for U+017F (long s), whose upper case is S, it is false, as the command then changes the letter.
The bounds of `LineEdit` are naturals (`BoundsAssumption`); they stand for what a user types and not for a limit of the code.

What attempts at a proof found, and TLC confirmed:

* `EventnoInRange` does not hold in the emacs map after an empty history: `^P` leaves the event number at what was asked for, `ch_reset`
  (`src/chared.c:704-725`) records the empty line with it before it clears it, and undo on the next line brings it back when there is one event.
  The property now says so.
* `DraftKept` does not hold where undo is bound: undo steps from the line to an event and back without saving it. The property now excepts it, and
  the run `nav` never bound it.
* `DraftFound` does not hold where `vi_search_prev` is bound in the emacs map: `c_gets` reads the pattern over the line, and the search then saves what is left
  (`src/chared.c:1015-1018`, `src/common.c:774-779`). `AbortReturns` does not hold of a search begun on an event number that no event has, which takes the empty history of the
  first item. Both properties now say so; the run `nav` binds no such key and starts with an event.
* `CookedBetween` was not excused where a second editor is opened on the terminal while the first left it raw; `Reopen` now says so.
* `ArgumentAsTyped` needs a string bound to a key to end at its NUL, which a C string does; the constants did not say it.
* `stifle_history` removes an event also where there are no more events than it is to leave, if the length says there are; the model left the list alone,
  and the run has too few events to come there. Its invariant did not hold of such a step.
* What `vi_redo` and `vi_alias` push is read after what waits (`src/read.c:453`), and not before it as the model had it; a `.` in an alias plays its record behind
  the rest of the alias. `RedoKeepsRecord` speaks of a `.` behind which nothing waits.
* `vi_list_or_eof` on an empty line ends it, which the model had as an error; `CursorStays` did not hold in the command map before the loop's redisplay, which moves the cursor, was part of a command.
* In `ViEdit` a character with a count replaced one character in the replace mode, where `ed_insert` inserts as many (`src/common.c:169-186`).
* `KeysReachable` fails for wide characters: `keymacro_clear` returns before it clears, and the entry of the table for the low byte is changed all the same.

Model-checked only: `Refresh` over `TermScreen` (`ScreenShows`): it draws with recursive operators, which the prover cannot reason about. Liveness (`QueueDrains`), `ENABLED` and what a recursive operator
computes for every input are beyond the prover and stay with TLC.

## Where the code and its texts disagree

Runs that end in a counterexample: `refresh_clear` (src/refresh.c:1286).

Met while modelling, not run (`src/` paths):

* `src/history.c:565`: with size 0 the event just entered is deleted; the comment says one entry is always kept.
* `src/history.c:830`: `H_LOAD` passes over a line it cannot decode and goes on, though it stops at one it cannot enter (`src/history.c:832`).
* `src/history.c:866`: `H_NSAVE_FP` writes n + 1 events (`doc/editline.3.roff:870`).
* `src/history.c:1046`: `H_ADD` without a current element does not set `h_ent` (`doc/editline.3.roff:819`).
* `src/history.c:765`: `H_FUNC` never stores the argument the new functions are to be called with (`doc/editline.3.roff:797`).
* `src/chared.c:269`: after a failed save behind an undo `valid` stays 1 (`src/chared.h:74`).
* `src/chared.c:283`: an overwrite that changes nothing still counts as an insert, so the next edit joins it and keeps the redo stack.
* `src/chared.c:255`: the first half of a code point is not recorded, but sets `lastcmd`: typed behind an undo, the code point joins the state that was brought back, pushes nothing and keeps the
  redo stack, so redo then brings back a line it does not belong to (`src/chared.c:289`).
* `src/chared.c:704`: the first snapshot of a line has the event number of the line before, because `ch_reset` clears it after the snapshot;
  undo restores it, and the typed line is then not saved when the user leaves it (`src/chared.h:63`).
* `src/common.c:743` and `src/vi.c:857`: on a line that was never left, `ed-next-history` and `vi-undo-line` bring back the buffer of an earlier line.
* `src/common.c:705`: the line is saved up to `EL_BUFSIZ` characters but `el_history.last` is set to its full length: a longer line comes back with its length, and NULs where the rest was.
* `src/common.c:738`: `ed-next-history` goes to a newer line (`doc/editline.7.roff:411`).
* `src/vi.c:978`: `vi-to-history-line` to an event that does not exist leaves the newest one on the line.
* `src/search.c:367`: a search that goes forward from the typed line fails without saving it; asked again, it starts at the oldest event and writes
  over the line, which an abort then cannot give back (`src/search.c:442`: "restore on normal return or error exit").
* `src/search.c:450`: aborting a search begun on an event that was edited gives back the event as it was entered, with the cursor where it was
  in the edited text, which may be behind the end.
* `src/search.c:308`: `^W` goes on from the end of the match by the length of the pattern also where nothing matches; it may then take the word out of the prompt of the search.
* `src/search.c:120`: on Windows `el_match` answers 0 before it compares anything.
* `src/emacs.c:209`: the mark is not moved when the line becomes shorter: `em-kill-region` then keeps what an earlier line left behind the end
  (`doc/editline.7.roff:525`), and `em-exchange-mark` puts the cursor there (`src/emacs.c:403`).
* `src/emacs.c:472`: `em-copy-prev-word` looks for the word where the buffer was before it grew; where it could not grow, it overwrites.
* `src/chared.c:769`: where the cut buffer cannot grow, the mark stays in the line buffer that was freed.
* `src/chared.c:892`: `el_deletestr1` moves no more of the tail than it deletes, so deleting the first of six characters loses the last one
  instead and doubles the second (`src/chared.c:876`); the cursor may stay behind the end.
* `src/common.c:878` and `src/common.c:921`: with an argument of 0 and no newline the cursor leaves the line.
* `src/common.c:184`: with an argument, overwriting inserts (`doc/editline.7.roff:365-370`), and of a pair only the first half is repeated.
* `src/common.c:360` and `src/emacs.c:264`: transposing takes the halves of a pair apart (`src/emacs.c:53`); at the beginning of a line
  `ed-transpose-chars` fails but has moved the cursor.
* `src/map.c:1417`: binding a key above `N_KEYS` binds its low byte, and what was bound to sequences that begin with that byte can no longer be typed; `src/keymacro.c:223` takes `N_KEYS` itself for a key of the table.
* `src/map.c:1397`: `bind -k -s` keeps a pointer into the stack of `map_bind`, and makes the first character of the arrow's name lead in.
* `src/keymacro.c:285`: a key that leads in with no sequence bound at all is looked up from a NULL node.
* `src/tokenizer.c:366`: a line that ends with a backslash puts a NUL in the word, and the scan goes on behind the `""` that stands for the
  end of the line, whatever is there; the offset of the cursor may then lie behind the end of the string it is reported in
  (`doc/editline.3.roff:949`).
* `src/tokenizer.c:289`: a backslash before a newline sets `TOK_KEEP`, so that alone it makes an empty word, which it does not in sh(1) (`src/tokenizer.c:192`).
* `src/tokenizer.c:415`: after -1 the tokenizer must be reset; called again it writes past the margin.
* `src/read.c:683`: where the input ends, `el_wgets` answers a count of -1 though there was no error (`doc/editline.3.roff:240`).
* `src/history.c:1055`: an event dropped as a duplicate leaves `_HE_OK` in `h_ent`; the next `H_APPEND` fails and the cursor is on the header
  (`doc/editline.3.roff:819-829`).
* `src/chared.c:255`: a quoted first half of a code point is recorded for undo before the second has come (`src/chared.c:251-254`).
* `src/common.c:718`: on an empty history `hist_get` leaves `eventno` where it was asked for, and the typed line is lost (`src/common.c:717`).
* `src/read.c:276`: a string that contains its own key is expanded for ever (`doc/editrc.5.roff:133-135`: ten levels).
* `src/vi.c:839`: `delta` is unsigned, so an operator with `%` to the left keeps the bracket it started on (`src/vi.c:837`).
* `src/keymacro.c:359`: `bind -k -r` sets the type of an arrow key to `XK_NOD`, which `terminal_reset_arrow` passes on at the next
  `bind -e`, `bind -v` or change of terminal; `node__try` then aborts the program.
* `src/chared.c:366` and `src/chared.c:407`: the current map is compared with the constant table of the emacs map, which it never is, so in the
  emacs map every deletion overwrites the cut buffer.

The vi map:

* `vi-redo` pushes the keys before it does the command again; when that fails they are run as commands. The same happens before any command
  was recorded. With `f`, `F`, `t` or `T` as the motion of a change the first of them is read as the character to look for.
* `^W` and `^U` in the insert map begin a record of their own in the middle of an insertion; a record goes on over the end of a line.
* `d0`, `d^` and `y0` at the first column take the character there; `y$` on an empty line yanks a stale one.
* A repeated search empties the line before it searches and leaves it so, with the cursor behind it, when nothing is found.
* `X` with a count keeps only the last character in the cut buffer; `r` without room stays in the insert map;
  `vi-history-word` and pasting write over text where there was no room; a paste that fails leaves the cursor behind the last character.
* On a line that is all blanks `ed-move-to-beg` looks on behind the end of the line (`src/common.c:332`), at what an earlier text left there; the model lets it find one blank more.

The terminal's modes:

* A `SIGCONT` after `read_finish` has set the device leaves it raw; a signal between `tcsetattr` and the change of `t_mode`
  makes `t_mode` wrong; a second suspension after one within a command has no handler.
* Changes the user made are lost by `setty`, by `readline()` if they were made while it was stopped, and by quoting.
* Where editing is switched off, `el_wgets` returns without `read_finish`: the handlers stay (`doc/editline.3.roff:387-393`).

The readline interface:

* `remove_history` of a place that is not there leaves the cursor on the header: `history_get` and searches then answer nothing
  until an event is added. `replace_history_entry` looks for the number of an event, not for a place.
* `history_search_pos` sets the offset and not the cursor; `next_history`, `previous_history` and `current_history` look for the number
  offset + 1, which is not the event once one was dropped.
* `stifle_history` uses what `remove_history` returns without looking (`src/readline.c:1272`): where reads that failed, with size 0 in between, left a length above 0
  and no event, it is NULL.
* `clear_history` and `rl_initialize` leave the base; `stifle_history` sets it to length less maximum; a read that fails leaves the length.

The redisplay. Each of these is a member of `met` in `TermScreen`; TLC finds a screen that is not the line's for each:

* `clear` (`src/refresh.c:1286`): the run `refresh_clear`.
* `size` (`src/terminal.c:1298`): after a new width the row the line began on is computed from the line. It is one row off where the text before the cursor
  fills its row and the line goes on (`src/refresh.c:1459` is right at the end of the line only), or a control character is broken. A line of one row is not
  touched, but `el_cursor` is set to 0, so `re_refresh` sends no carriage return and draws the line behind itself
  (`src/terminal.c:1317-1321`: "re_refresh's CR is enough"). `read_prepare` measures the line that has ended, as `el_resize` comes before
  `ch_reset` (`src/read.c:489`): with a new width between two lines as many rows of output are cleared as that line would take.
* `wrap` (`src/refresh.c:1763`): a wrap that was put off survives `re_clear_display`; after a line that fills its row exactly, Enter, `^R`
  or `^L` draws the next prompt one row too high, over what was there (`src/refresh.c:1760`). `EL_ERASELINE` does not settle it either: on a terminal that
  wraps at once the line stays (`src/el.c:483`).
* `blank` (`src/terminal.c:836`): the blank that settles a wrap stays when the next row's first cell does not change.
* `stale` (`src/refresh.c:1769`): only the first slot of a row is cleared; typing joins it to the old text behind it, which a later redisplay takes
  to be on the screen.
* `erase` (`src/refresh.c:545`): without `ce` as many blanks are sent as `el_display` has slots, 1024.
* `inside`, `edge` (`src/terminal.c:575`): a move to the right from the middle of a wide character sends nothing; relative moves from behind the last
  column are one off.
* `wide` (`src/refresh.c:1623`): a wide character that does not fit its row is put behind a blank that only puts a wrap off, is stored in the row before its own, and the wrap is settled
  behind it; a later motion or redisplay is wrong by its columns (`src/refresh.c:1619-1622`: "the subsequent emoji write will resolve the wrap and land on the next row").
* `orphan` (`src/refresh.c:725`): a mark that is sent after its row was left lands on another character.
* `cluster`, `slots` (`src/refresh.c:951`): what is kept may end before a mark; cells are opened by slots where columns are meant.
* `tab` (`src/refresh.c:200`): a tab goes to a multiple of slots. On a terminal of fewer than eight columns the loop never ends.
* `break` (`src/refresh.c:1490`, `src/refresh.c:1426`): a newline after a full row is counted twice; at a new width a row of output is cleared for it. `newline` (`src/refresh.c:1592`): a quoted newline is sent
  without `el_cursor` moving.

* `src/parse.c:89`: `parse_line` ignores the answer of `tok_wstr` and uses an `argc` that an unmatched quote leaves unset.

## Hazards no property covers

* `src/history.c:866`: the walk that finds the first event to save can be one off at either end; `SaveWalk` does what the code does,
  and no text but the one quoted above says what is right.
* `src/history.c:915`: the file is opened with `O_TRUNC` before the buffer is allocated; a failure leaves it empty, and the next load finds nothing.
* `src/hist.c:106`: the saved line outlives its line: on a line that was never left, `ed-next-history` brings it back. `src/common.c:797`: the comparison with an event reads behind its end when the line is longer.
* `src/keymacro.c:285`: a lookup that starts from no node at all.
* `src/tokenizer.c:366`: what words come out behind a line that ends with a backslash.
* `src/chared.c:892`: that `el_deletestr1` deletes what it says; it does not.
* `src/readline.c:1584`: `remove_history` leaves `history_offset` where it was, so the offset may be beyond the last event.

## Plan

1. A bound on the places `Refresh` draws to, from one lemma for each function of `TermScreen`.
2. `Completion` (the word on the line and what replaces it) and `Vis` (decoding what was encoded).

## Not modelled

* history on the line (hist, search) (`hist.c`, `hist.h`, `search.c`): hist_get and the commands that move to another event, the pattern searches of common.c, the incremental search ce_inc_search, cv_search and its repetition, and the character search of the vi map (cv_csearch). Not modelled: regular expressions beyond a substring, hist_command and what it lists, and what is shown behind the end of a line where an aborted search has left the cursor there.
* key bindings (map, keymacro, arrow keys, tty keys) (`map.c`, `map.h`, `keymacro.c`, `keymacro.h`): All that changes the two tables, the map of sequences and the arrow keys, and the lookup of a sequence. Printing and decoding keys (map_print_*, keymacro_kprint, keymacro__decode_str), help texts and el_set(EL_ADDFN) are left out: they change no binding.
* reading keys and the dispatch loop (`read.c`, `read.h`): The input queue, el_wgetc, read_getcmd, el_wgets with every return code, the argument, meta and quoted commands, reads that fail, the redo buffer of the vi map, read_prepare and read_finish. Not modelled: the decoding of bytes in read_char.
* line editing, emacs and common commands (`common.c`, `emacs.c`, `chared.c`): The emacs map and the el_ calls on the line as they change line, cursor, cut buffer, mark and buffer sizes; history, undo, loop and drawing commands in the modules of those, and the common commands as the vi maps bind them. Not modelled: ed-digit, ed_command and the commands that act on the terminal only (tty signals, flow control).
* vi commands (`vi.c`): Operators, motions, character searches, inserting and replacing, pasting, words of the history, aliases and the redo command; the history commands in HistNav and HistSearch. Not modelled: what the editor of vi_histedit does to its file.
* redisplay (`refresh.c`, `refresh.h`, `literal.c`, `literal.h`, `prompt.c`, `prompt.h`): All of refresh.c, with both prompts, literals, wide characters and combining marks, and a new width of the terminal. Not modelled: pairs of surrogates, lines taller than the screen, the vi map (where the cursor is on the last character).
* terminal capabilities and output (`terminal.c`, `terminal.h`, `win_ncurses.c`, `win_ncurses.h`): Cursor motion, overwriting, inserting, deleting and clearing as they change the screen on terminals with and without the capabilities, and the arrow keys. Not modelled: reading the capabilities, changing them (settc, telltc, echotc), a new number of rows, motion by tabs, and the console of Windows.
* completion (`filecomplete.c`, `filecomplete.h`): Mostly strings and directory listing; what replaces the word on the line is el_deletestr and el_insertstr of LineEdit.
* readline interface (`readline.c`, `editline/readline.h`): The history functions with length, offset and base, readline() and the callbacks as they set the terminal, events named by a number, a text or the last one (get_history_event). Not modelled: history expansion of words and modifiers, completion, and the functions on the line that are names for those of LineEdit.
* builtin commands (`parse.c`, `parse.h`): parse_line and el_wparse only split a line and dispatch; the effects of bind are those of KeyMap. parse__escape and parse__string are conversions of text.
* public interface (`el.c`, `el.h`, `eln.c`, `histedit.h`): EL_UNBUFFERED, EL_PREP_TERM, EL_SIGNAL, EL_EDITMODE, EL_SETTY and el_push as they act on the loop, the terminal and the handlers, EL_ERASELINE, EL_REFRESH and el_resize as they act on the screen, el_init and el_end; the rest are setters and getters, conversions to and from multibyte strings, and el_source, which runs parse_line for each line of a file.
* conversions (`chartype.c`, `chartype.h`, `utf8.c`, `utf8.h`, `wcwidth.c`, `vis.c`, `vis.h`, `unvis.c`): Pure functions from strings to strings; no order of calls in them. The widths, classes and graphemes the editor relies on are in LineText and TermScreen.
* fallbacks for missing library functions (`getline.c`, `reallocarr.c`, `strlcat.c`, `strlcpy.c`, `wcsdup.c`, `sys.h`): Replacements of functions of the C library, compiled where it lacks them.
* build and tables made at build time (`makelist`, `src/CMakeLists.txt`, `src/configure.ac`): Generates the tables of function names; no state at run time.
* examples (`src/examples/fileman.c`, `src/examples/fuzz1.c`, `src/examples/tc1.c`, `src/examples/wtc1.c`): Programs that use the library.
