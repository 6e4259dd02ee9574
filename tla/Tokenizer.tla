------------------------------- MODULE Tokenizer -------------------------------
(***************************************************************************)
(* The tokenizer: src/src/tokenizer.c.  tok_line() scans a line, puts the  *)
(* words one behind the other in one buffer and their addresses in argv,   *)
(* and can be called again with the next line when the line it has ends    *)
(* within quotes.  One step scans one character, because each may have to  *)
(* make room, which may fail.                                              *)
(***************************************************************************)
EXTENDS Integers, Sequences

CONSTANTS
  Plain,        \* characters that mean nothing to the tokenizer
  WIncr,        \* WINCR: the word buffer grows by that much
  AIncr,        \* AINCR: argv does
  Margin,       \* 4: room to be left in each of them
  MaxInput      \* BOUND: characters of lines since tok_reset

Nul == "NUL"
Special == {"'", "\"", "\\", "\n"}
Separator == " "        \* the characters of tok->ifs
Char == Plain \cup Special \cup {Separator, Nul}

ASSUME PlainAssumption == Plain \cap (Special \cup {Separator, Nul}) = {}
ASSUME RoomAssumption ==
  /\ WIncr \in Nat /\ AIncr \in Nat /\ Margin \in Nat
  /\ Margin >= 3 /\ WIncr > Margin /\ AIncr > Margin
ASSUME InputAssumption == MaxInput \in Nat

VARIABLES
  text,         \* the word buffer up to wptr
  wstart,       \* where the word begins
  wmax,         \* the size of the word buffer
  argv, amax,   \* addresses of words, and room for them
  quote, keep, eat,     \* quoting state, TOK_KEEP and TOK_EAT
  at,           \* "caller", or within tok_line, "scan"
  result,       \* what tok_line returned
  cursor,       \* cc and co, -1 until the cursor is met
  input,        \* auxiliary: the characters scanned since tok_reset, with a
                \* newline where a line ended outside quotes
  beyond        \* auxiliary: the scan went on behind the end of a line

wordVars == <<text, wstart, argv>>
sizeVars == <<wmax, amax>>
stateVars == <<quote, keep, eat>>
auxVars == <<input, beyond>>
vars == <<wordVars, sizeVars, stateVars, at, result, cursor, auxVars>>

NoCursor == [word |-> -1, offset |-> -1]

\* tok_init.
Init ==
  /\ text = <<>> /\ wstart = 0 /\ argv = <<>>
  /\ quote = "none" /\ keep = FALSE /\ eat = FALSE
  /\ input = <<>> /\ beyond = FALSE
  /\ wmax = WIncr /\ amax = AIncr
  /\ at = "caller" /\ result = 0 /\ cursor = NoCursor

-------------------------------------------------------------------------------
(* The buffers.                                                            *)

\* Mutant: the word buffer is grown when it is full.
Full_NoMargin(n, max) == n >= max

\* Within Margin of the end a buffer is grown.
Full(n, max) == n >= max - Margin

\* Behind each character there must be room again, in the word buffer and
\* then in argv; an allocation that fails ends the call with -1.
Room ==
  \E word, arg \in BOOLEAN :
    LET fullWord == Full(Len(text'), wmax)
        fullArg == Full(Len(argv'), amax)
    IN /\ wmax' = IF fullWord /\ word THEN wmax + WIncr ELSE wmax
       /\ amax' = IF fullArg /\ arg /\ (fullWord => word) THEN amax + AIncr ELSE amax
       /\ IF (fullWord => word) /\ (fullArg => arg) THEN at' = "scan" /\ UNCHANGED result
          ELSE at' = "caller" /\ result' = -1

\* Mutant: the next word begins behind the NUL, but wptr is not advanced.
Finish_PtrStays ==
  /\ IF keep \/ Len(text) # wstart
     THEN /\ argv' = Append(argv, wstart)
          /\ UNCHANGED text /\ wstart' = Len(text) + 1
     ELSE UNCHANGED wordVars
  /\ keep' = FALSE

\* tok_finish.
Finish ==
  /\ IF keep \/ Len(text) # wstart
     THEN /\ argv' = Append(argv, wstart)
          /\ text' = Append(text, Nul) /\ wstart' = Len(text) + 1
     ELSE UNCHANGED wordVars
  /\ keep' = FALSE

Put(s) == text' = text \o s /\ UNCHANGED <<wstart, argv>>

-------------------------------------------------------------------------------
(* tok_line.                                                               *)

\* The bound on what is scanned; behind the end, on what is put in the buffer.
More == IF beyond THEN Len(text) < MaxInput ELSE Len(input) < MaxInput

Call ==
  /\ at = "caller" /\ result # -1 /\ More
  /\ at' = "scan" /\ cursor' = NoCursor
  /\ UNCHANGED <<wordVars, sizeVars, stateVars, result, auxVars>>

\* Mutant: the offset is counted from the beginning of the buffer.
Here_InBuffer == [word |-> Len(argv), offset |-> Len(text)]

Here == [word |-> Len(argv), offset |-> Len(text) - wstart]

Record(c) == input' = (IF beyond THEN input ELSE Append(input, c)) /\ UNCHANGED beyond

\* The character may be the one at the cursor.
Mark == cursor' = cursor \/ (cursor = NoCursor /\ cursor' = Here)

Scan(c) ==
  /\ at = "scan" /\ More
  /\ Mark /\ Record(c)

\* The character is quoted by the backslash before it; between double quotes
\* the backslash stays, unless it is there for one of these.
Escaped(c) ==
  /\ quote \in {"one", "doubleone"}
  /\ quote' = IF quote = "one" THEN "none" ELSE "double"
  /\ Put(IF quote = "doubleone" /\ c \notin {"'", "\"", "\\"} THEN <<"\\", c>> ELSE <<c>>)

\* The character stands for itself.
Quoted(c, quotes) == quote \in quotes /\ UNCHANGED quote /\ Put(<<c>>)

\* The character changes the quoting state and is not put in the word.
Switch(from, to) == quote = from /\ quote' = to /\ UNCHANGED wordVars

SingleQuote ==
  /\ Scan("'")
  /\ \/ Switch("none", "single") \/ Switch("single", "none")
     \/ Escaped("'") \/ Quoted("'", {"double"})
  /\ keep' = TRUE /\ eat' = FALSE
  /\ Room

DoubleQuote ==
  /\ Scan("\"")
  /\ \/ Switch("none", "double") \/ Switch("double", "none")
     \/ Escaped("\"") \/ Quoted("\"", {"single"})
  /\ keep' = TRUE /\ eat' = FALSE
  /\ Room

\* Mutant: the backslash is taken for itself between double quotes.
Backslash_PlainInDouble ==
  /\ Scan("\\")
  /\ \/ Switch("none", "one")
     \/ Escaped("\\") \/ Quoted("\\", {"single", "double"})
  /\ keep' = TRUE /\ eat' = FALSE
  /\ Room

Backslash ==
  /\ Scan("\\")
  /\ \/ Switch("none", "one") \/ Switch("double", "doubleone")
     \/ Escaped("\\") \/ Quoted("\\", {"single"})
  /\ keep' = TRUE /\ eat' = FALSE
  /\ Room

PlainChar(c) ==
  /\ Scan(c)
  /\ \/ Escaped(c)
     \/ Quoted(c, IF c = Separator THEN {"single", "double"} ELSE {"none", "single", "double"})
  /\ eat' = FALSE /\ UNCHANGED keep
  /\ Room

EndOfWord ==
  /\ Scan(Separator) /\ quote = "none"
  /\ Finish
  /\ eat' = FALSE /\ UNCHANGED quote
  /\ Room

\* tok_line_outok: the last word is finished, and the cursor is at its end
\* if it was not met.
Ok ==
  /\ Finish
  /\ cursor' = IF cursor = NoCursor THEN Here ELSE cursor
  /\ at' = "caller" /\ result' = 0
  /\ UNCHANGED sizeVars

\* A newline ends the line, unless it is quoted; a backslash eats it.
Newline ==
  /\ Scan("\n") /\ quote # "none"
  /\ \/ Quoted("\n", {"single", "double"}) /\ eat' = FALSE
     \/ (Switch("one", "none") \/ Switch("doubleone", "double")) /\ eat' = TRUE
  /\ UNCHANGED keep
  /\ Room

\* Where the cursor is at the newline, Ok finds it there as well.
EndAtNewline ==
  /\ at = "scan" /\ quote = "none" /\ More
  /\ Ok /\ eat' = FALSE /\ UNCHANGED quote
  /\ Record("\n")

\* The end of the line.
EndOfLine ==
  /\ at = "scan"
  /\ \/ /\ quote = "none" /\ ~eat
        /\ Ok /\ UNCHANGED <<quote, eat>>
        /\ Record("\n")
     \/ /\ \/ quote = "none" /\ eat /\ result' = 3
           \/ quote = "single" /\ result' = 1
           \/ quote = "double" /\ result' = 2
        /\ at' = "caller" /\ eat' = (eat /\ quote # "none")
        /\ UNCHANGED <<wordVars, sizeVars, quote, keep, cursor, auxVars>>

\* The line ends with a backslash: its end is put in the word, and the scan
\* goes on behind it, in whatever is there.
EndQuoted ==
  /\ at = "scan" /\ quote \in {"one", "doubleone"}
  /\ Put(<<Nul>>)
  /\ quote' = IF quote = "one" THEN "none" ELSE "double"
  /\ beyond' = TRUE /\ input' = <<>>
  /\ UNCHANGED <<keep, eat, cursor>>
  /\ Room

\* tok_reset; the buffers keep their size.
Reset ==
  /\ at = "caller"
  /\ text' = <<>> /\ wstart' = 0 /\ argv' = <<>>
  /\ quote' = "none" /\ keep' = FALSE /\ eat' = FALSE
  /\ input' = <<>> /\ beyond' = FALSE
  /\ result' = 0
  /\ UNCHANGED <<sizeVars, at, cursor>>

Next ==
  \/ Call \/ Reset
  \/ SingleQuote \/ DoubleQuote \/ Backslash \/ \E c \in Plain \cup {Separator} : PlainChar(c)
  \/ EndOfWord \/ Newline \/ EndAtNewline \/ EndOfLine \/ EndQuoted

Spec == Init /\ [][Next]_vars

-------------------------------------------------------------------------------
(* Properties.                                                             *)

\* Every variable stays in its range.
TypeOK ==
  /\ text \in Seq(Char) /\ wstart \in 0..Len(text)
  /\ argv \in Seq(Nat)
  /\ wmax \in Nat /\ amax \in Nat
  /\ quote \in {"none", "single", "double", "one", "doubleone"}
  /\ keep \in BOOLEAN /\ eat \in BOOLEAN /\ beyond \in BOOLEAN
  /\ at \in {"caller", "scan"} /\ result \in {-1, 0, 1, 2, 3}
  /\ cursor \in [word : Int, offset : Int]
  /\ input \in Seq(Char)

\* Whatever is scanned, in how many lines, after words that were not taken
\* away, and where an allocation failed: what is written is in the buffers,
\* the NUL behind a word and the NULL behind argv included.
BuffersHold == Len(text) < wmax /\ Len(argv) < amax
================================================================================
