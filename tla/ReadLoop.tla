------------------------------- MODULE ReadLoop -------------------------------
(***************************************************************************)
(* Reading keys and running commands: el_wgets() of src/src/read.c with    *)
(* el_wgetc(), read_getcmd() and el_wpush(), the lookup of key sequences   *)
(* (node_trav() of keymacro.c) and the commands that act on the loop       *)
(* itself: arguments, meta, quoting, the end of a line or of the input.    *)
(*                                                                         *)
(* One step takes one character, which is where the library may wait and   *)
(* where the input may end or fail; another runs the command it completes. *)
(* The bindings are those of module KeyMap after it has settled; of the    *)
(* line only its being empty matters here.                                 *)
(***************************************************************************)
EXTENDS KeyChars, Sequences, SequencesExt

CONSTANTS
  Current,      \* el_map.current: character below N_KEYS -> command
  Keys,         \* the key sequences -> a command or a string
  Digit,        \* the digits -> their values
  MaxMacro,     \* EL_MAXMACRO
  ArgLimit,     \* 1000000
  Strings,      \* strings the application pushes
  Typed,        \* BOUND: characters typed
  MaxPushes,    \* BOUND: strings pushed by the application and its functions
  MaxArgument   \* BOUND: commands of an argument before another key is typed

ASSUME LimitAssumption == MaxMacro \in Nat \ {0} /\ ArgLimit \in Nat /\ {MaxPushes, MaxArgument} \subseteq Nat
ASSUME StringAssumption == Strings \subseteq Seq(Nat \ {0}) /\ Typed \subseteq Nat

LoopCommand == {"insert", "digit", "argument-digit", "universal-argument", "meta-next", "quoted-insert",
                "newline", "end-of-file", "kill-line", "unassigned", "push", "fatal", "lead-in"}

ASSUME CurrentAssumption == Current \in [Chars -> LoopCommand]
\* A string bound to a key ends at its NUL.
ASSUME KeysAssumption == \A k \in DOMAIN Keys : Keys[k] \in LoopCommand \/ Keys[k] \in Seq(Nat \ {0})
ASSUME DigitAssumption == \A d \in DOMAIN Digit : Digit[d] \in 0..9

VARIABLES
  macros,       \* the strings waiting, the first one in part consumed
  offset,       \* characters of the first one consumed
  at,           \* where el_wgets is: "application", "command", "sequence",
                \* "lookup", "dispatch", "quoted"
  path,         \* characters of the key sequence begun
  cmd, ch,      \* the command to run and its character
  argument, doingarg, metanext, lastcmd,        \* el_state; of lastcmd, whether
                                                \* it was the universal argument
  unbuffered,   \* EL_UNBUFFERED is set
  filled,       \* the line has a character
  result,       \* of the last call: "line", "end" (NULL, 0) or "error" (NULL, -1);
                \* "none" while it lasts
  pushes,       \* strings pushed so far
  taken,        \* auxiliary: the last character and where it came from
  argkeys       \* auxiliary: commands since the last one that was no prefix

queueVars == <<macros, offset>>
stateVars == <<argument, doingarg, metanext, lastcmd, argkeys>>
pathVars == <<path, cmd, ch>>
callVars == <<unbuffered, filled, result>>
vars == <<queueVars, at, pathVars, stateVars, callVars, pushes, taken>>

Init ==
  /\ macros = <<>> /\ offset = 0
  /\ at = "application"
  /\ path = <<>> /\ cmd = "unassigned" /\ ch = 0
  /\ argument = 1 /\ doingarg = FALSE /\ metanext = FALSE /\ lastcmd = "other"
  /\ argkeys = <<>>
  /\ unbuffered \in BOOLEAN /\ filled = FALSE /\ result = "none"
  /\ pushes = 0
  /\ taken = [char |-> 0, from |-> "terminal"]

-------------------------------------------------------------------------------
(* The input queue.                                                        *)

\* Mutant: a string pushed goes in front of those that wait.
Pushed_OnTop(q, s) == IF Len(q) < MaxMacro THEN <<s>> \o q ELSE q

\* el_wpush: a string behind those that wait, unless there are too many.
Pushed(q, s) == IF Len(q) < MaxMacro THEN Append(q, s) ELSE q

\* Strings without a character left are popped before one is read.
Waiting == {i \in 1..Len(macros) : Len(macros[i]) > IF i = 1 THEN offset ELSE 0}

\* Mutant: the offset is not advanced.
TakeQueued_Again(c) ==
  \E i \in Waiting :
    LET k == IF i = 1 THEN offset + 1 ELSE 1
    IN /\ \A j \in Waiting : i <= j
       /\ c = macros[i][k]
       /\ macros' = SubSeq(macros, i, Len(macros)) /\ offset' = k - 1
       /\ taken' = [char |-> c, from |-> "queue"]

\* el_wgetc from the queue; a string is popped with its last character.
TakeQueued(c) ==
  \E i \in Waiting :
    LET k == IF i = 1 THEN offset + 1 ELSE 1
        done == k = Len(macros[i])
    IN /\ \A j \in Waiting : i <= j
       /\ c = macros[i][k]
       /\ macros' = SubSeq(macros, IF done THEN i + 1 ELSE i, Len(macros))
       /\ offset' = IF done THEN 0 ELSE k
       /\ taken' = [char |-> c, from |-> "queue"]

\* Which character it was matters to the caller only.
TakeTyped(c) ==
  /\ Waiting = {} /\ macros' = <<>> /\ offset' = 0
  /\ c \in Typed
  /\ taken' = [char |-> 0, from |-> "terminal"]

\* The end of the input or an error of read(2).
InputEnds == Waiting = {} /\ macros' = <<>> /\ offset' = 0 /\ UNCHANGED taken

-------------------------------------------------------------------------------
(* The calls of the application.                                           *)

\* ch_reset, as far as it concerns the loop.
Reset ==
  /\ argument' = 1 /\ doingarg' = FALSE /\ metanext' = FALSE
  /\ lastcmd' = "other" /\ argkeys' = <<>>
  /\ filled' = FALSE

\* el_wgets: unbuffered, it goes on with the line as the last call left it.
Call ==
  /\ at = "application" /\ at' = "command" /\ result' = "none"
  /\ IF unbuffered THEN UNCHANGED <<stateVars, filled>> ELSE Reset
  /\ UNCHANGED <<queueVars, pathVars, unbuffered, pushes, taken>>

\* el_set(EL_UNBUFFERED): read_prepare on the way in, read_finish out.
SetUnbuffered ==
  /\ at = "application" /\ unbuffered' = ~unbuffered
  /\ IF unbuffered THEN UNCHANGED <<stateVars, filled>> ELSE Reset
  /\ UNCHANGED <<queueVars, at, pathVars, result, pushes, taken>>

\* el_set(EL_PREP_TERM), which an unbuffered application uses for a new line.
Prepare ==
  /\ at = "application" /\ Reset
  /\ UNCHANGED <<queueVars, at, pathVars, unbuffered, result, pushes, taken>>

Push(s) ==
  /\ at = "application" /\ pushes < MaxPushes
  /\ pushes' = pushes + 1
  /\ macros' = Pushed(macros, s)
  /\ UNCHANGED <<offset, at, pathVars, stateVars, callVars, taken>>

-------------------------------------------------------------------------------
(* read_getcmd.                                                            *)

Meta(c) == IF (c \div MetaBit) % 2 = 1 THEN c ELSE c + MetaBit

\* Mutant: metanext stays set when the key leads in.
TakeKey_KeepsMeta(c) ==
  LET k == IF metanext THEN Meta(c) ELSE c IN
  /\ IF k < NKeys /\ Current[k] = "lead-in"
     THEN at' = "lookup" /\ path' = <<k>> /\ UNCHANGED <<cmd, ch, metanext>>
     ELSE /\ at' = "dispatch" /\ UNCHANGED path
          /\ cmd' = IF k < NKeys THEN Current[k] ELSE "insert"
          /\ ch' = k /\ metanext' = FALSE

\* The first character of a command.
TakeKey(c) ==
  LET k == IF metanext THEN Meta(c) ELSE c IN
  /\ metanext' = FALSE
  /\ IF k < NKeys /\ Current[k] = "lead-in"
     THEN at' = "lookup" /\ path' = <<k>> /\ UNCHANGED <<cmd, ch>>
     ELSE /\ at' = "dispatch" /\ UNCHANGED path
          /\ cmd' = IF k < NKeys THEN Current[k] ELSE "insert"
          /\ ch' = k

GetKey(c) ==
  /\ at = "command"
  /\ TakeQueued(c) \/ (TakeTyped(c) /\ Len(argkeys) < MaxArgument)
  /\ TakeKey(c)
  /\ UNCHANGED <<argument, doingarg, lastcmd, argkeys, callVars, pushes>>

GetNextKey(c) ==
  /\ at = "sequence"
  /\ TakeQueued(c) \/ TakeTyped(c)
  /\ at' = "lookup" /\ path' = Append(path, c)
  /\ UNCHANGED <<cmd, ch, stateVars, callVars, pushes>>

\* node_trav for the characters so far: run what they are bound to, append
\* the string they are bound to, go on, or give up, which rings the bell.
Lookup ==
  /\ at = "lookup"
  /\ LET key == path \in DOMAIN Keys
         command == key /\ Keys[path] \in LoopCommand
         begun == \E k \in DOMAIN Keys : IsStrictPrefix(path, k)
     IN /\ at' = IF command THEN "dispatch" ELSE IF begun THEN "sequence" ELSE "command"
        /\ path' = IF begun THEN path ELSE <<>>
        /\ cmd' = IF command THEN Keys[path] ELSE cmd
        /\ ch' = IF command THEN Last(path) ELSE ch
        /\ macros' = IF key /\ ~command THEN Pushed(macros, Keys[path]) ELSE macros
  /\ UNCHANGED <<offset, stateVars, callVars, pushes, taken>>

-------------------------------------------------------------------------------
(* el_wgets after a command: what it returns decides what comes next.      *)

\* The call returns; the characters of the line are counted, in buffered
\* mode only if a line was ended.
Return(r) == at' = "application" /\ result' = r

LastCmd(name) == IF name = "universal-argument" THEN name ELSE "other"
Metas(keys) == keys # <<>> /\ Last(keys)[1] = "meta-next"

\* CC_ARGHACK: the argument is kept for the next command.
GoOn(name) ==
  /\ at' = "command" /\ lastcmd' = LastCmd(name)
  /\ argkeys' = Append(argkeys, <<name, IF ch \in DOMAIN Digit THEN Digit[ch] ELSE 0>>)
  /\ UNCHANGED result

\* Mutant: an error leaves the argument, as CC_ARGHACK does.
Finish_ErrorKeeps(name, f) ==
  /\ lastcmd' = LastCmd(name) /\ filled' = f /\ argkeys' = <<>>
  /\ IF name = "unassigned" THEN UNCHANGED <<argument, doingarg>>
     ELSE argument' = 1 /\ doingarg' = FALSE
  /\ IF unbuffered THEN Return(IF f THEN "line" ELSE "error")
     ELSE at' = "command" /\ UNCHANGED result

\* Any other code that does not end the line.  Unbuffered, the call returns
\* what there is: nothing is NULL and -1, as after an error.
Finish(name, f) ==
  /\ lastcmd' = LastCmd(name) /\ filled' = f /\ argkeys' = <<>>
  /\ argument' = 1 /\ doingarg' = FALSE
  /\ IF unbuffered THEN Return(IF f THEN "line" ELSE "error")
     ELSE at' = "command" /\ UNCHANGED result

\* CC_NEWLINE and CC_EOF.
EndLine(name, f, r) ==
  /\ lastcmd' = LastCmd(name) /\ filled' = f /\ argkeys' = <<>>
  /\ argument' = 1 /\ doingarg' = FALSE
  /\ Return(r)

-------------------------------------------------------------------------------
(* The commands.                                                           *)

Run(name) == at = "dispatch" /\ cmd = name
Done == cmd' = "unassigned" /\ ch' = 0 /\ UNCHANGED path
Kept == Done /\ UNCHANGED <<queueVars, metanext, unbuffered, pushes, taken>>

\* ed_insert puts as many characters in the line as the argument says.
Inserts == filled \/ argument > 0

SelfInsert == Run("insert") /\ Finish("insert", IF ch = 0 THEN filled ELSE Inserts) /\ Kept

DigitValue == Digit[ch]

\* ed_digit: outside an argument the digit is inserted.
DigitCommand ==
  /\ Run("digit") /\ Kept
  /\ IF ch \notin DOMAIN Digit THEN Finish("digit", filled)
     ELSE IF ~doingarg THEN Finish("digit", Inserts)
     ELSE IF lastcmd # "universal-argument" /\ argument > ArgLimit THEN Finish("digit", filled)
     ELSE /\ argument' = IF lastcmd = "universal-argument" THEN DigitValue
                         ELSE argument * 10 + DigitValue
          /\ GoOn("digit") /\ UNCHANGED <<doingarg, filled>>

\* ed_argument_digit.
ArgumentDigit ==
  /\ Run("argument-digit") /\ Kept
  /\ IF ch \notin DOMAIN Digit \/ (doingarg /\ argument > ArgLimit)
     THEN Finish("argument-digit", filled)
     ELSE /\ argument' = IF doingarg THEN argument * 10 + DigitValue ELSE DigitValue
          /\ doingarg' = TRUE
          /\ GoOn("argument-digit") /\ UNCHANGED filled

\* em_universal_argument.
UniversalArgument ==
  /\ Run("universal-argument") /\ Kept
  /\ IF argument > ArgLimit THEN Finish("universal-argument", filled)
     ELSE /\ argument' = argument * 4 /\ doingarg' = TRUE
          /\ GoOn("universal-argument") /\ UNCHANGED filled

MetaNext ==
  /\ Run("meta-next") /\ metanext' = TRUE
  /\ GoOn("meta-next") /\ Done
  /\ UNCHANGED <<queueVars, argument, doingarg, unbuffered, filled, pushes, taken>>

\* ed_quoted_insert waits for its character itself; NUL is not inserted.
QuotedInsert ==
  /\ Run("quoted-insert") /\ at' = "quoted" /\ Done
  /\ UNCHANGED <<queueVars, stateVars, callVars, pushes, taken>>

GetQuoted(c) ==
  /\ at = "quoted"
  /\ TakeQueued(c) \/ TakeTyped(c)
  /\ Finish("quoted-insert", IF c = 0 THEN filled ELSE Inserts)
  /\ UNCHANGED <<pathVars, metanext, unbuffered, pushes>>

\* ed_newline ends the line with a newline, which counts.
Newline == Run("newline") /\ EndLine("newline", TRUE, "line") /\ Kept

\* CC_EOF: unbuffered, a control-D goes on the line and the line is returned.
EndOfFile == Run("end-of-file") /\ EndLine("end-of-file", filled \/ unbuffered, IF unbuffered THEN "line" ELSE "end") /\ Kept

\* em_kill_line, which cuts all of it.
KillLine == Run("kill-line") /\ Finish("kill-line", FALSE) /\ Kept

Unassigned == Run("unassigned") /\ Finish("unassigned", filled) /\ Kept

\* A function of the application that pushes a string.
PushCommand ==
  /\ Run("push")
  /\ IF pushes = MaxPushes THEN UNCHANGED <<macros, pushes>>
     ELSE pushes' = pushes + 1 /\ \E s \in Strings : macros' = Pushed(macros, s)
  /\ Finish("push", filled) /\ Done
  /\ UNCHANGED <<offset, metanext, unbuffered, taken>>

\* CC_FATAL, from a function of the application: everything starts over.
Fatal ==
  /\ Run("fatal") /\ Reset
  /\ macros' = <<>> /\ offset' = 0
  /\ IF unbuffered THEN Return("error") ELSE at' = "command" /\ UNCHANGED result
  /\ Done /\ UNCHANGED <<unbuffered, pushes, taken>>

\* A read fails: before or in a key sequence the call gives up and the
\* argument stays; in a quoted insert that is the end of the file.
ReadFails ==
  /\ InputEnds /\ UNCHANGED <<cmd, ch, metanext, unbuffered, pushes>>
  /\ path' = <<>>
  /\ \/ /\ at \in {"command", "sequence"}
        /\ Return(IF unbuffered /\ filled THEN "line" ELSE "error")
        /\ UNCHANGED <<argument, doingarg, lastcmd, argkeys, filled>>
     \/ /\ at = "quoted"
        /\ EndLine("quoted-insert", filled \/ unbuffered, IF unbuffered THEN "line" ELSE "end")

GetCharacter(c) == GetKey(c) \/ GetNextKey(c) \/ GetQuoted(c)

\* What the library does on its own, ...
Work ==
  \/ \E c \in ToSet(FlattenSeq(macros)) : Waiting # {} /\ GetCharacter(c)
  \/ Lookup
  \/ SelfInsert \/ DigitCommand \/ ArgumentDigit \/ UniversalArgument \/ MetaNext
  \/ QuotedInsert \/ Newline \/ EndOfFile \/ KillLine \/ Unassigned \/ PushCommand \/ Fatal

\* ... what it waits for, ...
Wait == (\E c \in Typed : Waiting = {} /\ GetCharacter(c)) \/ ReadFails

\* ... and what the application does.
Application == Call \/ SetUnbuffered \/ Prepare \/ \E s \in Strings : Push(s)

Next == Work \/ Wait \/ Application

\* The library does not stop by itself; the user and the application may.
Spec == Init /\ [][Next]_vars /\ WF_vars(Work)

-------------------------------------------------------------------------------
(* Properties.                                                             *)

\* Wherever the strings come from - the application between calls, one of
\* its functions, the expansion of a key in the middle of another string -
\* the characters are taken in the order the input queue promises.
Queue == INSTANCE InputQueue WITH
           queue <- FlattenSeq([i \in 1..Len(macros) |->
                      IF i = 1 THEN SubSeq(macros[1], offset + 1, Len(macros[1])) ELSE macros[i]])

ImplementsQueue == Queue!QueueSpec

\* The argument is the one typed in front of the next command, and nothing
\* is left in it of an earlier command, a failed one or an earlier line.
Typing(arg, k) ==
  LET a == arg.value IN
  CASE k[1] = "universal-argument" -> [value |-> a * 4, open |-> FALSE, reading |-> TRUE]
    [] k[1] = "meta-next" -> [arg EXCEPT !.open = TRUE]
    [] k[1] = "digit" -> [arg EXCEPT !.value = IF arg.open THEN a * 10 + k[2] ELSE k[2], !.open = TRUE]
    [] k[1] = "argument-digit" ->
         [value |-> IF arg.reading THEN a * 10 + k[2] ELSE k[2], open |-> TRUE, reading |-> TRUE]

ArgumentAsTyped ==
  LET arg == FoldLeft(Typing, [value |-> 1, open |-> TRUE, reading |-> FALSE], argkeys)
  IN argument = arg.value /\ doingarg = arg.reading

\* The meta key is for the very next character, which was not yet taken.
MetaForNextKey == metanext => Metas(argkeys)

\* What waits in the queue is taken, with all that it expands to, until the
\* library waits for the terminal or the call is over.
QueueDrains ==
  Waiting # {} ~> \/ at = "application"
                  \/ at \in {"command", "sequence", "quoted"} /\ Waiting = {}

===============================================================================
