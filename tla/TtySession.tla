------------------------------- MODULE TtySession ------------------------------
(***************************************************************************)
(* A line is read on a terminal that other programs set too, while signals *)
(* arrive: el_wgets and what it calls (read.c), the handlers of sig.c, the *)
(* flags and modes a program sets with el_set (el.c), and the three ways   *)
(* to read a line: el_gets, readline() and the callbacks of readline.      *)
(*                                                                         *)
(* The program is one thread; phase is where it is.  A signal comes        *)
(* between any two steps, also after the device changed mode and before    *)
(* t_mode says so.  A handler is one step: it is not interrupted by        *)
(* another.                                                                *)
(***************************************************************************)
EXTENDS TtyModes

CONSTANTS
  Apis,           \* ways to read a line: "el_gets", "readline", "callback"
  Flags,          \* of el_flags, those the program may set
  Signals,        \* of ALLSIGS, those that arrive
  UserChars,      \* values the user gives to special characters
  MaxChanges      \* BOUND: changes of settings, flags and handlers

ASSUME ChangesAssumption == MaxChanges \in Nat
ASSUME FlagsAssumption == Flags \subseteq {"HANDLE_SIGNALS", "EDIT_DISABLED", "FIXIO"}
ASSUME SignalsAssumption == Signals \subseteq {"INT", "TSTP", "CONT", "WINCH"}

VARIABLES
  tty,            \* the device and el_tty
  el_flags,
  api,            \* how this program reads lines
  phase, after,   \* where the thread is, and where it goes from there
  quoting,        \* the key being read is quoted
  disp, saved,    \* the handler of each signal, and sig_action
  sig_no,
  intr, tried,    \* the read was interrupted; read_char may mend no other error
  stopped,        \* the process is stopped
  wanted,         \* history: the settings as the user has them in cooked mode
  last,           \* history: the handlers the program set last
  excuses,        \* history: what need not hold between lines any more
  changes

sigVars == <<disp, saved, last>>
readVars == <<sig_no, intr, tried>>
pcVars == <<phase, after, quoting>>
sessVars == <<tty, wanted, el_flags, api, pcVars, sigVars, readVars, stopped, excuses, changes>>

ALLSIGS == {"INT", "TSTP", "CONT", "WINCH"}
Disabled == "EDIT_DISABLED" \in el_flags
Unbuffered == "UNBUFFERED" \in el_flags
Handles == "HANDLE_SIGNALS" \in el_flags
Runs == ~stopped
Between == phase = "out" /\ ~Unbuffered /\ Runs
DevCooked == tty__cooked_mode(tty.dev)

\* The settings a terminal has when the program starts.
Terminals ==
  {[flags |-> [inp |-> {"ixon"}, ctl |-> {}, lin |-> {"icanon", "isig"}], ch |-> [erase |-> e, susp |-> "default"]] :
     e \in UserChars}

Blank(d) == [dev |-> d, or |-> d, ts |-> d, ed |-> d, ex |-> d, mode |-> "EX", initialized |-> FALSE,
             t |-> ttyperm, c |-> ttychar]

\* el_init; the readline interface asks for no reset and ends the terminal.
Opened(d) ==
  LET t == tty_init(Blank(d), FALSE, api = "el_gets") IN IF api = "el_gets" THEN t ELSE tty_end(t, FALSE)

Init ==
  /\ api \in Apis
  /\ el_flags \in SUBSET ({"HANDLE_SIGNALS"} \cap Flags)
  /\ \E d \in Terminals : tty = Opened(d)
  /\ phase = "out" /\ after = "out" /\ quoting = FALSE
  /\ disp = [INT |-> "app", TSTP |-> "dfl", CONT |-> "dfl", WINCH |-> "dfl"]
  /\ saved = [s \in ALLSIGS |-> "none"] /\ last = disp
  /\ sig_no = "none" /\ intr = FALSE /\ tried = FALSE
  /\ stopped = FALSE /\ wanted = tty.dev /\ excuses = {} /\ changes = 0

Change == changes < MaxChanges /\ changes' = changes + 1
Go(p) == phase' = p /\ UNCHANGED <<after, quoting>>
Keeps == UNCHANGED <<wanted, api, last, changes>>

-------------------------------------------------------------------------------
(* sig.c.                                                                  *)

\* Mutant: what is saved may be the handler of editline.
sig_set_Again == saved' = disp /\ disp' = [s \in ALLSIGS |-> "lib"]

\* What is not yet the handler of editline is saved.
sig_set ==
  /\ saved' = [s \in ALLSIGS |-> IF disp[s] # "lib" THEN disp[s] ELSE saved[s]]
  /\ disp' = [s \in ALLSIGS |-> "lib"]

sig_clr == disp' = [s \in ALLSIGS |-> IF saved[s] # "none" THEN saved[s] ELSE disp[s]] /\ UNCHANGED saved

\* A handler of editline sets the mode, puts the saved handler back and raises
\* the signal again, which runs the program's handler or stops the process.
sig_handler(s) ==
  /\ disp[s] = "lib"
  /\ tty' = CASE s = "CONT"  -> tty_rawmode(tty, Disabled)
              [] s = "WINCH" -> tty
              [] OTHER       -> tty_cookedmode(tty, Disabled)
  /\ sig_no' = IF phase \in {"read", "noedit"} THEN s ELSE "none"   \* read_char clears it before it reads
  /\ disp' = [disp EXCEPT ![s] = saved[s]] /\ saved' = [saved EXCEPT ![s] = "none"]
  /\ stopped' = (s = "TSTP" /\ saved[s] = "dfl")
  /\ intr' = (intr \/ phase \in {"read", "noedit"})
  /\ excuses' = excuses \cup (IF s = "CONT" /\ ~Disabled /\ phase \in {"cookSet", "clr", "ret", "out"} THEN {"raw"} ELSE {})
                       \cup (IF s = "CONT" /\ ~Disabled /\ phase = "out" THEN {"settings"} ELSE {})

\* A signal that editline does not handle (now).
Unhandled(s) ==
  /\ disp[s] # "lib"
  /\ stopped' = (s = "TSTP" /\ disp[s] = "dfl")
  /\ intr' = (intr \/ (disp[s] # "dfl" /\ phase \in {"read", "noedit"}))
  /\ UNCHANGED <<tty, sig_no, disp, saved, excuses>>

\* A signal arrives between two steps; the shell lets a stopped process go on.
Arrives(s) ==
  /\ IF stopped THEN s = "CONT" ELSE phase # "out" \/ disp[s] = "lib"
  /\ sig_handler(s) \/ Unhandled(s)
  /\ Keeps /\ UNCHANGED <<el_flags, pcVars, tried>>

-------------------------------------------------------------------------------
(* el_wgets, from its beginning to where it waits for a key.               *)

\* The terminal is set; t_mode is not yet.  What happens when it cannot be is
\* left to the caller.
RawStep(next) ==
  /\ tty' = RawSet(tty, "none") /\ phase' = "rawSet" /\ after' = next /\ UNCHANGED quoting
RawFails == \E f \in Faults : tty' = RawSet(tty, f)

RawNoted ==
  /\ phase = "rawSet" /\ Runs
  /\ tty' = [tty EXCEPT !.mode = "ED"]
  /\ Go(after)
  /\ excuses' = excuses \cup (IF DevCooked THEN {"settings"} ELSE {})
  /\ Keeps /\ UNCHANGED <<el_flags, disp, saved, readVars, stopped>>

\* The program asks for a line: readline() looks at the terminal afresh.
GetLine ==
  /\ phase = "out" /\ Runs
  /\ tty' = IF api = "readline" THEN tty_init(tty, Disabled, FALSE) ELSE tty
  /\ Go("start")
  /\ excuses' = excuses \cup (IF api = "readline" /\ ~DevCooked THEN {"settings"} ELSE {})
  /\ Keeps /\ UNCHANGED <<el_flags, disp, saved, readVars, stopped>>

\* In cooked mode, when no typed character waits, the terminal is set first.
Start ==
  /\ phase = "start" /\ Runs
  /\ \/ RawNeeded(tty, Disabled) /\ RawStep("prep")
     \/ RawNeeded(tty, Disabled) /\ RawFails /\ Go("ret")
     \/ UNCHANGED tty /\ Go("prep")
  /\ Keeps /\ UNCHANGED <<el_flags, disp, saved, readVars, stopped, excuses>>

\* read_prepare, and where el_wgets goes without editing.
Prepare ==
  /\ phase = "prep" /\ Runs
  /\ IF Handles /\ ~Unbuffered THEN sig_set ELSE UNCHANGED <<disp, saved>>
  /\ IF Disabled THEN phase' = "noedit" ELSE phase' = "wgetc"
  /\ excuses' = excuses \cup (IF Disabled /\ Handles /\ ~Unbuffered THEN {"handlers"} ELSE {})
  /\ Keeps /\ UNCHANGED <<after, quoting, el_flags, tty, readVars, stopped>>

\* What read_char keeps goes with it.
ReadOver == sig_no' = "none" /\ intr' = FALSE /\ tried' = FALSE

\* noedit_wgets returns at the end of the line or when a read fails, and
\* el_wgets returns with it.  After SIGCONT and SIGWINCH read_char goes on
\* reading, unless they came when the last character was there.
NoEdit ==
  /\ phase = "noedit" /\ Runs
  /\ \/ Go("ret") /\ ReadOver /\ UNCHANGED <<disp, saved>>
     \/ /\ intr /\ sig_no \in {"CONT", "WINCH"}
        /\ sig_set /\ ReadOver /\ UNCHANGED pcVars
  /\ Keeps /\ UNCHANGED <<el_flags, tty, stopped, excuses>>

\* Mutant: a read that was interrupted returns at once.
Over_Interrupted ==
  IF Unbuffered \/ intr THEN phase' = "ret" /\ UNCHANGED after ELSE phase' = "finish" /\ after' = "ret"

\* A line that is over, in one of the two ways of reading.
Over == IF Unbuffered THEN phase' = "ret" /\ UNCHANGED after ELSE phase' = "finish" /\ after' = "ret"

\* el_wgetc: the terminal is set when it is not, and read_char waits.
GetChar ==
  /\ phase = "wgetc" /\ Runs
  /\ \/ RawNeeded(tty, Disabled) /\ RawStep("wgetc")
     \/ RawNeeded(tty, Disabled) /\ RawFails /\ quoting' = FALSE /\ Over
     \/ ~RawNeeded(tty, Disabled) /\ UNCHANGED tty /\ Go("read")
  /\ tried' = (phase' = "read" /\ "FIXIO" \notin el_flags)
  /\ Keeps /\ UNCHANGED <<el_flags, disp, saved, sig_no, intr, stopped, excuses>>

\* Quoting ends, whether a key came or not.
EndsQuote == tty' = (IF quoting THEN tty_noquotemode(tty) ELSE tty) /\ quoting' = FALSE

ReadKey ==
  /\ phase = "read" /\ Runs /\ ~intr
  /\ EndsQuote /\ phase' = "cmd" /\ UNCHANGED after /\ ReadOver
  /\ Keeps /\ UNCHANGED <<el_flags, disp, saved, stopped, excuses>>

\* read() was interrupted, or failed, or the input ended.  After SIGCONT and
\* SIGWINCH the handlers are set again; read__fixio mends EINTR once.
ReadFails ==
  /\ phase = "read" /\ Runs
  /\ CASE intr /\ sig_no \in {"CONT", "WINCH"} ->
            sig_set /\ sig_no' = "none" /\ intr' = FALSE /\ UNCHANGED <<tty, pcVars, tried>>
       [] intr /\ sig_no \notin {"CONT", "WINCH"} /\ ~tried ->
            tried' = TRUE /\ intr' = FALSE /\ UNCHANGED <<tty, pcVars, sig_no, disp, saved>>
       [] OTHER -> EndsQuote /\ Over /\ ReadOver /\ UNCHANGED <<disp, saved>>
  /\ Keeps /\ UNCHANGED <<el_flags, stopped, excuses>>

\* A command that does not end the line, one that does, and the quoting one,
\* which sets the device without a look at what the user changed.
Command ==
  /\ phase = "cmd" /\ Runs
  /\ \/ /\ phase' = (IF Unbuffered THEN "ret" ELSE "wgetc") /\ UNCHANGED <<tty, after, quoting, excuses>>
     \/ Over /\ UNCHANGED <<tty, quoting, excuses>>
     \/ /\ phase' = "wgetc" /\ quoting' = TRUE /\ tty' = tty_quotemode(tty) /\ UNCHANGED after
        /\ excuses' = excuses \cup (IF tty.mode = "EX" THEN {"settings"} ELSE {})
  /\ Keeps /\ UNCHANGED <<el_flags, disp, saved, readVars, stopped>>

-------------------------------------------------------------------------------
(* read_finish, and what the caller of el_wgets does.                      *)

Finish ==
  /\ phase = "finish" /\ Runs
  /\ \/ /\ CookNeeded(tty, Disabled)
        /\ tty' = CookSet(tty) /\ Go("cookSet") /\ excuses' = excuses \ {"raw"}
     \/ /\ CookNeeded(tty, Disabled)        \* the device cannot be set
        /\ UNCHANGED tty /\ Go("clr") /\ excuses' = excuses \cup {"raw"}
     \/ /\ ~CookNeeded(tty, Disabled)
        /\ UNCHANGED tty /\ Go("clr")
        /\ excuses' = IF Disabled /\ ~(DevCooked /\ tty.mode = "EX") THEN excuses \cup {"raw"} ELSE excuses
  /\ Keeps /\ UNCHANGED <<el_flags, disp, saved, readVars, stopped>>

CookNoted ==
  /\ phase = "cookSet" /\ Runs
  /\ tty' = [tty EXCEPT !.mode = "EX"]
  /\ Go("clr")
  /\ Keeps /\ UNCHANGED <<el_flags, disp, saved, readVars, stopped, excuses>>

ClearHandlers ==
  /\ phase = "clr" /\ Runs
  /\ IF Handles THEN sig_clr ELSE UNCHANGED <<disp, saved>>
  /\ Go(after)
  /\ Keeps /\ UNCHANGED <<el_flags, tty, readVars, stopped, excuses>>

\* readline() puts the terminal back as it found it.
Return ==
  /\ phase = "ret" /\ Runs /\ api # "callback"
  /\ tty' = IF api = "readline" THEN tty_end(tty, Disabled) ELSE tty
  /\ excuses' = IF api # "readline" THEN excuses
                ELSE IF tty__cooked_mode(tty'.dev) THEN excuses \ {"raw"} ELSE excuses \cup {"raw"}
  /\ Go("out")
  /\ Keeps /\ UNCHANGED <<el_flags, disp, saved, readVars, stopped>>

\* el_set(EL_UNBUFFERED, 1), from the program or from rl_callback_read_char.
Unbuffer(next) ==
  IF Unbuffered THEN phase' = next /\ UNCHANGED <<after, el_flags, disp, saved>>
  ELSE /\ el_flags' = el_flags \cup {"UNBUFFERED"} /\ phase' = "uraw" /\ after' = next
       /\ IF Handles THEN sig_set ELSE UNCHANGED <<disp, saved>>

UnbufferedRaw ==
  /\ phase = "uraw" /\ Runs
  /\ \/ RawNeeded(tty, Disabled) /\ RawStep(after)
     \/ RawNeeded(tty, Disabled) /\ RawFails /\ Go(after)
     \/ ~RawNeeded(tty, Disabled) /\ UNCHANGED tty /\ Go(after)
  /\ Keeps /\ UNCHANGED <<el_flags, disp, saved, readVars, stopped, excuses>>

SetUnbuffered ==
  /\ phase = "out" /\ Runs /\ api # "readline"
  /\ Unbuffer("out")
  /\ Keeps /\ UNCHANGED <<tty, quoting, readVars, stopped, excuses>>

UnsetUnbuffered ==
  /\ phase = "out" /\ Runs /\ Unbuffered
  /\ el_flags' = el_flags \ {"UNBUFFERED"} /\ phase' = "finish" /\ after' = "out"
  /\ Keeps /\ UNCHANGED <<tty, quoting, disp, saved, readVars, stopped, excuses>>

\* rl_callback_read_char after el_gets: a line that is done ends the mode.
CallbackReturn ==
  /\ phase = "ret" /\ Runs /\ api = "callback"
  /\ Unbuffer("line")
  /\ Keeps /\ UNCHANGED <<tty, quoting, readVars, stopped, excuses>>

CallbackLine ==
  /\ phase = "line" /\ Runs
  /\ \/ Go("out") /\ UNCHANGED el_flags
     \/ el_flags' = el_flags \ {"UNBUFFERED"} /\ phase' = "finish" /\ after' = "out" /\ UNCHANGED quoting
  /\ Keeps /\ UNCHANGED <<tty, disp, saved, readVars, stopped, excuses>>

-------------------------------------------------------------------------------
(* What the program and the user set.                                      *)

\* el_set of a flag, between lines or by a command; handlers that are set are
\* only taken off if their flag stays.  BOUND: it is changed between lines.
SetFlag(f) ==
  /\ IF f = "HANDLE_SIGNALS" THEN Between ELSE phase \in {"out", "cmd"} /\ Runs
  /\ Change
  /\ el_flags' = IF f \in el_flags THEN el_flags \ {f} ELSE el_flags \cup {f}
  /\ UNCHANGED <<tty, wanted, api, pcVars, sigVars, readVars, stopped, excuses>>

\* EL_PREP_TERM.
PrepTerm(raw) ==
  /\ phase = "out" /\ Runs /\ Change
  /\ tty' = IF raw THEN tty_rawmode(tty, Disabled) ELSE tty_cookedmode(tty, Disabled)
  /\ excuses' = IF raw THEN excuses \cup {"raw", "settings"} ELSE excuses
  /\ UNCHANGED <<wanted, el_flags, api, pcVars, sigVars, readVars, stopped>>

\* EL_SETTY with one flag, or one character, of a mode.  The device is set from
\* what editline keeps: what the user changed since the last line is lost.
Stty(z) ==
  /\ api = "el_gets" /\ phase \in {"out", "cmd"} /\ Runs /\ Change
  /\ \/ \E sign \in {"+", "-", ""} :
          /\ tty' = SttyApply(SttyFlag(tty, z, "inp", "ixon", sign), z)
          /\ wanted' = IF z = "EX" THEN [wanted EXCEPT !.flags["inp"] = tty_update_flag(tty', @, z, "inp")] ELSE wanted
     \/ \E x \in Chars, v \in UserChars :
          /\ tty' = SttyApply(SttyChar(tty, z, x, v), z)
          /\ wanted' = IF z = "EX" THEN [wanted EXCEPT !.ch[x] = v] ELSE wanted
  /\ excuses' = excuses \cup (IF z = "EX" /\ tty.mode = "EX" /\ tty.dev # tty.ex THEN {"settings"} ELSE {})
  /\ UNCHANGED <<el_flags, api, pcVars, sigVars, readVars, stopped>>

\* The user changes a terminal in cooked mode, between lines or from the shell
\* while the process is stopped.  readline() does not keep the latter, and a
\* character that t_c holds differently from the settings may be lost, as may
\* a change while t_mode does not say how the device is set.
UserChange ==
  /\ DevCooked /\ (Between \/ stopped) /\ Change
  /\ \/ \E k \in {"inp", "ctl"}, f \in {"ixon", "parenb"} :
          /\ f = IF k = "inp" THEN "ixon" ELSE "parenb"
          /\ tty' = [tty EXCEPT !.dev.flags[k] = IF f \in @ THEN @ \ {f} ELSE @ \cup {f}]
          /\ wanted' = [wanted EXCEPT !.flags[k] = tty_update_flag(tty, tty'.dev.flags[k], "EX", k)]
     \/ \E x \in Chars, v \in UserChars \cup {"off", "default"} :
          /\ tty' = [tty EXCEPT !.dev.ch[x] = v]
          /\ wanted' = [wanted EXCEPT !.ch[x] = IF tty.ex.ch[x] = tty.c["EX"][x] THEN v ELSE "any"]
  /\ excuses' = excuses \cup (IF tty.mode # "EX" \/ (api = "readline" /\ stopped) THEN {"settings"} ELSE {})
  /\ UNCHANGED <<el_flags, api, pcVars, sigVars, readVars, stopped>>

\* The program sets a handler between lines.
AppSignal(s) ==
  /\ Between /\ Change
  /\ \E d \in {"app", "app2"} : disp' = [disp EXCEPT ![s] = d] /\ last' = [last EXCEPT ![s] = d]
  /\ UNCHANGED <<tty, wanted, el_flags, api, pcVars, saved, readVars, stopped, excuses>>

\* el_end and el_init, between lines; the terminal is as it was at the first,
\* which is raw if an earlier el_end could not set it.
\* BOUND: no handler was left behind, which el_end would not take off either.
Reopen ==
  /\ Between /\ Change
  /\ \A s \in ALLSIGS : disp[s] # "lib"
  /\ tty' = Opened(tty_end(tty_cookedmode(tty, Disabled), Disabled).dev)
  /\ wanted' = tty'.dev
  /\ saved' = [s \in ALLSIGS |-> "none"]
  /\ el_flags' = {}
  /\ excuses' = excuses \cup (IF tty__cooked_mode(tty'.dev) THEN {} ELSE {"raw"})
  /\ UNCHANGED <<api, pcVars, disp, last, readVars, stopped>>

Next ==
  \/ \E s \in Signals : Arrives(s)
  \/ GetLine \/ Start \/ RawNoted \/ Prepare \/ NoEdit \/ GetChar \/ ReadKey \/ ReadFails \/ Command
  \/ Finish \/ CookNoted \/ ClearHandlers \/ Return
  \/ SetUnbuffered \/ UnsetUnbuffered \/ UnbufferedRaw \/ CallbackReturn \/ CallbackLine
  \/ \E f \in Flags : SetFlag(f)
  \/ \E raw \in BOOLEAN : PrepTerm(raw)
  \/ \E z \in Modes : Stty(z)
  \/ UserChange \/ Reopen
  \/ \E s \in Signals : AppSignal(s)

Spec == Init /\ [][Next]_sessVars

-------------------------------------------------------------------------------
(* Properties.                                                             *)

\* Between lines the terminal is in cooked mode, however the line ended and
\* whatever signals came, except where the code cannot know better: the device
\* could not be set, editing was switched off in raw mode, the program asked
\* for raw mode, SIGCONT came after read_finish had set the device, or the
\* library was opened on a terminal in raw mode and has put that back.
CookedBetween == Between /\ "raw" \notin excuses => DevCooked

\* What the user changed in cooked mode, between lines or while the process was
\* stopped, is what the terminal has between lines, but for what a mask of the
\* executing mode decides.
UserSettingsKept ==
  Between /\ excuses \cap {"raw", "settings"} = {} =>
    /\ \A k \in {"inp", "ctl"} : tty_update_flag(tty, tty.dev.flags[k], "EX", k) = wanted.flags[k]
    /\ \A x \in Chars : wanted.ch[x] \in {"any", tty.dev.ch[x]}

\* A handler of editline always knows the program's, which is the one set
\* last, and between lines the program's handlers are in place, unless the
\* flag was changed during a line or the line was read without editing.
HandlersBack ==
  /\ \A s \in ALLSIGS : disp[s] = "lib" => saved[s] = last[s]
  /\ Between /\ "handlers" \notin excuses => disp = last
===============================================================================
