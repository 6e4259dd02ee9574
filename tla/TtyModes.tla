-------------------------------- MODULE TtyModes -------------------------------
(***************************************************************************)
(* The modes of the terminal (tty.c), as functions of a record that holds  *)
(* the device and what editline keeps of it: the settings found at the     *)
(* start (or), read last (ts, also those of quoting: t_qu is t_ts), used   *)
(* while editing (ed) and while executing (ex); the mode, the masks (t)    *)
(* and the special characters (c) of each mode.                            *)
(*                                                                         *)
(* A setting is a set of flags for each kind and a value for each special  *)
(* character.  Kept of the flags: those that tell cooked mode and signals, *)
(* one a mask of quoting names, and one no mask names.                     *)
(***************************************************************************)
EXTENDS Naturals

Kinds == {"inp", "ctl", "lin"}
Chars == {"erase", "susp"}
Modes == {"EX", "ED", "QU"}

ttyperm ==
  [EX |-> [inp |-> [set |-> {}, clr |-> {}], ctl |-> [set |-> {}, clr |-> {}],
           lin |-> [set |-> {"isig", "icanon"}, clr |-> {}], char |-> [set |-> {}, clr |-> {}]],
   ED |-> [inp |-> [set |-> {}, clr |-> {}], ctl |-> [set |-> {}, clr |-> {}],
           lin |-> [set |-> {"isig"}, clr |-> {"icanon"}], char |-> [set |-> {"susp"}, clr |-> {}]],
   QU |-> [inp |-> [set |-> {}, clr |-> {"ixon"}], ctl |-> [set |-> {}, clr |-> {}],
           lin |-> [set |-> {}, clr |-> {"isig"}], char |-> [set |-> {}, clr |-> {}]]]

\* "off" is _POSIX_VDISABLE; the third table, of what was read, begins empty.
ttychar ==
  [EX |-> [erase |-> "default", susp |-> "default"],
   ED |-> [erase |-> "default", susp |-> "off"],
   TS |-> [erase |-> "nul", susp |-> "nul"]]

tty__cooked_mode(td) == "icanon" \in td.flags["lin"]

-------------------------------------------------------------------------------
(* Flags and characters.                                                   *)

tty_update_flag(t, f, mode, kind) == (f \ t.t[mode][kind].clr) \cup t.t[mode][kind].set

tty_setup_flags(t, td, mode) ==
  [td EXCEPT !.flags = [k \in Kinds |-> tty_update_flag(t, td.flags[k], mode, k)]]

tty__setchar(td, s) == [td EXCEPT !.ch = s]
tty__getchar(td) == td.ch

\* Kinds in which what was read is neither what editline left there nor, for
\* the control flags, what it uses to edit.
Changed(t) ==
  {k \in Kinds : t.ts.flags[k] # t.ex.flags[k] /\ (k = "ctl" => t.ts.flags[k] # t.ed.flags[k])}

tty_update_flags(t) ==
  LET follow(td, mode) ==
        [td EXCEPT !.flags = [k \in Kinds |-> IF k \in Changed(t)
                                              THEN tty_update_flag(t, t.ts.flags[k], mode, k) ELSE td.flags[k]]]
  IN [t EXCEPT !.ed = follow(t.ed, "ED"), !.ex = follow(t.ex, "EX")]

\* The characters of a mode follow those read, except the mode's own.
tty_update_char(t, mode) ==
  [x \in Chars |->
    IF x \in t.t[mode].char.clr THEN "off"
    ELSE IF x \notin t.t[mode].char.set /\ t.c["TS"][x] # t.c["EX"][x] THEN t.c["TS"][x] ELSE t.c[mode][x]]

-------------------------------------------------------------------------------
(* The modes.  fails says which of the two calls on the device fails.      *)

Faults == {"get", "set"}

\* What the user changed in cooked mode is taken over into the other settings;
\* the editing mode first, as it asks what the executing mode had.
Propagated(t) ==
  IF ~tty__cooked_mode(t.ts) THEN t
  ELSE LET f == tty_update_flags(t)
           r == [f EXCEPT !.c["TS"] = tty__getchar(t.ts)]
       IN IF r.c["TS"] = r.c["EX"] THEN r
          ELSE LET d == [r EXCEPT !.c["ED"] = tty_update_char(r, "ED")]
                   e == [d EXCEPT !.c["EX"] = tty_update_char(d, "EX")]
               IN [e EXCEPT !.ed = tty__setchar(e.ed, e.c["ED"]), !.ex = tty__setchar(e.ex, e.c["EX"])]

RawNeeded(t, disabled) == t.mode = "EX" /\ ~disabled

\* The device is in raw mode and t_mode does not say so yet.
RawSet(t, fails) ==
  LET p == Propagated([t EXCEPT !.ts = t.dev])
  IN CASE fails = "get" -> t
       [] fails = "set" -> p
       [] OTHER         -> [p EXCEPT !.dev = p.ed]

tty_rawmode(t, disabled) ==
  IF RawNeeded(t, disabled) THEN [RawSet(t, "none") EXCEPT !.mode = "ED"] ELSE t

CookNeeded(t, disabled) == t.mode # "EX" /\ ~disabled
CookSet(t) == [t EXCEPT !.dev = t.ex]

tty_cookedmode(t, disabled) ==
  IF CookNeeded(t, disabled) THEN [CookSet(t) EXCEPT !.mode = "EX"] ELSE t

tty_quotemode(t) ==
  IF t.mode = "QU" THEN t
  ELSE LET q == tty_setup_flags(t, t.ed, "QU") IN [t EXCEPT !.ts = q, !.dev = q, !.mode = "QU"]

tty_noquotemode(t) == IF t.mode # "QU" THEN t ELSE [t EXCEPT !.dev = t.ed, !.mode = "ED"]

-------------------------------------------------------------------------------
(* Begin and end.                                                          *)

\* The characters a terminal in cooked mode had are kept where they are not
\* disabled, unless the program asked for no reset.
tty_setup(t, disabled, reset) ==
  IF disabled \/ t.initialized THEN t
  ELSE
    LET found == tty__getchar(t.dev)
        keeps == reset /\ tty__cooked_mode(t.dev)
        c == IF ~keeps THEN t.c
             ELSE [TS |-> found,
                   ED |-> [x \in Chars |-> IF found[x] # "off" /\ t.c["ED"][x] # "off" THEN found[x] ELSE t.c["ED"][x]],
                   EX |-> [x \in Chars |-> IF found[x] # "off" THEN found[x] ELSE t.c["EX"][x]]]
        ex0 == tty_setup_flags(t, t.dev, "EX")
        ex == IF reset THEN tty__setchar(ex0, c["EX"]) ELSE ex0
        ed == tty__setchar(tty_setup_flags(t, t.dev, "ED"), c["ED"])
    IN [t EXCEPT !.or = t.dev, !.ts = t.dev, !.ex = ex, !.ed = ed, !.c = c,
                 !.dev = IF reset THEN ex ELSE t.dev, !.initialized = TRUE]

\* Mutant: a terminal that was set up stays as it was found then.
tty_init_Once(t, disabled, reset) ==
  tty_setup([t EXCEPT !.mode = "EX", !.t = ttyperm, !.c = ttychar], disabled, reset)

tty_init(t, disabled, reset) ==
  tty_setup([t EXCEPT !.mode = "EX", !.initialized = FALSE, !.t = ttyperm, !.c = ttychar], disabled, reset)

tty_end(t, disabled) == IF disabled \/ ~t.initialized THEN t ELSE [t EXCEPT !.dev = t.or]

-------------------------------------------------------------------------------
(* setty.  Of the settings chosen by -d, -x and -q, a flag is forced on or *)
(* off or no longer forced, or a character is set; the characters that     *)
(* editline keeps for the mode do not change.                              *)

Settings == [EX |-> "ex", ED |-> "ed", QU |-> "ts"]

\* sign is "+", "-" or "" for none.
SttyFlag(t, z, kind, flag, sign) ==
  LET m == t.t[z][kind]
      n == [set |-> IF sign = "+" THEN m.set \cup {flag} ELSE m.set \ {flag},
            clr |-> IF sign = "-" THEN m.clr \cup {flag} ELSE m.clr \ {flag}]
  IN [t EXCEPT !.t[z][kind] = n]

SttyChar(t, z, x, v) == [t EXCEPT ![Settings[z]].ch[x] = v]

\* The end of the command: the flags apply, and the device follows when the
\* terminal is in that mode.
SttyApply(t, z) ==
  LET td == tty_setup_flags(t, t[Settings[z]], z)
      s == [t EXCEPT ![Settings[z]] = td]
  IN IF t.mode = z THEN [s EXCEPT !.dev = td] ELSE s
===============================================================================
