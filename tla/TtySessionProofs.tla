--------------------------- MODULE TtySessionProofs ----------------------------
(***************************************************************************)
(* Proofs about TtySession, for every way to read a line, every signal and *)
(* any number of changes of settings, flags and handlers.                  *)
(*                                                                         *)
(* None of the three properties is inductive: each speaks of the time      *)
(* between lines.  SessionInv says what holds within a line: where the     *)
(* thread may go (PcInv), whose handlers are in place from read_prepare to *)
(* sig_clr and what they know (HandlersInv), and when the device is in     *)
(* cooked mode (CookedInv).  SettingsInv says where the user's settings    *)
(* are while the device does not show them: in the settings for executing, *)
(* which the device gets back.                                             *)
(***************************************************************************)
EXTENDS TtySession, TLAPS

Flag == {"ixon", "parenb", "icanon", "isig"}
Value == UserChars \cup {"off", "default", "nul"}
Setting == [flags : [Kinds -> SUBSET Flag], ch : [Chars -> Value]]

Names == Flag \cup Chars
Mask == [set : SUBSET Names, clr : SUBSET Names]
Masks == [inp : Mask, ctl : Mask, lin : Mask, char : Mask]

\* el_tty and the device.
Terminal ==
  [dev : Setting, or : Setting, ts : Setting, ed : Setting, ex : Setting,
   mode : Modes, initialized : BOOLEAN,
   t : [EX : Masks, ED : Masks, QU : Masks],
   c : [EX : [Chars -> Value], ED : [Chars -> Value], TS : [Chars -> Value]]]

\* The masks of the modes, as setty may leave them: forced flags are flags.
Masked(t) ==
  /\ \A z \in Modes, k \in Kinds : t.t[z][k].set \subseteq Flag
  /\ "icanon" \in t.t["EX"]["lin"].set

\* A terminal whose settings for executing are those of cooked mode.
WellSet(t) == t \in Terminal /\ Masked(t) /\ tty__cooked_mode(t.ex)

-------------------------------------------------------------------------------
(* Settings.                                                               *)

LEMMA TerminalParts ==
  ASSUME NEW t \in Terminal
  PROVE  /\ t.dev \in Setting /\ t.or \in Setting /\ t.ts \in Setting
         /\ t.ed \in Setting /\ t.ex \in Setting
         /\ t.mode \in Modes /\ t.initialized \in BOOLEAN
         /\ t.c["EX"] \in [Chars -> Value] /\ t.c["ED"] \in [Chars -> Value]
         /\ t.c["TS"] \in [Chars -> Value]
BY DEF Terminal

LEMMA UpdatedFlags ==
  ASSUME NEW t, Masked(t), NEW f \in SUBSET Flag, NEW z \in Modes, NEW k \in Kinds
  PROVE  /\ tty_update_flag(t, f, z, k) \in SUBSET Flag
         /\ z = "EX" /\ k = "lin" => "icanon" \in tty_update_flag(t, f, z, k)
BY DEF Masked, tty_update_flag

LEMMA SetupFlags ==
  ASSUME NEW t, Masked(t), NEW td \in Setting, NEW z \in Modes
  PROVE  /\ tty_setup_flags(t, td, z) \in Setting
         /\ tty_setup_flags(t, td, z).ch = td.ch
         /\ z = "EX" => tty__cooked_mode(tty_setup_flags(t, td, z))
<1> DEFINE new == [k \in Kinds |-> tty_update_flag(t, td.flags[k], z, k)]
<1>1. \A k \in Kinds : td.flags[k] \in SUBSET Flag
  BY DEF Setting
<1>2. new \in [Kinds -> SUBSET Flag]
  BY <1>1, UpdatedFlags
<1>3. z = "EX" => "icanon" \in new["lin"]
  BY <1>1, UpdatedFlags DEF Kinds
<1>4. tty_setup_flags(t, td, z) = [td EXCEPT !.flags = new]
  BY DEF tty_setup_flags
<1> HIDE DEF new
<1>5. /\ [td EXCEPT !.flags = new] \in Setting
      /\ [td EXCEPT !.flags = new].flags = new
      /\ [td EXCEPT !.flags = new].ch = td.ch
  BY <1>2 DEF Setting
<1> QED
  BY <1>3, <1>4, <1>5 DEF tty__cooked_mode

LEMMA SetChars ==
  ASSUME NEW td \in Setting, NEW s \in [Chars -> Value]
  PROVE  /\ tty__setchar(td, s) \in Setting
         /\ tty__cooked_mode(td) <=> tty__cooked_mode(tty__setchar(td, s))
BY DEF Setting, tty__setchar, tty__cooked_mode

-------------------------------------------------------------------------------
(* The modes.                                                              *)

\* What a function of the modes may do to a terminal: the settings for
\* executing stay those of cooked mode.
Same(t, u) == u.dev = t.dev /\ u.mode = t.mode /\ u.initialized = t.initialized

LEMMA FollowFlags ==
  ASSUME NEW t, WellSet(t), NEW td \in Setting, NEW z \in Modes
  PROVE  LET f == [td EXCEPT !.flags = [k \in Kinds |->
                     IF k \in Changed(t) THEN tty_update_flag(t, t.ts.flags[k], z, k) ELSE td.flags[k]]]
         IN /\ f \in Setting
            /\ z = "EX" /\ tty__cooked_mode(td) => tty__cooked_mode(f)
<1> DEFINE new == [k \in Kinds |-> IF k \in Changed(t) THEN tty_update_flag(t, t.ts.flags[k], z, k)
                                   ELSE td.flags[k]]
<1>1. /\ \A k \in Kinds : td.flags[k] \in SUBSET Flag /\ t.ts.flags[k] \in SUBSET Flag
  BY TerminalParts DEF WellSet, Setting
<1>2. new \in [Kinds -> SUBSET Flag]
  BY <1>1, UpdatedFlags DEF WellSet
<1>3. z = "EX" /\ "icanon" \in td.flags["lin"] => "icanon" \in new["lin"]
  BY <1>1, UpdatedFlags DEF Kinds, WellSet
<1> HIDE DEF new
<1>4. /\ [td EXCEPT !.flags = new] \in Setting
      /\ [td EXCEPT !.flags = new].flags = new
  BY <1>2 DEF Setting
<1>5. z = "EX" /\ tty__cooked_mode(td) => tty__cooked_mode([td EXCEPT !.flags = new])
  BY <1>3, <1>4 DEF tty__cooked_mode
<1> QED
  BY <1>4, <1>5 DEF new

LEMMA UpdateFlagsKeeps ==
  ASSUME NEW t, WellSet(t)
  PROVE  WellSet(tty_update_flags(t)) /\ Same(t, tty_update_flags(t))
<1> DEFINE follow(td, z) ==
             [td EXCEPT !.flags = [k \in Kinds |->
                IF k \in Changed(t) THEN tty_update_flag(t, t.ts.flags[k], z, k) ELSE td.flags[k]]]
           ed == follow(t.ed, "ED")
           ex == follow(t.ex, "EX")
<1>1. ed \in Setting /\ ex \in Setting /\ tty__cooked_mode(ex)
  <2>1. t.ed \in Setting /\ t.ex \in Setting /\ tty__cooked_mode(t.ex)
    BY TerminalParts DEF WellSet
  <2>2. \A td \in Setting, z \in Modes :
          follow(td, z) \in Setting /\ (z = "EX" /\ tty__cooked_mode(td) => tty__cooked_mode(follow(td, z)))
    BY FollowFlags
  <2> HIDE DEF follow
  <2> QED
    BY <2>1, <2>2 DEF Modes
<1>2. tty_update_flags(t) = [t EXCEPT !.ed = ed, !.ex = ex]
  BY DEF tty_update_flags
<1> HIDE DEF ed, ex
<1> DEFINE u == [t EXCEPT !.ed = ed, !.ex = ex]
<1>3. u \in Terminal /\ u.ex = ex /\ u.t = t.t /\ Same(t, u)
  BY <1>1 DEF WellSet, Terminal, Same
<1>4. WellSet(u)
  BY <1>1, <1>3 DEF WellSet, Masked
<1> QED
  BY <1>2, <1>3, <1>4

\* The characters of editline change.
LEMMA CharsKept ==
  ASSUME NEW t, WellSet(t), NEW n \in {"EX", "ED", "TS"}, NEW s \in [Chars -> Value]
  PROVE  LET u == [t EXCEPT !.c[n] = s] IN WellSet(u) /\ Same(t, u) /\ u.c[n] = s
<1> DEFINE c == [t.c EXCEPT ![n] = s]
           u == [t EXCEPT !.c = c]
<1>0. /\ c \in [EX : [Chars -> Value], ED : [Chars -> Value], TS : [Chars -> Value]]
      /\ c[n] = s
  <2>1. t.c \in [EX : [Chars -> Value], ED : [Chars -> Value], TS : [Chars -> Value]]
    BY DEF WellSet, Terminal
  <2>2. CASE n = "EX"
    BY <2>1, <2>2
  <2>3. CASE n = "ED"
    BY <2>1, <2>3
  <2>4. CASE n = "TS"
    BY <2>1, <2>4
  <2> QED
    BY <2>2, <2>3, <2>4
<1> HIDE DEF c
<1>1. u \in Terminal /\ u.ex = t.ex /\ u.t = t.t /\ Same(t, u) /\ u.c[n] = s
  BY <1>0 DEF WellSet, Terminal, Same
<1>2. WellSet(u)
  BY <1>1 DEF WellSet, Masked
<1> QED
  BY <1>1, <1>2 DEF c

LEMMA UpdatedChars ==
  ASSUME NEW t \in Terminal, NEW z \in {"ED", "EX"}
  PROVE  tty_update_char(t, z) \in [Chars -> Value]
<1>1. \A x \in Chars : t.c["TS"][x] \in Value /\ t.c[z][x] \in Value
  BY DEF Terminal
<1> QED
  BY <1>1 DEF tty_update_char, Value

LEMMA PropagatedKeeps ==
  ASSUME NEW t, WellSet(t)
  PROVE  WellSet(Propagated(t)) /\ Same(t, Propagated(t))
<1> DEFINE f == tty_update_flags(t)
           r == [f EXCEPT !.c["TS"] = tty__getchar(t.ts)]
           d == [r EXCEPT !.c["ED"] = tty_update_char(r, "ED")]
           e == [d EXCEPT !.c["EX"] = tty_update_char(d, "EX")]
           g == [e EXCEPT !.ed = tty__setchar(e.ed, e.c["ED"]), !.ex = tty__setchar(e.ex, e.c["EX"])]
<1>1. WellSet(f) /\ Same(t, f)
  BY UpdateFlagsKeeps
<1> HIDE DEF f
<1>2. WellSet(r) /\ Same(f, r)
  <2>1. tty__getchar(t.ts) \in [Chars -> Value]
    BY TerminalParts DEF tty__getchar, WellSet, Setting
  <2> QED
    BY <1>1, <2>1, CharsKept
<1> HIDE DEF r
<1>3. WellSet(d) /\ Same(r, d)
  BY <1>2, UpdatedChars, CharsKept DEF WellSet
<1> HIDE DEF d
<1>4. WellSet(e) /\ Same(d, e)
  BY <1>3, UpdatedChars, CharsKept DEF WellSet
<1> HIDE DEF e
<1>5. WellSet(g) /\ Same(e, g)
  <2> DEFINE ed == tty__setchar(e.ed, e.c["ED"])
             ex == tty__setchar(e.ex, e.c["EX"])
  <2>1. ed \in Setting /\ ex \in Setting /\ tty__cooked_mode(ex)
    BY <1>4, TerminalParts, SetChars DEF WellSet
  <2> HIDE DEF ed, ex
  <2> DEFINE u == [e EXCEPT !.ed = ed, !.ex = ex]
  <2>2. u \in Terminal /\ u.ex = ex /\ u.t = e.t /\ Same(e, u)
    BY <1>4, <2>1 DEF WellSet, Terminal, Same
  <2>3. WellSet(u)
    BY <1>4, <2>1, <2>2 DEF WellSet, Masked
  <2> QED
    BY <2>2, <2>3 DEF ed, ex
<1> HIDE DEF g
<1>6. Propagated(t) \in {t, r, g}
  BY DEF Propagated, f, r, d, e, g
<1> QED
  BY <1>1, <1>2, <1>3, <1>4, <1>5, <1>6 DEF Same

LEMMA RawSetKeeps ==
  ASSUME NEW t, WellSet(t), NEW fails \in Faults \cup {"none"}
  PROVE  /\ WellSet(RawSet(t, fails)) /\ RawSet(t, fails).mode = t.mode
         /\ fails \in Faults => RawSet(t, fails).dev = t.dev
<1> DEFINE read == [t EXCEPT !.ts = t.dev]
           p == Propagated(read)
           raw == [p EXCEPT !.dev = p.ed]
<1>1. read \in Terminal /\ read.ex = t.ex /\ read.t = t.t /\ Same(t, read)
  BY DEF WellSet, Terminal, Same
<1>2. WellSet(read)
  BY <1>1 DEF WellSet, Masked
<1> HIDE DEF read
<1>3. WellSet(p) /\ Same(read, p)
  BY <1>2, PropagatedKeeps
<1>4. RawSet(t, fails) = CASE fails = "get" -> t [] fails = "set" -> p [] OTHER -> raw
  BY DEF RawSet, read
<1> HIDE DEF p
<1>5. raw \in Terminal /\ raw.ex = p.ex /\ raw.t = p.t /\ raw.mode = p.mode
  BY <1>3, TerminalParts DEF WellSet, Terminal
<1>6. WellSet(raw)
  BY <1>3, <1>5 DEF WellSet, Masked
<1> HIDE DEF raw
<1>7. CASE fails = "get"
  BY <1>4, <1>7
<1>8. CASE fails = "set"
  BY <1>1, <1>3, <1>4, <1>8 DEF Same
<1>9. CASE fails = "none"
  BY <1>1, <1>3, <1>4, <1>5, <1>6, <1>9 DEF Same, Faults
<1> QED
  BY <1>7, <1>8, <1>9 DEF Faults

\* A terminal with another mode noted, or another setting on the device.
LEMMA ModeNoted ==
  ASSUME NEW t, WellSet(t), NEW z \in Modes
  PROVE  LET u == [t EXCEPT !.mode = z]
         IN WellSet(u) /\ u.mode = z /\ u.dev = t.dev /\ u.ex = t.ex
<1> DEFINE u == [t EXCEPT !.mode = z]
<1>1. u \in Terminal /\ u.ex = t.ex /\ u.t = t.t /\ u.mode = z /\ u.dev = t.dev
  BY DEF WellSet, Terminal
<1> QED
  BY <1>1 DEF WellSet, Masked

LEMMA DeviceSet ==
  ASSUME NEW t, WellSet(t), NEW d \in Setting
  PROVE  LET u == [t EXCEPT !.dev = d]
         IN WellSet(u) /\ u.mode = t.mode /\ u.dev = d /\ u.ex = t.ex
<1> DEFINE u == [t EXCEPT !.dev = d]
<1>1. u \in Terminal /\ u.ex = t.ex /\ u.t = t.t /\ u.mode = t.mode /\ u.dev = d
  BY DEF WellSet, Terminal
<1> QED
  BY <1>1 DEF WellSet, Masked

LEMMA RawmodeKeeps ==
  ASSUME NEW t, WellSet(t), NEW disabled \in BOOLEAN
  PROVE  LET u == tty_rawmode(t, disabled)
         IN /\ WellSet(u)
            /\ u = t \/ (~disabled /\ u.mode = "ED")
<1> DEFINE r == RawSet(t, "none")
           u == [r EXCEPT !.mode = "ED"]
<1>1. WellSet(r)
  BY RawSetKeeps
<1> HIDE DEF r
<1>2. WellSet(u) /\ u.mode = "ED"
  BY <1>1, ModeNoted DEF Modes
<1> HIDE DEF u
<1>3. tty_rawmode(t, disabled) = IF RawNeeded(t, disabled) THEN u ELSE t
  BY DEF tty_rawmode, u, r
<1> QED
  BY <1>2, <1>3 DEF RawNeeded

LEMMA CookSetKeeps ==
  ASSUME NEW t, WellSet(t)
  PROVE  /\ WellSet(CookSet(t)) /\ CookSet(t).mode = t.mode
         /\ tty__cooked_mode(CookSet(t).dev)
<1>1. t.ex \in Setting /\ tty__cooked_mode(t.ex)
  BY TerminalParts DEF WellSet
<1> QED
  BY <1>1, DeviceSet DEF CookSet

LEMMA CookedmodeKeeps ==
  ASSUME NEW t, WellSet(t), NEW disabled \in BOOLEAN
  PROVE  LET u == tty_cookedmode(t, disabled)
         IN /\ WellSet(u)
            /\ u = t \/ (u.mode = "EX" /\ tty__cooked_mode(u.dev))
<1> DEFINE r == CookSet(t)
           u == [r EXCEPT !.mode = "EX"]
<1>1. WellSet(r) /\ tty__cooked_mode(r.dev)
  BY CookSetKeeps
<1> HIDE DEF r
<1>2. WellSet(u) /\ u.mode = "EX" /\ u.dev = r.dev
  BY <1>1, ModeNoted DEF Modes
<1> HIDE DEF u
<1>3. tty_cookedmode(t, disabled) = IF CookNeeded(t, disabled) THEN u ELSE t
  BY DEF tty_cookedmode, u, r
<1> QED
  BY <1>1, <1>2, <1>3

LEMMA QuotemodeKeeps ==
  ASSUME NEW t, WellSet(t)
  PROVE  WellSet(tty_quotemode(t)) /\ tty_quotemode(t).mode = "QU"
<1> DEFINE q == tty_setup_flags(t, t.ed, "QU")
           u == [t EXCEPT !.ts = q, !.dev = q, !.mode = "QU"]
<1>1. q \in Setting
  BY SetupFlags, TerminalParts DEF WellSet, Modes
<1> HIDE DEF q
<1>2. u \in Terminal /\ u.ex = t.ex /\ u.t = t.t /\ u.mode = "QU"
  BY <1>1 DEF WellSet, Terminal, Modes
<1>3. WellSet(u)
  BY <1>2 DEF WellSet, Masked
<1> HIDE DEF u
<1>4. tty_quotemode(t) = IF t.mode = "QU" THEN t ELSE u
  BY DEF tty_quotemode, u, q
<1> QED
  BY <1>2, <1>3, <1>4 DEF u

LEMMA NoquotemodeKeeps ==
  ASSUME NEW t, WellSet(t)
  PROVE  /\ WellSet(tty_noquotemode(t))
         /\ tty_noquotemode(t) = t \/ tty_noquotemode(t).mode = "ED"
<1> DEFINE u == [t EXCEPT !.dev = t.ed, !.mode = "ED"]
<1>1. u \in Terminal /\ u.ex = t.ex /\ u.t = t.t /\ u.mode = "ED"
  BY DEF WellSet, Terminal, Modes
<1>2. WellSet(u)
  BY <1>1 DEF WellSet, Masked
<1> QED
  BY <1>1, <1>2 DEF tty_noquotemode

-------------------------------------------------------------------------------
(* Begin, end and setty.                                                   *)

LEMMA FirstMasks ==
  /\ ttyperm \in [EX : Masks, ED : Masks, QU : Masks]
  /\ \A z \in Modes, k \in Kinds : ttyperm[z][k].set \subseteq Flag
  /\ "icanon" \in ttyperm["EX"]["lin"].set
  /\ ttychar \in [EX : [Chars -> Value], ED : [Chars -> Value], TS : [Chars -> Value]]
<1>1. ttyperm \in [EX : Masks, ED : Masks, QU : Masks]
  BY DEF ttyperm, Masks, Mask, Names, Flag, Chars
<1>2. \A z \in Modes, k \in Kinds : ttyperm[z][k].set \subseteq Flag
  BY DEF ttyperm, Modes, Kinds, Flag
<1>3. "icanon" \in ttyperm["EX"]["lin"].set
  BY DEF ttyperm
<1>4. ttychar.EX \in [Chars -> Value] /\ ttychar.ED \in [Chars -> Value]
      /\ ttychar.TS \in [Chars -> Value]
  BY DEF ttychar, Chars, Value
<1>5. ttychar \in [EX : [Chars -> Value], ED : [Chars -> Value], TS : [Chars -> Value]]
  BY <1>4 DEF ttychar
<1> QED
  BY <1>1, <1>2, <1>3, <1>5

LEMMA SetupKeeps ==
  ASSUME NEW t \in Terminal, Masked(t), NEW disabled \in BOOLEAN, NEW reset \in BOOLEAN,
         tty__cooked_mode(t.ex) \/ ~(disabled \/ t.initialized)
  PROVE  LET u == tty_setup(t, disabled, reset)
         IN /\ WellSet(u) /\ u.mode = t.mode
            /\ u.or = t.dev \/ disabled \/ t.initialized
            /\ u.dev = t.dev \/ tty__cooked_mode(u.dev)
            /\ ~reset => u.dev = t.dev
<1> DEFINE found == tty__getchar(t.dev)
           keeps == reset /\ tty__cooked_mode(t.dev)
           c == IF ~keeps THEN t.c
                ELSE [TS |-> found,
                      ED |-> [x \in Chars |-> IF found[x] # "off" /\ t.c["ED"][x] # "off" THEN found[x] ELSE t.c["ED"][x]],
                      EX |-> [x \in Chars |-> IF found[x] # "off" THEN found[x] ELSE t.c["EX"][x]]]
           ex0 == tty_setup_flags(t, t.dev, "EX")
           ex == IF reset THEN tty__setchar(ex0, c["EX"]) ELSE ex0
           ed == tty__setchar(tty_setup_flags(t, t.dev, "ED"), c["ED"])
           dev == IF reset THEN ex ELSE t.dev
           u == [t EXCEPT !.or = t.dev, !.ts = t.dev, !.ex = ex, !.ed = ed, !.c = c,
                          !.dev = dev, !.initialized = TRUE]
<1>1. t.dev \in Setting /\ found \in [Chars -> Value]
  BY TerminalParts DEF tty__getchar, Setting
<1>2. /\ c \in [EX : [Chars -> Value], ED : [Chars -> Value], TS : [Chars -> Value]]
      /\ c["EX"] \in [Chars -> Value] /\ c["ED"] \in [Chars -> Value]
  <2>1. t.c \in [EX : [Chars -> Value], ED : [Chars -> Value], TS : [Chars -> Value]]
    BY <1>1 DEF Terminal
  <2>2. /\ \A x \in Chars : found[x] \in Value /\ t.c["ED"][x] \in Value /\ t.c["EX"][x] \in Value
    BY <1>1, <2>1
  <2> DEFINE ED == [x \in Chars |-> IF found[x] # "off" /\ t.c["ED"][x] # "off" THEN found[x] ELSE t.c["ED"][x]]
             EX == [x \in Chars |-> IF found[x] # "off" THEN found[x] ELSE t.c["EX"][x]]
  <2>3. ED \in [Chars -> Value] /\ EX \in [Chars -> Value]
    BY <2>2
  <2> HIDE DEF ED, EX, found, keeps
  <2>4. c = IF ~keeps THEN t.c ELSE [TS |-> found, ED |-> ED, EX |-> EX]
    BY DEF ED, EX
  <2> HIDE DEF c
  <2>5. c = t.c \/ c = [TS |-> found, ED |-> ED, EX |-> EX]
    BY <2>4
  <2> QED
    BY <1>1, <2>1, <2>3, <2>5
<1> HIDE DEF c, found, keeps
<1>3. ex0 \in Setting /\ tty__cooked_mode(ex0)
  BY <1>1, SetupFlags DEF Modes
<1> HIDE DEF ex0
<1>4. ex \in Setting /\ tty__cooked_mode(ex)
  BY <1>2, <1>3, SetChars
<1>5. ed \in Setting
  <2>1. tty_setup_flags(t, t.dev, "ED") \in Setting
    BY <1>1, SetupFlags DEF Modes
  <2> QED
    BY <1>2, <2>1, SetChars
<1> HIDE DEF ex, ed
<1>6. dev \in Setting /\ (dev = t.dev \/ tty__cooked_mode(dev)) /\ (~reset => dev = t.dev)
  BY <1>1, <1>4
<1> HIDE DEF dev
<1>7. u \in Terminal /\ u.ex = ex /\ u.t = t.t /\ u.mode = t.mode /\ u.dev = dev /\ u.or = t.dev
  BY <1>1, <1>2, <1>4, <1>5, <1>6 DEF Terminal
<1>8. WellSet(u)
  BY <1>4, <1>7 DEF WellSet, Masked
<1>9. tty_setup(t, disabled, reset) = IF disabled \/ t.initialized THEN t ELSE u
  BY DEF tty_setup, u, dev, ed, ex, ex0, c, found, keeps
<1> HIDE DEF u
<1> QED
  BY <1>6, <1>7, <1>8, <1>9 DEF WellSet

LEMMA InitKeeps ==
  ASSUME NEW t \in Terminal, NEW disabled \in BOOLEAN, NEW reset \in BOOLEAN,
         tty__cooked_mode(t.ex) \/ ~disabled
  PROVE  LET u == tty_init(t, disabled, reset)
         IN /\ WellSet(u) /\ u.mode = "EX"
            /\ u.or = t.dev \/ disabled
            /\ u.dev = t.dev \/ tty__cooked_mode(u.dev)
            /\ ~reset => u.dev = t.dev
<1> DEFINE r == [t EXCEPT !.mode = "EX", !.initialized = FALSE, !.t = ttyperm, !.c = ttychar]
<1>1. /\ r \in Terminal /\ r.ex = t.ex /\ r.t = ttyperm /\ r.mode = "EX" /\ r.dev = t.dev
      /\ r.initialized = FALSE
  BY FirstMasks DEF Terminal, Modes
<1>2. Masked(r)
  BY <1>1, FirstMasks DEF Masked
<1> HIDE DEF r
<1>3. tty_init(t, disabled, reset) = tty_setup(r, disabled, reset)
  BY DEF tty_init, r
<1> QED
  BY <1>1, <1>2, <1>3, SetupKeeps

LEMMA EndKeeps ==
  ASSUME NEW t, WellSet(t), NEW disabled \in BOOLEAN
  PROVE  LET u == tty_end(t, disabled) IN WellSet(u) /\ u.mode = t.mode /\ (u.dev = t.dev \/ u.dev = t.or)
BY TerminalParts, DeviceSet DEF tty_end, WellSet

LEMMA OpenedKeeps ==
  ASSUME NEW d \in Setting
  PROVE  /\ WellSet(Opened(d)) /\ Opened(d).mode = "EX"
         /\ tty__cooked_mode(d) => tty__cooked_mode(Opened(d).dev)
<1> DEFINE b == Blank(d)
           r == tty_init(b, FALSE, api = "el_gets")
<1>1. b \in Terminal /\ b.dev = d
  BY FirstMasks DEF Blank, Terminal, Modes
<1> HIDE DEF b
<1>2. /\ WellSet(r) /\ r.mode = "EX" /\ r.or = d
      /\ r.dev = d \/ tty__cooked_mode(r.dev)
  BY <1>1, InitKeeps
<1> HIDE DEF r
<1>3. Opened(d) = IF api = "el_gets" THEN r ELSE tty_end(r, FALSE)
  BY DEF Opened, r, b
<1> QED
  BY <1>2, <1>3, EndKeeps

LEMMA SttyFlagKeeps ==
  ASSUME NEW t, WellSet(t), NEW z \in Modes, NEW sign
  PROVE  LET u == SttyFlag(t, z, "inp", "ixon", sign)
         IN WellSet(u) /\ u.dev = t.dev /\ u.mode = t.mode
<1> DEFINE m == t.t[z]["inp"]
           n == [set |-> IF sign = "+" THEN m.set \cup {"ixon"} ELSE m.set \ {"ixon"},
                 clr |-> IF sign = "-" THEN m.clr \cup {"ixon"} ELSE m.clr \ {"ixon"}]
           w == [t.t[z] EXCEPT !["inp"] = n]
           masks == [t.t EXCEPT ![z] = w]
           u == [t EXCEPT !.t = masks]
<1>1. t \in Terminal /\ t.t \in [EX : Masks, ED : Masks, QU : Masks] /\ t.t[z] \in Masks
  BY DEF WellSet, Terminal, Modes
<1>2. m \in Mask /\ m.set \subseteq Flag
  BY <1>1 DEF Masks, WellSet, Masked, Kinds
<1>3. n \in Mask /\ n.set \subseteq Flag
  BY <1>2 DEF Mask, Names, Flag
<1> HIDE DEF n, m
<1>4. w \in Masks /\ w["inp"] = n /\ \A k \in Kinds \ {"inp"} : w[k] = t.t[z][k]
  BY <1>1, <1>3 DEF Masks, Kinds
<1> HIDE DEF w
<1>5. /\ masks \in [EX : Masks, ED : Masks, QU : Masks]
      /\ masks[z] = w /\ \A y \in Modes \ {z} : masks[y] = t.t[y]
  <2>1. CASE z = "EX"
    BY <1>1, <1>4, <2>1 DEF Modes
  <2>2. CASE z = "ED"
    BY <1>1, <1>4, <2>2 DEF Modes
  <2>3. CASE z = "QU"
    BY <1>1, <1>4, <2>3 DEF Modes
  <2> QED
    BY <2>1, <2>2, <2>3 DEF Modes
<1> HIDE DEF masks
<1>6. \A y \in Modes, k \in Kinds : masks[y][k].set \subseteq Flag
  BY <1>3, <1>4, <1>5 DEF WellSet, Masked
<1>7. masks["EX"]["lin"] = t.t["EX"]["lin"]
  BY <1>4, <1>5 DEF Modes, Kinds
<1>8. /\ u \in Terminal /\ u.ex = t.ex /\ u.t = masks /\ u.dev = t.dev /\ u.mode = t.mode
  BY <1>1, <1>5 DEF Terminal
<1>9. WellSet(u)
  BY <1>6, <1>7, <1>8 DEF WellSet, Masked
<1>10. SttyFlag(t, z, "inp", "ixon", sign) = [t EXCEPT !.t[z]["inp"] = n]
  BY DEF SttyFlag, n, m
<1>11. [t EXCEPT !.t[z]["inp"] = n] = u
  BY DEF u, masks, w
<1> HIDE DEF u
<1> QED
  BY <1>8, <1>9, <1>10, <1>11

\* Settings of a mode, and the terminal with others in their place.
LEMMA SettingsOfMode ==
  ASSUME NEW t, WellSet(t), NEW z \in Modes, NEW td \in Setting,
         z = "EX" => tty__cooked_mode(td)
  PROVE  LET u == [t EXCEPT ![Settings[z]] = td]
         IN /\ t[Settings[z]] \in Setting
            /\ z = "EX" => tty__cooked_mode(t[Settings[z]])
            /\ WellSet(u) /\ u.dev = t.dev /\ u.mode = t.mode
<1>1. t \in Terminal /\ t.ex \in Setting /\ t.ed \in Setting /\ t.ts \in Setting
      /\ tty__cooked_mode(t.ex)
  BY TerminalParts DEF WellSet
<1>2. CASE z = "EX"
  <2>1. Settings[z] = "ex"
    BY <1>2 DEF Settings
  <2> DEFINE u == [t EXCEPT !["ex"] = td]
  <2>2. u \in Terminal /\ u.ex = td /\ u.t = t.t /\ u.dev = t.dev /\ u.mode = t.mode
    BY <1>1 DEF Terminal
  <2>3. WellSet(u)
    BY <1>2, <2>2 DEF WellSet, Masked
  <2> QED
    BY <1>1, <2>1, <2>2, <2>3
<1>3. CASE z = "ED"
  <2>1. Settings[z] = "ed"
    BY <1>3 DEF Settings
  <2> DEFINE u == [t EXCEPT !["ed"] = td]
  <2>2. u \in Terminal /\ u.ex = t.ex /\ u.t = t.t /\ u.dev = t.dev /\ u.mode = t.mode
    BY <1>1 DEF Terminal
  <2>3. WellSet(u)
    BY <1>1, <2>2 DEF WellSet, Masked
  <2> QED
    BY <1>1, <1>3, <2>1, <2>2, <2>3
<1>4. CASE z = "QU"
  <2>1. Settings[z] = "ts"
    BY <1>4 DEF Settings
  <2> DEFINE u == [t EXCEPT !["ts"] = td]
  <2>2. u \in Terminal /\ u.ex = t.ex /\ u.t = t.t /\ u.dev = t.dev /\ u.mode = t.mode
    BY <1>1 DEF Terminal
  <2>3. WellSet(u)
    BY <1>1, <2>2 DEF WellSet, Masked
  <2> QED
    BY <1>1, <1>4, <2>1, <2>2, <2>3
<1> QED
  BY <1>2, <1>3, <1>4 DEF Modes

LEMMA SttyCharKeeps ==
  ASSUME NEW t, WellSet(t), NEW z \in Modes, NEW x \in Chars, NEW v \in UserChars
  PROVE  LET u == SttyChar(t, z, x, v)
         IN WellSet(u) /\ u.dev = t.dev /\ u.mode = t.mode
<1> DEFINE old == t[Settings[z]]
           td == [old EXCEPT !.ch[x] = v]
<1>1. old \in Setting /\ (z = "EX" => tty__cooked_mode(old))
  <2>1. t.ex \in Setting /\ tty__cooked_mode(t.ex)
    BY TerminalParts DEF WellSet
  <2> QED
    BY <2>1, SettingsOfMode
<1> HIDE DEF old
<1>2. td \in Setting /\ td.flags = old.flags
  BY <1>1 DEF Setting, Value
<1>3. z = "EX" => tty__cooked_mode(td)
  BY <1>1, <1>2 DEF tty__cooked_mode
<1>4. SttyChar(t, z, x, v) = [t EXCEPT ![Settings[z]] = td]
  BY DEF SttyChar, old
<1> HIDE DEF td
<1> DEFINE u == [t EXCEPT ![Settings[z]] = td]
<1>5. WellSet(u) /\ u.dev = t.dev /\ u.mode = t.mode
  BY <1>2, <1>3, SettingsOfMode
<1> HIDE DEF u
<1>6. SttyChar(t, z, x, v) = u
  BY <1>4 DEF u
<1> QED
  BY <1>5, <1>6

LEMMA SttyApplyKeeps ==
  ASSUME NEW t, WellSet(t), NEW z \in Modes
  PROVE  LET u == SttyApply(t, z)
         IN /\ WellSet(u) /\ u.mode = t.mode
            /\ u.dev = t.dev \/ (t.mode = z /\ (z = "EX" => tty__cooked_mode(u.dev)))
<1> DEFINE td == tty_setup_flags(t, t[Settings[z]], z)
           s == [t EXCEPT ![Settings[z]] = td]
           u == [s EXCEPT !.dev = td]
<1>1. t[Settings[z]] \in Setting
  <2>1. t.ex \in Setting /\ tty__cooked_mode(t.ex)
    BY TerminalParts DEF WellSet
  <2> QED
    BY <2>1, SettingsOfMode
<1>2. td \in Setting /\ (z = "EX" => tty__cooked_mode(td))
  BY <1>1, SetupFlags DEF WellSet
<1> HIDE DEF td
<1>3. WellSet(s) /\ s.dev = t.dev /\ s.mode = t.mode
  BY <1>2, SettingsOfMode
<1> HIDE DEF s
<1>4. WellSet(u) /\ u.mode = t.mode /\ u.dev = td
  BY <1>2, <1>3, DeviceSet
<1> HIDE DEF u
<1>5. SttyApply(t, z) = IF t.mode = z THEN u ELSE s
  BY <1>3 DEF SttyApply, u, s, td
<1> QED
  BY <1>2, <1>3, <1>4, <1>5

-------------------------------------------------------------------------------
(* The invariant.                                                          *)

Phases == {"out", "start", "rawSet", "prep", "noedit", "wgetc", "read", "cmd", "finish", "cookSet",
           "clr", "ret", "uraw", "line"}

\* Where the thread goes, and what that says of the flags.
PcInv ==
  /\ phase \in Phases
  /\ phase \in {"uraw", "line"} => Unbuffered
  /\ phase = "uraw" => after \in {"out", "line"}
  /\ phase = "rawSet" => ~Disabled /\ (after \in {"prep", "wgetc"} \/ (after \in {"out", "line"} /\ Unbuffered))
  /\ phase \in {"finish", "cookSet", "clr"} => after \in {"ret", "out"}
  /\ phase = "noedit" => Disabled
  /\ api = "readline" => ~Unbuffered

\* From read_prepare to sig_clr.
Handling == phase \in {"wgetc", "read", "cmd", "finish", "cookSet", "clr"} \/ (phase = "rawSet" /\ after = "wgetc")

InPlace == Handles /\ (Unbuffered \/ Handling)

\* A handler that is not editline's is the program's; editline's are there
\* from read_prepare to sig_clr, know the program's, and what they know is not
\* of an earlier line; a signal that read_char was told of was handled.
HandlersInv ==
  /\ last \in [ALLSIGS -> {"app", "app2", "dfl"}]
  /\ disp \in [ALLSIGS -> {"app", "app2", "dfl", "lib"}]
  /\ saved \in [ALLSIGS -> {"app", "app2", "dfl", "none"}]
  /\ \A s \in ALLSIGS : disp[s] \in {"lib", last[s]}
  /\ \A s \in ALLSIGS : disp[s] = "lib" => saved[s] = last[s]
  /\ \A s \in ALLSIGS : disp[s] = "lib" => "handlers" \in excuses \/ InPlace
  /\ InPlace => \A s \in ALLSIGS : saved[s] \in {"none", last[s]}
  /\ sig_no # "none" => phase \in {"read", "noedit"} /\ (InPlace \/ "handlers" \in excuses)

\* The device is in cooked mode when t_mode says so, when a call is over, and
\* from the beginning to the end of a line that is not edited.
CookedInv ==
  \/ "raw" \in excuses
  \/ /\ tty.mode = "EX" /\ phase # "rawSet" => DevCooked
     /\ phase = "cookSet" => DevCooked
     /\ ~Unbuffered =>
          /\ phase = "out" => DevCooked /\ (tty.mode = "EX" \/ api = "readline")
          /\ phase \in {"ret", "clr"} => tty.mode = "EX"
          /\ Disabled /\ phase \in {"start", "prep", "noedit"} => tty.mode = "EX"

SessionInv == WellSet(tty) /\ PcInv /\ HandlersInv /\ CookedInv

Wanted == [flags : [Kinds -> SUBSET Flag], ch : [Chars -> Value \cup {"any"}]]

\* Settings that hold what the user changed, as the property means it.
Fits(t, s, w) ==
  /\ \A k \in {"inp", "ctl"} : tty_update_flag(t, s.flags[k], "EX", k) = w.flags[k]
  /\ \A x \in Chars : w.ch[x] \in {"any", s.ch[x]}

\* The masks of what the program cannot set stay, the settings for executing
\* are as their masks make them, those for editing and quoting are not those of
\* cooked mode, and the control flags are the same in both.
FixedMasks(t) == \A z \in Modes, k \in {"ctl", "lin", "char"} : t.t[z][k] = ttyperm[z][k]

Tables(t) ==
  /\ FixedMasks(t)
  /\ \A k \in Kinds : tty_update_flag(t, t.ex.flags[k], "EX", k) = t.ex.flags[k]
  /\ ~tty__cooked_mode(t.ed) /\ t.ed.flags["ctl"] = t.ex.flags["ctl"]
  /\ t.mode = "QU" => ~tty__cooked_mode(t.ts)

\* What the user changed is on the device while it is in cooked mode, and in the
\* settings for executing otherwise; a character of theirs that is not there
\* yet will be found to have changed.
Followed(t, w) ==
  /\ tty__cooked_mode(t.dev) => Fits(t, t.dev, w)
  /\ t.mode # "EX" \/ ~tty__cooked_mode(t.dev) => Fits(t, t.ex, w)
  /\ t.initialized => \A x \in Chars : w.ch[x] \in {"any", t.ex.ch[x]} \/ t.ex.ch[x] = t.c["EX"][x]

\* el_gets and the callbacks keep the terminal open and its mode as t_mode says
\* between two steps; readline() opens it for each line, unless editing is
\* disabled, and then puts back what it found.
Opening ==
  /\ api # "readline" =>
       /\ tty.initialized
       /\ DevCooked /\ phase # "cookSet" => tty.mode = "EX"
  /\ api = "readline" =>
       /\ tty.t["EX"]["inp"] = ttyperm["EX"]["inp"]
       /\ tty.initialized /\ phase # "out" => tty__cooked_mode(tty.or) /\ Fits(tty, tty.or, wanted)
       /\ ~tty.initialized => phase = "out" \/ (Disabled /\ phase \in {"start", "prep", "noedit", "ret"})

SettingsInv ==
  /\ wanted \in Wanted
  /\ "settings" \in excuses \/ (Tables(tty) /\ Followed(tty, wanted) /\ Opening)

-------------------------------------------------------------------------------
(* Where the thread goes.                                                  *)

LEMMA FlagSetKeepsMode ==
  ASSUME NEW f \in Flags
  PROVE  f # "UNBUFFERED"
BY FlagsAssumption

LEMMA PcStep ==
  ASSUME PcInv, Next
  PROVE  PcInv'
<1> USE DEF PcInv, Phases, Unbuffered, Disabled, Go, Keeps, pcVars
<1>1. ASSUME NEW s \in Signals, Arrives(s) PROVE PcInv'
  BY <1>1 DEF Arrives
<1>2. CASE GetLine
  BY <1>2 DEF GetLine
<1>3. CASE Start
  BY <1>3 DEF Start, RawStep, RawNeeded
<1>4. CASE RawNoted
  BY <1>4 DEF RawNoted
<1>5. CASE Prepare
  BY <1>5 DEF Prepare
<1>6. CASE NoEdit
  BY <1>6 DEF NoEdit
<1>7. CASE GetChar
  BY <1>7 DEF GetChar, RawStep, Over, RawNeeded
<1>8. CASE ReadKey
  BY <1>8 DEF ReadKey, EndsQuote
<1>9. CASE ReadFails
  BY <1>9 DEF ReadFails, EndsQuote, Over
<1>10. CASE Command
  BY <1>10 DEF Command, Over
<1>11. CASE Finish
  BY <1>11 DEF Finish
<1>12. CASE CookNoted
  BY <1>12 DEF CookNoted
<1>13. CASE ClearHandlers
  BY <1>13 DEF ClearHandlers
<1>14. CASE Return
  BY <1>14 DEF Return
<1>15. CASE SetUnbuffered
  BY <1>15 DEF SetUnbuffered, Unbuffer
<1>16. CASE UnsetUnbuffered
  BY <1>16 DEF UnsetUnbuffered
<1>17. CASE UnbufferedRaw
  BY <1>17 DEF UnbufferedRaw, RawStep, RawNeeded
<1>18. CASE CallbackReturn
  BY <1>18 DEF CallbackReturn, Unbuffer
<1>19. CASE CallbackLine
  BY <1>19 DEF CallbackLine
<1>20. ASSUME NEW f \in Flags, SetFlag(f) PROVE PcInv'
  BY <1>20, FlagSetKeepsMode DEF SetFlag, Between
<1>21. ASSUME NEW raw \in BOOLEAN, PrepTerm(raw) PROVE PcInv'
  BY <1>21 DEF PrepTerm
<1>22. ASSUME NEW z \in Modes, Stty(z) PROVE PcInv'
  BY <1>22 DEF Stty
<1>23. CASE UserChange
  BY <1>23 DEF UserChange
<1>24. CASE Reopen
  BY <1>24 DEF Reopen, Between
<1>25. ASSUME NEW s \in Signals, AppSignal(s) PROVE PcInv'
  BY <1>25 DEF AppSignal
<1> QED
  BY <1>1, <1>2, <1>3, <1>4, <1>5, <1>6, <1>7, <1>8, <1>9, <1>10, <1>11, <1>12,
     <1>13, <1>14, <1>15, <1>16, <1>17, <1>18, <1>19, <1>20, <1>21, <1>22, <1>23, <1>24, <1>25 DEF Next

-------------------------------------------------------------------------------
(* The handlers.                                                           *)

\* What sig_set leaves: every handler is editline's and knows the program's.
LEMMA SigSet ==
  ASSUME HandlersInv, sig_set
  PROVE  /\ disp' \in [ALLSIGS -> {"app", "app2", "dfl", "lib"}]
         /\ saved' \in [ALLSIGS -> {"app", "app2", "dfl", "none"}]
         /\ \A s \in ALLSIGS : disp'[s] = "lib" /\ saved'[s] = last[s]
BY DEF HandlersInv, sig_set

\* What sig_clr leaves where handlers are in place: the program's.
LEMMA SigClr ==
  ASSUME HandlersInv, InPlace, sig_clr
  PROVE  /\ disp' \in [ALLSIGS -> {"app", "app2", "dfl", "lib"}]
         /\ saved' = saved
         /\ \A s \in ALLSIGS : disp'[s] = last[s]
BY DEF HandlersInv, sig_clr

LEMMA HandlersStep ==
  ASSUME PcInv, HandlersInv, Next
  PROVE  HandlersInv'
<1> USE DEF Go, Keeps, pcVars, readVars, sigVars
<1>1. ASSUME NEW s \in Signals, Arrives(s) PROVE HandlersInv'
  <2> s \in ALLSIGS
    BY SignalsAssumption DEF ALLSIGS
  <2>1. CASE sig_handler(s)
    BY <1>1, <2>1 DEF Arrives, sig_handler, HandlersInv, InPlace, Handling, Handles, Unbuffered
  <2>2. CASE Unhandled(s)
    BY <1>1, <2>2 DEF Arrives, Unhandled, HandlersInv, InPlace, Handling, Handles, Unbuffered
  <2> QED
    BY <1>1, <2>1, <2>2 DEF Arrives
<1>2. CASE GetLine
  BY <1>2 DEF GetLine, HandlersInv, InPlace, Handling, Handles, Unbuffered
<1>3. CASE Start
  BY <1>3 DEF Start, RawStep, HandlersInv, InPlace, Handling, Handles, Unbuffered
<1>4. CASE RawNoted
  BY <1>4 DEF RawNoted, HandlersInv, InPlace, Handling, Handles, Unbuffered, PcInv
<1>5. CASE Prepare
  <2>1. CASE Handles /\ ~Unbuffered
    BY <1>5, <2>1, SigSet DEF Prepare, HandlersInv, InPlace, Handling, Handles, Unbuffered, Disabled
  <2>2. CASE ~(Handles /\ ~Unbuffered)
    BY <1>5, <2>2 DEF Prepare, HandlersInv, InPlace, Handling, Handles, Unbuffered
  <2> QED
    BY <2>1, <2>2
<1>6. CASE NoEdit
  <2>1. CASE sig_set /\ ReadOver /\ UNCHANGED pcVars /\ sig_no # "none"
    BY <1>6, <2>1, SigSet DEF NoEdit, ReadOver, HandlersInv, InPlace, Handling, Handles, Unbuffered
  <2>2. CASE Go("ret") /\ ReadOver /\ UNCHANGED <<disp, saved>>
    BY <1>6, <2>2 DEF NoEdit, ReadOver, HandlersInv, InPlace, Handling, Handles, Unbuffered
  <2> QED
    BY <1>6, <2>1, <2>2 DEF NoEdit
<1>7. CASE GetChar
  BY <1>7 DEF GetChar, RawStep, Over, HandlersInv, InPlace, Handling, Handles, Unbuffered
<1>8. CASE ReadKey
  BY <1>8 DEF ReadKey, EndsQuote, ReadOver, HandlersInv, InPlace, Handling, Handles, Unbuffered
<1>9. CASE ReadFails
  <2>1. CASE sig_set /\ sig_no' = "none" /\ UNCHANGED pcVars /\ sig_no # "none"
    BY <1>9, <2>1, SigSet DEF ReadFails, HandlersInv, InPlace, Handling, Handles, Unbuffered
  <2>2. CASE UNCHANGED <<disp, saved>> /\ ReadOver /\ Over
    BY <1>9, <2>2 DEF ReadFails, ReadOver, Over, HandlersInv, InPlace, Handling, Handles, Unbuffered
  <2>3. CASE UNCHANGED <<disp, saved, pcVars, sig_no>>
    BY <1>9, <2>3 DEF ReadFails, HandlersInv, InPlace, Handling, Handles, Unbuffered
  <2> QED
    BY <1>9, <2>1, <2>2, <2>3 DEF ReadFails
<1>10. CASE Command
  BY <1>10 DEF Command, Over, HandlersInv, InPlace, Handling, Handles, Unbuffered
<1>11. CASE Finish
  BY <1>11 DEF Finish, HandlersInv, InPlace, Handling, Handles, Unbuffered
<1>12. CASE CookNoted
  BY <1>12 DEF CookNoted, HandlersInv, InPlace, Handling, Handles, Unbuffered
<1>13. CASE ClearHandlers
  <2>1. CASE Handles
    <3>1. InPlace
      BY <1>13, <2>1 DEF ClearHandlers, InPlace, Handling
    <3>2. sig_clr
      BY <1>13, <2>1 DEF ClearHandlers
    <3> QED
      BY <1>13, <2>1, <3>1, <3>2, SigClr DEF ClearHandlers, HandlersInv, InPlace
  <2>2. CASE ~Handles
    BY <1>13, <2>2 DEF ClearHandlers, HandlersInv, InPlace, Handles
  <2> QED
    BY <2>1, <2>2
<1>14. CASE Return
  BY <1>14 DEF Return, HandlersInv, InPlace, Handling, Handles, Unbuffered
<1>15. CASE SetUnbuffered
  <2>1. CASE ~Unbuffered /\ Handles
    BY <1>15, <2>1, SigSet DEF SetUnbuffered, Unbuffer, HandlersInv, InPlace, Handling, Handles, Unbuffered
  <2>2. CASE Unbuffered \/ ~Handles
    BY <1>15, <2>2 DEF SetUnbuffered, Unbuffer, HandlersInv, InPlace, Handling, Handles, Unbuffered
  <2> QED
    BY <2>1, <2>2
<1>16. CASE UnsetUnbuffered
  BY <1>16 DEF UnsetUnbuffered, HandlersInv, InPlace, Handling, Handles, Unbuffered
<1>17. CASE UnbufferedRaw
  BY <1>17 DEF UnbufferedRaw, RawStep, HandlersInv, InPlace, Handling, Handles, Unbuffered, PcInv
<1>18. CASE CallbackReturn
  <2>1. CASE ~Unbuffered /\ Handles
    BY <1>18, <2>1, SigSet DEF CallbackReturn, Unbuffer, HandlersInv, InPlace, Handling, Handles, Unbuffered
  <2>2. CASE Unbuffered \/ ~Handles
    BY <1>18, <2>2 DEF CallbackReturn, Unbuffer, HandlersInv, InPlace, Handling, Handles, Unbuffered
  <2> QED
    BY <2>1, <2>2
<1>19. CASE CallbackLine
  BY <1>19 DEF CallbackLine, HandlersInv, InPlace, Handling, Handles, Unbuffered, PcInv
<1>20. ASSUME NEW f \in Flags, SetFlag(f) PROVE HandlersInv'
  BY <1>20, FlagSetKeepsMode DEF SetFlag, Between, HandlersInv, InPlace, Handling, Handles, Unbuffered
<1>21. ASSUME NEW raw \in BOOLEAN, PrepTerm(raw) PROVE HandlersInv'
  BY <1>21 DEF PrepTerm, HandlersInv, InPlace, Handling, Handles, Unbuffered
<1>22. ASSUME NEW z \in Modes, Stty(z) PROVE HandlersInv'
  BY <1>22 DEF Stty, HandlersInv, InPlace, Handling, Handles, Unbuffered
<1>23. CASE UserChange
  BY <1>23 DEF UserChange, HandlersInv, InPlace, Handling, Handles, Unbuffered
<1>24. CASE Reopen
  BY <1>24 DEF Reopen, Between, HandlersInv, InPlace, Handling, Handles, Unbuffered
<1>25. ASSUME NEW s \in Signals, AppSignal(s) PROVE HandlersInv'
  <2> s \in ALLSIGS
    BY SignalsAssumption DEF ALLSIGS
  <2>1. ~InPlace /\ ~InPlace'
    BY <1>25 DEF AppSignal, Between, InPlace, Handling, Unbuffered
  <2> QED
    BY <1>25, <2>1 DEF AppSignal, HandlersInv, Handles
<1> QED
  BY <1>1, <1>2, <1>3, <1>4, <1>5, <1>6, <1>7, <1>8, <1>9, <1>10, <1>11, <1>12,
     <1>13, <1>14, <1>15, <1>16, <1>17, <1>18, <1>19, <1>20, <1>21, <1>22, <1>23, <1>24, <1>25 DEF Next

-------------------------------------------------------------------------------
(* The terminal.                                                           *)

\* The user changes flags and characters that do not tell cooked mode.
LEMMA ChangedByUser ==
  ASSUME WellSet(tty), UserChange
  PROVE  WellSet(tty') /\ tty'.mode = tty.mode /\ tty__cooked_mode(tty'.dev)
<1>1. tty.dev \in Setting /\ tty__cooked_mode(tty.dev)
  BY TerminalParts DEF WellSet, UserChange, DevCooked
<1>2. ASSUME NEW k \in {"inp", "ctl"}, NEW f \in {"ixon", "parenb"},
             tty' = [tty EXCEPT !.dev.flags[k] = IF f \in @ THEN @ \ {f} ELSE @ \cup {f}]
      PROVE  WellSet(tty') /\ tty'.mode = tty.mode /\ tty__cooked_mode(tty'.dev)
  <2> DEFINE g == IF f \in tty.dev.flags[k] THEN tty.dev.flags[k] \ {f} ELSE tty.dev.flags[k] \cup {f}
             d == [tty.dev EXCEPT !.flags = [tty.dev.flags EXCEPT ![k] = g]]
  <2>1. g \in SUBSET Flag
    BY <1>1 DEF Setting, Flag, Kinds
  <2> HIDE DEF g
  <2>2. d \in Setting /\ tty__cooked_mode(d)
    BY <1>1, <2>1 DEF Setting, Kinds, tty__cooked_mode
  <2>3. tty' = [tty EXCEPT !.dev = d]
    BY <1>2 DEF g
  <2> HIDE DEF d
  <2> QED
    BY <2>2, <2>3, DeviceSet
<1>3. ASSUME NEW x \in Chars, NEW v \in UserChars \cup {"off", "default"}, tty' = [tty EXCEPT !.dev.ch[x] = v]
      PROVE  WellSet(tty') /\ tty'.mode = tty.mode /\ tty__cooked_mode(tty'.dev)
  <2> DEFINE d == [tty.dev EXCEPT !.ch = [tty.dev.ch EXCEPT ![x] = v]]
  <2>1. d \in Setting /\ tty__cooked_mode(d)
    BY <1>1 DEF Setting, Value, tty__cooked_mode
  <2>2. tty' = [tty EXCEPT !.dev = d]
    BY <1>3
  <2> HIDE DEF d
  <2> QED
    BY <2>1, <2>2, DeviceSet
<1> QED
  BY <1>2, <1>3 DEF UserChange

\* EL_SETTY sets the device only where the settings are those of the mode it is in.
LEMMA ChangedByStty ==
  ASSUME WellSet(tty), NEW z \in Modes, Stty(z)
  PROVE  /\ WellSet(tty') /\ tty'.mode = tty.mode
         /\ tty'.dev = tty.dev \/ (tty.mode = z /\ (z = "EX" => tty__cooked_mode(tty'.dev)))
<1>1. ASSUME NEW sign, tty' = SttyApply(SttyFlag(tty, z, "inp", "ixon", sign), z)
      PROVE  /\ WellSet(tty') /\ tty'.mode = tty.mode
             /\ tty'.dev = tty.dev \/ (tty.mode = z /\ (z = "EX" => tty__cooked_mode(tty'.dev)))
  <2> DEFINE u == SttyFlag(tty, z, "inp", "ixon", sign)
  <2>1. WellSet(u) /\ u.dev = tty.dev /\ u.mode = tty.mode
    BY SttyFlagKeeps
  <2> HIDE DEF u
  <2>2. tty' = SttyApply(u, z)
    BY <1>1 DEF u
  <2> QED
    BY <2>1, <2>2, SttyApplyKeeps
<1>2. ASSUME NEW x \in Chars, NEW v \in UserChars, tty' = SttyApply(SttyChar(tty, z, x, v), z)
      PROVE  /\ WellSet(tty') /\ tty'.mode = tty.mode
             /\ tty'.dev = tty.dev \/ (tty.mode = z /\ (z = "EX" => tty__cooked_mode(tty'.dev)))
  <2> DEFINE u == SttyChar(tty, z, x, v)
  <2>1. WellSet(u) /\ u.dev = tty.dev /\ u.mode = tty.mode
    BY SttyCharKeeps
  <2> HIDE DEF u
  <2>2. tty' = SttyApply(u, z)
    BY <1>2 DEF u
  <2> QED
    BY <2>1, <2>2, SttyApplyKeeps
<1> QED
  BY <1>1, <1>2 DEF Stty

\* The library is closed and opened again.
LEMMA Reopened ==
  ASSUME WellSet(tty), Reopen
  PROVE  WellSet(tty') /\ tty'.mode = "EX"
<1> DEFINE c == tty_cookedmode(tty, Disabled)
           e == tty_end(c, Disabled)
<1>1. Disabled \in BOOLEAN
  BY DEF Disabled
<1>2. WellSet(c)
  BY <1>1, CookedmodeKeeps
<1> HIDE DEF c
<1>3. WellSet(e)
  BY <1>1, <1>2, EndKeeps
<1> HIDE DEF e
<1>4. e.dev \in Setting
  BY <1>3, TerminalParts DEF WellSet
<1>5. tty' = Opened(e.dev)
  BY DEF Reopen, e, c
<1> QED
  BY <1>4, <1>5, OpenedKeeps

LEMMA WellSetStep ==
  ASSUME WellSet(tty), Next
  PROVE  WellSet(tty')
<1>0. Disabled \in BOOLEAN /\ (api = "el_gets") \in BOOLEAN
  BY DEF Disabled
<1>u. CASE UNCHANGED tty
  BY <1>u
<1>1. ASSUME NEW s \in Signals, Arrives(s) PROVE WellSet(tty')
  <2>1. tty' \in {tty, tty_rawmode(tty, Disabled), tty_cookedmode(tty, Disabled)}
    BY <1>1 DEF Arrives, sig_handler, Unhandled
  <2> QED
    BY <1>0, <2>1, RawmodeKeeps, CookedmodeKeeps
<1>2. CASE GetLine
  <2>1. tty' = tty \/ tty' = tty_init(tty, Disabled, FALSE)
    BY <1>2 DEF GetLine
  <2>2. tty \in Terminal /\ tty__cooked_mode(tty.ex)
    BY DEF WellSet
  <2> QED
    BY <1>0, <2>1, <2>2, InitKeeps
<1>3. CASE Start \/ GetChar \/ UnbufferedRaw
  <2>1. tty' = tty \/ \E f \in Faults \cup {"none"} : tty' = RawSet(tty, f)
    BY <1>3 DEF Start, GetChar, UnbufferedRaw, RawStep, RawFails
  <2> QED
    BY <2>1, RawSetKeeps
<1>4. CASE RawNoted \/ CookNoted
  <2>1. \E z \in Modes : tty' = [tty EXCEPT !.mode = z]
    BY <1>4 DEF RawNoted, CookNoted, Modes
  <2> QED
    BY <2>1, ModeNoted
<1>5. CASE Prepare \/ NoEdit \/ ClearHandlers \/ SetUnbuffered \/ UnsetUnbuffered \/ CallbackReturn \/ CallbackLine
  BY <1>5, <1>u DEF Prepare, NoEdit, ClearHandlers, SetUnbuffered, UnsetUnbuffered, CallbackReturn, CallbackLine
<1>6. CASE ReadKey \/ ReadFails
  <2>1. tty' = tty \/ tty' = tty_noquotemode(tty)
    BY <1>6 DEF ReadKey, ReadFails, EndsQuote
  <2> QED
    BY <2>1, NoquotemodeKeeps
<1>7. CASE Command
  <2>1. tty' = tty \/ tty' = tty_quotemode(tty)
    BY <1>7 DEF Command
  <2> QED
    BY <2>1, QuotemodeKeeps
<1>8. CASE Finish
  <2>1. tty' = tty \/ tty' = CookSet(tty)
    BY <1>8 DEF Finish
  <2> QED
    BY <2>1, CookSetKeeps
<1>9. CASE Return
  <2>1. tty' = tty \/ tty' = tty_end(tty, Disabled)
    BY <1>9 DEF Return
  <2> QED
    BY <1>0, <2>1, EndKeeps
<1>10. ASSUME NEW f \in Flags, SetFlag(f) PROVE WellSet(tty')
  BY <1>10, <1>u DEF SetFlag
<1>11. ASSUME NEW raw \in BOOLEAN, PrepTerm(raw) PROVE WellSet(tty')
  <2>1. tty' = tty_rawmode(tty, Disabled) \/ tty' = tty_cookedmode(tty, Disabled)
    BY <1>11 DEF PrepTerm
  <2> QED
    BY <1>0, <2>1, RawmodeKeeps, CookedmodeKeeps
<1>12. ASSUME NEW z \in Modes, Stty(z) PROVE WellSet(tty')
  BY <1>12, ChangedByStty
<1>13. CASE UserChange
  BY <1>13, ChangedByUser
<1>14. CASE Reopen
  BY <1>14, Reopened
<1>15. ASSUME NEW s \in Signals, AppSignal(s) PROVE WellSet(tty')
  BY <1>15, <1>u DEF AppSignal
<1> QED
  BY <1>1, <1>2, <1>3, <1>4, <1>5, <1>6, <1>7, <1>8, <1>9, <1>10, <1>11, <1>12, <1>13, <1>14, <1>15 DEF Next

LEMMA CookedStep ==
  ASSUME WellSet(tty), PcInv, CookedInv, Next
  PROVE  CookedInv'
<1>0. Disabled \in BOOLEAN
  BY DEF Disabled
<1> USE DEF Go, Keeps, pcVars
<1>1. ASSUME NEW s \in Signals, Arrives(s) PROVE CookedInv'
  <2>0. UNCHANGED <<phase, after, el_flags, api>> /\ excuses \subseteq excuses'
    BY <1>1 DEF Arrives, sig_handler, Unhandled
  <2>1. CASE UNCHANGED tty
    BY <2>0, <2>1 DEF CookedInv, DevCooked, Unbuffered, Disabled
  <2>2. CASE tty' = tty_cookedmode(tty, Disabled)
    <3>1. tty' = tty \/ (tty'.mode = "EX" /\ tty__cooked_mode(tty'.dev))
      BY <1>0, <2>2, CookedmodeKeeps
    <3> QED
      BY <2>0, <3>1 DEF CookedInv, DevCooked, Unbuffered, Disabled
  <2>3. CASE sig_handler(s) /\ s = "CONT" /\ tty' # tty
    <3>1. tty' = tty_rawmode(tty, Disabled)
      BY <2>3 DEF sig_handler
    <3>2. tty' = tty \/ (~Disabled /\ tty'.mode = "ED")
      BY <1>0, <3>1, RawmodeKeeps
    <3>3. phase \in {"cookSet", "clr", "ret", "out"} /\ ~Disabled => "raw" \in excuses'
      BY <2>3 DEF sig_handler
    <3> QED
      BY <2>0, <2>3, <3>2, <3>3 DEF CookedInv, DevCooked, Unbuffered, Disabled
  <2> QED
    BY <1>1, <2>1, <2>2, <2>3 DEF Arrives, sig_handler, Unhandled
<1>2. CASE GetLine
  <2>1. CASE api = "readline"
    <3>1. tty \in Terminal /\ tty__cooked_mode(tty.ex)
      BY DEF WellSet
    <3>2. tty' = tty_init(tty, Disabled, FALSE)
      BY <1>2, <2>1 DEF GetLine
    <3>3. tty'.mode = "EX" /\ tty'.dev = tty.dev
      BY <1>0, <3>1, <3>2, InitKeeps
    <3>4. /\ phase = "out" /\ phase' = "start" /\ ~Unbuffered
          /\ UNCHANGED <<el_flags, api>> /\ excuses \subseteq excuses'
      BY <1>2, <2>1 DEF GetLine, PcInv
    <3> QED
      BY <3>3, <3>4 DEF CookedInv, DevCooked, Unbuffered
  <2>2. CASE api # "readline"
    BY <1>2, <2>2 DEF GetLine, CookedInv, DevCooked, Unbuffered, Disabled
  <2> QED
    BY <2>1, <2>2
<1>3. CASE Start \/ GetChar \/ UnbufferedRaw
  <2>0. UNCHANGED <<el_flags, api, excuses>>
    BY <1>3 DEF Start, GetChar, UnbufferedRaw
  <2>1. CASE RawNeeded(tty, Disabled) /\ RawStep(after') /\ phase' = "rawSet"
    <3>1. tty'.mode = tty.mode
      BY <2>1, RawSetKeeps DEF RawStep
    <3> QED
      BY <2>0, <2>1, <3>1 DEF CookedInv, DevCooked, Unbuffered, Disabled
  <2>2. CASE RawNeeded(tty, Disabled) /\ RawFails
    <3>1. tty'.mode = tty.mode /\ tty'.dev = tty.dev /\ tty.mode = "EX"
      BY <2>2, RawSetKeeps DEF RawFails, RawNeeded
    <3>2. phase \in {"start", "wgetc", "uraw"}
      BY <1>3 DEF Start, GetChar, UnbufferedRaw
    <3>3. phase' # "cookSet" /\ (~Unbuffered => phase' # "out")
      BY <1>3, <2>2 DEF Start, GetChar, UnbufferedRaw, RawStep, Over, PcInv
    <3> QED
      BY <2>0, <3>1, <3>2, <3>3 DEF CookedInv, DevCooked, Unbuffered, Disabled
  <2>3. CASE UNCHANGED tty
    BY <1>3, <2>0, <2>3 DEF Start, GetChar, UnbufferedRaw, RawStep, RawFails, RawNeeded, Over, PcInv,
       CookedInv, DevCooked, Unbuffered, Disabled
  <2> QED
    BY <1>3, <2>1, <2>2, <2>3 DEF Start, GetChar, UnbufferedRaw, RawStep
<1>4. CASE RawNoted
  <2>1. tty'.mode = "ED"
    BY <1>4, ModeNoted DEF RawNoted, Modes
  <2> QED
    BY <1>4, <2>1 DEF RawNoted, PcInv, CookedInv, Unbuffered, Disabled
<1>5. CASE CookNoted
  <2>1. tty'.mode = "EX" /\ tty'.dev = tty.dev
    BY <1>5, ModeNoted DEF CookNoted, Modes
  <2> QED
    BY <1>5, <2>1 DEF CookNoted, CookedInv, DevCooked, Unbuffered, Disabled
<1>6. CASE Prepare \/ NoEdit \/ ClearHandlers
  BY <1>6 DEF Prepare, NoEdit, ClearHandlers, CookedInv, DevCooked, Unbuffered, Disabled, PcInv
<1>7. CASE SetUnbuffered \/ UnsetUnbuffered \/ CallbackReturn \/ CallbackLine
  BY <1>7 DEF SetUnbuffered, UnsetUnbuffered, CallbackReturn, CallbackLine, Unbuffer, CookedInv, DevCooked,
     Unbuffered, Disabled, PcInv
<1>8. CASE ReadKey \/ ReadFails
  <2>1. tty' = tty \/ tty' = tty_noquotemode(tty)
    BY <1>8 DEF ReadKey, ReadFails, EndsQuote
  <2>2. tty' = tty \/ tty'.mode = "ED"
    BY <2>1, NoquotemodeKeeps
  <2>3. /\ phase = "read" /\ phase' \in {"read", "cmd", "ret", "finish"} /\ (phase' = "ret" => Unbuffered)
        /\ UNCHANGED <<el_flags, api, excuses>>
    BY <1>8 DEF ReadKey, ReadFails, Over
  <2> QED
    BY <2>2, <2>3 DEF CookedInv, DevCooked, Unbuffered, Disabled
<1>9. CASE Command
  <2>1. tty' = tty \/ tty'.mode = "QU"
    BY <1>9, QuotemodeKeeps DEF Command
  <2>2. /\ phase = "cmd" /\ phase' \in {"wgetc", "ret", "finish"} /\ (phase' = "ret" => Unbuffered)
        /\ UNCHANGED <<el_flags, api>> /\ excuses \subseteq excuses'
    BY <1>9 DEF Command, Over
  <2> QED
    BY <2>1, <2>2 DEF CookedInv, DevCooked, Unbuffered, Disabled
<1>10. CASE Finish
  <2>1. CASE tty' = CookSet(tty) /\ phase' = "cookSet"
    <3>1. tty'.mode = tty.mode /\ tty__cooked_mode(tty'.dev)
      BY <2>1, CookSetKeeps
    <3> QED
      BY <2>1, <3>1 DEF CookedInv, DevCooked
  <2>2. CASE UNCHANGED tty /\ phase' = "clr"
    BY <1>10, <2>2 DEF Finish, CookNeeded, CookedInv, DevCooked, Unbuffered
  <2> QED
    BY <1>10, <2>1, <2>2 DEF Finish
<1>11. CASE Return
  <2>1. CASE api = "readline" /\ tty__cooked_mode(tty'.dev)
    BY <1>11, <2>1 DEF Return, CookedInv, DevCooked
  <2>2. CASE api = "readline" /\ ~tty__cooked_mode(tty'.dev)
    BY <1>11, <2>2 DEF Return, CookedInv
  <2>3. CASE api # "readline"
    BY <1>11, <2>3 DEF Return, CookedInv, DevCooked, Unbuffered
  <2> QED
    BY <2>1, <2>2, <2>3
<1>12. ASSUME NEW f \in Flags, SetFlag(f) PROVE CookedInv'
  BY <1>12, FlagSetKeepsMode DEF SetFlag, Between, CookedInv, DevCooked, Unbuffered
<1>13. ASSUME NEW raw \in BOOLEAN, PrepTerm(raw) PROVE CookedInv'
  <2>1. CASE raw
    BY <1>13, <2>1 DEF PrepTerm, CookedInv
  <2>2. CASE ~raw
    <3>1. tty' = tty \/ (tty'.mode = "EX" /\ tty__cooked_mode(tty'.dev))
      BY <1>0, <1>13, <2>2, CookedmodeKeeps DEF PrepTerm
    <3> QED
      BY <1>13, <2>2, <3>1 DEF PrepTerm, CookedInv, DevCooked, Unbuffered
  <2> QED
    BY <2>1, <2>2
<1>14. ASSUME NEW z \in Modes, Stty(z) PROVE CookedInv'
  <2>1. /\ tty'.mode = tty.mode
        /\ tty'.dev = tty.dev \/ (tty.mode = z /\ (z = "EX" => tty__cooked_mode(tty'.dev)))
    BY <1>14, ChangedByStty
  <2>2. /\ phase \in {"out", "cmd"} /\ api = "el_gets"
        /\ UNCHANGED <<phase, el_flags, api>> /\ excuses \subseteq excuses'
    BY <1>14 DEF Stty
  <2> QED
    BY <2>1, <2>2 DEF CookedInv, DevCooked, Unbuffered
<1>15. CASE UserChange
  <2>1. tty'.mode = tty.mode /\ tty__cooked_mode(tty'.dev)
    BY <1>15, ChangedByUser
  <2> QED
    BY <1>15, <2>1 DEF UserChange, CookedInv, DevCooked, Unbuffered, Disabled
<1>16. CASE Reopen
  <2>1. tty'.mode = "EX"
    BY <1>16, Reopened
  <2>2. /\ phase = "out" /\ phase' = "out" /\ ("raw" \in excuses' \/ tty__cooked_mode(tty'.dev))
    BY <1>16 DEF Reopen, Between
  <2> QED
    BY <2>1, <2>2 DEF CookedInv, DevCooked
<1>17. ASSUME NEW s \in Signals, AppSignal(s) PROVE CookedInv'
  BY <1>17 DEF AppSignal, CookedInv, DevCooked, Unbuffered, Disabled
<1> QED
  BY <1>1, <1>2, <1>3, <1>4, <1>5, <1>6, <1>7, <1>8, <1>9, <1>10, <1>11, <1>12, <1>13, <1>14,
     <1>15, <1>16, <1>17 DEF Next

-------------------------------------------------------------------------------
(* Cooked mode and handlers between lines.                                 *)

LEMMA SessionStart ==
  ASSUME Init
  PROVE  SessionInv
<1>1. PICK d \in Terminals : tty = Opened(d)
  BY DEF Init
<1>2. d \in Setting /\ tty__cooked_mode(d)
  <2>1. PICK e \in UserChars : d = [flags |-> [inp |-> {"ixon"}, ctl |-> {}, lin |-> {"icanon", "isig"}],
                                    ch |-> [erase |-> e, susp |-> "default"]]
    BY DEF Terminals
  <2>2. d.flags \in [Kinds -> SUBSET Flag] /\ d.ch \in [Chars -> Value]
    BY <2>1 DEF Kinds, Flag, Chars, Value
  <2>3. d \in Setting
    BY <2>1, <2>2 DEF Setting
  <2> QED
    BY <2>1, <2>3 DEF tty__cooked_mode
<1>3. WellSet(tty) /\ tty.mode = "EX" /\ DevCooked
  BY <1>1, <1>2, OpenedKeeps DEF DevCooked
<1>4. PcInv
  BY DEF Init, PcInv, Phases, Unbuffered
<1>5. HandlersInv
  BY DEF Init, HandlersInv, ALLSIGS
<1>6. CookedInv
  BY <1>3 DEF Init, CookedInv
<1> QED
  BY <1>3, <1>4, <1>5, <1>6 DEF SessionInv

LEMMA SessionKept == Spec => []SessionInv
<1>1. Init => SessionInv
  BY SessionStart
<1>2. SessionInv /\ [Next]_sessVars => SessionInv'
  <2> SUFFICES ASSUME SessionInv, [Next]_sessVars PROVE SessionInv'
    OBVIOUS
  <2>1. CASE Next
    BY <2>1, PcStep, HandlersStep, WellSetStep, CookedStep DEF SessionInv
  <2>2. CASE UNCHANGED sessVars
    <3>1. PcInv'
      BY <2>2 DEF SessionInv, sessVars, pcVars, PcInv, Phases, Unbuffered, Disabled
    <3>2. HandlersInv'
      BY <2>2 DEF SessionInv, sessVars, pcVars, sigVars, readVars, HandlersInv, InPlace, Handling,
         Handles, Unbuffered
    <3>3. CookedInv'
      BY <2>2 DEF SessionInv, sessVars, pcVars, CookedInv, DevCooked, Unbuffered, Disabled
    <3>4. WellSet(tty')
      BY <2>2 DEF SessionInv, sessVars
    <3> QED
      BY <3>1, <3>2, <3>3, <3>4 DEF SessionInv
  <2> QED
    BY <2>1, <2>2
<1> QED
  BY <1>1, <1>2, PTL DEF Spec

\* However lines were read, whatever signals came and whatever the program and
\* the user set, the terminal is in cooked mode between lines, but for the cases
\* CookedBetween names.
THEOREM CookedBetweenLines == Spec => []CookedBetween
<1>1. SessionInv => CookedBetween
  BY DEF SessionInv, CookedInv, CookedBetween, Between
<1> QED
  BY <1>1, SessionKept, PTL

\* A handler of editline always knows the program's, and the program's handlers
\* are in place between lines.
THEOREM HandlersComeBack == Spec => []HandlersBack
<1>1. SessionInv => HandlersBack
  <2> SUFFICES ASSUME SessionInv PROVE HandlersBack
    OBVIOUS
  <2>1. \A s \in ALLSIGS : disp[s] = "lib" => saved[s] = last[s]
    BY DEF SessionInv, HandlersInv
  <2>2. ASSUME Between, "handlers" \notin excuses PROVE disp = last
    <3>1. ~InPlace
      BY <2>2 DEF Between, InPlace, Handling
    <3>2. \A s \in ALLSIGS : disp[s] = last[s]
      BY <2>2, <3>1 DEF SessionInv, HandlersInv
    <3> QED
      BY <3>2 DEF SessionInv, HandlersInv
  <2> QED
    BY <2>1, <2>2 DEF HandlersBack
<1> QED
  BY <1>1, SessionKept, PTL

-------------------------------------------------------------------------------
(* What the user changed.                                                  *)

\* What a change of editline's characters leaves alone.
LEMMA CharsOnly ==
  ASSUME NEW t, WellSet(t), NEW n \in {"EX", "ED", "TS"}, NEW s \in [Chars -> Value]
  PROVE  LET u == [t EXCEPT !.c[n] = s]
         IN /\ u.or = t.or /\ u.ts = t.ts /\ u.ed = t.ed /\ u.ex = t.ex /\ u.t = t.t
            /\ \A m \in {"EX", "ED", "TS"} \ {n} : u.c[m] = t.c[m]
<1> DEFINE c == [t.c EXCEPT ![n] = s]
           u == [t EXCEPT !.c = c]
<1>1. \A m \in {"EX", "ED", "TS"} \ {n} : c[m] = t.c[m]
  <2>1. t.c \in [EX : [Chars -> Value], ED : [Chars -> Value], TS : [Chars -> Value]]
    BY DEF WellSet, Terminal
  <2>2. CASE n = "EX"
    BY <2>1, <2>2
  <2>3. CASE n = "ED"
    BY <2>1, <2>3
  <2>4. CASE n = "TS"
    BY <2>1, <2>4
  <2> QED
    BY <2>2, <2>3, <2>4
<1> HIDE DEF c
<1>2. u.or = t.or /\ u.ts = t.ts /\ u.ed = t.ed /\ u.ex = t.ex /\ u.t = t.t /\ u.c = c
  BY DEF WellSet, Terminal
<1> QED
  BY <1>1, <1>2 DEF c

\* What is read from a terminal in cooked mode goes to the settings of both modes.
LEMMA PropagatedFlags ==
  ASSUME NEW t, WellSet(t)
  PROVE  LET u == tty_update_flags(t)
         IN /\ u.or = t.or /\ u.ts = t.ts /\ u.t = t.t /\ u.c = t.c
            /\ u.ex.ch = t.ex.ch
            /\ \A k \in Kinds :
                 /\ u.ex.flags[k] = IF k \in Changed(t) THEN tty_update_flag(t, t.ts.flags[k], "EX", k) ELSE t.ex.flags[k]
                 /\ u.ed.flags[k] = IF k \in Changed(t) THEN tty_update_flag(t, t.ts.flags[k], "ED", k) ELSE t.ed.flags[k]
<1> DEFINE new(td, z) == [k \in Kinds |-> IF k \in Changed(t) THEN tty_update_flag(t, t.ts.flags[k], z, k) ELSE td.flags[k]]
           fe == new(t.ed, "ED")
           fx == new(t.ex, "EX")
           ed == [t.ed EXCEPT !.flags = fe]
           ex == [t.ex EXCEPT !.flags = fx]
           u == [t EXCEPT !.ed = ed, !.ex = ex]
<1>1. \A k \in Kinds :
        /\ fx[k] = IF k \in Changed(t) THEN tty_update_flag(t, t.ts.flags[k], "EX", k) ELSE t.ex.flags[k]
        /\ fe[k] = IF k \in Changed(t) THEN tty_update_flag(t, t.ts.flags[k], "ED", k) ELSE t.ed.flags[k]
  OBVIOUS
<1>2. tty_update_flags(t) = u
  BY DEF tty_update_flags
<1> HIDE DEF fe, fx
<1>3. ed.flags = fe /\ ex.flags = fx /\ ex.ch = t.ex.ch
  BY TerminalParts DEF WellSet, Setting
<1> HIDE DEF ed, ex
<1>4. u.or = t.or /\ u.ts = t.ts /\ u.t = t.t /\ u.c = t.c /\ u.ed = ed /\ u.ex = ex
  BY DEF WellSet, Terminal
<1> QED
  BY <1>1, <1>2, <1>3, <1>4

LEMMA PropagatedChars ==
  ASSUME NEW t, WellSet(t), tty__cooked_mode(t.ts)
  PROVE  LET u == Propagated(t)
             f == tty_update_flags(t)
         IN /\ u.or = t.or /\ u.ts = t.ts /\ u.t = t.t
            /\ u.ex.flags = f.ex.flags /\ u.ed.flags = f.ed.flags
            /\ \/ t.ts.ch = t.c["EX"] /\ u.ex.ch = t.ex.ch /\ u.c["EX"] = t.c["EX"]
               \/ /\ u.ex.ch = u.c["EX"]
                  /\ \A x \in Chars :
                       u.c["EX"][x] = IF x \in t.t["EX"].char.clr THEN "off"
                                      ELSE IF x \notin t.t["EX"].char.set /\ t.ts.ch[x] # t.c["EX"][x]
                                           THEN t.ts.ch[x] ELSE t.c["EX"][x]
<1> DEFINE f == tty_update_flags(t)
           r == [f EXCEPT !.c["TS"] = tty__getchar(t.ts)]
           d == [r EXCEPT !.c["ED"] = tty_update_char(r, "ED")]
           e == [d EXCEPT !.c["EX"] = tty_update_char(d, "EX")]
           g == [e EXCEPT !.ed = tty__setchar(e.ed, e.c["ED"]), !.ex = tty__setchar(e.ex, e.c["EX"])]
           n == {"EX", "ED", "TS"}
<1>1. WellSet(f) /\ f.or = t.or /\ f.ts = t.ts /\ f.t = t.t /\ f.c = t.c /\ f.ex.ch = t.ex.ch
  BY UpdateFlagsKeeps, PropagatedFlags
<1> HIDE DEF f
<1>2. /\ WellSet(r) /\ r.or = f.or /\ r.ts = f.ts /\ r.ed = f.ed /\ r.ex = f.ex /\ r.t = f.t
      /\ r.c["TS"] = t.ts.ch /\ r.c["EX"] = f.c["EX"]
  <2>1. tty__getchar(t.ts) \in [Chars -> Value] /\ tty__getchar(t.ts) = t.ts.ch
    BY TerminalParts DEF tty__getchar, WellSet, Setting
  <2> QED
    BY <1>1, <2>1, CharsKept, CharsOnly
<1> HIDE DEF r
<1>3. /\ WellSet(d) /\ d.or = r.or /\ d.ts = r.ts /\ d.ed = r.ed /\ d.ex = r.ex /\ d.t = r.t
      /\ d.c["TS"] = r.c["TS"] /\ d.c["EX"] = r.c["EX"]
  <2>1. tty_update_char(r, "ED") \in [Chars -> Value]
    BY <1>2, UpdatedChars DEF WellSet
  <2> QED
    BY <1>2, <2>1, CharsKept, CharsOnly
<1> HIDE DEF d
<1>4. /\ WellSet(e) /\ e.or = d.or /\ e.ts = d.ts /\ e.ed = d.ed /\ e.ex = d.ex /\ e.t = d.t
      /\ e.c["EX"] = tty_update_char(d, "EX")
  <2>1. tty_update_char(d, "EX") \in [Chars -> Value]
    BY <1>3, UpdatedChars DEF WellSet
  <2> QED
    BY <1>3, <2>1, CharsKept, CharsOnly
<1> HIDE DEF e
<1>5. /\ g.or = e.or /\ g.ts = e.ts /\ g.t = e.t /\ g.c = e.c
      /\ g.ex.flags = e.ex.flags /\ g.ed.flags = e.ed.flags /\ g.ex.ch = e.c["EX"]
  <2> DEFINE ed == tty__setchar(e.ed, e.c["ED"])
             ex == tty__setchar(e.ex, e.c["EX"])
  <2>1. ex.flags = e.ex.flags /\ ed.flags = e.ed.flags /\ ex.ch = e.c["EX"]
    BY <1>4, TerminalParts DEF WellSet, Setting, tty__setchar
  <2> HIDE DEF ed, ex
  <2> DEFINE v == [e EXCEPT !.ed = ed, !.ex = ex]
  <2>2. v.or = e.or /\ v.ts = e.ts /\ v.t = e.t /\ v.c = e.c /\ v.ed = ed /\ v.ex = ex
    BY <1>4 DEF WellSet, Terminal
  <2> QED
    BY <2>1, <2>2 DEF ed, ex
<1> HIDE DEF g
<1>6. Propagated(t) = IF r.c["TS"] = r.c["EX"] THEN r ELSE g
  BY DEF Propagated, f, r, d, e, g
<1>7. CASE r.c["TS"] = r.c["EX"]
  BY <1>1, <1>2, <1>6, <1>7 DEF f
<1>8. CASE r.c["TS"] # r.c["EX"]
  <2>1. \A x \in Chars :
          tty_update_char(d, "EX")[x] = IF x \in t.t["EX"].char.clr THEN "off"
                                      ELSE IF x \notin t.t["EX"].char.set /\ t.ts.ch[x] # t.c["EX"][x]
                                           THEN t.ts.ch[x] ELSE t.c["EX"][x]
    BY <1>1, <1>2, <1>3 DEF tty_update_char
  <2>2. g.c["EX"] = tty_update_char(d, "EX")
    BY <1>4, <1>5
  <2>3. /\ g.or = t.or /\ g.ts = t.ts /\ g.t = t.t /\ g.ex.flags = f.ex.flags /\ g.ed.flags = f.ed.flags
        /\ g.ex.ch = g.c["EX"]
    BY <1>1, <1>2, <1>3, <1>4, <1>5
  <2> QED
    BY <1>6, <1>8, <2>1, <2>2, <2>3 DEF f
<1> QED
  BY <1>7, <1>8

\* What the masks that no program changes make of flags.
LEMMA MaskedFlags ==
  ASSUME NEW t, FixedMasks(t), NEW f, NEW z \in Modes
  PROVE  /\ tty_update_flag(t, f, z, "ctl") = f
         /\ "icanon" \notin tty_update_flag(t, f, "ED", "lin")
         /\ "icanon" \notin f => "icanon" \notin tty_update_flag(t, f, "QU", "lin")
<1>1. t.t[z]["ctl"] = [set |-> {}, clr |-> {}]
  BY DEF FixedMasks, ttyperm, Modes
<1>2. t.t["ED"]["lin"] = [set |-> {"isig"}, clr |-> {"icanon"}]
  BY DEF FixedMasks, ttyperm, Modes
<1>3. t.t["QU"]["lin"] = [set |-> {}, clr |-> {"isig"}]
  BY DEF FixedMasks, ttyperm, Modes
<1> QED
  BY <1>1, <1>2, <1>3 DEF tty_update_flag

LEMMA MaskedTwice ==
  ASSUME NEW t, NEW f, NEW z, NEW k
  PROVE  tty_update_flag(t, tty_update_flag(t, f, z, k), z, k) = tty_update_flag(t, f, z, k)
BY DEF tty_update_flag

\* Fits, for a terminal with the same masks for executing.
LEMMA FitsStill ==
  ASSUME NEW t, NEW u, NEW s, NEW w, Fits(t, s, w), u.t["EX"] = t.t["EX"]
  PROVE  Fits(u, s, w)
BY DEF Fits, tty_update_flag

\* tty_rawmode finds what the user changed and takes it over.
LEMMA PropagatedFollows ==
  ASSUME NEW t, WellSet(t), Tables(t), tty__cooked_mode(t.ts), NEW w, Fits(t, t.ts, w), t.mode = "EX",
         \A x \in Chars : w.ch[x] \in {"any", t.ex.ch[x]} \/ t.ex.ch[x] = t.c["EX"][x]
  PROVE  LET u == Propagated(t)
         IN /\ u.t = t.t /\ u.or = t.or
            /\ Tables(u) /\ Fits(u, u.ex, w)
            /\ \A x \in Chars : w.ch[x] \in {"any", u.ex.ch[x]} \/ u.ex.ch[x] = u.c["EX"][x]
<1> DEFINE u == Propagated(t)
           f == tty_update_flags(t)
<1>1. /\ u.or = t.or /\ u.ts = t.ts /\ u.t = t.t
      /\ u.ex.flags = f.ex.flags /\ u.ed.flags = f.ed.flags
      /\ \/ t.ts.ch = t.c["EX"] /\ u.ex.ch = t.ex.ch /\ u.c["EX"] = t.c["EX"]
         \/ /\ u.ex.ch = u.c["EX"]
            /\ \A x \in Chars :
                 u.c["EX"][x] = IF x \in t.t["EX"].char.clr THEN "off"
                                ELSE IF x \notin t.t["EX"].char.set /\ t.ts.ch[x] # t.c["EX"][x]
                                     THEN t.ts.ch[x] ELSE t.c["EX"][x]
  BY PropagatedChars
<1>2. \A k \in Kinds :
         /\ f.ex.flags[k] = IF k \in Changed(t) THEN tty_update_flag(t, t.ts.flags[k], "EX", k) ELSE t.ex.flags[k]
         /\ f.ed.flags[k] = IF k \in Changed(t) THEN tty_update_flag(t, t.ts.flags[k], "ED", k) ELSE t.ed.flags[k]
  BY PropagatedFlags
<1>3. u.mode = "EX"
  BY PropagatedKeeps DEF Same
<1> HIDE DEF u, f
<1>4. \A k \in Kinds : tty_update_flag(u, u.ex.flags[k], "EX", k) = u.ex.flags[k]
  <2> TAKE k \in Kinds
  <2>1. tty_update_flag(u, u.ex.flags[k], "EX", k) = tty_update_flag(t, u.ex.flags[k], "EX", k)
    BY <1>1 DEF tty_update_flag
  <2> QED
    BY <1>1, <1>2, <2>1, MaskedTwice DEF Tables, FixedMasks
<1>5. ~tty__cooked_mode(u.ed)
  <2>1. "icanon" \notin tty_update_flag(t, t.ts.flags["lin"], "ED", "lin")
    BY MaskedFlags DEF Modes, Tables
  <2> QED
    BY <1>1, <1>2, <2>1 DEF Tables, FixedMasks, tty__cooked_mode, Kinds
<1>6. u.ed.flags["ctl"] = u.ex.flags["ctl"]
  BY <1>1, <1>2, MaskedFlags DEF Tables, Kinds, Modes
<1>7. Tables(u)
  BY <1>1, <1>3, <1>4, <1>5, <1>6 DEF Tables, FixedMasks
<1>8. \A k \in {"inp", "ctl"} : u.ex.flags[k] = w.flags[k]
  <2>1. /\ tty_update_flag(t, t.ts.flags["inp"], "EX", "inp") = w.flags["inp"]
        /\ tty_update_flag(t, t.ts.flags["ctl"], "EX", "ctl") = w.flags["ctl"]
    BY DEF Fits
  <2>2. /\ tty_update_flag(t, t.ex.flags["inp"], "EX", "inp") = t.ex.flags["inp"]
        /\ tty_update_flag(t, t.ex.flags["ctl"], "EX", "ctl") = t.ex.flags["ctl"]
    BY DEF Tables, FixedMasks, Kinds
  <2>3. u.ex.flags["inp"] = w.flags["inp"]
    <3>1. "inp" \notin Changed(t) => t.ts.flags["inp"] = t.ex.flags["inp"]
      BY DEF Changed, Kinds
    <3> QED
      BY <1>1, <1>2, <2>1, <2>2, <3>1 DEF Kinds
  <2>4. u.ex.flags["ctl"] = w.flags["ctl"]
    <3>1. "ctl" \notin Changed(t) => t.ts.flags["ctl"] = t.ex.flags["ctl"]
      BY DEF Changed, Kinds, Tables
    <3> QED
      BY <1>1, <1>2, <2>1, <2>2, <3>1 DEF Kinds
  <2> QED
    BY <2>3, <2>4
<1>9. \A x \in Chars : w.ch[x] \in {"any", u.ex.ch[x]}
  <2>1. t.t["EX"].char = [set |-> {}, clr |-> {}]
    BY DEF Tables, FixedMasks, ttyperm, Modes
  <2> TAKE x \in Chars
  <2>2. w.ch[x] \in {"any", t.ts.ch[x]}
    BY DEF Fits
  <2>3. CASE t.ts.ch = t.c["EX"] /\ u.ex.ch = t.ex.ch
    BY <2>2, <2>3
  <2>4. CASE u.ex.ch[x] = t.ts.ch[x]
    BY <2>2, <2>4
  <2> QED
    BY <1>1, <2>1, <2>3, <2>4
<1>10. Fits(u, u.ex, w)
  BY <1>4, <1>8, <1>9 DEF Fits, Kinds
<1> QED
  BY <1>1, <1>7, <1>9, <1>10 DEF u

\* What tty_rawmode makes of the terminal before t_mode says so, and after.
LEMMA RawSetFollows ==
  ASSUME NEW t, WellSet(t), Tables(t), NEW w, Followed(t, w), t.initialized, t.mode = "EX",
         NEW fails \in Faults \cup {"none"}
  PROVE  LET u == RawSet(t, fails)
         IN /\ u.t = t.t /\ u.or = t.or /\ u.initialized
            /\ Tables(u) /\ Followed(u, w)
            /\ fails = "none" => ~tty__cooked_mode(u.dev)
<1> DEFINE read == [t EXCEPT !.ts = t.dev]
           p == Propagated(read)
           raw == [p EXCEPT !.dev = p.ed]
<1>1. /\ read \in Terminal /\ read.dev = t.dev /\ read.or = t.or /\ read.ts = t.dev /\ read.ed = t.ed /\ read.ex = t.ex
      /\ read.t = t.t /\ read.c = t.c /\ read.mode = t.mode /\ read.initialized = t.initialized
  BY DEF WellSet, Terminal
<1>2. WellSet(read) /\ Tables(read)
  BY <1>1 DEF WellSet, Masked, Tables, FixedMasks, tty_update_flag
<1> HIDE DEF read
<1>3. WellSet(p) /\ p.mode = "EX" /\ p.dev = t.dev /\ p.initialized
  BY <1>1, <1>2, PropagatedKeeps DEF Same
<1>4. /\ p.t = t.t /\ p.or = t.or
      /\ Tables(p) /\ Fits(p, p.ex, w)
      /\ \A x \in Chars : w.ch[x] \in {"any", p.ex.ch[x]} \/ p.ex.ch[x] = p.c["EX"][x]
  <2>0. \A x \in Chars : w.ch[x] \in {"any", t.ex.ch[x]} \/ t.ex.ch[x] = t.c["EX"][x]
    BY DEF Followed
  <2>1. CASE tty__cooked_mode(t.dev)
    <3>1. Fits(t, t.dev, w)
      BY <2>1 DEF Followed
    <3>2. Fits(read, read.ts, w)
      BY <1>1, <3>1, FitsStill
    <3> QED
      BY <1>1, <1>2, <2>0, <2>1, <3>2, PropagatedFollows
  <2>2. CASE ~tty__cooked_mode(t.dev)
    <3>1. p = read
      BY <1>1, <2>2 DEF Propagated
    <3>2. Fits(t, t.ex, w)
      BY <2>2 DEF Followed
    <3>3. Fits(read, read.ex, w)
      BY <1>1, <3>2, FitsStill
    <3> QED
      BY <1>1, <1>2, <2>0, <3>1, <3>3
  <2> QED
    BY <2>1, <2>2
<1>5. RawSet(t, fails) = CASE fails = "get" -> t [] fails = "set" -> p [] OTHER -> raw
  BY DEF RawSet, read
<1> HIDE DEF p
<1>6. /\ raw.dev = p.ed /\ raw.or = p.or /\ raw.ts = p.ts /\ raw.ed = p.ed /\ raw.ex = p.ex
      /\ raw.t = p.t /\ raw.c = p.c /\ raw.mode = p.mode /\ raw.initialized = p.initialized
  BY <1>3, TerminalParts DEF WellSet, Terminal
<1> HIDE DEF raw
<1>7. ~tty__cooked_mode(p.ed)
  BY <1>4 DEF Tables, FixedMasks
<1>8. Tables(raw) /\ Followed(raw, w) /\ ~tty__cooked_mode(raw.dev)
  <2>1. Tables(raw)
    BY <1>4, <1>6 DEF Tables, FixedMasks, tty_update_flag
  <2>2. Fits(raw, raw.ex, w)
    BY <1>4, <1>6, FitsStill
  <2> QED
    BY <1>4, <1>6, <1>7, <2>1, <2>2 DEF Followed
<1>9. Followed(p, w)
  <2>1. tty__cooked_mode(t.dev) => Fits(p, p.dev, w)
    BY <1>3, <1>4, FitsStill DEF Followed
  <2> QED
    BY <1>3, <1>4, <2>1 DEF Followed
<1>10. CASE fails = "get"
  BY <1>5, <1>10
<1>11. CASE fails = "set"
  BY <1>3, <1>4, <1>5, <1>9, <1>11
<1>12. CASE fails = "none"
  BY <1>3, <1>4, <1>5, <1>6, <1>8, <1>12 DEF Faults
<1> QED
  BY <1>10, <1>11, <1>12 DEF Faults

\* t_mode follows the device.
LEMMA ModeFollows ==
  ASSUME NEW t, WellSet(t), Tables(t), NEW w, Followed(t, w), NEW z \in {"EX", "ED"},
         z = "ED" => ~tty__cooked_mode(t.dev)
  PROVE  LET u == [t EXCEPT !.mode = z]
         IN /\ u.t = t.t /\ u.or = t.or /\ u.initialized = t.initialized /\ u.dev = t.dev /\ u.mode = z
            /\ Tables(u) /\ Followed(u, w)
<1> DEFINE u == [t EXCEPT !.mode = z]
<1>1. /\ u.dev = t.dev /\ u.or = t.or /\ u.ts = t.ts /\ u.ed = t.ed /\ u.ex = t.ex
      /\ u.t = t.t /\ u.c = t.c /\ u.mode = z /\ u.initialized = t.initialized
  BY DEF WellSet, Terminal
<1> HIDE DEF u
<1>2. Tables(u)
  BY <1>1 DEF Tables, FixedMasks, tty_update_flag
<1>3. (tty__cooked_mode(u.dev) => Fits(u, u.dev, w)) /\ (~tty__cooked_mode(u.dev) => Fits(u, u.ex, w))
  BY <1>1, FitsStill DEF Followed
<1>4. Followed(u, w)
  BY <1>1, <1>3 DEF Followed
<1> QED
  BY <1>1, <1>2, <1>4 DEF u

\* The device is set, to settings that hold what the user changed or to those
\* of raw mode.
LEMMA DeviceFollows ==
  ASSUME NEW t, WellSet(t), Tables(t), NEW w, Followed(t, w), NEW d,
         tty__cooked_mode(d) => Fits(t, d, w),
         ~tty__cooked_mode(d) => Fits(t, t.ex, w)
  PROVE  LET u == [t EXCEPT !.dev = d]
         IN /\ u.t = t.t /\ u.or = t.or /\ u.initialized = t.initialized /\ u.dev = d /\ u.mode = t.mode
            /\ Tables(u) /\ Followed(u, w)
<1> DEFINE u == [t EXCEPT !.dev = d]
<1>1. /\ u.dev = d /\ u.or = t.or /\ u.ts = t.ts /\ u.ed = t.ed /\ u.ex = t.ex
      /\ u.t = t.t /\ u.c = t.c /\ u.mode = t.mode /\ u.initialized = t.initialized
  BY DEF WellSet, Terminal
<1> HIDE DEF u
<1>2. Tables(u)
  BY <1>1 DEF Tables, FixedMasks, tty_update_flag
<1>3. /\ tty__cooked_mode(u.dev) => Fits(u, u.dev, w)
      /\ u.mode # "EX" \/ ~tty__cooked_mode(u.dev) => Fits(u, u.ex, w)
  BY <1>1, FitsStill DEF Followed
<1>4. Followed(u, w)
  BY <1>1, <1>3 DEF Followed
<1> QED
  BY <1>1, <1>2, <1>4 DEF u

LEMMA CookSetFollows ==
  ASSUME NEW t, WellSet(t), Tables(t), NEW w, Followed(t, w), t.mode # "EX"
  PROVE  LET u == CookSet(t)
         IN /\ u.t = t.t /\ u.or = t.or /\ u.initialized = t.initialized /\ u.mode = t.mode
            /\ Tables(u) /\ Followed(u, w)
<1>1. Fits(t, t.ex, w)
  BY DEF Followed
<1> QED
  BY <1>1, DeviceFollows DEF CookSet

LEMMA RawmodeFollows ==
  ASSUME NEW t, WellSet(t), Tables(t), NEW w, Followed(t, w), NEW disabled \in BOOLEAN, t.initialized
  PROVE  LET u == tty_rawmode(t, disabled)
         IN /\ u.t = t.t /\ u.or = t.or /\ u.initialized = t.initialized
            /\ Tables(u) /\ Followed(u, w)
            /\ u = t \/ (~disabled /\ ~tty__cooked_mode(u.dev))
<1> DEFINE r == RawSet(t, "none")
           u == [r EXCEPT !.mode = "ED"]
<1>1. CASE RawNeeded(t, disabled)
  <2>1. WellSet(r)
    BY RawSetKeeps
  <2>2. /\ r.t = t.t /\ r.or = t.or /\ r.initialized /\ Tables(r) /\ Followed(r, w)
        /\ ~tty__cooked_mode(r.dev)
    BY <1>1, RawSetFollows DEF RawNeeded
  <2>3. r.initialized \in BOOLEAN /\ t.initialized \in BOOLEAN
    BY <2>1, TerminalParts DEF WellSet
  <2> HIDE DEF r
  <2>4. /\ u.t = r.t /\ u.or = r.or /\ u.initialized = r.initialized /\ u.dev = r.dev
        /\ Tables(u) /\ Followed(u, w)
    BY <2>1, <2>2, ModeFollows
  <2>5. tty_rawmode(t, disabled) = u
    BY <1>1 DEF tty_rawmode, r
  <2> HIDE DEF u
  <2> QED
    BY <1>1, <2>2, <2>3, <2>4, <2>5 DEF RawNeeded
<1>2. CASE ~RawNeeded(t, disabled)
  BY <1>2 DEF tty_rawmode
<1> QED
  BY <1>1, <1>2

LEMMA CookedmodeFollows ==
  ASSUME NEW t, WellSet(t), Tables(t), NEW w, Followed(t, w), NEW disabled \in BOOLEAN
  PROVE  LET u == tty_cookedmode(t, disabled)
         IN /\ u.t = t.t /\ u.or = t.or /\ u.initialized = t.initialized
            /\ Tables(u) /\ Followed(u, w)
            /\ u = t \/ u.mode = "EX"
<1> DEFINE r == CookSet(t)
           u == [r EXCEPT !.mode = "EX"]
<1>1. CASE CookNeeded(t, disabled)
  <2>1. WellSet(r)
    BY CookSetKeeps
  <2>2. r.t = t.t /\ r.or = t.or /\ r.initialized = t.initialized /\ Tables(r) /\ Followed(r, w)
    BY <1>1, CookSetFollows DEF CookNeeded
  <2> HIDE DEF r
  <2>3. /\ u.t = r.t /\ u.or = r.or /\ u.initialized = r.initialized /\ u.mode = "EX"
        /\ Tables(u) /\ Followed(u, w)
    BY <2>1, <2>2, ModeFollows
  <2>4. tty_cookedmode(t, disabled) = u
    BY <1>1 DEF tty_cookedmode, r
  <2> HIDE DEF u
  <2> QED
    BY <2>2, <2>3, <2>4
<1>2. CASE ~CookNeeded(t, disabled)
  BY <1>2 DEF tty_cookedmode
<1> QED
  BY <1>1, <1>2

\* Quoting, from the mode for editing, and back.
LEMMA QuotemodeFollows ==
  ASSUME NEW t, WellSet(t), Tables(t), NEW w, Followed(t, w), t.mode # "EX"
  PROVE  LET u == tty_quotemode(t)
         IN /\ u.t = t.t /\ u.or = t.or /\ u.initialized = t.initialized
            /\ Tables(u) /\ Followed(u, w)
            /\ u = t \/ ~tty__cooked_mode(u.dev)
<1> DEFINE q == tty_setup_flags(t, t.ed, "QU")
           u == [t EXCEPT !.ts = q, !.dev = q, !.mode = "QU"]
<1>1. ~tty__cooked_mode(q)
  <2>1. t.ed \in Setting /\ "icanon" \notin t.ed.flags["lin"]
    BY TerminalParts DEF WellSet, Tables, FixedMasks, tty__cooked_mode
  <2>2. q.flags["lin"] = tty_update_flag(t, t.ed.flags["lin"], "QU", "lin")
    BY <2>1 DEF tty_setup_flags, Setting, Kinds
  <2> QED
    BY <2>1, <2>2, MaskedFlags DEF Modes, Tables, tty__cooked_mode
<1> HIDE DEF q
<1>2. /\ u.dev = q /\ u.or = t.or /\ u.ts = q /\ u.ed = t.ed /\ u.ex = t.ex
      /\ u.t = t.t /\ u.c = t.c /\ u.mode = "QU" /\ u.initialized = t.initialized
  BY DEF WellSet, Terminal
<1>3. tty_quotemode(t) = IF t.mode = "QU" THEN t ELSE u
  BY DEF tty_quotemode, q
<1> HIDE DEF u
<1>4. Tables(u)
  BY <1>1, <1>2 DEF Tables, FixedMasks, tty_update_flag
<1>5. Fits(u, u.ex, w)
  BY <1>2, FitsStill DEF Followed
<1>6. Followed(u, w)
  BY <1>1, <1>2, <1>5 DEF Followed
<1> QED
  BY <1>1, <1>2, <1>3, <1>4, <1>6

LEMMA NoquotemodeFollows ==
  ASSUME NEW t, WellSet(t), Tables(t), NEW w, Followed(t, w)
  PROVE  LET u == tty_noquotemode(t)
         IN /\ u.t = t.t /\ u.or = t.or /\ u.initialized = t.initialized
            /\ Tables(u) /\ Followed(u, w)
            /\ u = t \/ ~tty__cooked_mode(u.dev)
<1> DEFINE v == [t EXCEPT !.dev = t.ed]
           u == [t EXCEPT !.dev = t.ed, !.mode = "ED"]
<1>1. CASE t.mode = "QU"
  <2>1. /\ u.dev = t.ed /\ u.or = t.or /\ u.ts = t.ts /\ u.ed = t.ed /\ u.ex = t.ex
        /\ u.t = t.t /\ u.c = t.c /\ u.mode = "ED" /\ u.initialized = t.initialized
    BY DEF WellSet, Terminal
  <2>2. tty_noquotemode(t) = u
    BY <1>1 DEF tty_noquotemode
  <2> HIDE DEF u
  <2>3. Tables(u) /\ ~tty__cooked_mode(u.dev)
    BY <2>1 DEF Tables, FixedMasks, tty_update_flag
  <2>4. Fits(u, u.ex, w)
    BY <1>1, <2>1, FitsStill DEF Followed
  <2>5. Followed(u, w)
    BY <2>1, <2>3, <2>4 DEF Followed
  <2> QED
    BY <2>1, <2>2, <2>3, <2>5
<1>2. CASE t.mode # "QU"
  BY <1>2 DEF tty_noquotemode
<1> QED
  BY <1>1, <1>2

\* tty_setup takes the settings of the device for all modes.
LEMMA SetupSettings ==
  ASSUME NEW t \in Terminal, ~t.initialized, NEW reset \in BOOLEAN
  PROVE  LET u == tty_setup(t, FALSE, reset)
         IN /\ u.t = t.t /\ u.or = t.dev /\ u.initialized /\ u.mode = t.mode
            /\ u.dev = IF reset THEN u.ex ELSE t.dev
            /\ \A k \in Kinds : /\ u.ex.flags[k] = tty_update_flag(t, t.dev.flags[k], "EX", k)
                                /\ u.ed.flags[k] = tty_update_flag(t, t.dev.flags[k], "ED", k)
            /\ ~reset => u.ex.ch = t.dev.ch
<1> DEFINE found == tty__getchar(t.dev)
           keeps == reset /\ tty__cooked_mode(t.dev)
           c == IF ~keeps THEN t.c
                ELSE [TS |-> found,
                      ED |-> [x \in Chars |-> IF found[x] # "off" /\ t.c["ED"][x] # "off" THEN found[x] ELSE t.c["ED"][x]],
                      EX |-> [x \in Chars |-> IF found[x] # "off" THEN found[x] ELSE t.c["EX"][x]]]
           ex0 == tty_setup_flags(t, t.dev, "EX")
           ex == IF reset THEN tty__setchar(ex0, c["EX"]) ELSE ex0
           ed0 == tty_setup_flags(t, t.dev, "ED")
           ed == tty__setchar(ed0, c["ED"])
           dev == IF reset THEN ex ELSE t.dev
           u == [t EXCEPT !.or = t.dev, !.ts = t.dev, !.ex = ex, !.ed = ed, !.c = c,
                          !.dev = dev, !.initialized = TRUE]
<1>1. t.dev \in Setting
  BY TerminalParts
<1>2. /\ ex0.ch = t.dev.ch
      /\ \A k \in Kinds : /\ ex0.flags[k] = tty_update_flag(t, t.dev.flags[k], "EX", k)
                          /\ ed0.flags[k] = tty_update_flag(t, t.dev.flags[k], "ED", k)
  <2> DEFINE fx == [k \in Kinds |-> tty_update_flag(t, t.dev.flags[k], "EX", k)]
             fe == [k \in Kinds |-> tty_update_flag(t, t.dev.flags[k], "ED", k)]
  <2>1. \A k \in Kinds : /\ fx[k] = tty_update_flag(t, t.dev.flags[k], "EX", k)
                         /\ fe[k] = tty_update_flag(t, t.dev.flags[k], "ED", k)
    OBVIOUS
  <2>2. ex0 = [t.dev EXCEPT !.flags = fx] /\ ed0 = [t.dev EXCEPT !.flags = fe]
    BY DEF tty_setup_flags
  <2> HIDE DEF fx, fe
  <2>3. ex0 = [flags |-> fx, ch |-> t.dev.ch] /\ ed0 = [flags |-> fe, ch |-> t.dev.ch]
    BY <1>1, <2>2 DEF Setting
  <2> HIDE DEF ex0, ed0
  <2> QED
    BY <2>1, <2>3
<1>2a. \A s : /\ tty__setchar(ex0, s).flags = ex0.flags /\ tty__setchar(ed0, s).flags = ed0.flags
  <2>1. ex0 = [t.dev EXCEPT !.flags = [k \in Kinds |-> tty_update_flag(t, t.dev.flags[k], "EX", k)]]
    BY DEF tty_setup_flags
  <2>2. ed0 = [t.dev EXCEPT !.flags = [k \in Kinds |-> tty_update_flag(t, t.dev.flags[k], "ED", k)]]
    BY DEF tty_setup_flags
  <2> HIDE DEF ex0, ed0
  <2> QED
    BY <1>1, <2>1, <2>2 DEF tty__setchar, Setting
<1> HIDE DEF c, ex0, ed0
<1>3. /\ ex.flags = ex0.flags /\ ed.flags = ed0.flags /\ (~reset => ex.ch = t.dev.ch)
  BY <1>2, <1>2a
<1> HIDE DEF ex, ed
<1>4. /\ u.t = t.t /\ u.or = t.dev /\ u.initialized /\ u.mode = t.mode /\ u.dev = dev
      /\ u.ex = ex /\ u.ed = ed
  BY DEF Terminal
<1>5. tty_setup(t, FALSE, reset) = u
  BY DEF tty_setup, u, dev, ed, ed0, ex, ex0, c, found, keeps
<1> HIDE DEF u, dev
<1>6. \A k \in Kinds : /\ u.ex.flags[k] = tty_update_flag(t, t.dev.flags[k], "EX", k)
                        /\ u.ed.flags[k] = tty_update_flag(t, t.dev.flags[k], "ED", k)
  <2>1. u.ex.flags = ex0.flags /\ u.ed.flags = ed0.flags
    BY <1>3, <1>4
  <2> QED
    BY <1>2, <2>1
<1>7. u.dev = (IF reset THEN u.ex ELSE t.dev) /\ (~reset => u.ex.ch = t.dev.ch)
  BY <1>3, <1>4 DEF dev
<1> QED
  BY <1>4, <1>5, <1>6, <1>7

\* A terminal that was just set up, with the masks of the program's start: the
\* settings of the device are kept for executing.
LEMMA InitFollows ==
  ASSUME NEW t \in Terminal, NEW reset \in BOOLEAN, NEW w,
         reset \/ Fits([t EXCEPT !.t = ttyperm], t.dev, w)
  PROVE  LET u == tty_init(t, FALSE, reset)
         IN /\ u.t = ttyperm /\ u.or = t.dev /\ u.initialized
            /\ u.dev = IF reset THEN u.ex ELSE t.dev
            /\ u.ex.flags["inp"] = t.dev.flags["inp"] /\ u.ex.flags["ctl"] = t.dev.flags["ctl"]
            /\ u.mode = "EX" /\ Tables(u)
            /\ ~reset => Followed(u, w)
<1> DEFINE r == [t EXCEPT !.mode = "EX", !.initialized = FALSE, !.t = ttyperm, !.c = ttychar]
           u == tty_setup(r, FALSE, reset)
           m == [t EXCEPT !.t = ttyperm]
<1>1. /\ r \in Terminal /\ r.t = ttyperm /\ r.mode = "EX" /\ r.dev = t.dev
      /\ ~r.initialized /\ m.t = ttyperm
  BY FirstMasks DEF Terminal, Modes
<1>2. tty_init(t, FALSE, reset) = u
  BY DEF tty_init
<1> HIDE DEF r
<1>3. /\ u.t = ttyperm /\ u.or = t.dev /\ u.initialized /\ u.mode = "EX"
      /\ u.dev = (IF reset THEN u.ex ELSE t.dev)
      /\ \A k \in Kinds : /\ u.ex.flags[k] = tty_update_flag(r, t.dev.flags[k], "EX", k)
                          /\ u.ed.flags[k] = tty_update_flag(r, t.dev.flags[k], "ED", k)
      /\ ~reset => u.ex.ch = t.dev.ch
  <2>1. /\ u.t = r.t /\ u.or = r.dev /\ u.initialized /\ u.mode = r.mode
        /\ u.dev = IF reset THEN u.ex ELSE r.dev
        /\ \A k \in Kinds : /\ u.ex.flags[k] = tty_update_flag(r, r.dev.flags[k], "EX", k)
                            /\ u.ed.flags[k] = tty_update_flag(r, r.dev.flags[k], "ED", k)
        /\ ~reset => u.ex.ch = r.dev.ch
    BY <1>1, SetupSettings
  <2> HIDE DEF u
  <2> QED
    BY <1>1, <2>1
<1> HIDE DEF u
<1>4. \A f, z, k : tty_update_flag(r, f, z, k) = tty_update_flag(u, f, z, k)
  BY <1>1, <1>3 DEF tty_update_flag
<1>5. /\ ttyperm["EX"]["inp"] = [set |-> {}, clr |-> {}]
      /\ ttyperm["EX"]["ctl"] = [set |-> {}, clr |-> {}]
      /\ ttyperm["ED"]["ctl"] = [set |-> {}, clr |-> {}]
      /\ ttyperm["ED"]["lin"] = [set |-> {"isig"}, clr |-> {"icanon"}]
  BY DEF ttyperm
<1>6. /\ u.ex.flags["inp"] = t.dev.flags["inp"] /\ u.ex.flags["ctl"] = t.dev.flags["ctl"]
      /\ u.ed.flags["ctl"] = t.dev.flags["ctl"] /\ "icanon" \notin u.ed.flags["lin"]
  <2>1. \A f : /\ tty_update_flag(r, f, "EX", "inp") = f /\ tty_update_flag(r, f, "EX", "ctl") = f
               /\ tty_update_flag(r, f, "ED", "ctl") = f
               /\ "icanon" \notin tty_update_flag(r, f, "ED", "lin")
    BY <1>1, <1>5 DEF tty_update_flag
  <2> QED
    BY <1>3, <2>1 DEF Kinds
<1>7. \A k \in Kinds : tty_update_flag(u, u.ex.flags[k], "EX", k) = u.ex.flags[k]
  <2> TAKE k \in Kinds
  <2>1. tty_update_flag(u, u.ex.flags[k], "EX", k) = tty_update_flag(r, u.ex.flags[k], "EX", k)
    BY <1>4
  <2>2. u.ex.flags[k] = tty_update_flag(r, t.dev.flags[k], "EX", k)
    BY <1>3
  <2> QED
    BY <2>1, <2>2, MaskedTwice
<1>8. Tables(u)
  BY <1>3, <1>6, <1>7 DEF Tables, FixedMasks, tty__cooked_mode
<1>9. ASSUME ~reset PROVE Followed(u, w)
  <2>1. Fits(u, u.dev, w)
    BY <1>1, <1>3, <1>9, FitsStill
  <2>2. Fits(u, u.ex, w)
    BY <1>3, <1>6, <1>9, <2>1 DEF Fits
  <2> QED
    BY <2>1, <2>2 DEF Followed, Fits
<1> QED
  BY <1>2, <1>3, <1>6, <1>8, <1>9

\* The library is opened on a terminal.
LEMMA OpenedFollows ==
  ASSUME NEW d \in Setting
  PROVE  LET u == Opened(d)
         IN /\ u.t = ttyperm /\ u.initialized /\ u.mode = "EX"
            /\ Tables(u) /\ Followed(u, u.dev)
<1> DEFINE b == Blank(d)
           reset == (api = "el_gets")
           r == tty_init(b, FALSE, reset)
           e == [r EXCEPT !.dev = r.or]
<1>1. b \in Terminal /\ b.dev = d
  BY FirstMasks DEF Blank, Terminal, Modes
<1>2. \A t, s : t.t = ttyperm => Fits(t, s, s)
  <2>1. /\ ttyperm["EX"]["inp"] = [set |-> {}, clr |-> {}]
        /\ ttyperm["EX"]["ctl"] = [set |-> {}, clr |-> {}]
    BY DEF ttyperm
  <2> QED
    BY <2>1 DEF Fits, tty_update_flag
<1>3. Fits([b EXCEPT !.t = ttyperm], d, d)
  <2>1. [b EXCEPT !.t = ttyperm].t = ttyperm
    BY <1>1 DEF Terminal
  <2> QED
    BY <1>2, <2>1
<1> HIDE DEF b
<1>4. WellSet(r) /\ reset \in BOOLEAN
  BY <1>1, InitKeeps
<1>5. /\ r.t = ttyperm /\ r.or = d /\ r.initialized /\ r.dev = IF reset THEN r.ex ELSE d
      /\ r.mode = "EX" /\ Tables(r)
      /\ ~reset => Followed(r, d)
  BY <1>1, <1>3, <1>4, InitFollows
<1> HIDE DEF r
<1>6. Fits(r, r.dev, r.dev)
  BY <1>2, <1>5
<1>7. ASSUME reset PROVE Followed(r, r.dev)
  BY <1>5, <1>6, <1>7 DEF Followed, Fits
<1>8. ASSUME ~reset PROVE /\ e.t = ttyperm /\ e.initialized /\ e.mode = "EX" /\ Tables(e) /\ Followed(e, e.dev)
  <2>1. Fits(r, d, d)
    BY <1>2, <1>5
  <2>2. ~tty__cooked_mode(d) => Fits(r, r.ex, d)
    BY <1>5, <1>8 DEF Followed
  <2> QED
    BY <1>4, <1>5, <1>8, <2>1, <2>2, DeviceFollows
<1>9. Opened(d) = IF reset THEN r ELSE tty_end(r, FALSE)
  BY DEF Opened, r, b
<1> QED
  BY <1>5, <1>7, <1>8, <1>9 DEF tty_end

\* readline() puts back what it found.
LEMMA EndFollows ==
  ASSUME NEW t, WellSet(t), Tables(t), NEW w, Followed(t, w), NEW disabled \in BOOLEAN,
         ~disabled /\ t.initialized => tty__cooked_mode(t.or) /\ Fits(t, t.or, w)
  PROVE  LET u == tty_end(t, disabled)
         IN u.t = t.t /\ u.initialized = t.initialized /\ Tables(u) /\ Followed(u, w)
<1>1. CASE ~disabled /\ t.initialized
  <2>1. tty_end(t, disabled) = [t EXCEPT !.dev = t.or]
    BY <1>1 DEF tty_end
  <2>2. tty__cooked_mode(t.or) /\ Fits(t, t.or, w)
    BY <1>1
  <2> DEFINE d == t.or
             u == [t EXCEPT !.dev = d]
  <2>3. tty__cooked_mode(d) /\ Fits(t, d, w)
    BY <2>2
  <2> HIDE DEF d
  <2>4. u.t = t.t /\ u.initialized = t.initialized /\ Tables(u) /\ Followed(u, w)
    BY <2>3, DeviceFollows
  <2> QED
    BY <2>1, <2>4 DEF d
<1>2. CASE ~(~disabled /\ t.initialized)
  BY <1>2 DEF tty_end
<1> QED
  BY <1>1, <1>2

\* The user sets the device in cooked mode.
LEMMA UserFollows ==
  ASSUME NEW t, WellSet(t), Tables(t), t.mode = "EX", NEW d, tty__cooked_mode(d), NEW w, Fits(t, d, w),
         t.initialized => \A x \in Chars : w.ch[x] \in {"any", t.ex.ch[x]} \/ t.ex.ch[x] = t.c["EX"][x]
  PROVE  LET u == [t EXCEPT !.dev = d]
         IN /\ u.t = t.t /\ u.or = t.or /\ u.initialized = t.initialized /\ u.dev = d /\ u.mode = t.mode
            /\ Tables(u) /\ Followed(u, w)
<1> DEFINE u == [t EXCEPT !.dev = d]
<1>1. /\ u.dev = d /\ u.or = t.or /\ u.ts = t.ts /\ u.ed = t.ed /\ u.ex = t.ex
      /\ u.t = t.t /\ u.c = t.c /\ u.mode = t.mode /\ u.initialized = t.initialized
  BY DEF WellSet, Terminal
<1> HIDE DEF u
<1>2. Tables(u)
  BY <1>1 DEF Tables, FixedMasks, tty_update_flag
<1>3. Fits(u, u.dev, w)
  BY <1>1, FitsStill
<1>4. Followed(u, w)
  BY <1>1, <1>3 DEF Followed
<1> QED
  BY <1>1, <1>2, <1>4 DEF u

\* The end of the setty command, where it leaves the settings for executing.
LEMMA ApplySettings ==
  ASSUME NEW t, WellSet(t), NEW z \in Modes
  PROVE  LET td == tty_setup_flags(t, t[Settings[z]], z)
             u == SttyApply(t, z)
         IN /\ \A k \in Kinds : td.flags[k] = tty_update_flag(t, t[Settings[z]].flags[k], z, k)
            /\ td.ch = t[Settings[z]].ch
            /\ u.t = t.t /\ u.or = t.or /\ u.c = t.c /\ u.mode = t.mode /\ u.initialized = t.initialized
            /\ u.ex = IF z = "EX" THEN td ELSE t.ex
            /\ u.ed = IF z = "ED" THEN td ELSE t.ed
            /\ u.ts = IF z = "QU" THEN td ELSE t.ts
            /\ u.dev = IF t.mode = z THEN td ELSE t.dev
<1> DEFINE old == t[Settings[z]]
           td == tty_setup_flags(t, old, z)
           s == [t EXCEPT ![Settings[z]] = td]
           u == [s EXCEPT !.dev = td]
<1>1. old \in Setting
  <2>1. t.ex \in Setting /\ tty__cooked_mode(t.ex)
    BY TerminalParts DEF WellSet
  <2> QED
    BY <2>1, SettingsOfMode
<1> HIDE DEF old
<1>2. td.ch = old.ch /\ \A k \in Kinds : td.flags[k] = tty_update_flag(t, old.flags[k], z, k)
  BY <1>1 DEF tty_setup_flags, Setting
<1> HIDE DEF td
<1>3. /\ s.t = t.t /\ s.or = t.or /\ s.c = t.c /\ s.mode = t.mode /\ s.initialized = t.initialized /\ s.dev = t.dev
      /\ s.ex = IF z = "EX" THEN td ELSE t.ex
      /\ s.ed = IF z = "ED" THEN td ELSE t.ed
      /\ s.ts = IF z = "QU" THEN td ELSE t.ts
  <2>1. CASE z = "EX"
    <3>1. s = [t EXCEPT !.ex = td]
      BY <2>1 DEF Settings
    <3> QED
      BY <2>1, <3>1 DEF WellSet, Terminal
  <2>2. CASE z = "ED"
    <3>1. s = [t EXCEPT !.ed = td]
      BY <2>2 DEF Settings
    <3> QED
      BY <2>2, <3>1 DEF WellSet, Terminal
  <2>3. CASE z = "QU"
    <3>1. s = [t EXCEPT !.ts = td]
      BY <2>3 DEF Settings
    <3> QED
      BY <2>3, <3>1 DEF WellSet, Terminal
  <2> QED
    BY <2>1, <2>2, <2>3 DEF Modes
<1> HIDE DEF s
<1>4. /\ u.t = s.t /\ u.or = s.or /\ u.c = s.c /\ u.mode = s.mode /\ u.initialized = s.initialized /\ u.dev = td
      /\ u.ex = s.ex /\ u.ed = s.ed /\ u.ts = s.ts
  <2>1. WellSet(s)
    <3>1. td \in Setting /\ (z = "EX" => tty__cooked_mode(td))
      BY <1>1, SetupFlags DEF WellSet, td
    <3> QED
      BY <3>1, SettingsOfMode DEF s
  <2> QED
    BY <2>1 DEF WellSet, Terminal
<1> HIDE DEF u
<1>5. SttyApply(t, z) = IF t.mode = z THEN u ELSE s
  BY <1>3 DEF SttyApply, u, s, td, old
<1>6. CASE t.mode = z
  BY <1>2, <1>3, <1>4, <1>5, <1>6 DEF td, old
<1>7. CASE t.mode # z
  BY <1>2, <1>3, <1>5, <1>7 DEF td, old
<1> QED
  BY <1>6, <1>7

LEMMA ApplyOther ==
  ASSUME NEW t, WellSet(t), Tables(t), NEW w, Followed(t, w), NEW z \in {"ED", "QU"}
  PROVE  LET u == SttyApply(t, z)
         IN /\ u.t = t.t /\ u.or = t.or /\ u.initialized = t.initialized /\ u.mode = t.mode
            /\ Tables(u) /\ Followed(u, w)
            /\ tty__cooked_mode(u.dev) => u.dev = t.dev
<1> DEFINE td == tty_setup_flags(t, t[Settings[z]], z)
           u == SttyApply(t, z)
<1>1. /\ \A k \in Kinds : td.flags[k] = tty_update_flag(t, t[Settings[z]].flags[k], z, k)
      /\ u.t = t.t /\ u.or = t.or /\ u.c = t.c /\ u.mode = t.mode /\ u.initialized = t.initialized
      /\ u.ex = t.ex
      /\ u.ed = (IF z = "ED" THEN td ELSE t.ed)
      /\ u.ts = (IF z = "QU" THEN td ELSE t.ts)
      /\ u.dev = (IF t.mode = z THEN td ELSE t.dev)
  BY ApplySettings DEF Modes
<1>2. t[Settings[z]] = IF z = "ED" THEN t.ed ELSE t.ts
  BY DEF Settings
<1> HIDE DEF td, u
<1>3. /\ z = "ED" => td.flags["ctl"] = t.ed.flags["ctl"]
      /\ z = "ED" \/ t.mode = "QU" => "icanon" \notin td.flags["lin"]
  <2>1. z = "ED" => td.flags["ctl"] = t.ed.flags["ctl"] /\ "icanon" \notin td.flags["lin"]
    BY <1>1, <1>2, MaskedFlags DEF Tables, Kinds, Modes
  <2>2. z = "QU" /\ t.mode = "QU" => "icanon" \notin td.flags["lin"]
    <3>1. z = "QU" => td.flags["lin"] = tty_update_flag(t, t.ts.flags["lin"], "QU", "lin")
      BY <1>1, <1>2 DEF Kinds
    <3> QED
      BY <3>1, MaskedFlags DEF Tables, Modes, tty__cooked_mode
  <2> QED
    BY <2>1, <2>2
<1>4. Tables(u)
  BY <1>1, <1>3 DEF Tables, FixedMasks, tty_update_flag, tty__cooked_mode
<1>5. tty__cooked_mode(u.dev) => u.dev = t.dev
  BY <1>1, <1>3 DEF tty__cooked_mode
<1>6. Followed(u, w)
  <2>1. tty__cooked_mode(u.dev) => Fits(u, u.dev, w)
    BY <1>1, <1>5, FitsStill DEF Followed
  <2>2. u.mode # "EX" \/ ~tty__cooked_mode(u.dev) => Fits(u, u.ex, w)
    <3>1. t.mode # "EX" \/ ~tty__cooked_mode(t.dev) => Fits(u, u.ex, w)
      BY <1>1, FitsStill DEF Followed
    <3> QED
      BY <1>1, <3>1
  <2> QED
    BY <1>1, <2>1, <2>2 DEF Followed
<1> QED
  BY <1>1, <1>4, <1>5, <1>6 DEF u

LEMMA ApplyExecuting ==
  ASSUME NEW t, WellSet(t), FixedMasks(t), ~tty__cooked_mode(t.ed), t.ed.flags["ctl"] = t.ex.flags["ctl"],
         t.mode = "QU" => ~tty__cooked_mode(t.ts),
         NEW w, Fits(t, t.ex, w), tty__cooked_mode(t.dev) => t.mode = "EX"
  PROVE  LET u == SttyApply(t, "EX")
         IN /\ u.t = t.t /\ u.or = t.or /\ u.initialized = t.initialized /\ u.mode = t.mode
            /\ Tables(u) /\ Followed(u, w)
            /\ tty__cooked_mode(u.dev) => u.mode = "EX"
<1> DEFINE td == tty_setup_flags(t, t[Settings["EX"]], "EX")
           u == SttyApply(t, "EX")
<1>1. /\ \A k \in Kinds : td.flags[k] = tty_update_flag(t, t[Settings["EX"]].flags[k], "EX", k)
      /\ td.ch = t[Settings["EX"]].ch
      /\ u.t = t.t /\ u.or = t.or /\ u.c = t.c /\ u.mode = t.mode /\ u.initialized = t.initialized
      /\ u.ex = td /\ u.ed = t.ed /\ u.ts = t.ts
      /\ u.dev = (IF t.mode = "EX" THEN td ELSE t.dev)
  BY ApplySettings DEF Modes
<1>2. t[Settings["EX"]] = t.ex
  BY DEF Settings
<1> HIDE DEF td, u
<1>3. \A k \in Kinds : tty_update_flag(u, td.flags[k], "EX", k) = td.flags[k]
  <2> TAKE k \in Kinds
  <2>1. td.flags[k] = tty_update_flag(t, t.ex.flags[k], "EX", k)
    BY <1>1, <1>2
  <2>2. tty_update_flag(u, td.flags[k], "EX", k) = tty_update_flag(t, td.flags[k], "EX", k)
    BY <1>1 DEF tty_update_flag
  <2> QED
    BY <2>1, <2>2, MaskedTwice
<1>4. td.flags["ctl"] = t.ex.flags["ctl"]
  BY <1>1, <1>2, MaskedFlags DEF Kinds, Modes
<1>5. Tables(u)
  BY <1>1, <1>3, <1>4 DEF Tables, FixedMasks
<1>6. Fits(u, td, w)
  BY <1>1, <1>2, <1>3 DEF Fits, Kinds
<1>7. Followed(u, w)
  BY <1>1, <1>6 DEF Followed, Fits
<1> QED
  BY <1>1, <1>5, <1>7 DEF u

\* A flag is forced, in a mask of the input flags.
LEMMA SttyFlagSettings ==
  ASSUME NEW t, WellSet(t), FixedMasks(t), NEW z \in Modes, NEW sign
  PROVE  LET u == SttyFlag(t, z, "inp", "ixon", sign)
         IN /\ u.dev = t.dev /\ u.or = t.or /\ u.ts = t.ts /\ u.ed = t.ed /\ u.ex = t.ex
            /\ u.c = t.c /\ u.mode = t.mode /\ u.initialized = t.initialized
            /\ FixedMasks(u) /\ (z # "EX" => u.t["EX"] = t.t["EX"])
<1> DEFINE m == t.t[z]["inp"]
           n == [set |-> IF sign = "+" THEN m.set \cup {"ixon"} ELSE m.set \ {"ixon"},
                 clr |-> IF sign = "-" THEN m.clr \cup {"ixon"} ELSE m.clr \ {"ixon"}]
           x == [t.t[z] EXCEPT !["inp"] = n]
           masks == [t.t EXCEPT ![z] = x]
           u == [t EXCEPT !.t = masks]
<1>1. t \in Terminal /\ t.t \in [EX : Masks, ED : Masks, QU : Masks] /\ t.t[z] \in Masks
  BY DEF WellSet, Terminal, Modes
<1> HIDE DEF n, m
<1>2. \A k \in {"ctl", "lin", "char"} : x[k] = t.t[z][k]
  BY <1>1 DEF Masks
<1> HIDE DEF x
<1>3. masks[z] = x /\ \A y \in Modes \ {z} : masks[y] = t.t[y]
  <2>1. CASE z = "EX"
    BY <1>1, <2>1 DEF Modes
  <2>2. CASE z = "ED"
    BY <1>1, <2>2 DEF Modes
  <2>3. CASE z = "QU"
    BY <1>1, <2>3 DEF Modes
  <2> QED
    BY <2>1, <2>2, <2>3 DEF Modes
<1> HIDE DEF masks
<1>4. /\ u.dev = t.dev /\ u.or = t.or /\ u.ts = t.ts /\ u.ed = t.ed /\ u.ex = t.ex
      /\ u.c = t.c /\ u.mode = t.mode /\ u.initialized = t.initialized /\ u.t = masks
  BY <1>1 DEF Terminal
<1> HIDE DEF u
<1>5. \A y \in Modes, k \in {"ctl", "lin", "char"} : u.t[y][k] = ttyperm[y][k]
  <2> TAKE y \in Modes, k \in {"ctl", "lin", "char"}
  <2>1. masks[y][k] = t.t[y][k]
    BY <1>2, <1>3
  <2> QED
    BY <1>4, <2>1 DEF FixedMasks
<1>6. z # "EX" => u.t["EX"] = t.t["EX"]
  BY <1>3, <1>4 DEF Modes
<1>7. SttyFlag(t, z, "inp", "ixon", sign) = u
  BY DEF SttyFlag, n, m, u, masks, x
<1> QED
  BY <1>4, <1>5, <1>6, <1>7 DEF FixedMasks

\* A character is set, in the settings of a mode.
LEMMA SttyCharSettings ==
  ASSUME NEW t, WellSet(t), NEW z \in Modes, NEW x \in Chars, NEW v
  PROVE  LET u == SttyChar(t, z, x, v)
         IN /\ u.dev = t.dev /\ u.or = t.or /\ u.t = t.t
            /\ u.c = t.c /\ u.mode = t.mode /\ u.initialized = t.initialized
            /\ u.ts.flags = t.ts.flags /\ u.ed.flags = t.ed.flags /\ u.ex.flags = t.ex.flags
            /\ u.ex.ch = IF z = "EX" THEN [t.ex.ch EXCEPT ![x] = v] ELSE t.ex.ch
            /\ z # "EX" => u.ex = t.ex
<1> DEFINE new(td) == [td EXCEPT !.ch[x] = v]
<1>1. \A td \in Setting : new(td).flags = td.flags /\ new(td).ch = [td.ch EXCEPT ![x] = v]
  BY DEF Setting
<1>2. t.ts \in Setting /\ t.ed \in Setting /\ t.ex \in Setting
  BY TerminalParts DEF WellSet
<1>3. SttyChar(t, z, x, v) = [t EXCEPT ![Settings[z]] = new(t[Settings[z]])]
  BY DEF SttyChar
<1> HIDE DEF new
<1>4. CASE z = "EX"
  <2>1. SttyChar(t, z, x, v) = [t EXCEPT !.ex = new(t.ex)]
    BY <1>3, <1>4 DEF Settings
  <2> QED
    BY <1>1, <1>2, <1>4, <2>1 DEF WellSet, Terminal
<1>5. CASE z = "ED"
  <2>1. SttyChar(t, z, x, v) = [t EXCEPT !.ed = new(t.ed)]
    BY <1>3, <1>5 DEF Settings
  <2> QED
    BY <1>1, <1>2, <1>5, <2>1 DEF WellSet, Terminal
<1>6. CASE z = "QU"
  <2>1. SttyChar(t, z, x, v) = [t EXCEPT !.ts = new(t.ts)]
    BY <1>3, <1>6 DEF Settings
  <2> QED
    BY <1>1, <1>2, <1>6, <2>1 DEF WellSet, Terminal
<1> QED
  BY <1>4, <1>5, <1>6 DEF Modes

\* Where the device has what the settings for executing say, or is not in cooked
\* mode, these hold what the user changed.
LEMMA ExecutingHeld ==
  ASSUME NEW t, Tables(t), NEW w, Followed(t, w),
         t.mode = "EX" => t.dev = t.ex, tty__cooked_mode(t.dev) => t.mode = "EX"
  PROVE  Fits(t, t.ex, w) /\ \A k \in {"inp", "ctl"} : t.ex.flags[k] = w.flags[k]
<1>1. Fits(t, t.ex, w)
  BY DEF Followed
<1> QED
  BY <1>1 DEF Fits, Tables, Kinds

LEMMA SttyFlagFollows ==
  ASSUME NEW t, WellSet(t), Tables(t), NEW w \in Wanted, Followed(t, w), NEW z \in Modes, NEW sign,
         z = "EX" => (t.mode = "EX" => t.dev = t.ex), tty__cooked_mode(t.dev) => t.mode = "EX"
  PROVE  LET u == SttyApply(SttyFlag(t, z, "inp", "ixon", sign), z)
             v == IF z = "EX" THEN [w EXCEPT !.flags["inp"] = tty_update_flag(u, @, z, "inp")] ELSE w
         IN /\ v \in Wanted
            /\ u.initialized = t.initialized /\ Tables(u) /\ Followed(u, v)
            /\ tty__cooked_mode(u.dev) => u.mode = "EX"
<1> DEFINE s == SttyFlag(t, z, "inp", "ixon", sign)
           u == SttyApply(s, z)
           flags == [w.flags EXCEPT !["inp"] = tty_update_flag(u, @, "EX", "inp")]
           v == [w EXCEPT !.flags = flags]
<1>1. /\ s.dev = t.dev /\ s.or = t.or /\ s.ts = t.ts /\ s.ed = t.ed /\ s.ex = t.ex
      /\ s.c = t.c /\ s.mode = t.mode /\ s.initialized = t.initialized
      /\ FixedMasks(s) /\ (z # "EX" => s.t["EX"] = t.t["EX"])
  BY SttyFlagSettings DEF Tables
<1>2. WellSet(s)
  BY SttyFlagKeeps
<1> HIDE DEF s
<1>3. CASE z = "EX"
  <2>1. Fits(t, t.ex, w) /\ \A k \in {"inp", "ctl"} : t.ex.flags[k] = w.flags[k]
    BY <1>3, ExecutingHeld
  <2>2. /\ WellSet(u) /\ u.t = s.t
    BY <1>2, <1>3, SttyApplyKeeps, ApplySettings
  <2> HIDE DEF u
  <2>3. w.flags \in [Kinds -> SUBSET Flag] /\ w.ch \in [Chars -> Value \cup {"any"}]
    BY DEF Wanted
  <2>4. tty_update_flag(u, w.flags["inp"], "EX", "inp") \in SUBSET Flag
    BY <2>2, <2>3, UpdatedFlags DEF WellSet, Kinds, Modes
  <2>5. /\ flags \in [Kinds -> SUBSET Flag]
        /\ flags["inp"] = tty_update_flag(u, w.flags["inp"], "EX", "inp") /\ flags["ctl"] = w.flags["ctl"]
    BY <2>3, <2>4 DEF Kinds
  <2> HIDE DEF flags
  <2>6. v \in Wanted /\ v.flags = flags /\ v.ch = w.ch
    BY <2>5 DEF Wanted
  <2> HIDE DEF v
  <2>7. Fits(s, s.ex, v)
    <3>1. tty_update_flag(s, t.ex.flags["inp"], "EX", "inp") = flags["inp"]
      BY <2>1, <2>2, <2>5 DEF tty_update_flag
    <3>2. tty_update_flag(s, t.ex.flags["ctl"], "EX", "ctl") = flags["ctl"]
      BY <1>1, <2>1, <2>5, MaskedFlags DEF Modes
    <3> QED
      BY <1>1, <2>1, <2>6, <3>1, <3>2 DEF Fits
  <2>8. /\ u.initialized = t.initialized /\ Tables(u) /\ Followed(u, v)
        /\ tty__cooked_mode(u.dev) => u.mode = "EX"
    BY <1>1, <1>2, <1>3, <2>7, ApplyExecuting DEF Tables, u
  <2> QED
    BY <1>3, <2>6, <2>8 DEF u, v, flags, s
<1>4. CASE z # "EX"
  <2>1. Tables(s)
    BY <1>1, <1>4 DEF Tables, tty_update_flag
  <2>2. Followed(s, w)
    BY <1>1, <1>4, FitsStill DEF Followed
  <2>3. /\ u.initialized = t.initialized /\ Tables(u) /\ Followed(u, w)
        /\ tty__cooked_mode(u.dev) => u.mode = "EX"
    BY <1>1, <1>2, <1>4, <2>1, <2>2, ApplyOther DEF Modes
  <2> QED
    BY <1>4, <2>3 DEF s
<1> QED
  BY <1>3, <1>4

LEMMA SttyCharFollows ==
  ASSUME NEW t, WellSet(t), Tables(t), NEW w \in Wanted, Followed(t, w), NEW z \in Modes,
         NEW x \in Chars, NEW value \in UserChars,
         z = "EX" => (t.mode = "EX" => t.dev = t.ex), tty__cooked_mode(t.dev) => t.mode = "EX"
  PROVE  LET u == SttyApply(SttyChar(t, z, x, value), z)
             v == IF z = "EX" THEN [w EXCEPT !.ch[x] = value] ELSE w
         IN /\ v \in Wanted
            /\ u.initialized = t.initialized /\ Tables(u) /\ Followed(u, v)
            /\ tty__cooked_mode(u.dev) => u.mode = "EX"
<1> DEFINE s == SttyChar(t, z, x, value)
           u == SttyApply(s, z)
           ch == [w.ch EXCEPT ![x] = value]
           v == [w EXCEPT !.ch = ch]
<1>1. /\ s.dev = t.dev /\ s.or = t.or /\ s.t = t.t
      /\ s.c = t.c /\ s.mode = t.mode /\ s.initialized = t.initialized
      /\ s.ts.flags = t.ts.flags /\ s.ed.flags = t.ed.flags /\ s.ex.flags = t.ex.flags
      /\ s.ex.ch = (IF z = "EX" THEN [t.ex.ch EXCEPT ![x] = value] ELSE t.ex.ch)
      /\ z # "EX" => s.ex = t.ex
  BY SttyCharSettings
<1>2. WellSet(s)
  BY SttyCharKeeps
<1> HIDE DEF s
<1>3. Tables(s)
  BY <1>1 DEF Tables, FixedMasks, tty_update_flag, tty__cooked_mode
<1>4. CASE z = "EX"
  <2>1. Fits(t, t.ex, w)
    BY <1>4, ExecutingHeld
  <2>2. t.ex.ch \in [Chars -> Value] /\ w.ch \in [Chars -> Value \cup {"any"}]
    BY TerminalParts DEF WellSet, Setting, Wanted
  <2>3. /\ ch \in [Chars -> Value \cup {"any"}] /\ ch[x] = value
        /\ \A y \in Chars \ {x} : ch[y] = w.ch[y]
    BY <2>2 DEF Value
  <2> HIDE DEF ch
  <2>4. v \in Wanted /\ v.flags = w.flags /\ v.ch = ch
    BY <2>3 DEF Wanted
  <2> HIDE DEF v
  <2>5. Fits(s, s.ex, v)
    <3>1. \A k \in {"inp", "ctl"} : tty_update_flag(s, s.ex.flags[k], "EX", k) = v.flags[k]
      BY <1>1, <2>1, <2>4 DEF Fits, tty_update_flag
    <3>2. \A y \in Chars : v.ch[y] \in {"any", s.ex.ch[y]}
      BY <1>1, <1>4, <2>1, <2>2, <2>3, <2>4 DEF Fits
    <3> QED
      BY <3>1, <3>2 DEF Fits
  <2>6. /\ u.initialized = t.initialized /\ Tables(u) /\ Followed(u, v)
        /\ tty__cooked_mode(u.dev) => u.mode = "EX"
    BY <1>1, <1>2, <1>3, <1>4, <2>5, ApplyExecuting DEF Tables
  <2> QED
    BY <1>4, <2>4, <2>6 DEF s, v, ch
<1>5. CASE z # "EX"
  <2>1. Followed(s, w)
    BY <1>1, <1>5, FitsStill DEF Followed
  <2>2. /\ u.initialized = t.initialized /\ Tables(u) /\ Followed(u, w)
        /\ tty__cooked_mode(u.dev) => u.mode = "EX"
    BY <1>1, <1>2, <1>3, <1>5, <2>1, ApplyOther DEF Modes
  <2> QED
    BY <1>5, <2>2 DEF s
<1> QED
  BY <1>4, <1>5

LEMMA SettingIsWanted ==
  ASSUME NEW d \in Setting
  PROVE  d \in Wanted
BY DEF Setting, Wanted

\* The user changes a flag, or a character.
LEMMA WantedByUser ==
  ASSUME WellSet(tty), wanted \in Wanted, UserChange
  PROVE  wanted' \in Wanted
<1>1. tty' \in Terminal /\ Masked(tty) /\ wanted.flags \in [Kinds -> SUBSET Flag]
      /\ wanted.ch \in [Chars -> Value \cup {"any"}]
  BY ChangedByUser DEF WellSet, Wanted
<1>2. ASSUME NEW k \in {"inp", "ctl"},
             wanted' = [wanted EXCEPT !.flags[k] = tty_update_flag(tty, tty'.dev.flags[k], "EX", k)]
      PROVE  wanted' \in Wanted
  <2> DEFINE f == tty_update_flag(tty, tty'.dev.flags[k], "EX", k)
  <2>1. tty'.dev.flags[k] \in SUBSET Flag
    BY <1>1 DEF Terminal, Setting, Kinds
  <2>2. f \in SUBSET Flag
    BY <1>1, <2>1, UpdatedFlags DEF Modes, Kinds
  <2> HIDE DEF f
  <2>3. [wanted EXCEPT !.flags[k] = f] \in Wanted
    BY <1>1, <2>2 DEF Wanted, Kinds
  <2> QED
    BY <1>2, <2>3 DEF f
<1>3. ASSUME NEW x \in Chars, NEW v \in UserChars \cup {"off", "default"},
             wanted' = [wanted EXCEPT !.ch[x] = IF tty.ex.ch[x] = tty.c["EX"][x] THEN v ELSE "any"]
      PROVE  wanted' \in Wanted
  <2> DEFINE y == IF tty.ex.ch[x] = tty.c["EX"][x] THEN v ELSE "any"
  <2>1. y \in Value \cup {"any"}
    BY DEF Value
  <2> HIDE DEF y
  <2>2. [wanted EXCEPT !.ch[x] = y] \in Wanted
    BY <1>1, <2>1 DEF Wanted
  <2> QED
    BY <1>3, <2>2 DEF y
<1> QED
  BY <1>2, <1>3 DEF UserChange

LEMMA WantedByStty ==
  ASSUME WellSet(tty), wanted \in Wanted, NEW z \in Modes, Stty(z)
  PROVE  wanted' \in Wanted
<1>1. WellSet(tty') /\ wanted.flags \in [Kinds -> SUBSET Flag]
      /\ wanted.ch \in [Chars -> Value \cup {"any"}]
  BY ChangedByStty DEF Wanted
<1>2. ASSUME wanted' = [wanted EXCEPT !.flags["inp"] = tty_update_flag(tty', @, z, "inp")]
      PROVE  wanted' \in Wanted
  <2> DEFINE f == tty_update_flag(tty', wanted.flags["inp"], z, "inp")
  <2>1. wanted.flags["inp"] \in SUBSET Flag
    BY <1>1 DEF Kinds
  <2>2. f \in SUBSET Flag
    <3> DEFINE u == tty'
    <3>1. Masked(u)
      BY <1>1 DEF WellSet
    <3> HIDE DEF u
    <3>2. tty_update_flag(u, wanted.flags["inp"], z, "inp") \in SUBSET Flag
      BY <2>1, <3>1, UpdatedFlags DEF Kinds
    <3> QED
      BY <3>2 DEF u
  <2> HIDE DEF f
  <2>3. [wanted EXCEPT !.flags["inp"] = f] \in Wanted
    BY <1>1, <2>2 DEF Wanted, Kinds
  <2> QED
    BY <1>2, <2>3 DEF f
<1>3. ASSUME NEW x \in Chars, NEW v \in UserChars, wanted' = [wanted EXCEPT !.ch[x] = v]
      PROVE  wanted' \in Wanted
  BY <1>1, <1>3 DEF Wanted, Value
<1> QED
  BY <1>2, <1>3 DEF Stty

LEMMA WantedStep ==
  ASSUME WellSet(tty), wanted \in Wanted, Next
  PROVE  wanted' \in Wanted
<1>1. CASE UNCHANGED wanted
  BY <1>1
<1>2. ASSUME NEW z \in Modes, Stty(z) PROVE wanted' \in Wanted
  BY <1>2, WantedByStty
<1>3. CASE UserChange
  BY <1>3, WantedByUser
<1>4. CASE Reopen
  <2>1. tty'.dev \in Setting
    BY <1>4, Reopened DEF WellSet, Terminal
  <2> QED
    BY <1>4, <2>1, SettingIsWanted DEF Reopen
<1>5. ASSUME NEW s \in Signals, Arrives(s) PROVE wanted' = wanted
  BY <1>5 DEF Arrives, Keeps
<1>6. CASE \/ GetLine \/ Start \/ RawNoted \/ Prepare \/ NoEdit \/ GetChar \/ ReadKey \/ ReadFails \/ Command
  BY <1>1, <1>6 DEF GetLine, Start, RawNoted, Prepare, NoEdit, GetChar, ReadKey, ReadFails, Command, Keeps
<1>7. CASE \/ Finish \/ CookNoted \/ ClearHandlers \/ Return
           \/ SetUnbuffered \/ UnsetUnbuffered \/ UnbufferedRaw \/ CallbackReturn \/ CallbackLine
  BY <1>1, <1>7 DEF Finish, CookNoted, ClearHandlers, Return, SetUnbuffered, UnsetUnbuffered, UnbufferedRaw,
     CallbackReturn, CallbackLine, Keeps
<1>8. ASSUME NEW f \in Flags, SetFlag(f) PROVE wanted' = wanted
  BY <1>8 DEF SetFlag
<1>9. ASSUME NEW raw \in BOOLEAN, PrepTerm(raw) PROVE wanted' = wanted
  BY <1>9 DEF PrepTerm
<1>10. ASSUME NEW s \in Signals, AppSignal(s) PROVE wanted' = wanted
  BY <1>10 DEF AppSignal
<1> QED
  BY <1>1, <1>2, <1>3, <1>4, <1>5, <1>6, <1>7, <1>8, <1>9, <1>10 DEF Next

\* What excuses the settings does so for good.
LEMMA ExcuseStays ==
  ASSUME Next, "settings" \in excuses
  PROVE  "settings" \in excuses'
<1>1. ASSUME NEW s \in Signals, Arrives(s) PROVE "settings" \in excuses'
  BY <1>1 DEF Arrives, sig_handler, Unhandled
<1>2. CASE \/ GetLine \/ Start \/ RawNoted \/ Prepare \/ NoEdit \/ GetChar \/ ReadKey \/ ReadFails \/ Command
  BY <1>2 DEF GetLine, Start, RawNoted, Prepare, NoEdit, GetChar, ReadKey, ReadFails, Command
<1>3. CASE \/ Finish \/ CookNoted \/ ClearHandlers \/ Return
           \/ SetUnbuffered \/ UnsetUnbuffered \/ UnbufferedRaw \/ CallbackReturn \/ CallbackLine
  BY <1>3 DEF Finish, CookNoted, ClearHandlers, Return, SetUnbuffered, UnsetUnbuffered, UnbufferedRaw,
     CallbackReturn, CallbackLine
<1>4. ASSUME NEW f \in Flags, SetFlag(f) PROVE "settings" \in excuses'
  BY <1>4 DEF SetFlag
<1>5. ASSUME NEW raw \in BOOLEAN, PrepTerm(raw) PROVE "settings" \in excuses'
  BY <1>5 DEF PrepTerm
<1>6. ASSUME NEW z \in Modes, Stty(z) PROVE "settings" \in excuses'
  BY <1>6 DEF Stty
<1>7. CASE UserChange \/ Reopen
  BY <1>7 DEF UserChange, Reopen
<1>8. ASSUME NEW s \in Signals, AppSignal(s) PROVE "settings" \in excuses'
  BY <1>8 DEF AppSignal
<1> QED
  BY <1>1, <1>2, <1>3, <1>4, <1>5, <1>6, <1>7, <1>8 DEF Next

-------------------------------------------------------------------------------
(* The user's settings, step by step.                                      *)

\* readline() opens the terminal while editing is disabled: only the tables of
\* the program's start come back.
LEMMA InitDisabledFollows ==
  ASSUME NEW t, WellSet(t), Tables(t), NEW w, Followed(t, w), tty__cooked_mode(t.dev),
         t.t["EX"]["inp"] = ttyperm["EX"]["inp"]
  PROVE  LET u == tty_init(t, TRUE, FALSE)
         IN /\ u.t = ttyperm /\ ~u.initialized /\ u.mode = "EX" /\ u.dev = t.dev
            /\ Tables(u) /\ Followed(u, w)
<1> DEFINE u == [t EXCEPT !.mode = "EX", !.initialized = FALSE, !.t = ttyperm, !.c = ttychar]
<1>1. /\ u.dev = t.dev /\ u.or = t.or /\ u.ts = t.ts /\ u.ed = t.ed /\ u.ex = t.ex
      /\ u.t = ttyperm /\ u.mode = "EX" /\ u.initialized = FALSE
  BY DEF WellSet, Terminal
<1>2. tty_init(t, TRUE, FALSE) = u
  BY DEF tty_init, tty_setup
<1> HIDE DEF u
<1>3. \A k \in Kinds : u.t["EX"][k] = t.t["EX"][k]
  BY <1>1 DEF Kinds, Tables, FixedMasks, Modes
<1>4. Tables(u)
  BY <1>1, <1>3 DEF Tables, FixedMasks, tty_update_flag
<1>5. Fits(u, u.dev, w)
  <2>1. Fits(t, t.dev, w)
    BY DEF Followed
  <2> QED
    BY <1>1, <1>3, <2>1 DEF Fits, tty_update_flag, Kinds
<1>6. Followed(u, w)
  BY <1>1, <1>5 DEF Followed
<1> QED
  BY <1>1, <1>2, <1>4, <1>6

\* Opening, over a step that leaves the masks and what was found at the start.
LEMMA OpeningKept ==
  ASSUME Opening, tty'.t = tty.t, tty'.or = tty.or, tty'.initialized = tty.initialized,
         wanted' = wanted, api' = api,
         api = "readline" /\ phase' # "out" => phase # "out",
         api # "readline" /\ tty__cooked_mode(tty'.dev) /\ phase' # "cookSet" => tty'.mode = "EX",
         api = "readline" /\ ~tty.initialized =>
           phase' = "out" \/ (Disabled' /\ phase' \in {"start", "prep", "noedit", "ret"})
  PROVE  Opening'
<1>1. Fits(tty, tty.or, wanted) => Fits(tty, tty.or, wanted)'
  BY DEF Fits, tty_update_flag
<1> QED
  BY <1>1 DEF Opening, DevCooked

LEMMA SettingsStep ==
  ASSUME WellSet(tty), PcInv, SettingsInv, Next, "settings" \notin excuses'
  PROVE  Tables(tty') /\ Followed(tty', wanted') /\ Opening'
<1> DEFINE Goal == Tables(tty') /\ Followed(tty', wanted') /\ Opening'
<1>0. /\ Tables(tty) /\ Followed(tty, wanted) /\ Opening /\ wanted \in Wanted
      /\ Disabled \in BOOLEAN /\ tty.initialized \in BOOLEAN
  BY ExcuseStays, TerminalParts DEF SettingsInv, WellSet, Disabled
<1> USE DEF Go, Keeps, pcVars
<1>1. ASSUME NEW s \in Signals, Arrives(s) PROVE Goal
  <2>0. UNCHANGED <<phase, after, el_flags, api, wanted>>
    BY <1>1 DEF Arrives
  <2>1. ASSUME tty'.t = tty.t, tty'.or = tty.or, tty'.initialized = tty.initialized,
               Tables(tty'), Followed(tty', wanted),
               tty' = tty \/ tty'.mode = "EX" \/ ~tty__cooked_mode(tty'.dev)
        PROVE  Goal
    <3>1. api # "readline" /\ tty__cooked_mode(tty'.dev) /\ phase' # "cookSet" => tty'.mode = "EX"
      BY <1>0, <2>0, <2>1 DEF Opening, DevCooked
    <3>2. api = "readline" /\ ~tty.initialized =>
            phase' = "out" \/ (Disabled' /\ phase' \in {"start", "prep", "noedit", "ret"})
      BY <1>0, <2>0 DEF Opening, Disabled
    <3>3. Opening'
      BY <1>0, <2>0, <2>1, <3>1, <3>2, OpeningKept
    <3> QED
      BY <2>0, <2>1, <3>3
  <2>2. CASE tty' = tty
    BY <1>0, <2>1, <2>2
  <2>3. CASE tty' = tty_cookedmode(tty, Disabled)
    BY <1>0, <2>1, <2>3, CookedmodeFollows
  <2>4. CASE sig_handler(s) /\ s = "CONT" /\ tty' # tty
    <3>1. tty' = tty_rawmode(tty, Disabled)
      BY <2>4 DEF sig_handler
    <3>2. ~Disabled
      <4>1. tty_rawmode(tty, Disabled) = tty \/ ~Disabled
        BY <1>0, RawmodeKeeps
      <4> QED
        BY <2>4, <3>1, <4>1
    <3>3. phase # "out"
      BY <2>4, <3>2 DEF sig_handler
    <3>4. tty.initialized
      BY <1>0, <3>2, <3>3 DEF Opening
    <3> QED
      BY <1>0, <2>1, <3>1, <3>4, RawmodeFollows
  <2> QED
    BY <1>1, <2>2, <2>3, <2>4 DEF Arrives, sig_handler, Unhandled
<1>2. CASE GetLine
  <2>0. phase = "out" /\ phase' = "start" /\ UNCHANGED <<el_flags, api, wanted>>
    BY <1>2 DEF GetLine
  <2>1. CASE api # "readline"
    <3>1. tty' = tty
      BY <1>2, <2>1 DEF GetLine
    <3>2. Opening'
      BY <1>0, <2>0, <2>1, <3>1, OpeningKept DEF Opening, DevCooked
    <3> QED
      BY <1>0, <2>0, <3>1, <3>2
  <2>2. CASE api = "readline" /\ ~Disabled
    <3>1. tty' = tty_init(tty, FALSE, FALSE) /\ tty__cooked_mode(tty.dev)
      <4>1. tty' = tty_init(tty, Disabled, FALSE) /\ tty__cooked_mode(tty.dev)
        BY <1>2, <2>2 DEF GetLine, DevCooked
      <4>2. Disabled = FALSE
        BY <1>0, <2>2
      <4> QED
        BY <4>1, <4>2
    <3> DEFINE m == [tty EXCEPT !.t = ttyperm]
    <3>2. Fits(m, tty.dev, wanted)
      <4>1. m.t = ttyperm
        BY DEF WellSet, Terminal
      <4>2. \A k \in {"inp", "ctl"} : m.t["EX"][k] = tty.t["EX"][k]
        BY <1>0, <2>2, <4>1 DEF Opening, Tables, FixedMasks, Modes
      <4>3. Fits(tty, tty.dev, wanted)
        BY <1>0, <3>1 DEF Followed
      <4> HIDE DEF m
      <4> QED
        BY <4>2, <4>3 DEF Fits, tty_update_flag
    <3>3. /\ tty'.t = ttyperm /\ tty'.or = tty.dev /\ tty'.initialized
          /\ tty'.dev = tty.dev
          /\ Tables(tty') /\ Followed(tty', wanted)
      BY <3>1, <3>2, InitFollows DEF WellSet
    <3>4. Fits(tty', tty'.or, wanted)
      BY <3>1, <3>3 DEF Followed
    <3>5. Opening'
      BY <2>0, <2>2, <3>1, <3>3, <3>4 DEF Opening
    <3> QED
      BY <2>0, <3>3, <3>5
  <2>3. CASE api = "readline" /\ Disabled
    <3>1. tty' = tty_init(tty, TRUE, FALSE) /\ tty__cooked_mode(tty.dev)
      <4>1. tty' = tty_init(tty, Disabled, FALSE) /\ tty__cooked_mode(tty.dev)
        BY <1>2, <2>3 DEF GetLine, DevCooked
      <4>2. Disabled = TRUE
        BY <1>0, <2>3
      <4> QED
        BY <4>1, <4>2
    <3>2. /\ tty'.t = ttyperm /\ ~tty'.initialized /\ Tables(tty') /\ Followed(tty', wanted)
      BY <1>0, <2>3, <3>1, InitDisabledFollows DEF Opening
    <3>3. Opening'
      BY <2>0, <2>3, <3>2 DEF Opening, Disabled
    <3> QED
      BY <2>0, <3>2, <3>3
  <2> QED
    BY <2>1, <2>2, <2>3
<1>3. CASE Start \/ GetChar \/ UnbufferedRaw
  <2>0. /\ phase \in {"start", "wgetc", "uraw"} /\ phase' # "cookSet"
        /\ UNCHANGED <<el_flags, api, wanted>>
    BY <1>3 DEF Start, GetChar, UnbufferedRaw, RawStep, Over, PcInv
  <2>1. CASE UNCHANGED tty
    <3>1. ~tty.initialized /\ api = "readline" => Start /\ Disabled /\ phase' = "prep"
      BY <1>0, <1>3, <2>0, <2>1 DEF Opening, Start, GetChar, UnbufferedRaw, RawStep, RawNeeded
    <3>2. Opening'
      BY <1>0, <2>0, <2>1, <3>1, OpeningKept DEF Opening, DevCooked, Disabled
    <3> QED
      BY <1>0, <2>0, <2>1, <3>2
  <2>2. ASSUME RawNeeded(tty, Disabled), NEW f \in Faults \cup {"none"}, tty' = RawSet(tty, f) PROVE Goal
    <3>1. tty.mode = "EX" /\ ~Disabled /\ tty.initialized
      BY <1>0, <2>0, <2>2 DEF RawNeeded, Opening
    <3>2. /\ tty'.t = tty.t /\ tty'.or = tty.or /\ tty'.initialized
          /\ Tables(tty') /\ Followed(tty', wanted)
      BY <1>0, <2>2, <3>1, RawSetFollows
    <3>3. tty'.mode = "EX"
      BY <2>2, <3>1, RawSetKeeps
    <3>4. tty'.initialized = tty.initialized
      <4>1. WellSet(tty')
        BY <2>2, RawSetKeeps
      <4>2. tty'.initialized \in BOOLEAN
        BY <4>1 DEF WellSet, Terminal
      <4> QED
        BY <1>0, <3>1, <3>2, <4>2
    <3>5. Opening'
      BY <1>0, <2>0, <3>1, <3>2, <3>3, <3>4, OpeningKept
    <3> QED
      BY <2>0, <3>2, <3>5
  <2> QED
    BY <1>3, <2>1, <2>2 DEF Start, GetChar, UnbufferedRaw, RawStep, RawFails
<1>4. CASE RawNoted
  <2>0. /\ phase = "rawSet" /\ phase' # "cookSet" /\ ~tty__cooked_mode(tty.dev)
        /\ tty' = [tty EXCEPT !.mode = "ED"] /\ UNCHANGED <<el_flags, api, wanted>>
    BY <1>4 DEF RawNoted, DevCooked, PcInv
  <2>1. /\ tty'.t = tty.t /\ tty'.or = tty.or /\ tty'.initialized = tty.initialized /\ tty'.dev = tty.dev
        /\ Tables(tty') /\ Followed(tty', wanted)
    BY <1>0, <2>0, ModeFollows
  <2>2. Opening'
    <3>1. ~(api = "readline" /\ ~tty.initialized)
      BY <1>0, <2>0 DEF Opening
    <3> QED
      BY <1>0, <2>0, <2>1, <3>1, OpeningKept
  <2> QED
    BY <2>0, <2>1, <2>2
<1>5. CASE CookNoted
  <2>0. phase = "cookSet" /\ tty' = [tty EXCEPT !.mode = "EX"] /\ UNCHANGED <<el_flags, api, wanted>>
    BY <1>5 DEF CookNoted
  <2>1. /\ tty'.t = tty.t /\ tty'.or = tty.or /\ tty'.initialized = tty.initialized /\ tty'.mode = "EX"
        /\ Tables(tty') /\ Followed(tty', wanted)
    BY <1>0, <2>0, ModeFollows
  <2>2. Opening'
    <3>1. ~(api = "readline" /\ ~tty.initialized)
      BY <1>0, <2>0 DEF Opening
    <3> QED
      BY <1>0, <2>0, <2>1, <3>1, OpeningKept
  <2> QED
    BY <2>0, <2>1, <2>2
<1>6. CASE \/ Prepare \/ NoEdit \/ ClearHandlers \/ SetUnbuffered \/ UnsetUnbuffered \/ CallbackReturn \/ CallbackLine
           \/ (\E f \in Flags : SetFlag(f)) \/ (\E s \in Signals : AppSignal(s))
  <2>0. tty' = tty /\ UNCHANGED <<api, wanted>>
    BY <1>6 DEF Prepare, NoEdit, ClearHandlers, SetUnbuffered, UnsetUnbuffered, CallbackReturn, CallbackLine,
       SetFlag, AppSignal
  <2>1. phase' # "cookSet" /\ (api # "readline" => phase # "cookSet")
    BY <1>6 DEF Prepare, NoEdit, ClearHandlers, SetUnbuffered, UnsetUnbuffered, CallbackReturn, CallbackLine,
       SetFlag, AppSignal, Unbuffer, PcInv, Between
  <2>2. api = "readline" /\ phase' # "out" => phase # "out"
    BY <1>6 DEF Prepare, NoEdit, ClearHandlers, SetUnbuffered, UnsetUnbuffered, CallbackReturn, CallbackLine,
       SetFlag, AppSignal, Unbuffer, PcInv
  <2>3. api = "readline" /\ ~tty.initialized =>
          phase' = "out" \/ (Disabled' /\ phase' \in {"start", "prep", "noedit", "ret"})
    <3>1. api = "readline" /\ ~tty.initialized =>
            phase = "out" \/ (Disabled /\ phase \in {"start", "prep", "noedit", "ret"})
      BY <1>0 DEF Opening
    <3> QED
      BY <1>6, <3>1 DEF Prepare, NoEdit, ClearHandlers, SetUnbuffered, UnsetUnbuffered, CallbackReturn,
         CallbackLine, SetFlag, AppSignal, Disabled, PcInv, Between
  <2>4. Opening'
    BY <1>0, <2>0, <2>1, <2>2, <2>3, OpeningKept DEF Opening, DevCooked
  <2> QED
    BY <1>0, <2>0, <2>4
<1>7. CASE ReadKey \/ ReadFails
  <2>0. /\ tty' = tty \/ tty' = tty_noquotemode(tty)
        /\ phase = "read" /\ phase' # "cookSet" /\ UNCHANGED <<api, wanted>>
    BY <1>7 DEF ReadKey, ReadFails, EndsQuote, Over
  <2>1. /\ tty'.t = tty.t /\ tty'.or = tty.or /\ tty'.initialized = tty.initialized
        /\ Tables(tty') /\ Followed(tty', wanted) /\ (tty' = tty \/ ~tty__cooked_mode(tty'.dev))
    BY <1>0, <2>0, NoquotemodeFollows
  <2>2. Opening'
    <3>1. ~(api = "readline" /\ ~tty.initialized)
      BY <1>0, <2>0 DEF Opening
    <3>2. api # "readline" /\ tty__cooked_mode(tty'.dev) => tty'.mode = "EX"
      BY <1>0, <2>0, <2>1 DEF Opening, DevCooked
    <3> QED
      BY <1>0, <2>0, <2>1, <3>1, <3>2, OpeningKept
  <2> QED
    BY <2>0, <2>1, <2>2
<1>8. CASE Command
  <2>0. /\ tty' = tty \/ (tty' = tty_quotemode(tty) /\ tty.mode # "EX")
        /\ phase = "cmd" /\ phase' # "cookSet" /\ UNCHANGED <<api, wanted>>
    BY <1>8 DEF Command, Over
  <2>1. /\ tty'.t = tty.t /\ tty'.or = tty.or /\ tty'.initialized = tty.initialized
        /\ Tables(tty') /\ Followed(tty', wanted) /\ (tty' = tty \/ ~tty__cooked_mode(tty'.dev))
    BY <1>0, <2>0, QuotemodeFollows
  <2>2. Opening'
    <3>1. ~(api = "readline" /\ ~tty.initialized)
      BY <1>0, <2>0 DEF Opening
    <3>2. api # "readline" /\ tty__cooked_mode(tty'.dev) => tty'.mode = "EX"
      BY <1>0, <2>0, <2>1 DEF Opening, DevCooked
    <3> QED
      BY <1>0, <2>0, <2>1, <3>1, <3>2, OpeningKept
  <2> QED
    BY <2>0, <2>1, <2>2
<1>9. CASE Finish
  <2>0. /\ phase = "finish" /\ UNCHANGED <<api, wanted>>
        /\ \/ tty' = CookSet(tty) /\ tty.mode # "EX" /\ phase' = "cookSet"
           \/ tty' = tty /\ phase' = "clr"
    BY <1>9 DEF Finish, CookNeeded
  <2>1. /\ tty'.t = tty.t /\ tty'.or = tty.or /\ tty'.initialized = tty.initialized
        /\ Tables(tty') /\ Followed(tty', wanted)
    BY <1>0, <2>0, CookSetFollows
  <2>2. Opening'
    <3>1. ~(api = "readline" /\ ~tty.initialized)
      BY <1>0, <2>0 DEF Opening
    <3>2. api # "readline" /\ tty__cooked_mode(tty'.dev) /\ phase' # "cookSet" => tty'.mode = "EX"
      BY <1>0, <2>0 DEF Opening, DevCooked
    <3> QED
      BY <1>0, <2>0, <2>1, <3>1, <3>2, OpeningKept
  <2> QED
    BY <2>0, <2>1, <2>2
<1>10. CASE Return
  <2>0. phase = "ret" /\ phase' = "out" /\ UNCHANGED <<api, wanted>>
    BY <1>10 DEF Return
  <2>1. CASE api = "readline"
    <3>1. tty' = tty_end(tty, Disabled)
      BY <1>10, <2>1 DEF Return
    <3>2. tty'.t = tty.t /\ Tables(tty') /\ Followed(tty', wanted)
      BY <1>0, <2>0, <2>1, <3>1, EndFollows DEF Opening
    <3>3. Opening'
      BY <1>0, <2>0, <2>1, <3>2 DEF Opening
    <3> QED
      BY <2>0, <3>2, <3>3
  <2>2. CASE api # "readline"
    <3>1. tty' = tty
      BY <1>10, <2>2 DEF Return
    <3>2. Opening'
      BY <1>0, <2>0, <2>2, <3>1, OpeningKept DEF Opening, DevCooked
    <3> QED
      BY <1>0, <2>0, <3>1, <3>2
  <2> QED
    BY <2>1, <2>2
<1>11. ASSUME NEW raw \in BOOLEAN, PrepTerm(raw) PROVE Goal
  <2>0. tty' = tty_cookedmode(tty, Disabled) /\ phase = "out" /\ UNCHANGED <<phase, el_flags, api, wanted>>
    BY <1>11 DEF PrepTerm
  <2>1. /\ tty'.t = tty.t /\ tty'.or = tty.or /\ tty'.initialized = tty.initialized
        /\ Tables(tty') /\ Followed(tty', wanted) /\ (tty' = tty \/ tty'.mode = "EX")
    BY <1>0, <2>0, CookedmodeFollows
  <2>2. Opening'
    <3>1. api # "readline" /\ tty__cooked_mode(tty'.dev) => tty'.mode = "EX"
      BY <1>0, <2>0, <2>1 DEF Opening, DevCooked
    <3> QED
      BY <1>0, <2>0, <2>1, <3>1, OpeningKept
  <2> QED
    BY <2>0, <2>1, <2>2
<1>12. ASSUME NEW z \in Modes, Stty(z) PROVE Goal
  <2>0. /\ api = "el_gets" /\ api' = api /\ phase \in {"out", "cmd"} /\ UNCHANGED phase
        /\ z = "EX" => (tty.mode = "EX" => tty.dev = tty.ex)
    BY <1>12 DEF Stty
  <2>1. tty__cooked_mode(tty.dev) => tty.mode = "EX"
    BY <1>0, <2>0 DEF Opening, DevCooked
  <2>2. /\ tty'.initialized = tty.initialized /\ Tables(tty') /\ Followed(tty', wanted')
        /\ tty__cooked_mode(tty'.dev) => tty'.mode = "EX"
    <3>1. ASSUME NEW sign,
                 tty' = SttyApply(SttyFlag(tty, z, "inp", "ixon", sign), z),
                 wanted' = IF z = "EX" THEN [wanted EXCEPT !.flags["inp"] = tty_update_flag(tty', @, z, "inp")] ELSE wanted
          PROVE  /\ tty'.initialized = tty.initialized /\ Tables(tty') /\ Followed(tty', wanted')
                 /\ tty__cooked_mode(tty'.dev) => tty'.mode = "EX"
      BY <1>0, <2>0, <2>1, <3>1, SttyFlagFollows
    <3>2. ASSUME NEW x \in Chars, NEW v \in UserChars,
                 tty' = SttyApply(SttyChar(tty, z, x, v), z),
                 wanted' = IF z = "EX" THEN [wanted EXCEPT !.ch[x] = v] ELSE wanted
          PROVE  /\ tty'.initialized = tty.initialized /\ Tables(tty') /\ Followed(tty', wanted')
                 /\ tty__cooked_mode(tty'.dev) => tty'.mode = "EX"
      BY <1>0, <2>0, <2>1, <3>2, SttyCharFollows
    <3> QED
      BY <1>12, <3>1, <3>2 DEF Stty
  <2>3. Opening'
    BY <1>0, <2>0, <2>2 DEF Opening, DevCooked
  <2> QED
    BY <2>2, <2>3
<1>13. CASE UserChange
  <2>0. /\ tty.mode = "EX" /\ UNCHANGED <<phase, el_flags, api>> /\ (api = "readline" => phase = "out")
    BY <1>13 DEF UserChange, Between
  <2>1. tty__cooked_mode(tty.dev) /\ tty__cooked_mode(tty'.dev)
    BY <1>13, ChangedByUser DEF UserChange, DevCooked
  <2>2. Fits(tty, tty.dev, wanted)
    BY <1>0, <2>1 DEF Followed
  <2>3. \E d : /\ tty' = [tty EXCEPT !.dev = d] /\ Fits(tty, d, wanted')
               /\ tty.initialized =>
                    \A x \in Chars : wanted'.ch[x] \in {"any", tty.ex.ch[x]} \/ tty.ex.ch[x] = tty.c["EX"][x]
    <3>0. /\ tty.dev \in Setting /\ tty.dev.flags \in [Kinds -> SUBSET Flag] /\ tty.dev.ch \in [Chars -> Value]
          /\ wanted.flags \in [Kinds -> SUBSET Flag] /\ wanted.ch \in [Chars -> Value \cup {"any"}]
      BY <1>0, TerminalParts DEF WellSet, Setting, Wanted
    <3>1. ASSUME NEW k \in {"inp", "ctl"}, NEW f,
                 tty' = [tty EXCEPT !.dev.flags[k] = IF f \in @ THEN @ \ {f} ELSE @ \cup {f}],
                 wanted' = [wanted EXCEPT !.flags[k] = tty_update_flag(tty, tty'.dev.flags[k], "EX", k)]
          PROVE  \E d : /\ tty' = [tty EXCEPT !.dev = d] /\ Fits(tty, d, wanted')
                        /\ tty.initialized =>
                             \A x \in Chars : wanted'.ch[x] \in {"any", tty.ex.ch[x]} \/ tty.ex.ch[x] = tty.c["EX"][x]
      <4> DEFINE g == IF f \in tty.dev.flags[k] THEN tty.dev.flags[k] \ {f} ELSE tty.dev.flags[k] \cup {f}
                 fl == [tty.dev.flags EXCEPT ![k] = g]
                 d == [tty.dev EXCEPT !.flags = fl]
                 h == tty_update_flag(tty, g, "EX", k)
      <4>1. tty' = [tty EXCEPT !.dev = d]
        BY <3>1
      <4> HIDE DEF g
      <4>2. /\ fl[k] = g /\ \A j \in {"inp", "ctl"} \ {k} : fl[j] = tty.dev.flags[j]
        BY <3>0 DEF Kinds
      <4> HIDE DEF fl
      <4>3. d.flags = fl /\ d.ch = tty.dev.ch
        BY <3>0 DEF Setting
      <4> HIDE DEF d
      <4>4. tty'.dev = d
        BY <4>1 DEF WellSet, Terminal
      <4>5. wanted' = [wanted EXCEPT !.flags[k] = h]
        BY <3>1, <4>2, <4>3, <4>4
      <4> HIDE DEF h
      <4>6. /\ wanted'.ch = wanted.ch /\ wanted'.flags[k] = h
            /\ \A j \in {"inp", "ctl"} \ {k} : wanted'.flags[j] = wanted.flags[j]
        BY <1>0, <3>0, <4>5 DEF Kinds, Wanted
      <4>7. Fits(tty, d, wanted')
        BY <2>2, <4>2, <4>3, <4>6 DEF Fits, h
      <4>8. tty.initialized =>
              \A x \in Chars : wanted'.ch[x] \in {"any", tty.ex.ch[x]} \/ tty.ex.ch[x] = tty.c["EX"][x]
        BY <1>0, <4>6 DEF Followed
      <4> QED
        BY <4>1, <4>7, <4>8
    <3>2. ASSUME NEW x \in Chars, NEW v,
                 tty' = [tty EXCEPT !.dev.ch[x] = v],
                 wanted' = [wanted EXCEPT !.ch[x] = IF tty.ex.ch[x] = tty.c["EX"][x] THEN v ELSE "any"]
          PROVE  \E d : /\ tty' = [tty EXCEPT !.dev = d] /\ Fits(tty, d, wanted')
                        /\ tty.initialized =>
                             \A y \in Chars : wanted'.ch[y] \in {"any", tty.ex.ch[y]} \/ tty.ex.ch[y] = tty.c["EX"][y]
      <4> DEFINE ch == [tty.dev.ch EXCEPT ![x] = v]
                 d == [tty.dev EXCEPT !.ch = ch]
                 h == IF tty.ex.ch[x] = tty.c["EX"][x] THEN v ELSE "any"
      <4>1. tty' = [tty EXCEPT !.dev = d]
        BY <3>2
      <4>2. ch[x] = v /\ \A y \in Chars \ {x} : ch[y] = tty.dev.ch[y]
        BY <3>0
      <4> HIDE DEF ch
      <4>3. d.flags = tty.dev.flags /\ d.ch = ch
        BY <3>0 DEF Setting
      <4> HIDE DEF d
      <4>4. wanted' = [wanted EXCEPT !.ch[x] = h]
        BY <3>2
      <4>5. h \in {v, "any"} /\ (h # "any" => tty.ex.ch[x] = tty.c["EX"][x])
        OBVIOUS
      <4> HIDE DEF h
      <4>6. /\ wanted'.flags = wanted.flags /\ wanted'.ch[x] = h
            /\ \A y \in Chars \ {x} : wanted'.ch[y] = wanted.ch[y]
        BY <1>0, <3>0, <4>4 DEF Wanted
      <4>7. Fits(tty, d, wanted')
        BY <2>2, <4>2, <4>3, <4>5, <4>6 DEF Fits
      <4>8. tty.initialized =>
              \A y \in Chars : wanted'.ch[y] \in {"any", tty.ex.ch[y]} \/ tty.ex.ch[y] = tty.c["EX"][y]
        BY <1>0, <4>5, <4>6 DEF Followed
      <4> QED
        BY <4>1, <4>7, <4>8
    <3> QED
      BY <1>13, <3>1, <3>2 DEF UserChange
  <2>4. PICK d : /\ tty' = [tty EXCEPT !.dev = d] /\ Fits(tty, d, wanted')
                 /\ tty.initialized =>
                      \A x \in Chars : wanted'.ch[x] \in {"any", tty.ex.ch[x]} \/ tty.ex.ch[x] = tty.c["EX"][x]
    BY <2>3
  <2>5. tty'.dev = d
    BY <2>4 DEF WellSet, Terminal
  <2>6. /\ tty'.t = tty.t /\ tty'.or = tty.or /\ tty'.initialized = tty.initialized /\ tty'.mode = "EX"
        /\ Tables(tty') /\ Followed(tty', wanted')
    BY <1>0, <2>0, <2>1, <2>4, <2>5, UserFollows
  <2>7. Opening'
    BY <1>0, <2>0, <2>6 DEF Opening
  <2> QED
    BY <2>6, <2>7
<1>14. CASE Reopen
  <2> DEFINE d == tty_end(tty_cookedmode(tty, Disabled), Disabled).dev
  <2>1. d \in Setting
    <3>1. WellSet(tty_cookedmode(tty, Disabled))
      BY <1>0, CookedmodeKeeps
    <3>2. WellSet(tty_end(tty_cookedmode(tty, Disabled), Disabled))
      BY <1>0, <3>1, EndKeeps
    <3> QED
      BY <3>2, TerminalParts DEF WellSet
  <2>2. tty' = Opened(d) /\ wanted' = tty'.dev /\ phase = "out" /\ phase' = "out" /\ api' = api
    BY <1>14 DEF Reopen, Between
  <2> HIDE DEF d
  <2>3. /\ tty'.t = ttyperm /\ tty'.initialized /\ tty'.mode = "EX"
        /\ Tables(tty') /\ Followed(tty', wanted')
    BY <2>1, <2>2, OpenedFollows
  <2>4. Opening'
    BY <2>2, <2>3 DEF Opening
  <2> QED
    BY <2>3, <2>4
<1> QED
  BY <1>1, <1>2, <1>3, <1>4, <1>5, <1>6, <1>7, <1>8, <1>9, <1>10, <1>11, <1>12, <1>13, <1>14 DEF Next

LEMMA SettingsKeptInv == Spec => []SettingsInv
<1>1. Init => SettingsInv
  <2> SUFFICES ASSUME Init PROVE SettingsInv
    OBVIOUS
  <2>1. PICK d \in Terminals : tty = Opened(d)
    BY DEF Init
  <2>2. d \in Setting
    <3>1. PICK e \in UserChars : d = [flags |-> [inp |-> {"ixon"}, ctl |-> {}, lin |-> {"icanon", "isig"}],
                                      ch |-> [erase |-> e, susp |-> "default"]]
      BY DEF Terminals
    <3>2. d.flags \in [Kinds -> SUBSET Flag] /\ d.ch \in [Chars -> Value]
      BY <3>1 DEF Kinds, Flag, Chars, Value
    <3> QED
      BY <3>1, <3>2 DEF Setting
  <2>3. /\ WellSet(tty) /\ tty.t = ttyperm /\ tty.initialized /\ tty.mode = "EX"
        /\ Tables(tty) /\ Followed(tty, tty.dev)
    BY <2>1, <2>2, OpenedKeeps, OpenedFollows
  <2>4. wanted = tty.dev /\ wanted \in Wanted /\ phase = "out"
    BY <2>3, SettingIsWanted, TerminalParts DEF Init, WellSet
  <2>5. Opening
    BY <2>3, <2>4 DEF Opening
  <2> QED
    BY <2>3, <2>4, <2>5 DEF SettingsInv
<1>2. SessionInv /\ SettingsInv /\ [Next]_sessVars => SettingsInv'
  <2> SUFFICES ASSUME SessionInv, SettingsInv, [Next]_sessVars PROVE SettingsInv'
    OBVIOUS
  <2>1. CASE Next
    <3>1. wanted' \in Wanted
      BY <2>1, WantedStep DEF SessionInv, SettingsInv
    <3>2. "settings" \notin excuses' => Tables(tty') /\ Followed(tty', wanted') /\ Opening'
      BY <2>1, SettingsStep DEF SessionInv
    <3> QED
      BY <3>1, <3>2 DEF SettingsInv
  <2>2. CASE UNCHANGED sessVars
    <3>1. UNCHANGED <<tty, wanted, el_flags, api, phase, excuses>>
      BY <2>2 DEF sessVars, pcVars
    <3>2. Opening => Opening'
      BY <3>1 DEF Opening, DevCooked, Fits, Disabled, tty_update_flag
    <3> QED
      BY <3>1, <3>2 DEF SettingsInv
  <2> QED
    BY <2>1, <2>2
<1> QED
  BY <1>1, <1>2, SessionKept, PTL DEF Spec

\* What the user changed in cooked mode, between lines or while the process was
\* stopped, is what the terminal has between lines.
THEOREM UserSettingsComeBack == Spec => []UserSettingsKept
<1>1. SessionInv /\ SettingsInv => UserSettingsKept
  <2> SUFFICES ASSUME SessionInv, SettingsInv, Between, excuses \cap {"raw", "settings"} = {}
               PROVE  /\ \A k \in {"inp", "ctl"} : tty_update_flag(tty, tty.dev.flags[k], "EX", k) = wanted.flags[k]
                      /\ \A x \in Chars : wanted.ch[x] \in {"any", tty.dev.ch[x]}
    BY DEF UserSettingsKept
  <2>1. DevCooked
    BY DEF SessionInv, CookedInv, Between
  <2>2. Fits(tty, tty.dev, wanted)
    BY <2>1 DEF SettingsInv, Followed, DevCooked
  <2> QED
    BY <2>2 DEF Fits
<1> QED
  BY <1>1, SessionKept, SettingsKeptInv, PTL

===============================================================================
