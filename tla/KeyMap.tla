-------------------------------- MODULE KeyMap --------------------------------
(***************************************************************************)
(* Key bindings: the two tables of src/src/map.c, which give each          *)
(* character a command, and the map of extended keys of                    *)
(* src/src/keymacro.c, which both tables share and which a character that  *)
(* leads in leads to; with everything that rebinds keys: the bind command, *)
(* the standard bindings, the arrow keys of the terminal and the special   *)
(* characters of the tty.                                                  *)
(*                                                                         *)
(* The tree of nodes with its next and sibling pointers is the set of its  *)
(* paths: a node has a next where a longer path goes through it, and only  *)
(* a node without one is ever looked up.                                   *)
(***************************************************************************)
EXTENDS KeyChars, Sequences, SequencesExt

CONSTANTS
  Escape,       \* 033
  Emacs, ViInsert, ViCommand,   \* the standard tables, el_map_xxx
  CtrlX,        \* the sequence ^X^X
  Printable,    \* characters above the meta bit that are printed
  Ansi,         \* sequence of an arrow key on any terminal
  Termcap,      \* its sequence in the description of this terminal
  ArrowName,    \* first character of its name
  Specials,     \* characters the tty may have for erasing
  Erase,        \* the one it has at first
  Words,        \* BOUND: the sequences bound by the user
  Commands      \* BOUND: the commands they are bound to

Command == {"insert", "unassigned", "lead-in", "meta-next", "up", "exchange-mark", "erase", "other"}
ASSUME TablesAssumption == {Emacs, ViInsert, ViCommand} \subseteq [Chars -> Command]
ASSUME SequencesAssumption ==
  Words \cup {Ansi, Termcap, CtrlX} \subseteq {w \in Seq(Nat) : w # <<>>} 
ASSUME CharsAssumption ==
  {Escape, Erase, Head(Termcap)} \cup Printable \cup Specials \subseteq Chars /\ ArrowName \in Nat
\* The character that sets the meta bit and ^X have no meta bit themselves,
\* and ^X leads in.
ASSUME StandardAssumption ==
  /\ Printable \subseteq MetaBit..(NKeys - 1)
  /\ Emacs[Head(CtrlX)] = "lead-in" /\ {Escape, Head(CtrlX)} \subseteq 0..(MetaBit - 1)
  /\ \A m \in {Emacs, ViInsert, ViCommand} :
       \A c \in Chars : m[c] = "meta-next" => c < MetaBit
\* No arrow's sequence begins another, or what is typed would not tell which.
ASSUME ArrowsAssumption ==
  LET sent == {Ansi, Termcap} \cup (IF Len(Ansi) > 1 THEN {Tail(Ansi)} ELSE {}) IN
  \A p, q \in sent : IsPrefix(p, q) => p = q
ASSUME CommandsAssumption == Commands \subseteq Command

VARIABLES
  key, alt,     \* the tables: key, and alt for the command mode of vi
  vi,           \* el_map.type = MAP_VI
  tree,         \* the extended keys: path -> command, "string" or "none"
  arrow,        \* the arrow key's binding: a command, "string" or "none"
  erase,        \* the tty's erase character
  aborted       \* EL_ABORT was called

mapVars == <<key, alt, vi, tree, arrow, erase, aborted>>

-------------------------------------------------------------------------------
(* keymacro.c.                                                             *)

Longer(p, q) == IsStrictPrefix(p, q)

Leaves(t) == {p \in DOMAIN t : \A q \in DOMAIN t : ~Longer(p, q)}

Paths(k) == {SubSeq(k, 1, i) : i \in 1..Len(k)}

\* Mutant: the longer keys are not lost.
Added_KeepsLonger(t, k, v) ==
  [p \in DOMAIN t \cup Paths(k) |->
     IF p = k THEN v ELSE IF p \in DOMAIN t THEN t[p] ELSE "none"]

\* Mutant: a new node takes the place of its siblings.
Added_InPlace(t, k, v) ==
  LET lost == IF k \in DOMAIN t THEN {} ELSE {q \in DOMAIN t : Longer(Front(k), q)} IN
  [p \in {q \in DOMAIN t \ lost : ~Longer(k, q)} \cup Paths(k) |->
     IF p = k THEN v ELSE IF p \in DOMAIN t THEN t[p] ELSE "none"]

\* node__try: the nodes on the way to k exist afterwards, k's has the value,
\* and longer keys with this prefix are lost.
Added(t, k, v) ==
  [p \in {q \in DOMAIN t : ~Longer(k, q)} \cup Paths(k) |->
     IF p = k THEN v ELSE IF p \in DOMAIN t THEN t[p] ELSE "none"]

\* keymacro_add refuses to bind a key to the lead-in command.
KeymacroAdd(t, k, v) == IF v = "lead-in" THEN t ELSE Added(t, k, v)

\* Mutant: the nodes that led to the key are left behind.
KeymacroDelete_NoPrune(t, k) ==
  [p \in {q \in DOMAIN t : ~IsPrefix(k, q)} |-> t[p]]

\* node__delete: the node of k goes with all below it, and so does every
\* node on the way to it that leads nowhere else.
KeymacroDelete(t, k) ==
  IF k \notin DOMAIN t THEN t
  ELSE LET left == {p \in DOMAIN t : ~IsPrefix(k, p)}
           bare == {p \in left : Longer(p, k)
                      /\ \A q \in left : Longer(p, q) => IsPrefix(q, k)}
       IN [p \in left \ bare |-> t[p]]

\* Mutant: the key goes only when the other table leads to it.
KeymacroClear_Inverted(t, map, other, k) ==
  IF map[Head(k) % NKeys] = "lead-in" /\ other[Head(k) % NKeys] = "lead-in"
  THEN KeymacroDelete(t, k) ELSE t

\* keymacro_clear, for a table map beside the table other: the key goes when
\* no other table leads to it.
KeymacroClear(t, map, other, k) ==
  IF Head(k) <= NKeys /\ map[Head(k) % NKeys] = "lead-in" /\ other[Head(k) % NKeys] # "lead-in"
  THEN KeymacroDelete(t, k) ELSE t

-------------------------------------------------------------------------------
(* The standard bindings: map_init_emacs and map_init_vi.                  *)

FirstMeta(m) == CHOOSE c \in Chars : m[c] = "meta-next" /\ \A d \in 0..(c - 1) : m[d] # "meta-next"

HasMeta(m) == \E c \in Chars : m[c] = "meta-next"

\* map_init_meta: the keys above the meta bit can be typed behind the key
\* that sets it, in the first table that has such a key.
MetaTable(k, a, v) ==
  IF HasMeta(k) THEN "key" ELSE IF HasMeta(a) \/ v THEN "alt" ELSE "key"

MetaLead(m) == IF HasMeta(m) THEN FirstMeta(m) ELSE Escape

MetaTree(m) ==
  LET bound == {c \in MetaBit..(NKeys - 1) : m[c] \notin {"insert", "unassigned", "lead-in"}}
      below == {<<MetaLead(m), c - MetaBit>> : c \in bound}
  IN [p \in below \cup (IF bound = {} THEN {} ELSE {<<MetaLead(m)>>}) |->
        IF Len(p) = 1 THEN "none" ELSE m[p[2] + MetaBit]]

LeadIn(m, c) == [m EXCEPT ![c % NKeys] = "lead-in"]

\* map_init_nls.
Nls(k) == [c \in Chars |-> IF c \in Printable THEN "insert" ELSE k[c]]

\* tty_bind_char with force, for the erase character e of before and after.
\* In a table without such an entry (alt in emacs) nothing is bound.
Restored(m, standard, old, new, cmd) == [m EXCEPT ![old] = standard[old], ![new] = cmd]

ClearBoth(t, map, other, old, new, standard) ==
  KeymacroClear(KeymacroClear(t, map, other, <<old>>), [map EXCEPT ![old] = standard[old]], other, <<new>>)

TtyBound(b, v, old, new) ==
  LET dkey == IF v THEN ViInsert ELSE Emacs
      k == Restored(b.key, dkey, old, new, "erase")
      t == ClearBoth(b.tree, b.key, b.alt, old, new, dkey)
  IN IF v THEN [key |-> k, alt |-> Restored(b.alt, ViCommand, old, new, "other"),
                tree |-> ClearBoth(t, b.alt, k, old, new, ViCommand)]
     ELSE [key |-> k, alt |-> b.alt, tree |-> t]

\* terminal_bind_arrow: the sequences that all terminals send are added
\* whatever leads to them, then the one of this terminal if its first
\* character is free for it.
Main(b, v) == IF v THEN b.alt ELSE b.key
WithMain(b, v, m, t) ==
  IF v THEN [b EXCEPT !.alt = m, !.tree = t] ELSE [b EXCEPT !.key = m, !.tree = t]

ResetArrow(t, v, a) ==
  LET u == KeymacroAdd(t, Ansi, a) IN
  IF v /\ Len(Ansi) > 1 THEN KeymacroAdd(u, Tail(Ansi), a) ELSE u

ArrowBound(b, v, a) ==
  LET t == ResetArrow(b.tree, v, a)
      m == Main(b, v)
      standard == IF v THEN ViCommand ELSE Emacs
      j == Head(Termcap)
  IN IF Len(Termcap) > 1 /\ m[j] \in {standard[j], "lead-in"}
     THEN WithMain(b, v, LeadIn(m, j), KeymacroAdd(t, Termcap, a))
     ELSE IF m[j] # "unassigned" THEN WithMain(b, v, m, t)
     ELSE IF a = "string" THEN WithMain(b, v, m, KeymacroAdd(KeymacroClear(t, m, IF v THEN b.key ELSE b.alt, Termcap), Termcap, a))
     ELSE WithMain(b, v, [m EXCEPT ![j] = a], KeymacroClear(t, m, IF v THEN b.key ELSE b.alt, Termcap))

\* All of it, for the editor v (vi or not), an arrow bound to a, and the
\* tty's erase character e.
StandardBindings(v, a, e) ==
  LET k == IF v THEN ViInsert ELSE Emacs
      o == IF v THEN ViCommand ELSE [c \in Chars |-> "unassigned"]
      in == MetaTable(k, o, v)
      m == IF in = "key" THEN k ELSE o
      k1 == IF in = "key" THEN LeadIn(k, MetaLead(k)) ELSE k
      o1 == IF in = "alt" THEN LeadIn(o, MetaLead(o)) ELSE o
      t == IF v THEN MetaTree(m) ELSE KeymacroAdd(MetaTree(m), CtrlX, "exchange-mark")
  IN ArrowBound(TtyBound([key |-> Nls(k1), alt |-> o1, tree |-> t], v, e, e), v, a)

Install(b) == key' = b.key /\ alt' = b.alt /\ tree' = b.tree

Bindings == [key |-> key, alt |-> alt, tree |-> tree]

MapInit ==
  /\ vi = FALSE /\ arrow = "up" /\ erase = Erase /\ aborted = FALSE
  /\ LET b == StandardBindings(FALSE, "up", Erase) IN
     key = b.key /\ alt = b.alt /\ tree = b.tree

\* Binding anything again when the arrow key was unbound adds a key of a type
\* that node__try does not know.
Abort == aborted' = TRUE /\ UNCHANGED <<key, alt, vi, tree, arrow, erase>>

InitMap(v) ==
  /\ ~aborted
  /\ \/ /\ arrow = "none" /\ Abort
     \/ /\ arrow # "none"
        /\ Install(StandardBindings(v, arrow, erase)) /\ vi' = v
        /\ UNCHANGED <<arrow, erase, aborted>>

\* terminal_set, when the application names another terminal.
SetTerminal ==
  /\ ~aborted
  /\ \/ /\ arrow = "none" /\ Abort
     \/ /\ arrow # "none"
        /\ Install(ArrowBound(Bindings, vi, arrow))
        /\ UNCHANGED <<vi, arrow, erase, aborted>>

\* tty_rawmode found another erase character.
EraseChanged(c) ==
  /\ ~aborted /\ c # erase
  /\ Install(TtyBound(Bindings, vi, erase, c)) /\ erase' = c
  /\ UNCHANGED <<vi, arrow, aborted>>

-------------------------------------------------------------------------------
(* map_bind: bind, bind -a, bind -s, bind -r and bind -k.                  *)

\* Change the table of the bind, and the tree.
Rebind(a, m, t) ==
  /\ ~aborted
  /\ IF a THEN alt' = m /\ UNCHANGED key ELSE key' = m /\ UNCHANGED alt
  /\ tree' = t
  /\ UNCHANGED <<vi, arrow, erase, aborted>>

Table(a) == IF a THEN alt ELSE key
OtherTable(a) == IF a THEN key ELSE alt

BindString(a, w) == Rebind(a, LeadIn(Table(a), Head(w)), KeymacroAdd(tree, w, "string"))

BindCommand(a, w, cmd) ==
  IF Len(w) > 1
  THEN Rebind(a, LeadIn(Table(a), Head(w)), KeymacroAdd(tree, w, cmd))
  ELSE Rebind(a, [Table(a) EXCEPT ![Head(w) % NKeys] = cmd],
              KeymacroClear(tree, Table(a), OtherTable(a), w))

UnbindKey(a, w) ==
  IF Len(w) > 1 \/ Table(a)[Head(w) % NKeys] = "lead-in"
  THEN Rebind(a, Table(a), KeymacroDelete(tree, w))
  ELSE Rebind(a, [Table(a) EXCEPT ![Head(w) % NKeys] = "unassigned"], tree)

\* The arrow is bound when the arrow keys are next; a bind -s has made the
\* first character of its name lead in meanwhile.
BindArrow(v) ==
  /\ ~aborted /\ arrow' = v
  /\ key' = IF v = "string" THEN LeadIn(key, ArrowName) ELSE key
  /\ UNCHANGED <<alt, vi, tree, erase, aborted>>

MapNext ==
  \/ \E v \in BOOLEAN : InitMap(v)
  \/ SetTerminal
  \/ \E c \in Specials : EraseChanged(c)
  \/ \E a \in BOOLEAN, w \in Words : BindString(a, w) \/ UnbindKey(a, w)
  \/ \E a \in BOOLEAN, w \in Words, cmd \in Commands : BindCommand(a, w, cmd)
  \/ \E v \in (Commands \ {"lead-in"}) \cup {"string", "none"} : BindArrow(v)

MapSpec == MapInit /\ [][MapNext]_mapVars

-------------------------------------------------------------------------------
(* Properties.                                                             *)

\* A key typed to its end has a binding: no node without a next was left
\* unbound by a deletion below it, which node_trav would report as the end
\* of the input.
LeavesBound == \A p \in Leaves(tree) : tree[p] # "none"

\* What a user binds can be typed: whatever is rebound, in either of the two
\* tables, some table still leads to each sequence that is bound, apart from
\* the arrow keys, which are added unasked.
Arrows == {Ansi, Tail(Ansi), Termcap}
KeysReachable ==
  \A p \in Leaves(tree) \ Arrows : "lead-in" \in {key[Head(p) % NKeys], alt[Head(p) % NKeys]}

\* A sequence that was bound is what typing it gives, whatever was bound
\* before that begins it or that it begins.
BindTakesEffect ==
  [][\A a \in BOOLEAN, w \in Words :
       BindString(a, w) => w \in Leaves(tree') /\ tree'[w] = "string"]_mapVars

\* The tree implements the table of KeyTable.
LeafTable(t) == [p \in Leaves(t) |-> t[p]]
StandardTables ==
  {LeafTable(StandardBindings(v, a, e).tree) :
     v \in BOOLEAN, a \in Commands \cup {"up", "string"}, e \in Specials \cup {Erase}}
Bound == INSTANCE KeyTable WITH Standard <- StandardTables, table <- LeafTable(tree)

ImplementsTable == Bound!TableSpec

===============================================================================
