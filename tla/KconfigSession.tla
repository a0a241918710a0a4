--------------------------- MODULE KconfigSession ---------------------------
(***************************************************************************)
(* Sessions with the menu front end nconf (frontends/nconf/nconf.c): it    *)
(* parses the Kconfig file, reads the configuration, lets the user change  *)
(* values, and writes the configuration back through a temporary file, of  *)
(* which it keeps the version before (libs/parser/confdata.c).  The        *)
(* program may be killed at any moment and be started again.               *)
(*                                                                         *)
(*   kc, order     the Kconfig file, and the order in which the hash table *)
(*                 lists its symbols                                       *)
(*   tab           the symbols                                             *)
(*   phase         "off", "menu", or the step of conf_write that was done  *)
(*                 last: "opened", "closed", "moved"                       *)
(*   leaving       the program ends after the write under way              *)
(*   disk          the files .config, .config.old and the temporary one    *)
(*   asked         the last request that was accepted: [sym, value]        *)
(*   astray        this session has met a slip of the program that some    *)
(*                 properties except: see Slip and LoadMissing             *)
(*   done          the keys and the saves so far, for the bounds           *)
(*                                                                         *)
(* The front end builds its menu again after every key before it waits for *)
(* the next one, so that an action is a key and the menu that follows it.  *)
(***************************************************************************)
EXTENDS KconfigFile

LOCAL INSTANCE SequencesExt

CONSTANTS Source,     \* the Kconfig files, a function from their names
          Orders,     \* for each of them, orders that its hash table may have
          Found,      \* for each of them, the disks it may start from
          MaxKeys,    \* bound: requests in a behaviour
          MaxSaves    \* bound: saves in a behaviour

VARIABLES order, tab, phase, leaving, asked, astray, done

Save == INSTANCE ConfWrite

vars == <<kc, order, tab, phase, leaving, disk, asked, astray, done>>

ASSUME ProgramsAssumption ==
  \A p \in DOMAIN Source : \A o \in Orders[p] :
    /\ ToSet(o) = Symbols(Source[p]) /\ Len(o) = Len(Source[p])
    /\ NoRecursion(Finalize(Source[p]), o)

(***************************************************************************)
(* The menu: build_conf.                                                   *)
(***************************************************************************)
RECURSIVE BuildConf(_, _), ItemsOf(_, _)

\* The nodes that are listed below a node: of a choice that is y, those below
\* the member that is chosen.
ChosenNode(t, node) ==
  SelectSeq(node.list, LAMBDA n : IsShown(t, n) /\ n.sym = t.sym[node.sym].val)
Open(t, node) ==
  IF node.choice /\ t.sym[node.sym].tri = Yes
  THEN SelectSeq(ChosenNode(t, node), LAMBDA n : n.list # <<>>) ELSE node.list

BuildOpen(t, node) == FoldLeft(BuildConf, t, Open(t, node))
BuildShown(t, node) ==
  IF IsShown(t, node)
  THEN BuildOpen(IF node.choice THEN FoldLeft(Look, t, node.list) ELSE t, node) ELSE t
BuildConf(t, node) == BuildShown(Look(t, node), node)
Built(t) == FoldLeft(BuildConf, t, kc.tree)

\* An item is [sym, tag], tag "t" for values to toggle, "s" for values to enter
\* and ":" for others.
Tag(t, node) ==
  LET s == node.sym
  IN  CASE node.choice  -> IF IsChangable(t, s) \/ ChosenNode(t, node) # <<>> THEN "t" ELSE ":"
        [] Is(s, "int") -> "s"
        [] OTHER        -> IF IsMember(s) /\ t.sym[s].tri = Yes THEN ":" ELSE "t"
ItemsOf(t, node) ==
  IF IsShown(t, node)
  THEN {[sym |-> node.sym, tag |-> Tag(t, node)]}
       \cup UNION {ItemsOf(t, n) : n \in ToSet(Open(t, node))}
  ELSE {}
Items == UNION {ItemsOf(tab, n) : n \in ToSet(kc.tree)}

(***************************************************************************)
(* The keys.                                                               *)
(***************************************************************************)
\* A number that conf_read found out of range loses the user's mark but is
\* remembered.  Entered again, it is taken for the value the symbol has: it
\* gets its mark back, and the values calculated without it stay.
Slip(s, v) == Is(s, "int") /\ ~tab.sym[s].user /\ tab.sym[s].dval = v

\* The value v is asked of s; t is what the program makes of it.
Answer(s, v, accepted, t) ==
  /\ tab' = Built(t)
  /\ asked' = IF accepted THEN [sym |-> s, value |-> v] ELSE [sym |-> "", value |-> ""]
  /\ astray' = (astray \/ Slip(s, v))
  /\ done.keys < MaxKeys
  /\ done' = [done EXCEPT !.keys = @ + IF accepted THEN 1 ELSE 0]
  /\ UNCHANGED <<kc, order, phase, leaving, disk>>

SetTo(s, v) == Answer(s, v, AcceptsTristate(tab, s, v), SetTristate(tab, s, v))

\* The values the keys give s: the space bar, and Enter where it does not open
\* a choice, the next one; y, which takes m where y is not to be had; n; m.
KeySpace(s)  == Toggled(tab, s)
KeyYes(s)    == IF AcceptsTristate(tab, s, Yes) THEN Yes ELSE Mod
KeyValues(s) == {KeySpace(s), KeyYes(s), No, Mod}

\* conf_choice: a member picked from the list of a choice that is y.
Picks(c) ==
  IF tab.sym[c].tri = Yes
  THEN {m \in ToSet(kc.sym[c].members) : IsShown(tab, NodeFor(kc.tree, m))} ELSE {}

\* conf_string: a number is entered, or refused.
EnterIn(t, s, v) == Answer(s, v, AcceptsNumber(t, s, v), SetNumber(t, s, v))
Enter(s, v) == EnterIn(CalcForNumber(tab, s, v), s, v)

\* A key pressed with the cursor on one of the items.
Press ==
  /\ phase = "menu"
  /\ \E item \in Items :
       \/ /\ item.tag = "t"
          /\ \E r \in {item.sym} \X KeyValues(item.sym) \cup Picks(item.sym) \X {Yes} :
               SetTo(r[1], r[2])
       \/ /\ item.tag = "s"
          /\ \E v \in DOMAIN Num \cup {"x"} : Enter(item.sym, v)

(***************************************************************************)
(* Loading, saving and leaving.                                            *)
(***************************************************************************)
NoRequest == [sym |-> "", value |-> ""]

Start ==
  /\ phase = "off"
  /\ phase' = "menu"
  /\ tab' = Built(ReadFirst(order, disk.config))
  /\ asked' = NoRequest /\ astray' = FALSE
  /\ UNCHANGED <<kc, order, leaving, disk, done>>

\* conf_load of the configuration itself.  It counts as a change.
Load ==
  /\ phase = "menu" /\ disk.config # Missing
  /\ tab' = Built([Read(order, tab, disk.config) EXCEPT !.changed = TRUE])
  /\ asked' = NoRequest /\ astray' = FALSE
  /\ UNCHANGED <<kc, order, phase, leaving, disk, done>>

\* conf_load of a file that is not there: conf_read has already set the count
\* of changes to zero.
LoadMissing ==
  /\ phase = "menu"
  /\ tab' = Built([tab EXCEPT !.changed = FALSE])
  /\ asked' = NoRequest
  /\ astray' = (astray \/ tab.changed)
  /\ UNCHANGED <<kc, order, phase, leaving, disk, done>>

\* conf_write is called, by the save key or on the way out.
OpenTemporary ==
  /\ Save!Open
  /\ done.saves < MaxSaves /\ done' = [done EXCEPT !.saves = @ + 1]
  /\ leaving' \in (IF tab.changed THEN BOOLEAN ELSE {FALSE})
  /\ asked' = NoRequest
  /\ UNCHANGED <<kc, order, tab, astray>>

WriteLines(t) == Save!Write(Lines(t)) /\ tab' = AfterWrite(t)
WriteTemporary ==
  /\ phase = "opened"
  /\ WriteLines(CalcToWrite(tab))
  /\ UNCHANGED <<kc, order, leaving, asked, astray, done>>

KeepOld ==
  /\ Save!Keep
  /\ UNCHANGED <<kc, order, tab, leaving, asked, astray, done>>

Replace ==
  /\ Save!Install
  /\ phase' = IF leaving THEN "off" ELSE "menu"
  /\ tab' = IF leaving THEN ParsedTable(kc) ELSE Built([tab EXCEPT !.changed = FALSE])
  /\ leaving' = FALSE /\ astray' = (astray /\ ~leaving)
  /\ UNCHANGED <<kc, order, asked, done>>

\* do_exit without a write: nothing has changed, or the user gives it up.
Quit ==
  /\ phase = "menu"
  /\ phase' = "off" /\ tab' = ParsedTable(kc)
  /\ asked' = NoRequest /\ astray' = FALSE
  /\ UNCHANGED <<kc, order, leaving, disk, done>>

Killed ==
  /\ Save!Kill
  /\ tab' = ParsedTable(kc)
  /\ leaving' = FALSE /\ asked' = NoRequest /\ astray' = FALSE
  /\ UNCHANGED <<kc, order, done>>

Init ==
  /\ \E p \in DOMAIN Source :
       /\ kc = Finalize(Source[p])
       /\ order \in Orders[p]
       /\ disk \in Found[p]
  /\ tab = ParsedTable(kc)
  /\ Save!Init /\ leaving = FALSE
  /\ asked = NoRequest /\ astray = FALSE
  /\ done = [keys |-> 0, saves |-> 0]

Next ==
  \/ Press \/ Start \/ Load \/ LoadMissing \/ Quit \/ Killed
  \/ OpenTemporary \/ WriteTemporary \/ KeepOld \/ Replace

Spec == Init /\ [][Next]_vars

-----------------------------------------------------------------------------
(***************************************************************************)
(* Properties.                                                             *)
(***************************************************************************)
\* A choice that is y because the user said so has the user's mark.  CalcChoice
\* takes the mark away while it calculates that very value, when a member that
\* is seen was never set: the choice falls back to n or m when the values are
\* calculated next, whatever it is that changes.
Marked ==
  \A c \in DOMAIN kc.sym :
    IsChoice(c) /\ tab.sym[c].tri = Yes => tab.sym[c].user \/ tab.sym[c].rev = Yes

\* The tables x and y agree on s.
SameNow(s, x, y) ==
  x.sym[s].tri = y.sym[s].tri /\ x.sym[s].val = y.sym[s].val
Fresh(t, s, again) ==
  t.sym[s].valid => SameNow(s, t, again) /\ t.sym[s].visible = again.sym[s].visible
FreshAll(t, again) == \A s \in DOMAIN t.sym : Fresh(t, s, again)

\* No value in the menu is stale: calculated from nothing but what the user
\* set, every symbol has the value and the visibility that is kept for it.
Settled ==
  phase = "menu" /\ ~astray /\ Marked => FreshAll(tab, CalcAll(Invalidated(tab), order))

\* The conditions survive their rewriting: a symbol is seen when its prompt,
\* its dependencies and the choice it stands in allow it as they are written,
\* and it has a value only then or when another symbol selects it.
AsWritten ==
  phase = "menu" =>
    \A i \in DOMAIN kc.src :
      LET x == kc.src[i]
          v == tab.sym[x.sym]
          own == And3(Value(tab, ParentDep(x)), Value(tab, x.dep))
      IN  v.valid =>
            /\ x.prompt # <<>> => (v.visible # No) = (And3(own, Value(tab, x.prompt[1])) # No)
            /\ x.prompt = <<>> => v.visible = No
            /\ v.tri # No => own # No \/ v.rev # No
            /\ GetType(tab, x.sym) = "tristate" => v.tri <= Or3(own, v.rev)

\* Of the members of a choice that is y exactly one is y, the one the choice
\* says; the file that is written never has two of them.
OneChoice ==
  LET OnIn(lines, c) == {s \in ToSet(kc.sym[c].members) : <<s, "y">> \in ToSet(lines)}
      On(c) == {s \in ToSet(kc.sym[c].members) : tab.sym[s].tri = Yes}
  IN  \A c \in DOMAIN kc.sym : IsChoice(c) =>
        /\ phase = "menu" /\ tab.sym[c].valid /\ tab.sym[c].tri = Yes => On(c) = {tab.sym[c].val}
        /\ phase = "closed" => Cardinality(OnIn(disk.tmp.lines, c)) <= 1

SameValues(t, again) == \A s \in DOMAIN kc.sym : IsChoice(s) \/ SameNow(s, t, again)

\* What conf_write writes is what conf_read reads: a program started with the
\* new file has the same values.  (Choices have no line: one that is m while
\* all its members are n is read as n.)
RoundTrip ==
  phase = "closed" => SameValues(tab, CalcAll(ReadFirst(order, disk.tmp), order))

\* The lines that give a symbol a value other than n.
SetLines(lines) == {l \in ToSet(lines) : l[2] # "n"}

\* A program that would end without asking has nothing to save: the file on
\* the disk gives every symbol that is not n the value it has here.  (A member
\* of a choice keeps its flag SYMBOL_WRITE after it is hidden, so that one file
\* may say of it that it is not set, and the next one nothing.)
CleanMeansSaved ==
  phase = "menu" /\ ~tab.changed /\ ~astray /\ Marked =>
    /\ disk.config # Missing
    /\ SetLines(Lines(CalcToWrite(tab))) = SetLines(disk.config.lines)

\* A request that is accepted holds when the menu is shown again, whatever the
\* calculation of all the other values makes of it.
AcceptedHolds ==
  [][LET s == asked'.sym
         x == tab'.sym[s]
     IN  Marked /\ ~astray' /\ s # "" => IF Is(s, "int") THEN x.val = asked'.value
                             ELSE x.tri = asked'.value]_vars

Reached(s, items) ==
  LET c == kc.sym[s].choice
  IN  \/ \E item \in items : item.sym = s
      \/ /\ c # "" /\ tab.sym[c].tri = Yes /\ IsShown(tab, NodeFor(kc.tree, s))
         /\ [sym |-> c, tag |-> "t"] \in items
ReachedAll(items) ==
  \A s \in DOMAIN kc.sym :
    tab.sym[s].valid /\ tab.sym[s].visible # No => Reached(s, items)

\* Everything the user may change can be reached in the menu, wherever
\* menu_finalize has moved it.
Reachable == phase = "menu" => ReachedAll(Items)
=============================================================================
