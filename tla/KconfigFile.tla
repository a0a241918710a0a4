---------------------------- MODULE KconfigFile ----------------------------
(***************************************************************************)
(* Reading and writing configurations                                      *)
(* (src/util/kconfig/libs/parser/confdata.c): conf_read, and the lines     *)
(* that conf_write writes.  order is the order in which the hash table     *)
(* lists the symbols.                                                      *)
(*                                                                         *)
(* A line is <<symbol, value>>; "n" is written as "is not set".  The files *)
(* and the steps of conf_write on them are in ConfFiles and ConfWrite.     *)
(***************************************************************************)
EXTENDS KconfigSymbols, ConfFiles

LOCAL INSTANCE SequencesExt

(***************************************************************************)
(* conf_read_simple.                                                       *)
(***************************************************************************)
SetByLine(t, s, v) ==
  CASE Meaning(s, v) = "tri" -> [t EXCEPT !.sym[s].dtri = Tri(t, v), !.sym[s].user = TRUE]
    [] Meaning(s, v) = "val" -> [t EXCEPT !.sym[s].dval = v, !.sym[s].user = TRUE]
    [] OTHER -> t

\* The choice that the symbol of a line belongs to contradicts it, or follows.
Clash(t, s) ==
  LET v == t.sym[s].dtri
      chosen == t.sym[kc.sym[s].choice].dtri
  IN  IsMember(s) /\ ((v = Mod /\ chosen = Yes) \/ (v = Yes /\ chosen # No))

\* The member that is y is not remembered as the choice.
FollowMemberValue(t, s) ==
  LET c == kc.sym[s].choice
  IN  [t EXCEPT !.sym[c].dtri = Or3(@, t.sym[s].dtri)]

FollowMember(t, s) ==
  LET c == kc.sym[s].choice
      v == t.sym[s].dtri
  IN  [t EXCEPT !.sym[c].user = @ /\ ~(v = Mod /\ t.sym[c].dtri = Yes),
                !.sym[c].dval = IF v = Yes THEN s ELSE @,
                !.sym[c].dtri = Or3(@, v)]

\* One line; r is [tab, warned].
Followed(t, s, warned) ==
  [tab |-> IF IsMember(s) THEN FollowMember(t, s) ELSE t, warned |-> warned \/ Clash(t, s)]
ReadLine(r, line) ==
  LET s == line[1]
      v == line[2]
  IN  CASE Unknown(s) -> [r EXCEPT !.tab.changed = TRUE]
        [] ~Unknown(s) /\ Meaning(s, v) = "bad" -> [r EXCEPT !.warned = TRUE]
        [] OTHER -> Followed(SetByLine(r.tab, s, v), s, r.warned \/ r.tab.sym[s].user)

\* A file that is there: only the choices keep a user's mark that no line gives.
Cleared(t) ==
  [t EXCEPT !.sym = [s \in DOMAIN @ |->
     [@[s] EXCEPT !.valid = FALSE, !.user = IsChoice(s), !.dval = "", !.dtri = No]]]
ReadLines(t, file) == FoldLeft(ReadLine, [tab |-> Cleared(t), warned |-> FALSE], file.lines)

(***************************************************************************)
(* conf_read.                                                              *)
(***************************************************************************)
\* Symbols that are new since the file was written are not counted.
AgreesIfNew(t, s) ==
  LET x == t.sym[s]
  IN  \/ IsChoice(s) \/ ~x.user
      \/ x.write /\ (IF Is(s, "int") THEN x.val = x.dval ELSE x.tri = x.dtri)

\* The calculated value is the one the file gave, or there is neither.
Agrees(t, s) ==
  LET x == t.sym[s]
  IN  \/ IsChoice(s)
      \/ x.user /\ x.write /\ (IF Is(s, "int") THEN x.val = x.dval ELSE x.tri = x.dtri)
      \/ ~x.user /\ ~x.write

\* Each symbol is compared as soon as it is calculated; r is [tab, unsaved].
Compared(t, s, unsaved) == [tab |-> t, unsaved |-> unsaved \/ ~Agrees(t, s)]
Compare(r, s) == Compared(CalcValue(r.tab, s), s, r.unsaved)

\* The second loop: a symbol that is not seen loses the user's mark, unless the
\* file is out of date; a number out of range loses it in any case.
InRangeOrReset(t, s, unsaved) ==
  IF AcceptsNumber(t, s, t.sym[s].dval) THEN [tab |-> t, unsaved |-> unsaved]
  ELSE [tab |-> [t EXCEPT !.sym[s].valid = FALSE, !.sym[s].user = FALSE], unsaved |-> TRUE]
DropUnseen(r, s) ==
  LET x == r.tab.sym[s]
      t == [r.tab EXCEPT !.sym[s].user = x.visible # No \/ r.unsaved]
  IN  CASE ~x.user \/ IsMember(s) -> r
        [] x.user /\ ~IsMember(s) /\ ~Is(s, "int") -> [r EXCEPT !.tab = t]
        [] OTHER -> InRangeOrReset(CalcForNumber(t, s, x.dval), s, r.unsaved)

Checked(order, t) ==
  FoldLeft(DropUnseen, FoldLeft(Compare, [tab |-> t, unsaved |-> FALSE], order), order)
Counted(r, warned) == [r.tab EXCEPT !.changed = @ \/ warned \/ r.unsaved]
CheckLines(order, r) == Counted(Checked(order, CalcValue(r.tab, Modules)), r.warned)
Read(order, t, file) == CheckLines(order, ReadLines([t EXCEPT !.changed = FALSE], file))

\* The start of a program: conf_parse, then conf_read(NULL).
ReadFirst(order, file) ==
  IF file = Missing THEN CalcValue(ParsedTable(kc), Modules)
  ELSE Read(order, ParsedTable(kc), file)

(***************************************************************************)
(* conf_write: a line for every symbol of the menu that is to be written.  *)
(***************************************************************************)
Lined == SelectSeq(Preorder(kc.tree), LAMBDA n : ~n.choice)
CalcMenu(t) == FoldLeft(LAMBDA u, n : CalcValue(u, n.sym), t, Lined)
CalcToWrite(t) == CalcMenu(IF t.changed THEN t ELSE ClearAllValid(t))

\* (mutant) A symbol that is n gets no line.
LinesThatSet(t) ==
  LET written == SelectSeq(Lined, LAMBDA n : t.sym[n.sym].write /\ Str(t, n.sym) # "n")
  IN  [i \in DOMAIN written |-> <<written[i].sym, Str(t, written[i].sym)>>]
Lines(t) ==
  LET written == SelectSeq(Lined, LAMBDA n : t.sym[n.sym].write)
  IN  [i \in DOMAIN written |-> <<written[i].sym, Str(t, written[i].sym)>>]
AfterWrite(t) ==
  [t EXCEPT !.sym = [s \in DOMAIN @ |-> [@[s] EXCEPT !.write = @ /\ IsChoice(s)]]]
=============================================================================
