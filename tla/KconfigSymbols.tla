--------------------------- MODULE KconfigSymbols ---------------------------
(***************************************************************************)
(* The values of the symbols of a Kconfig file                             *)
(* (src/util/kconfig/libs/parser/symbol.c, expr_calc_value of expr.c).     *)
(*                                                                         *)
(* kc is the result of Finalize.  The symbols live in a table t:           *)
(*   t.sym[s]   tri, val     curr: the value calculated last; val is a     *)
(*                           number, or the chosen member of a choice      *)
(*              dtri, dval   def[S_DEF_USER]: what the user set            *)
(*              visible, dir, rev   as calculated last                     *)
(*              valid, write, user, need   the flags SYMBOL_VALID,         *)
(*                           SYMBOL_WRITE, SYMBOL_DEF_USER and             *)
(*                           SYMBOL_NEED_SET_CHOICE_VALUES                 *)
(*   t.modules  modules_val                                                *)
(*   t.changed  whether sym_change_count is not zero                       *)
(* Values are calculated on demand and kept until their flag is cleared.   *)
(* So there are operators that calculate what is asked for, from a table   *)
(* to the next (Calc...), and operators that read a table in which it is   *)
(* calculated.  Types hex and string behave as int does and are left out,  *)
(* as are the flags that only the graphical front ends use.                *)
(***************************************************************************)
EXTENDS KconfigMenu

LOCAL INSTANCE SequencesExt

VARIABLE kc

\* "y", "m", "n", numbers, and MODULES in a file that has no such symbol.
Unknown(s) == s \notin DOMAIN kc.sym

NumOf(v) == IF v \in DOMAIN Num THEN Num[v] ELSE 0

ParsedTable(k) ==
  [sym |-> [s \in DOMAIN k.sym |->
              [tri |-> No, val |-> "", dtri |-> No, dval |-> "", visible |-> No,
               dir |-> No, rev |-> No, valid |-> FALSE, write |-> FALSE, user |-> FALSE,
               need |-> FALSE]],
   modules |-> No, changed |-> TRUE]

IsMember(s) == kc.sym[s].choice # ""
IsChoice(s) == kc.sym[s].members # <<>>

\* sym_get_tristate_value
Tri(t, s) ==
  IF Unknown(s) THEN (CASE s = "y" -> Yes [] s = "m" -> Mod [] OTHER -> No)
  ELSE t.sym[s].tri

\* sym_get_string_value
Str(t, s) ==
  CASE Unknown(s)       -> s
    [] Is(s, "int")     -> t.sym[s].val
    [] OTHER -> CASE Tri(t, s) = Yes -> "y"
                  [] Tri(t, s) = No  -> "n"
                  [] Tri(t, s) = Mod -> IF Tri(t, Modules) = No THEN "n" ELSE "m"

GetType(t, s) ==
  IF /\ Type[s] = "tristate"
     /\ (IsMember(s) /\ t.sym[s].visible = Yes) \/ t.modules = No
  THEN "bool" ELSE Type[s]

IsChangable(t, s) == t.sym[s].visible > t.sym[s].rev

(***************************************************************************)
(* Expressions.                                                            *)
(***************************************************************************)
RECURSIVE Value(_, _), Calc(_, _), CalcValue(_, _)

\* What expr_calc_value returns.
Value(t, e) ==
  CASE e[1] = "null" -> Yes
    [] e[1] = "sym"  -> Tri(t, e[2])
    [] e[1] = "and"  -> And3(Value(t, e[2]), Value(t, e[3]))
    [] e[1] = "or"   -> Or3(Value(t, e[2]), Value(t, e[3]))
    [] e[1] = "not"  -> Not3(Value(t, e[2]))
    [] e[1] \in {"eq", "ne"} ->
         IF (Str(t, e[2]) = Str(t, e[3])) = (e[1] = "eq") THEN Yes ELSE No

\* What it calculates on the way: everything, also what does not matter any
\* more.  (MODULES is calculated before anything else.)
Calc(t, e) ==
  CASE e[1] = "null" -> t
    [] e[1] = "sym"  -> CalcValue(t, e[2])
    [] e[1] = "not"  -> Calc(t, e[2])
    [] e[1] \in {"and", "or"} -> Calc(Calc(t, e[2]), e[3])
    [] e[1] \in {"eq", "ne"}  -> Calc(Calc(t, S(e[2])), S(e[3]))

\* A walk over properties ends with the first one that will do.
CalcUntil(Ok(_, _), t, props) ==
  FoldLeftDomain(LAMBDA u, i : IF \E j \in 1 .. i - 1 : Ok(u, props[j]) THEN u
                               ELSE Calc(u, props[i].vis), t, props)

Holds(t, p) == Value(t, p.vis) # No
CalcFirst(t, props) == CalcUntil(Holds, t, props)
Holding(t, props) == SelectSeq(props, LAMBDA p : Holds(t, p))

(***************************************************************************)
(* What a symbol may be: its visibility, its dependencies and the symbols  *)
(* that select it.  These last are not calculated for members of a choice. *)
(***************************************************************************)
RoundedUp(t, s, v) ==
  IF v = Mod /\ (Type[s] # "tristate" \/ t.modules = No) THEN Yes ELSE v
SetVisible(t, s) ==
  [t EXCEPT !.sym[s].visible = RoundedUp(t, s, Value(t, kc.sym[s].prompt))]

SetDir(t, s) ==
  [t EXCEPT !.sym[s].dir = IF Value(t, kc.sym[s].dir) = No THEN No ELSE Yes]

SelectedTo(t, s) == IF kc.sym[s].rev = Null THEN No ELSE Value(t, kc.sym[s].rev)
SetRev(t, s) ==
  [t EXCEPT !.sym[s].rev = IF SelectedTo(t, s) = Mod /\ GetType(t, s) = "bool" THEN Yes
                           ELSE SelectedTo(t, s)]

CalcDependencies(t, s) ==
  IF IsMember(s) THEN t
  ELSE SetRev(Calc(SetDir(Calc(t, kc.sym[s].dir), s), kc.sym[s].rev), s)
CalcVisibility(t, s) == CalcDependencies(SetVisible(Calc(t, kc.sym[s].prompt), s), s)

(***************************************************************************)
(* The value of a symbol: the user's, if it is visible, else a default.    *)
(***************************************************************************)
ByUser(t, s) == t.sym[s].visible # No /\ t.sym[s].user
ByChoice(t, s) == IsMember(s) /\ t.sym[s].visible = Yes

Defaults(s) == IF IsChoice(s) THEN <<>> ELSE kc.sym[s].defaults
Default(t, s) == Holding(t, Defaults(s))
CalcOperand(t, props) == IF props = <<>> THEN t ELSE Calc(t, props[1].prop.val)
CalcDefaultOf(t, s) == CalcOperand(t, Default(t, s))
CalcDefault(t, s) ==
  IF ByUser(t, s) \/ ByChoice(t, s) THEN t ELSE CalcDefaultOf(CalcFirst(t, Defaults(s)), s)

OwnTri(t, s) ==
  CASE ByUser(t, s)         -> And3(t.sym[s].dtri, t.sym[s].visible)
    [] Default(t, s) = <<>> -> No
    [] OTHER -> And3(Value(t, Default(t, s)[1].prop.val), Value(t, Default(t, s)[1].vis))

AtLeast(t, s, v) == IF v = Mod /\ GetType(t, s) = "bool" THEN Yes ELSE v
NewTri(t, s) ==
  IF ByChoice(t, s) THEN (IF t.sym[kc.sym[s].choice].val = s THEN Yes ELSE No)
  ELSE AtLeast(t, s, Or3(OwnTri(t, s), t.sym[s].rev))

NewVal(t, s) ==
  LET ds == Default(t, s)[1].prop.val[2]
  IN  CASE ByUser(t, s)         -> t.sym[s].dval
        [] Default(t, s) = <<>> -> ""
        [] OTHER                -> IF Unknown(ds) THEN ds ELSE t.sym[ds].val

NewWrite(t, s) ==
  /\ ~ByChoice(t, s)
  /\ \/ t.sym[s].visible # No \/ t.sym[s].rev # No
     \/ ~ByUser(t, s) /\ Default(t, s) # <<>>

Assign(t, s) ==
  [t EXCEPT !.sym[s].tri = IF Is(s, "int") THEN @ ELSE NewTri(t, s),
            !.sym[s].val = IF Is(s, "int") THEN NewVal(t, s) ELSE @,
            !.sym[s].write = @ \/ NewWrite(t, s)]

(***************************************************************************)
(* Choices.                                                                *)
(***************************************************************************)
\* A default of the choice that is a member that is seen.
Offers(t, p) == Holds(t, p) /\ t.sym[p.prop.val[2]].visible # No

\* sym_choice_default: a member or "".
ChoiceDefault(t, s) ==
  LET offered == SelectSeq(kc.sym[s].defaults, LAMBDA p : Offers(t, p))
      seen == SelectSeq(kc.sym[s].members, LAMBDA m : t.sym[m].visible # No)
  IN  IF offered # <<>> THEN offered[1].prop.val[2] ELSE IF seen # <<>> THEN seen[1] ELSE ""

\* The user's choice is not looked at again when members come and go.
WishKept(t, s) == t.sym[s].dval # ""

\* The member that the user chose, if it is seen.
WishSeen(t, s) == t.sym[s].dval # "" /\ t.sym[t.sym[s].dval].visible # No
Chosen(t, s) == IF WishSeen(t, s) THEN t.sym[s].dval ELSE ChoiceDefault(t, s)

\* A choice keeps the user's mark only as long as all the members that are
\* seen have it.
Unmark(t, s) ==
  LET marked == \A m \in ToSet(kc.sym[s].members) : t.sym[m].visible # No => t.sym[m].user
  IN  [t EXCEPT !.sym[s].user = @ /\ marked]

CalcMembers(t, s) == FoldLeft(CalcVisibility, t, kc.sym[s].members)
CalcOffers(t, s) == IF WishSeen(t, s) THEN t ELSE CalcUntil(Offers, t, kc.sym[s].defaults)
SetChosen(t, s) ==
  [t EXCEPT !.sym[s].val = Chosen(t, s), !.sym[s].tri = IF Chosen(t, s) = "" THEN No ELSE @]
CalcChoice(t, s) == SetChosen(CalcOffers(Unmark(CalcMembers(t, s), s), s), s)

(***************************************************************************)
(* Ranges.                                                                 *)
(***************************************************************************)
\* sym_get_range_prop, and the values of its bounds.
RangeProp(t, s) == Holding(t, kc.sym[s].ranges)
CalcBounds(t, range) ==
  IF range = <<>> THEN t ELSE Calc(Calc(t, S(range[1].prop.lo)), S(range[1].prop.hi))
CalcRangeOf(t, s) == CalcBounds(t, RangeProp(t, s))
CalcRange(t, s) == CalcRangeOf(CalcFirst(t, kc.sym[s].ranges), s)

RangeVal(t, v) == NumOf(IF Unknown(v) THEN v ELSE t.sym[v].val)
Lo(t, s) == RangeVal(t, RangeProp(t, s)[1].prop.lo)
Hi(t, s) == RangeVal(t, RangeProp(t, s)[1].prop.hi)
InRange(t, s, n) == RangeProp(t, s) = <<>> \/ n \in Lo(t, s) .. Hi(t, s)

Digits(n) == CHOOSE v \in DOMAIN Num : Num[v] = n
ValidateRange(t, s) ==
  LET n == NumOf(t.sym[s].val)
  IN  IF InRange(t, s, n) THEN t
      ELSE [t EXCEPT !.sym[s].val = Digits(IF n < Lo(t, s) THEN Lo(t, s) ELSE Hi(t, s))]

(***************************************************************************)
(* sym_calc_value.  The value is n, or no number, while it is calculated.  *)
(***************************************************************************)
Begin(t, s) == [t EXCEPT !.sym[s].valid = TRUE, !.sym[s].write = @ /\ IsMember(s)]
Reset(t, s) == [t EXCEPT !.sym[s].tri = No, !.sym[s].val = ""]
CalcRest(t, s) ==
  CASE Is(s, "int") -> ValidateRange(CalcRange(t, s), s)
    [] ~Is(s, "int") /\ IsChoice(s) /\ t.sym[s].tri = Yes -> CalcChoice(t, s)
    [] OTHER -> t
Finish(t, s) ==
  LET Written(m) == m \in ToSet(kc.sym[s].members) /\ t.sym[s].write /\ t.sym[m].visible # No
  IN  [t EXCEPT !.modules = IF s = Modules THEN t.sym[s].tri ELSE @,
                !.sym = [m \in DOMAIN @ |-> [@[m] EXCEPT !.write = @ \/ Written(m)]]]

\* set_all_choice_values: the members of the choice c without a mark become n.
SetAllChoiceValues(t, c) ==
  [t EXCEPT !.sym = [s \in DOMAIN @ |->
     [@[s] EXCEPT !.user = @ \/ s = c,
                  !.valid = @ /\ s # c,
                  !.need = @ /\ s # c,
                  !.dtri = IF s \in ToSet(kc.sym[c].members) /\ ~t.sym[s].user THEN No ELSE @]]]

\* The choices are completed before their members are calculated.
CalcNeeded(t, s) ==
  IF IsMember(s) /\ t.sym[s].need
  THEN CalcValue([t EXCEPT !.sym[s].need = FALSE], kc.sym[s].choice) ELSE t
Complete(t, s) == IF t.sym[s].need THEN SetAllChoiceValues(t, s) ELSE t

Calculate(t, s) ==
  Finish(CalcRest(Assign(CalcDefault(Reset(CalcVisibility(Begin(t, s), s), s), s), s), s), s)
CalcValue(t, s) ==
  IF Unknown(s) \/ t.sym[s].valid THEN t ELSE Complete(Calculate(CalcNeeded(t, s), s), s)

CalcAll(t, order) == FoldLeft(CalcValue, t, order)

Invalidated(t) == [t EXCEPT !.sym = [s \in DOMAIN @ |-> [@[s] EXCEPT !.valid = FALSE]]]

\* Symbols that are not seen keep their values.
ClearSeenValid(t) ==
  CalcValue([t EXCEPT !.changed = TRUE,
                      !.sym = [s \in DOMAIN @ |-> [@[s] EXCEPT
                        !.valid = @ /\ t.sym[s].visible = No]]], Modules)

ClearAllValid(t) == CalcValue([Invalidated(t) EXCEPT !.changed = TRUE], Modules)

(***************************************************************************)
(* Setting a value.                                                        *)
(***************************************************************************)
\* The symbols that select s are forgotten.
TristateWithinPrompt(t, s, v) ==
  /\ t.sym[s].visible # No
  /\ GetType(t, s) = "bool" => v # Mod
  /\ IF ByChoice(t, s) THEN v = Yes ELSE v <= t.sym[s].visible

\* sym_tristate_within_range
TristateWithinRange(t, s, v) ==
  /\ IsChangable(t, s)
  /\ GetType(t, s) = "bool" => v # Mod
  /\ IF ByChoice(t, s) THEN v = Yes ELSE v \in t.sym[s].rev .. t.sym[s].visible

\* Whether sym_set_tristate_value accepts v, and what it does then.
AcceptsTristate(t, s, v) == t.sym[s].tri = v \/ TristateWithinRange(t, s, v)

\* A member that becomes y is the user's choice; all members that are seen
\* are taken to be set by the user.
RememberChoice(t, s) ==
  LET c == kc.sym[s].choice
      group == {m \in ToSet(kc.sym[c].members) : t.sym[m].visible # No}
  IN  [t EXCEPT !.sym = [r \in DOMAIN @ |->
         [@[r] EXCEPT !.user = @ \/ r = c \/ r \in group, !.dval = IF r = c THEN s ELSE @]]]
\* (mutant) The value that a symbol has already is not remembered.
RememberNew(t, s, v) ==
  IF t.sym[s].tri = v THEN t
  ELSE [IF IsMember(s) /\ v = Yes THEN RememberChoice(t, s) ELSE t
          EXCEPT !.sym[s].user = TRUE, !.sym[s].dtri = v]
Remember(t, s, v) ==
  [IF IsMember(s) /\ v = Yes THEN RememberChoice(t, s) ELSE t
     EXCEPT !.sym[s].user = TRUE, !.sym[s].dtri = v]
SetTristate(t, s, v) ==
  CASE ~AcceptsTristate(t, s, v) -> t
    [] t.sym[s].tri = v          -> Remember(t, s, v)
    [] OTHER                     -> ClearAllValid(Remember(t, s, v))

\* sym_toggle_tristate_value: the next value, in the order n, m, y, that is
\* accepted; its own value always is.
Toggled(t, s) ==
  LET Next(i) == (t.sym[s].tri + i) % 3
  IN  Next(CHOOSE i \in 1 .. 3 : /\ AcceptsTristate(t, s, Next(i))
                                 /\ \A j \in 1 .. i - 1 : ~AcceptsTristate(t, s, Next(j)))

\* Whether sym_set_string_value accepts the number v, once the range of s is
\* calculated, and what it does then.
CalcForNumber(t, s, v) == IF v \in DOMAIN Num THEN CalcRange(t, s) ELSE t
AcceptsNumber(t, s, v) == v \in DOMAIN Num /\ InRange(t, s, Num[v])
SetNumber(t, s, v) ==
  CASE ~AcceptsNumber(t, s, v) -> t
    [] t.sym[s].dval = v       -> [t EXCEPT !.sym[s].user = TRUE]
    [] OTHER -> ClearAllValid([t EXCEPT !.sym[s].user = TRUE, !.sym[s].dval = v])

(***************************************************************************)
(* menu_is_visible.                                                        *)
(***************************************************************************)
RECURSIVE IsShown(_, _), Look(_, _)

\* A symbol that is not seen is shown for the sake of the entries below it.
IsShown(t, node) ==
  /\ node.prompted
  /\ \/ t.sym[node.sym].visible # No
     \/ t.sym[node.sym].tri # No /\ \E n \in ToSet(node.list) : IsShown(t, n)

\* What is calculated to find that out: the entries below up to the first that
\* is shown, for the sake of which the symbol gets the user's mark.
LookThrough(t, list) ==
  FoldLeftDomain(LAMBDA u, i : IF \E j \in 1 .. i - 1 : IsShown(u, list[j]) THEN u
                               ELSE Look(u, list[i]), t, list)
MarkIfShown(t, node) ==
  [t EXCEPT !.sym[node.sym].user = @ \/ \E n \in ToSet(node.list) : IsShown(t, n)]
LookBelow(t, node) ==
  IF t.sym[node.sym].visible # No \/ t.sym[node.sym].tri = No THEN t
  ELSE MarkIfShown(LookThrough(t, node.list), node)
Look(t, node) == IF node.prompted THEN LookBelow(CalcValue(t, node.sym), node) ELSE t
=============================================================================
