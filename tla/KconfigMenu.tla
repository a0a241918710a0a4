---------------------------- MODULE KconfigMenu ----------------------------
(***************************************************************************)
(* What the parser makes of a Kconfig file: menu_finalize gives every      *)
(* property of every symbol its full condition, collects the reverse       *)
(* dependencies, finds the members of the choices and moves entries below  *)
(* the entry they depend on (src/util/kconfig/libs/parser/menu.c), and     *)
(* sym_check_deps rejects files whose symbols depend on themselves         *)
(* (symbol.c).                                                             *)
(*                                                                         *)
(* A Kconfig file is a sequence of entries, in the order of the file:      *)
(*   sym       the symbol; every symbol has one entry                      *)
(*   parent    the choice the entry stands in, or ""                       *)
(*   dep       the conjunction of its "depends on"                         *)
(*   prompt    <<>> or <<e>>, e the "if" of the prompt                     *)
(*   defaults  a sequence of [val, if]                                     *)
(*   selects   a sequence of [sym, if]                                     *)
(*   ranges    a sequence of [lo, hi, if]                                  *)
(*   choice, optional   the entry is a choice; it may be switched off      *)
(* The nesting of "menu" and "if" blocks, which conjoins more conditions,  *)
(* and several entries for one symbol are left out.                        *)
(***************************************************************************)
EXTENDS KconfigExpr, TLC, FiniteSets

LOCAL INSTANCE SequencesExt

CONSTANT Modules     \* the symbol with "option modules"

(***************************************************************************)
(* Conditions.                                                             *)
(***************************************************************************)
\* 'm' in a condition means m && MODULES.
RECURSIVE CheckDep(_)
CheckDep(e) ==
  CASE e[1] \in {"and", "or"} -> <<e[1], CheckDep(e[2]), CheckDep(e[3])>>
    [] e[1] = "not"           -> Not(CheckDep(e[2]))
    [] e = M                  -> And(M, S(Modules))
    [] OTHER                  -> e

ParentDep(x) == IF x.parent = "" THEN Null ELSE S(x.parent)

\* The condition of the entry itself becomes part of those of its properties.
Within(dep, e) == EliminateDups(AllocAnd(dep, Transform(CheckDep(e))))
Plain(x, dep) == IF Is(x.sym, "tristate") THEN dep ELSE TransBool(dep)
PropDep(x, e) == Plain(x, Within(x.dep, e))

WithBase(x) == [x EXCEPT !.dep = Within(ParentDep(x), @)]
Guarded(x, props) == [i \in DOMAIN props |-> [props[i] EXCEPT !.if = PropDep(x, @)]]
WithProps(x) == [x EXCEPT !.prompt = [i \in DOMAIN @ |-> PropDep(x, @[i])],
                          !.defaults = Guarded(x, @),
                          !.selects = Guarded(x, @),
                          !.ranges = Guarded(x, @)]
Conditioned(src) == [i \in DOMAIN src |-> WithProps(WithBase(src[i]))]

\* In what follows the entries are those of Conditioned.

\* A member of a tristate choice that is no tristate needs the choice at y.
MemberDep(x, dep) ==
  IF x.parent # "" /\ Is(x.parent, "tristate") /\ ~Is(x.sym, "tristate")
  THEN AllocAnd(Eq(x.parent, "y"), dep) ELSE dep

\* Everything that selects s.
SelectedBy(src, s) ==
  LET OrSelects(e, x) ==
        FoldLeft(LAMBDA f, c : IF c.sym = s THEN AllocOr(f, AllocAnd(S(x.sym), c.if)) ELSE f,
                 e, x.selects)
  IN  FoldLeft(OrSelects, Null, src)

\* And the m that keeps a choice switched on.
RevDep(src, s) ==
  LET Keeps(x) == x.sym = s /\ ~x.optional /\ x.prompt # <<>>
      On(e, x) == IF Keeps(x) THEN AllocOr(e, AllocAnd(x.prompt[1], M)) ELSE e
  IN  FoldLeft(On, SelectedBy(src, s), src)

(***************************************************************************)
(* The menu.  A node is [sym, prompted, choice, list]: an entry and the    *)
(* nodes below it.                                                         *)
(***************************************************************************)
Shown(x) == IF x.prompt # <<>> THEN x.prompt[1] ELSE x.dep

\* An entry goes below every entry that its condition mentions.
BelowMentioned(x, z) == ContainsSymbol(Shown(z), x.sym)

\* An entry that follows x goes below x: x is part of its condition, and it is
\* not seen when x is n or when x is not seen.
NotN(e) == EliminateDups(Transform(TransCompare(e, "ne", "n")))
Implies(e, f) == EliminateEq(<<NotN(e), NotN(f)>>)[2] = Y
Below(x, z) ==
  /\ ContainsSymbol(Shown(z), x.sym)
  /\ \/ DependsSymbol(Shown(z), x.sym)
     \/ Implies(Shown(z), IF x.prompt # <<>> THEN x.prompt[1] ELSE Null)

NodeOf(x, list) ==
  [sym |-> x.sym, prompted |-> x.prompt # <<>>, choice |-> x.choice, list |-> list]

RECURSIVE Nodes(_, _), OneNode(_, _, _), Absorb(_, _, _)

\* The nodes of the siblings l.  A node without a prompt is not shown: its
\* list comes after it.
Spliced(node) ==
  IF node.prompted THEN <<node>> ELSE <<[node EXCEPT !.list = <<>>]>> \o node.list
NodesFrom(src, r) == Spliced(r[1]) \o Nodes(src, r[2])
Nodes(src, l) ==
  IF l = <<>> THEN <<>> ELSE NodesFrom(src, OneNode(src, Head(l), Tail(l)))

\* The node of x, and the siblings l that are left.
Owner(x, a) == <<NodeOf(x, a[1]), a[2]>>
OneNodeOf(src, x, l, mine) ==
  IF mine # <<>> THEN <<NodeOf(x, Nodes(src, mine)), l>> ELSE Owner(x, Absorb(src, x, l))
OneNode(src, x, l) == OneNodeOf(src, x, l, SelectSeq(src, LAMBDA z : z.parent = x.sym))

\* The nodes that go below x, and the siblings l that are left.
Preceded(node, a) == <<<<node>> \o a[1], a[2]>>
AbsorbMore(src, x, r) == Preceded(r[1], Absorb(src, x, r[2]))
Absorb(src, x, l) ==
  IF l = <<>> \/ ~Below(x, Head(l)) THEN <<<<>>, l>>
  ELSE AbsorbMore(src, x, OneNode(src, Head(l), Tail(l)))

Tree(src) == Nodes(src, SelectSeq(src, LAMBDA x : x.parent = ""))

RECURSIVE Preorder(_)
Preorder(nodes) ==
  IF nodes = <<>> THEN <<>>
  ELSE <<Head(nodes)>> \o Preorder(Head(nodes).list) \o Preorder(Tail(nodes))

(***************************************************************************)
(* The symbols as the calculation of values finds them.                    *)
(***************************************************************************)
Symbols(src) == {src[i].sym : i \in DOMAIN src}

NodeFor(tree, s) == SelectSeq(Preorder(tree), LAMBDA n : n.sym = s)[1]
MembersOf(n) == IF n.choice THEN [i \in DOMAIN n.list |-> n.list[i].sym] ELSE <<>>

\* members: for every choice the sequence of its members.
ChoiceOf(members, s) ==
  IF \E c \in DOMAIN members : s \in ToSet(members[c])
  THEN CHOOSE c \in DOMAIN members : s \in ToSet(members[c]) ELSE ""

\* A default, or a range, with its condition.
Visible(x, props) ==
  [i \in DOMAIN props |-> [prop |-> props[i], vis |-> MemberDep(x, props[i].if)]]

\* A symbol without a prompt is never visible.
SymbolOf(src, members, x) ==
  [prompt   |-> IF x.prompt = <<>> THEN N ELSE MemberDep(x, x.prompt[1]),
   defaults |-> Visible(x, x.defaults),
   ranges   |-> Visible(x, x.ranges),
   dir      |-> IF x.choice THEN Null ELSE x.dep,
   rev      |-> RevDep(src, x.sym),
   members  |-> members[x.sym],
   choice   |-> ChoiceOf(members, x.sym)]

Table(file, src, tree, members) ==
  [src |-> file, tree |-> tree,
   sym |-> [s \in Symbols(file) |->
              SymbolOf(src, members, CHOOSE x \in ToSet(src) : x.sym = s)]]
WithMembers(file, src, tree) ==
  Table(file, src, tree, [s \in Symbols(file) |-> MembersOf(NodeFor(tree, s))])
WithTree(file, src) == WithMembers(file, src, Tree(src))
Finalize(file) == WithTree(file, Conditioned(file))

(***************************************************************************)
(* Recursive dependencies.  The walk keeps the symbols under way, those    *)
(* already walked, and whether it has reported a recursion; it returns     *)
(* <<walk, symbol>>, the symbol that the recursion came back to or "".     *)
(***************************************************************************)
RECURSIVE CheckDeps(_, _, _), CheckExpr(_, _, _), CheckExprs(_, _, _),
          CheckMembers(_, _, _)

CheckExpr(kc, w, e) ==
  CASE e = Null -> <<w, "">>
    [] e[1] \in {"and", "or"}      -> CheckExprs(kc, w, <<e[2], e[3]>>)
    [] e[1] = "not"                -> CheckExpr(kc, w, e[2])
    [] e[1] \in {"eq", "ne"}       -> CheckExprs(kc, w, <<S(e[2]), S(e[3])>>)
    [] e[1] = "sym"                -> CheckDeps(kc, w, e[2])

CheckExprs(kc, w, es) ==
  IF es = <<>> THEN <<w, "">>
  ELSE LET r == CheckExpr(kc, w, Head(es))
       IN  IF r[2] # "" THEN r ELSE CheckExprs(kc, r[1], Tail(es))

\* Everything the value of s is calculated from.
Used(kc, s) ==
  LET sym == kc.sym[s]
      Default(d) == IF sym.members = <<>> THEN <<d.vis, d.prop.val>> ELSE <<d.vis>>
  IN  <<sym.rev, sym.prompt>>
      \o FlattenSeq([i \in DOMAIN sym.defaults |-> Default(sym.defaults[i])])
      \o [i \in DOMAIN sym.ranges |-> sym.ranges[i].vis]

CheckMembers(kc, w, ms) ==
  IF ms = <<>> THEN <<w, "">>
  ELSE LET r == CheckExprs(kc, w, Used(kc, Head(ms)))
       IN  IF r[2] # "" THEN r ELSE CheckMembers(kc, r[1], Tail(ms))

CheckDeps(kc, w, s) ==
  LET ms == kc.sym[s].members
      group == {s} \cup ToSet(ms)
      Enter(v) == [v EXCEPT !.check = @ \cup group, !.checked = @ \cup group]
      Leave(v) == [v EXCEPT !.check = @ \ group]
      own == CheckExprs(kc, Enter(w), Used(kc, s))
      all == IF ms = <<>> \/ own[2] # "" THEN own
             ELSE CheckMembers(kc, [own[1] EXCEPT !.check = @ \ {s}], ms)
      walked == IF kc.sym[s].choice # "" THEN CheckDeps(kc, w, kc.sym[s].choice)
                ELSE <<Leave(all[1]), all[2]>>
  IN  CASE s \notin DOMAIN kc.sym -> <<w, "">>
        [] s \in DOMAIN kc.sym /\ s \in w.check -> <<[w EXCEPT !.reported = TRUE], s>>
        [] s \in DOMAIN kc.sym /\ s \in w.checked \ w.check -> <<w, "">>
        [] OTHER -> IF walked[2] \in group THEN <<walked[1], "">> ELSE walked

\* No recursion is reported for any of the symbols, walked in the order ss.
\* (The report does not stop the parser: the walk ends at the symbol it came
\* back to, which clears the result that conf_parse counts.)
NoRecursion(kc, ss) ==
  LET start == [check |-> {}, checked |-> {}, reported |-> FALSE]
  IN  ~FoldLeft(LAMBDA w, s : CheckDeps(kc, w, s)[1], start, ss).reported
=============================================================================
