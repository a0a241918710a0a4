---------------------------- MODULE KconfigExpr ----------------------------
(***************************************************************************)
(* The dependency expressions of Kconfig and the rewriting that the parser *)
(* applies to them (src/util/kconfig/libs/parser/expr.c).                  *)
(*                                                                         *)
(* An expression is a tuple whose first element is its type: a symbol, a   *)
(* comparison of two symbols, or a connective over expressions.  expr.c    *)
(* rewrites trees in place through pointers to their edges; here such a    *)
(* pointer is a path, the sequence of tuple indices from the root to the   *)
(* node, so that two pointers into the same tree are told apart as they    *)
(* are in C.  The operators are recursive: the module is for TLC only.     *)
(***************************************************************************)
EXTENDS Naturals, Sequences, KconfigTypes

LOCAL INSTANCE SequencesExt

No  == 0
Mod == 1
Yes == 2
Tristate == {No, Mod, Yes}

And3(x, y) == IF x < y THEN x ELSE y
Or3(x, y)  == IF x > y THEN x ELSE y
Not3(x)    == 2 - x

(***************************************************************************)
(* Construction.  Null is the missing expression, which means yes.         *)
(***************************************************************************)
Null      == <<"null">>
S(s)      == <<"sym", s>>
Eq(s, t)  == <<"eq", s, t>>
Ne(s, t)  == <<"ne", s, t>>
Not(e)    == <<"not", e>>
And(e, f) == <<"and", e, f>>
Or(e, f)  == <<"or", e, f>>

Y == S("y")
M == S("m")
N == S("n")

AllocAnd(e, f) == IF e = Null THEN f ELSE IF f = Null THEN e ELSE And(e, f)
AllocOr(e, f)  == IF e = Null THEN f ELSE IF f = Null THEN e ELSE Or(e, f)

\* The neutral element of a connective.
Unit(type) == IF type = "and" THEN Y ELSE N

At(w, p) == FoldLeft(LAMBDA x, i : x[i], w, p)

RECURSIVE Put(_, _, _)
Put(w, p, x) ==
  IF p = <<>> THEN x ELSE [w EXCEPT ![Head(p)] = Put(@, Tail(p), x)]

Left(p)  == p \o <<2>>
Right(p) == p \o <<3>>

(***************************************************************************)
(* Equality up to the order and repetition of conjuncts and disjuncts, and *)
(* the removal of constants.                                               *)
(***************************************************************************)
RECURSIVE EliminateYn(_)

\* A connective whose operands have no more constants to remove.
DropConstants(type, l, r) ==
  LET zero == IF type = "and" THEN N ELSE Y
  IN  CASE zero \in {l, r} -> zero
        [] l = Unit(type)  -> r
        [] r = Unit(type)  -> l
        [] OTHER           -> <<type, l, r>>

EliminateYn(e) ==
  IF e[1] \notin {"and", "or"} THEN e
  ELSE DropConstants(e[1], EliminateYn(e[2]), EliminateYn(e[3]))

RECURSIVE ExprEq(_, _), EliminateEqAt(_, _, _, _, _, _)

\* Cancels the operands, under type, that the trees at p and q of w share.
EliminateEqIn(type, w, p, q) == EliminateEqAt(type, w, p, q, At(w, p), At(w, q))

\* The same, e and f being these trees.
EliminateEqAt(type, w, p, q, e, f) ==
  CASE e[1] = type ->
         EliminateEqIn(type, EliminateEqIn(type, w, Left(p), q), Right(p), q)
    [] e[1] # type /\ f[1] = type ->
         EliminateEqIn(type, EliminateEqIn(type, w, p, Left(q)), p, Right(q))
    [] OTHER ->
         IF (e = f /\ e \in {Y, N}) \/ ~ExprEq(e, f) THEN w
         ELSE Put(Put(w, p, Unit(type)), q, Unit(type))

\* w is a pair of trees, and type the type of one of them.
EliminateEqOf(w, type) ==
  IF type \in {"and", "or"} THEN EliminateEqIn(type, w, <<1>>, <<2>>) ELSE w
EliminateEqFirst(w) == EliminateEqOf(w, w[1][1])
EliminateEqSecond(w) == IF w[1][1] # w[2][1] THEN EliminateEqOf(w, w[2][1]) ELSE w
WithoutYn(w) == [w EXCEPT ![1] = EliminateYn(@), ![2] = EliminateYn(@)]
EliminateEq(w) == WithoutYn(EliminateEqSecond(EliminateEqFirst(w)))

SameSymbol(w) == w[1][1] = "sym" /\ w[1] = w[2]
ExprEq(e, f) ==
  /\ e[1] = f[1]
  /\ CASE e[1] \in {"sym", "eq", "ne"} -> e = f
       [] e[1] = "not"                 -> ExprEq(e[2], f[2])
       [] e[1] \in {"and", "or"}       -> SameSymbol(EliminateEq(<<e, f>>))

(***************************************************************************)
(* expr_extract_eq: w is <<e, f, common>>; the operands that e and f share *)
(* under type are moved into common.                                       *)
(***************************************************************************)
RECURSIVE ExtractEqAt(_, _, _, _, _, _)
ExtractEqIn(type, w, p, q) == ExtractEqAt(type, w, p, q, At(w, p), At(w, q))
ExtractEqAt(type, w, p, q, e, f) ==
  CASE e[1] = type ->
         ExtractEqIn(type, ExtractEqIn(type, w, Left(p), q), Right(p), q)
    [] e[1] # type /\ f[1] = type ->
         ExtractEqIn(type, ExtractEqIn(type, w, p, Left(q)), p, Right(q))
    [] OTHER ->
         IF ~ExprEq(e, f) THEN w
         ELSE Put(Put([w EXCEPT ![3] = IF @ = Null THEN e ELSE <<type, @, e>>],
                      p, Unit(type)), q, Unit(type))

Extracted(w) == IF w[3] = Null THEN w ELSE WithoutYn(w)
ExtractEq(type, e, f) == Extracted(ExtractEqIn(type, <<e, f, Null>>, <<1>>, <<2>>))

(***************************************************************************)
(* Normalisation: comparisons of booleans become plain symbols, negation   *)
(* moves down to the symbols.                                              *)
(***************************************************************************)
RECURSIVE Transform(_)

\* A comparison, once its operands are known.
TransformCompare(e) ==
  LET equal == e[1] = "eq"
      s == S(e[2])
  IN  CASE ~Is(e[2], "bool") \/ e[3] \notin {"y", "m", "n"} -> e
        [] e[3] = "y" -> IF equal THEN s ELSE Not(s)
        [] e[3] = "m" -> IF equal THEN N ELSE Y
        [] e[3] = "n" -> IF equal THEN Not(s) ELSE s

\* Two negations are taken for one.
TransformNotOnce(f) ==
  CASE f[1] = "not" -> f
    [] f[1] = "eq"  -> Ne(f[2], f[3])
    [] f[1] = "ne"  -> Eq(f[2], f[3])
    [] f[1] = "or"  -> Transform(And(Not(f[2]), Not(f[3])))
    [] f[1] = "and" -> Transform(Or(Not(f[2]), Not(f[3])))
    [] OTHER        -> Not(f)

\* A negation, once its operand f is transformed.
TransformNot(f) ==
  CASE f[1] = "not" -> Transform(f[2])
    [] f[1] = "eq"  -> Ne(f[2], f[3])
    [] f[1] = "ne"  -> Eq(f[2], f[3])
    [] f[1] = "or"  -> Transform(And(Not(f[2]), Not(f[3])))
    [] f[1] = "and" -> Transform(Or(Not(f[2]), Not(f[3])))
    [] f[1] = "sym" -> CASE f = Y -> N [] f = M -> M [] f = N -> Y
                         [] OTHER -> Not(f)

Transform(e) ==
  CASE e[1] \in {"null", "sym"} -> e
    [] e[1] \in {"eq", "ne"}    -> TransformCompare(e)
    [] e[1] \in {"and", "or"}   -> <<e[1], Transform(e[2]), Transform(e[3])>>
    [] e[1] = "not"             -> TransformNot(Transform(e[2]))

\* FOO != n becomes FOO where only zero or not zero matters.
RECURSIVE TransBool(_)
TransBool(e) ==
  CASE e[1] \in {"and", "or"} -> <<e[1], TransBool(e[2]), TransBool(e[3])>>
    [] e[1] = "not"           -> Not(TransBool(e[2]))
    [] e[1] = "ne" /\ Is(e[2], "tristate") /\ e[3] = "n" -> S(e[2])
    [] OTHER                  -> e

(***************************************************************************)
(* expr_join_or, expr_join_and: one expression for two, or Null.           *)
(***************************************************************************)
Simple == {"sym", "eq", "ne"}

\* The symbol that an operand is about, "" when the code gives up on it.
\* The first operand may be a negated comparison, the second may not.
Subject1(e) == IF e[1] \in Simple THEN e[2]
               ELSE IF e[1] = "not" /\ e[2][1] \in Simple THEN e[2][2] ELSE ""
Subject2(f) == IF f[1] \in Simple THEN f[2]
               ELSE IF f[1] = "not" /\ f[2][1] = "sym" THEN f[2][2] ELSE ""

SameSubject(e, f) ==
  /\ Subject1(e) # ""
  /\ Subject1(e) = Subject2(f)
  /\ Is(Subject1(e), "bool") \/ Is(Subject1(e), "tristate")

\* The value other than s and t of {"y", "m", "n"}.
Third(s, t) == CHOOSE v \in {"y", "m", "n"} : v \notin {s, t}
TwoOf(s, t) == s # t /\ {s, t} \subseteq {"y", "m", "n"}

EitherWay(e, f, x, y) == <<e, f>> \in {<<x, y>>, <<y, x>>}

\* Two operands about the symbol s.
JoinOrOf(s, e, f) ==
  CASE Is(s, "tristate") /\ e[1] = "eq" /\ f[1] = "eq" /\ TwoOf(e[3], f[3]) ->
         Ne(s, Third(e[3], f[3]))
    [] Is(s, "bool") /\ EitherWay(e, f, Not(S(s)), S(s)) -> Y
    [] OTHER -> Null

\* a = 'x' && a != 'y', both constants.
JoinEqNe(s, x, y) == IF x # y THEN Eq(s, x) ELSE N
JoinAndOf(s, e, f) ==
  CASE EitherWay(e, f, S(s), Eq(s, "y")) -> Eq(s, "y")
    [] EitherWay(e, f, S(s), Ne(s, "n")) -> S(s)
    [] EitherWay(e, f, S(s), Ne(s, "m")) -> Eq(s, "y")
    [] ~Is(s, "tristate")                -> Null
    [] e[1] = "eq" /\ f[1] = "ne" /\ IsConst(e[3]) /\ IsConst(f[3]) -> JoinEqNe(s, e[3], f[3])
    [] e[1] = "ne" /\ f[1] = "eq" /\ IsConst(e[3]) /\ IsConst(f[3]) -> JoinEqNe(s, f[3], e[3])
    [] e[1] = "ne" /\ f[1] = "ne" /\ TwoOf(e[3], f[3]) -> Eq(s, Third(e[3], f[3]))
    [] OTHER -> Null

Join(type, e, f) ==
  CASE ExprEq(e, f)     -> e
    [] SameSubject(e, f) -> IF type = "or" THEN JoinOrOf(Subject1(e), e, f)
                                           ELSE JoinAndOf(Subject1(e), e, f)
    [] OTHER             -> Null

(***************************************************************************)
(* expr_eliminate_dups: w is <<tree, changed>>, so every path into the     *)
(* tree begins with 1.                                                     *)
(***************************************************************************)
RECURSIVE Dups1At(_, _, _, _, _, _), Dups2At(_, _, _, _, _, _), EliminateDups(_)

Replaced(w, p, x) == [Put(w, p, x) EXCEPT ![2] = TRUE]

\* Joins every operand under type at p with every other one at q.
Dups1(type, w, p, q) == Dups1At(type, w, p, q, At(w, p), At(w, q))
Joined(type, w, p, q, x) == IF x = Null THEN w ELSE Put(Replaced(w, p, Unit(type)), q, x)
JoinIn(type, w, p, q) == Joined(type, w, p, q, Join(type, At(w, p), At(w, q)))
Dups1At(type, w, p, q, e, f) ==
  CASE e[1] = type -> Dups1(type, Dups1(type, w, Left(p), q), Right(p), q)
    [] e[1] # type /\ f[1] = type -> Dups1(type, Dups1(type, w, p, Left(q)), p, Right(q))
    [] e[1] # type /\ f[1] # type /\ p = q -> w
    [] OTHER ->
         JoinIn(type, IF e[1] \in {"and", "or"} THEN Dups1(e[1], w, p, p) ELSE w, p, q)

\* An alternative all of whose operands are contradicted by the tree at q is
\* void: (a || b) && (!a && !b) -> n, and (a && b) || (!a || !b) -> y.
Dups2(type, w, p, q) == Dups2At(type, w, p, q, At(w, p), At(w, q))
Dual(type) == IF type = "or" THEN "and" ELSE "or"
Contradicted(type, e, f) ==
  ExtractEq(Dual(type), Transform(Not(e)), f)[1] = Unit(Dual(type))
VoidIn(w, p, q, type) ==
  IF Contradicted(type, At(w, p), At(w, q)) THEN Replaced(w, p, Unit(type)) ELSE w
Dups2Of(w, p, q, type) ==
  IF type \notin {"and", "or"} THEN w ELSE VoidIn(Dups2(type, w, p, p), p, q, type)
Dups2Here(w, p, q) == IF p = q THEN w ELSE Dups2Of(w, p, q, At(w, p)[1])
Dups2At(type, w, p, q, e, f) ==
  IF e[1] = type THEN Dups2(type, Dups2(type, w, Left(p), q), Right(p), q)
  ELSE Dups2Here(IF f[1] = type THEN Dups2(type, Dups2(type, w, p, Left(q)), p, Right(q))
                                ELSE w, p, q)

DupsPass1(w) == Dups1(w[1][1], w, <<1>>, <<1>>)
DupsPass2(w) == Dups2(w[1][1], w, <<1>>, <<1>>)
DupsAgain(w) == IF w[2] THEN EliminateDups(EliminateYn(w[1])) ELSE w[1]
EliminateDups(e) ==
  IF e[1] \notin {"and", "or"} THEN e
  ELSE DupsAgain(DupsPass2(DupsPass1(<<e, FALSE>>)))

(***************************************************************************)
(* Questions the menu builder asks.                                        *)
(***************************************************************************)
RECURSIVE ContainsSymbol(_, _), DependsSymbol(_, _), TransCompare(_, _, _)

ContainsSymbol(e, s) ==
  CASE e[1] \in {"and", "or"} -> ContainsSymbol(e[2], s) \/ ContainsSymbol(e[3], s)
    [] e[1] = "not"           -> ContainsSymbol(e[2], s)
    [] e[1] = "sym"           -> e[2] = s
    [] e[1] \in {"eq", "ne"}  -> s \in {e[2], e[3]}
    [] OTHER                  -> FALSE

\* e cannot hold when s is n.
DependsSymbol(e, s) ==
  CASE e[1] = "and" -> DependsSymbol(e[2], s) \/ DependsSymbol(e[3], s)
    [] e[1] = "sym" -> e[2] = s
    [] e[1] = "eq"  -> e[2] = s /\ e[3] \in {"y", "m"}
    [] e[1] = "ne"  -> e[2] = s /\ e[3] = "n"
    [] OTHER        -> FALSE

\* The expression that says e = s (type "eq") or e != s (type "ne"), for the
\* constants y and n.
TransCompare(e, type, s) ==
  LET l == TransCompare(e[2], "eq", s)
      r == TransCompare(e[3], "eq", s)
      dual == IF e[1] = "and" THEN "or" ELSE "and"
      both == <<IF s = "y" THEN e[1] ELSE dual, l, r>>
      If(c, f) == IF c THEN f ELSE Not(f)
  IN  CASE e = Null  -> If(type = "eq", S(s))
        [] e[1] \in {"and", "or"} -> If(type = "eq", both)
        [] e[1] = "not" -> TransCompare(e[2], IF type = "eq" THEN "ne" ELSE "eq", s)
        [] e[1] \in {"eq", "ne"} -> If((type = "eq") = (s = "y"), e)
        [] e[1] = "sym" -> <<type, e[2], s>>
=============================================================================
