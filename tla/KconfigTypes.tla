---------------------------- MODULE KconfigTypes ----------------------------
(***************************************************************************)
(* The types of the symbols of a Kconfig file, and what the strings mean   *)
(* that stand for values in a configuration                                *)
(* (src/util/kconfig/libs/parser/confdata.c, expr.h).                      *)
(***************************************************************************)
CONSTANTS Type,    \* the type of every symbol: "bool", "tristate" or "int"
          Num      \* the number that every numeric string stands for

\* "y", "m", "n" and numbers are constants, the rest are config symbols.
IsConst(s)  == s \notin DOMAIN Type
Is(s, type) == ~IsConst(s) /\ Type[s] = type

\* What a line sets its own symbol to, or "bad" if it is skipped with a
\* warning.  A number cannot be "not set": that line does nothing.
Meaning(s, v) ==
  CASE Is(s, "int") -> IF v = "n" THEN "none" ELSE IF v \in DOMAIN Num THEN "val" ELSE "bad"
    [] v = "m" /\ Is(s, "bool") -> "bad"
    [] OTHER -> IF v \in {"y", "m", "n"} THEN "tri" ELSE "bad"
=============================================================================
