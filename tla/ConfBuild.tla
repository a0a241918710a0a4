----------------------------- MODULE ConfBuild -----------------------------
(***************************************************************************)
(* conf_write_autoconf (src/util/kconfig/libs/parser/confdata.c) in a      *)
(* program that may be killed after each of its renames, and be started    *)
(* again with other values.                                                *)
(*                                                                         *)
(*   step     what was done last: "split", "header", "tristate", or        *)
(*            anything else when conf_write_autoconf is not under way      *)
(*   values   the string value of every symbol that is to be written       *)
(***************************************************************************)
EXTENDS ConfAuto

CONSTANT AllSymbols    \* all of them (for_all_symbols)

VARIABLES step, values

buildVars == <<disk, build, step, values>>

Building == {"split", "header", "tristate"}

\* What is written for the build is what was saved.
AsSaved == disk.config # Missing => AutoLines(values) = SetLines(disk.config)

BuildInit ==
  /\ auto = {} /\ header = {} /\ tristate = {} /\ touched = {} /\ current = FALSE
  /\ step \notin Building

Split ==
  /\ step \notin Building /\ step' = "split"
  /\ DOMAIN values' \subseteq AllSymbols
  /\ Touch(AllSymbols, values')
  /\ UNCHANGED disk
  /\ AsSaved'
AutoHeader ==
  /\ step = "split" /\ step' = "header"
  /\ PutHeader(values)
  /\ UNCHANGED <<disk, values>>
TristateConf ==
  /\ step = "header" /\ step' = "tristate"
  /\ PutTristate(values)
  /\ UNCHANGED <<disk, values>>
AutoConf ==
  /\ step = "tristate" /\ step' \notin Building
  /\ PutAuto(values)
  /\ UNCHANGED disk

\* The program ends, is killed or started, or changes .config: any other
\* .config is newer than auto.conf.
Outside ==
  /\ step' \notin Building
  /\ \/ current' = current /\ disk'.config \in {disk.config, Missing}
     \/ current' = FALSE
  /\ UNCHANGED <<auto, header, tristate, touched>>

BuildNext == Split \/ AutoHeader \/ TristateConf \/ AutoConf \/ Outside

BuildSpec == BuildInit /\ [][BuildNext]_buildVars

-----------------------------------------------------------------------------
(***************************************************************************)
(* The inductive invariants.                                               *)
(***************************************************************************)
\* auto.conf has one line for a symbol, and while the next one is under way all
\* symbols are touched that will have another.
Lined ==
  /\ \A l \in auto : l = <<l[1], l[2]>> /\ l[1] \in AllSymbols /\ (Is(l[1], "int") \/ l[2] # "n")
  /\ \A k, l \in auto : k[1] = l[1] => k = l
TouchInv ==
  /\ Lined
  /\ step \in Building =>
       /\ DOMAIN values \subseteq AllSymbols
       /\ \A s \in AllSymbols : Differs(values, s) => s \in touched

\* The files that have their names already are those of the values.
AgreeInv ==
  /\ CurrentAgrees
  /\ step \in Building => AsSaved
  /\ step \in {"header", "tristate"} => header = AutoLines(values)
  /\ step = "tristate" => tristate = Tristates(AutoLines(values))
=============================================================================
