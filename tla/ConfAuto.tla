------------------------------ MODULE ConfAuto ------------------------------
(***************************************************************************)
(* The files of a build (conf_split_config and conf_write_autoconf in      *)
(* src/util/kconfig/libs/parser/confdata.c) and what their steps do to     *)
(* them.  v is the string value of every symbol that is to be written      *)
(* (SYMBOL_WRITE).  A file is the set of its lines <<symbol, value>>, and  *)
(* empty when it is missing; write errors are left out.                    *)
(*                                                                         *)
(*   auto, header, tristate   auto.conf, autoconf.h and tristate.conf      *)
(*   touched   the symbols whose own header has been touched since         *)
(*             auto.conf was replaced last                                 *)
(*   current   auto.conf is newer than .config                             *)
(***************************************************************************)
EXTENDS KconfigTypes, ConfFiles

VARIABLES auto, header, tristate, touched, current

build == <<auto, header, tristate, touched, current>>

\* "n" is not written, and is never a number.
AutoLines(v) ==
  {<<s, v[s]>> : s \in {w \in DOMAIN v : Is(w, "int") \/ v[w] # "n"}}
Tristates(lines) == {l \in lines : Is(l[1], "tristate")}

\* Whether s has another value than in the last auto.conf, as far as that can
\* be read.
Readable(l) == Meaning(l[1], l[2]) \in {"tri", "val"}
Before(s) == {l \in auto : l[1] = s /\ Readable(l)}
\* (mutant) Symbols that are not written any more are passed over.
DiffersIfWritten(v, s) == s \in DOMAIN v /\ <<s, v[s]>> \notin auto
Differs(v, s) ==
  CASE s \notin DOMAIN v -> Before(s) # {}
    [] Before(s) = {}    -> Is(s, "int") \/ v[s] # "n"
    [] OTHER             -> \A l \in Before(s) : v[s] # l[2]

\* Each of these leaves the other files alone.
Touch(symbols, v) ==
  /\ touched' = touched \cup {s \in symbols : Differs(v, s)}
  /\ UNCHANGED <<auto, header, tristate, current>>
PutHeader(v) ==
  /\ header' = AutoLines(v)
  /\ UNCHANGED <<auto, tristate, touched, current>>
PutTristate(v) ==
  /\ tristate' = Tristates(AutoLines(v))
  /\ UNCHANGED <<auto, header, touched, current>>
PutAuto(v) ==
  /\ auto' = AutoLines(v) /\ touched' = {} /\ current' = TRUE
  /\ UNCHANGED <<header, tristate>>

-----------------------------------------------------------------------------
(***************************************************************************)
(* Properties.                                                             *)
(***************************************************************************)
\* An auto.conf that make takes for current, and the header and the list of
\* modules beside it, have the values of .config.
SetLines(file) == {file.lines[i] : i \in {j \in DOMAIN file.lines : file.lines[j][2] # "n"}}
CurrentAgrees ==
  current /\ disk.config # Missing =>
    /\ auto = SetLines(disk.config)
    /\ header = auto
    /\ tristate = Tristates(auto)

\* Before auto.conf gives a symbol another value, or none, the header that
\* stands for the symbol has been touched since auto.conf gave it the last one,
\* whatever runs were killed in between.  (The old value must be one that can be
\* read: a number that has none is written as an empty string.)
HeadersTouched ==
  [][auto' # auto =>
       /\ \A l \in auto' \ auto : l[1] \in touched
       /\ \A l \in auto \ auto' : Readable(l) => l[1] \in touched]_<<auto, touched>>
=============================================================================
