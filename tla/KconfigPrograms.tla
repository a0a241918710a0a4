-------------------------- MODULE KconfigPrograms --------------------------
(***************************************************************************)
(* The Kconfig files, and the configurations for them, that TLC checks the *)
(* front ends on.                                                          *)
(***************************************************************************)
EXTENDS KconfigFile

LOCAL INSTANCE SequencesExt

MCType ==
  "MODULES" :> "bool" @@ "A" :> "bool" @@ "B" :> "bool" @@ "D" :> "bool" @@
  "T" :> "tristate" @@ "U" :> "tristate" @@ "V" :> "tristate" @@
  "C" :> "bool" @@ "P" :> "bool" @@ "Q" :> "bool" @@
  "K" :> "tristate" @@ "X" :> "tristate" @@ "Z" :> "tristate" @@ "I" :> "int" @@ "J" :> "int"
MCNum == [v \in {"0", "1", "2", "3"} |-> CASE v = "0" -> 0 [] v = "1" -> 1 [] v = "2" -> 2 [] OTHER -> 3]

\* An entry with nothing but a prompt.
Config(s) ==
  [sym |-> s, parent |-> "", dep |-> Null, prompt |-> <<Null>>, defaults |-> <<>>,
   selects |-> <<>>, ranges |-> <<>>, choice |-> FALSE, optional |-> TRUE]
ChoiceEntry(s) == [Config(s) EXCEPT !.choice = TRUE, !.optional = FALSE]
Initially(v)   == <<[val |-> S(v), if |-> Null]>>

MCSource ==
  \* a symbol selected by a tristate although its own dependency is off
  [selects |->
     <<Config("MODULES"),
       [Config("A") EXCEPT !.defaults = Initially("y")],
       [Config("T") EXCEPT !.dep = Or(S("A"), Eq("MODULES", "n")), !.defaults = Initially("m"),
                           !.selects = <<[sym |-> "U", if |-> Ne("A", "n")]>>],
       [Config("U") EXCEPT !.dep = And(S("A"), Not(Not(S("T")))),
                           !.prompt = <<Not(And(Not(S("T")), Not(S("A"))))>>],
       [Config("B") EXCEPT !.dep = Or(S("U"), Not(S("A")))]>>,
   \* a choice that comes and goes, and an entry that depends on a member
   choices |->
     <<[Config("A") EXCEPT !.defaults = Initially("y")],
       [ChoiceEntry("C") EXCEPT !.dep = S("A"), !.defaults = Initially("Q")],
       [Config("P") EXCEPT !.parent = "C"],
       [Config("Q") EXCEPT !.parent = "C", !.prompt = <<Eq("D", "n")>>],
       [Config("B") EXCEPT !.dep = Or(And(S("P"), Ne("P", "n")), And(Eq("A", "n"), S("A")))],
       Config("D")>>,
   \* a choice of modules
   modules |->
     <<[Config("MODULES") EXCEPT !.defaults = Initially("y")],
       [ChoiceEntry("K") EXCEPT !.optional = TRUE],
       [Config("X") EXCEPT !.parent = "K"],
       [Config("Z") EXCEPT !.parent = "K"],
       [Config("V") EXCEPT !.dep = And(Ne("X", "n"), S("X")),
                           !.prompt = <<Or(Eq("X", "y"), Eq("X", "m"))>>]>>,
   \* numbers
   numbers |->
     <<[Config("A") EXCEPT !.defaults = Initially("y")],
       [Config("I") EXCEPT !.dep = S("A"), !.defaults = Initially("2"),
                           !.ranges = <<[lo |-> "1", hi |-> "2", if |-> Not(S("D"))],
                                        [lo |-> "1", hi |-> "3", if |-> Null]>>],
       [Config("J") EXCEPT !.prompt = <<Or(S("A"), And(S("A"), Not(S("D"))))>>,
                           !.defaults = Initially("I")],
       [Config("B") EXCEPT !.prompt = <<>>, !.defaults = <<[val |-> S("y"), if |-> Ne("J", "3")]>>],
       Config("D")>>]

\* The order of the file and, where numbers are reset after they were compared
\* or choices are calculated from their members, its reverse.
MCOrders ==
  [p \in DOMAIN MCSource |->
     LET o == [i \in DOMAIN MCSource[p] |-> MCSource[p][i].sym]
     IN  IF p \in {"modules", "numbers"} THEN {o, Reverse(o)} ELSE {o}]

\* No configuration was ever saved; one was; and a program was killed between
\* the two renames after an earlier one had been.
NoneYet == [config |-> Missing, old |-> Missing, tmp |-> Missing]
Saved(lines) == [NoneYet EXCEPT !.config = File(lines)]
CutShort == [NoneYet EXCEPT !.old = File(<<>>)]

MCFound ==
  [selects |-> {NoneYet, Saved(<<<<"T", "y">>, <<"MODULES", "y">>, <<"A", "n">>>>)},
   choices |-> {CutShort, Saved(<<<<"A", "y">>, <<"P", "y">>, <<"Q", "y">>, <<"OLD", "y">>>>)},
   modules |-> {NoneYet, Saved(<<<<"MODULES", "y">>, <<"X", "m">>, <<"Z", "y">>>>)},
   numbers |-> {CutShort, Saved(<<<<"A", "y">>, <<"I", "3">>, <<"J", "n">>>>),
                \* written before J and D were there
                Saved(<<<<"A", "y">>, <<"I", "2">>, <<"B", "y">>>>)}]
=============================================================================
