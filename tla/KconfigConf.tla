---------------------------- MODULE KconfigConf ----------------------------
(***************************************************************************)
(* Runs of the line-oriented front end conf (frontends/conf/conf.c), each  *)
(* in one of its modes, one after another: they read a configuration or    *)
(* begin with none, give values to symbols that have none or ask the user  *)
(* for them, and write the configuration, a minimal one, or the files that *)
(* a build includes (libs/parser/confdata.c).  A run may be killed.        *)
(*                                                                         *)
(*   kc, order   the Kconfig file, and the order of its hash table         *)
(*   tab         the symbols                                               *)
(*   plan        the modes of this run and of the runs to come             *)
(*   mode        input_mode                                                *)
(*   phase       "off", "new" (conf_set_all_new_symbols), "ask", "write",  *)
(*               or the step of a write that was done last                 *)
(*   todo        what check_conf and conf have yet to do, the next first   *)
(*   cnt         conf_cnt is not zero                                      *)
(*   disk        the files config, old and tmp of conf_write, the minimal  *)
(*               one (defconfig) and a seed                                *)
(* The files of a build, and the steps of conf_write_autoconf on them, are *)
(* in ConfAuto; ConfBuild has them without the rest of the program.        *)
(***************************************************************************)
EXTENDS KconfigFile, ConfAuto

LOCAL INSTANCE SequencesExt

CONSTANTS Source,     \* the Kconfig files, a function from their names
          Orders,     \* for each of them, orders that its hash table may have
          Found,      \* for each of them, the configurations it may start from
          Plans       \* bound: the modes of the runs that follow one another

VARIABLES order, tab, plan, mode, phase, todo, cnt

vars == <<kc, order, tab, plan, mode, phase, todo, cnt, disk, build>>
files == <<disk, build>>

SetNewModes == {"allno", "allyes", "allmod", "alldef", "rand", "def"}
AskModes == {"old", "silentold", "oldask", "olddef", "listnew"}

\* silentoldconfig: sync_kconfig.  (oldask goes on as silentold.)
Sync == Head(plan) = "silentold"

Children(s) == IF s = "" THEN kc.tree ELSE NodeFor(kc.tree, s).list
ToDo(what, s) == [do |-> what, at |-> s]
Each(what, nodes) == [i \in DOMAIN nodes |-> ToDo(what, nodes[i].sym)]

(***************************************************************************)
(* The start of a run.                                                     *)
(***************************************************************************)
Seeded(file) ==
  IF file = Missing THEN ParsedTable(kc)
  ELSE CalcValue(ReadLines(ParsedTable(kc), file).tab, Modules)

Enter(m, p, next) == mode' = m /\ phase' = p /\ todo' = next /\ cnt' = FALSE

\* A file that must be there and is not ends the run with nothing done.
StartNew ==
  /\ phase = "off" /\ plan # <<>> /\ Head(plan) \in SetNewModes
  /\ Enter(Head(plan), "new", <<>>)
  /\ IF Head(plan) = "def"
     THEN disk.defconfig # Missing /\ tab' = ReadFirst(order, disk.defconfig)
     ELSE \E seed \in {Missing, disk.seed} : tab' = Seeded(seed)
  /\ UNCHANGED <<kc, order, plan, files>>

StartAsking ==
  /\ phase = "off" /\ plan # <<>> /\ Head(plan) \in AskModes
  /\ Sync => disk.config # Missing
  /\ Enter(Head(plan), "ask", <<ToDo(IF Head(plan) = "oldask" THEN "conf" ELSE "check", "")>>)
  /\ tab' = ReadFirst(order, disk.config)
  /\ UNCHANGED <<kc, order, plan, files>>

StartMinimal ==
  /\ phase = "off" /\ plan # <<>> /\ Head(plan) = "savedef"
  /\ Enter("savedef", "write", <<>>)
  /\ tab' = ReadFirst(order, disk.config)
  /\ UNCHANGED <<kc, order, plan, files>>

(***************************************************************************)
(* conf_set_all_new_symbols.                                               *)
(***************************************************************************)
IsNew(t, s) == ~t.sym[s].user
NewTristates(t) ==
  {s \in DOMAIN kc.sym : ~Is(s, "int") /\ IsNew(t, s) /\ ~t.sym[s].valid}

\* The values that the mode may give s.
GivenTo(s) ==
  CASE mode = "allyes" -> {Yes}
    [] mode = "allmod" -> {Mod}
    [] mode = "allno"  -> {No}
    [] OTHER -> IF Is(s, "tristate") THEN Tristate ELSE {No, Yes}
GivenMark(s) == ~(IsChoice(s) /\ mode = "rand")
Given(t, v) ==
  [t EXCEPT !.sym = [s \in DOMAIN @ |->
     IF s \in DOMAIN v THEN [@[s] EXCEPT !.dtri = v[s], !.user = @ \/ GivenMark(s)] ELSE @[s]]]

NewChoice(t, c) == IsChoice(c) /\ IsNew(t, c)
MarkNeeding(t) ==
  IF mode = "rand" THEN t
  ELSE [t EXCEPT !.sym = [s \in DOMAIN @ |->
          [@[s] EXCEPT !.need = @ \/ NewChoice(t, s) \/ IsMember(s)]]]

\* randomize_choice_values, member being the one that chance picks.
Randomized(t, c, member) ==
  [t EXCEPT !.sym = [s \in DOMAIN @ |->
     CASE s = c -> [@[s] EXCEPT !.user = TRUE, !.valid = FALSE, !.dval = member]
       [] s \in ToSet(kc.sym[c].members) ->
            [@[s] EXCEPT !.user = TRUE, !.valid = FALSE,
                         !.dtri = IF s = member THEN Yes ELSE No]
       [] OTHER -> @[s]]]

\* A choice that has no value yet; r is [tab, changed].
Completed(t, c, pick) ==
  CASE mode # "rand" -> [tab |-> SetAllChoiceValues(t, c), changed |-> TRUE]
    [] mode = "rand" /\ t.sym[c].tri = Yes -> [tab |-> Randomized(t, c, pick[c]), changed |-> TRUE]
    [] OTHER -> [tab |-> t, changed |-> FALSE]
CompleteChoice(r, c, pick) ==
  IF NewChoice(r.tab, c) THEN Completed(CalcValue(r.tab, c), c, pick) ELSE r
CompleteChoices(t, changed, pick) ==
  FoldLeft(LAMBDA r, c : CompleteChoice(r, c, pick), [tab |-> t, changed |-> changed], order)

\* The members that chance may pick.
Picks ==
  LET choices == {c \in DOMAIN kc.sym : IsChoice(c) /\ mode = "rand"}
  IN  {pick \in [choices -> DOMAIN kc.sym] : \A c \in choices : pick[c] \in ToSet(kc.sym[c].members)}
Values(t) ==
  IF mode \in {"def", "alldef"} THEN {<<>>}
  ELSE {v \in [NewTristates(t) -> Tristate] : \A s \in DOMAIN v : v[s] \in GivenTo(s)}

\* Chance goes on until a pass has found nothing to set.
SetAllNewSymbols ==
  /\ phase = "new"
  /\ \E v \in Values(tab), pick \in Picks :
       LET r == CompleteChoices(MarkNeeding(ClearAllValid(Given(tab, v))),
                                NewTristates(tab) # {}, pick)
       IN  /\ tab' = r.tab
           /\ phase' = IF mode = "rand" /\ r.changed THEN "new" ELSE "write"
  /\ UNCHANGED <<kc, order, plan, mode, todo, cnt, files>>

(***************************************************************************)
(* check_conf: the user is asked about everything once more if there is    *)
(* anything new.                                                           *)
(***************************************************************************)
Top == todo[1]
Then(more) == todo' = more \o Tail(todo)
Asking(what) == phase = "ask" /\ todo # <<>> /\ Top.do = what
SameRun == UNCHANGED <<kc, order, plan, mode, phase, files>>

NodeAt(s) == NodeFor(kc.tree, s)
ShownAt(t, s) == s = "" \/ IsShown(t, NodeAt(s))
Looked(s) == IF s = "" THEN tab ELSE Look(tab, NodeAt(s))

Unanswered(t, s) ==
  /\ s # "" /\ IsNew(t, s)
  /\ IsChangable(t, s) \/ (IsChoice(s) /\ t.sym[s].tri = Yes)
Restarts(t, s) == Unanswered(t, s) /\ mode \notin {"listnew", "olddef"}

CheckConf ==
  /\ Asking("check")
  /\ LET s == Top.at
         t == Looked(s)
         again == ShownAt(t, s) /\ Restarts(t, s)
     IN  /\ tab' = t
         /\ cnt' = (cnt \/ again)
         /\ Then(IF ~ShownAt(t, s) THEN <<>>
                 ELSE (IF again THEN <<ToDo("conf", "")>> ELSE <<>>) \o Each("check", Children(s)))
  /\ SameRun

(***************************************************************************)
(* conf: everything below an entry is asked, or passed by.                 *)
(***************************************************************************)
\* What is to be asked about s and what follows it.
Questions(t, s) ==
  CASE s = ""      -> Each("conf", kc.tree)
    [] IsChoice(s) -> (IF IsChangable(t, s) THEN <<ToDo("value", s)>> ELSE <<>>)
                      \o <<ToDo(IF IsNew(t, s) THEN "choose" ELSE "keep", s), ToDo("members", s)>>
    [] OTHER       -> <<ToDo(IF Is(s, "int") THEN "number" ELSE "value", s)>>
                      \o Each("conf", Children(s))
Conf ==
  /\ Asking("conf")
  /\ LET t == Looked(Top.at)
     IN  /\ tab' = t
         /\ Then(IF ShownAt(t, Top.at) THEN Questions(t, Top.at) ELSE <<>>)
  /\ UNCHANGED cnt /\ SameRun

\* conf_askvalue returns without asking.
Passed(s) ==
  ~IsChangable(tab, s) \/ (mode \in {"old", "silentold"} /\ ~IsNew(tab, s))
Pass ==
  /\ Asking("value") \/ Asking("number")
  /\ Passed(Top.at)
  /\ Then(<<>>)
  /\ UNCHANGED <<tab, cnt>> /\ SameRun

\* conf_sym: a value, or Enter, which is the value that s has.  What is refused
\* is asked again.
AnswerValue ==
  /\ Asking("value") /\ ~Passed(Top.at)
  /\ \E v \in {w \in Tristate : AcceptsTristate(tab, Top.at, w)} :
       tab' = SetTristate(tab, Top.at, v)
  /\ Then(<<>>)
  /\ UNCHANGED cnt /\ SameRun

\* conf_string: a number, or Enter.
AnswerNumber ==
  /\ Asking("number") /\ ~Passed(Top.at)
  /\ LET Calculated(v) == CalcForNumber(tab, Top.at, v)
     IN  \E v \in {w \in DOMAIN Num : AcceptsNumber(Calculated(w), Top.at, w)} :
           tab' = SetNumber(Calculated(v), Top.at, v)
  /\ Then(<<>>)
  /\ UNCHANGED cnt /\ SameRun

\* conf_choice, when the value of the choice is settled: one that is y has a
\* member to set.  Only a choice at m goes on with its members.
LookedMembers(c) == FoldLeft(Look, CalcValue(tab, c), Children(c))
ShownMembers(t, c) == {n \in ToSet(Children(c)) : IsShown(t, n)}
AskingMember == Asking("choose") \/ Asking("keep")

\* The only member, or the one that is the value already, is taken unasked.
Unasked(t, c) ==
  IF Cardinality(ShownMembers(t, c)) = 1 THEN ShownMembers(t, c)
  ELSE {n \in ShownMembers(t, c) :
          n.sym = t.sym[c].val /\ Top.do = "keep" /\ mode \in {"old", "silentold"}}

\* The member n is set, and its children follow.
Choose(t, n) ==
  /\ tab' = SetTristate(t, n.sym, Yes)
  /\ Then(Each("conf", n.list))

PassChoice ==
  /\ AskingMember
  /\ tab' = CalcValue(tab, Top.at)
  /\ tab'.sym[Top.at].tri # Yes
  /\ Then(<<>>)
  /\ UNCHANGED cnt /\ SameRun
KeepMember ==
  /\ AskingMember
  /\ LET t == LookedMembers(Top.at)
     IN  /\ t.sym[Top.at].tri = Yes
         /\ \E n \in Unasked(t, Top.at) : Choose(t, n)
  /\ UNCHANGED cnt /\ SameRun
AnswerMember ==
  /\ AskingMember
  /\ LET t == LookedMembers(Top.at)
     IN  /\ t.sym[Top.at].tri = Yes
         /\ Unasked(t, Top.at) = {}
         /\ \E n \in ShownMembers(t, Top.at) : Choose(t, n)
  /\ UNCHANGED cnt /\ SameRun
ConfMembers ==
  /\ Asking("members")
  /\ Then(IF tab.sym[Top.at].tri = Mod THEN Each("conf", Children(Top.at)) ELSE <<>>)
  /\ UNCHANGED <<tab, cnt>> /\ SameRun

\* Until a pass has asked nothing.  After oldaskconfig only what is new is asked.
CheckAgain ==
  /\ phase = "ask" /\ todo = <<>>
  /\ cnt \/ mode = "oldask"
  /\ Enter(IF mode = "oldask" THEN "silentold" ELSE mode, "ask", <<ToDo("check", "")>>)
  /\ UNCHANGED <<kc, order, tab, plan, files>>
AllAsked ==
  /\ phase = "ask" /\ todo = <<>>
  /\ ~cnt /\ mode # "oldask"
  /\ phase' = "write"
  /\ UNCHANGED <<kc, order, tab, plan, mode, todo, cnt, files>>

(***************************************************************************)
(* The end of a run.                                                       *)
(***************************************************************************)
Exit == Enter("", "off", <<>>) /\ plan' = Tail(plan) /\ tab' = ParsedTable(kc)

\* silentoldconfig has a question but no terminal to ask it on.
Abort ==
  /\ \/ (Asking("value") \/ Asking("number")) /\ ~Passed(Top.at)
     \/ /\ AskingMember
        /\ LET t == LookedMembers(Top.at)
           IN  t.sym[Top.at].tri = Yes /\ Unasked(t, Top.at) = {}
  /\ Sync
  /\ Exit /\ UNCHANGED <<kc, order, files>>

Listed ==
  /\ phase = "write" /\ mode = "listnew"
  /\ Exit /\ UNCHANGED <<kc, order, files>>

Killed ==
  /\ phase # "off"
  /\ Exit
  /\ disk' = [disk EXCEPT !.tmp = Missing]
  /\ UNCHANGED <<kc, order, build>>

(***************************************************************************)
(* conf_write, as KconfigSession has it.  silentoldconfig goes on with     *)
(* conf_write_autoconf, at once if nothing has changed.                    *)
(***************************************************************************)
Step(p) == phase' = p /\ UNCHANGED <<kc, order, plan, mode, todo, cnt>>

OpenTemporary ==
  /\ phase = "write" /\ mode \notin {"listnew", "savedef"}
  /\ Sync => tab.changed
  /\ disk' = Opened(disk)
  /\ Step("opened") /\ UNCHANGED <<tab, build>>
WriteLines(t) == tab' = AfterWrite(t) /\ disk' = Closed(disk, Lines(t))
WriteTemporary ==
  /\ phase = "opened"
  /\ WriteLines(CalcToWrite(tab))
  /\ Step("closed") /\ UNCHANGED build
KeepOld ==
  /\ phase = "closed"
  /\ disk' = Moved(disk)
  /\ Step("moved") /\ UNCHANGED <<tab, build>>
Replace ==
  /\ phase = "moved"
  /\ disk' = Installed(disk) /\ current' = FALSE
  /\ UNCHANGED <<kc, order, auto, header, tristate, touched>>
  /\ IF Sync THEN phase' = "written" /\ tab' = [tab EXCEPT !.changed = FALSE]
                  /\ UNCHANGED <<plan, mode, todo, cnt>>
     ELSE Exit

(***************************************************************************)
(* conf_write_defconfig: what differs from its default.                    *)
(***************************************************************************)
\* sym_get_string_default.  The number is not brought into its range.
UpFromMod(t, s, v) ==
  IF v = Mod /\ (Is(s, "bool") \/ (~IsMember(s) /\ Tri(t, Modules) = No)) THEN Yes ELSE v
DefaultTri(t, s) ==
  UpFromMod(t, s, Or3(t.sym[s].rev,
    IF Default(t, s) = <<>> THEN No
    ELSE And3(Value(t, Default(t, s)[1].prop.val), Value(t, Default(t, s)[1].vis))))
DefaultNumber(t, s) ==
  IF Default(t, s) = <<>> THEN "" ELSE Str(t, Default(t, s)[1].prop.val[2])
IsDefault(t, s) ==
  IF Is(s, "int") THEN t.sym[s].val = DefaultNumber(t, s)
  ELSE Str(t, s) = (CASE DefaultTri(t, s) = Yes -> "y"
                      [] DefaultTri(t, s) = Mod -> "m"
                      [] OTHER -> "n")

Optional(c) == \E i \in DOMAIN kc.src : kc.src[i].sym = c /\ kc.src[i].optional

\* (mutant) The member that is chosen is taken for the default one.
IsChosenMember(t, s) ==
  LET c == kc.sym[s].choice
  IN  IsMember(s) /\ ~Optional(c) /\ s = t.sym[c].val /\ Is(s, "bool") /\ t.sym[s].tri = Yes
\* The default member of a choice, of which one must be y.
IsDefaultMember(t, s) ==
  LET c == kc.sym[s].choice
  IN  /\ IsMember(s)
      /\ ~Optional(c)
      /\ s = ChoiceDefault(t, c)
      /\ Is(s, "bool") /\ t.sym[s].tri = Yes
IsMinimal(t, s) ==
  t.sym[s].write /\ IsChangable(t, s) /\ ~IsDefault(t, s) /\ ~IsDefaultMember(t, s)
MinimalLines(t) ==
  LET kept == SelectSeq(Lined, LAMBDA n : IsMinimal(t, n.sym))
  IN  [i \in DOMAIN kept |-> <<kept[i].sym, Str(t, kept[i].sym)>>]

OpenDefconfig ==
  /\ phase = "write" /\ mode = "savedef"
  /\ disk' = [disk EXCEPT !.defconfig = Part]
  /\ Step("minimal") /\ UNCHANGED <<tab, build>>
CalcDefaults(t) == FoldLeft(LAMBDA u, n : CalcDefaultOf(CalcFirst(u, Defaults(n.sym)), n.sym), t, Lined)
WriteMinimal(t) ==
  disk' = [disk EXCEPT !.defconfig = File(MinimalLines(t))] /\ tab' = AfterWrite(t)
WriteDefconfig ==
  /\ phase = "minimal"
  /\ WriteMinimal(CalcDefaults(CalcMenu(ClearAllValid(tab))))
  /\ Step("saved") /\ UNCHANGED build
SavedDefconfig ==
  /\ phase = "saved"
  /\ Exit /\ UNCHANGED <<kc, order, files>>

(***************************************************************************)
(* conf_write_autoconf.                                                    *)
(***************************************************************************)
\* (mutant) Symbols that have no value are written too.
NamedAll(t) == {s \in DOMAIN kc.sym : ~IsChoice(s)}
Named(t) == {s \in DOMAIN kc.sym : ~IsChoice(s) /\ t.sym[s].write}
Written(t) == [s \in Named(t) |-> Str(t, s)]

SplitConfig ==
  /\ phase = "written" \/ (phase = "write" /\ Sync /\ ~tab.changed)
  /\ tab' = CalcAll(ClearAllValid(tab), order)
  /\ Touch({s \in DOMAIN kc.sym : ~IsChoice(s)}, Written(tab'))
  /\ Step("split") /\ UNCHANGED disk

\* The three files are complete before the first of them gets its name.
RenameHeader ==
  /\ phase = "split" /\ PutHeader(Written(tab))
  /\ Step("header") /\ UNCHANGED <<tab, disk>>
RenameTristate ==
  /\ phase = "header" /\ PutTristate(Written(tab))
  /\ Step("tristate") /\ UNCHANGED <<tab, disk>>
RenameAuto ==
  /\ phase = "tristate" /\ PutAuto(Written(tab))
  /\ Exit /\ UNCHANGED <<kc, order, disk>>

-----------------------------------------------------------------------------
Init ==
  /\ \E p \in DOMAIN Source :
       /\ kc = Finalize(Source[p])
       /\ order \in Orders[p]
       /\ \E f \in Found[p] :
            disk = [config |-> f.config, old |-> f.old, tmp |-> f.tmp, seed |-> f.config,
                    defconfig |-> Missing]
  /\ plan \in Plans
  /\ tab = ParsedTable(kc)
  /\ mode = "" /\ phase = "off" /\ todo = <<>> /\ cnt = FALSE
  /\ auto = {} /\ header = {} /\ tristate = {} /\ touched = {} /\ current = FALSE

Run ==
  \/ StartNew \/ StartAsking \/ StartMinimal \/ SetAllNewSymbols
  \/ CheckConf \/ Conf \/ Pass \/ PassChoice \/ KeepMember \/ ConfMembers
  \/ CheckAgain \/ AllAsked \/ Listed
  \/ OpenTemporary \/ WriteTemporary \/ KeepOld \/ Replace
  \/ OpenDefconfig \/ WriteDefconfig \/ SavedDefconfig
  \/ SplitConfig \/ RenameHeader \/ RenameTristate \/ RenameAuto
Answer == AnswerValue \/ AnswerNumber \/ AnswerMember
Next == Run \/ Answer \/ Abort \/ Killed

Spec == Init /\ [][Next]_vars

\* A run goes on: the program takes its next step, or the user answers its
\* question.  As long as a run is under way some step is possible, and each one
\* changes something.
LiveSpec == Spec /\ ([]<>(phase = "off") \/ []<><<TRUE>>_vars)

-----------------------------------------------------------------------------
(***************************************************************************)
(* Properties.                                                             *)
(***************************************************************************)
SameValues(t, again) ==
  \A s \in DOMAIN kc.sym :
    ~IsChoice(s) => t.sym[s].tri = again.sym[s].tri /\ t.sym[s].val = again.sym[s].val

\* What "conf --defconfig" makes of a file.
FromDefconfig(file) ==
  CompleteChoices(MarkNeeding(ClearAllValid(ReadFirst(order, file))), FALSE, <<>>).tab

\* The minimal configuration says all there is to say: what defconfig makes of
\* it is the configuration that it was made from.
MinimalIsEnough ==
  phase = "saved" => SameValues(CalcAll(tab, order), CalcAll(FromDefconfig(disk.defconfig), order))

\* Nothing is new in a configuration that conf has written: the next oldconfig
\* would ask nothing.
NewIn(t) == {n \in ToSet(Preorder(kc.tree)) : IsShown(t, n) /\ Unanswered(t, n.sym)}
NothingNew ==
  phase = "closed" =>
    LET t == ReadFirst(order, disk.tmp)
    IN  NewIn(FoldLeft(Look, t, Preorder(kc.tree))) = {}

\* What a run does to the files of a build is what ConfBuild has it do, and what
\* it writes there is what is in .config.
Build == INSTANCE ConfBuild WITH step <- phase, values <- Written(tab), AllSymbols <- DOMAIN Type
BuildsAsPromised == Build!BuildSpec

\* A run comes to its end, however often it asks again.
Ends == phase # "off" ~> phase = "off"
=============================================================================
