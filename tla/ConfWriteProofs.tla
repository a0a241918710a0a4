-------------------------- MODULE ConfWriteProofs --------------------------
(***************************************************************************)
(* conf_write keeps its promise, whatever it writes and wherever it is     *)
(* killed: IInv is inductive, every step of ConfWrite is one of            *)
(* ConfSaveSpec or leaves the disk as it is, and no configuration is lost. *)
(*                                                                         *)
(* conf_write_autoconf (ConfBuild), wherever it is killed, has touched the *)
(* header of a symbol before auto.conf gives the symbol another value, and *)
(* leaves no files that look current and do not agree.                     *)
(***************************************************************************)
EXTENDS ConfWrite, ConfBuild, TLAPS

\* The three kinds of file are different.
LEMMA Kinds ==
  /\ Missing # Part
  /\ \A lines : File(lines) \notin {Missing, Part}
BY DEF Missing, Part, File

\* At the start no step is under way.
LEMMA InvInit == Init => IInv
BY DEF Init, IInv, IsDisk, StepsDone, Idle

\* Each step of conf_write, and a kill before or after it, leaves the files
\* as the next step needs them.
LEMMA InvStep == IInv /\ [Next]_<<disk, phase>> => IInv'
<1> SUFFICES ASSUME IInv, [Next]_<<disk, phase>>
             PROVE  IInv'
  OBVIOUS
<1> USE Kinds DEF IInv, IsDisk, StepsDone, Idle, Promise!Whole
<1>1. CASE Rest
  BY <1>1 DEF Rest
<1>2. CASE Open
  BY <1>2 DEF Open, Opened
<1>3. ASSUME NEW lines, Write(lines)
      PROVE  IInv'
  BY <1>3 DEF Write, Closed
<1>4. CASE Keep
  BY <1>4 DEF Keep, Moved
<1>5. CASE Install
  BY <1>5 DEF Install, Installed
<1>6. CASE Kill
  BY <1>6 DEF Kill
<1>7. CASE UNCHANGED <<disk, phase>>
  BY <1>7
<1> QED
  BY <1>1, <1>2, <1>3, <1>4, <1>5, <1>6, <1>7 DEF Next

\* What each step of conf_write relies on holds whenever it is taken.
THEOREM Inductive == Spec => []IInv
BY InvInit, InvStep, PTL DEF Spec

\* The first rename retires the configuration, the second one publishes the
\* next; all the other steps prepare.
LEMMA PromiseStep == IInv /\ [Next]_<<disk, phase>> => [Promise!Next]_disk
<1> SUFFICES ASSUME IInv, [Next]_<<disk, phase>>
             PROVE  [Promise!Next]_disk
  OBVIOUS
<1> USE Kinds DEF IInv, IsDisk, StepsDone, Promise!Whole, Promise!Next
<1>1. CASE Rest
  BY <1>1 DEF Rest
<1>2. CASE Open
  BY <1>2 DEF Open, Opened, Promise!Prepare
<1>3. ASSUME NEW lines, Write(lines)
      PROVE  Promise!Prepare
  BY <1>3 DEF Write, Closed, Promise!Prepare
<1>4. CASE Keep
  BY <1>4 DEF Keep, Moved, Promise!Retire
<1>5. CASE Install
  BY <1>5 DEF Install, Installed, Promise!Publish
<1>6. CASE Kill
  BY <1>6 DEF Kill, Promise!Prepare
<1>7. CASE UNCHANGED <<disk, phase>>
  BY <1>7
<1> QED
  BY <1>1, <1>2, <1>3, <1>4, <1>5, <1>6, <1>7 DEF Next

\* conf_write implements ConfSaveSpec.
THEOREM Implements == Spec => SavesAsPromised
<1>1. Init => Promise!Init
  BY DEF Init, Promise!Init
<1> QED
  BY <1>1, Inductive, PromiseStep, PTL DEF Spec, SavesAsPromised, Promise!Spec

\* A disk that keeps the promise has no partial file under the two names.
LEMMA NoPart == SavesAsPromised => []Promise!Init
<1>1. Promise!Init /\ [Promise!Next]_disk => Promise!Init'
  BY Kinds DEF Promise!Init, Promise!Next, Promise!Prepare, Promise!Retire,
               Promise!Publish, Promise!Whole
<1> QED
  BY <1>1, PTL DEF SavesAsPromised, Promise!Spec

\* The promise is worth having: whoever keeps it loses no configuration.
LEMMA PromiseIsSafe == SavesAsPromised => NeverLost
<1>1. Promise!Init /\ [Promise!Next]_disk
        => [/\ disk'.config # Part
            /\ disk.config # Missing => disk.config \in {disk'.config, disk'.old}
            /\ disk.config = Missing => disk'.old = disk.old]_disk
  BY Kinds DEF Promise!Init, Promise!Next, Promise!Prepare, Promise!Retire,
               Promise!Publish, Promise!Whole
<1> QED
  BY <1>1, NoPart, PTL DEF SavesAsPromised, Promise!Spec, NeverLost

\* Killed at any point, conf_write has lost no configuration.
THEOREM NothingIsLost == Spec => NeverLost
BY Implements, PromiseIsSafe

\* Once a configuration is complete, through any number of saves and kills one
\* of the two names holds a complete one.
THEOREM AlwaysACopy == Spec => [](SomeCopy => []SomeCopy)
<1>1. IInv /\ SomeCopy /\ [Next]_<<disk, phase>> => SomeCopy'
  <2> SUFFICES ASSUME IInv, SomeCopy, [Promise!Next]_disk
               PROVE  SomeCopy'
    BY PromiseStep
  <2> QED
    BY DEF IInv, StepsDone, SomeCopy, Promise!Whole, Promise!Next,
           Promise!Prepare, Promise!Retire, Promise!Publish
<1> QED
  BY <1>1, Inductive, PTL DEF Spec

(***************************************************************************)
(* The files of a build.                                                   *)
(***************************************************************************)
\* A file has one line for a symbol, with its value.
LEMMA OneLine ==
  ASSUME NEW v, DOMAIN v \subseteq AllSymbols
  PROVE  /\ \A l \in AutoLines(v) :
              /\ l = <<l[1], l[2]>> /\ l[1] \in DOMAIN v /\ l[1] \in AllSymbols
              /\ l[2] = v[l[1]] /\ (Is(l[1], "int") \/ l[2] # "n")
         /\ \A k, l \in AutoLines(v) : k[1] = l[1] => k = l
BY DEF AutoLines

\* A symbol that has a line it did not have has another value than before.
LEMMA NewLineDiffers ==
  ASSUME Lined, NEW v, DOMAIN v \subseteq AllSymbols,
         NEW l \in AutoLines(v), l \notin auto
  PROVE  Differs(v, l[1])
<1>1. l = <<l[1], v[l[1]]>> /\ l[1] \in DOMAIN v /\ (Is(l[1], "int") \/ v[l[1]] # "n")
  BY OneLine
<1>2. \A k \in Before(l[1]) : v[l[1]] # k[2]
  BY <1>1 DEF Before, Lined
<1> QED
  BY <1>1, <1>2 DEF Differs

\* So has one that has a line no more, if that could be read.
LEMMA OldLineDiffers ==
  ASSUME Lined, NEW v, DOMAIN v \subseteq AllSymbols,
         NEW l \in auto, l \notin AutoLines(v), Readable(l)
  PROVE  Differs(v, l[1])
<1>1. l = <<l[1], l[2]>> /\ (Is(l[1], "int") \/ l[2] # "n") /\ Before(l[1]) = {l}
  BY DEF Before, Lined
<1>2. CASE l[1] \in DOMAIN v
  BY <1>1, <1>2 DEF Differs, AutoLines
<1>3. CASE l[1] \notin DOMAIN v
  BY <1>1, <1>3 DEF Differs
<1> QED
  BY <1>2, <1>3

\* Nothing is under way at the start, and there are no files.
LEMMA TouchStart == BuildInit => TouchInv
BY DEF BuildInit, TouchInv, Lined

\* What differs is touched before the first file gets its name, and stays
\* touched until the last one has.
LEMMA TouchStep == TouchInv /\ [BuildNext]_buildVars => TouchInv'
<1> SUFFICES ASSUME TouchInv, [BuildNext]_buildVars
             PROVE  TouchInv'
  OBVIOUS
<1> USE DEF Building
<1>1. CASE Split
  BY <1>1 DEF TouchInv, Lined, Split, Touch, Differs, Before, Readable
<1>2. CASE AutoHeader
  BY <1>2 DEF TouchInv, Lined, AutoHeader, PutHeader, Differs, Before
<1>3. CASE TristateConf
  BY <1>3 DEF TouchInv, Lined, TristateConf, PutTristate, Differs, Before
<1>4. CASE AutoConf
  BY <1>4, OneLine DEF TouchInv, Lined, AutoConf, PutAuto
<1>5. CASE Outside
  BY <1>5 DEF TouchInv, Lined, Outside
<1>6. CASE UNCHANGED buildVars
  BY <1>6 DEF TouchInv, Lined, buildVars, build, Differs, Before
<1> QED
  BY <1>1, <1>2, <1>3, <1>4, <1>5, <1>6 DEF BuildNext

\* Every step that replaces auto.conf finds the headers touched.
LEMMA AutoTouched ==
  ASSUME TouchInv, [BuildNext]_buildVars, auto' # auto
  PROVE  /\ \A l \in auto' \ auto : l[1] \in touched
         /\ \A l \in auto \ auto' : Readable(l) => l[1] \in touched
<1>1. AutoConf
  BY DEF BuildNext, Split, AutoHeader, TristateConf, Outside, buildVars, build,
         Touch, PutHeader, PutTristate
<1>2. auto' = AutoLines(values)
  BY <1>1 DEF AutoConf, PutAuto
<1>3. /\ Lined
      /\ DOMAIN values \subseteq AllSymbols
      /\ \A s \in AllSymbols : Differs(values, s) => s \in touched
  BY <1>1 DEF AutoConf, TouchInv, Building
<1>4. ASSUME NEW l \in auto' \ auto
      PROVE  l[1] \in touched
  BY <1>2, <1>3, <1>4, OneLine, NewLineDiffers
<1>5. ASSUME NEW l \in auto \ auto', Readable(l)
      PROVE  l[1] \in touched
  BY <1>2, <1>3, <1>5, OldLineDiffers DEF Lined
<1> QED
  BY <1>4, <1>5

\* Whatever runs of conf were killed, a header is touched before auto.conf gives
\* its symbol another value, so that make builds again what depends on it.
THEOREM TouchedFirst == BuildSpec => HeadersTouched
<1>1. TouchInv /\ [BuildNext]_buildVars =>
        [auto' # auto =>
           /\ \A l \in auto' \ auto : l[1] \in touched
           /\ \A l \in auto \ auto' : Readable(l) => l[1] \in touched]_<<auto, touched>>
  BY AutoTouched
<1> QED
  BY <1>1, TouchStart, TouchStep, PTL DEF BuildSpec, HeadersTouched

\* At the start nothing looks current.
LEMMA AgreeStart == BuildInit => AgreeInv
BY DEF BuildInit, AgreeInv, CurrentAgrees, Building

\* The files that are there while the next are written agree with .config.
LEMMA AgreeStep ==
  AgreeInv /\ [BuildNext]_buildVars => AgreeInv'
<1> SUFFICES ASSUME AgreeInv, [BuildNext]_buildVars
             PROVE  AgreeInv'
  OBVIOUS
<1> USE DEF Building, CurrentAgrees, AgreeInv, AsSaved
<1>1. CASE Split
  BY <1>1 DEF Split, Touch
<1>2. CASE AutoHeader
  BY <1>2 DEF AutoHeader, PutHeader
<1>3. CASE TristateConf
  BY <1>3 DEF TristateConf, PutTristate
<1>4. CASE AutoConf
  BY <1>4 DEF AutoConf, PutAuto
<1>5. CASE Outside
  BY <1>5 DEF Outside
<1>6. CASE UNCHANGED buildVars
  BY <1>6 DEF buildVars, build
<1> QED
  BY <1>1, <1>2, <1>3, <1>4, <1>5, <1>6 DEF BuildNext

\* auto.conf, the header and the list of modules agree with .config whenever
\* make takes them for current, whatever runs were killed.
THEOREM BuildAgrees == BuildSpec => []CurrentAgrees
<1>1. AgreeInv => CurrentAgrees
  BY DEF AgreeInv
<1> QED
  BY <1>1, AgreeStart, AgreeStep, PTL DEF BuildSpec
=============================================================================
