---------------------------- MODULE ConfSaveSpec ----------------------------
(***************************************************************************)
(* What saving a configuration promises, however it is done and wherever   *)
(* it is cut short: the configuration under its name and the version       *)
(* before it are complete files or missing ones; the configuration leaves  *)
(* its name only for the name of the version before, and only when the     *)
(* next one is complete; and no version takes the place of another one     *)
(* that is still the only one.                                             *)
(***************************************************************************)
CONSTANTS Missing,  \* no file
          Part      \* a file that is begun and not complete

VARIABLE disk       \* the files config, old and tmp

Whole(f) == f \notin {Missing, Part}

Init == Part \notin {disk.config, disk.old}

\* Whatever happens to the temporary file.
Prepare == disk'.config = disk.config /\ disk'.old = disk.old

\* The configuration becomes the version before.
Retire ==
  /\ Whole(disk.config) /\ Whole(disk.tmp)
  /\ disk'.old = disk.config
  /\ disk'.config = Missing
  /\ disk'.tmp = disk.tmp

\* What was prepared becomes the configuration.
Publish ==
  /\ disk.config = Missing /\ Whole(disk.tmp)
  /\ disk'.config = disk.tmp
  /\ disk'.tmp = Missing
  /\ disk'.old = disk.old

Next == Prepare \/ Retire \/ Publish

Spec == Init /\ [][Next]_disk
=============================================================================
