------------------------------ MODULE ConfFiles ------------------------------
(***************************************************************************)
(* The files that conf_write (src/util/kconfig/libs/parser/confdata.c)     *)
(* works on, what its system calls do to them, and what it promises.  disk *)
(* is a record of the files .config, .config.old and the temporary one.  A *)
(* file is missing, whole or only begun.  Write errors are left out, and   *)
(* so is KCONFIG_OVERWRITECONFIG, which asks for a file that is written in *)
(* place.                                                                  *)
(***************************************************************************)
VARIABLE disk

Missing     == [is |-> "missing", lines |-> <<>>]
Part        == [is |-> "part", lines |-> <<>>]
File(lines) == [is |-> "whole", lines |-> lines]

Opened(d) == [d EXCEPT !.tmp = Part]
Closed(d, lines) == [d EXCEPT !.tmp = File(lines)]

\* rename does nothing when there is no configuration.
\* (mutant) The version before is removed first.
MovedAfterRemoval(d) == [d EXCEPT !.old = d.config, !.config = Missing]
Moved(d) ==
  IF d.config = Missing THEN d ELSE [d EXCEPT !.old = d.config, !.config = Missing]
Installed(d) == [d EXCEPT !.config = d.tmp, !.tmp = Missing]

-----------------------------------------------------------------------------
Promise == INSTANCE ConfSaveSpec

\* Saving does what it promises.
SavesAsPromised == Promise!Spec

\* Killed at any point, the program leaves a complete configuration if there
\* was one: a file under its name is never partial, and gives way only to a
\* copy of it or to the next one; and where only the version before is left,
\* nothing touches it.
NeverLost ==
  [][/\ disk'.config # Part
     /\ disk.config # Missing => disk.config \in {disk'.config, disk'.old}
     /\ disk.config = Missing => disk'.old = disk.old]_disk
=============================================================================
