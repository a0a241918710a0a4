----------------------------- MODULE ConfWrite -----------------------------
(***************************************************************************)
(* conf_write (src/util/kconfig/libs/parser/confdata.c), one action for    *)
(* each of its system calls that changes a file, in a program that may be  *)
(* killed at any moment and be started again.                              *)
(*                                                                         *)
(*   phase   "off", "menu", or the step of conf_write that was done last:  *)
(*           "opened", "closed", "moved"                                   *)
(***************************************************************************)
EXTENDS ConfFiles

VARIABLE phase

\* The program is off or waits for a key.
Idle == {"off", "menu"}

Init ==
  /\ phase = "off"
  /\ disk = [config |-> disk.config, old |-> disk.old, tmp |-> Missing]
  /\ Part \notin {disk.config, disk.old}

\* Starts, keys, loads, and the end of the program.
Rest ==
  /\ phase \in Idle /\ phase' \in Idle
  /\ UNCHANGED disk

Open ==
  /\ phase = "menu"
  /\ phase' = "opened"
  /\ disk' = Opened(disk)

\* All the lines are written and the file is closed.
Write(lines) ==
  /\ phase = "opened"
  /\ phase' = "closed"
  /\ disk' = Closed(disk, lines)

Keep ==
  /\ phase = "closed"
  /\ phase' = "moved"
  /\ disk' = Moved(disk)

Install ==
  /\ phase = "moved"
  /\ phase' \in Idle
  /\ disk' = Installed(disk)

\* The next session's temporary file has another name.
Kill ==
  /\ phase # "off"
  /\ phase' = "off"
  /\ disk' = [disk EXCEPT !.tmp = Missing]

Next == Rest \/ Open \/ (\E lines : Write(lines)) \/ Keep \/ Install \/ Kill

Spec == Init /\ [][Next]_<<disk, phase>>

-----------------------------------------------------------------------------
(***************************************************************************)
(* What is true after each step, and makes the next one safe: what was     *)
(* closed is whole, and after the first rename the name is free.           *)
(***************************************************************************)
IsDisk == disk = [config |-> disk.config, old |-> disk.old, tmp |-> disk.tmp]

StepsDone ==
  /\ phase \in Idle \cup {"opened", "closed", "moved"}
  /\ Part \notin {disk.config, disk.old}
  /\ phase \in {"closed", "moved"} => Promise!Whole(disk.tmp)
  /\ phase = "moved" => disk.config = Missing

IInv == IsDisk /\ StepsDone

\* The last configuration that was saved is on the disk, or the one before.
SomeCopy == Promise!Whole(disk.config) \/ Promise!Whole(disk.old)
=============================================================================
