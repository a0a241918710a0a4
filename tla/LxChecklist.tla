---------------------------- MODULE LxChecklist ----------------------------
(***************************************************************************)
(* dialog_checklist, the radio list of mconf (libs/lxdialog/checklist.c):  *)
(* the members of a choice, in a window that always has ListRows lines.    *)
(***************************************************************************)
EXTENDS LxItems

CONSTANTS ListRows,   \* list_height
          MaxStray    \* bound: how far the light of an empty list goes

(***************************************************************************)
(* Drawing.  c is the item to begin with, s the scroll position before.    *)
(***************************************************************************)
\* The arrows do not ask where the window ends but where the light is.
ListArrows(l, s, c) ==
  up' = (s > 0) /\ down' = (ListRows < Len(l) /\ s + c < Len(l) - 1)

ListPosition(s, c) ==
  IF c >= ListRows THEN scroll' = c - ListRows + 1 /\ choice' = ListRows - 1
                   ELSE scroll' = s /\ choice' = c
DrawList(l, s, c) ==
  /\ items' = l /\ rows' = ListRows
  /\ ListPosition(s, c)
  /\ win' = [i \in 0 .. ListRows - 1 |->
               IF i < Size(l, ListRows) THEN Line(scroll' + i, i = choice') ELSE Blank]
  /\ ListArrows(l, scroll', choice')

OpenList(l, c) == DrawList(l, 0, c) /\ button' = 0 /\ Opened
ResizeList == DrawList(items, scroll, choice) /\ Redrawn

(***************************************************************************)
(* The keys that move in the list.  The arrows are printed only when the   *)
(* window is scrolled.                                                     *)
(***************************************************************************)
Scrolls(s, k) == Moved(s, choice) /\ ListArrows(items, s, choice) /\ key' = k
Lights(c, k) ==
  /\ IF c # choice THEN Moved(scroll, c)
     ELSE UNCHANGED <<items, rows, scroll, choice, button, win, lit, resized>>
  /\ key' = k /\ UNCHANGED <<up, down>>
Stays(k) == key' = k /\ UNCHANGED <<list, button, lit, resized>>

ListUp ==
  \/ choice > 0 /\ Lights(choice - 1, "up")
  \/ choice = 0 /\ scroll > 0 /\ Scrolls(scroll - 1, "up")
  \/ choice = 0 /\ scroll = 0 /\ Stays("up")

AtEnd == scroll + choice >= Len(items) - 1
\* Where there are no items no line is the last one, and the light goes on from
\* line to line, and out of the window.
ListDown ==
  \/ /\ choice # max_choice - 1
     /\ items = <<>> => scroll + choice < MaxStray
     /\ Lights(choice + 1, "down")
  \/ choice = max_choice - 1 /\ ~AtEnd /\ Scrolls(scroll + 1, "down")
  \/ choice = max_choice - 1 /\ AtEnd /\ Stays("down")

ListLetter(k) == \E i \in Answering(k) : IsFirst(i, Answering(k)) /\ Lights(i, k)
ListTurn(n) == Turn(n, 1) /\ UNCHANGED list

(***************************************************************************)
(* What dialog_checklist returns: the current item, and 0, or 1 for help.  *)
(***************************************************************************)
ListReturns(code) ==
  \/ code = button
  \/ code = 1 /\ \E k \in {"h", "help"} : Answering(k) = {}
=============================================================================
