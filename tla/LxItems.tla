------------------------------ MODULE LxItems ------------------------------
(***************************************************************************)
(* A list on the screen, as the menu and the radio list of lxdialog have   *)
(* it (libs/lxdialog): the items of util.c, a window of some lines that    *)
(* shows a part of them.  The window is drawn once.                        *)
(* After that it is scrolled, and single lines of it are printed.          *)
(*                                                                         *)
(*   items           the entries in the list                               *)
(*   rows            the height of the window                              *)
(*   scroll, choice  the item in its first line, and the line that is lit  *)
(*   win             the lines of the window: the number of the item that  *)
(*                   a line shows and whether it is lit, or Blank          *)
(*   up, down        the arrows that are shown                             *)
(***************************************************************************)
EXTENDS LxButtons, Sequences

CONSTANTS Entries, \* what items stand for: entries of a menu, members of a choice
          KeyOf,   \* the key that an item answers to
          Blank

VARIABLES items, rows, scroll, choice, win, up, down

list == <<items, rows, scroll, choice, win, up, down>>

Lesser(a, b) == IF a < b THEN a ELSE b
Greater(a, b) == IF a > b THEN a ELSE b
Size(l, r) == Lesser(r, Len(l))
max_choice == Size(items, rows)

Line(n, l) == [item |-> n, lit |-> l]
Unlit == [win EXCEPT ![choice] = Line(scroll + choice, FALSE)]

\* The window is scrolled until item s is in its first line, and the lines that
\* come in are printed.
Scrolled(w, s) ==
  [i \in DOMAIN w |-> IF i + s - scroll \in DOMAIN w THEN w[i + s - scroll]
                                                     ELSE Line(s + i, FALSE)]

\* The light moves from its line to line c of the window that begins with item s.
Moved(s, c) ==
  /\ scroll' = s /\ choice' = c
  /\ win' = [Scrolled(Unlit, s) EXCEPT ![c] = Line(s + c, TRUE)]
  /\ UNCHANGED <<items, rows, button, lit, resized>>

\* The lines of the window that answer to a key.
Answering(k) == {i \in 0 .. max_choice - 1 : KeyOf[items[scroll + i + 1]] = k}
IsFirst(i, lines) == i \in lines /\ \A j \in lines : i <= j

NoList ==
  /\ items' = <<>> /\ rows' = 0 /\ scroll' = 0 /\ choice' = 0 /\ win' = <<>>
  /\ up' = FALSE /\ down' = FALSE
=============================================================================
