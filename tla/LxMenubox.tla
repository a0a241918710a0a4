----------------------------- MODULE LxMenubox -----------------------------
(***************************************************************************)
(* dialog_menu, the menu of mconf (libs/lxdialog/menubox.c).               *)
(*                                                                         *)
(*   first_item  the item that is printed in the first line when the       *)
(*               window is drawn                                           *)
(*   active      the entry to begin with (selected)                        *)
(*   s_scroll    the first line that the caller keeps for the menu         *)
(*   aligned     a history variable: when the window was drawn it showed   *)
(*               the items that the keys move through                      *)
(***************************************************************************)
EXTENDS LxItems

CONSTANT None     \* no entry

VARIABLES first_item, active, s_scroll, aligned

origin == <<first_item, active, s_scroll, aligned>>

(***************************************************************************)
(* Drawing the list l in r lines, when the menu is opened and when the     *)
(* terminal has another size; s is what the caller keeps, f and c are      *)
(* first_item and choice before, or 0.                                     *)
(***************************************************************************)
\* The item to begin with, if it is in the list.
Defaults(l, a, c) ==
  IF \E i \in DOMAIN l : l[i] = a THEN {i \in 0 .. Len(l) - 1 : l[i + 1] = a} ELSE {c}

Fits(l, r, s, c) ==
  s >= 0 /\ s <= c /\ c < s + Size(l, r) /\ s + Size(l, r) <= Len(l)
Centre(l, r, c) ==
  IF c >= Len(l) - Size(l, r) \div 2 THEN Len(l) - Size(l, r) ELSE c - Size(l, r) \div 2

Position(l, r, s, f, c) ==
  \/ /\ Fits(l, r, s, c)
     /\ scroll' = s /\ first_item' = s /\ choice' = c - s
  \/ /\ ~Fits(l, r, s, c) /\ c >= Size(l, r)
     /\ scroll' = Centre(l, r, c) /\ first_item' = scroll' /\ choice' = c - scroll'
  \/ /\ ~Fits(l, r, s, c) /\ c < Size(l, r)
     /\ scroll' = 0 /\ first_item' = f /\ choice' = c

Arrows(l, r) == up' = (scroll' > 0) /\ down' = (r < Len(l) /\ scroll' + r < Len(l))

Draw(l, r, s, f, c) ==
  /\ items' = l /\ rows' = r
  /\ Position(l, r, s, f, c)
  /\ win' = [i \in 0 .. r - 1 |-> IF i < Size(l, r) THEN Line(first_item' + i, i = choice')
                                                   ELSE Blank]
  /\ aligned' = (first_item' = scroll')
  /\ Arrows(l, r)

OpenMenu(l, r) ==
  /\ \E c \in Defaults(l, active', 0) : Draw(l, r, s_scroll', 0, c)
  /\ button' = 0 /\ Opened

\* first_item is what it was, if the position does not fit and is in the first
\* lines: the window may show other items than those that the keys move through,
\* or have no items to show.
Redraw(r, c) ==
  /\ Draw(items, r, s_scroll, first_item, c)
  /\ Redrawn
  /\ UNCHANGED <<active, s_scroll>>
Overrun(r, c) ==
  /\ ~Fits(items, r, s_scroll, c)
  /\ c < Size(items, r)
  /\ first_item + Size(items, r) > Len(items)
ResizeMenu(r) ==
  \E c \in Defaults(items, active, choice) : ~Overrun(r, c) /\ Redraw(r, c)

(***************************************************************************)
(* The keys that move in the list.  An empty one ignores them.             *)
(***************************************************************************)
Go(s, c, k) ==
  /\ items # <<>>
  /\ Moved(s, c)
  /\ Arrows(items, rows)
  /\ key' = k
  /\ UNCHANGED origin
MenuIdle ==
  /\ items = <<>>
  /\ key' \in {"up", "down", "ppage", "npage"}
  /\ UNCHANGED <<list, origin, button, lit, resized>>

\* (mutant) The second line from the top may be the first one in the list.
ScrollsUp_Second == choice < 2
ScrollsUp == choice < 2 /\ scroll # 0
ScrollsDown == choice > max_choice - 3 /\ scroll + max_choice < Len(items)

MenuUp ==
  Go(IF ScrollsUp THEN scroll - 1 ELSE scroll,
     IF ScrollsUp THEN choice ELSE Greater(choice - 1, 0), "up")
MenuDown ==
  Go(IF ScrollsDown THEN scroll + 1 ELSE scroll,
     IF ScrollsDown THEN choice ELSE Lesser(choice + 1, max_choice - 1), "down")

\* A page is max_choice times a line: first the window moves, then the light.
MenuPageUp ==
  LET s == Greater(scroll - max_choice, 0)
  IN  Go(s, Greater(choice - (max_choice - (scroll - s)), 0), "ppage")
MenuPageDown ==
  LET s == Lesser(scroll + max_choice, Len(items) - max_choice)
  IN  Go(s, Lesser(choice + (max_choice - (s - scroll)), max_choice - 1), "npage")

\* The next line that answers to the key, or the first one.  Four letters are
\* commands in every menu.
Exempt == {"y", "n", "m", "h"}
Found(k) == k \notin Exempt /\ Answering(k) # {}
MenuLetter(k) ==
  /\ Found(k)
  /\ LET below == {i \in Answering(k) : i > choice}
     IN  \E i \in Answering(k) :
           /\ IsFirst(i, IF below # {} THEN below ELSE Answering(k))
           /\ Go(scroll, i, k)

MenuTurn(n) == Turn(n, 4) /\ UNCHANGED <<list, origin>>

(***************************************************************************)
(* What dialog_menu returns.                                               *)
(***************************************************************************)
\* The entry of the current item; an empty menu has none.
Current == IF items = <<>> THEN None ELSE items[scroll + choice + 1]

Code == [h |-> 2, help |-> 2, s |-> 5, y |-> 5, n |-> 6, m |-> 7, space |-> 8, slash |-> 9, z |-> 10]
Returns(code) ==
  \/ code = button
  \/ \E k \in DOMAIN Code : code = Code[k] /\ ~Found(k)
=============================================================================
