----------------------------- MODULE DialogSpec -----------------------------
(***************************************************************************)
(* What the dialogs of a menu program promise to its user: a list with a   *)
(* light on one item, of which a part is in sight, or a text with a cursor *)
(* in it.  key is the key that was pressed last, "none" when a dialog has  *)
(* just been opened and "resize" when the terminal has another size.       *)
(*                                                                         *)
(*   items, at         the list, and the item that is lit                  *)
(*   top, size         the first item in sight, and how many may be        *)
(*   depth, active     how deep the menu is, and the entry that it was     *)
(*                     left for                                            *)
(*   before, after     the text on both sides of the cursor                *)
(***************************************************************************)
EXTENDS Integers, Sequences

CONSTANTS KeyOf, Chars, MaxLen

VARIABLES view, key, items, at, top, size, depth, active, before, after

vars == <<view, key, items, at, top, size, depth, active, before, after>>
content == <<items, size, depth, active>>
place == <<at, top>>
written == <<before, after>>

Count == Len(items)
Smaller(a, b) == IF a < b THEN a ELSE b
Larger(a, b) == IF a > b THEN a ELSE b
Far(a, b) == IF a < b THEN b - a ELSE a - b

\* An empty list has no item to be lit, and no part to be in sight.
InSight == IF items = <<>> THEN at = 0 /\ top = 0
           ELSE at \in 0 .. Count - 1 /\ top \in 0 .. at /\ at < top + size

(***************************************************************************)
(* The light moves by an item or by what is in sight, and stops at the     *)
(* ends; or it goes to an item in sight that answers to the key.  The part *)
(* in sight moves no further than the light.  In an empty list keys do     *)
(* nothing.                                                                *)
(***************************************************************************)
ByKey ==
  \/ key' = "up" /\ at' = Larger(at - 1, 0)
  \/ key' = "down" /\ at' = Smaller(at + 1, Count - 1)
  \/ view = "menu" /\ key' = "ppage" /\ at' = Larger(at - Smaller(size, Count), 0)
  \/ view = "menu" /\ key' = "npage" /\ at' = Smaller(at + Smaller(size, Count), Count - 1)
  \/ key' = KeyOf[items[at' + 1]] /\ top' = top
  \/ key' = "turn" /\ UNCHANGED place
Move ==
  /\ view \in {"menu", "choice"}
  /\ UNCHANGED <<view, content, written>>
  /\ InSight' /\ Far(top, top') <= Far(at, at')
  /\ IF items = <<>> THEN UNCHANGED place ELSE ByKey

(***************************************************************************)
(* Characters are put in, and taken out, on the left of the cursor.        *)
(***************************************************************************)
TypeIn(c) == key' = "char" /\ before' = Append(before, c) /\ UNCHANGED after
Full == key' = "char" /\ Len(before) + Len(after) >= MaxLen /\ UNCHANGED written
TakeOut(c) == key' = "backspace" /\ before = Append(before', c) /\ UNCHANGED after
GoLeft(c) == key' = "left" /\ before = Append(before', c) /\ after' = <<c>> \o after
GoRight(c) == key' = "right" /\ before' = Append(before, c) /\ after = <<c>> \o after'
Write ==
  /\ view = "text"
  /\ \/ \E c \in Chars : TypeIn(c) \/ TakeOut(c) \/ GoLeft(c) \/ GoRight(c)
     \/ Full
     \/ key' = "turn" /\ UNCHANGED written
  /\ UNCHANGED <<view, content, place>>

(***************************************************************************)
(* Another size of the terminal changes neither list nor text.             *)
(***************************************************************************)
Resize ==
  /\ key' = "resize"
  /\ UNCHANGED <<view, items, depth, active>>
  /\ view \in {"menu", "choice"} => InSight' /\ UNCHANGED written
  /\ view = "text" => before' = before \o after /\ after' = <<>> /\ UNCHANGED <<place, size>>

(***************************************************************************)
(* A menu opens with the entry that it was left for, if it still has it,   *)
(* and where nothing has changed in the list it looks as it did.  The      *)
(* program may end at any time.                                            *)
(***************************************************************************)
Listed(e) == \E i \in DOMAIN items : items[i] = e
LeftAt(e) == items # <<>> /\ items[at + 1] = e
Back == /\ view = "menu" /\ view' = "menu" /\ UNCHANGED <<items, depth>>
        /\ LeftAt(active')
OpenMenu ==
  /\ view' = "menu"
  /\ InSight'
  /\ Listed(active)' => LeftAt(active)'
  /\ Back => UNCHANGED top
Open ==
  /\ key' = "none"
  /\ OpenMenu \/ (view' = "choice" /\ InSight') \/ view' \in {"text", "off", "stuck"}
  /\ after' = <<>>

Init == view = "off" /\ key = "none" /\ before = <<>> /\ after = <<>>
Next == Move \/ Write \/ Resize \/ Open
Spec == Init /\ [][Next]_vars
=============================================================================
