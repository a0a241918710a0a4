----------------------------- MODULE LxInputbox -----------------------------
(***************************************************************************)
(* dialog_inputbox, the line of text of mconf (libs/lxdialog/inputbox.c).  *)
(* The text may be longer than its field on the screen.  After a key only  *)
(* the text is printed that is left, and one blank behind it.  The text to *)
(* begin with may be longer than any that can be typed in.                 *)
(*                                                                         *)
(*   text, len  the characters, from 0 on (dialog_input_result)            *)
(*   pos        the character that the cursor is on                        *)
(*   show_x     the character in the first cell of the field               *)
(*   input_x    the cell that the cursor is in                             *)
(*   cells      the field on the screen                                    *)
(***************************************************************************)
EXTENDS LxButtons

CONSTANTS Chars, Space,
          BoxWidth,   \* box_width
          MaxLen      \* MAX_LEN

VARIABLES text, len, pos, show_x, input_x, cells

field == <<text, len, pos, show_x, input_x, cells>>

\* The loop that prints the text t of n characters, from character s on, over
\* what is in the field.
\* (mutant) No blank is printed behind the text.
Printed_NoBlank(old, t, n, s) ==
  [i \in 0 .. BoxWidth - 1 |-> IF s + i < n THEN t[s + i] ELSE old[i]]
Printed(old, t, n, s) ==
  [i \in 0 .. BoxWidth - 1 |->
     CASE s + i < n -> t[s + i]
       [] s + i = n -> Space
       [] OTHER     -> old[i]]

(***************************************************************************)
(* Drawing the field, with the cursor behind the text.                     *)
(***************************************************************************)
DrawText(t, n) ==
  /\ text' = t /\ len' = n /\ pos' = n
  /\ IF n >= BoxWidth THEN show_x' = n - BoxWidth + 1 /\ input_x' = BoxWidth - 1
                      ELSE show_x' = 0 /\ input_x' = n
  /\ cells' = [i \in 0 .. BoxWidth - 1 |->
                 IF i < input_x' THEN t[show_x' + i] ELSE Space]
\* button is -1 while the keys go to the text.
OpenText(t, n) == DrawText(t, n) /\ button' = -1 /\ Opened
ResizeText == DrawText(text, len) /\ Redrawn

(***************************************************************************)
(* The keys that go to the text.                                           *)
(***************************************************************************)
Edits == button = -1
Edited(k) == key' = k /\ UNCHANGED <<button, lit, resized>>

With(p, c) ==
  [i \in 0 .. len |-> CASE i < p -> text[i] [] i = p -> c [] OTHER -> text[i - 1]]
Without(p) == [i \in 0 .. len - 2 |-> IF i < p THEN text[i] ELSE text[i + 1]]

Insert(c) ==
  /\ Edits
  /\ len < MaxLen
  /\ text' = With(pos, c) /\ len' = len + 1 /\ pos' = pos + 1
  /\ IF input_x = BoxWidth - 1 THEN show_x' = show_x + 1 /\ UNCHANGED input_x
                               ELSE input_x' = input_x + 1 /\ UNCHANGED show_x
  /\ cells' = Printed(cells, text', len', show_x')
  /\ Edited("char")
Backspace ==
  /\ Edits
  /\ pos > 0
  /\ text' = Without(pos - 1) /\ len' = len - 1 /\ pos' = pos - 1
  /\ IF input_x = 0 THEN show_x' = show_x - 1 /\ UNCHANGED input_x
                    ELSE input_x' = input_x - 1 /\ UNCHANGED show_x
  /\ cells' = Printed(cells, text', len', show_x')
  /\ Edited("backspace")
Left ==
  /\ Edits
  /\ pos > 0
  /\ pos' = pos - 1
  /\ IF input_x > 0 THEN input_x' = input_x - 1 /\ UNCHANGED <<show_x, cells>>
     ELSE show_x' = show_x - 1 /\ cells' = Printed(cells, text, len, show_x') /\ UNCHANGED input_x
  /\ Edited("left") /\ UNCHANGED <<text, len>>
Right ==
  /\ Edits
  /\ pos < len
  /\ pos' = pos + 1
  /\ IF input_x < BoxWidth - 1 THEN input_x' = input_x + 1 /\ UNCHANGED <<show_x, cells>>
     ELSE show_x' = show_x + 1 /\ cells' = Printed(cells, text, len, show_x') /\ UNCHANGED input_x
  /\ Edited("right") /\ UNCHANGED <<text, len>>
Flash == Edits /\ len >= MaxLen /\ Edited("char") /\ UNCHANGED field

(***************************************************************************)
(* The keys that go to the buttons, and what dialog_inputbox returns.      *)
(***************************************************************************)
TurnText(b) ==
  /\ button' = b /\ lit' = (IF b = 1 THEN 1 ELSE 0)
  /\ key' = "turn" /\ UNCHANGED <<field, resized>>
\* To the next one with TAB or the arrow down, and back with the arrow up.
Before == IF button = -1 THEN 1 ELSE button - 1
After == IF button = 1 THEN -1 ELSE button + 1
TextTurn == TurnText(Before) \/ TurnText(After)

TextReturns(code) ==
  \/ code = (IF button = -1 THEN 0 ELSE button)
  \/ code \in {0, 1} /\ ~Edits

NoText == text' = <<>> /\ len' = 0 /\ pos' = 0 /\ show_x' = 0 /\ input_x' = 0 /\ cells' = <<>>
=============================================================================
