----------------------------- MODULE LxButtons -----------------------------
(***************************************************************************)
(* What the dialogs of lxdialog (libs/lxdialog) have in common: a row of   *)
(* buttons, and the keys that are read.                                    *)
(*                                                                         *)
(*   button, key  the current button, and the key that was read last       *)
(*   lit          the button that is shown as the current one              *)
(*   resized      the terminal has changed its size since the dialog was   *)
(*                opened                                                   *)
(***************************************************************************)
EXTENDS Integers

VARIABLES button, key, lit, resized

\* TAB and the arrows to the left and right; n is 1 or -1.
Turned(n, last) ==
  CASE button + n < 0    -> last
    [] button + n > last -> 0
    [] OTHER             -> button + n
Turn(n, last) ==
  /\ button' = Turned(n, last) /\ lit' = button'
  /\ key' = "turn"
  /\ UNCHANGED resized

Opened == key' = "none" /\ lit' = 0 /\ resized' = FALSE
\* The first button is shown as the current one, whichever it is.
Redrawn == key' = "resize" /\ lit' = 0 /\ resized' = TRUE /\ UNCHANGED button
=============================================================================
