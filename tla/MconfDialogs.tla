---------------------------- MODULE MconfDialogs ----------------------------
(***************************************************************************)
(* mconf and its dialogs (frontends/mconf/mconf.c with libs/lxdialog): a   *)
(* menu, and from it other menus, the members of a choice and lines of     *)
(* text, one after another on a terminal whose size may change.  What the  *)
(* answers do to the symbols is not here: whatever they do, the next list  *)
(* is some list.                                                           *)
(*                                                                         *)
(*   view   the dialog that waits for a key; "off" when mconf does not run *)
(*          and "stuck" when it waits for none                             *)
(*   stack  what the callers of conf keep, the outermost first             *)
(*   term   the lines of the terminal that are left for a menu's items     *)
(*   counted  an item has been counted (child_count # 0), for any menu     *)
(*          since mconf was started                                        *)
(***************************************************************************)
EXTENDS LxMenubox, LxChecklist, LxInputbox

CONSTANTS Lists,      \* the lists of items that there may be
          KindOf,     \* an entry is a "menu", a "choice", a "string" or something else
          Texts,      \* values of symbols and names of files: [text, len]
          Terms, ListNeeds, TextNeeds,   \* values of term, and the least for two dialogs
          MaxDepth    \* bound: how deep menus are nested

ASSUME ConstantsAssumption ==
  /\ Lists \subseteq Seq(Entries)
  /\ \A l \in Lists : \A i, j \in DOMAIN l : l[i] = l[j] => i = j
  /\ None \notin Entries
  /\ Terms \subseteq Int /\ TextNeeds \in Int
  /\ ListRows \in Nat \ {0}
  /\ BoxWidth \in Nat \ {0} /\ MaxLen \in Nat
  /\ \A t \in Texts : t.len \in Nat /\ t.text \in [0 .. t.len - 1 -> Chars]

VARIABLES view, stack, term, counted

menu == <<list, origin>>
vars == <<menu, field, button, key, lit, resized, view, stack, term, counted>>

(***************************************************************************)
(* The dialogs are opened.  One that does not fit on the terminal returns  *)
(* at once.                                                                *)
(***************************************************************************)
NoOrigin == first_item' = 0 /\ aligned' = TRUE
NoMenu == NoList /\ NoOrigin /\ active' = None /\ s_scroll' = 0
NoKeys == button' = 0 /\ key' = "none" /\ lit' = 0 /\ resized' = FALSE
Off(c) == view' = "off" /\ stack' = <<>> /\ counted' = c /\ NoMenu /\ NoText /\ NoKeys
\* mconf is done, or asks whether to end: if the user goes on, what was counted stays.
Ends(some) == \E c \in {FALSE, some} : Off(c)

\* conf shows its menu, for which it keeps a and s; its callers keep outer.  It
\* gives up where nothing has been counted.  The count is never reset: only the
\* outermost menu can find it so, and any other is shown when it is empty.  If the
\* menu does not fit none of the callers' does, and conf ends.
Show(a, s, outer) ==
  \E l \in Lists :
    LET some == counted \/ l # <<>>
    IN  IF some /\ term' >= 1
        THEN /\ view' = "menu" /\ active' = a /\ s_scroll' = s /\ stack' = outer
             /\ counted' = TRUE
             /\ OpenMenu(l, term')
             /\ NoText
        ELSE Ends(some)

\* conf waits for conf_choice, which shows the members l and begins with c.
ShowChoice(l, c) ==
  /\ view' = "choice" /\ OpenList(l, c)
  /\ NoOrigin /\ NoText
  /\ UNCHANGED <<stack, counted>>

\* conf waits for conf_string, conf_load or conf_save.  They do not look for the
\* answer that the terminal is too small, and open the dialog again, for ever.
ShowText ==
  /\ IF term' < TextNeeds THEN view' = "stuck" /\ NoText /\ NoKeys
     ELSE view' = "text" /\ \E t \in Texts : OpenText(t.text, t.len)
  /\ NoList /\ NoOrigin
  /\ UNCHANGED <<stack, counted>>

-----------------------------------------------------------------------------
(***************************************************************************)
(* conf: what follows an answer of dialog_menu.                            *)
(***************************************************************************)
Answers(code) == view = "menu" /\ Returns(code)
Kind == IF Current = None THEN "none" ELSE KindOf[Current]
Keeps == active' = Current /\ s_scroll' = scroll

Start == view = "off" /\ term' \in Terms /\ Show(None, 0, <<>>)

Descend ==
  /\ \E code \in {0, 8} : Answers(code)
  /\ Kind = "menu" /\ Len(stack) < MaxDepth
  /\ UNCHANGED term
  /\ Show(None, 0, Append(stack, [active |-> Current, s_scroll |-> scroll]))

Choose ==
  /\ Answers(0)
  /\ Kind = "choice"
  /\ UNCHANGED term
  /\ IF term < ListNeeds THEN Show(Current, scroll, stack)
     ELSE Keeps /\ \E l \in Lists : \E c \in {0} \cup 0 .. Len(l) - 1 : ShowChoice(l, c)

Edit ==
  /\ (Answers(0) /\ Kind = "string") \/ \E code \in {3, 4} : Answers(code)
  /\ UNCHANGED term
  /\ Keeps /\ ShowText

\* A value is set, help, or another list of options: conf makes the list anew.
Change ==
  /\ \E code \in {0, 2, 5, 6, 7, 8, 9, 10} :
       /\ Answers(code)
       /\ code = 0 => Kind \notin {"menu", "choice", "string"}
       /\ code = 8 => Kind # "menu"
  /\ UNCHANGED term
  /\ Show(Current, scroll, stack)

\* Exit or ESC: back to the caller, or to the end.
Leave ==
  /\ view = "menu"
  /\ UNCHANGED term
  /\ IF stack # <<>>
     THEN LET caller == stack[Len(stack)]
          IN  Show(caller.active, caller.s_scroll, SubSeq(stack, 1, Len(stack) - 1))
     ELSE Ends(counted)

(***************************************************************************)
(* conf_choice and the dialogs with a line of text.                        *)
(***************************************************************************)
Returned == Show(active, s_scroll, stack)

\* A member is set, or the user gives up.
EndChoice == view = "choice" /\ UNCHANGED term /\ Returned

\* A comment among the members cannot be set.
ChooseComment ==
  /\ view = "choice" /\ ListReturns(0) /\ Kind = "comment"
  /\ UNCHANGED <<term, active, s_scroll>>
  /\ \E c \in 0 .. Len(items) - 1 : ShowChoice(items, c)
\* After help the list begins with the item that it was asked for, or with the
\* first comment, as comments have no symbol; an empty list, with its first line.
Same == CASE Kind = "comment" -> {i \in 0 .. Len(items) - 1 : KindOf[items[i + 1]] = "comment"}
          [] Kind = "none"    -> {0}
          [] OTHER            -> {scroll + choice}
HelpMember ==
  /\ view = "choice" /\ ListReturns(1)
  /\ UNCHANGED <<term, active, s_scroll>>
  /\ \E c \in Same : IsFirst(c, Same) /\ ShowChoice(items, c)

EndText == view = "text" /\ UNCHANGED term /\ Returned
\* After help, or an answer that is refused, the text is what it was at first.
TextAgain ==
  /\ view = "text" /\ \E code \in {0, 1} : TextReturns(code)
  /\ UNCHANGED <<term, active, s_scroll>>
  /\ ShowText

(***************************************************************************)
(* Keys that stay within a dialog.                                         *)
(***************************************************************************)
Letters == {KeyOf[e] : e \in Entries}
Within(v) == view = v /\ UNCHANGED <<view, stack, term, counted>>

MenuKey ==
  /\ Within("menu") /\ UNCHANGED field
  /\ \/ MenuUp \/ MenuDown \/ MenuPageUp \/ MenuPageDown
     \/ \E k \in Letters : MenuLetter(k)
     \/ MenuTurn(1) \/ MenuTurn(-1) \/ MenuIdle
ListKey ==
  /\ Within("choice") /\ UNCHANGED <<field, origin>>
  /\ \/ ListUp \/ ListDown
     \/ \E k \in Letters : ListLetter(k)
     \/ ListTurn(1) \/ ListTurn(-1)
TextKey ==
  /\ Within("text") /\ UNCHANGED menu
  /\ \/ \E c \in Chars : Insert(c)
     \/ Backspace \/ Left \/ Right \/ Flash \/ TextTurn

(***************************************************************************)
(* The terminal has another size.                                          *)
(***************************************************************************)
ResizedMenu ==
  /\ view = "menu" /\ term' \in Terms
  /\ IF term' < 1 THEN Ends(counted)
     ELSE ResizeMenu(term') /\ UNCHANGED <<view, stack, counted, field>>
\* An item is printed that there is not.
Crash ==
  /\ view = "menu" /\ term' \in Terms /\ term' >= 1
  /\ \E c \in Defaults(items, active, choice) : Overrun(term', c)
  /\ Off(FALSE)
ResizedList ==
  /\ view = "choice" /\ term' \in Terms
  /\ IF term' < ListNeeds THEN Returned
     ELSE ResizeList /\ UNCHANGED <<view, stack, counted, field, origin>>
ResizedText ==
  /\ view = "text" /\ term' \in Terms
  /\ UNCHANGED <<stack, counted, menu>>
  /\ IF term' < TextNeeds THEN view' = "stuck" /\ NoText /\ NoKeys
     ELSE ResizeText /\ UNCHANGED view
Killed == view = "stuck" /\ Off(FALSE) /\ UNCHANGED term
\* A text to begin with that is longer than the buffer has been copied over what
\* is behind it, which mconf may not survive.
Overwritten == view = "text" /\ len > MaxLen /\ Off(FALSE) /\ UNCHANGED term

-----------------------------------------------------------------------------
Init ==
  /\ view = "off" /\ stack = <<>> /\ term \in Terms
  /\ items = <<>> /\ rows = 0 /\ scroll = 0 /\ choice = 0 /\ win = <<>>
  /\ up = FALSE /\ down = FALSE
  /\ first_item = 0 /\ aligned = TRUE /\ active = None /\ s_scroll = 0 /\ counted = FALSE
  /\ text = <<>> /\ len = 0 /\ pos = 0 /\ show_x = 0 /\ input_x = 0 /\ cells = <<>>
  /\ button = 0 /\ key = "none" /\ lit = 0 /\ resized = FALSE

Next ==
  \/ Start \/ Descend \/ Choose \/ Edit \/ Change \/ Leave
  \/ EndChoice \/ ChooseComment \/ HelpMember \/ EndText \/ TextAgain
  \/ MenuKey \/ ListKey \/ TextKey
  \/ ResizedMenu \/ Crash \/ ResizedList \/ ResizedText \/ Killed \/ Overwritten

Spec == Init /\ [][Next]_vars

-----------------------------------------------------------------------------
(***************************************************************************)
(* Properties.                                                             *)
(***************************************************************************)
\* The lines of the window show the items that the keys move through, and the
\* light is on the item that Enter takes.
LinesTrue ==
  win = [i \in 0 .. rows - 1 |-> IF i < max_choice THEN Line(scroll + i, i = choice) ELSE Blank]
ArrowsTrue == up = (scroll > 0) /\ down = (scroll + max_choice < Len(items))
FieldTrue ==
  /\ cells = [i \in 0 .. BoxWidth - 1 |-> IF show_x + i < len THEN text[show_x + i] ELSE Space]
  /\ show_x + input_x = pos
  /\ input_x \in 0 .. BoxWidth - 1

\* What is on the screen is what the program goes by, however much of it has been
\* scrolled or printed since it was drawn.  Three things are not so: a menu that
\* was drawn from another item than its first line, after a change of the size,
\* goes on to show other items; the light of an empty radio list may be on any of
\* its lines; and a change of the size puts the current button, and the arrows of
\* a radio list, wrong.
ScreenTrue ==
  /\ view = "menu" => /\ ArrowsTrue /\ (aligned => LinesTrue)
                      /\ ~resized => aligned /\ lit = button
  /\ view = "choice" => /\ items # <<>> => LinesTrue
                        /\ ~resized => ArrowsTrue /\ lit = button
  /\ view = "text" => FieldTrue /\ (~resized => lit = IF button = 1 THEN 1 ELSE 0)

(***************************************************************************)
(* The inductive invariant.                                                *)
(***************************************************************************)
\* The window lies within the list, and the light within the window.
ListKnown ==
  /\ items \in Lists
  /\ rows \in Nat \ {0} /\ scroll \in Nat /\ choice \in Nat
  /\ items # <<>> => choice < max_choice /\ scroll + max_choice <= Len(items)
TextKnown ==
  /\ len \in Nat /\ text \in [0 .. len - 1 -> Chars]
  /\ pos \in 0 .. len /\ show_x \in Nat
\* What is kept for a menu is an entry and a line, its own or none.
Kept ==
  /\ term \in Int
  /\ active \in Entries \cup {None} /\ s_scroll \in Int
  /\ stack \in Seq([active : Entries, s_scroll : Int])
IInv ==
  /\ Kept
  /\ view = "menu" => ListKnown /\ rows = term
  /\ view = "choice" => ListKnown /\ rows = ListRows
  /\ view = "text" => TextKnown
  /\ ScreenTrue

\* The item that the light is on, and the one in the first line.  In an empty list
\* there is none, wherever the light is.
At == IF items = <<>> THEN 0 ELSE scroll + choice
Top == IF items = <<>> THEN 0 ELSE scroll

\* Whatever is scrolled, printed and kept for later, to the user the dialogs are
\* a light that moves in a list and a cursor that moves in a text.
Dialogs == INSTANCE DialogSpec
             WITH at <- At, top <- Top, size <- rows, depth <- Len(stack),
                  before <- [i \in 1 .. pos |-> text[i - 1]],
                  after <- [i \in 1 .. len - pos |-> text[pos + i - 1]]
Served == Dialogs!Spec
=============================================================================
