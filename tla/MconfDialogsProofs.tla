------------------------- MODULE MconfDialogsProofs -------------------------
(***************************************************************************)
(* What is on the screen is what mconf goes by, and the dialogs keep what  *)
(* DialogSpec promises.                                                    *)
(***************************************************************************)
EXTENDS MconfDialogs, SequenceTheorems, TLAPS

USE DEF Lesser, Greater

(***************************************************************************)
(* Lists.                                                                  *)
(***************************************************************************)
\* A list has its items once, and may have none.
LEMMA Lengths ==
  ASSUME NEW l \in Lists
  PROVE  /\ l \in Seq(Entries) /\ Len(l) \in Nat /\ DOMAIN l = 1 .. Len(l)
         /\ l = <<>> <=> Len(l) = 0
         /\ \A i \in 1 .. Len(l) : l[i] \in Entries
         /\ \A i, j \in 1 .. Len(l) : l[i] = l[j] => i = j
<1>1. l \in Seq(Entries)
  BY ConstantsAssumption
<1>2. DOMAIN l = 1 .. Len(l) /\ Len(l) \in Nat /\ (l = <<>> <=> Len(l) = 0) /\ \A i \in 1 .. Len(l) : l[i] \in Entries
  BY <1>1, EmptySeq, ElementOfSeq, LenProperties
<1>3. \A i, j \in DOMAIN l : l[i] = l[j] => i = j
  BY ConstantsAssumption
<1> QED
  BY <1>1, <1>2, <1>3

\* Where there are items a window shows one at least, and no more than there are.
LEMMA Sizes ==
  ASSUME NEW l \in Lists, l # <<>>, NEW r \in Nat \ {0}
  PROVE  /\ Size(l, r) \in 1 .. r /\ Size(l, r) <= Len(l)
         /\ r > Len(l) => Size(l, r) = Len(l)
         /\ r <= Len(l) => Size(l, r) = r
BY Lengths DEF Size

\* Wherever the list is drawn, the window lies within it and has the item that
\* was asked for under the light; where the old position fits it is kept.
LEMMA Placed ==
  ASSUME NEW l \in Lists, l # <<>>, NEW r \in Nat \ {0}, NEW s \in Int, NEW f, NEW c \in 0 .. Len(l) - 1,
         Position(l, r, s, f, c)
  PROVE  /\ scroll' \in Nat /\ choice' \in 0 .. Size(l, r) - 1
         /\ scroll' + Size(l, r) <= Len(l)
         /\ scroll' + choice' = c
         /\ Fits(l, r, s, c) => scroll' = s
         /\ f = 0 => first_item' = scroll'
<1>1. Len(l) \in Nat \ {0} /\ Size(l, r) \in Nat \ {0} /\ Size(l, r) <= Len(l)
  BY Lengths, Sizes
<1>2. CASE Fits(l, r, s, c)
  BY <1>1, <1>2 DEF Position, Fits
<1>3. CASE ~Fits(l, r, s, c) /\ c >= Size(l, r)
  BY <1>1, <1>3 DEF Position, Centre
<1>4. CASE ~Fits(l, r, s, c) /\ c < Size(l, r)
  BY <1>1, <1>4 DEF Position
<1> QED
  BY <1>1, <1>2, <1>3, <1>4

\* A menu that is drawn anew shows its items, if it is aligned.
LEMMA Drawn ==
  ASSUME NEW l \in Lists, l # <<>>, NEW r \in Nat \ {0}, NEW s \in Int, NEW f, NEW c \in 0 .. Len(l) - 1,
         Draw(l, r, s, f, c)
  PROVE  /\ ListKnown' /\ ArrowsTrue'
         /\ aligned' => LinesTrue'
         /\ f = 0 => aligned'
         /\ items' = l /\ rows' = r /\ scroll' + choice' = c
         /\ Fits(l, r, s, c) => scroll' = s
<1>1. items' = l /\ rows' = r /\ max_choice' = Size(l, r)
  BY DEF Draw, max_choice
<1>2. /\ scroll' \in Nat /\ choice' \in 0 .. Size(l, r) - 1
      /\ scroll' + Size(l, r) <= Len(l)
      /\ scroll' + choice' = c
      /\ Fits(l, r, s, c) => scroll' = s
      /\ f = 0 => first_item' = scroll'
  BY Placed DEF Draw
<1>3. ListKnown'
  <2>1. Size(l, r) \in Nat
    BY Sizes
  <2> QED
    BY <1>1, <1>2, <2>1 DEF ListKnown
<1>4. ArrowsTrue'
  <2>1. up' = (scroll' > 0) /\ down' = (r < Len(l) /\ scroll' + r < Len(l))
    BY DEF Draw, Arrows
  <2>2. /\ Len(l) \in Nat /\ Size(l, r) = IF r < Len(l) THEN r ELSE Len(l)
        /\ scroll' + Size(l, r) <= Len(l)
    BY <1>2, Lengths DEF Size
  <2>3. down' = (scroll' + Size(l, r) < Len(l))
    BY <1>2, <2>1, <2>2
  <2> QED
    BY <1>1, <2>1, <2>3 DEF ArrowsTrue
<1>5. ASSUME aligned' PROVE LinesTrue'
  <2>1. first_item' = scroll'
    BY <1>5 DEF Draw
  <2> QED
    BY <1>1, <2>1 DEF Draw, LinesTrue
<1>6. f = 0 => aligned'
  BY <1>2 DEF Draw
<1> QED
  BY <1>1, <1>2, <1>3, <1>4, <1>5, <1>6

\* An empty menu is drawn as one, wherever it is drawn.
LEMMA EmptyDrawn ==
  ASSUME <<>> \in Lists, NEW r \in Nat \ {0}, NEW s \in Int, NEW f, NEW c \in Nat,
         Draw(<<>>, r, s, f, c)
  PROVE  /\ ListKnown' /\ ArrowsTrue' /\ LinesTrue' /\ aligned'
         /\ items' = <<>> /\ rows' = r
<1>1. Len(<<>>) = 0 /\ Size(<<>>, r) = 0
  BY DEF Size
<1>2. /\ items' = <<>> /\ rows' = r /\ max_choice' = 0
      /\ Position(<<>>, r, s, f, c)
      /\ win' = [i \in 0 .. r - 1 |-> IF i < 0 THEN Line(first_item' + i, i = choice') ELSE Blank]
      /\ aligned' = (first_item' = scroll')
      /\ up' = (scroll' > 0) /\ down' = (r < 0 /\ scroll' + r < 0)
  BY <1>1 DEF Draw, Arrows, max_choice
<1>3. scroll' = 0 /\ first_item' = 0 /\ choice' = c
  <2>1. ~Fits(<<>>, r, s, c)
    BY <1>1 DEF Fits
  <2>2. Centre(<<>>, r, c) = 0
    <3>1. 0 \div 2 = 0
      OBVIOUS
    <3> QED
      BY <1>1, <3>1 DEF Centre
  <2>3. ~(c < Size(<<>>, r))
    BY <1>1
  <2> QED
    BY <1>2, <2>1, <2>2, <2>3 DEF Position
<1>4. ListKnown'
  BY <1>2, <1>3 DEF ListKnown
<1>5. LinesTrue'
  <2>1. \A i \in 0 .. r - 1 : ~(i < 0)
    OBVIOUS
  <2>2. win' = [i \in 0 .. r - 1 |-> Blank]
    BY <1>2, <2>1
  <2>3. win' = [i \in 0 .. rows' - 1 |->
                  IF i < max_choice' THEN Line(scroll' + i, i = choice') ELSE Blank]
    BY <1>2, <2>1, <2>2
  <2> QED
    BY <2>3 DEF LinesTrue
<1>6. ArrowsTrue'
  <2>1. up' = FALSE /\ down' = FALSE
    BY <1>2, <1>3
  <2> QED
    BY <1>1, <1>2, <1>3, <2>1 DEF ArrowsTrue
<1> QED
  BY <1>2, <1>3, <1>4, <1>5, <1>6

\* A line is lit or it is not.
LEMMA UnlitLine == \A n, i, c : i # c => Line(n, i = c) = Line(n, FALSE)
BY DEF Line
\* The line that the light is on.
LEMMA LitLine == \A n, i, c : i = c => Line(n, i = c) = Line(n, TRUE)
BY DEF Line

\* Scrolling and printing single lines comes to the same as drawing the list.
LEMMA ScrolledAndPrinted ==
  ASSUME NEW s \in Nat, NEW c \in 0 .. max_choice - 1, items # <<>>,
         ListKnown, s + max_choice <= Len(items), Moved(s, c)
  PROVE  /\ ListKnown'
         /\ LinesTrue => LinesTrue'
<1>1. /\ max_choice' = max_choice /\ items' = items /\ rows' = rows /\ scroll' = s /\ choice' = c
      /\ win' = [Scrolled(Unlit, s) EXCEPT ![c] = Line(s + c, TRUE)]
  BY DEF Moved, max_choice
<1>2. ListKnown'
  <2>1. max_choice \in Nat
    BY Sizes DEF ListKnown, max_choice
  <2> QED
    BY <1>1, <2>1 DEF ListKnown
<1>3. ASSUME LinesTrue PROVE LinesTrue'
  <2>1. /\ rows \in Nat \ {0} /\ max_choice \in 1 .. rows /\ max_choice <= Len(items)
        /\ rows > Len(items) => max_choice = Len(items)
        /\ rows <= Len(items) => max_choice = rows
        /\ scroll \in Nat /\ choice \in 0 .. max_choice - 1 /\ scroll + max_choice <= Len(items)
        /\ Len(items) \in Nat
    BY Sizes, Lengths DEF ListKnown, max_choice
  <2> DEFINE u == Unlit
  <2>2. DOMAIN u = 0 .. rows - 1
    BY <1>3 DEF LinesTrue, Unlit
  <2>3. ASSUME NEW i \in 0 .. rows - 1
        PROVE  u[i] = IF i < max_choice THEN Line(scroll + i, FALSE) ELSE Blank
    <3>1. win[i] = IF i < max_choice THEN Line(scroll + i, i = choice) ELSE Blank
      BY <1>3 DEF LinesTrue
    <3>2. CASE i = choice
      <4>1. DOMAIN win = 0 .. rows - 1 /\ choice \in 0 .. rows - 1 /\ i < max_choice
        BY <1>3, <2>1, <3>2 DEF LinesTrue
      <4>2. u[choice] = Line(scroll + choice, FALSE)
        BY <4>1 DEF Unlit
      <4> QED
        BY <3>2, <4>1, <4>2, Zenon
    <3>3. CASE i # choice
      <4>1. u[i] = win[i]
        BY <1>3, <3>3 DEF LinesTrue, Unlit
      <4> QED
        BY <3>1, <3>3, <4>1, UnlitLine
    <3> QED
      BY <3>2, <3>3
  <2> DEFINE v == Scrolled(u, s)
  <2>4. win' = [v EXCEPT ![c] = Line(s + c, TRUE)]
    BY <1>1
  <2> HIDE DEF u
  <2>5. DOMAIN v = 0 .. rows - 1
    BY <2>2 DEF Scrolled
  <2>6. ASSUME NEW i \in 0 .. rows - 1
        PROVE  v[i] = IF i < max_choice THEN Line(s + i, FALSE) ELSE Blank
    <3> DEFINE j == i + s - scroll
    <3>1. v[i] = IF j \in 0 .. rows - 1 THEN u[j] ELSE Line(s + i, FALSE)
      BY <2>2 DEF Scrolled
    <3>2. CASE rows > Len(items)
      <4>1. j = i /\ s + i = scroll + i
        BY <2>1, <3>2
      <4> QED
        BY <2>3, <3>1, <4>1
    <3>3. CASE rows <= Len(items)
      <4>1. i < max_choice
        BY <2>1, <3>3
      <4>2. CASE j \in 0 .. rows - 1
        <5>1. j < max_choice /\ scroll + j = s + i
          BY <2>1, <3>3, <4>2
        <5>2. u[j] = Line(scroll + j, FALSE)
          BY <2>3, <4>2, <5>1
        <5> QED
          BY <3>1, <4>1, <4>2, <5>1, <5>2
      <4> QED
        BY <3>1, <4>1, <4>2
    <3>4. rows > Len(items) \/ rows <= Len(items)
      BY <2>1
    <3> QED
      BY <3>2, <3>3, <3>4
  <2> HIDE DEF v
  <2>7. ASSUME NEW i \in 0 .. rows - 1
        PROVE  win'[i] = IF i < max_choice THEN Line(s + i, i = c) ELSE Blank
    <3>1. CASE i = c
      <4>1. win'[i] = Line(s + i, TRUE) /\ i < max_choice
        BY <2>1, <2>5, <2>4, <3>1
      <4> QED
        BY <3>1, <4>1, LitLine
    <3>2. CASE i # c
      <4>1. win'[i] = v[i]
        BY <2>5, <2>4, <3>2
      <4> QED
        BY <2>6, <3>2, <4>1, UnlitLine
    <3> QED
      BY <3>1, <3>2
  <2>8. win' = [i \in 0 .. rows - 1 |-> win'[i]]
    BY <2>5, <2>4
  <2>9. win' = [i \in 0 .. rows - 1 |-> IF i < max_choice THEN Line(s + i, i = c) ELSE Blank]
    BY <2>7, <2>8
  <2> QED
    BY <1>1, <2>9 DEF LinesTrue
<1> QED
  BY <1>2, <1>3

-----------------------------------------------------------------------------
(***************************************************************************)
(* The keys of a menu.                                                     *)
(***************************************************************************)
\* What a key that moves the light promises of the list.
Goes ==
  /\ ListKnown'
  /\ UNCHANGED <<items, rows>>
  /\ items # <<>> =>
       /\ LinesTrue => LinesTrue'
       /\ Dialogs!Far(scroll, scroll') <= Dialogs!Far(scroll + choice, (scroll + choice)')
       /\ Dialogs!ByKey

\* What is known of the window, in numbers only.
LEMMA InNumbers ==
  ASSUME ListKnown, items # <<>>
  PROVE  /\ Len(items) \in Nat \ {0} /\ rows \in Nat \ {0} /\ max_choice \in Nat \ {0}
         /\ max_choice = IF rows < Len(items) THEN rows ELSE Len(items)
         /\ scroll \in Nat /\ choice \in 0 .. max_choice - 1
         /\ scroll + max_choice <= Len(items)
BY Lengths DEF ListKnown, max_choice, Size

\* A move in a menu leaves a list that is shown as it is, with its arrows.
LEMMA Gone ==
  ASSUME NEW s \in Nat, NEW c \in 0 .. max_choice - 1, NEW k,
         ListKnown, items # <<>>, s + max_choice <= Len(items), Go(s, c, k)
  PROVE  /\ ListKnown' /\ (LinesTrue => LinesTrue') /\ ArrowsTrue'
         /\ scroll' = s /\ choice' = c /\ key' = k
         /\ UNCHANGED <<items, rows, button, lit, resized, origin>>
<1>1. ListKnown' /\ (LinesTrue => LinesTrue')
  BY ScrolledAndPrinted DEF Go
<1>2. /\ scroll' = s /\ choice' = c /\ key' = k
      /\ UNCHANGED <<items, rows, button, lit, resized, origin>>
  BY DEF Go, Moved
<1>3. ArrowsTrue'
  <2>1. up' = (scroll' > 0) /\ down' = (rows < Len(items) /\ scroll' + rows < Len(items))
    BY DEF Go, Arrows
  <2>2. down' = (scroll' + max_choice < Len(items))
    BY <1>2, <2>1, InNumbers
  <2>3. max_choice' = max_choice
    BY <1>2 DEF max_choice
  <2> QED
    BY <1>2, <2>1, <2>2, <2>3 DEF ArrowsTrue
<1> QED
  BY <1>1, <1>2, <1>3

\* The window and the light after a key, and how far both have gone.
LEMMA UpGoes ==
  ASSUME ListKnown, items # <<>>, MenuUp
  PROVE  Goes /\ ArrowsTrue' /\ UNCHANGED <<button, lit, resized, origin>>
<1> DEFINE s == IF ScrollsUp THEN scroll - 1 ELSE scroll
           c == IF ScrollsUp THEN choice ELSE Greater(choice - 1, 0)
           at == scroll + choice
<1>1. /\ s \in Nat /\ c \in 0 .. max_choice - 1 /\ s + max_choice <= Len(items)
      /\ Dialogs!Far(scroll, s) <= Dialogs!Far(at, s + c)
      /\ s + c = Dialogs!Larger(at - 1, 0)
  <2>1. CASE ScrollsUp
    <3>1. s = scroll - 1 /\ scroll > 0 /\ c = choice
      BY <2>1, InNumbers DEF ScrollsUp, ScrollsDown
    <3> HIDE DEF s, c
    <3> QED
      BY <3>1, InNumbers DEF Dialogs!Far, Dialogs!Larger, Dialogs!Smaller
  <2>2. CASE ~ScrollsUp /\ choice > 0
    <3>1. s = scroll /\ choice > 0 /\ c = choice - 1
      BY <2>2, InNumbers DEF ScrollsUp, ScrollsDown
    <3> HIDE DEF s, c
    <3> QED
      BY <3>1, InNumbers DEF Dialogs!Far, Dialogs!Larger, Dialogs!Smaller
  <2>3. CASE ~ScrollsUp /\ choice = 0
    <3>1. s = scroll /\ scroll = 0 /\ choice = 0 /\ c = 0
      BY <2>3, InNumbers DEF ScrollsUp, ScrollsDown
    <3> HIDE DEF s, c
    <3> QED
      BY <3>1, InNumbers DEF Dialogs!Far, Dialogs!Larger, Dialogs!Smaller
  <2> QED
    BY <2>1, <2>2, <2>3, InNumbers
<1>2. Go(s, c, "up")
  BY DEF MenuUp
<1> HIDE DEF s, c
<1>3. scroll' = s /\ choice' = c /\ items' = items /\ rows' = rows /\ key' = "up"
  BY <1>1, <1>2, Gone
<1>4. (scroll + choice)' = Dialogs!Larger(at - 1, 0)
  BY <1>1, <1>3
<1>5. Dialogs!ByKey
  BY <1>3, <1>4 DEF Dialogs!ByKey, Dialogs!Count, At, Top
<1> QED
  BY <1>1, <1>2, <1>3, <1>5, Gone DEF Goes

\* The arrow down: the window is scrolled, or the light goes a line further.
LEMMA DownGoes ==
  ASSUME ListKnown, items # <<>>, MenuDown
  PROVE  Goes /\ ArrowsTrue' /\ UNCHANGED <<button, lit, resized, origin>>
<1> DEFINE s == IF ScrollsDown THEN scroll + 1 ELSE scroll
           c == IF ScrollsDown THEN choice ELSE Lesser(choice + 1, max_choice - 1)
           at == scroll + choice
<1>1. /\ s \in Nat /\ c \in 0 .. max_choice - 1 /\ s + max_choice <= Len(items)
      /\ Dialogs!Far(scroll, s) <= Dialogs!Far(at, s + c)
      /\ s + c = Dialogs!Smaller(at + 1, Len(items) - 1)
  <2>1. CASE ScrollsDown
    <3>1. s = scroll + 1 /\ scroll + max_choice < Len(items) /\ c = choice
      BY <2>1, InNumbers DEF ScrollsUp, ScrollsDown
    <3> HIDE DEF s, c
    <3> QED
      BY <3>1, InNumbers DEF Dialogs!Far, Dialogs!Larger, Dialogs!Smaller
  <2>2. CASE ~ScrollsDown /\ choice < max_choice - 1
    <3>1. s = scroll /\ choice < max_choice - 1 /\ c = choice + 1
      BY <2>2, InNumbers DEF ScrollsUp, ScrollsDown
    <3> HIDE DEF s, c
    <3> QED
      BY <3>1, InNumbers DEF Dialogs!Far, Dialogs!Larger, Dialogs!Smaller
  <2>3. CASE ~ScrollsDown /\ choice = max_choice - 1
    <3>1. s = scroll /\ scroll + max_choice = Len(items) /\ choice = max_choice - 1 /\ c = choice
      BY <2>3, InNumbers DEF ScrollsUp, ScrollsDown
    <3> HIDE DEF s, c
    <3> QED
      BY <3>1, InNumbers DEF Dialogs!Far, Dialogs!Larger, Dialogs!Smaller
  <2> QED
    BY <2>1, <2>2, <2>3, InNumbers
<1>2. Go(s, c, "down")
  BY DEF MenuDown
<1> HIDE DEF s, c
<1>3. scroll' = s /\ choice' = c /\ items' = items /\ rows' = rows /\ key' = "down"
  BY <1>1, <1>2, Gone
<1>4. (scroll + choice)' = Dialogs!Smaller(at + 1, Len(items) - 1)
  BY <1>1, <1>3
<1>5. Dialogs!ByKey
  BY <1>3, <1>4 DEF Dialogs!ByKey, Dialogs!Count, At, Top
<1> QED
  BY <1>1, <1>2, <1>3, <1>5, Gone DEF Goes

\* A page up is as many arrows up as the window has items.
LEMMA PageUpGoes ==
  ASSUME ListKnown, items # <<>>, view = "menu", MenuPageUp
  PROVE  Goes /\ ArrowsTrue' /\ UNCHANGED <<button, lit, resized, origin>>
<1> DEFINE s == Greater(scroll - max_choice, 0)
           c == Greater(choice - (max_choice - (scroll - s)), 0)
           at == scroll + choice
<1>1. /\ s \in Nat /\ c \in 0 .. max_choice - 1 /\ s + max_choice <= Len(items)
      /\ Dialogs!Far(scroll, s) <= Dialogs!Far(at, s + c)
      /\ s + c = Dialogs!Larger(at - Dialogs!Smaller(rows, Len(items)), 0)
  <2>1. CASE scroll > max_choice
    <3>1. s = scroll - max_choice /\ scroll > max_choice /\ c = choice
      BY <2>1, InNumbers DEF ScrollsUp, ScrollsDown
    <3> HIDE DEF s, c
    <3> QED
      BY <3>1, InNumbers DEF Dialogs!Far, Dialogs!Larger, Dialogs!Smaller
  <2>2. CASE scroll <= max_choice
    <3>1. s = 0 /\ scroll <= max_choice /\ c = IF choice + scroll > max_choice THEN choice + scroll - max_choice ELSE 0
      BY <2>2, InNumbers DEF ScrollsUp, ScrollsDown
    <3> HIDE DEF s, c
    <3> QED
      BY <3>1, InNumbers DEF Dialogs!Far, Dialogs!Larger, Dialogs!Smaller
  <2> QED
    BY <2>1, <2>2, InNumbers
<1>2. Go(s, c, "ppage")
  BY DEF MenuPageUp
<1> HIDE DEF s, c
<1>3. scroll' = s /\ choice' = c /\ items' = items /\ rows' = rows /\ key' = "ppage"
  BY <1>1, <1>2, Gone
<1>4. (scroll + choice)' = Dialogs!Larger(at - Dialogs!Smaller(rows, Len(items)), 0)
  BY <1>1, <1>3
<1>5. Dialogs!ByKey
  BY <1>3, <1>4 DEF Dialogs!ByKey, Dialogs!Count, At, Top
<1> QED
  BY <1>1, <1>2, <1>3, <1>5, Gone DEF Goes

\* A page down, the window as far as the list goes and the light for the rest.
LEMMA PageDownGoes ==
  ASSUME ListKnown, items # <<>>, view = "menu", MenuPageDown
  PROVE  Goes /\ ArrowsTrue' /\ UNCHANGED <<button, lit, resized, origin>>
<1> DEFINE n == Len(items)
           m == max_choice
           at == scroll + choice
           s == Lesser(scroll + m, n - m)
           c == Lesser(choice + (m - (s - scroll)), m - 1)
<1>0. /\ n \in Nat \ {0} /\ m \in Nat \ {0} /\ Dialogs!Smaller(rows, n) = m
      /\ scroll \in Nat /\ choice \in Nat /\ choice < m /\ scroll + m <= n
  BY InNumbers DEF Dialogs!Smaller
<1>2. Go(s, c, "npage")
  BY DEF MenuPageDown
<1> HIDE DEF n, m
<1>1. /\ s \in Nat /\ c \in 0 .. m - 1 /\ s + m <= n
      /\ Dialogs!Far(scroll, s) <= Dialogs!Far(at, s + c)
      /\ s + c = Dialogs!Smaller(at + m, n - 1)
  <2>1. CASE scroll + m < n - m
    <3>1. s = scroll + m /\ c = choice
      BY <1>0, <2>1
    <3> HIDE DEF s, c
    <3> QED
      BY <1>0, <2>1, <3>1 DEF Dialogs!Far, Dialogs!Smaller
  <2>2. CASE scroll + m >= n - m
    <3>1. s = n - m
      BY <1>0, <2>2
    <3> HIDE DEF s
    <3>2. CASE choice + scroll + 1 < s
      <4>1. c = choice + scroll + m - s
        BY <1>0, <3>1, <3>2
      <4> HIDE DEF c
      <4> QED
        BY <1>0, <2>2, <3>1, <3>2, <4>1 DEF Dialogs!Far, Dialogs!Smaller
    <3>3. CASE choice + scroll + 1 >= s
      <4>1. c = m - 1
        BY <1>0, <3>1, <3>3
      <4> HIDE DEF c
      <4> QED
        BY <1>0, <2>2, <3>1, <3>3, <4>1 DEF Dialogs!Far, Dialogs!Smaller
    <3> QED
      BY <1>0, <3>1, <3>2, <3>3
  <2> QED
    BY <1>0, <2>1, <2>2
<1> HIDE DEF s, c
<1> USE DEF n, m
<1>3. scroll' = s /\ choice' = c /\ items' = items /\ rows' = rows /\ key' = "npage"
  BY <1>1, <1>2, Gone
<1>4. (scroll + choice)' = Dialogs!Smaller(at + Dialogs!Smaller(rows, n), n - 1)
  BY <1>0, <1>1, <1>3
<1>5. Dialogs!ByKey
  BY <1>3, <1>4 DEF Dialogs!ByKey, Dialogs!Count, At, Top
<1> QED
  BY <1>1, <1>2, <1>3, <1>5, Gone DEF Goes

\* A letter lights an item in sight that answers to it.
LEMMA LetterGoes ==
  ASSUME ListKnown, items # <<>>, NEW k, MenuLetter(k)
  PROVE  Goes /\ ArrowsTrue' /\ UNCHANGED <<button, lit, resized, origin>>
<1>1. PICK i \in Answering(k) : Go(scroll, i, k)
  BY DEF MenuLetter
<1>2. /\ i \in 0 .. max_choice - 1 /\ k = KeyOf[items[scroll + i + 1]]
      /\ scroll \in Nat /\ scroll + max_choice <= Len(items)
      /\ Dialogs!Far(scroll, scroll) = 0
      /\ Dialogs!Far(scroll + choice, scroll + i) >= 0
  BY InNumbers DEF Answering, Dialogs!Far
<1> QED
  BY <1>1, <1>2, Gone DEF Goes, Dialogs!ByKey, At, Top

\* A turn of the buttons leaves the list alone.
LEMMA TurnGoes ==
  ASSUME ListKnown, key' = "turn", UNCHANGED list
  PROVE  Goes /\ (LinesTrue => LinesTrue') /\ (ArrowsTrue => ArrowsTrue')
<1>1. UNCHANGED <<items, rows, scroll, choice, win, up, down, max_choice>>
  BY DEF list, max_choice
<1>2. ListKnown' /\ (LinesTrue => LinesTrue') /\ (ArrowsTrue => ArrowsTrue')
  BY <1>1 DEF ListKnown, LinesTrue, ArrowsTrue
<1>3. (scroll + choice)' = scroll + choice /\ Dialogs!ByKey
  BY <1>1 DEF Dialogs!ByKey, Dialogs!place, At, Top
<1>4. Dialogs!Far(scroll, scroll') <= Dialogs!Far(scroll + choice, (scroll + choice)')
  BY <1>1, <1>3 DEF Dialogs!Far, ListKnown
<1> QED
  BY <1>1, <1>2, <1>3, <1>4 DEF Goes

-----------------------------------------------------------------------------
(***************************************************************************)
(* The keys of a radio list.                                               *)
(***************************************************************************)
\* However a radio list is drawn it shows its items; the arrows are right when
\* it has just been opened.
LEMMA ListDrawn ==
  ASSUME NEW l \in Lists, l # <<>>, NEW s \in Nat, NEW c \in Nat, DrawList(l, s, c),
         \/ s = 0 /\ c < Len(l)
         \/ c < Size(l, ListRows) /\ s + Size(l, ListRows) <= Len(l)
  PROVE  /\ ListKnown' /\ LinesTrue'
         /\ items' = l /\ rows' = ListRows
         /\ s = 0 => ArrowsTrue'
<1> DEFINE n == Len(l)
           m == Size(l, ListRows)
<1>1. /\ n \in Nat \ {0} /\ m \in Nat \ {0} /\ ListRows \in Nat \ {0}
      /\ m = IF ListRows < n THEN ListRows ELSE n
  BY ConstantsAssumption, Lengths DEF Size
<1>2. /\ items' = l /\ rows' = ListRows /\ max_choice' = m
      /\ ListPosition(s, c)
      /\ win' = [i \in 0 .. ListRows - 1 |-> IF i < m THEN Line(scroll' + i, i = choice') ELSE Blank]
      /\ up' = (scroll' > 0) /\ down' = (ListRows < n /\ scroll' + choice' < n - 1)
  BY DEF DrawList, ListArrows, max_choice
<1> HIDE DEF n, m
<1>3. /\ scroll' \in Nat /\ choice' \in 0 .. m - 1 /\ scroll' + m <= n
      /\ s = 0 => (ListRows < n /\ scroll' + choice' < n - 1 <=> scroll' + m < n)
  <2>1. CASE c >= ListRows
    <3>1. scroll' = c - ListRows + 1 /\ choice' = ListRows - 1
      BY <1>2, <2>1 DEF ListPosition
    <3>2. s = 0 /\ c < n
      BY <1>1, <2>1 DEF m, n
    <3> QED
      BY <1>1, <2>1, <3>1, <3>2
  <2>2. CASE c < ListRows
    <3>1. scroll' = s /\ choice' = c
      BY <1>1, <1>2, <2>2 DEF ListPosition
    <3>2. (s = 0 /\ c < n) \/ (c < m /\ s + m <= n)
      BY DEF m, n
    <3> QED
      BY <1>1, <2>2, <3>1, <3>2
  <2> QED
    BY <1>1, <2>1, <2>2
<1>4. ListKnown'
  BY <1>1, <1>2, <1>3 DEF ListKnown, n
<1>5. LinesTrue'
  BY <1>2 DEF LinesTrue
<1>6. ASSUME s = 0 PROVE ArrowsTrue'
  <2>1. down' = (scroll' + m < n)
    BY <1>2, <1>3, <1>6
  <2> QED
    BY <1>2, <2>1 DEF ArrowsTrue, n
<1> QED
  BY <1>2, <1>4, <1>5, <1>6

\* An empty radio list is drawn as one, wherever the light has gone.
LEMMA EmptyListDrawn ==
  ASSUME <<>> \in Lists, NEW s \in Nat, NEW c \in Nat, DrawList(<<>>, s, c)
  PROVE  /\ ListKnown' /\ items' = <<>> /\ rows' = ListRows /\ ArrowsTrue'
<1>1. Len(<<>>) = 0 /\ ListRows \in Nat \ {0} /\ Size(<<>>, ListRows) = 0
  BY ConstantsAssumption DEF Size
<1>2. /\ items' = <<>> /\ rows' = ListRows /\ max_choice' = 0
      /\ ListPosition(s, c)
      /\ up' = (scroll' > 0) /\ down' = (ListRows < 0 /\ scroll' + choice' < 0 - 1)
  BY <1>1 DEF DrawList, ListArrows, max_choice
<1>3. scroll' \in Nat /\ choice' \in Nat
  <2>1. CASE c >= ListRows
    BY <1>1, <1>2, <2>1 DEF ListPosition
  <2>2. CASE ~(c >= ListRows)
    BY <1>2, <2>2 DEF ListPosition
  <2> QED
    BY <2>1, <2>2
<1>4. ListKnown'
  BY <1>1, <1>2, <1>3 DEF ListKnown
<1>5. ArrowsTrue'
  <2>0. \A n \in Nat : ~(n < 0) /\ ~(n + 0 < 0)
    OBVIOUS
  <2>1. ~(ListRows < 0) /\ ~(scroll' + 0 < 0)
    BY <1>1, <1>3, <2>0
  <2>2. down' = FALSE
    BY <1>2, <2>1
  <2> QED
    BY <1>1, <1>2, <2>1, <2>2 DEF ArrowsTrue
<1> QED
  BY <1>2, <1>4, <1>5

\* The light of a radio list goes from line to line, and the arrows may stay.
LEMMA LightGoes ==
  ASSUME ListKnown, items # <<>>, NEW c \in 0 .. max_choice - 1, NEW k, Lights(c, k)
  PROVE  /\ ListKnown' /\ (LinesTrue => LinesTrue') /\ (ArrowsTrue => ArrowsTrue')
         /\ scroll' = scroll /\ choice' = c /\ key' = k
         /\ UNCHANGED <<items, rows, button, lit, resized>>
<1>1. key' = k /\ UNCHANGED <<up, down>>
  BY DEF Lights
<1>2. CASE c # choice
  <2>1. Moved(scroll, c)
    BY <1>2 DEF Lights
  <2>2. ListKnown' /\ (LinesTrue => LinesTrue')
    BY <2>1, InNumbers, ScrolledAndPrinted
  <2>3. scroll' = scroll /\ choice' = c /\ UNCHANGED <<items, rows, button, lit, resized>>
    BY <2>1 DEF Moved
  <2> QED
    BY <1>1, <2>2, <2>3 DEF ArrowsTrue, max_choice
<1>3. CASE c = choice
  BY <1>1, <1>3 DEF Lights, ListKnown, LinesTrue, ArrowsTrue, max_choice
<1> QED
  BY <1>2, <1>3

\* A radio list is scrolled when the light is at an end of the window.
LEMMA ScrollGoes ==
  ASSUME ListKnown, items # <<>>, rows = ListRows, NEW s \in Nat, NEW k, Scrolls(s, k),
         \/ s = scroll - 1 /\ choice = 0
         \/ s = scroll + 1 /\ choice = max_choice - 1 /\ scroll + choice < Len(items) - 1
  PROVE  /\ ListKnown' /\ (LinesTrue => LinesTrue') /\ ArrowsTrue'
         /\ scroll' = s /\ choice' = choice /\ key' = k
         /\ UNCHANGED <<items, rows, button, lit, resized>>
<1>1. Moved(s, choice) /\ key' = k
  BY DEF Scrolls
<1>2. scroll' = s /\ choice' = choice /\ UNCHANGED <<items, rows, button, lit, resized>>
  BY <1>1 DEF Moved
<1>3. s + max_choice <= Len(items) /\ choice \in 0 .. max_choice - 1
  BY InNumbers
<1>4. ListKnown' /\ (LinesTrue => LinesTrue')
  BY <1>1, <1>3, ScrolledAndPrinted
<1>5. ArrowsTrue'
  <2>1. up' = (s > 0) /\ down' = (ListRows < Len(items) /\ s + choice < Len(items) - 1)
    BY DEF Scrolls, ListArrows
  <2>2. ListRows < Len(items) /\ s + choice < Len(items) - 1 <=> s + max_choice < Len(items)
    BY InNumbers
  <2>3. down' = (s + max_choice < Len(items))
    BY <2>1, <2>2
  <2> QED
    BY <1>2, <2>1, <2>3 DEF ArrowsTrue, max_choice
<1> QED
  BY <1>1, <1>2, <1>4, <1>5

\* The arrow up in a radio list.
LEMMA ListUpGoes ==
  ASSUME ListKnown, items # <<>>, rows = ListRows, ListUp
  PROVE  Goes /\ (ArrowsTrue => ArrowsTrue') /\ UNCHANGED <<button, lit, resized>>
<1>1. CASE choice > 0 /\ Lights(choice - 1, "up")
  <2>1. choice - 1 \in 0 .. max_choice - 1
    BY <1>1, InNumbers
  <2>2. /\ Dialogs!Far(scroll, scroll) <= Dialogs!Far(scroll + choice, scroll + (choice - 1))
        /\ scroll + (choice - 1) = Dialogs!Larger((scroll + choice) - 1, 0)
    BY <1>1, InNumbers DEF Dialogs!Far, Dialogs!Larger
  <2>3. scroll' = scroll /\ choice' = choice - 1 /\ items' = items /\ key' = "up"
    BY <1>1, <2>1, LightGoes
  <2>4. Dialogs!ByKey
    BY <2>2, <2>3 DEF Dialogs!ByKey, At, Top
  <2>5. Dialogs!Far(scroll, scroll') <= Dialogs!Far(scroll + choice, (scroll + choice)')
    BY <2>2, <2>3
  <2> QED
    BY <1>1, <2>1, <2>4, <2>5, LightGoes DEF Goes
<1>2. CASE choice = 0 /\ scroll > 0 /\ Scrolls(scroll - 1, "up")
  <2>1. scroll - 1 \in Nat
    BY <1>2, InNumbers
  <2>2. /\ Dialogs!Far(scroll, scroll - 1) <= Dialogs!Far(scroll + choice, (scroll - 1) + choice)
        /\ (scroll - 1) + choice = Dialogs!Larger((scroll + choice) - 1, 0)
    BY <1>2, InNumbers DEF Dialogs!Far, Dialogs!Larger
  <2>3. scroll' = scroll - 1 /\ choice' = choice /\ items' = items /\ key' = "up"
    BY <1>2, <2>1, ScrollGoes
  <2>4. Dialogs!ByKey
    BY <2>2, <2>3 DEF Dialogs!ByKey, At, Top
  <2>5. Dialogs!Far(scroll, scroll') <= Dialogs!Far(scroll + choice, (scroll + choice)')
    BY <2>2, <2>3
  <2> QED
    BY <1>2, <2>1, <2>4, <2>5, ScrollGoes DEF Goes
<1>3. CASE choice = 0 /\ scroll = 0 /\ Stays("up")
  <2>1. key' = "up" /\ UNCHANGED <<list, button, lit, resized>>
    BY <1>3 DEF Stays
  <2>2. UNCHANGED <<items, rows, scroll, choice, win, up, down, max_choice>>
    BY <2>1 DEF list, max_choice
  <2>3. ListKnown' /\ (LinesTrue => LinesTrue') /\ (ArrowsTrue => ArrowsTrue')
    BY <2>2 DEF ListKnown, LinesTrue, ArrowsTrue
  <2>4. /\ Dialogs!Far(scroll, scroll') <= Dialogs!Far(scroll + choice, (scroll + choice)')
        /\ (scroll + choice)' = Dialogs!Larger((scroll + choice) - 1, 0)
    BY <1>3, <2>2 DEF Dialogs!Far, Dialogs!Larger
  <2>5. Dialogs!ByKey
    BY <2>1, <2>2, <2>4 DEF Dialogs!ByKey, At, Top
  <2> QED
    BY <2>1, <2>2, <2>3, <2>4, <2>5 DEF Goes
<1> QED
  BY <1>1, <1>2, <1>3 DEF ListUp

\* The arrow down in a radio list.
LEMMA ListDownGoes ==
  ASSUME ListKnown, items # <<>>, rows = ListRows, ListDown
  PROVE  Goes /\ (ArrowsTrue => ArrowsTrue') /\ UNCHANGED <<button, lit, resized>>
<1>1. CASE choice # max_choice - 1 /\ Lights(choice + 1, "down")
  <2>1. choice + 1 \in 0 .. max_choice - 1
    BY <1>1, InNumbers
  <2>2. /\ Dialogs!Far(scroll, scroll) <= Dialogs!Far(scroll + choice, scroll + (choice + 1))
        /\ scroll + (choice + 1) = Dialogs!Smaller(scroll + choice + 1, Len(items) - 1)
    BY <2>1, InNumbers DEF Dialogs!Far, Dialogs!Smaller
  <2>3. scroll' = scroll /\ choice' = choice + 1 /\ items' = items /\ key' = "down"
    BY <1>1, <2>1, LightGoes
  <2>4. Dialogs!ByKey
    BY <2>2, <2>3 DEF Dialogs!ByKey, Dialogs!Count, At, Top
  <2>5. Dialogs!Far(scroll, scroll') <= Dialogs!Far(scroll + choice, (scroll + choice)')
    BY <2>2, <2>3
  <2> QED
    BY <1>1, <2>1, <2>4, <2>5, LightGoes DEF Goes
<1>2. CASE choice = max_choice - 1 /\ ~AtEnd /\ Scrolls(scroll + 1, "down")
  <2>1. scroll + 1 \in Nat /\ scroll + choice < Len(items) - 1
    BY <1>2, InNumbers DEF AtEnd
  <2>2. /\ Dialogs!Far(scroll, scroll + 1) <= Dialogs!Far(scroll + choice, (scroll + 1) + choice)
        /\ (scroll + 1) + choice = Dialogs!Smaller(scroll + choice + 1, Len(items) - 1)
    BY <2>1, InNumbers DEF Dialogs!Far, Dialogs!Smaller
  <2>3. scroll' = scroll + 1 /\ choice' = choice /\ items' = items /\ key' = "down"
    BY <1>2, <2>1, ScrollGoes
  <2>4. Dialogs!ByKey
    BY <2>2, <2>3 DEF Dialogs!ByKey, Dialogs!Count, At, Top
  <2>5. Dialogs!Far(scroll, scroll') <= Dialogs!Far(scroll + choice, (scroll + choice)')
    BY <2>2, <2>3
  <2> QED
    BY <1>2, <2>1, <2>4, <2>5, ScrollGoes DEF Goes
<1>3. CASE choice = max_choice - 1 /\ AtEnd /\ Stays("down")
  <2>1. key' = "down" /\ UNCHANGED <<list, button, lit, resized>>
    BY <1>3 DEF Stays
  <2>2. UNCHANGED <<items, rows, scroll, choice, win, up, down, max_choice>>
    BY <2>1 DEF list, max_choice
  <2>3. ListKnown' /\ (LinesTrue => LinesTrue') /\ (ArrowsTrue => ArrowsTrue')
    BY <2>2 DEF ListKnown, LinesTrue, ArrowsTrue
  <2>4. /\ Dialogs!Far(scroll, scroll) <= Dialogs!Far(scroll + choice, scroll + choice)
        /\ scroll + choice = Dialogs!Smaller(scroll + choice + 1, Len(items) - 1)
    BY <1>3, InNumbers DEF AtEnd, Dialogs!Far, Dialogs!Smaller
  <2>5. Dialogs!ByKey
    BY <2>1, <2>2, <2>4 DEF Dialogs!ByKey, Dialogs!Count, At, Top
  <2>6. Dialogs!Far(scroll, scroll') <= Dialogs!Far(scroll + choice, (scroll + choice)')
    BY <2>2, <2>4
  <2> QED
    BY <2>1, <2>2, <2>3, <2>5, <2>6 DEF Goes
<1> QED
  BY <1>1, <1>2, <1>3 DEF ListDown

\* A letter in a radio list.
LEMMA ListLetterGoes ==
  ASSUME ListKnown, items # <<>>, NEW k, ListLetter(k)
  PROVE  Goes /\ (ArrowsTrue => ArrowsTrue') /\ UNCHANGED <<button, lit, resized>>
<1>1. PICK i \in Answering(k) : Lights(i, k)
  BY DEF ListLetter
<1>2. /\ i \in 0 .. max_choice - 1 /\ k = KeyOf[items[scroll + i + 1]]
      /\ Dialogs!Far(scroll, scroll) <= Dialogs!Far(scroll + choice, scroll + i)
  BY InNumbers DEF Answering, Dialogs!Far
<1> QED
  BY <1>1, <1>2, LightGoes DEF Goes, Dialogs!ByKey, At, Top

\* In an empty radio list the light may go anywhere; no item comes of it.
LEMMA EmptyListGoes ==
  ASSUME ListKnown, items = <<>>, rows = ListRows, ListUp \/ ListDown
  PROVE  Goes /\ (ArrowsTrue => ArrowsTrue') /\ UNCHANGED <<button, lit, resized>>
<1>1. max_choice = 0 /\ Len(items) = 0 /\ scroll \in Nat /\ choice \in Nat /\ ListRows \in Nat
  BY DEF ListKnown, max_choice, Size
<1>2. ASSUME NEW c \in Nat, NEW k, Lights(c, k)
      PROVE  Goes /\ (ArrowsTrue => ArrowsTrue') /\ UNCHANGED <<button, lit, resized>>
  <2>1. /\ scroll' = scroll /\ choice' \in Nat
        /\ UNCHANGED <<items, rows, button, lit, resized, up, down>>
    BY <1>1, <1>2 DEF Lights, Moved
  <2>2. max_choice' = max_choice
    BY <2>1 DEF max_choice
  <2>3. ListKnown' /\ (ArrowsTrue => ArrowsTrue')
    BY <2>1, <2>2 DEF ListKnown, ArrowsTrue
  <2> QED
    BY <2>1, <2>3 DEF Goes
<1>3. ASSUME NEW s \in Nat, NEW k, Scrolls(s, k)
      PROVE  Goes /\ (ArrowsTrue => ArrowsTrue') /\ UNCHANGED <<button, lit, resized>>
  <2>1. /\ scroll' = s /\ choice' = choice
        /\ UNCHANGED <<items, rows, button, lit, resized>>
        /\ up' = (s > 0) /\ down' = (ListRows < Len(items) /\ s + choice < Len(items) - 1)
    BY <1>3 DEF Scrolls, Moved, ListArrows
  <2>2. max_choice' = 0
    BY <1>1, <2>1 DEF max_choice
  <2>3. ListKnown' /\ ArrowsTrue'
    BY <1>1, <1>3, <2>1, <2>2 DEF ListKnown, ArrowsTrue
  <2> QED
    BY <2>1, <2>3 DEF Goes
<1>4. ASSUME NEW k, Stays(k)
      PROVE  Goes /\ (ArrowsTrue => ArrowsTrue') /\ UNCHANGED <<button, lit, resized>>
  <2>1. UNCHANGED <<items, rows, scroll, choice, up, down, button, lit, resized, max_choice>>
    BY <1>4 DEF Stays, list, max_choice
  <2> QED
    BY <2>1 DEF ListKnown, ArrowsTrue, Goes
<1>5. CASE ListUp
  <2>1. CASE choice > 0 /\ Lights(choice - 1, "up")
    BY <1>1, <1>2, <2>1
  <2>2. CASE choice = 0 /\ scroll > 0 /\ Scrolls(scroll - 1, "up")
    BY <1>1, <1>3, <2>2
  <2> QED
    BY <1>4, <1>5, <2>1, <2>2 DEF ListUp
<1>6. CASE ListDown
  <2>1. Lights(choice + 1, "down")
    BY <1>1, <1>6 DEF ListDown
  <2> QED
    BY <1>1, <1>2, <2>1
<1> QED
  BY <1>5, <1>6

-----------------------------------------------------------------------------
(***************************************************************************)
(* Texts.                                                                  *)
(***************************************************************************)
\* The first p characters of t, and those from p on of the n that t has.
UpTo(t, p) == [i \in 1 .. p |-> t[i - 1]]
From(t, p, n) == [i \in 1 .. n - p |-> t[p + i - 1]]

\* The text before the cursor is a sequence of characters.
LEMMA UpToSeq ==
  ASSUME NEW t, NEW p \in Nat, \A i \in 0 .. p - 1 : t[i] \in Chars
  PROVE  UpTo(t, p) \in Seq(Chars) /\ Len(UpTo(t, p)) = p
<1>1. UpTo(t, p) \in [1 .. p -> Chars]
  BY DEF UpTo
<1> QED
  BY <1>1, LenProperties, SeqDef

\* And so is the text after it.
LEMMA FromSeq ==
  ASSUME NEW t, NEW n \in Nat, NEW p \in 0 .. n, \A i \in p .. n - 1 : t[i] \in Chars
  PROVE  From(t, p, n) \in Seq(Chars) /\ Len(From(t, p, n)) = n - p
<1>1. n - p \in Nat
  OBVIOUS
<1>2. From(t, p, n) \in [1 .. n - p -> Chars]
  BY DEF From
<1> QED
  BY <1>1, <1>2, LenProperties, SeqDef

\* Nothing follows the end of the text.
LEMMA NoneFrom == \A t, n : n \in Int => From(t, n, n) = <<>>
<1> SUFFICES ASSUME NEW t, NEW n \in Int PROVE From(t, n, n) = <<>>
  OBVIOUS
<1>1. n - n = 0 /\ 1 .. 0 = {}
  OBVIOUS
<1>2. From(t, n, n) = [i \in {} |-> t[n + i - 1]]
  BY <1>1 DEF From
<1> QED
  BY <1>2

\* One character more.
LEMMA AppendUpTo ==
  ASSUME NEW t, NEW u, NEW p \in Nat, NEW c \in Chars,
         \A i \in 0 .. p - 1 : t[i] \in Chars /\ u[i] = t[i],
         u[p] = c
  PROVE  UpTo(u, p + 1) = Append(UpTo(t, p), c)
<1> DEFINE q == UpTo(t, p)
<1>1. q \in Seq(Chars) /\ Len(q) = p
  BY UpToSeq
<1>2. \A i \in 1 .. p : q[i] = u[i - 1]
  BY DEF UpTo
<1> HIDE DEF q
<1>3. /\ Append(q, c) \in Seq(Chars) /\ Len(Append(q, c)) = p + 1
      /\ \A i \in 1 .. p : Append(q, c)[i] = q[i]
      /\ Append(q, c)[p + 1] = c
  BY <1>1, AppendProperties
<1>4. UpTo(u, p + 1) \in Seq(Chars) /\ Len(UpTo(u, p + 1)) = p + 1
  BY UpToSeq
<1>5. ASSUME NEW i \in 1 .. p + 1 PROVE Append(q, c)[i] = UpTo(u, p + 1)[i]
  BY <1>2, <1>3 DEF UpTo
<1> QED
  BY <1>3, <1>4, <1>5, SeqEqual DEF q

\* The first character after the cursor, and the others.
LEMMA ConsFrom ==
  ASSUME NEW t, NEW n \in Nat, NEW p \in 0 .. n - 1, \A i \in p .. n - 1 : t[i] \in Chars
  PROVE  From(t, p, n) = <<t[p]>> \o From(t, p + 1, n)
<1> DEFINE q == From(t, p + 1, n)
<1>1. q \in Seq(Chars) /\ Len(q) = n - (p + 1)
  BY FromSeq
<1>2. \A i \in 2 .. n - p : q[i - 1] = t[p + i - 1]
  BY DEF From
<1> HIDE DEF q
<1>3. <<t[p]>> \o q = [i \in 1 .. n - p |-> IF i <= 1 THEN t[p] ELSE q[i - 1]]
  BY <1>1
<1>4. ASSUME NEW i \in 1 .. n - p PROVE t[p + i - 1] = IF i <= 1 THEN t[p] ELSE q[i - 1]
  BY <1>2
<1> QED
  BY <1>3, <1>4 DEF From, q

\* What is before the cursor and what is after it are the text.
LEMMA AllUpTo ==
  ASSUME NEW t, NEW n \in Nat, NEW p \in 0 .. n, \A i \in 0 .. n - 1 : t[i] \in Chars
  PROVE  UpTo(t, p) \o From(t, p, n) = UpTo(t, n)
<1> DEFINE a == UpTo(t, p)
           b == From(t, p, n)
<1>1. a \in Seq(Chars) /\ Len(a) = p /\ b \in Seq(Chars) /\ Len(b) = n - p
  BY UpToSeq, FromSeq
<1>2. /\ \A i \in 1 .. p : a[i] = t[i - 1]
      /\ \A i \in p + 1 .. n : b[i - p] = t[i - 1]
  BY DEF UpTo, From
<1> HIDE DEF a, b
<1>3. /\ a \o b \in Seq(Chars) /\ Len(a \o b) = n
      /\ \A i \in 1 .. n : (a \o b)[i] = IF i <= p THEN a[i] ELSE b[i - p]
  <2>1. /\ a \o b \in Seq(Chars) /\ Len(a \o b) = Len(a) + Len(b)
        /\ \A i \in 1 .. Len(a) + Len(b) : (a \o b)[i] = IF i <= Len(a) THEN a[i] ELSE b[i - Len(a)]
    BY <1>1, ConcatProperties
  <2>2. Len(a) + Len(b) = n
    BY <1>1
  <2> QED
    BY <1>1, <2>1, <2>2
<1>4. UpTo(t, n) \in Seq(Chars) /\ Len(UpTo(t, n)) = n
  BY UpToSeq
<1>5. ASSUME NEW i \in 1 .. n PROVE (a \o b)[i] = UpTo(t, n)[i]
  <2>1. UpTo(t, n)[i] = t[i - 1]
    BY DEF UpTo
  <2>2. CASE i <= p
    BY <1>2, <1>3, <2>1, <2>2
  <2>3. CASE i > p
    <3>1. i \in p + 1 .. n /\ ~(i <= p)
      BY <2>3
    <3> QED
      BY <1>2, <1>3, <2>1, <3>1
  <2>4. i <= p \/ i > p
    OBVIOUS
  <2> QED
    BY <2>2, <2>3, <2>4
<1> QED
  BY <1>3, <1>4, <1>5, SeqEqual DEF a, b

-----------------------------------------------------------------------------
(***************************************************************************)
(* The line of text.                                                       *)
(***************************************************************************)
\* A cell and the character in it.
LEMMA Shifted == \A a, b, i, n \in Int : a + b = n => (i < b <=> a + i < n)
OBVIOUS

\* A field that is drawn shows the end of the text, with the cursor behind it.
LEMMA TextDrawn ==
  ASSUME NEW n \in Nat, NEW t \in [0 .. n - 1 -> Chars], DrawText(t, n)
  PROVE  TextKnown' /\ FieldTrue' /\ text' = t /\ len' = n /\ pos' = n
<1>1. BoxWidth \in Nat \ {0}
  BY ConstantsAssumption
<1>2. /\ text' = t /\ len' = n /\ pos' = n
      /\ cells' = [i \in 0 .. BoxWidth - 1 |-> IF i < input_x' THEN t[show_x' + i] ELSE Space]
  BY DEF DrawText
<1>3. /\ show_x' \in Nat /\ input_x' \in 0 .. BoxWidth - 1 /\ show_x' + input_x' = n
  BY <1>1 DEF DrawText
<1>4. ASSUME NEW i \in 0 .. BoxWidth - 1
      PROVE  (IF i < input_x' THEN t[show_x' + i] ELSE Space)
               = IF show_x' + i < n THEN t[show_x' + i] ELSE Space
  <2>1. i \in Int /\ n \in Int /\ show_x' \in Int /\ input_x' \in Int
    BY <1>1, <1>3
  <2>2. i < input_x' <=> show_x' + i < n
    BY <1>3, <2>1, Shifted
  <2> QED
    BY <2>2
<1>5. cells' = [i \in 0 .. BoxWidth - 1 |-> IF show_x' + i < n THEN t[show_x' + i] ELSE Space]
  BY <1>2, <1>4
<1>6. FieldTrue'
  BY <1>2, <1>3, <1>5 DEF FieldTrue
<1>7. TextKnown'
  <2>1. n \in 0 .. n
    OBVIOUS
  <2> QED
    BY <1>2, <1>3, <2>1 DEF TextKnown
<1> QED
  BY <1>2, <1>6, <1>7

\* What a key does that goes to the text.
Wrote ==
  \/ \E c \in Chars : Dialogs!TypeIn(c) \/ Dialogs!TakeOut(c) \/ Dialogs!GoLeft(c) \/ Dialogs!GoRight(c)
  \/ Dialogs!Full
  \/ key' = "turn" /\ UNCHANGED Dialogs!written

\* What is known of the text, in numbers only.
LEMMA TextInNumbers ==
  ASSUME TextKnown, FieldTrue
  PROVE  /\ BoxWidth \in Nat \ {0} /\ MaxLen \in Nat
         /\ len \in Nat /\ pos \in Nat /\ pos <= len
         /\ show_x \in Nat /\ input_x \in Nat /\ input_x < BoxWidth /\ show_x + input_x = pos
         /\ \A i \in 0 .. len - 1 : text[i] \in Chars
BY ConstantsAssumption DEF TextKnown, FieldTrue

\* Printing the text that is left, and one blank, comes to the same as printing
\* the whole field where no more than one character has gone.
LEMMA CellsPrinted ==
  ASSUME TextKnown, FieldTrue, NEW t, NEW n \in Nat, NEW s \in Nat, NEW x \in 0 .. BoxWidth - 1,
         show_x - s >= len - n - 1,
         text' = t, len' = n, show_x' = s, input_x' = x, pos' = s + x,
         cells' = Printed(cells, t, n, s)
  PROVE  FieldTrue'
<1>1. ASSUME NEW i \in 0 .. BoxWidth - 1
      PROVE  (CASE s + i < n -> t[s + i] [] s + i = n -> Space [] OTHER -> cells[i])
               = IF s + i < n THEN t[s + i] ELSE Space
  <2>1. BoxWidth \in Nat /\ i \in Nat /\ show_x \in Nat /\ len \in Nat
    BY TextInNumbers
  <2>2. CASE s + i < n
    BY <2>1, <2>2
  <2>3. CASE s + i = n
    BY <2>1, <2>3
  <2>4. CASE s + i > n
    <3>1. ~(show_x + i < len)
      BY <2>1, <2>4
    <3>2. cells[i] = Space
      BY <3>1 DEF FieldTrue
    <3> QED
      BY <2>1, <2>4, <3>2
  <2> QED
    BY <2>1, <2>2, <2>3, <2>4
<1>2. cells' = [i \in 0 .. BoxWidth - 1 |-> IF s + i < n THEN t[s + i] ELSE Space]
  BY <1>1 DEF Printed
<1> QED
  BY <1>2 DEF FieldTrue

\* A character is put in.
LEMMA InsertWrites ==
  ASSUME TextKnown, FieldTrue, NEW c \in Chars, Insert(c)
  PROVE  TextKnown' /\ FieldTrue' /\ Wrote
<1> DEFINE u == With(pos, c)
<1>1. /\ text' = u /\ len' = len + 1 /\ pos' = pos + 1 /\ key' = "char" /\ len < MaxLen
      /\ cells' = Printed(cells, text', len', show_x')
  BY DEF Insert, Edited
<1>2. /\ DOMAIN u = 0 .. len /\ u[pos] = c
      /\ \A i \in 0 .. pos - 1 : u[i] = text[i]
      /\ \A i \in pos + 1 .. len : u[i] = text[i - 1]
  BY TextInNumbers DEF With
<1>3. u \in [0 .. len -> Chars]
  BY TextInNumbers DEF With
<1> HIDE DEF u
<1>4. FieldTrue'
  <2>1. CASE input_x = BoxWidth - 1
    <3>1. show_x' = show_x + 1 /\ input_x' = BoxWidth - 1
      BY <2>1 DEF Insert
    <3>2. /\ len + 1 \in Nat /\ show_x + 1 \in Nat /\ BoxWidth - 1 \in 0 .. BoxWidth - 1
          /\ show_x - (show_x + 1) >= len - (len + 1) - 1
          /\ pos + 1 = (show_x + 1) + (BoxWidth - 1)
      BY <2>1, TextInNumbers
    <3> QED
      BY <1>1, <3>1, <3>2, CellsPrinted
  <2>2. CASE input_x # BoxWidth - 1
    <3>1. show_x' = show_x /\ input_x' = input_x + 1
      BY <2>2 DEF Insert
    <3>2. /\ len + 1 \in Nat /\ show_x \in Nat /\ input_x + 1 \in 0 .. BoxWidth - 1
          /\ show_x - show_x >= len - (len + 1) - 1
          /\ pos + 1 = show_x + (input_x + 1)
      BY <2>2, TextInNumbers
    <3> QED
      BY <1>1, <3>1, <3>2, CellsPrinted
  <2> QED
    BY <2>1, <2>2
<1>5. TextKnown'
  <2>1. show_x' \in Nat
    BY TextInNumbers DEF Insert
  <2> QED
    BY <1>1, <1>3, <2>1, TextInNumbers DEF TextKnown
<1>6. UpTo(u, pos + 1) = Append(UpTo(text, pos), c)
  <2>1. pos \in Nat /\ \A i \in 0 .. pos - 1 : text[i] \in Chars /\ u[i] = text[i]
    BY <1>2, TextInNumbers
  <2> QED
    BY <1>2, <2>1, AppendUpTo
<1>7. From(u, pos + 1, len + 1) = From(text, pos, len)
  <2>1. (len + 1) - (pos + 1) = len - pos
    BY TextInNumbers
  <2>2. ASSUME NEW i \in 1 .. len - pos PROVE u[(pos + 1) + i - 1] = text[pos + i - 1]
    <3> DEFINE j == (pos + 1) + i - 1
    <3>1. j \in pos + 1 .. len /\ j - 1 = pos + i - 1
      BY TextInNumbers
    <3> HIDE DEF j
    <3>2. u[j] = text[j - 1]
      BY <1>2, <3>1
    <3> QED
      BY <3>1, <3>2 DEF j
  <2> QED
    BY <2>1, <2>2 DEF From
<1>8. Dialogs!TypeIn(c)
  BY <1>1, <1>6, <1>7 DEF Dialogs!TypeIn, UpTo, From
<1> QED
  BY <1>4, <1>5, <1>8 DEF Wrote

\* A character is taken out, on the left of the cursor.
LEMMA BackspaceWrites ==
  ASSUME TextKnown, FieldTrue, Backspace
  PROVE  TextKnown' /\ FieldTrue' /\ Wrote
<1> DEFINE p == pos - 1
           u == Without(p)
<1>1. /\ text' = u /\ len' = len - 1 /\ pos' = p /\ key' = "backspace"
      /\ cells' = Printed(cells, text', len', show_x')
  BY DEF Backspace, Edited
<1>2. /\ p \in Nat /\ p + 1 = pos /\ p < len /\ len - 1 \in Nat
      /\ p + 1 = show_x + input_x /\ text[p] \in Chars
  BY TextInNumbers DEF Backspace
<1> HIDE DEF p
<1>2a. PICK c \in Chars : c = text[p]
  BY <1>2
<1>3. /\ \A i \in 0 .. p - 1 : u[i] = text[i]
      /\ \A i \in p .. len - 2 : u[i] = text[i + 1]
  BY <1>2, TextInNumbers DEF Without
<1>4. u \in [0 .. (len - 1) - 1 -> Chars]
  BY <1>2, TextInNumbers DEF Without
<1> HIDE DEF u
<1>5. FieldTrue'
  <2>1. CASE input_x = 0
    <3>1. show_x' = show_x - 1 /\ input_x' = 0
      BY <2>1 DEF Backspace
    <3>2. /\ show_x - 1 \in Nat /\ 0 \in 0 .. BoxWidth - 1
          /\ show_x - (show_x - 1) >= len - (len - 1) - 1
          /\ p = (show_x - 1) + 0
      <4>1. BoxWidth \in Nat \ {0} /\ len \in Nat /\ p \in Nat /\ show_x \in Nat /\ show_x = p + 1
        BY <1>2, <2>1, TextInNumbers
      <4> QED
        BY <4>1
    <3> QED
      BY <1>1, <1>2, <3>1, <3>2, CellsPrinted
  <2>2. CASE input_x # 0
    <3>1. show_x' = show_x /\ input_x' = input_x - 1
      BY <2>2 DEF Backspace
    <3>2. /\ show_x \in Nat /\ input_x - 1 \in 0 .. BoxWidth - 1
          /\ show_x - show_x >= len - (len - 1) - 1
          /\ p = show_x + (input_x - 1)
      <4>1. /\ BoxWidth \in Nat /\ len \in Nat /\ p \in Nat /\ show_x \in Nat /\ input_x \in Nat \ {0}
            /\ input_x < BoxWidth /\ p + 1 = show_x + input_x
        BY <1>2, <2>2, TextInNumbers
      <4> QED
        BY <4>1
    <3> QED
      BY <1>1, <1>2, <3>1, <3>2, CellsPrinted
  <2> QED
    BY <2>1, <2>2
<1>6. TextKnown'
  <2>1. show_x' \in Nat
    BY <1>2, TextInNumbers DEF Backspace
  <2>2. len - 1 \in Nat /\ p \in 0 .. len - 1
    BY <1>2, TextInNumbers
  <2> QED
    BY <1>1, <1>4, <2>1, <2>2 DEF TextKnown
<1>7. UpTo(text, pos) = Append(UpTo(u, p), c)
  <2>1. \A i \in 0 .. p - 1 : u[i] \in Chars /\ text[i] = u[i]
    BY <1>2, <1>3, TextInNumbers
  <2>2. UpTo(text, p + 1) = Append(UpTo(u, p), c)
    BY <1>2, <1>2a, <2>1, AppendUpTo
  <2> QED
    BY <1>2, <2>2
<1>8. From(u, p, len - 1) = From(text, pos, len)
  <2>1. (len - 1) - p = len - pos
    BY <1>2, TextInNumbers
  <2>2. ASSUME NEW i \in 1 .. len - pos PROVE u[p + i - 1] = text[pos + i - 1]
    <3> DEFINE j == p + i - 1
    <3>1. j \in p .. len - 2 /\ j + 1 = pos + i - 1
      BY <1>2, TextInNumbers
    <3> HIDE DEF j
    <3>2. u[j] = text[j + 1]
      BY <1>3, <3>1
    <3> QED
      BY <3>1, <3>2 DEF j
  <2> QED
    BY <2>1, <2>2 DEF From
<1>9. Dialogs!TakeOut(c)
  BY <1>1, <1>7, <1>8 DEF Dialogs!TakeOut, UpTo, From
<1> QED
  BY <1>2, <1>5, <1>6, <1>9 DEF Wrote

\* The cursor is moved by one character, to the left or to the right.
LEMMA CursorMoved ==
  ASSUME TextKnown, FieldTrue, NEW p \in 0 .. len, NEW s \in Nat, NEW x \in 0 .. BoxWidth - 1,
         text' = text, len' = len, pos' = p, show_x' = s, input_x' = x, p = s + x,
         \/ s = show_x /\ cells' = cells
         \/ s \in {show_x - 1, show_x + 1} /\ cells' = Printed(cells, text, len, s)
  PROVE  TextKnown' /\ FieldTrue'
<1>1. TextKnown'
  BY DEF TextKnown
<1>2. CASE s = show_x /\ cells' = cells
  BY <1>1, <1>2 DEF FieldTrue
<1>3. CASE s \in {show_x - 1, show_x + 1} /\ cells' = Printed(cells, text, len, s)
  <2>1. len \in Nat /\ show_x - s >= len - len - 1
    BY <1>3, TextInNumbers
  <2>2. pos' = s + x
    OBVIOUS
  <2>3. FieldTrue'
    BY <1>3, <2>1, <2>2, CellsPrinted
  <2> QED
    BY <1>1, <2>3
<1> QED
  BY <1>1, <1>2, <1>3

\* The cursor goes to the left.
LEMMA LeftWrites ==
  ASSUME TextKnown, FieldTrue, Left
  PROVE  TextKnown' /\ FieldTrue' /\ Wrote
<1> DEFINE p == pos - 1
<1>1. text' = text /\ len' = len /\ pos' = p /\ key' = "left"
  BY DEF Left, Edited
<1>2. /\ p \in 0 .. len - 1 /\ p \in 0 .. len /\ p \in Nat /\ len \in Nat /\ p + 1 = pos
      /\ p + 1 = show_x + input_x /\ text[p] \in Chars
  BY TextInNumbers DEF Left
<1> HIDE DEF p
<1>2a. PICK c \in Chars : c = text[p]
  BY <1>2
<1>3. TextKnown' /\ FieldTrue'
  <2>1. CASE input_x > 0
    <3>1. show_x' = show_x /\ input_x' = input_x - 1 /\ cells' = cells
      BY <2>1 DEF Left
    <3>2. show_x \in Nat /\ input_x - 1 \in 0 .. BoxWidth - 1 /\ p = show_x + (input_x - 1)
      BY <1>2, <2>1, TextInNumbers
    <3> QED
      BY <1>1, <1>2, <3>1, <3>2, CursorMoved
  <2>2. CASE ~(input_x > 0)
    <3>1. show_x' = show_x - 1 /\ input_x' = input_x /\ cells' = Printed(cells, text, len, show_x - 1)
      BY <2>2 DEF Left
    <3>2. show_x - 1 \in Nat /\ input_x \in 0 .. BoxWidth - 1 /\ p = (show_x - 1) + input_x
      BY <1>2, <2>2, TextInNumbers
    <3> QED
      BY <1>1, <1>2, <3>1, <3>2, CursorMoved
  <2> QED
    BY <2>1, <2>2
<1>4. /\ \A i \in 0 .. p - 1 : text[i] \in Chars /\ text[i] = text[i]
      /\ \A i \in p .. len - 1 : text[i] \in Chars
  BY <1>2, TextInNumbers
<1>5. UpTo(text, p + 1) = Append(UpTo(text, p), c)
  BY <1>2, <1>2a, <1>4, AppendUpTo
<1>6. From(text, p, len) = <<c>> \o From(text, p + 1, len)
  BY <1>2, <1>2a, <1>4, ConsFrom
<1>7. Dialogs!GoLeft(c)
  BY <1>1, <1>2, <1>5, <1>6 DEF Dialogs!GoLeft, UpTo, From
<1> QED
  BY <1>2, <1>3, <1>7 DEF Wrote

\* The cursor goes to the right.
LEMMA RightWrites ==
  ASSUME TextKnown, FieldTrue, Right
  PROVE  TextKnown' /\ FieldTrue' /\ Wrote
<1>1. text' = text /\ len' = len /\ pos' = pos + 1 /\ key' = "right"
  BY DEF Right, Edited
<1>2. /\ pos \in 0 .. len - 1 /\ pos + 1 \in 0 .. len /\ pos \in Nat /\ len \in Nat
      /\ pos = show_x + input_x /\ text[pos] \in Chars
  BY TextInNumbers DEF Right
<1>2a. PICK c \in Chars : c = text[pos]
  BY <1>2
<1>3. TextKnown' /\ FieldTrue'
  <2>1. CASE input_x < BoxWidth - 1
    <3>1. show_x' = show_x /\ input_x' = input_x + 1 /\ cells' = cells
      BY <2>1 DEF Right
    <3>2. show_x \in Nat /\ input_x + 1 \in 0 .. BoxWidth - 1 /\ pos + 1 = show_x + (input_x + 1)
      BY <1>2, <2>1, TextInNumbers
    <3> QED
      BY <1>1, <1>2, <3>1, <3>2, CursorMoved
  <2>2. CASE ~(input_x < BoxWidth - 1)
    <3>1. show_x' = show_x + 1 /\ input_x' = input_x /\ cells' = Printed(cells, text, len, show_x + 1)
      BY <2>2 DEF Right
    <3>2. show_x + 1 \in Nat /\ input_x \in 0 .. BoxWidth - 1 /\ pos + 1 = (show_x + 1) + input_x
      BY <1>2, <2>2, TextInNumbers
    <3> QED
      BY <1>1, <1>2, <3>1, <3>2, CursorMoved
  <2> QED
    BY <2>1, <2>2
<1>4. /\ \A i \in 0 .. pos - 1 : text[i] \in Chars /\ text[i] = text[i]
      /\ \A i \in pos .. len - 1 : text[i] \in Chars
  BY <1>2, TextInNumbers
<1>5. UpTo(text, pos + 1) = Append(UpTo(text, pos), c)
  BY <1>2, <1>2a, <1>4, AppendUpTo
<1>6. From(text, pos, len) = <<c>> \o From(text, pos + 1, len)
  BY <1>2, <1>2a, <1>4, ConsFrom
<1>7. Dialogs!GoRight(c)
  BY <1>1, <1>5, <1>6 DEF Dialogs!GoRight, UpTo, From
<1> QED
  BY <1>2, <1>3, <1>7 DEF Wrote

\* A full text, and the buttons, leave the text and the field alone.
LEMMA FieldKept ==
  ASSUME TextKnown, FieldTrue, UNCHANGED field
  PROVE  TextKnown' /\ FieldTrue' /\ UNCHANGED Dialogs!written
<1>1. UNCHANGED <<text, len, pos, show_x, input_x, cells>>
  BY DEF field
<1> QED
  BY <1>1 DEF TextKnown, FieldTrue, Dialogs!written

\* A character for which there is no room.
LEMMA FullWrites ==
  ASSUME TextKnown, FieldTrue, Flash
  PROVE  TextKnown' /\ FieldTrue' /\ Wrote
<1>1. UNCHANGED field /\ key' = "char" /\ len >= MaxLen
  BY DEF Flash, Edited
<1>2. Len(UpTo(text, pos)) = pos /\ Len(From(text, pos, len)) = len - pos
  <2>1. /\ pos \in Nat /\ len \in Nat /\ pos \in 0 .. len
        /\ \A i \in 0 .. pos - 1 : text[i] \in Chars
        /\ \A i \in pos .. len - 1 : text[i] \in Chars
    BY TextInNumbers
  <2> QED
    BY <2>1, UpToSeq, FromSeq
<1>3. Len(UpTo(text, pos)) + Len(From(text, pos, len)) >= MaxLen
  BY <1>1, <1>2, TextInNumbers
<1>4. Dialogs!Full
  BY <1>1, <1>3, FieldKept DEF Dialogs!Full, UpTo, From
<1> QED
  BY <1>1, <1>4, FieldKept DEF Wrote

-----------------------------------------------------------------------------
(***************************************************************************)
(* The keys, each within its dialog.                                       *)
(***************************************************************************)
\* The light within the window, in numbers only.
LEMMA Sight ==
  \A s, c \in Nat : \A m, r, n \in Int :
    c < m /\ m <= r /\ s + m <= n => s + c \in 0 .. n - 1 /\ s \in 0 .. s + c /\ s + c < s + r
OBVIOUS

\* A list that is known has its light in sight.
LEMMA SightThen ==
  ASSUME ListKnown' PROVE Dialogs!InSight'
<1>0. CASE items' = <<>>
  BY <1>0 DEF Dialogs!InSight, At, Top
<1>1. CASE items' # <<>>
  <2>1. /\ Len(items') \in Int /\ rows' \in Int
        /\ Size(items', rows') \in Int /\ Size(items', rows') <= rows'
        /\ max_choice' = Size(items', rows')
    BY <1>1, Lengths, Sizes DEF ListKnown, max_choice
  <2>2. scroll' \in Nat /\ choice' \in Nat /\ choice' < max_choice' /\ scroll' + max_choice' <= Len(items')
    BY <1>1 DEF ListKnown
  <2>3. /\ scroll' + choice' \in 0 .. Len(items') - 1 /\ scroll' \in 0 .. scroll' + choice'
        /\ scroll' + choice' < scroll' + rows'
    BY <2>1, <2>2, Sight
  <2> QED
    BY <1>1, <2>3 DEF Dialogs!InSight, Dialogs!Count, At, Top
<1> QED
  BY <1>0, <1>1

\* A key that moves the light is a move of the light.
LEMMA GoesMoves ==
  ASSUME Goes, view \in {"menu", "choice"}, UNCHANGED <<view, stack, active, field>>
  PROVE  Dialogs!Move
<1>1. UNCHANGED <<items, rows, view, stack, active, text, len, pos>>
  BY DEF Goes, field
<1>2. UNCHANGED <<view, Dialogs!content, Dialogs!written>>
  BY <1>1 DEF Dialogs!content, Dialogs!written
<1>3. Dialogs!InSight'
  BY SightThen DEF Goes
<1>4. CASE items = <<>>
  <2>1. At = 0 /\ Top = 0 /\ At' = 0 /\ Top' = 0
    BY <1>1, <1>4 DEF At, Top
  <2>2. UNCHANGED Dialogs!place /\ Dialogs!Far(Top, Top') <= Dialogs!Far(At, At')
    BY <2>1 DEF Dialogs!place, Dialogs!Far
  <2> QED
    BY <1>2, <1>3, <1>4, <2>2 DEF Dialogs!Move
<1>5. CASE items # <<>>
  <2>1. At = scroll + choice /\ Top = scroll /\ At' = (scroll + choice)' /\ Top' = scroll'
    BY <1>1, <1>5 DEF At, Top
  <2>2. Dialogs!ByKey /\ Dialogs!Far(Top, Top') <= Dialogs!Far(At, At')
    BY <1>5, <2>1 DEF Goes
  <2> QED
    BY <1>2, <1>3, <1>5, <2>2 DEF Dialogs!Move
<1> QED
  BY <1>4, <1>5

\* A key in a menu.
LEMMA MenuKeyKeeps ==
  ASSUME IInv, MenuKey
  PROVE  IInv' /\ Dialogs!Move
<1>1. /\ view = "menu" /\ UNCHANGED <<view, stack, term, field>>
      /\ counted' = counted /\ ListKnown /\ rows = term
      /\ ArrowsTrue /\ (aligned => LinesTrue) /\ (~resized => aligned /\ lit = button)
  BY DEF MenuKey, Within, IInv, ScreenTrue
<1> DEFINE Done == /\ Goes /\ UNCHANGED <<origin, resized>>
                   /\ LinesTrue => LinesTrue'
                   /\ ArrowsTrue => ArrowsTrue'
                   /\ lit = button => lit' = button'
<1>2. Done
  <2>1. CASE MenuUp
    <3>1. items # <<>>
      BY <2>1 DEF MenuUp, Go
    <3> QED
      BY <1>1, <2>1, <3>1, UpGoes DEF Goes
  <2>2. CASE MenuDown
    <3>1. items # <<>>
      BY <2>2 DEF MenuDown, Go
    <3> QED
      BY <1>1, <2>2, <3>1, DownGoes DEF Goes
  <2>3. CASE MenuPageUp
    <3>1. items # <<>>
      BY <2>3 DEF MenuPageUp, Go
    <3> QED
      BY <1>1, <2>3, <3>1, PageUpGoes DEF Goes
  <2>4. CASE MenuPageDown
    <3>1. items # <<>>
      BY <2>4 DEF MenuPageDown, Go
    <3> QED
      BY <1>1, <2>4, <3>1, PageDownGoes DEF Goes
  <2>5. ASSUME NEW k \in Letters, MenuLetter(k) PROVE Done
    <3>1. items # <<>>
      BY <2>5 DEF MenuLetter, Go
    <3> QED
      BY <1>1, <2>5, <3>1, LetterGoes DEF Goes
  <2>6. ASSUME NEW n, MenuTurn(n) PROVE Done
    <3>1. /\ key' = "turn" /\ UNCHANGED list /\ UNCHANGED <<origin, resized>>
          /\ lit' = button'
      BY <2>6 DEF MenuTurn, Turn
    <3> QED
      BY <1>1, <3>1, TurnGoes
  <2>7. CASE MenuIdle
    <3>1. items = <<>> /\ UNCHANGED <<list, origin, button, lit, resized>>
      BY <2>7 DEF MenuIdle
    <3>2. UNCHANGED <<items, rows, scroll, choice, win, up, down, max_choice>>
      BY <3>1 DEF list, max_choice
    <3> QED
      BY <1>1, <3>1, <3>2 DEF Goes, ListKnown, LinesTrue, ArrowsTrue
  <2> QED
    BY <2>1, <2>2, <2>3, <2>4, <2>5, <2>6, <2>7 DEF MenuKey
<1>3. UNCHANGED <<active, s_scroll, aligned>>
  BY <1>2 DEF origin
<1>4. IInv'
  <2>1. Kept'
    BY <1>1, <1>3 DEF IInv, Kept
  <2>2. view' = "menu" /\ ListKnown' /\ rows' = term'
    BY <1>1, <1>2 DEF Goes
  <2>3. ScreenTrue'
    BY <1>1, <1>2, <1>3, <2>2 DEF ScreenTrue
  <2> QED
    BY <2>1, <2>2, <2>3 DEF IInv
<1> QED
  BY <1>1, <1>2, <1>3, <1>4, GoesMoves

\* A key in a radio list.
LEMMA ListKeyKeeps ==
  ASSUME IInv, ListKey
  PROVE  IInv' /\ Dialogs!Move
<1>1. /\ view = "choice" /\ UNCHANGED <<view, stack, term, field, active, s_scroll>>
      /\ ListKnown /\ rows = ListRows /\ (items # <<>> => LinesTrue)
      /\ ~resized => ArrowsTrue /\ lit = button
  BY DEF ListKey, Within, IInv, ScreenTrue, origin
<1> DEFINE Done == /\ Goes /\ UNCHANGED resized
                   /\ ArrowsTrue => ArrowsTrue'
                   /\ lit = button => lit' = button'
<1>2. Done
  <2>1. CASE ListUp
    BY <1>1, <2>1, ListUpGoes, EmptyListGoes
  <2>2. CASE ListDown
    BY <1>1, <2>2, ListDownGoes, EmptyListGoes
  <2>3. ASSUME NEW k \in Letters, ListLetter(k) PROVE Done
    <3>1. items # <<>>
      <4>1. PICK i \in 0 .. max_choice - 1 : TRUE
        BY <2>3 DEF ListLetter, Answering
      <4>2. ASSUME items = <<>> PROVE max_choice = 0
        BY <1>1, <4>2 DEF max_choice, Size, ListKnown
      <4> QED
        BY <4>1, <4>2
    <3> QED
      BY <1>1, <2>3, <3>1, ListLetterGoes
  <2>4. ASSUME NEW n, ListTurn(n) PROVE Done
    <3>1. key' = "turn" /\ UNCHANGED list /\ UNCHANGED resized /\ lit' = button'
      BY <2>4 DEF ListTurn, Turn
    <3> QED
      BY <1>1, <3>1, TurnGoes
  <2> QED
    BY <2>1, <2>2, <2>3, <2>4 DEF ListKey
<1>3. IInv'
  <2>1. Kept'
    BY <1>1 DEF IInv, Kept
  <2>2. view' = "choice" /\ ListKnown' /\ rows' = ListRows
    BY <1>1, <1>2 DEF Goes
  <2>3. ScreenTrue'
    BY <1>1, <1>2, <2>2 DEF Goes, ScreenTrue
  <2> QED
    BY <2>1, <2>2, <2>3 DEF IInv
<1> QED
  BY <1>1, <1>2, <1>3, GoesMoves

\* A key in a line of text.
LEMMA TextKeyKeeps ==
  ASSUME IInv, TextKey
  PROVE  IInv' /\ Dialogs!Write
<1>1. /\ view = "text" /\ UNCHANGED <<view, stack, term, menu>>
      /\ TextKnown /\ FieldTrue
      /\ ~resized => lit = IF button = 1 THEN 1 ELSE 0
  BY DEF TextKey, Within, IInv, ScreenTrue
<1> DEFINE Done == /\ TextKnown' /\ FieldTrue' /\ Wrote /\ UNCHANGED resized
                   /\ ~resized => lit' = IF button' = 1 THEN 1 ELSE 0
<1>2. Done
  <2>1. ASSUME NEW c \in Chars, Insert(c) PROVE Done
    <3>1. UNCHANGED <<button, lit, resized>>
      BY <2>1 DEF Insert, Edited
    <3> QED
      BY <1>1, <2>1, <3>1, InsertWrites
  <2>2. CASE Backspace
    <3>1. UNCHANGED <<button, lit, resized>>
      BY <2>2 DEF Backspace, Edited
    <3> QED
      BY <1>1, <2>2, <3>1, BackspaceWrites
  <2>3. CASE Left
    <3>1. UNCHANGED <<button, lit, resized>>
      BY <2>3 DEF Left, Edited
    <3> QED
      BY <1>1, <2>3, <3>1, LeftWrites
  <2>4. CASE Right
    <3>1. UNCHANGED <<button, lit, resized>>
      BY <2>4 DEF Right, Edited
    <3> QED
      BY <1>1, <2>4, <3>1, RightWrites
  <2>5. CASE Flash
    <3>1. UNCHANGED <<button, lit, resized>>
      BY <2>5 DEF Flash, Edited
    <3> QED
      BY <1>1, <2>5, <3>1, FullWrites
  <2>6. ASSUME NEW b, TurnText(b) PROVE Done
    <3>1. /\ key' = "turn" /\ UNCHANGED field /\ UNCHANGED resized
          /\ lit' = IF button' = 1 THEN 1 ELSE 0
      BY <2>6 DEF TurnText
    <3>2. TextKnown' /\ FieldTrue' /\ UNCHANGED Dialogs!written
      BY <1>1, <3>1, FieldKept
    <3> QED
      BY <3>1, <3>2 DEF Wrote
  <2> QED
    BY <2>1, <2>2, <2>3, <2>4, <2>5, <2>6 DEF TextKey, TextTurn
<1>3. UNCHANGED <<items, rows, scroll, choice, active, s_scroll>>
  BY <1>1 DEF menu, list, origin
<1>4. IInv'
  <2>1. Kept'
    BY <1>1, <1>3 DEF IInv, Kept
  <2>2. view' = "text"
    BY <1>1
  <2>3. ScreenTrue'
    BY <1>2, <2>2 DEF ScreenTrue
  <2> QED
    BY <1>2, <2>1, <2>2, <2>3 DEF IInv
<1>5. UNCHANGED <<view, Dialogs!content, Dialogs!place>>
  BY <1>1, <1>3 DEF Dialogs!content, Dialogs!place, At, Top
<1> QED
  BY <1>1, <1>2, <1>4, <1>5 DEF Dialogs!Write, Wrote

-----------------------------------------------------------------------------
(***************************************************************************)
(* The dialogs are opened.                                                 *)
(***************************************************************************)
\* mconf ends.
LEMMA OffOpens ==
  ASSUME NEW c, Off(c), term' \in Int
  PROVE  IInv' /\ Dialogs!Open
<1>1. /\ view' = "off" /\ stack' = <<>> /\ active' = None /\ s_scroll' = 0
      /\ key' = "none" /\ len' = 0 /\ pos' = 0
  BY DEF Off, NoMenu, NoText, NoKeys
<1>2. IInv'
  BY <1>1, EmptySeq DEF IInv, Kept, ScreenTrue
<1>3. From(text', pos', len') = <<>>
  BY <1>1, NoneFrom
<1> QED
  BY <1>1, <1>2, <1>3 DEF Dialogs!Open, From

\* So it does when main asks.
LEMMA EndsOpens ==
  ASSUME NEW some, Ends(some), term' \in Int
  PROVE  IInv' /\ Dialogs!Open
BY OffOpens DEF Ends

\* A menu begins with the entry that is kept for it, if the entry is in the list.
LEMMA MenuOpened ==
  ASSUME NEW l \in Lists, NEW r \in Nat \ {0}, OpenMenu(l, r), s_scroll' \in Int
  PROVE  /\ ListKnown' /\ aligned' /\ LinesTrue' /\ ArrowsTrue' /\ lit' = button'
         /\ items' = l /\ rows' = r /\ key' = "none" /\ resized' = FALSE
         /\ Dialogs!Listed(active)' => Dialogs!LeftAt(active)'
         /\ \A c \in 0 .. Len(l) - 1 :
              l[c + 1] = active' /\ Fits(l, r, s_scroll', c) => scroll' = s_scroll'
<1>1. PICK c \in Defaults(l, active', 0) : Draw(l, r, s_scroll', 0, c)
  BY DEF OpenMenu
<1>2. key' = "none" /\ resized' = FALSE /\ lit' = button'
  BY DEF OpenMenu, Opened
<1>3. CASE l = <<>>
  <2>1. Len(l) = 0 /\ DOMAIN l = {} /\ c = 0
    BY <1>1, <1>3, Lengths DEF Defaults
  <2>2. ListKnown' /\ ArrowsTrue' /\ LinesTrue' /\ aligned' /\ items' = l /\ rows' = r
    BY <1>1, <1>3, <2>1, EmptyDrawn
  <2>3. ~Dialogs!Listed(active)'
    BY <2>1, <2>2 DEF Dialogs!Listed
  <2>4. 0 .. Len(l) - 1 = {}
    BY <2>1
  <2> QED
    BY <1>2, <2>2, <2>3, <2>4
<1>4. CASE l # <<>>
  <2>1. Len(l) \in Nat \ {0} /\ DOMAIN l = 1 .. Len(l)
    BY <1>4, Lengths
  <2>2. c \in 0 .. Len(l) - 1
    BY <1>1, <2>1 DEF Defaults
  <2>3. /\ ListKnown' /\ ArrowsTrue' /\ aligned' /\ LinesTrue' /\ items' = l /\ rows' = r
        /\ scroll' + choice' = c
        /\ Fits(l, r, s_scroll', c) => scroll' = s_scroll'
    BY <1>1, <1>4, <2>2, Drawn
  <2>4. ASSUME \E i \in DOMAIN l : l[i] = active'
        PROVE  l[c + 1] = active'
    BY <1>1, <2>4 DEF Defaults
  <2>5. Dialogs!Listed(active)' => Dialogs!LeftAt(active)'
    BY <1>4, <2>3, <2>4 DEF Dialogs!Listed, Dialogs!LeftAt, At
  <2>6. ASSUME NEW d \in 0 .. Len(l) - 1, l[d + 1] = active', Fits(l, r, s_scroll', d)
        PROVE  scroll' = s_scroll'
    <3>1. d + 1 \in 1 .. Len(l) /\ c + 1 \in 1 .. Len(l)
      BY <2>1, <2>2
    <3>2. l[c + 1] = active'
      BY <2>1, <2>4, <2>6, <3>1
    <3>3. c + 1 = d + 1
      BY <2>6, <3>1, <3>2, Lengths
    <3>4. c = d
      BY <2>1, <2>2, <3>3
    <3> QED
      BY <2>3, <2>6, <3>4
  <2> QED
    BY <1>2, <2>3, <2>5, <2>6
<1> QED
  BY <1>3, <1>4

\* Showing a menu is an opening, if a menu that was in sight comes back as it was.
LEMMA ShowOpens ==
  ASSUME NEW a \in Entries \cup {None}, NEW s \in Int,
         NEW outer \in Seq([active : Entries, s_scroll : Int]), term' \in Int,
         Show(a, s, outer),
         Dialogs!Back /\ items # <<>> /\ stack' = outer /\ active' = a /\ rows' = term'
           /\ (\A c \in 0 .. Len(items) - 1 :
                  items[c + 1] = a /\ Fits(items, term', s, c) => scroll' = s)
           => scroll' = scroll
  PROVE  IInv' /\ Dialogs!Open
<1>1. PICK l \in Lists :
        IF (counted \/ l # <<>>) /\ term' >= 1
        THEN /\ view' = "menu" /\ active' = a /\ s_scroll' = s /\ stack' = outer
             /\ OpenMenu(l, term') /\ NoText
        ELSE Ends(counted \/ l # <<>>)
  BY DEF Show
<1>2. CASE ~((counted \/ l # <<>>) /\ term' >= 1)
  <2>1. Ends(counted \/ l # <<>>)
    BY <1>1, <1>2
  <2> QED
    BY <2>1, EndsOpens
<1>3. CASE (counted \/ l # <<>>) /\ term' >= 1
  <2>1. OpenMenu(l, term')
    BY <1>1, <1>3
  <2>2. /\ view' = "menu" /\ active' = a /\ s_scroll' = s /\ stack' = outer
        /\ len' = 0 /\ pos' = 0
    BY <1>1, <1>3 DEF NoText
  <2>3. term' \in Nat \ {0}
    BY <1>3
  <2>4. /\ ListKnown' /\ aligned' /\ LinesTrue' /\ ArrowsTrue' /\ lit' = button'
        /\ items' = l /\ rows' = term' /\ key' = "none"
        /\ Dialogs!Listed(active)' => Dialogs!LeftAt(active)'
        /\ \A c \in 0 .. Len(l) - 1 :
             l[c + 1] = a /\ Fits(l, term', s, c) => scroll' = s
    BY <2>1, <2>2, <2>3, MenuOpened
  <2>5. IInv'
    BY <2>2, <2>4 DEF IInv, Kept, ScreenTrue
  <2>6. Dialogs!InSight'
    BY <2>4, SightThen
  <2>7. Dialogs!Back => UNCHANGED Top
    BY <2>2, <2>4 DEF Dialogs!Back, Top
  <2>8. From(text', pos', len') = <<>>
    BY <2>2, NoneFrom
  <2>9. Dialogs!OpenMenu
    BY <2>2, <2>4, <2>6, <2>7 DEF Dialogs!OpenMenu
  <2> QED
    BY <2>4, <2>5, <2>8, <2>9 DEF Dialogs!Open, From
<1> QED
  BY <1>2, <1>3

\* A radio list is opened.
LEMMA ChoiceOpens ==
  ASSUME NEW l \in Lists, NEW c \in {0} \cup 0 .. Len(l) - 1, ShowChoice(l, c), Kept'
  PROVE  IInv' /\ Dialogs!Open
<1>1. /\ view' = "choice" /\ key' = "none" /\ lit' = button' /\ len' = 0 /\ pos' = 0
      /\ DrawList(l, 0, c)
  BY DEF ShowChoice, OpenList, Opened, NoText
<1>2. c \in Nat /\ (l # <<>> => c < Len(l))
  BY Lengths
<1>3. ListKnown' /\ (items' # <<>> => LinesTrue') /\ ArrowsTrue' /\ rows' = ListRows
  <2>1. CASE l = <<>>
    BY <1>1, <1>2, <2>1, EmptyListDrawn
  <2>2. CASE l # <<>>
    BY <1>1, <1>2, <2>2, ListDrawn
  <2> QED
    BY <2>1, <2>2
<1>4. IInv'
  BY <1>1, <1>3 DEF IInv, ScreenTrue
<1>5. Dialogs!InSight'
  BY <1>3, SightThen
<1>6. From(text', pos', len') = <<>>
  BY <1>1, NoneFrom
<1> QED
  BY <1>1, <1>4, <1>5, <1>6 DEF Dialogs!Open, From

\* A line of text is opened, or does not fit on the terminal.
LEMMA TextOpens ==
  ASSUME ShowText, Kept'
  PROVE  IInv' /\ Dialogs!Open
<1>1. CASE term' < TextNeeds
  <2>1. view' = "stuck" /\ key' = "none" /\ len' = 0 /\ pos' = 0
    BY <1>1 DEF ShowText, NoText, NoKeys
  <2>2. From(text', pos', len') = <<>>
    BY <2>1, NoneFrom
  <2> QED
    BY <2>1, <2>2 DEF IInv, ScreenTrue, Dialogs!Open, From
<1>2. CASE ~(term' < TextNeeds)
  <2>1. PICK t \in Texts : OpenText(t.text, t.len)
    BY <1>2 DEF ShowText
  <2>2. view' = "text" /\ key' = "none" /\ button' = -1 /\ lit' = 0
    BY <1>2, <2>1 DEF ShowText, OpenText, Opened
  <2>3. t.len \in Nat /\ t.text \in [0 .. t.len - 1 -> Chars]
    BY ConstantsAssumption
  <2>4. DrawText(t.text, t.len)
    BY <2>1 DEF OpenText
  <2>5. TextKnown' /\ FieldTrue' /\ len' = t.len /\ pos' = t.len
    BY <2>3, <2>4, TextDrawn
  <2>6. IInv'
    BY <2>2, <2>5 DEF IInv, ScreenTrue
  <2>7. From(text', pos', len') = <<>>
    BY <2>3, <2>5, NoneFrom
  <2> QED
    BY <2>2, <2>6, <2>7 DEF Dialogs!Open, From
<1> QED
  BY <1>1, <1>2

\* What conf keeps when it leaves its menu for a while.
LEMMA CurrentKept ==
  ASSUME IInv, view = "menu"
  PROVE  /\ Current \in Entries \cup {None} /\ scroll \in Int
         /\ items # <<>> => /\ scroll + choice \in 0 .. Len(items) - 1
                            /\ items[(scroll + choice) + 1] = Current
                            /\ Fits(items, term, scroll, scroll + choice)
<1>1. ListKnown /\ rows = term /\ scroll \in Int
  BY DEF IInv, ListKnown
<1>2. CASE items = <<>>
  BY <1>1, <1>2 DEF Current
<1>3. CASE items # <<>>
  <2>1. scroll + choice \in 0 .. Len(items) - 1 /\ scroll + choice + 1 \in 1 .. Len(items)
    BY <1>1, <1>3, InNumbers
  <2>2. Current \in Entries
    BY <1>1, <1>3, <2>1, Lengths DEF ListKnown, Current
  <2>3. Fits(items, rows, scroll, scroll + choice)
    BY <1>1, <1>3, InNumbers DEF Fits, max_choice
  <2> QED
    BY <1>1, <1>3, <2>1, <2>2, <2>3 DEF Current
<1> QED
  BY <1>2, <1>3

\* A menu that is made anew where it was looks as it did if its items are the same.
LEMMA AgainOpens ==
  ASSUME IInv, view = "menu", UNCHANGED term, Show(Current, scroll, stack)
  PROVE  IInv' /\ Dialogs!Open
<1>1. /\ Current \in Entries \cup {None} /\ scroll \in Int /\ term' \in Int
      /\ stack \in Seq([active : Entries, s_scroll : Int])
  BY CurrentKept DEF IInv, Kept
<1>2. ASSUME items # <<>>,
             \A c \in 0 .. Len(items) - 1 :
               items[c + 1] = Current /\ Fits(items, term', scroll, c) => scroll' = scroll
      PROVE  scroll' = scroll
  BY <1>2, CurrentKept
<1> QED
  BY <1>1, <1>2, ShowOpens

\* Opening from a dialog that is no menu, or at another depth.
LEMMA ElsewhereOpens ==
  ASSUME NEW a \in Entries \cup {None}, NEW s \in Int,
         NEW outer \in Seq([active : Entries, s_scroll : Int]), term' \in Int,
         Show(a, s, outer),
         \/ view # "menu"
         \/ Len(outer) # Len(stack)
         \/ a = None /\ ListKnown
  PROVE  IInv' /\ Dialogs!Open
<1>1. ASSUME Dialogs!Back, stack' = outer, active' = a PROVE FALSE
  <2>1. /\ view = "menu" /\ Len(outer) = Len(stack)
        /\ items # <<>> /\ items[(scroll + choice) + 1] = a
    BY <1>1 DEF Dialogs!Back, Dialogs!LeftAt, At
  <2>2. a = None /\ ListKnown
    BY <2>1
  <2>3. (scroll + choice) + 1 \in 1 .. Len(items)
    BY <2>1, <2>2, InNumbers
  <2>4. items[(scroll + choice) + 1] \in Entries
    BY <2>2, <2>3, Lengths DEF ListKnown
  <2> QED
    BY <2>1, <2>2, <2>4, ConstantsAssumption
<1> QED
  BY <1>1, ShowOpens

-----------------------------------------------------------------------------
(***************************************************************************)
(* Every step keeps the invariant and is a step of DialogSpec.             *)
(***************************************************************************)
\* mconf begins with the outermost menu.
LEMMA StartSteps ==
  ASSUME IInv, Start PROVE IInv' /\ Dialogs!Next
<1>1. view # "menu" /\ term' \in Int /\ Show(None, 0, <<>>)
  BY ConstantsAssumption DEF Start
<1>2. <<>> \in Seq([active : Entries, s_scroll : Int]) /\ None \in Entries \cup {None} /\ 0 \in Int
  BY EmptySeq
<1> QED
  BY <1>1, <1>2, ElsewhereOpens DEF Dialogs!Next

\* Into a menu of the menu.
LEMMA DescendSteps ==
  ASSUME IInv, Descend PROVE IInv' /\ Dialogs!Next
<1> DEFINE kept == [active |-> Current, s_scroll |-> scroll]
<1>1. view = "menu" /\ term' \in Int /\ Show(None, 0, Append(stack, kept))
  BY DEF Descend, Answers, IInv, Kept
<1>2. kept \in [active : Entries, s_scroll : Int]
  <2>1. Current # None
    BY DEF Descend, Kind
  <2> QED
    BY <1>1, <2>1, CurrentKept
<1> HIDE DEF kept
<1>3. stack \in Seq([active : Entries, s_scroll : Int])
  BY DEF IInv, Kept
<1>4. /\ Append(stack, kept) \in Seq([active : Entries, s_scroll : Int])
      /\ Len(Append(stack, kept)) = Len(stack) + 1
  BY <1>2, <1>3, AppendProperties
<1>5. Len(Append(stack, kept)) # Len(stack) /\ None \in Entries \cup {None} /\ 0 \in Int
  BY <1>3, <1>4, LenProperties
<1> QED
  BY <1>1, <1>4, <1>5, ElsewhereOpens DEF Dialogs!Next

\* To the members of a choice.
LEMMA ChooseSteps ==
  ASSUME IInv, Choose PROVE IInv' /\ Dialogs!Next
<1>1. view = "menu" /\ UNCHANGED term
  BY DEF Choose, Answers
<1>2. CASE term < ListNeeds
  BY <1>1, <1>2, AgainOpens DEF Choose, Dialogs!Next
<1>3. CASE ~(term < ListNeeds)
  <2>1. PICK l \in Lists : Keeps /\ \E c \in {0} \cup 0 .. Len(l) - 1 : ShowChoice(l, c)
    BY <1>3 DEF Choose
  <2>2. PICK c \in {0} \cup 0 .. Len(l) - 1 : ShowChoice(l, c)
    BY <2>1
  <2>3. Kept'
    BY <1>1, <2>1, <2>2, CurrentKept DEF IInv, Kept, Keeps, ShowChoice
  <2> QED
    BY <2>2, <2>3, ChoiceOpens DEF Dialogs!Next
<1> QED
  BY <1>2, <1>3

\* To a line of text.
LEMMA EditSteps ==
  ASSUME IInv, Edit PROVE IInv' /\ Dialogs!Next
<1>1. view = "menu" /\ UNCHANGED term /\ Keeps /\ ShowText
  BY DEF Edit, Answers
<1>2. Kept'
  BY <1>1, CurrentKept DEF IInv, Kept, Keeps, ShowText
<1> QED
  BY <1>1, <1>2, TextOpens DEF Dialogs!Next

\* A change, after which the menu is made anew.
LEMMA ChangeSteps ==
  ASSUME IInv, Change PROVE IInv' /\ Dialogs!Next
<1>1. view = "menu" /\ UNCHANGED term /\ Show(Current, scroll, stack)
  BY DEF Change, Answers
<1> QED
  BY <1>1, AgainOpens DEF Dialogs!Next

\* Out of a menu.
LEMMA LeaveSteps ==
  ASSUME IInv, Leave PROVE IInv' /\ Dialogs!Next
<1>1. view = "menu" /\ term' \in Int /\ ListKnown
  BY DEF Leave, IInv, Kept
<1>2. stack \in Seq([active : Entries, s_scroll : Int])
  BY DEF IInv, Kept
<1>3. CASE stack # <<>>
  <2> DEFINE caller == stack[Len(stack)]
             outer == SubSeq(stack, 1, Len(stack) - 1)
  <2>1. Len(stack) \in Nat \ {0}
    BY <1>2, <1>3, EmptySeq, LenProperties
  <2>2. caller \in [active : Entries, s_scroll : Int]
    <3>1. Len(stack) \in 1 .. Len(stack)
      BY <2>1
    <3> QED
      BY <1>2, <3>1, ElementOfSeq
  <2>3. outer \in Seq([active : Entries, s_scroll : Int]) /\ Len(outer) = Len(stack) - 1
    <3>1. ASSUME NEW i \in 1 .. Len(stack) - 1
          PROVE  stack[i] \in [active : Entries, s_scroll : Int]
      <4>1. i \in 1 .. Len(stack)
        BY <2>1
      <4> QED
        BY <1>2, <4>1, ElementOfSeq
    <3>2. 1 \in Int /\ Len(stack) - 1 \in Int
      BY <2>1
    <3>3. /\ outer \in Seq([active : Entries, s_scroll : Int])
          /\ Len(outer) = IF 1 <= Len(stack) - 1 THEN (Len(stack) - 1) - 1 + 1 ELSE 0
      BY <3>1, <3>2, SubSeqProperties
    <3> HIDE DEF outer
    <3>4. \A n, m \in Int : m = (IF 1 <= n - 1 THEN (n - 1) - 1 + 1 ELSE 0) /\ n >= 1 => m = n - 1
      OBVIOUS
    <3>5. Len(outer) \in Int /\ Len(stack) \in Int /\ Len(stack) >= 1
      BY <2>1, <3>3
    <3>6. Len(outer) = Len(stack) - 1
      BY <3>3, <3>4, <3>5
    <3> QED
      BY <3>3, <3>6
  <2>4. Show(caller.active, caller.s_scroll, outer)
    BY <1>3 DEF Leave
  <2> HIDE DEF caller, outer
  <2>5. caller.active \in Entries /\ caller.s_scroll \in Int /\ Len(outer) # Len(stack)
    BY <2>1, <2>2, <2>3
  <2> QED
    BY <1>1, <2>3, <2>4, <2>5, ElsewhereOpens DEF Dialogs!Next
<1>4. CASE stack = <<>>
  <2>1. Ends(counted)
    BY <1>4 DEF Leave
  <2> QED
    BY <1>1, <2>1, EndsOpens DEF Dialogs!Next
<1> QED
  BY <1>3, <1>4

\* Back to the menu that waits.
LEMMA ReturnedSteps ==
  ASSUME IInv, view # "menu", term' \in Int, Returned PROVE IInv' /\ Dialogs!Next
<1>1. /\ active \in Entries \cup {None} /\ s_scroll \in Int
      /\ stack \in Seq([active : Entries, s_scroll : Int])
  BY DEF IInv, Kept
<1> QED
  BY <1>1, ElsewhereOpens DEF Returned, Dialogs!Next

\* Back from the members of a choice.
LEMMA EndChoiceSteps ==
  ASSUME IInv, EndChoice PROVE IInv' /\ Dialogs!Next
<1>1. view # "menu" /\ term' \in Int /\ Returned
  BY DEF EndChoice, IInv, Kept
<1> QED
  BY <1>1, ReturnedSteps

\* A comment is chosen.
LEMMA ChooseCommentSteps ==
  ASSUME IInv, ChooseComment PROVE IInv' /\ Dialogs!Next
<1>1. view = "choice" /\ UNCHANGED <<term, active, s_scroll>> /\ items \in Lists
  BY DEF ChooseComment, IInv, ListKnown
<1>2. PICK c \in 0 .. Len(items) - 1 : ShowChoice(items, c)
  BY DEF ChooseComment
<1>3. Kept'
  BY <1>1, <1>2 DEF IInv, Kept, ShowChoice
<1> QED
  BY <1>1, <1>2, <1>3, ChoiceOpens DEF Dialogs!Next

\* Help for a member.
LEMMA HelpMemberSteps ==
  ASSUME IInv, HelpMember PROVE IInv' /\ Dialogs!Next
<1>1. /\ view = "choice" /\ UNCHANGED <<term, active, s_scroll>>
      /\ ListKnown /\ items \in Lists
  BY DEF HelpMember, IInv, ListKnown
<1>2. PICK c \in Same : ShowChoice(items, c)
  BY DEF HelpMember
<1>3. c \in {0} \cup 0 .. Len(items) - 1
  <2>1. CASE Kind = "comment"
    BY <2>1 DEF Same
  <2>2. CASE Kind = "none"
    BY <2>2 DEF Same
  <2>3. CASE Kind # "comment" /\ Kind # "none"
    <3>1. items # <<>>
      BY <2>3 DEF Kind, Current
    <3> QED
      BY <1>1, <2>3, <3>1, InNumbers DEF Same
  <2> QED
    BY <2>1, <2>2, <2>3
<1>4. Kept'
  BY <1>1, <1>2 DEF IInv, Kept, ShowChoice
<1> QED
  BY <1>1, <1>2, <1>3, <1>4, ChoiceOpens DEF Dialogs!Next

\* Back from a line of text.
LEMMA EndTextSteps ==
  ASSUME IInv, EndText PROVE IInv' /\ Dialogs!Next
<1>1. view # "menu" /\ term' \in Int /\ Returned
  BY DEF EndText, IInv, Kept
<1> QED
  BY <1>1, ReturnedSteps

\* The line of text is opened again.
LEMMA TextAgainSteps ==
  ASSUME IInv, TextAgain PROVE IInv' /\ Dialogs!Next
<1>1. UNCHANGED <<term, active, s_scroll, stack>> /\ ShowText
  BY DEF TextAgain, ShowText
<1>2. Kept'
  BY <1>1 DEF IInv, Kept
<1> QED
  BY <1>1, <1>2, TextOpens DEF Dialogs!Next

\* After a change of the size the list is the same and the light in sight; what
\* the lines of a menu show is claimed if it is aligned.
LEMMA ResizedMenuSteps ==
  ASSUME IInv, ResizedMenu PROVE IInv' /\ Dialogs!Next
<1>1. view = "menu" /\ term' \in Int /\ ListKnown
  BY ConstantsAssumption DEF ResizedMenu, IInv
<1>2. CASE term' < 1
  BY <1>1, <1>2, EndsOpens DEF ResizedMenu, Dialogs!Next
<1>3. CASE ~(term' < 1)
  <2>1. PICK c \in Defaults(items, active, choice) : Redraw(term', c)
    BY <1>3 DEF ResizedMenu, ResizeMenu
  <2>2. /\ UNCHANGED <<view, stack, field, active, s_scroll>>
        /\ key' = "resize" /\ resized' = TRUE
        /\ Draw(items, term', s_scroll, first_item, c)
    BY <1>3, <2>1 DEF ResizedMenu, Redraw, Redrawn
  <2>3. items \in Lists /\ term' \in Nat \ {0} /\ s_scroll \in Int
    BY <1>1, <1>3 DEF IInv, Kept, ListKnown
  <2>4. ListKnown' /\ ArrowsTrue' /\ (aligned' => LinesTrue') /\ items' = items /\ rows' = term'
    <3>1. CASE items = <<>>
      <4>1. c \in Nat
        BY <1>1, <3>1, Lengths DEF Defaults, ListKnown
      <4> QED
        BY <2>2, <2>3, <3>1, <4>1, EmptyDrawn
    <3>2. CASE items # <<>>
      <4>1. c \in 0 .. Len(items) - 1
        BY <1>1, <3>2, InNumbers DEF Defaults
      <4> QED
        BY <2>2, <2>3, <3>2, <4>1, Drawn
    <3> QED
      BY <3>1, <3>2
  <2>5. IInv'
    BY <1>1, <2>2, <2>4 DEF IInv, Kept, ScreenTrue
  <2>6. UNCHANGED Dialogs!written
    BY <2>2 DEF field, Dialogs!written
  <2>7. Dialogs!Resize
    BY <1>1, <2>2, <2>4, <2>6, SightThen DEF Dialogs!Resize
  <2> QED
    BY <2>5, <2>7 DEF Dialogs!Next
<1> QED
  BY <1>2, <1>3

\* The program crashes in a menu.
LEMMA CrashSteps ==
  ASSUME IInv, Crash PROVE IInv' /\ Dialogs!Next
<1>1. term' \in Int /\ Off(FALSE)
  BY ConstantsAssumption DEF Crash
<1> QED
  BY <1>1, OffOpens DEF Dialogs!Next

\* A radio list is drawn anew for another size.
LEMMA ResizedListSteps ==
  ASSUME IInv, ResizedList PROVE IInv' /\ Dialogs!Next
<1>1. view = "choice" /\ term' \in Int /\ ListKnown /\ rows = ListRows
  BY ConstantsAssumption DEF ResizedList, IInv
<1>2. CASE term' < ListNeeds
  BY <1>1, <1>2, ReturnedSteps DEF ResizedList
<1>3. CASE ~(term' < ListNeeds)
  <2>1. /\ UNCHANGED <<view, stack, field, active, s_scroll>>
        /\ key' = "resize" /\ resized' = TRUE
        /\ DrawList(items, scroll, choice)
    BY <1>3 DEF ResizedList, ResizeList, Redrawn, origin
  <2>2. /\ items \in Lists /\ scroll \in Nat /\ choice \in Nat
        /\ items # <<>> =>
             choice < Size(items, ListRows) /\ scroll + Size(items, ListRows) <= Len(items)
    BY <1>1 DEF ListKnown, max_choice
  <2>3. ListKnown' /\ (items # <<>> => LinesTrue') /\ items' = items /\ rows' = ListRows
    <3>1. CASE items = <<>>
      BY <2>1, <2>2, <3>1, EmptyListDrawn
    <3>2. CASE items # <<>>
      BY <2>1, <2>2, <3>2, ListDrawn
    <3> QED
      BY <3>1, <3>2
  <2>4. IInv'
    BY <1>1, <2>1, <2>3 DEF IInv, Kept, ScreenTrue
  <2>5. UNCHANGED Dialogs!written
    BY <2>1 DEF field, Dialogs!written
  <2>6. Dialogs!Resize
    BY <1>1, <2>1, <2>3, <2>5, SightThen DEF Dialogs!Resize
  <2> QED
    BY <2>4, <2>6 DEF Dialogs!Next
<1> QED
  BY <1>2, <1>3

\* A line of text is drawn anew, with the cursor at its end.
LEMMA ResizedTextSteps ==
  ASSUME IInv, ResizedText PROVE IInv' /\ Dialogs!Next
<1>1. view = "text" /\ term' \in Int /\ TextKnown /\ FieldTrue /\ UNCHANGED <<stack, menu>>
  BY ConstantsAssumption DEF ResizedText, IInv, ScreenTrue
<1>2. UNCHANGED <<items, rows, scroll, choice, active, s_scroll>>
  BY <1>1 DEF menu, list, origin
<1>3. Kept'
  BY <1>1, <1>2 DEF IInv, Kept
<1>4. CASE term' < TextNeeds
  <2>1. view' = "stuck" /\ key' = "none" /\ len' = 0 /\ pos' = 0
    BY <1>4 DEF ResizedText, NoText, NoKeys
  <2>2. From(text', pos', len') = <<>>
    BY <2>1, NoneFrom
  <2> QED
    BY <1>3, <2>1, <2>2 DEF IInv, ScreenTrue, Dialogs!Next, Dialogs!Open, From
<1>5. CASE ~(term' < TextNeeds)
  <2>1. DrawText(text, len) /\ view' = "text" /\ key' = "resize" /\ resized' = TRUE
    BY <1>1, <1>5 DEF ResizedText, ResizeText, Redrawn
  <2>2. len \in Nat /\ text \in [0 .. len - 1 -> Chars]
    BY <1>1 DEF TextKnown
  <2>3. TextKnown' /\ FieldTrue' /\ text' = text /\ len' = len /\ pos' = len
    BY <2>1, <2>2, TextDrawn
  <2>4. IInv'
    BY <1>3, <2>1, <2>3 DEF IInv, ScreenTrue
  <2>5. /\ len \in Nat /\ pos \in 0 .. len
        /\ \A i \in 0 .. len - 1 : text[i] \in Chars
    BY <1>1, TextInNumbers
  <2>6. UpTo(text', pos') = UpTo(text, pos) \o From(text, pos, len)
    BY <2>3, <2>5, AllUpTo
  <2>7. From(text', pos', len') = <<>>
    BY <2>3, <2>5, NoneFrom
  <2>8. UNCHANGED <<view, items, stack, active, Dialogs!place, rows>>
    BY <1>1, <1>2, <2>1 DEF Dialogs!place, At, Top
  <2>9. Dialogs!Resize
    BY <1>1, <2>1, <2>6, <2>7, <2>8 DEF Dialogs!Resize, UpTo, From
  <2> QED
    BY <2>4, <2>9 DEF Dialogs!Next
<1> QED
  BY <1>4, <1>5

\* mconf is killed while it waits for no key.
LEMMA KilledSteps ==
  ASSUME IInv, Killed PROVE IInv' /\ Dialogs!Next
<1>1. term' \in Int /\ Off(FALSE)
  BY DEF Killed, IInv, Kept
<1> QED
  BY <1>1, OffOpens DEF Dialogs!Next

\* mconf does not survive a text that is longer than the buffer.
LEMMA OverwrittenSteps ==
  ASSUME IInv, Overwritten PROVE IInv' /\ Dialogs!Next
<1>1. term' \in Int /\ Off(FALSE)
  BY DEF Overwritten, IInv, Kept
<1> QED
  BY <1>1, OffOpens DEF Dialogs!Next

\* Nothing happens.
LEMMA StutterSteps ==
  ASSUME IInv, UNCHANGED vars PROVE IInv' /\ UNCHANGED Dialogs!vars
<1>1. /\ UNCHANGED <<items, rows, scroll, choice, win, up, down, first_item, active, s_scroll, aligned>>
      /\ UNCHANGED <<text, len, pos, show_x, input_x, cells>>
      /\ UNCHANGED <<button, key, lit, resized, view, stack, term>>
  BY DEF vars, menu, list, origin, field
<1>2. UNCHANGED <<max_choice, ListKnown, TextKnown, Kept, LinesTrue, ArrowsTrue, FieldTrue>>
  BY <1>1 DEF max_choice, ListKnown, TextKnown, Kept, LinesTrue, ArrowsTrue, FieldTrue
<1>3. IInv'
  BY <1>1, <1>2 DEF IInv, ScreenTrue
<1>4. UNCHANGED Dialogs!vars
  BY <1>1 DEF Dialogs!vars, At, Top
<1> QED
  BY <1>3, <1>4

-----------------------------------------------------------------------------
(***************************************************************************)
(* The theorems.                                                           *)
(***************************************************************************)
\* Before mconf runs nothing is shown.
LEMMA Starts == Init => IInv /\ Dialogs!Init
<1> SUFFICES ASSUME Init PROVE IInv /\ Dialogs!Init
  OBVIOUS
<1>1. /\ view = "off" /\ stack = <<>> /\ active = None /\ s_scroll = 0 /\ term \in Int
      /\ key = "none" /\ len = 0 /\ pos = 0
  BY ConstantsAssumption DEF Init
<1>2. IInv
  BY <1>1, EmptySeq DEF IInv, Kept, ScreenTrue
<1>3. From(text, pos, len) = <<>> /\ UpTo(text, pos) = <<>>
  <2>1. From(text, 0, 0) = <<>> /\ 1 .. 0 = {}
    BY NoneFrom
  <2>2. UpTo(text, 0) = [i \in {} |-> text[i - 1]]
    BY <2>1 DEF UpTo
  <2>3. UpTo(text, 0) = <<>>
    BY <2>2
  <2> QED
    BY <1>1, <2>1, <2>3
<1> QED
  BY <1>1, <1>2, <1>3 DEF Dialogs!Init, UpTo, From

\* The invariant holds after every step, which is a step of DialogSpec.
LEMMA Stepping == IInv /\ [Next]_vars => IInv' /\ [Dialogs!Next]_Dialogs!vars
<1> SUFFICES ASSUME IInv, [Next]_vars PROVE IInv' /\ [Dialogs!Next]_Dialogs!vars
  OBVIOUS
<1>1. CASE MenuKey
  BY <1>1, MenuKeyKeeps DEF Dialogs!Next
<1>2. CASE ListKey
  BY <1>2, ListKeyKeeps DEF Dialogs!Next
<1>3. CASE TextKey
  BY <1>3, TextKeyKeeps DEF Dialogs!Next
<1>4. CASE UNCHANGED vars
  BY <1>4, StutterSteps
<1> QED
  BY <1>1, <1>2, <1>3, <1>4, StartSteps, DescendSteps, ChooseSteps, EditSteps, ChangeSteps, LeaveSteps,
     EndChoiceSteps, ChooseCommentSteps, HelpMemberSteps, EndTextSteps, TextAgainSteps,
     ResizedMenuSteps, CrashSteps, ResizedListSteps, ResizedTextSteps, KilledSteps,
     OverwrittenSteps
     DEF Next

\* The window lies within its list, the light within the window, the cursor within
\* its text, and what is kept for a menu is an entry and a line.
THEOREM Invariance == Spec => []IInv
<1>1. Init => IInv
  BY Starts
<1>2. IInv /\ [Next]_vars => IInv'
  BY Stepping
<1> QED
  BY <1>1, <1>2, PTL DEF Spec

\* However much has been scrolled and printed, the screen shows what the keys
\* move through: libs/lxdialog, do_scroll, print_item and the loops over cells.
THEOREM Shown == Spec => []ScreenTrue
<1>1. IInv => ScreenTrue
  BY DEF IInv
<1> QED
  BY <1>1, Invariance, PTL

\* Every menu, radio list and line of text of mconf is a light that moves in a list
\* or a cursor that moves in a text, and a menu comes back as it was left.
THEOREM Refinement == Spec => Served
<1>1. Init => Dialogs!Init
  BY Starts
<1>2. IInv /\ [Next]_vars => [Dialogs!Next]_Dialogs!vars
  BY Stepping
<1> QED
  BY <1>1, <1>2, Invariance, PTL DEF Spec, Served, Dialogs!Spec
=============================================================================
