------------------------- MODULE CacheReplaceProofs -------------------------
(***************************************************************************)
(* Proofs about CacheReplace, for any number of ways and any sets.         *)
(***************************************************************************)
EXTENDS CacheReplace, FiniteSetTheorems, TLAPS

-----------------------------------------------------------------------------
(***************************************************************************)
(* The list and the way that is not in it.                                 *)
(***************************************************************************)
\* A list has fewer places than there are ways: some way is not in it.
LEMMA SomeWayMissing ==
  ASSUME NEW s \in State
  PROVE  statein_mru_way_unpri(s) # {}
<1> DEFINE listed == {s[n] : n \in Positions}
<1>1. IsFiniteSet(Positions) /\ Cardinality(Positions) = Assoc - 1
  BY FS_Interval, AssocAssumption DEF Positions
<1>2. IsFiniteSet(Ways) /\ Cardinality(Ways) = Assoc
  BY FS_Interval, AssocAssumption DEF Ways
<1>3. SUFFICES ASSUME statein_mru_way_unpri(s) = {} PROVE FALSE
  OBVIOUS
<1>4. s \in Surjection(Positions, Ways)
  BY <1>3 DEF State, statein_mru_way_unpri, Surjection
<1>5. Cardinality(Ways) <= Cardinality(Positions)
  BY <1>1, <1>4, FS_Surjection
<1> QED
  BY <1>1, <1>2, <1>5, AssocAssumption

\* The way that is taken for the one used most recently is not in the list.
LEMMA MruMissing ==
  ASSUME NEW s \in State
  PROVE  /\ statein_mru_way(s) \in Ways
         /\ \A n \in Positions : s[n] # statein_mru_way(s)
<1> DEFINE M == statein_mru_way_unpri(s)
<1>1. M # {} /\ M \subseteq Nat
  BY SomeWayMissing DEF statein_mru_way_unpri, Ways
<1>2. \E w \in M : \A v \in M : w <= v
  <2> DEFINE below == {0 .. w : w \in M}
  <2>1. below \subseteq FiniteSubsetsOf(Nat) /\ below # {}
    <3>1. ASSUME NEW w \in M PROVE 0 .. w \in FiniteSubsetsOf(Nat)
      <4>1. w \in Int /\ 0 .. w \subseteq Nat
        BY <1>1
      <4> QED
        BY <4>1, FS_Interval DEF FiniteSubsetsOf
    <3> QED
      BY <1>1, <3>1
  <2>2. PICK b \in below : \A c \in below : <<c, b>> \notin StrictSubsetOrdering(Nat)
    BY <2>1, WFMin, FS_StrictSubsetOrderingWellFounded
  <2>3. PICK w \in M : b = 0 .. w
    OBVIOUS
  <2>4. ASSUME NEW v \in M PROVE w <= v
    <3>1. SUFFICES ASSUME v < w PROVE FALSE
      BY <1>1
    <3>2. 0 .. v \in below /\ 0 .. v \subseteq 0 .. w /\ w \notin 0 .. v /\ w \in 0 .. w
      BY <1>1, <3>1
    <3>3. <<0 .. v, b>> \in StrictSubsetOrdering(Nat)
      BY <1>1, <2>1, <2>3, <3>2 DEF StrictSubsetOrdering
    <3> QED
      BY <2>2, <3>2, <3>3
  <2> QED
    BY <2>4
<1>3. statein_mru_way(s) \in M
  BY <1>2 DEF statein_mru_way
<1> QED
  BY <1>3 DEF statein_mru_way_unpri

\* The places of a list, and the one after them.
LEMMA Places ==
  /\ Positions \subseteq Ways
  /\ Assoc - 1 \in Ways /\ Assoc - 1 \notin Positions
  /\ Ways \subseteq Int
  /\ \A n \in Ways : n = Assoc - 1 \/ n \in Positions
  /\ 0 \in Positions
BY AssocAssumption DEF Ways, Positions

\* The list after a use is a list, whose places hold what they did, or what
\* the next place did, or the way that was not in the list.
LEMMA StateoutType ==
  ASSUME NEW s \in State, NEW w \in Ways
  PROVE  /\ stateout(s, w) \in State
         /\ \A n \in Positions :
              stateout(s, w)[n] =
                IF ~stateout_dec_sel(s, w, n) THEN s[n]
                ELSE IF n + 1 = Assoc - 1 THEN statein_mru_way(s) ELSE s[n + 1]
<1>1. \A n \in Positions : n + 1 = Assoc - 1 \/ n + 1 \in Positions
  BY AssocAssumption DEF Positions
<1> QED
  BY <1>1, MruMissing DEF stateout, statein_dec, State

-----------------------------------------------------------------------------
(***************************************************************************)
(* Type correctness.                                                       *)
(***************************************************************************)
\* The registers and the RAM of the policy hold values of their types: the
\* prioritizer and the encoder are never given a vector without a bit.
THEOREM TypeCorrect == Spec => []TypeOK
<1>1. Init => TypeOK
  BY DEF Init, TypeOK
<1>2. TypeOK /\ [Next]_vars => TypeOK'
  <2> SUFFICES ASSUME TypeOK, [Next]_vars PROVE TypeOK'
    OBVIOUS
  <2>1. rstate \in State /\ rway \in Ways
    BY AssocAssumption DEF TypeOK, rstate, rway, State, Positions
  <2>2. ASSUME NEW way \in Ways, Used(way) PROVE TypeOK'
    <3>1. sram' \in [Indexes -> State]
      BY <2>1, <2>2, StateoutType DEF Used, Clock, TypeOK
    <3>2. raddr' \in Indexes
      BY <2>2 DEF Used, Clock, TypeOK
    <3> QED
      BY <3>1, <3>2 DEF TypeOK
  <2>3. CASE Unused
    BY <2>3 DEF Unused, Clock, TypeOK
  <2>4. CASE UNCHANGED vars
    BY <2>4 DEF vars, TypeOK
  <2> QED
    BY <2>2, <2>3, <2>4 DEF Next
<1> QED
  BY <1>1, <1>2, PTL DEF Spec

-----------------------------------------------------------------------------
(***************************************************************************)
(* Duplicates.                                                             *)
(***************************************************************************)
\* Duplicates after a use were duplicates before it, at the same place or the
\* next higher one; the use of the victim moves all of them down.
LEMMA DuplicatesFall ==
  ASSUME NEW s \in State, NEW w \in Ways, NEW m \in Positions, NEW n \in Positions,
         m < n, stateout(s, w)[m] = stateout(s, w)[n]
  PROVE  \E j, k \in Positions : /\ j < k
                                 /\ s[j] = s[k]
                                 /\ (k = n /\ w # s[0]) \/ k = n + 1
<1> DEFINE sel(i) == stateout_dec_sel(s, w, i)
<1>1. sel(m) => sel(n)
  BY DEF stateout_dec_sel, Positions
<1>2. w = s[0] => sel(n)
  BY DEF stateout_dec_sel, Positions
<1>3. m + 1 \in Positions /\ m + 1 # Assoc - 1
  BY AssocAssumption DEF Positions
<1>4. stateout(s, w)[m] = IF ~sel(m) THEN s[m] ELSE s[m + 1]
  BY <1>3, StateoutType
<1>5. CASE ~sel(n)
  BY <1>1, <1>2, <1>4, <1>5, StateoutType
<1>6. CASE sel(n)
  <2>1. n + 1 # Assoc - 1
    <3>1. SUFFICES ASSUME n + 1 = Assoc - 1 PROVE FALSE
      OBVIOUS
    <3>2. stateout(s, w)[n] = statein_mru_way(s)
      BY <1>6, <3>1, StateoutType
    <3>3. s[m] # statein_mru_way(s) /\ s[m + 1] # statein_mru_way(s)
      BY <1>3, MruMissing
    <3> QED
      BY <1>4, <3>2, <3>3
  <2>2. n + 1 \in Positions
    BY <2>1, AssocAssumption DEF Positions
  <2>3. stateout(s, w)[n] = s[n + 1]
    BY <1>6, <2>1, StateoutType
  <2>4. CASE ~sel(m)
    <3>1. s[m] = s[n + 1]
      BY <1>4, <2>3, <2>4
    <3>2. m < n + 1
      BY DEF Positions
    <3> QED
      BY <2>2, <3>1, <3>2
  <2>5. CASE sel(m)
    <3>1. s[m + 1] = s[n + 1]
      BY <1>4, <2>3, <2>5
    <3>2. m + 1 < n + 1
      BY DEF Positions
    <3> QED
      BY <1>3, <2>2, <3>1, <3>2
  <2> QED
    BY <2>4, <2>5
<1> QED
  BY <1>5, <1>6

\* An order stays an order.
LEMMA StateoutOrder ==
  ASSUME NEW s \in State, NEW w \in Ways, IsOrder(s)
  PROVE  IsOrder(stateout(s, w))
<1>1. ASSUME NEW m \in Positions, NEW n \in Positions, m < n
      PROVE  stateout(s, w)[m] # stateout(s, w)[n]
  <2>1. SUFFICES ASSUME stateout(s, w)[m] = stateout(s, w)[n] PROVE FALSE
    OBVIOUS
  <2>2. PICK j, k \in Positions : j < k /\ s[j] = s[k]
    BY <1>1, <2>1, DuplicatesFall
  <2> QED
    BY <2>2 DEF IsOrder, Positions
<1>2. \A m, n \in Positions : m = n \/ m < n \/ n < m
  BY DEF Positions
<1> QED
  BY <1>1, <1>2 DEF IsOrder

\* Once the list of a set is an order of its ways, it stays one.
THEOREM OrderNeverLost == Spec => OrderKept
<1> DEFINE Kept == \A i \in Indexes : IsOrder(sram[i]) => IsOrder(sram'[i])
<1>1. TypeOK /\ [Next]_vars => [Kept]_vars
  <2> SUFFICES ASSUME TypeOK, Next PROVE Kept
    OBVIOUS
  <2>1. ASSUME NEW way \in Ways, Used(way) PROVE Kept
    <3>1. sram' = [sram EXCEPT ![raddr] = stateout(sram[raddr], way)]
      BY <2>1 DEF Used, Clock, rstate
    <3>2. sram[raddr] \in State
      BY DEF TypeOK
    <3>3. IsOrder(sram[raddr]) => IsOrder(stateout(sram[raddr], way))
      BY <3>2, StateoutOrder
    <3> QED
      BY <3>1, <3>3 DEF TypeOK
  <2>2. CASE Unused
    BY <2>2 DEF Unused, Clock
  <2> QED
    BY <2>1, <2>2 DEF Next
<1> QED
  BY <1>1, TypeCorrect, PTL DEF Spec, OrderKept

\* Every use of a way leaves duplicates only where there were some, or one
\* place below, and the use of a victim only one place below.
THEOREM Settles == Spec => Settling
<1> DEFINE Settled ==
      \A i \in Indexes : \A n \in Duplicated(sram'[i]) :
        \/ n + 1 \in Duplicated(sram[i])
        \/ n \in Duplicated(sram[i]) /\ ~(i = raddr /\ Used(rway))
<1>1. TypeOK /\ [Next]_vars => [Settled]_vars
  <2> SUFFICES ASSUME TypeOK, Next, ~UNCHANGED vars,
                      NEW i \in Indexes, NEW n \in Duplicated(sram'[i])
               PROVE  \/ n + 1 \in Duplicated(sram[i])
                      \/ n \in Duplicated(sram[i]) /\ ~(i = raddr /\ Used(rway))
    OBVIOUS
  <2>1. rway \in Ways /\ sram[i] \in State /\ sram[raddr] \in State
    BY Places DEF TypeOK, rway, rstate, State
  <2>2. PICK m \in Positions : n \in Positions /\ m < n /\ sram'[i][m] = sram'[i][n]
    BY DEF Duplicated
  <2>3. ASSUME NEW way \in Ways, Used(way), i = raddr
        PROVE  \/ n + 1 \in Duplicated(sram[i])
               \/ n \in Duplicated(sram[i]) /\ way # rway
    <3>1. sram'[i] = stateout(sram[i], way)
      BY <2>3 DEF Used, Clock, rstate, TypeOK
    <3>2. PICK j, k \in Positions : /\ j < k
                                    /\ sram[i][j] = sram[i][k]
                                    /\ (k = n /\ way # sram[i][0]) \/ k = n + 1
      BY <2>1, <2>2, <3>1, DuplicatesFall
    <3>3. k \in Duplicated(sram[i])
      BY <3>2 DEF Duplicated
    <3> QED
      BY <2>3, <3>2, <3>3 DEF rway, rstate
  <2>4. CASE sram'[i] = sram[i] /\ ~(i = raddr /\ Used(rway))
    BY <2>4
  <2>5. CASE i = raddr /\ Used(rway)
    BY <2>1, <2>3, <2>5
  <2>6. CASE \E way \in Ways : Used(way) /\ ~(i = raddr /\ Used(rway))
    <3>1. PICK way \in Ways : Used(way)
      BY <2>6
    <3>2. CASE i = raddr
      BY <2>3, <2>6, <3>1, <3>2
    <3>3. CASE i # raddr
      <4>1. sram'[i] = sram[i]
        BY <3>1, <3>3 DEF Used, Clock, TypeOK
      <4> QED
        BY <2>4, <3>3, <4>1
    <3> QED
      BY <3>2, <3>3
  <2>7. CASE Unused
    <3>1. sram'[i] = sram[i]
      BY <2>7 DEF Unused, Clock
    <3> QED
      BY <2>4, <2>5, <3>1
  <2> QED
    BY <2>5, <2>6, <2>7 DEF Next
<1> QED
  BY <1>1, TypeCorrect, PTL DEF Spec, Settling

-----------------------------------------------------------------------------
(***************************************************************************)
(* The promise of LruSpec.  A list that is an order, completed by the way  *)
(* that is not in it, is a one-to-one correspondence of places and ways.   *)
(***************************************************************************)
Full(s) == [n \in Ways |-> statein_dec(s, n)]

LEMMA FullType ==
  ASSUME NEW s \in State
  PROVE  /\ Full(s) \in [Ways -> Ways]
         /\ Full(s)[Assoc - 1] = statein_mru_way(s)
         /\ \A n \in Positions : Full(s)[n] = s[n]
BY Places, MruMissing DEF Full, statein_dec, State

LEMMA FullBijection ==
  ASSUME NEW s \in State, IsOrder(s)
  PROVE  /\ \A m, n \in Ways : Full(s)[m] = Full(s)[n] => m = n
         /\ \A w \in Ways : \E n \in Ways : Full(s)[n] = w
<1>1. \A m, n \in Ways : Full(s)[m] = Full(s)[n] => m = n
  BY FullType, MruMissing, Places DEF IsOrder
<1>2. IsFiniteSet(Ways)
  BY FS_Interval, AssocAssumption DEF Ways
<1>3. Full(s) \in Injection(Ways, Ways)
  BY <1>1, FullType DEF Injection, IsInjective
<1>4. Full(s) \in Surjection(Ways, Ways)
  BY <1>2, <1>3, FS_Injection
<1> QED
  BY <1>1, <1>4 DEF Surjection

\* Since is the order of the places.
LEMMA SinceFull ==
  ASSUME NEW s \in State, IsOrder(s), NEW m \in Ways, NEW n \in Ways
  PROVE  Full(s)[n] \in Since(s)[Full(s)[m]] <=> m < n
<1> DEFINE x == Full(s)[m]
           y == Full(s)[n]
<1>1. x \in Ways /\ y \in Ways
  BY FullType
<1>2. y \in Since(s)[x] <=>
        y # x /\ \A k \in Positions : s[k] = y => stateout_dec_sel(s, x, k)
  BY <1>1 DEF Since
<1>3. y # x <=> n # m
  BY FullBijection
<1>4. \A k \in Positions : s[k] = y <=> k = n
  BY FullBijection, FullType, Places
<1>5. \A k \in Positions : stateout_dec_sel(s, x, k) <=> m <= k
  <2> SUFFICES ASSUME NEW k \in Positions PROVE stateout_dec_sel(s, x, k) <=> m <= k
    OBVIOUS
  <2>1. 0 .. k \subseteq Positions
    BY AssocAssumption DEF Positions
  <2>2. \A j \in 0 .. k : s[j] = x <=> j = m
    BY <2>1, FullBijection, FullType, Places
  <2>3. stateout_dec_sel(s, x, k) <=> m \in 0 .. k
    BY <2>2 DEF stateout_dec_sel
  <2> QED
    BY <2>3 DEF Ways, Positions
<1>6. CASE n \in Positions
  BY <1>2, <1>3, <1>4, <1>5, <1>6, Places
<1>7. CASE n = Assoc - 1
  <2>1. m < n <=> n # m
    BY <1>7, AssocAssumption DEF Ways
  <2> QED
    BY <1>2, <1>3, <1>4, <1>7, <2>1, Places
<1> QED
  BY <1>6, <1>7, Places

LEMMA SinceType ==
  ASSUME NEW s \in State, IsOrder(s)
  PROVE  Since(s) \in [Ways -> SUBSET Ways] /\ Since(s) # Lru!Unknown
<1>1. Since(s) \in [Ways -> SUBSET Ways]
  BY DEF Since
<1>2. DOMAIN Since(s) # {}
  BY <1>1, Places
<1> QED
  BY <1>1, <1>2 DEF Lru!Unknown

\* A list that is an order knows in which order the ways were used.
LEMMA SinceRecency ==
  ASSUME NEW s \in State, IsOrder(s)
  PROVE  Lru!IsRecency(Since(s))
<1>1. ASSUME NEW x \in Ways, NEW y \in Ways
      PROVE  /\ x \notin Since(s)[x]
             /\ x # y => (y \in Since(s)[x] <=> x \notin Since(s)[y])
             /\ y \in Since(s)[x] => Since(s)[y] \subseteq Since(s)[x]
  <2>1. PICK m \in Ways : Full(s)[m] = x
    BY FullBijection
  <2>2. PICK n \in Ways : Full(s)[n] = y
    BY FullBijection
  <2>3. x \notin Since(s)[x]
    BY <2>1, SinceFull, Places
  <2>4. x # y => (y \in Since(s)[x] <=> x \notin Since(s)[y])
    <3>1. x # y => m < n \/ n < m
      BY <2>1, <2>2, Places
    <3> QED
      BY <2>1, <2>2, <3>1, SinceFull, Places
  <2>5. ASSUME y \in Since(s)[x], NEW z \in Since(s)[y] PROVE z \in Since(s)[x]
    <3>1. PICK k \in Ways : Full(s)[k] = z
      BY SinceType, FullBijection
    <3>2. m < n /\ n < k
      BY <2>1, <2>2, <2>5, <3>1, SinceFull
    <3>3. m < k
      BY <3>2, Places
    <3> QED
      BY <2>1, <3>1, <3>3, SinceFull
  <2> QED
    BY <2>3, <2>4, <2>5
<1> QED
  BY <1>1, SinceType DEF Lru!IsRecency

\* The first place holds the way since whose use all others were used.
LEMMA FirstOldest ==
  ASSUME NEW s \in State, IsOrder(s)
  PROVE  Lru!Oldest(Since(s), s[0])
<1>1. s[0] \in Ways /\ s[0] = Full(s)[0] /\ 0 \in Ways
  BY FullType, Places DEF State
<1>2. ASSUME NEW y \in Ways PROVE y \in Since(s)[s[0]] <=> y # s[0]
  <2>1. PICK n \in Ways : Full(s)[n] = y
    BY FullBijection
  <2>2. y \in Since(s)[s[0]] <=> 0 < n
    BY <1>1, <2>1, SinceFull
  <2>3. y # s[0] <=> n # 0
    BY <1>1, <2>1, FullBijection
  <2> QED
    BY <2>2, <2>3 DEF Ways
<1> QED
  BY <1>1, <1>2, SinceType DEF Lru!Oldest

\* A use takes the way from its place to the last one.
LEMMA FullStateout ==
  ASSUME NEW s \in State, IsOrder(s), NEW k \in Ways
  PROVE  LET t == stateout(s, Full(s)[k]) IN
         \A n \in Ways : Full(t)[n] = IF n < k THEN Full(s)[n]
                                      ELSE IF n = Assoc - 1 THEN Full(s)[k]
                                      ELSE Full(s)[n + 1]
<1> DEFINE w == Full(s)[k]
           t == stateout(s, w)
<1>1. w \in Ways /\ t \in State /\ IsOrder(t)
  BY FullType, StateoutType, StateoutOrder
<1>2. \A n \in Positions : stateout_dec_sel(s, w, n) <=> k <= n
  <2> SUFFICES ASSUME NEW n \in Positions PROVE stateout_dec_sel(s, w, n) <=> k <= n
    OBVIOUS
  <2>1. 0 .. n \subseteq Positions
    BY AssocAssumption DEF Positions
  <2>2. \A j \in 0 .. n : s[j] = w <=> j = k
    BY <2>1, FullBijection, FullType, Places
  <2>3. stateout_dec_sel(s, w, n) <=> k \in 0 .. n
    BY <2>2 DEF stateout_dec_sel
  <2> QED
    BY <2>3 DEF Ways, Positions
<1>3. \A n \in Positions : n + 1 \in Ways /\ (n + 1 = Assoc - 1 \/ n + 1 \in Positions)
  BY AssocAssumption DEF Ways, Positions
<1>4. \A n \in Positions : Full(t)[n] = IF k <= n THEN Full(s)[n + 1] ELSE Full(s)[n]
  <2> SUFFICES ASSUME NEW n \in Positions
               PROVE  Full(t)[n] = IF k <= n THEN Full(s)[n + 1] ELSE Full(s)[n]
    OBVIOUS
  <2>1. Full(t)[n] = t[n] /\ Full(s)[n] = s[n]
    BY <1>1, FullType
  <2>2. t[n] = IF ~stateout_dec_sel(s, w, n) THEN s[n]
               ELSE IF n + 1 = Assoc - 1 THEN statein_mru_way(s) ELSE s[n + 1]
    BY <1>1, StateoutType
  <2>3. Full(s)[n + 1] = IF n + 1 = Assoc - 1 THEN statein_mru_way(s) ELSE s[n + 1]
    BY <1>3, FullType
  <2> QED
    BY <1>2, <2>1, <2>2, <2>3
<1>5. Full(t)[Assoc - 1] = w
  <2>1. PICK n \in Ways : Full(t)[n] = w
    BY <1>1, FullBijection
  <2>2. ASSUME n \in Positions PROVE FALSE
    <3>1. CASE k <= n
      <4>1. n + 1 = k
        BY <1>3, <1>4, <2>1, <2>2, <3>1, FullBijection
      <4> QED
        BY <3>1, <4>1 DEF Ways
    <3>2. CASE ~(k <= n)
      <4>1. n = k
        BY <1>4, <2>1, <2>2, <3>2, FullBijection, Places
      <4> QED
        BY <3>2, <4>1 DEF Ways
    <3> QED
      BY <3>1, <3>2
  <2> QED
    BY <2>1, <2>2, Places
<1>6. ~(Assoc - 1 < k)
  BY AssocAssumption DEF Ways
<1>7. \A n \in Positions : n # Assoc - 1 /\ (k <= n <=> ~(n < k))
  BY AssocAssumption DEF Ways, Positions
<1> QED
  BY <1>4, <1>5, <1>6, <1>7, Places

\* What the list knows after a use is what it knew, and that use.
LEMMA SinceStateout ==
  ASSUME NEW s \in State, IsOrder(s), NEW w \in Ways
  PROVE  Since(stateout(s, w)) = Lru!AfterUse(Since(s), w)
<1> DEFINE t == stateout(s, w)
<1>1. t \in State /\ IsOrder(t)
  BY StateoutType, StateoutOrder
<1>2. PICK k \in Ways : Full(s)[k] = w
  BY FullBijection
<1>3. ASSUME NEW x \in Ways, NEW y \in Ways
      PROVE  y \in Since(t)[x] <=> x # w /\ (y \in Since(s)[x] \/ y = w)
  <2>1. PICK m \in Ways : Full(t)[m] = x
    BY <1>1, FullBijection
  <2>2. PICK n \in Ways : Full(t)[n] = y
    BY <1>1, FullBijection
  <2>3. y \in Since(t)[x] <=> m < n
    BY <1>1, <2>1, <2>2, SinceFull
  <2> DEFINE from(j) == IF j < k THEN j ELSE IF j = Assoc - 1 THEN k ELSE j + 1
  <2>4. \A j \in Ways : from(j) \in Ways /\ Full(t)[j] = Full(s)[from(j)]
    <3>1. \A j \in Ways : from(j) \in Ways
      BY AssocAssumption DEF Ways
    <3>2. \A j \in Ways : Full(t)[j] = IF j < k THEN Full(s)[j]
                                       ELSE IF j = Assoc - 1 THEN Full(s)[k]
                                       ELSE Full(s)[j + 1]
      BY <1>2, FullStateout
    <3> QED
      BY <3>1, <3>2
  <2>5. /\ y \in Since(s)[x] <=> from(m) < from(n)
        /\ x = w <=> from(m) = k
        /\ y = w <=> from(n) = k
    BY <1>2, <2>1, <2>2, <2>4, SinceFull, FullBijection
  <2>6. m < n <=> from(m) # k /\ (from(m) < from(n) \/ from(n) = k)
    BY AssocAssumption DEF Ways
  <2> QED
    BY <2>3, <2>5, <2>6
<1>4. Since(t) \in [Ways -> SUBSET Ways] /\ Since(s) \in [Ways -> SUBSET Ways]
  BY <1>1, SinceType
<1>5. Lru!AfterUse(Since(s), w) \in [Ways -> SUBSET Ways]
  BY <1>4 DEF Lru!AfterUse
<1>6. \A x, y \in Ways : y \in Lru!AfterUse(Since(s), w)[x] <=>
                        x # w /\ (y \in Since(s)[x] \/ y = w)
  BY <1>4 DEF Lru!AfterUse
<1>7. ASSUME NEW x \in Ways PROVE Since(t)[x] = Lru!AfterUse(Since(s), w)[x]
  <2>1. \A y \in Ways : y \in Since(t)[x] <=> y \in Lru!AfterUse(Since(s), w)[x]
    BY <1>3, <1>6
  <2> QED
    BY <1>4, <1>5, <2>1
<1> QED
  BY <1>4, <1>5, <1>7

-----------------------------------------------------------------------------
(***************************************************************************)
(* The refinement.                                                         *)
(***************************************************************************)
\* A step that uses a way is that use for LruSpec.
LEMMA UseStep ==
  ASSUME TypeOK, NEW way \in Ways, Used(way)
  PROVE  Lru!Use(way)
<1> DEFINE since == [i \in Indexes |-> Since(sram[i])]
<1>1. sram' = [sram EXCEPT ![raddr] = stateout(sram[raddr], way)]
  BY DEF Used, Clock, rstate
<1>2. sram[raddr] \in State /\ raddr \in Indexes
  BY DEF TypeOK
<1>3. \A i \in Indexes \ {raddr} : since'[i] = since[i]
  BY <1>1 DEF TypeOK
<1>4. since'[raddr] = Since(stateout(sram[raddr], way))
  BY <1>1, <1>2 DEF TypeOK
<1>5. CASE IsOrder(sram[raddr])
  <2>1. since[raddr] # Lru!Unknown
    BY <1>2, <1>5, SinceType
  <2>2. since'[raddr] = Lru!AfterUse(since[raddr], way)
    BY <1>2, <1>4, <1>5, SinceStateout
  <2> QED
    BY <1>3, <2>1, <2>2 DEF Lru!Use
<1>6. CASE ~IsOrder(sram[raddr])
  <2>1. since[raddr] = Lru!Unknown
    BY <1>2, <1>6 DEF Since, Lru!Unknown
  <2>2. since'[raddr] = Lru!Unknown \/ Lru!IsRecency(since'[raddr])
    BY <1>2, <1>4, StateoutType, SinceRecency DEF Since, Lru!Unknown
  <2> QED
    BY <1>3, <2>1, <2>2 DEF Lru!Use
<1> QED
  BY <1>5, <1>6

\* The policy is LRU in every set whose list has become an order of its ways.
THEOREM Refinement == Spec => PromiseKept
<1> DEFINE since == [i \in Indexes |-> Since(sram[i])]
<1>1. TypeOK => \A i \in Indexes : since[i] = Lru!Unknown \/ Lru!IsRecency(since[i])
  BY SinceRecency DEF TypeOK, Since, Lru!Unknown
<1>2. TypeOK => Lru!VictimOldest
  BY FirstOldest DEF TypeOK, Lru!VictimOldest, rway, rstate, Since, Lru!Unknown
<1>3. Init => TypeOK
  BY DEF Init, TypeOK
<1>4. Init => Lru!Init
  BY <1>1, <1>2, <1>3 DEF Lru!Init
<1>5. TypeOK /\ TypeOK' /\ Next => Lru!Next
  <2> SUFFICES ASSUME TypeOK, TypeOK', Next PROVE Lru!Next
    OBVIOUS
  <2>1. raddr' \in Indexes
    BY DEF TypeOK
  <2>2. Lru!VictimOldest'
    BY <1>2, PTL
  <2>3. CASE Unused
    <3>1. since' = since
      BY <2>3 DEF Unused, Clock
    <3> QED
      BY <2>1, <2>2, <3>1 DEF Lru!Next
  <2>4. ASSUME NEW way \in Ways, Used(way) PROVE Lru!Use(way)
    BY <2>4, UseStep
  <2> QED
    BY <2>1, <2>2, <2>3, <2>4 DEF Next, Lru!Next
<1>6. UNCHANGED vars => UNCHANGED <<since, raddr, rway>>
  BY DEF vars, rway, rstate
<1> QED
  BY <1>4, <1>5, <1>6, TypeCorrect, PTL DEF Spec, PromiseKept, Lru!Spec

\* The caches' uses of ways are uses for LruSpec, whatever the list.
THEOREM UseRefines == Spec => UsesRecorded
<1>1. TypeOK /\ [Next]_vars =>
        [\A way \in Ways : Used(way) => Lru!Use(way)]_vars
  BY UseStep
<1> QED
  BY <1>1, TypeCorrect, PTL DEF Spec, UsesRecorded
=============================================================================
