------------------------------ MODULE LruSpec ------------------------------
(***************************************************************************)
(* What a replacement policy of the caches promises when it is the one of  *)
(* least recent use: for each set it knows of every way which ways were    *)
(* used since, and it offers the way since whose last use all others were  *)
(* used, in the set that was read last.  Nothing clears the memory of the  *)
(* policy, so it may know nothing of a set at first; what it knows once it *)
(* does not forget.                                                        *)
(***************************************************************************)
CONSTANTS Ways, Indexes

VARIABLES
  since,    \* per set and way, the ways used since the way was; or Unknown
  read,     \* the set that was read last
  victim    \* the way on the output

Unknown == [way \in {} |-> {}]

\* The ways were used one after another.
IsRecency(s) ==
  /\ s \in [Ways -> SUBSET Ways]
  /\ \A x \in Ways : x \notin s[x]
  /\ \A x, y \in Ways : x # y => (y \in s[x] <=> x \notin s[y])
  /\ \A x, y \in Ways : y \in s[x] => s[y] \subseteq s[x]

AfterUse(s, way) ==
  [x \in Ways |-> IF x = way THEN {} ELSE s[x] \cup {way}]

Oldest(s, way) == s[way] = Ways \ {way}

VictimOldest == since[read] # Unknown => Oldest(since[read], victim)

Init ==
  /\ \A i \in Indexes : since[i] = Unknown \/ IsRecency(since[i])
  /\ VictimOldest

\* Way is used in the set that was read.
Use(way) ==
  /\ \A i \in Indexes \ {read} : since'[i] = since[i]
  /\ IF since[read] = Unknown
     THEN since'[read] = Unknown \/ IsRecency(since'[read])
     ELSE since'[read] = AfterUse(since[read], way)

Next ==
  /\ since' = since \/ \E way \in Ways : Use(way)
  /\ read' \in Indexes
  /\ VictimOldest'

Spec == Init /\ [][Next]_<<since, read, victim>>
=============================================================================
