---------------------------- MODULE CacheReplace ----------------------------
(***************************************************************************)
(* The LRU policy as the level-1 caches use it: a set is read together     *)
(* with its tags; in the next cycle the access may have used a way of it,  *)
(* and the list that was read is written back while the next set is read.  *)
(***************************************************************************)
EXTENDS CacheReplaceLru

vars == <<sram, raddr>>

\* The access used a way of the set that was read, a free one, one that hit or
\* the victim that was replaced.  The next access reads a set, or none does.
Used(way) ==
  \E re \in BOOLEAN, rindex \in Indexes :
    Clock(TRUE, raddr, way, rstate, re, rindex)

\* It used none: a miss, an invalidation, or no access.
Unused ==
  \E re \in BOOLEAN, rindex \in Indexes :
    Clock(FALSE, raddr, rway, rstate, re, rindex)

Next == (\E way \in Ways : Used(way)) \/ Unused
Spec == Init /\ [][Next]_vars

-----------------------------------------------------------------------------
TypeOK ==
  /\ sram \in [Indexes -> State]
  /\ raddr \in Indexes

\* A list without duplicates is an order of all the ways.
IsOrder(s) == \A m, n \in Positions : s[m] = s[n] => m = n

\* The places that repeat a way of a lower place.
Duplicated(s) == {n \in Positions : \E m \in Positions : m < n /\ s[m] = s[n]}

\* What the memory of the policy held when the power came on is forgotten with
\* the replacement of victims: no use makes a duplicate, and the use of a
\* victim moves all of them one place down.  There are none in the first
\* place, so after Assoc - 1 victims, whatever else is used between them, the
\* list of a set is an order of its ways.
Settling ==
  [][\A i \in Indexes : \A n \in Duplicated(sram'[i]) :
       \/ n + 1 \in Duplicated(sram[i])
       \/ n \in Duplicated(sram[i]) /\ ~(i = raddr /\ Used(rway))]_vars

\* Once the list of a set is an order, no use of any way spoils it.
OrderKept == [][\A i \in Indexes : IsOrder(sram[i]) => IsOrder(sram'[i])]_vars

-----------------------------------------------------------------------------
(***************************************************************************)
(* The promise of LruSpec.  A list that is an order of the ways tells      *)
(* which ways were used since another was: those not listed before it.     *)
(***************************************************************************)
Since(s) ==
  IF IsOrder(s)
  THEN [x \in Ways |->
          {y \in Ways \ {x} :
             \A n \in Positions : s[n] = y => stateout_dec_sel(s, x, n)}]
  ELSE [way \in {} |-> {}]

Lru == INSTANCE LruSpec WITH since <- [i \in Indexes |-> Since(sram[i])],
                             read <- raddr, victim <- rway

\* The policy replaces the way of a set that was used least recently, in
\* every set whose list has become an order.
PromiseKept == Lru!Spec

\* A step of the caches that uses a way is that use for LruSpec, and never the
\* idle step it also allows: no use goes unrecorded.
UsesRecorded == [][\A way \in Ways : Used(way) => Lru!Use(way)]_vars
=============================================================================
