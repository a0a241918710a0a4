-------------------------- MODULE CacheReplaceLru --------------------------
(***************************************************************************)
(* The LRU replacement policy (hdl/mem/cache/replace/cache_replace_lru):   *)
(* for each set the list of its ways, least recently used first, without   *)
(* the last one, in a RAM whose contents no reset initializes.  A decoded  *)
(* way is the way.                                                         *)
(***************************************************************************)
EXTENDS Naturals

CONSTANTS
  Assoc,    \* number of ways, a power of two in the source
  Indexes   \* the sets

ASSUME AssocAssumption == Assoc \in Nat /\ Assoc >= 2

VARIABLES
  sram,    \* per set, the list
  raddr    \* the register of the read port

Ways == 0 .. Assoc - 1
Positions == 0 .. Assoc - 2
State == [Positions -> Ways]

\* The ways that no place of the list holds.  In an uninitialized list there
\* may be several; the lowest is taken for the one used most recently.
statein_mru_way_unpri(s) == {w \in Ways : \A n \in Positions : s[n] # w}
\* (mutant) The last way stands in for all of them.
statein_mru_way_last(s) == Assoc - 1
statein_mru_way(s) ==
  CHOOSE w \in statein_mru_way_unpri(s) :
    \A v \in statein_mru_way_unpri(s) : w <= v

statein_dec(s, n) == IF n = Assoc - 1 THEN statein_mru_way(s) ELSE s[n]

\* The way is at place n or before it.
\* (mutant) Each place decides for itself.
stateout_dec_sel_alone(s, way, n) == s[n] = way
stateout_dec_sel(s, way, n) == \E m \in 0 .. n : s[m] = way

\* Way becomes the most recently used one: it leaves the list, and what is
\* above it moves down.
stateout(s, way) ==
  [n \in Positions |-> IF stateout_dec_sel(s, way, n) THEN statein_dec(s, n + 1)
                                                      ELSE s[n]]

rstate == sram[raddr]
rway == rstate[0]

Init ==
  /\ sram \in [Indexes -> State]
  /\ raddr \in Indexes

\* A rising edge of clk: the ports we, windex, wway, wstate, re and rindex.
\* The RAM shows what is written to the set that it reads.
Clock(we, windex, wway, wstate, re, rindex) ==
  /\ sram' = IF we THEN [sram EXCEPT ![windex] = stateout(wstate, wway)] ELSE sram
  /\ raddr' = IF re THEN rindex ELSE raddr
=============================================================================
