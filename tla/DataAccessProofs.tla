-------------------------- MODULE DataAccessProofs --------------------------
(***************************************************************************)
(* The control of the data side is correct for every size of the cache, of *)
(* its blocks and of the store buffer, and for every way to build it: CInv *)
(* is an inductive invariant of DataAccess, and the properties of the      *)
(* control follow from it.  DataAccessSteps says what a cycle does.  The   *)
(* second half is about the valid bits and the tags, and their TInv.       *)
(***************************************************************************)
EXTENDS DataAccessSteps, FiniteSetTheorems

-----------------------------------------------------------------------------
(***************************************************************************)
(* A cycle keeps the invariant, part by part.                              *)
(***************************************************************************)
\* The request belongs to its state.
LEMMA RequestKnownKept ==
  ASSUME CInv, NEW i, NEW victim, Cycled(i, victim)
  PROVE  RequestKnown'
<1>1. b_request' = i /\ i \in Accepted /\ (~Cache!b_request_complete => i = b_request)
  BY RequestStep
<1>2. CASE Cache!b_request_complete
  <2>1. i.code \in {"none", "load", "store", "invalidate", "writeback"}
        /\ (i.code \in {"load", "store"} => i.cacheen \in BOOLEAN)
    BY <1>1, RequestFields
  <2>2. CASE i.code = "none"
    BY <1>1, <1>2, <2>2, RequestStates DEF RequestKnown, WantsBus
  <2>3. CASE i.code = "load"
    BY <1>1, <1>2, <2>1, <2>3, RequestStates DEF RequestKnown, WantsBus
  <2>4. CASE i.code = "store"
    BY <1>1, <1>2, <2>1, <2>4, RequestStates DEF RequestKnown, WantsBus
  <2>5. CASE i.code = "invalidate"
    BY <1>1, <1>2, <2>5, RequestStates DEF RequestKnown, WantsBus
  <2>6. CASE i.code = "writeback"
    BY <1>1, <1>2, <2>6, RequestStates DEF RequestKnown, WantsBus
  <2> QED BY <2>1, <2>2, <2>3, <2>4, <2>5, <2>6
<1>3. CASE ~Cache!b_request_complete
  <2>1. b_request' = b_request
    BY <1>1, <1>3
  <2>2. RequestKnown /\ b_request_state \in Cache!RequestStates
    BY DEF CInv, TypeOK
  <2>3. b_request_state \in {"uncached_load_mmu_access", "uncached_store_mmu_access",
                            "cached_load_l1_access"} => ~b_request.mmuen
    BY <1>3, Completion
  <2>4. b_request_state' \in WantsBus => b_request.code = "writeback" \/ ~b_request.mmuen
    BY <1>3, <2>2, <2>3, RequestStates DEF Cache!RequestStates, RequestKnown, WantsBus
  <2> QED BY <1>3, <2>1, <2>2, <2>4, RequestStates DEF Cache!RequestStates, RequestKnown
<1> QED BY <1>2, <1>3

\* Who owns the RAMs and the bus.
LEMMA OwnedKept ==
  ASSUME CInv, NEW i, NEW victim, Cycled(i, victim)
  PROVE  Owned'
<1>1. b_bus_op_owner' = IF RequestTakesBus THEN "request"
                        ELSE IF StbTakesBus THEN "stb"
                        ELSE IF BusNext = "bus_op" THEN "bus_op" ELSE "none"
  BY BusOwnerStep
<1>2. ~(StbTakesBus /\ RequestTakesBus)
  BY StbAndBus
<1> QED BY <1>1, <1>2, RamOwnersStep
        DEF Owned, RequestTakesVtram, RequestTakesRmdram, RequestTakesBus, StbTakesRmdram,
            StbTakesBus, BusOpTakesRams

\* What the owner of the bus does with it.
LEMMA BusUseKept ==
  ASSUME CInv, NEW i, NEW victim, Cycled(i, victim)
  PROVE  BusUse'
<1>1. CASE Cache!b_bus_op_complete
  <2>1. /\ b_bus_op_owner' \in {"none", "request", "stb"}
        /\ b_bus_op_owner' = "request" => RequestTakesBus
        /\ b_bus_op_owner' = "stb" => StbTakesBus
    BY <1>1, FirstStates, BusOpBegins
  <2>2. b_bus_op_requested'
    <3>1. sys_ready
      BY <1>1, BusReady
    <3> QED BY <3>1 DEF Cycled, Cache!Clock, Cache!BusOp
  <2>3. b_bus_op_owner' = "none" => b_bus_op_state' = "none"
    BY <1>1, BusOpBegins
  <2>4. b_bus_op_owner' = "request" =>
          /\ b_request_state' = "uncached_load_bus_op" => b_bus_op_state' = "load"
          /\ b_request_state' = "uncached_store_bus_op" => b_bus_op_state' = "store"
          /\ b_request_state' = "cached_load_fill" => b_bus_op_state' = "fill_first"
          /\ b_request_state' \in {"cached_load_writeback", "writeback_bus_op"} =>
               b_bus_op_state' = "writeback_first"
    BY <1>1, BusOpBegins, BusOpFirstState
  <2>5. b_bus_op_owner' = "stb" =>
          /\ b_stb_state' = "replace_access" => b_bus_op_state' = "none"
          /\ b_stb_state' = "writeback" => b_bus_op_state' = "writeback_first"
          /\ b_stb_state' = "fill" => b_bus_op_state' = "fill_first"
          /\ b_stb_state' = "write" => b_bus_op_state' = "store"
    BY <1>1, BusOpBegins, BusOpFirstState
  <2>6. b_bus_op_block_word' = 0
    BY <1>1, BusOpBegins
  <2> QED BY <2>1, <2>2, <2>3, <2>4, <2>5, <2>6, BusOpGranted
          DEF BusUse, FillStates, WritebackStates
<1>2. CASE ~Cache!b_bus_op_complete
  <2>1. b_bus_op_state # "none" /\ b_bus_op_requested
    BY <1>2, BusReady DEF CInv, BusUse
  <2>2. b_bus_op_requested'
    BY <1>2, <2>1 DEF Cycled, Cache!Clock, Cache!BusOp
  <2>3. BusNext # "none"
    BY <1>2, BusFree
  <2>4. b_bus_op_owner' = BusNext
    BY <2>3, BusOwnerStep, StbAndBus, RequestKeepsBus DEF BusNext, RequestPassesBus, StbPassesBus
  <2>5. b_bus_op_block_word' =
          IF b_bus_op_state \in {"load", "store", "writeback_last"} \/ ~sys_ready
          THEN b_bus_op_block_word
          ELSE IF b_bus_op_block_word = BlockWords - 1 THEN 0 ELSE b_bus_op_block_word + 1
    BY <1>2, BusOpGoesOn
  <2>6. b_bus_op_state' \in {"none", "load", "store", "fill_first", "fill_last",
                            "writeback_first", "writeback_last"} => b_bus_op_block_word' = 0
    BY <1>2, <2>1, <2>5, BusOpGoesOn, BusReady DEF LastWord, CInv, BusUse
  <2>7. b_bus_op_owner' = "bus_op" => b_bus_op_state' \in {"fill", "fill_last"}
    BY <1>2, <2>4, BusFree, BusOpGoesOn
  <2>8. ASSUME b_bus_op_owner' = "request"
        PROVE
          /\ b_request_state' = "uncached_load_bus_op" => b_bus_op_state' = "load"
          /\ b_request_state' = "uncached_store_bus_op" => b_bus_op_state' = "store"
          /\ b_request_state' = "cached_load_fill" => b_bus_op_state' \in {"fill_first", "fill"}
          /\ b_request_state' \in {"cached_load_writeback", "writeback_bus_op"} =>
               b_bus_op_state' \in WritebackStates
    <3>1. b_bus_op_owner = "request" /\ RequestPassesBus = "request"
      BY <2>4, <2>8 DEF BusNext, StbPassesBus
    <3>2. b_request_state \in WantsBus /\ b_request_granted
      BY <3>1 DEF CInv, Owned
    <3>3. ~Cache!b_request_complete
      BY <3>1, <3>2, Completion DEF RequestPassesBus, WantsBus
    <3>4. b_request_state' = b_request_state
      <4>1. b_request_state = "cached_load_writeback" =>
              ~(b_bus_op_state = "writeback_last" /\ sys_ready)
        BY <1>2, BusReady
      <4> QED BY <3>2, <3>3, <4>1, RequestStates DEF WantsBus
    <3>5. b_request_state = "cached_load_fill" => ~sys_ready
      BY <3>1 DEF RequestPassesBus
    <3> QED BY <1>2, <3>1, <3>2, <3>4, <3>5, BusOpGoesOn
            DEF CInv, BusUse, WantsBus, WritebackStates, LastWord
  <2>9. ASSUME b_bus_op_owner' = "stb"
        PROVE  /\ b_stb_state' = "replace_access" => b_bus_op_state' = "none"
               /\ b_stb_state' = "writeback" => b_bus_op_state' \in WritebackStates
               /\ b_stb_state' = "fill" => b_bus_op_state' \in FillStates
               /\ b_stb_state' = "write" => b_bus_op_state' = "store"
    <3>1. b_bus_op_owner = "stb" /\ StbPassesBus = "stb"
      BY <2>4, <2>9 DEF BusNext, RequestPassesBus
    <3>2. StbGoesOn(victim)
      BY <2>3, StbMoves DEF StbStarts
    <3>3. b_stb_state \in {"writeback", "fill", "write"}
      BY <2>1, <3>1 DEF CInv, Owned, BusUse, ReplaceStates
    <3>4. b_stb_state' = b_stb_state
      BY <1>2, <3>1, <3>2, <3>3, BusReady DEF StbGoesOn, StbPassesBus, Pops, CInv, Owned, ReplaceStates
    <3> QED BY <1>2, <3>1, <3>3, <3>4, BusOpGoesOn
            DEF CInv, BusUse, WritebackStates, FillStates
  <2> QED BY <2>2, <2>3, <2>4, <2>6, <2>7, <2>8, <2>9, BusOpGranted DEF BusUse
<1> QED BY <1>1, <1>2

\* Who waits for the bus, and what for.
LEMMA RequestWaitsKept ==
  ASSUME CInv, NEW i, NEW victim, Cycled(i, victim)
  PROVE  RequestWaits'
<1>1. ASSUME b_request_state' \in {"cached_load_writeback", "cached_load_fill",
                                  "writeback_bus_op"},
             ~b_request_granted'
      PROVE  b_stb_state' = "write" /\ b_stb_write_bus' /\ ~b_stb_write_cache'
  <2>1. BusNext \notin {"request", "none"}
    BY <1>1, RequestMoves DEF WantsVtram, WantsRmdram
  <2>2. StbGoesOn(victim)
    BY <2>1, StbMoves DEF StbStarts
  <2>3. ~Cache!b_request_complete
    BY <1>1, RequestAndBus DEF WantsBus
  <2>4. CASE /\ b_request_state \in {"cached_load_l1_access", "writeback_l1_access"}
             /\ b_request_granted
    <3>1. b_vtram_owner = "request" /\ b_rmdram_owner = "request"
      BY <2>4 DEF CInv, Owned, WantsVtram, WantsRmdram
    <3>2. /\ b_bus_op_state \notin FillStates \cup WritebackStates
          /\ b_stb_state # "replace_access"
          /\ ~(b_stb_state = "write" /\ b_stb_write_cache)
      BY <3>1 DEF CInv, Owned
    <3>3. b_bus_op_owner = "stb" /\ StbPassesBus = "stb"
      BY <2>1, <2>4, <3>2 DEF BusNext, CInv, Owned, BusUse, FillStates, WantsBus, StbPassesBus
    <3>4. b_stb_state = "write" /\ b_stb_write_bus /\ ~sys_ready
      BY <3>2, <3>3 DEF CInv, Owned, BusUse, ReplaceStates, StbPassesBus
    <3> QED BY <2>2, <3>2, <3>4 DEF StbGoesOn, Pops, ReplaceStates
  <2>5. CASE b_request_state \in WantsBus /\ b_request_granted
    <3>1. b_bus_op_owner = "request"
      BY <2>5 DEF CInv, Owned
    <3>2. RequestPassesBus = "request"
      BY <2>3, <2>5, Completion DEF RequestPassesBus, WantsBus
    <3> QED BY <2>1, <3>1, <3>2 DEF BusNext
  <2>6. CASE /\ b_request_state \in {"cached_load_writeback", "cached_load_fill",
                                    "writeback_bus_op"}
             /\ ~b_request_granted
    <3>1. b_stb_state = "write" /\ b_stb_write_bus /\ ~b_stb_write_cache
      BY <2>6 DEF CInv, RequestWaits
    <3>2. b_bus_op_owner = "stb"
      BY <3>1 DEF CInv, Owned
    <3>3. ~sys_ready
      BY <2>1, <3>1, <3>2 DEF BusNext, StbPassesBus
    <3> QED BY <2>2, <3>1, <3>3 DEF StbGoesOn, Pops, ReplaceStates
  <2>7. b_request_granted \in BOOLEAN
    BY DEF CInv, TypeOK
  <2> QED BY <1>1, <2>4, <2>5, <2>6, <2>7, RequestAndBus DEF WantsBus
<1>2. victim \in Victims
  BY DEF Cycled
<1>3. ASSUME b_request_state' \in {"cached_load_writeback", "cached_load_fill"}
      PROVE  \E w \in Ways : b_request_way' = {w}
  <2>1. ~Cache!b_request_complete
    BY <1>3, RequestAndBus DEF WantsBus
  <2>2. \/ b_request_state \in {"cached_load_writeback", "cached_load_fill"}
        \/ b_request_state = "cached_load_l1_access" /\ b_request_granted
    BY <1>3, <2>1, RequestStates DEF CInv, TypeOK, Cache!RequestStates
  <2> QED BY <1>2, <2>2, VictimIsWay, WaysStep DEF CInv, RequestWaits
<1>4. ASSUME b_stb_state' \in {"writeback", "fill"}
      PROVE  \E w \in Ways : b_stb_way' = {w}
  <2>1. StbGoesOn(victim) /\ b_stb_state \in {"replace_access", "writeback", "fill"}
    BY <1>4, StbMoves DEF StbStarts, StbGoesOn
  <2> QED BY <1>2, <2>1, VictimIsWay, WaysStep DEF CInv, RequestWaits
<1> QED BY <1>1, <1>3, <1>4 DEF RequestWaits

\* What the store buffer does is with the entry at its head.
LEMMA HeadKnownKept ==
  ASSUME CInv, NEW i, NEW victim, Cycled(i, victim)
  PROVE  HeadKnown'
<1>1. Cache!b_stb_head' = Cache!a_stb_head
  BY DEF Cache!b_stb_head, Cache!a_stb_head
<1>2. CASE StbStarts
  <2>1. Cache!a_stb_head \in StbEntry
    BY <1>2, Pointers, SlotTyped DEF StbStarts, Cache!a_stb_head
  <2>2. /\ Cache!a_stb_head.cache_hit \in BOOLEAN /\ Cache!a_stb_head.alloc \in BOOLEAN
        /\ Cache!a_stb_head.writethrough \in BOOLEAN
    BY <2>1 DEF StbEntry
  <2> QED BY <1>1, <1>2, <2>2 DEF HeadKnown, StbStarts, ReplaceStates
<1>3. CASE StbGoesOn(victim)
  <2>1. CASE b_stb_state' = "init"
    BY <2>1 DEF HeadKnown, ReplaceStates
  <2>2. CASE b_stb_state' # "init"
    <3>1. b_stb_state # "init" /\ ~Pops
      BY <1>3, <2>2 DEF StbGoesOn, Pops
    <3>2. /\ Cache!b_stb_head' # NoEntry
          /\ Cache!b_stb_head'.writethrough = Cache!b_stb_head.writethrough
      BY <3>1, HeadStays, NothingAssumption
    <3>3. b_stb_state = "write" /\ b_stb_write_bus =>
            Cache!b_stb_head'.cache_hit = Cache!b_stb_head.cache_hit
      <4>1. b_stb_state = "write" /\ b_stb_write_bus => b_bus_op_state = "store"
        BY PopsIsPop
      <4> QED BY <3>1, <4>1, HeadStays
    <3>4. /\ b_stb_state' \in ReplaceStates => b_stb_state \in ReplaceStates
          /\ b_stb_state' = "write" => b_stb_state \in {"fill", "write"}
          /\ b_stb_write_bus' = b_stb_write_bus
          /\ b_stb_write_cache' = (b_stb_state \in ReplaceStates /\ b_stb_write_cache)
      BY <1>3, <3>1 DEF StbGoesOn, ReplaceStates
    <3> QED BY <3>2, <3>3, <3>4 DEF HeadKnown, CInv, ReplaceStates
  <2> QED BY <2>1, <2>2
<1> QED BY <1>2, <1>3, StbMoves

\* The head of a full store buffer that hits in the cache, and need not go to
\* memory, is taken in hand at once.
LEMMA QuickHead ==
  ASSUME CInv, NEW i, NEW victim, Cycled(i, victim),
         b_request_state' = "cached_store_l1_access",
         Cache!a_stb_full, Cache!a_stb_quick_store
  PROVE  b_stb_state' = "write" /\ ~b_stb_write_bus'
<1>1. RmdramNext = "none" /\ Cache!a_stb_head.cache_hit /\ ~Cache!a_stb_head.writethrough
  BY RamOwnersNext DEF Cache!a_stb_quick_store
<1>2. Cache!a_stb_head # NoEntry
  BY Pointers DEF Cache!a_stb_full, Cache!a_stb_head
<1>3. b_stb_state \notin ReplaceStates
  <2>1. b_stb_state # "replace_access"
    BY <1>1 DEF RmdramNext, CacheKept
  <2>2. b_stb_state \in {"writeback", "fill"} =>
          b_bus_op_owner = "stb" /\ b_bus_op_state \in FillStates \cup WritebackStates
    BY DEF CInv, Owned, BusUse, ReplaceStates
  <2>3. b_bus_op_owner = "stb" => b_bus_op_state \notin FillStates \cup WritebackStates
    BY <1>1 DEF RmdramNext, CacheKept, CacheReleased
  <2> QED BY <2>1, <2>2, <2>3 DEF ReplaceStates
<1>4. b_stb_state = "write" => Pops
  <2>1. ASSUME b_stb_state = "write", ~Pops PROVE FALSE
    <3>1. b_stb_write_bus /\ b_bus_op_state = "store"
      BY <2>1, PopsIsPop DEF Pops
    <3>2. /\ Cache!a_stb_head.cache_hit = Cache!b_stb_head.cache_hit
          /\ Cache!a_stb_head.writethrough = Cache!b_stb_head.writethrough
      BY <2>1, <3>1, HeadStays
    <3> QED BY <1>1, <2>1, <3>1, <3>2 DEF CInv, HeadKnown
  <2> QED BY <2>1
<1>5. Cache!b_stb_state_next(victim) = "init"
  BY <1>3, <1>4, StbNextState DEF CInv, TypeOK, Cache!StbStates, ReplaceStates
<1>6. /\ ~Cache!a_request_want_bus_op
      /\ ~Cache!a_request_want_rmdram
  BY DEF Cache!a_request_want_bus_op, Cache!a_request_want_rmdram
<1>7. Cache!b_rmdram_owner_next = "none"
  BY <1>1, RamOwnersNext
<1>8. Cache!a_stb_activate(victim)
  BY <1>1, <1>2, <1>5, <1>6, <1>7 DEF Cache!a_stb_activate, Cache!a_stb_head_valid
<1>9. Cache!StbActivate
  BY <1>8 DEF Cycled, Cache!Clock, Cache!StbControl
<1> QED BY <1>1, <1>9 DEF Cache!StbActivate

\* A store that waits for the cache has room in the store buffer.
LEMMA RoomKept ==
  ASSUME CInv, NEW i, NEW victim, Cycled(i, victim)
  PROVE  Room'
<1> SUFFICES ASSUME b_request_state' = "cached_store_l1_access"
             PROVE  Cache!b_stb_full' => b_stb_state' = "write" /\ ~b_stb_write_bus'
  BY DEF Room
<1>1. Cache!b_stb_full' <=> \A n \in Cache!Slots : b_stb_array'[n] # NoEntry
  BY DEF Cache!b_stb_full, Cache!b_stb_valid
<1>2. Cache!b_stb_full' <=> Cache!a_stb_full
  BY <1>1 DEF Cache!a_stb_full
<1>3. CASE Cache!b_request_complete
  <2>1. i.code = "store" /\ i.cacheen
    <3>1. i \in Accepted /\ i.code \in {"none", "load", "store", "invalidate", "writeback"}
      BY RequestStep, RequestFields
    <3>2. i.code = "store"
      BY <1>3, <3>1, RequestStates
    <3> QED BY <1>3, <3>2, RequestStates
  <2>2. ~(Cache!a_stb_full /\ ~Cache!a_stb_quick_store)
    BY <1>3, <2>1, RequestStates
  <2> QED BY <1>2, <2>2, QuickHead
<1>4. CASE ~Cache!b_request_complete
  <2>1. b_request_state \in {"cached_store_stb_wait", "cached_store_l1_access"}
    BY <1>4, RequestStates DEF CInv, TypeOK, Cache!RequestStates
  <2>2. ~Cache!b_stb_push
    BY <1>4, <2>1, PushEntry, Completion
  <2>3. \A n \in Cache!Slots :
          b_stb_array[n] = NoEntry \/ (Pops /\ n = b_stb_head_ptr) => b_stb_array'[n] = NoEntry
    BY <2>2, SlotStep
  <2>4. Pops => ~Cache!b_stb_full'
    BY <1>1, <2>3, Pointers
  <2>5. CASE b_request_state = "cached_store_stb_wait"
    BY <1>4, <2>4, <2>5, RequestStates
  <2>6. CASE b_request_state = "cached_store_l1_access"
    <3>1. CASE ~Cache!b_stb_full
      <4>1. \E n \in Cache!Slots : b_stb_array[n] = NoEntry
        BY <3>1 DEF Cache!b_stb_full, Cache!b_stb_valid
      <4> QED BY <1>1, <2>3, <4>1
    <3>2. CASE b_stb_state = "write" /\ ~b_stb_write_bus
      BY <2>4, <3>2 DEF Pops
    <3> QED BY <2>6, <3>1, <3>2 DEF CInv, Room
  <2> QED BY <2>1, <2>5, <2>6
<1> QED BY <1>3, <1>4

\* The list that the replacement policy reads.
LEMMA ListRead ==
  ASSUME CInv, NEW i, NEW victim, Cycled(i, victim)
  PROVE  /\ b_rmdram_owner' = "none" => listed' = NoRequest
         /\ b_rmdram_owner' = "request" =>
              listed' = IF b_request_state' # "writeback_l1_access"
                        THEN b_request'.addr.index ELSE NoRequest
         /\ b_rmdram_owner' = "stb" =>
              listed' = IF b_stb_state' = "replace_access"
                        THEN Cache!a_stb_head.addr.index ELSE NoRequest
         /\ b_rmdram_owner' = "bus_op" =>
              listed' = IF b_bus_op_state' = "fill_last" THEN b_bus_op_paddr.index ELSE NoRequest
<1>1. listed' = IF Cache!a_replace_re THEN Cache!a_replace_rindex ELSE NoRequest
  BY DEF Cycled
<1>2. b_rmdram_owner' = "none" => Cache!a_replace_re = FALSE
  BY Zenon DEF Cache!a_replace_re
<1>3. b_rmdram_owner' = "request" =>
        /\ Cache!a_replace_re = (b_request_state' # "writeback_l1_access")
        /\ Cache!a_replace_rindex = b_request'.addr.index
  BY Zenon DEF Cache!a_replace_re, Cache!a_replace_rindex
<1>4. b_rmdram_owner' = "stb" =>
        /\ Cache!a_replace_re = (b_stb_state' = "replace_access")
        /\ Cache!a_replace_rindex = Cache!a_stb_head.addr.index
  BY Zenon DEF Cache!a_replace_re, Cache!a_replace_rindex
<1>5. b_rmdram_owner' = "bus_op" =>
        /\ Cache!a_replace_re = (b_bus_op_state' = "fill_last")
        /\ Cache!a_replace_rindex = b_bus_op_paddr.index
  BY Zenon DEF Cache!a_replace_re, Cache!a_replace_rindex
<1> QED BY <1>1, <1>2, <1>3, <1>4, <1>5

\* A fill comes to its end after its last word.
LEMMA FillEnds ==
  ASSUME CInv, NEW i, NEW victim, Cycled(i, victim), b_bus_op_state' = "fill_last"
  PROVE  /\ b_bus_op_state = "fill" /\ b_bus_op_paddr \in Addr
         /\ sys_ready /\ b_bus_op_block_word = BlockWords - 1
         /\ b_bus_op_paddr' = Cache!next_in_block(b_bus_op_paddr)
         /\ b_bus_op_way' = b_bus_op_way
<1>1. ~Cache!b_bus_op_complete
  BY FirstStates
<1>2. b_bus_op_state = "fill" /\ LastWord
  BY <1>1, BusOpGoesOn, BusReady
<1> QED BY <1>1, <1>2, BusOpGoesOn DEF LastWord, CInv, OnBus

\* The list that the replacement policy shows is that of the set in use.
LEMMA ListedKept ==
  ASSUME CInv, NEW i, NEW victim, Cycled(i, victim)
  PROVE  Listed'
<1>1. b_rmdram_owner' = "request" /\ b_request_state' # "writeback_l1_access" =>
        listed' = b_request'.addr.index
  BY ListRead
<1>2. ASSUME b_bus_op_state' = "fill_last" PROVE listed' = b_bus_op_paddr'.index
  <2>1. b_rmdram_owner' = "bus_op"
    BY <1>2, OwnedKept DEF Owned, FillStates
  <2>2. b_bus_op_paddr'.index = b_bus_op_paddr.index
    BY <1>2, FillEnds, NextInBlock
  <2> QED BY <1>2, <2>1, <2>2, ListRead
<1> QED BY <1>1, <1>2 DEF Listed

\* What is on the port: the cycle before the bus has answered.
LEMMA OnBusHeld ==
  ASSUME CInv, NEW i, NEW victim, Cycled(i, victim), ~sys_ready
  PROVE  OnBus'
<1>1. port' # NoRequest /\ port'.req = port.req /\ port # NoRequest
  BY PortStep
<1>2. ~Cache!b_bus_op_complete
  BY BusReady DEF CInv, TypeOK, Cache!BusOpStates
<1>3. b_bus_op_state \in {"load", "store", "fill_first", "fill", "writeback", "writeback_last"}
  BY <1>2, BusReady DEF CInv, TypeOK, Cache!BusOpStates
<1>4. /\ b_bus_op_state' = IF b_bus_op_state = "fill_first" THEN "fill" ELSE b_bus_op_state
      /\ b_bus_op_block_word' = b_bus_op_block_word
      /\ b_bus_op_paddr' = b_bus_op_paddr
  BY <1>2, <1>3, BusOpGoesOn DEF LastWord
<1>5. ASSUME b_bus_op_state = "store"
      PROVE  /\ b_bus_op_owner' = b_bus_op_owner
             /\ b_bus_op_owner = "stb" =>
                  /\ Cache!b_stb_head'.addr = Cache!b_stb_head.addr
                  /\ Cache!b_stb_head'.bytes = Cache!b_stb_head.bytes
                  /\ Cache!b_stb_head'.data = Cache!b_stb_head.data
             /\ b_bus_op_owner # "stb" => b_request' = b_request
  <2>1. b_bus_op_owner \in {"request", "stb"}
    BY <1>5 DEF CInv, TypeOK, Cache!Owners, BusUse
  <2>2. BusNext # "none"
    BY <1>2, BusFree
  <2>3. CASE b_bus_op_owner = "request"
    <3>1. BusNext = "request"
      BY <1>5, <2>2, <2>3, BusFree DEF BusNext, RequestPassesBus
    <3>2. b_request_state = "uncached_store_bus_op"
      BY <1>5, <2>3 DEF CInv, Owned, BusUse, WantsBus, WritebackStates
    <3>3. ~Cache!b_request_complete
      BY <3>2, Completion
    <3> QED BY <2>3, <3>1, <3>3, BusOwnerStep, RequestKeepsBus, RequestStep
  <2>4. CASE b_bus_op_owner = "stb"
    <3>1. BusNext = "stb"
      BY <2>2, <2>4 DEF BusNext, StbPassesBus
    <3>2. b_stb_state = "write"
      BY <1>5, <2>4 DEF CInv, Owned, BusUse, ReplaceStates, WritebackStates, FillStates
    <3>3. ~Pops
      BY <2>4, <3>2 DEF Pops, CInv, Owned, ReplaceStates
    <3> QED BY <2>4, <3>1, <3>2, <3>3, BusOwnerStep, StbAndBus, HeadStays
  <2> QED BY <2>1, <2>3, <2>4
<1>6. CASE b_bus_op_state = "store"
  BY <1>1, <1>4, <1>5, <1>6 DEF CInv, OnBus, Carries
<1>7. CASE b_bus_op_state # "store"
  BY <1>1, <1>3, <1>4, <1>7 DEF CInv, OnBus, BusUse
<1> QED BY <1>6, <1>7

\* What is on the port after the bus has answered.
LEMMA OnBusDriven ==
  ASSUME CInv, NEW i, NEW victim, Cycled(i, victim), sys_ready
  PROVE  OnBus'
<1>1. /\ Cache!sys_master_out = NoRequest => port' = NoRequest
      /\ Cache!sys_master_out # NoRequest =>
           port' # NoRequest /\ port'.req = Cache!sys_master_out
  BY PortStep
<1>2. b_bus_op_state' \in {"none", "fill_last", "writeback_first"} <=>
        Cache!sys_master_out = NoRequest
  BY DrivenTyped
<1>3. b_bus_op_state' # "none" => b_bus_op_paddr' \in Addr
  BY AddressStep
<1>4. ASSUME b_bus_op_state' \in {"load", "fill_first", "fill"}
      PROVE  /\ port' # NoRequest /\ ~port'.req.write
             /\ port'.req.addr = b_bus_op_paddr'
             /\ port'.req.burst <=> b_bus_op_state' # "load" /\ b_bus_op_block_word' # BlockWords - 1
  <2>1. port'.req = [write |-> FALSE, burst |-> Cache!a_sys_burst, addr |-> b_bus_op_paddr']
    BY <1>1, <1>2, <1>4, Driven
  <2>2. Cache!a_sys_burst <=> b_bus_op_state' # "load" /\ b_bus_op_block_word' # BlockWords - 1
    BY <1>4 DEF Cache!a_sys_burst
  <2> QED BY <1>1, <1>2, <1>4, <2>1, <2>2
<1>5. ASSUME b_bus_op_state' = "store"
      PROVE  /\ port' # NoRequest /\ port'.req.write /\ ~port'.req.burst
             /\ IF b_bus_op_owner' = "stb" THEN Carries(port'.req, Cache!b_stb_head')
                ELSE Carries(port'.req, b_request')
  <2>1. Cache!b_bus_op_complete
    <3>1. ASSUME ~Cache!b_bus_op_complete PROVE FALSE
      <4>1. b_bus_op_state = "store"
        BY <1>5, <3>1, BusOpGoesOn
      <4> QED BY <3>1, <4>1, BusReady
    <3> QED BY <3>1
  <2>2. port'.req = [write |-> TRUE, burst |-> FALSE, addr |-> b_bus_op_paddr',
                     bytes |-> StoreSource.bytes, data |-> StoreSource.data]
    BY <1>1, <1>2, <1>5, Driven
  <2> QED BY <1>1, <1>2, <1>5, <2>1, <2>2, StoreBegins DEF Carries
<1>6. ASSUME b_bus_op_state' \in {"writeback", "writeback_last"}
      PROVE  /\ port' # NoRequest /\ port'.req.write
             /\ port'.req.burst <=> b_bus_op_state' = "writeback"
             /\ b_bus_op_paddr' = Cache!next_in_block(port'.req.addr)
  <2>1. ~Cache!b_bus_op_complete
    BY <1>6, FirstStates
  <2>2. b_bus_op_state \in {"writeback_first", "writeback"}
    BY <1>6, <2>1, BusOpGoesOn, BusReady
  <2>3. b_bus_op_paddr' = Cache!next_in_block(b_bus_op_paddr)
    BY <2>1, <2>2, BusOpGoesOn
  <2>4. /\ port'.req.write /\ port'.req.addr = b_bus_op_paddr
        /\ port'.req.burst = Cache!a_sys_burst
    BY <1>1, <1>2, <1>6, Driven
  <2>5. Cache!a_sys_burst <=> b_bus_op_state' = "writeback"
    BY <1>6 DEF Cache!a_sys_burst
  <2> QED BY <1>1, <1>2, <1>6, <2>3, <2>4, <2>5
<1> QED BY <1>1, <1>2, <1>3, <1>4, <1>5, <1>6 DEF OnBus

\* The registers, the RAMs, the port and the history keep their types.
LEMMA RamsTyped ==
  ASSUME CInv, NEW i, NEW victim, Cycled(i, victim)
  PROVE  /\ vram' \in [Indexes -> SUBSET Ways]
         /\ mram' \in [Indexes -> SUBSET Ways]
         /\ tram' \in [Indexes -> [Ways -> Tags]]
         /\ dram' \in [Ways -> Cache!Data]
<1>1. Cache!Rams
  BY DEF Cycled, Cache!Clock
<1>2. /\ vram \in [Indexes -> SUBSET Ways] /\ mram \in [Indexes -> SUBSET Ways]
      /\ tram \in [Indexes -> [Ways -> Tags]] /\ dram \in [Ways -> Cache!Data]
      /\ b_bus_op_way \subseteq Ways /\ b_stb_way \subseteq Ways
  BY DEF CInv, TypeOK
<1>3. vram' \in [Indexes -> SUBSET Ways]
  <2>1. CASE Cache!b_vram_we
    <3>1. PICK wdata \in Cache!b_vram_wdata :
            vram' = [vram EXCEPT ![Cache!b_vtram_index] = wdata]
      BY <1>1, <2>1 DEF Cache!Rams
    <3>2. b_vtram_owner # "none" /\ Cache!b_vram_rdata \subseteq Ways
      BY <2>1, LookedUpTyped DEF Cache!b_vram_we
    <3>3. /\ b_vtram_owner = "request" => Cache!b_vram_wdata = {{}}
          /\ b_vtram_owner = "bus_op" /\ b_bus_op_state = "fill_last" =>
               Cache!b_vram_wdata = {Cache!b_vram_rdata \cup b_bus_op_way}
          /\ b_vtram_owner = "bus_op" /\ b_bus_op_state = "fill_first" =>
               Cache!b_vram_wdata = {Cache!b_vram_rdata \ b_bus_op_way,
                                     Cache!b_vram_rdata \cup b_bus_op_way}
      <4>1. b_vtram_owner = "request" => Cache!b_vram_wdata = {{}}
        BY Zenon DEF Cache!b_vram_wdata
      <4>2. b_vtram_owner = "bus_op" /\ b_bus_op_state = "fill_last" =>
              Cache!b_vram_wdata = {Cache!b_vram_rdata \cup b_bus_op_way}
        BY Zenon DEF Cache!b_vram_wdata
      <4>3. b_vtram_owner = "bus_op" /\ b_bus_op_state = "fill_first" =>
              Cache!b_vram_wdata = {Cache!b_vram_rdata \ b_bus_op_way,
                                    Cache!b_vram_rdata \cup b_bus_op_way}
        BY Zenon DEF Cache!b_vram_wdata
      <4> QED BY <4>1, <4>2, <4>3
    <3>4. \/ b_vtram_owner = "request"
          \/ b_vtram_owner = "bus_op" /\ b_bus_op_state \in {"fill_first", "fill_last"}
      BY <2>1 DEF Cache!b_vram_we
    <3>5. wdata \subseteq Ways
      BY <1>2, <3>2, <3>3, <3>4
    <3> QED BY <1>2, <3>1, <3>5
  <2>2. CASE ~Cache!b_vram_we
    BY <1>1, <1>2, <2>2 DEF Cache!Rams
  <2> QED BY <2>1, <2>2
<1>4. mram' \in [Indexes -> SUBSET Ways]
  <2>1. mram' = IF Cache!b_mram_we
                THEN [mram EXCEPT ![Cache!b_rmdram_index] = Cache!b_mram_wdata] ELSE mram
    BY <1>1 DEF Cache!Rams
  <2>2. Cache!b_mram_we => Cache!b_mram_wdata \subseteq Ways
    BY <1>2, LookedUpTyped DEF Cache!b_mram_we, Cache!b_mram_wdata
  <2> QED BY <1>2, <2>1, <2>2
<1>5. tram' \in [Indexes -> [Ways -> Tags]]
  <2>1. CASE Cache!a_tram_we
    <3>1. b_bus_op_paddr.index \in Indexes /\ b_bus_op_paddr.tag \in Tags
      BY <2>1, FillEnds DEF Cache!a_tram_we, Addr, Cache!Addr
    <3>2. tram' = [tram EXCEPT ![b_bus_op_paddr.index] =
                     [w \in Ways |-> IF w \in b_bus_op_way' THEN b_bus_op_paddr.tag
                                     ELSE tram[b_bus_op_paddr.index][w]]]
      BY <1>1, <1>2, <2>1, <3>1 DEF Cache!Rams
    <3>3. [w \in Ways |-> IF w \in b_bus_op_way' THEN b_bus_op_paddr.tag
                          ELSE tram[b_bus_op_paddr.index][w]] \in [Ways -> Tags]
      BY <1>2, <3>1
    <3> QED BY <1>2, <3>2, <3>3
  <2>2. CASE ~Cache!a_tram_we
    BY <1>1, <1>2, <2>2 DEF Cache!Rams
  <2> QED BY <2>1, <2>2
<1>6. dram' \in [Ways -> Cache!Data]
  <2>1. dram' = CASE Cache!a_dram_fill ->
                       [w \in Ways |-> IF w \in b_bus_op_way' THEN sys_data ELSE dram[w]]
                  [] Cache!a_dram_store ->
                       [w \in Ways |-> IF w \in b_stb_way' THEN Cache!a_stb_head.data
                                                           ELSE dram[w]]
                  [] OTHER -> dram
    BY <1>1, Zenon DEF Cache!Rams
  <2>2. sys_data \in Cache!Data
    BY DEF sys_data, Answered, CInv, TypeOK, Ports, Cache!Data
  <2>3. Cache!a_dram_store => Cache!a_stb_head.data \in Cache!Data
    <3>1. Cache!a_dram_store => Cache!b_stb_head' \in StbEntry
      <4>1. Cache!a_dram_store => b_stb_state' = "write"
        BY DEF Cache!a_dram_store
      <4>2. Cache!b_stb_head' \in StbEntry \cup {NoEntry}
        BY Pointers, SlotTyped DEF Cache!b_stb_head
      <4> QED BY <4>1, <4>2, HeadKnownKept DEF HeadKnown
    <3>2. Cache!b_stb_head' = Cache!a_stb_head
      BY DEF Cache!b_stb_head, Cache!a_stb_head
    <3> QED BY <3>1, <3>2 DEF StbEntry
  <2>4. [w \in Ways |-> IF w \in b_bus_op_way' THEN sys_data ELSE dram[w]] \in [Ways -> Cache!Data]
    BY <1>2, <2>2
  <2>5. Cache!a_dram_store =>
          [w \in Ways |-> IF w \in b_stb_way' THEN Cache!a_stb_head.data ELSE dram[w]]
            \in [Ways -> Cache!Data]
    BY <1>2, <2>3
  <2> QED BY <1>2, <2>1, <2>4, <2>5, Zenon
<1> QED BY <1>3, <1>4, <1>5, <1>6

\* How far slot n is from slot h, going round.
Turn(n, h) == IF n >= h THEN n - h ELSE n - h + StbEntries
\* It is what the remainder gives.
LEMMA TurnIsAge ==
  ASSUME NEW n \in Cache!Slots, NEW h \in Cache!Slots
  PROVE  (n - h) % StbEntries = Turn(n, h)
BY GoingRound, SizeAssumption DEF Turn, Cache!Slots

\* The valid slots are those from head to tail.
LEMMA RingOrderKept ==
  ASSUME CInv, NEW i, NEW victim, Cycled(i, victim)
  PROVE  RingOrder'
<1> DEFINE Valid(n) == b_stb_array[n] # NoEntry
           h == b_stb_head_ptr
           t == b_stb_tail_ptr
           push == Cache!b_stb_push
<1>1. /\ h \in Cache!Slots /\ t \in Cache!Slots
      /\ h' \in Cache!Slots /\ t' \in Cache!Slots
      /\ h' = IF Pops THEN Cache!next_slot(h) ELSE h
      /\ t' = IF push THEN Cache!next_slot(t) ELSE t
  BY Pointers
<1>2. /\ Cache!next_slot(h) = IF h = StbEntries - 1 THEN 0 ELSE h + 1
      /\ Cache!next_slot(t) = IF t = StbEntries - 1 THEN 0 ELSE t + 1
  BY <1>1, NextSlot
<1>3. /\ StbEntries \in Nat /\ StbEntries >= 1 /\ Cache!Slots = 0 .. StbEntries - 1
  BY SizeAssumption DEF Cache!Slots
\* The slots before the cycle.
<1>4. \A n \in Cache!Slots :
        Valid(n) <=> \/ Turn(n, h) < Turn(t, h)
                     \/ t = h /\ \E m \in Cache!Slots : Valid(m)
  <2>1. \A n \in Cache!Slots : Age(n) = Turn(n, h)
    BY <1>1, TurnIsAge DEF Age
  <2>2. (t - h) % StbEntries = Turn(t, h)
    BY <1>1, TurnIsAge
  <2> QED BY <2>1, <2>2 DEF CInv, RingOrder, Cache!b_stb_valid, Cache!b_stb_empty
\* The slots after it.
<1>5. \A n \in Cache!Slots :
        Valid(n)' <=> (push /\ n = t) \/ (Valid(n) /\ ~(Pops /\ n = h))
  <2> SUFFICES ASSUME NEW n \in Cache!Slots
               PROVE  Valid(n)' <=> (push /\ n = t) \/ (Valid(n) /\ ~(Pops /\ n = h))
    OBVIOUS
  <2>1. b_stb_array[n] \in StbEntry \cup {NoEntry}
    BY DEF CInv, TypeOK
  <2> QED BY <2>1, SlotStep, PushEntry, EntryNext, NothingAssumption
<1>6. push /\ Valid(t) => Pops /\ t = h
  BY PushBehind
<1>7. Pops => Valid(h)
  BY DEF Pops, CInv, HeadKnown, Cache!b_stb_head
<1>8. \A n \in Cache!Slots :
        Valid(n)' <=> \/ Turn(n, h') < Turn(t', h')
                      \/ t' = h' /\ \E m \in Cache!Slots : Valid(m)'
  <2> HIDE DEF Valid, push, h, t
  <2>1. CASE ~push /\ ~Pops
    BY <1>1, <1>4, <1>5, <2>1
  <2>2. CASE push /\ ~Pops
    <3>1. ~Valid(t) /\ h' = h
      BY <1>1, <1>6, <2>2
    <3>2. \E m \in Cache!Slots : Valid(m)'
      BY <1>1, <1>5, <2>2
    <3> QED BY <1>1, <1>2, <1>3, <1>4, <1>5, <2>2, <3>1, <3>2 DEF Turn
  <2>3. CASE ~push /\ Pops
    <3>1. t' = t /\ Valid(h)
      BY <1>1, <1>7, <2>3
    <3>2. t' = h' => ~\E m \in Cache!Slots : Valid(m)'
      BY <1>1, <1>2, <1>3, <1>4, <1>5, <2>3, <3>1 DEF Turn
    <3> QED BY <1>1, <1>2, <1>3, <1>4, <1>5, <2>3, <3>1, <3>2 DEF Turn
  <2>4. CASE push /\ Pops
    <3>1. Valid(h)
      BY <1>7, <2>4
    <3>2. \E m \in Cache!Slots : Valid(m)'
      BY <1>1, <1>5, <2>4
    <3> QED BY <1>1, <1>2, <1>3, <1>4, <1>5, <1>6, <2>4, <3>1, <3>2 DEF Turn
  <2> QED BY <2>1, <2>2, <2>3, <2>4
<1>9. Cache!b_stb_valid' =
        {n \in Cache!Slots :
           \/ Age(n) < (b_stb_tail_ptr - b_stb_head_ptr) % StbEntries
           \/ b_stb_tail_ptr = b_stb_head_ptr /\ ~Cache!b_stb_empty}'
  <2>1. \A n \in Cache!Slots : Age(n)' = Turn(n, h')
    BY <1>1, TurnIsAge DEF Age
  <2>2. (t' - h') % StbEntries = Turn(t', h')
    BY <1>1, TurnIsAge
  <2> QED BY <1>8, <2>1, <2>2 DEF Cache!b_stb_valid, Cache!b_stb_empty
<1>10. b_stb_state' # "init" => Cache!b_stb_head' # NoEntry
  BY HeadKnownKept DEF HeadKnown
<1> QED BY <1>9, <1>10 DEF RingOrder

\* The history of what the pipe asks.
LEMMA HistoryTyped ==
  ASSUME CInv, NEW i, NEW victim, Cycled(i, victim)
  PROVE  /\ expected' \in Cache!Data
         /\ used' \in [Indexes -> {"unknown", "invalidated", "used"}]
<1>1. /\ expected \in Cache!Data
      /\ used \in [Indexes -> {"unknown", "invalidated", "used"}]
  BY DEF CInv, TypeOK
<1>2. CASE Cache!b_request_complete
  <2>1. History(i)
    BY <1>2 DEF Cycled, Input
  <2>2. i.code = "store" => i.data \in Cache!Data
    BY RequestStep, RequestFields
  <2>3. memory' \in Cache!Data
    BY PortStep
  <2>4. expected' \in Cache!Data
    BY <1>1, <2>1, <2>2, <2>3 DEF History, WatchedStored
  <2>5. used' = [x \in Indexes |->
                   IF i.code \in {"load", "store"} /\ i.cacheen /\ x = i.addr.index
                   THEN "used"
                   ELSE IF Invalidated /\ x = b_request.addr.index THEN "invalidated"
                   ELSE used[x]]
    BY <2>1, Zenon DEF History
  <2>6. used' \in [Indexes -> {"unknown", "invalidated", "used"}]
    BY <1>1, <2>5
  <2> QED BY <2>4, <2>6
<1>3. CASE ~Cache!b_request_complete
  BY <1>1, <1>3 DEF Cycled, Input
<1> QED BY <1>2, <1>3

\* The registers, the RAMs, the port and the history keep their types.
LEMMA TypeOKKept ==
  ASSUME CInv, NEW i, NEW victim, Cycled(i, victim)
  PROVE  TypeOK'
<1>1. watched' = watched /\ system' = system
  BY DEF Cycled, Cache!Clock
<1>2. b_vtram_owner' \in Cache!Owners /\ b_rmdram_owner' \in Cache!Owners
  BY RamOwnersStep DEF Cache!Owners
<1>3. b_bus_op_owner' \in Cache!Owners
  BY BusOwnerStep DEF Cache!Owners
<1>4. b_request' \in Accepted
  BY RequestStep
<1>5. b_request_state' \in Cache!RequestStates
  <2>1. i \in Accepted
    BY RequestStep
  <2>2. CASE Cache!b_request_complete
    BY <2>1, <2>2, RequestStates, RequestFields DEF Cache!RequestStates
  <2>3. CASE ~Cache!b_request_complete
    BY <2>3, RequestStates DEF CInv, TypeOK, Cache!RequestStates
  <2> QED BY <2>2, <2>3
<1>6. b_request_granted' \in BOOLEAN /\ b_bus_op_granted' \in BOOLEAN
  BY RequestMoves, BusOpGranted
<1>7. b_bus_op_requested' \in BOOLEAN
  <2>1. b_bus_op_requested' =
          ((b_bus_op_requested /\ ~Cache!b_bus_op_complete) \/ sys_ready)
    BY DEF Cycled, Cache!Clock, Cache!BusOp
  <2> QED BY <2>1
<1>8. /\ b_stb_state' \in Cache!StbStates
      /\ b_stb_write_cache' \in BOOLEAN /\ b_stb_write_bus' \in BOOLEAN
  <2>1. CASE StbStarts
    <3>1. b_stb_write_cache' = (Cache!a_stb_head.cache_hit \/ Cache!a_stb_head.alloc)
          /\ b_stb_write_bus' = (\/ Cache!a_stb_head.writethrough
                                 \/ ~Cache!a_stb_head.alloc /\ ~Cache!a_stb_head.cache_hit)
      BY <2>1 DEF StbStarts
    <3>2. b_stb_state' \in {"replace_access", "write"}
      BY <2>1 DEF StbStarts
    <3> QED BY <3>1, <3>2 DEF Cache!StbStates
  <2>2. CASE StbGoesOn(victim)
    <3>1. b_stb_write_cache' = (b_stb_state \in ReplaceStates /\ b_stb_write_cache)
          /\ b_stb_write_bus' = b_stb_write_bus
      BY <2>2 DEF StbGoesOn
    <3>2. b_stb_state' \in Cache!StbStates
      BY <2>2 DEF StbGoesOn, Cache!StbStates
    <3> QED BY <3>1, <3>2 DEF CInv, TypeOK
  <2> QED BY <2>1, <2>2, StbMoves
<1>9. /\ b_bus_op_state' \in Cache!BusOpStates
      /\ b_bus_op_way' \subseteq Ways
      /\ b_bus_op_block_word' \in Cache!Offsets
  <2>1. CASE Cache!b_bus_op_complete
    <3>1. b_bus_op_state' \in Cache!BusOpStates
      BY <2>1, FirstStates DEF Cache!BusOpStates
    <3>2. b_bus_op_way' \subseteq Ways
      BY <2>1, BusOpBegins, WaysStep
    <3>3. b_bus_op_block_word' \in Cache!Offsets
      BY <2>1, BusOpBegins, SizeAssumption DEF Cache!Offsets
    <3> QED BY <3>1, <3>2, <3>3
  <2>2. CASE ~Cache!b_bus_op_complete
    <3>1. b_bus_op_state' \in Cache!BusOpStates /\ b_bus_op_way' \subseteq Ways
      BY <2>2, BusOpGoesOn DEF CInv, TypeOK, Cache!BusOpStates
    <3>2. b_bus_op_block_word' \in Cache!Offsets
      <4>1. b_bus_op_block_word \in 0 .. BlockWords - 1
        BY DEF CInv, TypeOK, Cache!Offsets
      <4>2. \/ b_bus_op_block_word' = b_bus_op_block_word
            \/ b_bus_op_block_word' =
                 IF b_bus_op_block_word = BlockWords - 1 THEN 0 ELSE b_bus_op_block_word + 1
        BY <2>2, BusOpGoesOn
      <4> QED BY <4>1, <4>2, SizeAssumption DEF Cache!Offsets
    <3> QED BY <3>1, <3>2
  <2> QED BY <2>1, <2>2
<1>10. b_stb_array' \in [Cache!Slots -> StbEntry \cup {NoEntry}]
  <2>1. b_stb_array' = [n \in Cache!Slots |-> b_stb_array'[n]]
    BY Zenon DEF Cycled, Cache!Clock, Cache!StoreBuffer, Cache!b_stb_array_next
  <2> QED BY <2>1, SlotTyped
<1>11. listed' \in Indexes \cup {NoRequest}
  <2>1. b_rmdram_owner' \in {"none", "request", "stb", "bus_op"}
    BY <1>2 DEF Cache!Owners
  <2>2. b_rmdram_owner' = "request" => b_request'.addr \in Addr
    <3>1. b_rmdram_owner' = "request" => b_request'.code # "none"
      BY OwnedKept, RequestKnownKept DEF Owned, RequestKnown, WantsRmdram, WantsVtram
    <3> QED BY <1>4, <3>1, RequestFields
  <2>3. b_stb_state' = "replace_access" => Cache!a_stb_head.addr \in Addr
    <3>1. b_stb_state' = "replace_access" => Cache!a_stb_head \in StbEntry
      BY Pointers, SlotTyped, StbMoves DEF StbStarts, StbGoesOn, Cache!a_stb_head
    <3> QED BY <3>1 DEF StbEntry
  <2>4. b_bus_op_state' = "fill_last" => b_bus_op_paddr \in Addr
    BY FillEnds
  <2>5. \A a \in Addr : a.index \in Indexes
    BY DEF Addr, Cache!Addr
  <2> QED BY <2>1, <2>2, <2>3, <2>4, <2>5, ListRead
<1>12. /\ watched \in [addr : Addr, byte : Cache!Bytes] /\ system \in Systems
  BY DEF CInv, TypeOK
<1> QED BY <1>1, <1>2, <1>3, <1>4, <1>5, <1>6, <1>7, <1>8, <1>9, <1>10, <1>11, <1>12,
           WaysStep, AddressStep, Pointers, RamsTyped, PortStep, HistoryTyped DEF TypeOK

-----------------------------------------------------------------------------
(***************************************************************************)
(* The invariant.                                                          *)
(***************************************************************************)
\* Out of reset the invariant holds.
LEMMA InitControl == Init => CInv
<1> SUFFICES ASSUME Init PROVE CInv
  OBVIOUS
<1>1. Cache!Init /\ port = NoRequest /\ system \in Systems /\ memory \in Values
  BY DEF Init
<1>2. 0 \in Cache!Slots /\ 0 \in Cache!Offsets
  BY SizeAssumption DEF Cache!Slots, Cache!Offsets
<1>3. TypeOK
  <2>1. dram \in [Ways -> Cache!Data]
    BY <1>1 DEF Cache!Init, Cache!Data
  <2>2. b_stb_array \in [Cache!Slots -> StbEntry \cup {NoEntry}]
    BY <1>1 DEF Cache!Init
  <2>3. b_request \in Accepted
    BY <1>1 DEF Cache!Init, Accepted
  <2>4. watched \in [addr : Addr, byte : Cache!Bytes]
    BY <1>1, Zenon DEF Cache!Init, Addr
  <2>5. /\ memory \in Cache!Data /\ expected \in Cache!Data
        /\ used \in [Indexes -> {"unknown", "invalidated", "used"}]
        /\ listed = NoRequest
    BY DEF Init, Cache!Data
  <2>6. /\ {b_request_granted, b_bus_op_granted, b_bus_op_requested,
            b_stb_write_cache, b_stb_write_bus} \subseteq BOOLEAN
        /\ b_request_way \subseteq Ways /\ b_bus_op_way \subseteq Ways /\ b_stb_way \subseteq Ways
    BY <1>1 DEF Cache!Init
  <2> QED BY <1>1, <1>2, <2>1, <2>2, <2>3, <2>4, <2>5, <2>6
          DEF TypeOK, Cache!Init, Cache!Owners, Cache!RequestStates, Cache!BusOpStates,
              Cache!StbStates
<1>4. RequestKnown
  BY <1>1 DEF RequestKnown, Cache!Init, WantsBus
<1>5. Owned
  BY <1>1 DEF Owned, Cache!Init, ReplaceStates, FillStates, WritebackStates
<1>6. BusUse
  BY <1>1 DEF BusUse, Cache!Init
<1>7. RequestWaits /\ HeadKnown /\ Room
  BY <1>1 DEF RequestWaits, HeadKnown, Room, Cache!Init, ReplaceStates
<1>8. RingOrder
  <2>1. b_stb_array = [n \in Cache!Slots |-> NoEntry] /\ b_stb_head_ptr = 0 /\ b_stb_tail_ptr = 0
        /\ b_stb_state = "init"
    BY <1>1 DEF Cache!Init
  <2>2. Cache!b_stb_valid = {} /\ Cache!b_stb_empty
    BY <2>1 DEF Cache!b_stb_valid, Cache!b_stb_empty
  <2>3. \A n \in Cache!Slots : ~(Age(n) < (b_stb_tail_ptr - b_stb_head_ptr) % StbEntries)
    <3> SUFFICES ASSUME NEW n \in Cache!Slots
                 PROVE  ~(Age(n) < (b_stb_tail_ptr - b_stb_head_ptr) % StbEntries)
      OBVIOUS
    <3>1. Age(n) = Turn(n, 0) /\ (b_stb_tail_ptr - b_stb_head_ptr) % StbEntries = Turn(0, 0)
      BY <1>2, <2>1, TurnIsAge DEF Age
    <3> QED BY <3>1 DEF Turn, Cache!Slots
  <2> QED BY <2>1, <2>2, <2>3 DEF RingOrder
<1>9. OnBus /\ Listed
  BY <1>1 DEF OnBus, Listed, Cache!Init
<1> QED BY <1>3, <1>4, <1>5, <1>6, <1>7, <1>8, <1>9 DEF CInv

\* A step of the system is a cycle, for some request and some victim.
LEMMA StepIsCycle ==
  ASSUME Next
  PROVE  \E i, victim : Cycled(i, victim)
<1>1. CASE Cache!b_request_complete
  <2>1. PICK i \in PipeRequests : b_request' = i /\ Cycle(i) /\ History(i)
    BY <1>1 DEF Next, Accept
  <2>2. PICK victim \in Victims : Cache!Clock(i, victim)
    BY <2>1 DEF Cycle
  <2>3. Cycled(i, victim)
    BY <1>1, <2>1, <2>2 DEF Cycled, Cycle, Input
  <2> QED BY <2>3
<1>2. CASE ~Cache!b_request_complete
  <2>1. Cycle(b_request) /\ UNCHANGED <<expected, used>>
    BY <1>2 DEF Next, Continue
  <2>2. PICK victim \in Victims : Cache!Clock(b_request, victim)
    BY <2>1 DEF Cycle
  <2>3. Cycled(b_request, victim)
    BY <1>2, <2>1, <2>2 DEF Cycled, Cycle, Input
  <2> QED BY <2>3
<1> QED BY <1>1, <1>2

\* A step keeps the invariant.
LEMMA StepControl ==
  ASSUME CInv, [Next]_vars
  PROVE  CInv'
<1>1. CASE Next
  <2>1. PICK i, victim : Cycled(i, victim)
    BY <1>1, StepIsCycle
  <2>2. OnBus'
    BY <2>1, OnBusHeld, OnBusDriven
  <2> QED BY <2>1, <2>2, TypeOKKept, RequestKnownKept, OwnedKept, BusUseKept, RequestWaitsKept,
             HeadKnownKept, RoomKept, RingOrderKept, ListedKept DEF CInv
<1>2. CASE UNCHANGED vars
  <2>1. UNCHANGED cache_vars /\ UNCHANGED <<memory, port, system, expected, used, listed>>
    BY <1>2 DEF vars
  <2>2. TypeOK'
    BY <2>1 DEF CInv, TypeOK, cache_vars
  <2>3. RequestKnown' /\ Owned' /\ BusUse' /\ RequestWaits'
    BY <2>1 DEF CInv, RequestKnown, Owned, BusUse, RequestWaits, cache_vars
  <2>4. HeadKnown'
    BY <2>1 DEF CInv, HeadKnown, cache_vars, Cache!b_stb_head
  <2>5. Room'
    BY <2>1 DEF CInv, Room, cache_vars, Cache!b_stb_full, Cache!b_stb_valid
  <2>6. RingOrder'
    BY <2>1 DEF CInv, RingOrder, Age, cache_vars, Cache!b_stb_head, Cache!b_stb_valid,
                Cache!b_stb_empty
  <2>7. OnBus'
    BY <2>1 DEF CInv, OnBus, Carries, cache_vars, Cache!b_stb_head
  <2>8. Listed'
    BY <2>1 DEF CInv, Listed, cache_vars
  <2> QED BY <2>2, <2>3, <2>4, <2>5, <2>6, <2>7, <2>8 DEF CInv
<1> QED BY <1>1, <1>2

\* The control of the data cache, its store buffer, its bus operations and the
\* port of the bus stay in agreement, whatever the pipe and the bus do.
THEOREM Inductive == Spec => []CInv
<1>1. Init => CInv
  BY InitControl
<1>2. CInv /\ [Next]_vars => CInv'
  BY StepControl
<1> QED BY <1>1, <1>2, PTL DEF Spec

-----------------------------------------------------------------------------
(***************************************************************************)
(* What follows.                                                           *)
(***************************************************************************)
\* The registers and RAMs hold only what they are for, whatever the sizes.
THEOREM TypeCorrect == Spec => []TypeOK
<1>1. CInv => TypeOK
  BY DEF CInv
<1> QED BY <1>1, Inductive, PTL

\* The valid slots of the store buffer are those from head to tail, and the
\* store buffer works on one of them.
THEOREM RingIsOrdered == Spec => []RingOrder
<1>1. CInv => RingOrder
  BY DEF CInv
<1> QED BY <1>1, Inductive, PTL

\* The owners of the RAMs and of the bus are those who use them.
THEOREM OwnershipHolds == Spec => []Ownership
<1>1. CInv => Ownership
  <2> SUFFICES ASSUME CInv PROVE Ownership
    OBVIOUS
  <2>1. b_bus_op_owner = "none" <=>
          b_bus_op_state = "none" /\ b_stb_state # "replace_access"
    BY DEF CInv, TypeOK, Cache!Owners, Cache!BusOpStates, Owned, BusUse, ReplaceStates,
       FillStates, WritebackStates, WantsBus
  <2>2. b_bus_op_state \in FillStates => b_bus_op_granted /\ b_vtram_owner = "bus_op"
    <3>1. b_bus_op_state \in FillStates => b_vtram_owner = "bus_op"
      BY DEF CInv, Owned
    <3>2. b_bus_op_state \in FillStates => b_bus_op_granted
      BY DEF CInv, BusUse, FillStates
    <3> QED BY <3>1, <3>2
  <2>3. b_bus_op_state \notin {"none", "load", "store"} => b_rmdram_owner = "bus_op"
    BY DEF CInv, TypeOK, Cache!BusOpStates, Owned, FillStates, WritebackStates
  <2>4. b_bus_op_state # "none" => b_bus_op_requested
    BY DEF CInv, BusUse
  <2>5. b_request_state = "cached_load_writeback" /\ ~b_request_granted => b_vtram_owner = "none"
    <3>1. b_request_state = "cached_load_writeback" /\ ~b_request_granted =>
            b_stb_state = "write" /\ b_bus_op_state = "store"
      BY PopsIsPop DEF CInv, RequestWaits
    <3> QED BY <3>1 DEF CInv, TypeOK, Cache!Owners, Owned, FillStates, WritebackStates
  <2> QED BY <2>1, <2>2, <2>3, <2>4, <2>5 DEF Ownership, FillStates
<1> QED BY <1>1, Inductive, PTL

\* A store that is let through to the store buffer finds room there.
THEOREM QuickStoreHolds == Spec => []QuickStore
<1>1. CInv => QuickStore
  BY PopsIsPop DEF CInv, Room, Pops, QuickStore, Cache!b_stb_can_push
<1> QED BY <1>1, Inductive, PTL

\* A buffered store that has to go to memory leaves when the bus answers it.
THEOREM StoresReachMemory == Spec => []StoreReachesMemory
<1>1. CInv => StoreReachesMemory
  <2> SUFFICES ASSUME CInv, Cache!b_stb_pop, b_stb_write_bus
               PROVE  /\ Answered
                      /\ port.req.write
                      /\ Carries(port.req, Cache!b_stb_head)
    BY DEF StoreReachesMemory, Carries
  <2>1. b_bus_op_owner = "stb" /\ b_bus_op_state = "store" /\ sys_ready
    BY PopsIsPop DEF Pops
  <2> QED BY <2>1 DEF CInv, OnBus, Answered, sys_ready
<1> QED BY <1>1, Inductive, PTL

\* When the bus has answered a beat of a burst but the last, the next beat is
\* driven.
LEMMA BurstGoesOn ==
  ASSUME CInv, NEW i, NEW victim, Cycled(i, victim)
  PROVE  BurstStep
<1> SUFFICES ASSUME Answered, port.req.burst
             PROVE  /\ port' # NoRequest
                    /\ port'.req.write = port.req.write
                    /\ port'.req.addr = Cache!next_in_block(port.req.addr)
  BY DEF BurstStep
<1>1. sys_ready /\ port # NoRequest
  BY DEF Answered, sys_ready
<1>2. \/ /\ b_bus_op_state \in {"fill_first", "fill"}
         /\ b_bus_op_block_word # BlockWords - 1
      \/ b_bus_op_state = "writeback"
  BY <1>1 DEF CInv, TypeOK, Cache!BusOpStates, OnBus
<1>3. ~Cache!b_bus_op_complete
  BY <1>2, BusReady
<1>4. CASE b_bus_op_state \in {"fill_first", "fill"} /\ b_bus_op_block_word # BlockWords - 1
  <2>1. b_bus_op_state' = "fill"
    BY <1>3, <1>4, BusOpGoesOn DEF LastWord
  <2>2. b_bus_op_paddr' = Cache!next_in_block(b_bus_op_paddr)
    BY <1>1, <1>3, <1>4, BusOpGoesOn
  <2>3. Cache!sys_master_out # NoRequest
    BY <1>1, <2>1, DrivenTyped
  <2>4. ~Cache!sys_master_out.write /\ Cache!sys_master_out.addr = b_bus_op_paddr'
    BY <2>1, Driven
  <2>5. port' # NoRequest /\ port'.req = Cache!sys_master_out
    BY <1>1, <2>3, PortStep
  <2>6. port.req.write = FALSE /\ port.req.addr = b_bus_op_paddr
    BY <1>1, <1>4 DEF CInv, OnBus, TypeOK, Ports, BusRequest
  <2>7. Cache!sys_master_out.write = FALSE
    BY <2>1, Driven
  <2> QED BY <2>2, <2>4, <2>5, <2>6, <2>7
<1>5. CASE b_bus_op_state = "writeback"
  <2>1. b_bus_op_state' \in {"writeback", "writeback_last"}
    BY <1>3, <1>5, BusOpGoesOn
  <2>2. Cache!sys_master_out # NoRequest
    BY <1>1, <2>1, DrivenTyped
  <2>3. Cache!sys_master_out.write = TRUE /\ Cache!sys_master_out.addr = b_bus_op_paddr
    BY <2>1, Driven
  <2>4. port' # NoRequest /\ port'.req = Cache!sys_master_out
    BY <1>1, <2>2, PortStep
  <2>5. port.req.write = TRUE /\ b_bus_op_paddr = Cache!next_in_block(port.req.addr)
    BY <1>1, <1>5 DEF CInv, OnBus, TypeOK, Ports, BusRequest
  <2> QED BY <2>3, <2>4, <2>5
<1> QED BY <1>2, <1>4, <1>5

\* In the cycle that completes a beat of a burst but the last, the cache drives
\* the next beat.
THEOREM BurstsGoOn == Spec => BurstRule
<1>1. CInv /\ [Next]_vars => [BurstStep]_vars
  BY BurstGoesOn, StepIsCycle
<1> QED BY <1>1, Inductive, PTL DEF Spec, BurstRule

-----------------------------------------------------------------------------
(***************************************************************************)
(* The valid bits and tags of the data cache: no block is in two ways, the *)
(* entries of the store buffer know the lines they are for, and what is    *)
(* filled is not there yet.  The invariant TInv is inductive together with *)
(* the invariant CInv of the control.                                      *)
(***************************************************************************)
(***************************************************************************)
(* What a cycle does to the valid bits, to the tags and to the history.    *)
(***************************************************************************)
\* The way of set x into which a block is filled.
Given(x) ==
  IF b_bus_op_state \in FillStates /\ b_bus_op_paddr.index = x THEN b_bus_op_way ELSE {}
Invalidating == b_request_state = "invalidate_l1_access" /\ b_request_granted

\* The set that is invalidated loses its lines, a fill takes its way and gives
\* it back; nothing else changes the valid bits.
LEMMA VramStep ==
  ASSUME CInv, NEW i, NEW victim, Cycled(i, victim), NEW x \in Indexes
  PROVE  /\ Invalidating =>
              /\ b_bus_op_state \notin FillStates
              /\ vram'[x] = IF x = b_request.addr.index THEN {} ELSE vram[x]
         /\ b_bus_op_state = "fill_last" => vram'[x] = vram[x] \cup Given(x)
         /\ b_bus_op_state = "fill_first" => vram'[x] \ Given(x) = vram[x] \ Given(x)
         /\ ~Invalidating /\ b_bus_op_state \notin {"fill_first", "fill_last"} =>
              vram'[x] = vram[x]
<1>1. /\ vram \in [Indexes -> SUBSET Ways]
      /\ b_bus_op_state # "none" => b_bus_op_paddr \in Addr
  BY DEF CInv, TypeOK, OnBus
<1>2. IF Cache!b_vram_we
      THEN \E wdata \in Cache!b_vram_wdata : vram' = [vram EXCEPT ![Cache!b_vtram_index] = wdata]
      ELSE vram' = vram
  BY DEF Cycled, Cache!Clock, Cache!Rams
<1>3. Invalidating => b_vtram_owner = "request"
  BY DEF Invalidating, CInv, Owned, WantsVtram
<1>4. b_bus_op_state \in FillStates => b_vtram_owner = "bus_op"
  BY DEF CInv, Owned
<1>5. b_vtram_owner = "request" /\ b_request_state = "invalidate_l1_access" => Invalidating
  BY DEF Invalidating, CInv, Owned
<1>6. Cache!b_bus_op_error = FALSE
  BY BusReady
<1>7. ASSUME Invalidating
      PROVE  /\ b_bus_op_state \notin FillStates
             /\ vram'[x] = IF x = b_request.addr.index THEN {} ELSE vram[x]
  <2>1. Cache!b_vram_we
    BY <1>3, <1>6, <1>7 DEF Cache!b_vram_we, Invalidating
  <2>2. Cache!b_vram_wdata = {{}}
    BY <1>3, <1>7, Zenon DEF Cache!b_vram_wdata
  <2>3. Cache!b_vtram_index = b_request.addr.index
    BY <1>3, <1>7, LookedUp
  <2>4. b_bus_op_state \notin FillStates
    BY <1>3, <1>4, <1>7
  <2> QED BY <1>1, <1>2, <2>1, <2>2, <2>3, <2>4
<1>8. ASSUME b_bus_op_state = "fill_last" PROVE vram'[x] = vram[x] \cup Given(x)
  <2>1. b_vtram_owner = "bus_op" /\ Cache!b_vtram_index = b_bus_op_paddr.index
    BY <1>4, <1>8, LookedUp DEF FillStates
  <2>2. Cache!b_vram_we
    BY <1>6, <1>8, <2>1 DEF Cache!b_vram_we
  <2>3. Cache!b_vram_wdata = {Cache!b_vram_rdata \cup b_bus_op_way}
    BY <1>8, <2>1, Zenon DEF Cache!b_vram_wdata
  <2>4. Cache!b_vram_rdata = vram[b_bus_op_paddr.index]
    BY <2>1 DEF Cache!b_vram_rdata
  <2>5. b_bus_op_paddr.index \in Indexes
    BY <1>1, <1>8 DEF Addr, Cache!Addr
  <2>6. vram' = [vram EXCEPT ![b_bus_op_paddr.index] =
                   vram[b_bus_op_paddr.index] \cup b_bus_op_way]
    BY <1>2, <2>1, <2>2, <2>3, <2>4
  <2> QED BY <1>1, <1>8, <2>5, <2>6 DEF Given, FillStates
<1>9. ASSUME b_bus_op_state = "fill_first" PROVE vram'[x] \ Given(x) = vram[x] \ Given(x)
  <2>1. b_vtram_owner = "bus_op" /\ Cache!b_vtram_index = b_bus_op_paddr.index
    BY <1>4, <1>9, LookedUp DEF FillStates
  <2>2. Cache!b_vram_wdata = {Cache!b_vram_rdata \ b_bus_op_way, Cache!b_vram_rdata \cup b_bus_op_way}
    BY <1>9, <2>1, Zenon DEF Cache!b_vram_wdata
  <2>3. Cache!b_vram_rdata = vram[b_bus_op_paddr.index]
    BY <2>1 DEF Cache!b_vram_rdata
  <2>4. b_bus_op_paddr.index \in Indexes
    BY <1>1, <1>9 DEF Addr, Cache!Addr
  <2>5. \/ vram' = vram
        \/ vram' = [vram EXCEPT ![b_bus_op_paddr.index] =
                      vram[b_bus_op_paddr.index] \ b_bus_op_way]
        \/ vram' = [vram EXCEPT ![b_bus_op_paddr.index] =
                      vram[b_bus_op_paddr.index] \cup b_bus_op_way]
    BY <1>2, <2>1, <2>2, <2>3
  <2>6. Given(x) = IF b_bus_op_paddr.index = x THEN b_bus_op_way ELSE {}
    BY <1>9 DEF Given, FillStates
  <2> QED BY <1>1, <2>4, <2>5, <2>6
<1>10. ~Invalidating /\ b_bus_op_state \notin {"fill_first", "fill_last"} => vram' = vram
  BY <1>2, <1>5 DEF Cache!b_vram_we
<1> QED BY <1>7, <1>8, <1>9, <1>10

\* The tags change when the last word of a fill comes.
LEMMA TramStep ==
  ASSUME CInv, NEW i, NEW victim, Cycled(i, victim), NEW x \in Indexes, NEW w \in Ways
  PROVE  tram'[x][w] =
           IF b_bus_op_state' = "fill_last" /\ w \in Given(x) THEN b_bus_op_paddr.tag
           ELSE tram[x][w]
<1>1. b_bus_op_state' = "fill_last" => b_vtram_owner' = "bus_op"
  BY OwnedKept DEF Owned, FillStates
<1>2. Cache!a_tram_we <=> b_bus_op_state' = "fill_last"
  BY <1>1 DEF Cache!a_tram_we
<1>3. tram \in [Indexes -> [Ways -> Tags]]
  BY DEF CInv, TypeOK
<1>4. tram' = IF Cache!a_tram_we
              THEN [tram EXCEPT ![b_bus_op_paddr.index] =
                      [v \in Ways |-> IF v \in b_bus_op_way' THEN b_bus_op_paddr.tag ELSE @[v]]]
              ELSE tram
  BY DEF Cycled, Cache!Clock, Cache!Rams
<1>5. CASE b_bus_op_state' = "fill_last"
  <2>1. b_bus_op_state = "fill" /\ b_bus_op_paddr \in Addr /\ b_bus_op_way' = b_bus_op_way
    BY <1>5, FillEnds
  <2>2. b_bus_op_paddr.index \in Indexes
    BY <2>1 DEF Addr, Cache!Addr
  <2>3. Given(x) = IF b_bus_op_paddr.index = x THEN b_bus_op_way ELSE {}
    BY <2>1 DEF Given, FillStates
  <2> QED BY <1>2, <1>3, <1>4, <1>5, <2>1, <2>2, <2>3
<1>6. CASE b_bus_op_state' # "fill_last"
  BY <1>2, <1>4, <1>6
<1> QED BY <1>5, <1>6

\* A set in use stays in use until it is invalidated; what is not known of a
\* set stays unknown until then.
LEMMA UsedStep ==
  ASSUME CInv, NEW i, NEW victim, Cycled(i, victim), NEW x \in Indexes
  PROVE  /\ used[x] = "used" /\ used'[x] # "used" => Invalidating
         /\ used[x] = "unknown" /\ used'[x] # "unknown" =>
              Invalidating /\ x = b_request.addr.index
<1>1. Invalidated <=> Invalidating
  BY Completion DEF Invalidated, Invalidating
<1>2. CASE Cache!b_request_complete
  <2>1. i \in PipeRequests /\ History(i)
    BY <1>2 DEF Cycled, Input
  <2>2. used'[x] = IF i.code \in {"load", "store"} /\ i.cacheen /\ x = i.addr.index
                   THEN "used"
                   ELSE IF Invalidated /\ x = b_request.addr.index THEN "invalidated"
                   ELSE used[x]
    BY <2>1 DEF History
  <2>3. i.code \in {"load", "store"} => i \in PipeAccesses
    BY <2>1 DEF PipeRequests, Invalidates, Writebacks
  <2>4. i.code \in {"load", "store"} /\ i.cacheen =>
          used[i.addr.index] \in {"invalidated", "used"}
    BY <2>3 DEF PipeAccesses
  <2> QED BY <1>1, <2>2, <2>4
<1>3. CASE ~Cache!b_request_complete
  BY <1>3 DEF Cycled, Input
<1> QED BY <1>2, <1>3

\* Which slots hold entries after the cycle, and where these come from.
LEMMA EntryComes ==
  ASSUME CInv, NEW i, NEW victim, Cycled(i, victim), NEW n \in Cache!b_stb_valid'
  PROVE  /\ n \in Cache!Slots
         /\ \/ Cache!b_stb_push /\ b_stb_array'[n] = Cache!b_stb_push_entry
            \/ /\ n \in Cache!b_stb_valid
               /\ b_stb_array[n] \in StbEntry
               /\ b_stb_array'[n] = Cache!b_stb_entry_next(n)
<1>1. n \in Cache!Slots /\ b_stb_array'[n] # NoEntry
  BY DEF Cache!b_stb_valid
<1>2. b_stb_array[n] \in StbEntry \cup {NoEntry}
  BY <1>1 DEF CInv, TypeOK
<1> QED BY <1>1, <1>2, SlotStep DEF Cache!b_stb_valid

\* Nothing begins while a set is invalidated.
LEMMA InvalidatesAloneKept ==
  ASSUME CInv, TInv, NEW i, NEW victim, Cycled(i, victim)
  PROVE  InvalidatesAlone'
<1> SUFFICES ASSUME b_request_state' = "invalidate_l1_access"
             PROVE  Cache!b_stb_empty' /\ b_bus_op_state' = "none"
  BY DEF InvalidatesAlone
<1>1. ~Cache!b_request_complete
  BY RequestStep, RequestFields, RequestStates
<1>2. b_request_state \in {"invalidate_sync", "invalidate_l1_access"}
  BY <1>1, RequestStates DEF CInv, TypeOK, Cache!RequestStates
<1>3. b_request_state = "invalidate_sync" => Cache!b_request_sync
  BY <1>1, RequestStates
<1>4. Cache!b_stb_empty /\ b_bus_op_state = "none"
  BY <1>2, <1>3 DEF Cache!b_request_sync, CInv, BusUse, TInv, InvalidatesAlone
<1>5. ~Cache!b_stb_push
  BY <1>2 DEF Cache!b_stb_push, Cache!b_stb_store_accepted
<1>6. Cache!b_stb_valid' = {}
  BY <1>4, <1>5, EntryComes DEF Cache!b_stb_empty
<1>7. \A n \in Cache!Slots : b_stb_array[n] = NoEntry
  BY <1>4 DEF Cache!b_stb_empty, Cache!b_stb_valid
<1>8. \A n \in Cache!Slots : b_stb_array'[n] = NoEntry
  BY <1>6 DEF Cache!b_stb_valid
<1>9. b_stb_state = "init"
  BY <1>7, Pointers DEF CInv, HeadKnown, Cache!b_stb_head
<1>10. b_stb_state' = "init"
  <2>1. Cache!a_stb_head = NoEntry
    BY <1>8, Pointers DEF Cache!a_stb_head
  <2> QED BY <1>9, <2>1, StbMoves DEF StbStarts, StbGoesOn
<1>11. b_bus_op_state' = "none"
  <2>1. Cache!b_bus_op_complete
    BY <1>4, BusReady
  <2>2. b_bus_op_owner' = "none"
    BY <1>10, <2>1, FirstStates, BusOpBegins
       DEF RequestTakesBus, WantsBus, StbTakesBus, ReplaceStates
  <2> QED BY <2>1, <2>2, BusOpBegins
<1> QED BY <1>6, <1>11 DEF Cache!b_stb_empty

\* What is looked up is in use.
LEMMA InUseKept ==
  ASSUME CInv, TInv, NEW i, NEW victim, Cycled(i, victim)
  PROVE  InUse'
<1>1. ASSUME b_request'.code \in {"load", "store"}, b_request'.cacheen
      PROVE  used'[b_request'.addr.index] = "used"
  <2>1. b_request' = i /\ i \in Accepted
    BY RequestStep
  <2>2. i.addr.index \in Indexes
    BY <1>1, <2>1, RequestFields DEF Addr, Cache!Addr
  <2>3. CASE Cache!b_request_complete
    BY <1>1, <2>1, <2>2, <2>3 DEF Cycled, Input, History
  <2>4. CASE ~Cache!b_request_complete
    BY <1>1, <2>1, <2>4 DEF Cycled, Input, TInv, InUse
  <2> QED BY <2>3, <2>4
<1>2. ASSUME NEW n \in Cache!b_stb_valid'
      PROVE  used'[Entry(n)'.addr.index] = "used"
  <2>1. CASE Cache!b_stb_push /\ b_stb_array'[n] = Cache!b_stb_push_entry
    <3>1. b_request_state = "cached_store_l1_access"
      BY <2>1, PushEntry
    <3>2. b_request.code = "store" /\ b_request.cacheen /\ b_request \in Accepted
      BY <3>1 DEF CInv, RequestKnown, TypeOK
    <3>3. b_request.addr.index \in Indexes
      BY <3>2, RequestFields DEF Addr, Cache!Addr
    <3>4. used[b_request.addr.index] = "used"
      BY <3>2 DEF TInv, InUse
    <3>5. Entry(n)'.addr = b_request.addr
      BY <2>1 DEF Entry, Cache!b_stb_push_entry
    <3> QED BY <3>1, <3>3, <3>4, <3>5, UsedStep DEF Invalidating
  <2>2. CASE /\ n \in Cache!b_stb_valid
             /\ b_stb_array[n] \in StbEntry
             /\ b_stb_array'[n] = Cache!b_stb_entry_next(n)
    <3>1. n \in Cache!Slots
      BY EntryComes
    <3>2. Entry(n)'.addr = Entry(n).addr
      BY <2>2, <3>1, EntryNext DEF Entry
    <3>3. used[Entry(n).addr.index] = "used" /\ Entry(n).addr.index \in Indexes
      BY <2>2 DEF TInv, InUse, Entry, StbEntry, Addr, Cache!Addr
    <3>4. ~Invalidating
      BY <2>2 DEF TInv, InvalidatesAlone, Invalidating, Cache!b_stb_empty
    <3> QED BY <3>2, <3>3, <3>4, UsedStep
  <2> QED BY <2>1, <2>2, EntryComes
<1> QED BY <1>1, <1>2 DEF InUse

-----------------------------------------------------------------------------
(***************************************************************************)
(* Lines that come and go.                                                 *)
(***************************************************************************)
\* A fill goes on in its way and at its block.
LEMMA FillGoesOn ==
  ASSUME CInv, NEW i, NEW victim, Cycled(i, victim)
  PROVE  /\ b_bus_op_state' \in {"fill", "fill_last"} =>
              /\ b_bus_op_state \in {"fill_first", "fill"}
              /\ b_bus_op_way' = b_bus_op_way
              /\ b_bus_op_paddr \in Addr
              /\ b_bus_op_paddr'.tag = b_bus_op_paddr.tag
              /\ b_bus_op_paddr'.index = b_bus_op_paddr.index
         /\ b_bus_op_state = "fill_first" => b_bus_op_state' = "fill"
         /\ b_bus_op_state = "fill" => b_bus_op_state' \in {"fill", "fill_last"}
         /\ b_bus_op_state = "fill_last" => b_bus_op_state' \notin {"fill", "fill_last"}
<1>1. ~Cache!b_bus_op_complete /\ b_bus_op_state \in {"fill_first", "fill"} =>
        /\ b_bus_op_way' = b_bus_op_way
        /\ b_bus_op_paddr \in Addr
        /\ b_bus_op_paddr'.tag = b_bus_op_paddr.tag
        /\ b_bus_op_paddr'.index = b_bus_op_paddr.index
  <2>1. b_bus_op_state \in {"fill_first", "fill"} => b_bus_op_paddr \in Addr
    BY DEF CInv, OnBus
  <2> QED BY <2>1, BusOpGoesOn, NextInBlock
<1>2. CASE Cache!b_bus_op_complete
  BY <1>2, FirstStates, BusReady
<1>3. CASE ~Cache!b_bus_op_complete
  <2>1. b_bus_op_state' \in {"fill", "fill_last"} <=> b_bus_op_state \in {"fill_first", "fill"}
    BY <1>3, BusOpGoesOn, BusReady
  <2>2. b_bus_op_state = "fill_first" => b_bus_op_state' = "fill"
    BY <1>3, BusOpGoesOn
  <2>3. b_bus_op_state # "fill_last"
    BY <1>3, BusReady
  <2> QED BY <1>1, <1>3, <2>1, <2>2, <2>3
<1> QED BY <1>2, <1>3

\* What the tag RAM says of a set, but for the way that is filled.
Known(x) == vram[x] \ Refilled(x)
\* A cycle changes what is known of a set only by an invalidation, which leaves
\* nothing, or by the start and the end of a fill.
LEMMA KnownStep ==
  ASSUME CInv, TInv, NEW i, NEW victim, Cycled(i, victim), NEW x \in Indexes
  PROVE  /\ Known(x) \subseteq Ways
         /\ Invalidating /\ x = b_request.addr.index => Known(x)' = {}
         /\ b_bus_op_state \notin {"fill_first", "fill_last"}
              /\ ~(Invalidating /\ x = b_request.addr.index) =>
              Known(x)' = Known(x) /\ \A w \in Known(x) : tram'[x][w] = tram[x][w]
         /\ b_bus_op_state = "fill_first" =>
              Known(x)' = Known(x) \ Given(x) /\ \A w \in Ways : tram'[x][w] = tram[x][w]
         /\ b_bus_op_state = "fill_last" =>
              Known(x)' = Known(x) \cup Given(x) /\ \A w \in Ways : tram'[x][w] = tram[x][w]
<1>1. vram[x] \subseteq Ways
  BY DEF CInv, TypeOK
<1>2. b_bus_op_state \in {"fill", "fill_last"} => Refilled(x) = Given(x)
  BY DEF Refilled, Given, FillStates
<1>3. b_bus_op_state \notin {"fill", "fill_last"} => Refilled(x) = {}
  BY DEF Refilled
<1>4. b_bus_op_state' \in {"fill", "fill_last"} => Refilled(x)' = Given(x)
  BY FillGoesOn DEF Refilled, Given, FillStates
<1>5. b_bus_op_state' \notin {"fill", "fill_last"} => Refilled(x)' = {}
  BY DEF Refilled
<1>6. Known(x)' = vram'[x] \ Refilled(x)'
  BY DEF Known
<1>7. CASE b_bus_op_state \notin {"fill_first", "fill_last"}
  <2>1. Refilled(x)' = Refilled(x)
    BY <1>2, <1>3, <1>4, <1>5, <1>7, FillGoesOn
  <2>2. ASSUME NEW w \in Known(x) PROVE tram'[x][w] = tram[x][w]
    <3>1. w \in Ways
      BY <1>1 DEF Known
    <3>2. b_bus_op_state' = "fill_last" => w \notin Given(x)
      BY <1>2, <1>7, FillGoesOn DEF Known
    <3> QED BY <3>1, <3>2, TramStep
  <2>3. vram'[x] = IF Invalidating /\ x = b_request.addr.index THEN {} ELSE vram[x]
    BY <1>7, VramStep
  <2> QED BY <1>1, <1>6, <1>7, <2>1, <2>2, <2>3 DEF Known
<1>8. CASE b_bus_op_state = "fill_first"
  <2>1. ~Invalidating
    BY <1>8, VramStep DEF FillStates
  <2>2. \A w \in Ways : tram'[x][w] = tram[x][w]
    BY <1>8, FillGoesOn, TramStep
  <2>3. vram'[x] \ Given(x) = vram[x] \ Given(x)
    BY <1>8, VramStep
  <2>4. Known(x) = vram[x] /\ Known(x)' = vram'[x] \ Given(x)
    BY <1>3, <1>4, <1>6, <1>8, FillGoesOn DEF Known
  <2> QED BY <1>1, <1>8, <2>1, <2>2, <2>3, <2>4
<1>9. CASE b_bus_op_state = "fill_last"
  <2>1. ~Invalidating
    BY <1>9, VramStep DEF FillStates
  <2>2. \A w \in Ways : tram'[x][w] = tram[x][w]
    BY <1>9, FillGoesOn, TramStep
  <2>3. vram'[x] = vram[x] \cup Given(x)
    BY <1>9, VramStep
  <2>4. Known(x) = vram[x] \ Given(x) /\ Known(x)' = vram'[x]
    BY <1>2, <1>5, <1>6, <1>9, FillGoesOn DEF Known
  <2> QED BY <1>1, <1>9, <2>1, <2>2, <2>3, <2>4
<1> QED BY <1>7, <1>8, <1>9

\* A fill does not bring in a block that is in another way.
LEMMA FillIsAlone ==
  ASSUME CInv, TInv, b_bus_op_state = "fill_last", NEW x \in Indexes,
         NEW v \in Given(x), NEW w \in Known(x)
  PROVE  tram[x][v] = b_bus_op_paddr.tag /\ tram[x][w] # b_bus_op_paddr.tag
<1>1. PICK f \in Ways :
        /\ b_bus_op_way = {f}
        /\ Lines(b_bus_op_paddr) \subseteq {f}
        /\ tram[b_bus_op_paddr.index][f] = b_bus_op_paddr.tag
  BY DEF TInv, FillKnown, FillStates
<1>2. v = f /\ b_bus_op_paddr.index = x
  BY <1>1 DEF Given
<1>3. w \in vram[x] /\ w # f
  BY <1>1, <1>2 DEF Known, Refilled
<1> QED BY <1>1, <1>2, <1>3 DEF Lines

\* No block comes to be in two ways.
LEMMA LinesDifferKept ==
  ASSUME CInv, TInv, NEW i, NEW victim, Cycled(i, victim)
  PROVE  LinesDiffer'
<1> SUFFICES ASSUME NEW x \in Indexes, used'[x] # "unknown",
                    NEW v \in Known(x)', NEW w \in Known(x)', v # w
             PROVE  tram'[x][v] # tram'[x][w]
  BY DEF LinesDiffer, Known
<1>1. ~(Invalidating /\ x = b_request.addr.index)
  BY KnownStep
<1>2. used[x] # "unknown"
  BY <1>1, UsedStep
<1>3. \A m, n \in Known(x) : m # n => tram[x][m] # tram[x][n]
  BY <1>2 DEF TInv, LinesDiffer, Known
<1>4. Known(x) \subseteq Ways
  BY KnownStep
<1>5. CASE b_bus_op_state \notin {"fill_first", "fill_last"}
  BY <1>1, <1>3, <1>5, KnownStep
<1>6. CASE b_bus_op_state = "fill_first"
  BY <1>3, <1>4, <1>6, KnownStep
<1>7. CASE b_bus_op_state = "fill_last"
  <2>1. v \in Known(x) \cup Given(x) /\ w \in Known(x) \cup Given(x)
    BY <1>7, KnownStep
  <2>2. Given(x) \subseteq Ways /\ (v \in Given(x) /\ w \in Given(x) => v = w)
    BY <1>7 DEF TInv, FillKnown, FillStates, Given
  <2>3. tram'[x][v] = tram[x][v] /\ tram'[x][w] = tram[x][w]
    BY <1>4, <1>7, <2>1, <2>2, KnownStep
  <2> QED BY <1>3, <1>7, <2>1, <2>2, <2>3, FillIsAlone
<1> QED BY <1>5, <1>6, <1>7

-----------------------------------------------------------------------------
(***************************************************************************)
(* Blocks that are not there, and entries that know their lines.           *)
(***************************************************************************)
\* The ways that hold a block after the cycle.
LinesNext(a) == {w \in vram'[a.index] : tram'[a.index][w] = a.tag}
\* While no fill is on, the lines of a set stay.
LEMMA LinesStay ==
  ASSUME CInv, TInv, NEW i, NEW victim, Cycled(i, victim),
         b_bus_op_state \notin FillStates, ~Invalidating, NEW a \in Addr
  PROVE  LinesNext(a) = Lines(a)
<1>1. a.index \in Indexes
  BY DEF Addr, Cache!Addr
<1>2. vram'[a.index] = vram[a.index] /\ vram[a.index] \subseteq Ways
  BY <1>1, VramStep DEF FillStates, CInv, TypeOK
<1>3. \A w \in Ways : tram'[a.index][w] = tram[a.index][w]
  BY <1>1, FillGoesOn, TramStep DEF FillStates
<1> QED BY <1>2, <1>3 DEF Lines, LinesNext

\* What a hit is made of.
LEMMA HitIsLine ==
  ASSUME CInv, b_vtram_owner = "request"
  PROVE  Cache!b_request_cache_way_hit = Lines(b_request.addr)
BY LookedUp DEF Cache!b_request_cache_way_hit, Cache!b_vram_rdata, Lines

\* A load that is to fill a block has missed it, and goes on to miss it.
LEMMA MissStays ==
  ASSUME CInv, TInv, NEW i, NEW victim, Cycled(i, victim),
         b_request_state' \in {"cached_load_writeback", "cached_load_fill"},
         ~(b_request_state = "cached_load_fill" /\ b_request_granted)
  PROVE  LinesNext(b_request'.addr) = {} /\ b_request'.addr \in Addr
<1>1. ~Cache!b_request_complete
  BY RequestAndBus DEF WantsBus
<1>2. b_request' = b_request
  BY <1>1, RequestStep
<1>3. \/ b_request_state \in {"cached_load_writeback", "cached_load_fill"}
      \/ b_request_state = "cached_load_l1_access" /\ b_request_granted
  BY <1>1, RequestStates DEF CInv, TypeOK, Cache!RequestStates
<1>4. b_request.addr \in Addr
  BY <1>3, RequestFields DEF CInv, RequestKnown, TypeOK
<1>5. ~Invalidating
  BY <1>3 DEF Invalidating
<1>6. b_bus_op_state \notin FillStates
  <2>1. CASE b_request_granted
    BY <1>3, <2>1 DEF CInv, Owned, BusUse, WantsVtram, WantsBus, FillStates, WritebackStates
  <2>2. CASE ~b_request_granted
    BY <1>3, <2>2, PopsIsPop DEF CInv, RequestWaits, FillStates
  <2> QED BY <2>1, <2>2
<1>7. Lines(b_request.addr) = {}
  <2>1. CASE b_request_state \in {"cached_load_writeback", "cached_load_fill"}
    BY <2>1 DEF TInv, MissKnown
  <2>2. CASE b_request_state = "cached_load_l1_access" /\ b_request_granted
    <3>1. b_vtram_owner = "request"
      BY <2>2 DEF CInv, Owned, WantsVtram
    <3> QED BY <1>1, <2>2, <3>1, Completion, HitIsLine DEF Cache!b_request_cache_hit
  <2> QED BY <1>3, <2>1, <2>2
<1> QED BY <1>2, <1>4, <1>5, <1>6, <1>7, LinesStay

\* The store buffer has missed the block that it is to fill.
LEMMA HeadStaysMissed ==
  ASSUME CInv, TInv, NEW i, NEW victim, Cycled(i, victim),
         b_stb_state \in {"replace_access", "writeback"}
  PROVE  /\ Cache!a_stb_head = Cache!b_stb_head'
         /\ Cache!a_stb_head.addr \in Addr
         /\ ~Cache!a_stb_head.cache_hit
         /\ LinesNext(Cache!a_stb_head.addr) = {}
<1>1. ~Pops /\ b_stb_state # "init"
  BY DEF Pops
<1>2. b_bus_op_state \notin FillStates
  <2>1. b_bus_op_owner = "stb"
    BY DEF CInv, Owned, ReplaceStates
  <2> QED BY <2>1 DEF CInv, BusUse, WritebackStates, FillStates
<1>3. Cache!b_stb_head # NoEntry /\ b_stb_head_ptr \in Cache!Slots
  BY <1>1 DEF CInv, HeadKnown, TypeOK
<1>4. b_stb_head_ptr \in Cache!b_stb_valid
  BY <1>3 DEF Cache!b_stb_valid, Cache!b_stb_head
<1>5. ~Cache!b_stb_head.cache_hit
  BY DEF TInv, MissKnown
<1>6. Refilled(Cache!b_stb_head.addr.index) = {}
  BY <1>2 DEF Refilled, FillStates
<1>7. Lines(Cache!b_stb_head.addr) = {}
  BY <1>4, <1>5, <1>6 DEF TInv, EntriesTrack, Entry, Cache!b_stb_head
<1>8. ~Invalidating
  BY <1>4 DEF TInv, InvalidatesAlone, Invalidating, Cache!b_stb_empty
<1>9. /\ Cache!b_stb_head' = Cache!a_stb_head
      /\ Cache!b_stb_head' \in StbEntry
      /\ Cache!b_stb_head'.addr = Cache!b_stb_head.addr
      /\ Cache!b_stb_head'.cache_hit = Cache!b_stb_head.cache_hit
  BY <1>1, <1>2, HeadStays DEF FillStates
<1>10. Cache!a_stb_head.addr \in Addr
  BY <1>9 DEF StbEntry
<1>11. LinesNext(Cache!a_stb_head.addr) = {}
  BY <1>2, <1>7, <1>8, <1>9, <1>10, LinesStay
<1> QED BY <1>5, <1>9, <1>10, <1>11

\* What is to be filled stays missed until its fill begins.
LEMMA MissKnownKept ==
  ASSUME CInv, TInv, NEW i, NEW victim, Cycled(i, victim)
  PROVE  MissKnown'
<1>1. ASSUME \/ b_request_state' = "cached_load_writeback"
             \/ b_request_state' = "cached_load_fill" /\ ~b_request_granted'
      PROVE  LinesNext(b_request'.addr) = {}
  <2>1. ~(b_request_state = "cached_load_fill" /\ b_request_granted)
    <3> SUFFICES ASSUME b_request_state = "cached_load_fill", b_request_granted PROVE FALSE
      OBVIOUS
    <3>1. ~Cache!b_request_complete
      BY <1>1, RequestAndBus DEF WantsBus
    <3>2. b_request_state' = "cached_load_fill"
      BY <3>1, RequestStates
    <3>3. b_bus_op_owner = "request" /\ ~sys_ready
      BY <3>1, Completion DEF CInv, Owned, WantsBus
    <3>4. BusNext = "request"
      BY <3>3 DEF BusNext, RequestPassesBus
    <3>5. b_request_granted'
      BY <3>4, RequestKeepsBus DEF RequestTakesBus
    <3> QED BY <1>1, <3>2, <3>5
  <2> QED BY <1>1, <2>1, MissStays
<1>2. ASSUME b_stb_state' \in {"replace_access", "writeback"}
      PROVE  ~Cache!b_stb_head'.cache_hit
  <2>1. CASE StbStarts
    <3>1. Cache!b_stb_head' = Cache!a_stb_head
      BY DEF Cache!b_stb_head, Cache!a_stb_head
    <3> QED BY <1>2, <2>1, <3>1 DEF StbStarts
  <2>2. CASE StbGoesOn(victim)
    <3>1. b_stb_state \in {"replace_access", "writeback"}
      BY <1>2, <2>2 DEF StbGoesOn
    <3> QED BY <3>1, HeadStaysMissed
  <2> QED BY <2>1, <2>2, StbMoves
<1> QED BY <1>1, <1>2 DEF MissKnown, Lines, LinesNext

\* A fill begins with a block that is not there and comes to its end in one way.
LEMMA FillBegins ==
  ASSUME CInv, TInv, NEW i, NEW victim, Cycled(i, victim), b_bus_op_state' = "fill_first"
  PROVE  /\ \E w \in Ways : b_bus_op_way' = {w}
         /\ b_bus_op_paddr' \in Addr
         /\ LinesNext(b_bus_op_paddr') = {}
<1>1. Cache!b_bus_op_complete
  <2>1. ASSUME ~Cache!b_bus_op_complete PROVE FALSE
    <3>1. b_bus_op_state' # "fill_first" \/ b_bus_op_state = "fill_first"
      BY <2>1, BusOpGoesOn
    <3> QED BY <3>1, FillGoesOn
  <2> QED BY <2>1
<1>2. b_bus_op_owner' \in {"request", "stb"}
  BY <1>1, BusOpBegins
<1>3. CASE b_bus_op_owner' = "request"
  <2>1. RequestTakesBus /\ b_bus_op_state' = Cache!a_request_bus_op_state
        /\ b_bus_op_paddr' = Cache!a_request_bus_op_paddr /\ b_bus_op_way' = b_request_way'
    BY <1>1, <1>3, BusOpBegins, FirstStates
  <2>2. b_request_state' = "cached_load_fill"
    BY <2>1, BusOpFirstState DEF RequestTakesBus, WantsBus
  <2>3. b_bus_op_paddr' = b_request'.addr
    BY <2>1, <2>2, FirstAddress
  <2>4. ~(b_request_state = "cached_load_fill" /\ b_request_granted)
    <3>1. ASSUME b_request_state = "cached_load_fill", b_request_granted PROVE FALSE
      <4>1. b_bus_op_state \in {"fill_first", "fill"}
        BY <3>1 DEF CInv, Owned, BusUse, WantsBus
      <4> QED BY <1>1, <4>1, BusReady
    <3> QED BY <3>1
  <2>5. \E w \in Ways : b_request_way' = {w}
    BY <2>2, RequestWaitsKept DEF RequestWaits
  <2> QED BY <2>1, <2>2, <2>3, <2>4, <2>5, MissStays
<1>4. CASE b_bus_op_owner' = "stb"
  <2>1. StbTakesBus /\ b_bus_op_state' = Cache!a_stb_bus_op_state
        /\ b_bus_op_paddr' = Cache!a_stb_bus_op_paddr /\ b_bus_op_way' = b_stb_way'
    BY <1>1, <1>4, BusOpBegins, FirstStates
  <2>2. b_stb_state' = "fill"
    BY <2>1, BusOpFirstState DEF StbTakesBus, ReplaceStates
  <2>3. b_bus_op_paddr' = Cache!a_stb_head.addr
    BY <2>1, <2>2, FirstAddress
  <2>4. b_stb_state \in {"replace_access", "writeback"}
    <3>1. StbGoesOn(victim)
      BY <2>2, StbMoves DEF StbStarts
    <3>2. b_stb_state \in {"replace_access", "writeback", "fill"}
      BY <2>2, <3>1 DEF StbGoesOn
    <3>3. b_stb_state = "fill" => b_bus_op_state = "fill_last"
      BY <1>1, BusReady DEF CInv, Owned, BusUse, ReplaceStates, FillStates
    <3> QED BY <2>2, <3>1, <3>2, <3>3 DEF StbGoesOn
  <2>5. \E w \in Ways : b_stb_way' = {w}
    BY <2>2, RequestWaitsKept DEF RequestWaits
  <2> QED BY <2>1, <2>3, <2>4, <2>5, HeadStaysMissed
<1> QED BY <1>2, <1>3, <1>4

\* A cycle keeps: the block of a fill is in the way that is filled, or nowhere.
LEMMA FillKnownKept ==
  ASSUME CInv, TInv, NEW i, NEW victim, Cycled(i, victim)
  PROVE  FillKnown'
<1> SUFFICES ASSUME b_bus_op_state' \in FillStates
             PROVE  \E w \in Ways :
                      /\ b_bus_op_way' = {w}
                      /\ LinesNext(b_bus_op_paddr') \subseteq {w}
                      /\ b_bus_op_state' = "fill_last" =>
                           tram'[b_bus_op_paddr'.index][w] = b_bus_op_paddr'.tag
  BY DEF FillKnown, FillStates, Lines, LinesNext
<1>1. CASE b_bus_op_state' = "fill_first"
  BY <1>1, FillBegins
<1>2. CASE b_bus_op_state' \in {"fill", "fill_last"}
  <2>1. /\ b_bus_op_state \in {"fill_first", "fill"}
        /\ b_bus_op_way' = b_bus_op_way
        /\ b_bus_op_paddr \in Addr
        /\ b_bus_op_paddr'.tag = b_bus_op_paddr.tag
        /\ b_bus_op_paddr'.index = b_bus_op_paddr.index
    BY <1>2, FillGoesOn
  <2>2. PICK w \in Ways : b_bus_op_way = {w} /\ Lines(b_bus_op_paddr) \subseteq {w}
    BY <2>1 DEF TInv, FillKnown, FillStates
  <2> DEFINE x == b_bus_op_paddr.index
  <2>3. x \in Indexes /\ Given(x) = {w}
    BY <2>1, <2>2 DEF Addr, Cache!Addr, Given, FillStates
  <2>4. vram[x] \subseteq Ways /\ vram'[x] \ {w} = vram[x] \ {w}
    <3>1. CASE b_bus_op_state = "fill_first"
      BY <2>3, <3>1, VramStep DEF CInv, TypeOK
    <3>2. CASE b_bus_op_state = "fill"
      BY <2>3, <3>2, VramStep DEF CInv, TypeOK, FillStates
    <3> QED BY <2>1, <3>1, <3>2
  <2>5. \A v \in Ways \ {w} : tram'[x][v] = tram[x][v]
    BY <2>3, TramStep
  <2>6. LinesNext(b_bus_op_paddr') \subseteq {w}
    BY <2>1, <2>2, <2>4, <2>5 DEF Lines, LinesNext
  <2>7. b_bus_op_state' = "fill_last" => tram'[x][w] = b_bus_op_paddr.tag
    BY <2>3, TramStep
  <2> QED BY <2>1, <2>2, <2>6, <2>7
<1> QED BY <1>1, <1>2 DEF FillStates

\* The known lines of a block that an entry is for, before and after the cycle.
KnownLines(a) == {w \in Known(a.index) : tram[a.index][w] = a.tag}
RefilledNext(x) ==
  IF b_bus_op_state' \in {"fill", "fill_last"} /\ b_bus_op_paddr'.index = x
  THEN b_bus_op_way' ELSE {}
KnownLinesNext(a) ==
  {w \in vram'[a.index] \ RefilledNext(a.index) : tram'[a.index][w] = a.tag}
\* A fill takes the line that was in its way and gives back the one it brings.
LEMMA KnownLinesStep ==
  ASSUME CInv, TInv, NEW i, NEW victim, Cycled(i, victim), ~Invalidating,
         NEW a \in Addr, used[a.index] = "used"
  PROVE  /\ b_bus_op_state \notin {"fill_first", "fill_last"} => KnownLinesNext(a) = KnownLines(a)
         /\ b_bus_op_state = "fill_first" =>
              /\ KnownLinesNext(a) = KnownLines(a) \ Given(a.index)
              /\ \A v, w \in KnownLines(a) : v = w
         /\ b_bus_op_state = "fill_last" =>
              IF a.index = b_bus_op_paddr.index /\ a.tag = b_bus_op_paddr.tag
              THEN KnownLines(a) = {} /\ KnownLinesNext(a) = b_bus_op_way
              ELSE KnownLinesNext(a) = KnownLines(a)
<1> DEFINE x == a.index
<1>1. x \in Indexes
  BY DEF Addr, Cache!Addr
<1>2. Known(x) \subseteq Ways /\ Known(x)' = vram'[x] \ RefilledNext(x)
  BY <1>1, KnownStep DEF Known, Refilled, RefilledNext
<1>3. CASE b_bus_op_state \notin {"fill_first", "fill_last"}
  BY <1>1, <1>2, <1>3, KnownStep DEF KnownLines, KnownLinesNext
<1>4. CASE b_bus_op_state = "fill_first"
  <2>1. \A v, w \in KnownLines(a) : v = w
    BY <1>1 DEF TInv, LinesDiffer, KnownLines, Known
  <2> QED BY <1>1, <1>2, <1>4, <2>1, KnownStep DEF KnownLines, KnownLinesNext
<1>5. CASE b_bus_op_state = "fill_last"
  <2>1. Known(x)' = Known(x) \cup Given(x) /\ \A w \in Ways : tram'[x][w] = tram[x][w]
    BY <1>1, <1>5, KnownStep
  <2>2. PICK f \in Ways :
          /\ b_bus_op_way = {f}
          /\ Lines(b_bus_op_paddr) \subseteq {f}
          /\ tram[b_bus_op_paddr.index][f] = b_bus_op_paddr.tag
    BY <1>5 DEF TInv, FillKnown, FillStates
  <2>3. Given(x) = IF x = b_bus_op_paddr.index THEN {f} ELSE {}
    BY <1>5, <2>2 DEF Given, FillStates
  <2>4. CASE x = b_bus_op_paddr.index /\ a.tag = b_bus_op_paddr.tag
    <3>1. KnownLines(a) = {}
      BY <1>1, <1>5, <2>2, <2>3, <2>4, FillIsAlone DEF KnownLines
    <3>2. KnownLinesNext(a) = {f}
      BY <1>2, <2>1, <2>2, <2>3, <2>4, <3>1 DEF KnownLines, KnownLinesNext
    <3> QED BY <1>5, <2>2, <2>4, <3>1, <3>2
  <2>5. CASE ~(x = b_bus_op_paddr.index /\ a.tag = b_bus_op_paddr.tag)
    BY <1>2, <1>5, <2>1, <2>2, <2>3, <2>5 DEF KnownLines, KnownLinesNext
  <2> QED BY <2>4, <2>5
<1> QED BY <1>3, <1>4, <1>5

\* An entry knows its line through all that happens to it.
LEMMA EntriesTrackKept ==
  ASSUME CInv, TInv, NEW i, NEW victim, Cycled(i, victim)
  PROVE  EntriesTrack'
<1> DEFINE e(n) == b_stb_array[n]
           f(n) == b_stb_array'[n]
<1> SUFFICES ASSUME NEW n \in Cache!b_stb_valid'
             PROVE  /\ f(n).cache_hit <=> KnownLinesNext(f(n).addr) # {}
                    /\ f(n).cache_hit => f(n).way = KnownLinesNext(f(n).addr)
  <2>1. \A n \in Cache!b_stb_valid' :
          KnownLinesNext(f(n).addr) =
            (Lines(Entry(n).addr) \ Refilled(Entry(n).addr.index))'
    BY DEF KnownLinesNext, RefilledNext, Refilled, Lines, Entry
  <2> QED BY <2>1 DEF EntriesTrack, Entry
<1>1. n \in Cache!Slots
  BY EntryComes
<1>2. CASE Cache!b_stb_push /\ f(n) = Cache!b_stb_push_entry
  <2>1. b_request_state = "cached_store_l1_access" /\ b_request_granted
    BY <1>2, PushEntry
  <2>2. b_request.code = "store" /\ b_request.cacheen /\ b_request \in Accepted
    BY <2>1 DEF CInv, RequestKnown, TypeOK
  <2>3. b_request.addr \in Addr /\ used[b_request.addr.index] = "used"
    BY <2>2, RequestFields DEF TInv, InUse
  <2>4. b_vtram_owner = "request" /\ b_bus_op_state \notin FillStates
    BY <2>1 DEF CInv, Owned, WantsVtram
  <2>5. KnownLines(b_request.addr) = Cache!b_request_cache_way_hit
    BY <2>4, HitIsLine DEF KnownLines, Known, Refilled, Lines, FillStates
  <2>6. KnownLinesNext(b_request.addr) = KnownLines(b_request.addr)
    BY <2>1, <2>3, <2>4, KnownLinesStep DEF Invalidating, FillStates
  <2>7. /\ f(n).addr = b_request.addr
        /\ f(n).cache_hit = (Cache!b_request_cache_way_hit # {})
        /\ f(n).way = Cache!b_request_cache_way_hit
    BY <1>2 DEF Cache!b_stb_push_entry, Cache!b_request_cache_hit
  <2> QED BY <2>5, <2>6, <2>7
<1>3. CASE /\ n \in Cache!b_stb_valid
           /\ e(n) \in StbEntry
           /\ f(n) = Cache!b_stb_entry_next(n)
  <2> DEFINE a == e(n).addr
  <2>1. a \in Addr /\ e(n).cache_hit \in BOOLEAN
    BY <1>3 DEF StbEntry
  <2>2. used[a.index] = "used"
    BY <1>3 DEF TInv, InUse, Entry
  <2>3. ~Invalidating
    BY <1>3 DEF TInv, InvalidatesAlone, Invalidating, Cache!b_stb_empty
  <2>4. KnownLines(a) = Lines(a) \ Refilled(a.index)
    BY DEF KnownLines, Known, Lines
  <2>5. /\ e(n).cache_hit <=> KnownLines(a) # {}
        /\ e(n).cache_hit => e(n).way = KnownLines(a)
    BY <1>3, <2>4 DEF TInv, EntriesTrack, Entry
  <2>6. /\ f(n).addr = a
        /\ ~Cache!b_stb_array_block_change(n) =>
             f(n).cache_hit = e(n).cache_hit /\ f(n).way = e(n).way
        /\ Cache!b_stb_array_block_change(n) =>
             f(n).cache_hit = (b_bus_op_state = "fill_last") /\ f(n).way = b_bus_op_way
    BY <1>1, <1>3, EntryNext
  <2> DEFINE Goal == /\ f(n).cache_hit <=> KnownLinesNext(a) # {}
                     /\ f(n).cache_hit => f(n).way = KnownLinesNext(a)
  <2>7. CASE b_bus_op_state \notin {"fill_first", "fill_last"}
    <3>1. ~Cache!b_stb_array_block_change(n)
      BY <2>7 DEF Cache!b_stb_array_block_change, Cache!b_block_change
    <3> QED BY <2>1, <2>2, <2>3, <2>5, <2>6, <2>7, <3>1, KnownLinesStep
  <2>8. CASE b_bus_op_state = "fill_first"
    <3>1. Given(a.index) = IF a.index = b_bus_op_paddr.index THEN b_bus_op_way ELSE {}
      BY <2>8 DEF Given, FillStates
    <3>2. Cache!b_stb_array_block_change(n) <=>
            a.index = b_bus_op_paddr.index /\ e(n).way \cap b_bus_op_way # {}
      BY <2>8 DEF Cache!b_stb_array_block_change, Cache!b_block_change, Cache!b_block_change_valid
    <3>3. /\ KnownLinesNext(a) = KnownLines(a) \ Given(a.index)
          /\ \A v, w \in KnownLines(a) : v = w
      BY <2>1, <2>2, <2>3, <2>8, KnownLinesStep
    <3>4. CASE Cache!b_stb_array_block_change(n)
      <4>1. KnownLinesNext(a) = {}
        BY <2>5, <3>1, <3>2, <3>3, <3>4
      <4> QED BY <2>6, <2>8, <3>4, <4>1
    <3>5. CASE ~Cache!b_stb_array_block_change(n)
      <4>1. KnownLinesNext(a) = KnownLines(a)
        BY <2>5, <3>1, <3>2, <3>3, <3>5
      <4> QED BY <2>5, <2>6, <3>5, <4>1
    <3> QED BY <3>4, <3>5
  <2>9. CASE b_bus_op_state = "fill_last"
    <3>1. Cache!b_stb_array_block_change(n) <=>
            a.index = b_bus_op_paddr.index /\ a.tag = b_bus_op_paddr.tag
      BY <2>9 DEF Cache!b_stb_array_block_change, Cache!b_block_change, Cache!b_block_change_valid
    <3>2. b_bus_op_way # {}
      BY <2>9 DEF TInv, FillKnown, FillStates
    <3>3. CASE Cache!b_stb_array_block_change(n)
      <4>1. KnownLinesNext(a) = b_bus_op_way
        BY <2>1, <2>2, <2>3, <2>9, <3>1, <3>3, KnownLinesStep
      <4> QED BY <2>6, <2>9, <3>2, <3>3, <4>1
    <3>4. CASE ~Cache!b_stb_array_block_change(n)
      <4>1. KnownLinesNext(a) = KnownLines(a)
        BY <2>1, <2>2, <2>3, <2>9, <3>1, <3>4, KnownLinesStep
      <4> QED BY <2>5, <2>6, <3>4, <4>1
    <3> QED BY <3>3, <3>4
  <2> QED BY <2>6, <2>7, <2>8, <2>9
<1> QED BY <1>2, <1>3, EntryComes

-----------------------------------------------------------------------------
(***************************************************************************)
(* The invariant and what follows from it.                                 *)
(***************************************************************************)
LEMMA InitTags == Init => TInv
<1> SUFFICES ASSUME Init PROVE TInv
  OBVIOUS
<1>1. /\ Cache!Init
      /\ used = [x \in Indexes |-> "unknown"]
  BY DEF Init
<1>2. Cache!b_stb_valid = {}
  BY <1>1 DEF Cache!Init, Cache!b_stb_valid
<1>3. /\ b_request_state = "none" /\ b_request.code = "none"
      /\ b_bus_op_state = "none" /\ b_stb_state = "init"
  BY <1>1 DEF Cache!Init
<1>4. InvalidatesAlone /\ FillKnown /\ MissKnown
  BY <1>3 DEF InvalidatesAlone, FillKnown, FillStates, MissKnown
<1>5. InUse /\ LinesDiffer /\ EntriesTrack
  BY <1>1, <1>2, <1>3 DEF InUse, LinesDiffer, EntriesTrack
<1> QED BY <1>4, <1>5 DEF TInv

\* A step keeps the invariant.
LEMMA StepTags ==
  ASSUME CInv, TInv, [Next]_vars
  PROVE  TInv'
<1>1. CASE Next
  <2>1. PICK i, victim : Cycled(i, victim)
    BY <1>1, StepIsCycle
  <2> QED BY <2>1, InvalidatesAloneKept, InUseKept, LinesDifferKept, FillKnownKept,
             MissKnownKept, EntriesTrackKept DEF TInv
<1>2. CASE UNCHANGED vars
  <2>1. UNCHANGED cache_vars /\ UNCHANGED used
    BY <1>2 DEF vars
  <2>2. InvalidatesAlone'
    BY <2>1 DEF TInv, InvalidatesAlone, cache_vars, Cache!b_stb_empty, Cache!b_stb_valid
  <2>3. InUse'
    BY <2>1 DEF TInv, InUse, Entry, cache_vars, Cache!b_stb_valid
  <2>4. LinesDiffer'
    BY <2>1 DEF TInv, LinesDiffer, Refilled, cache_vars
  <2>5. FillKnown'
    BY <2>1 DEF TInv, FillKnown, FillStates, Lines, cache_vars
  <2>6. MissKnown'
    BY <2>1 DEF TInv, MissKnown, Lines, cache_vars, Cache!b_stb_head
  <2>7. EntriesTrack'
    BY <2>1 DEF TInv, EntriesTrack, Entry, Lines, Refilled, cache_vars, Cache!b_stb_valid
  <2> QED BY <2>2, <2>3, <2>4, <2>5, <2>6, <2>7 DEF TInv
<1> QED BY <1>1, <1>2

\* Valid bits, tags and the entries of the store buffer stay in agreement,
\* whatever the pipe, the bus and the replacement policy do.
THEOREM TagsInductive == Spec => [](CInv /\ TInv)
<1>1. Init => CInv /\ TInv
  BY InitControl, InitTags
<1>2. (CInv /\ TInv) /\ [Next]_vars => (CInv /\ TInv)'
  BY StepControl, StepTags
<1> QED BY <1>1, <1>2, PTL DEF Spec

\* No block is in two ways of its set.
THEOREM NoBlockTwice == Spec => []HitsAreUnique
<1>1. TInv => HitsAreUnique
  BY DEF TInv, LinesDiffer, HitsAreUnique, Filling, Refilled
<1> QED BY <1>1, TagsInductive, PTL

\* An entry of the store buffer knows whether its line is in the cache, and in
\* which way.
THEOREM StbTracks == Spec => []StbTracksCache
<1>1. TInv => StbTracksCache
  <2> SUFFICES ASSUME TInv, b_bus_op_state \notin {"fill_first", "fill", "fill_last"},
                      NEW n \in Cache!b_stb_valid
               PROVE  /\ Entry(n).cache_hit <=> Lines(Entry(n).addr) # {}
                      /\ Entry(n).cache_hit => Entry(n).way = Lines(Entry(n).addr)
    BY DEF StbTracksCache, Lines
  <2>1. Refilled(Entry(n).addr.index) = {}
    BY DEF Refilled
  <2> QED BY <2>1 DEF TInv, EntriesTrack
<1> QED BY <1>1, TagsInductive, PTL

\* The replacement policy is told of one way, for the set whose list was read
\* in the cycle before.
THEOREM ReplaceIsFresh == Spec => []ReplaceFresh
<1>1. CInv /\ TInv => ReplaceFresh
  <2> SUFFICES ASSUME CInv, TInv, Cache!b_replace_we, b_rmdram_owner # "stb"
               PROVE  /\ \E w : Cache!b_replace_wway = {w}
                      /\ Cache!b_replace_windex = listed
    <3>1. \A w : Cardinality({w}) = 1
      BY FS_Singleton
    <3> QED BY <3>1 DEF ReplaceFresh
  <2>1. Cache!b_replace_wway # {}
    BY DEF Cache!b_replace_we
  <2>2. b_rmdram_owner \in {"none", "request", "bus_op"}
    BY DEF CInv, TypeOK, Cache!Owners
  <2>3. CASE b_rmdram_owner = "none"
    <3>1. Cache!b_replace_wway = {}
      BY <2>3, Zenon DEF Cache!b_replace_wway
    <3> QED BY <2>1, <3>1
  <2>4. CASE b_rmdram_owner = "request"
    <3>1. Cache!b_replace_wway =
            IF b_request_state = "cached_load_l1_access" /\ ~Cache!b_request_mmu_error
            THEN Cache!b_request_cache_way_hit ELSE {}
      BY <2>4, Zenon DEF Cache!b_replace_wway
    <3>2. /\ b_request_state = "cached_load_l1_access"
          /\ Cache!b_replace_wway = Cache!b_request_cache_way_hit
      BY <2>1, <3>1
    <3>3. /\ b_vtram_owner = "request" /\ b_bus_op_state \notin FillStates
          /\ b_request.code = "load" /\ b_request.cacheen /\ b_request \in Accepted
      BY <2>4, <3>2 DEF CInv, Owned, WantsVtram, RequestKnown, TypeOK
    <3>4. b_request.addr.index \in Indexes /\ used[b_request.addr.index] = "used"
      BY <3>3, RequestFields DEF TInv, InUse, Addr, Cache!Addr
    <3>5. \A v, w \in Lines(b_request.addr) : v = w
      BY <3>3, <3>4 DEF TInv, LinesDiffer, Lines, Refilled, FillStates
    <3>6. \E w : Cache!b_replace_wway = {w}
      BY <2>1, <3>2, <3>3, <3>5, HitIsLine
    <3>7. Cache!b_replace_windex = listed
      BY <2>4, <3>2, LookedUp DEF Cache!b_replace_windex, CInv, Listed
    <3> QED BY <3>6, <3>7
  <2>5. CASE b_rmdram_owner = "bus_op"
    <3>1. Cache!b_replace_wway = IF b_bus_op_state = "fill_last" THEN b_bus_op_way ELSE {}
      BY <2>5, Zenon DEF Cache!b_replace_wway
    <3>2. b_bus_op_state = "fill_last" /\ Cache!b_replace_wway = b_bus_op_way
      BY <2>1, <3>1
    <3>3. \E w : b_bus_op_way = {w}
      BY <3>2 DEF TInv, FillKnown, FillStates
    <3>4. Cache!b_replace_windex = listed
      BY <2>5, <3>2, LookedUp DEF Cache!b_replace_windex, CInv, Listed
    <3> QED BY <3>2, <3>3, <3>4
  <2> QED BY <2>2, <2>3, <2>4, <2>5
<1> QED BY <1>1, TagsInductive, PTL

=============================================================================
