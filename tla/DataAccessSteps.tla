--------------------------- MODULE DataAccessSteps ---------------------------
(***************************************************************************)
(* What one cycle of DataAccess does to each register and to the port, in  *)
(* a state of the invariant of its control: the operators of the data      *)
(* cache, which describe the logic in front of each register, brought to   *)
(* the form in which DataAccessProofs uses them.                           *)
(***************************************************************************)
EXTENDS DataAccess, TLAPS

\* What drives the cache in a cycle: a new request, or the one it has.
Input(i) ==
  IF Cache!b_request_complete THEN i \in PipeRequests /\ b_request' = i /\ History(i)
  ELSE i = b_request /\ UNCHANGED <<expected, used>>

\* A step of the system in which the cache takes i, and victim may be replaced.
Cycled(i, victim) ==
  /\ Input(i)
  /\ victim \in Victims
  /\ Cache!Clock(i, victim)
  /\ listed' = IF Cache!a_replace_re THEN Cache!a_replace_rindex ELSE NoRequest
  /\ Bus(IF sys_ready THEN Cache!sys_master_out ELSE port.req)
  /\ UNCHANGED system

-----------------------------------------------------------------------------
(***************************************************************************)
(* Counters that wrap.                                                     *)
(***************************************************************************)
\* Counting up to a number of places and on from the first.
LEMMA Wraps ==
  ASSUME NEW size \in Nat, size >= 1, NEW k \in 0 .. size - 1
  PROVE  (k + 1) % size = IF k = size - 1 THEN 0 ELSE k + 1
<1>1. CASE k = size - 1
  BY <1>1
<1>2. CASE k # size - 1
  BY <1>2
<1> QED BY <1>1, <1>2

\* How far n is from h, going round.
LEMMA GoingRound ==
  ASSUME NEW size \in Nat, size >= 1, NEW n \in 0 .. size - 1, NEW h \in 0 .. size - 1
  PROVE  (n - h) % size = IF n >= h THEN n - h ELSE n - h + size
<1>1. CASE n >= h
  BY <1>1
<1>2. CASE n < h
  <2>1. n - h + size \in 0 .. size - 1
    BY <1>2
  <2>2. (n - h) % size = (n - h + size) % size
    BY <1>2
  <2> QED BY <1>2, <2>1, <2>2
<1> QED BY <1>1, <1>2

\* The next word of a block, and the next slot of the store buffer.
LEMMA NextInBlock ==
  ASSUME NEW a \in Addr
  PROVE  /\ Cache!next_in_block(a) \in Addr
         /\ Cache!next_in_block(a).tag = a.tag
         /\ Cache!next_in_block(a).index = a.index
         /\ Cache!next_in_block(a).offset =
              IF a.offset = BlockWords - 1 THEN 0 ELSE a.offset + 1
<1>1. a.offset \in 0 .. BlockWords - 1
  BY DEF Addr, Cache!Addr, Cache!Offsets
<1>2. (a.offset + 1) % BlockWords = IF a.offset = BlockWords - 1 THEN 0 ELSE a.offset + 1
  BY <1>1, Wraps, SizeAssumption
<1>3. (a.offset + 1) % BlockWords \in Cache!Offsets
  BY <1>1, <1>2, SizeAssumption DEF Cache!Offsets
<1> QED
  BY <1>2, <1>3 DEF Addr, Cache!Addr, Cache!next_in_block

\* The slot after slot n.
LEMMA NextSlot ==
  ASSUME NEW n \in Cache!Slots
  PROVE  /\ Cache!next_slot(n) \in Cache!Slots
         /\ Cache!next_slot(n) = IF n = StbEntries - 1 THEN 0 ELSE n + 1
<1>1. (n + 1) % StbEntries = IF n = StbEntries - 1 THEN 0 ELSE n + 1
  BY Wraps, SizeAssumption DEF Cache!Slots
<1> QED BY <1>1, SizeAssumption DEF Cache!Slots, Cache!next_slot

-----------------------------------------------------------------------------
(***************************************************************************)
(* The request that enters the cache.                                      *)
(***************************************************************************)
\* What the pipe may drive is a request.
LEMMA PipeTyped ==
  ASSUME CInv
  PROVE  PipeRequests \subseteq Accepted
<1>1. Reached \subseteq Addr /\ Touched \subseteq Addr
  BY DEF Reached, Touched
<1>2. /\ system.widths \subseteq Accesses /\ system.mmuens \subseteq BOOLEAN
      /\ system.writethrough \in BOOLEAN /\ system.write_alloc \in BOOLEAN
  BY SystemAssumption DEF CInv, TypeOK
<1>3. Loads \subseteq Accepted
  BY <1>1, <1>2 DEF Loads, Accepted
<1>4. Stores \subseteq Accepted
  BY <1>1, <1>2 DEF Stores, Accepted, Cache!Data
<1>5. Invalidates \subseteq Accepted
  BY <1>1 DEF Invalidates, Accepted
<1>6. Writebacks \subseteq Accepted
  BY <1>1, <1>2 DEF Writebacks, Accepted
<1>7. [code |-> "none"] \in Accepted
  BY DEF Accepted
<1>8. PipeAccesses \subseteq Loads \cup Stores
  BY DEF PipeAccesses
<1> QED
  BY <1>3, <1>4, <1>5, <1>6, <1>7, <1>8 DEF PipeRequests

\* The request after the cycle.
LEMMA RequestStep ==
  ASSUME CInv, NEW i, NEW victim, Cycled(i, victim)
  PROVE  /\ b_request' = i
         /\ i \in Accepted
         /\ ~Cache!b_request_complete => i = b_request
<1>1. CASE Cache!b_request_complete
  BY <1>1, PipeTyped DEF Cycled, Input
<1>2. CASE ~Cache!b_request_complete
  BY <1>2 DEF Cycled, Input, Cache!Clock, Cache!Request, CInv, TypeOK
<1> QED BY <1>1, <1>2

\* The fields of a request, by its code.
LEMMA RequestFields ==
  ASSUME NEW r \in Accepted
  PROVE  /\ r.code \in {"none", "load", "store", "invalidate", "writeback"}
         /\ r.code # "none" => r.addr \in Addr
         /\ r.code \in {"load", "store"} =>
              /\ r.bytes \in Accesses /\ r.alloc \in BOOLEAN /\ r.writethrough \in BOOLEAN
              /\ r.cacheen \in BOOLEAN /\ r.mmuen \in BOOLEAN
         /\ r.code = "load" => r.alloc
         /\ r.code = "store" => r.data \in Cache!Data
         /\ r.code = "writeback" => r.mmuen \in BOOLEAN
BY DEF Accepted

-----------------------------------------------------------------------------
(***************************************************************************)
(* The bus operation.                                                      *)
(***************************************************************************)
\* There are no errors, and a bus operation waits for the bus only.
LEMMA BusReady ==
  ASSUME CInv
  PROVE  /\ Cache!b_bus_op_error = FALSE
         /\ b_bus_op_state \in {"none", "fill_last", "writeback_first"} => sys_ready
         /\ b_bus_op_state # "none" => (Cache!b_bus_op_cycle_complete <=> sys_ready)
         /\ Cache!b_bus_op_complete <=>
              (\/ b_bus_op_state \in {"none", "fill_last"}
               \/ (b_bus_op_state \in {"load", "store", "writeback_last"} /\ sys_ready))
         /\ Cache!b_bus_op_writeback_complete <=> (b_bus_op_state = "writeback_last" /\ sys_ready)
         /\ Cache!b_bus_op_fill_complete <=> b_bus_op_state = "fill_last"
BY DEF CInv, TypeOK, BusUse, OnBus, sys_error, sys_ready, Cache!b_bus_op_error,
       Cache!b_bus_op_cycle_complete, Cache!b_bus_op_complete,
       Cache!b_bus_op_writeback_complete, Cache!b_bus_op_fill_complete

\* The next state of a bus operation that is not over, state by state.
LEMMA BusOpNextState ==
  /\ b_bus_op_state \in {"load", "store", "fill_last", "writeback_last"} =>
       Cache!b_bus_op_state_next = b_bus_op_state
  /\ b_bus_op_state = "fill_first" =>
       Cache!b_bus_op_state_next = IF b_bus_op_granted THEN "fill" ELSE "fill_first"
  /\ b_bus_op_state = "fill" =>
       Cache!b_bus_op_state_next = IF Cache!b_bus_op_last_word THEN "fill_last" ELSE "fill"
  /\ b_bus_op_state = "writeback_first" =>
       Cache!b_bus_op_state_next =
         IF Cache!b_bus_op_cycle_complete THEN "writeback" ELSE "writeback_first"
  /\ b_bus_op_state = "writeback" =>
       Cache!b_bus_op_state_next =
         IF Cache!b_bus_op_last_word THEN "writeback_last" ELSE "writeback"
<1>1. CASE b_bus_op_state = "fill_first" BY <1>1, Zenon DEF Cache!b_bus_op_state_next
<1>2. CASE b_bus_op_state = "fill" BY <1>2, Zenon DEF Cache!b_bus_op_state_next
<1>3. CASE b_bus_op_state = "writeback_first" BY <1>3, Zenon DEF Cache!b_bus_op_state_next
<1>4. CASE b_bus_op_state = "writeback" BY <1>4, Zenon DEF Cache!b_bus_op_state_next
<1>5. CASE b_bus_op_state = "load" BY <1>5, Zenon DEF Cache!b_bus_op_state_next
<1>6. CASE b_bus_op_state = "store" BY <1>6, Zenon DEF Cache!b_bus_op_state_next
<1>7. CASE b_bus_op_state = "fill_last" BY <1>7, Zenon DEF Cache!b_bus_op_state_next
<1>8. CASE b_bus_op_state = "writeback_last" BY <1>8, Zenon DEF Cache!b_bus_op_state_next
<1> QED BY <1>1, <1>2, <1>3, <1>4, <1>5, <1>6, <1>7, <1>8

\* The state, way, beat and address of a bus operation that is not over.
LastWord == sys_ready /\ b_bus_op_block_word = BlockWords - 1
\* It moves on with the beats that the bus answers.
LEMMA BusOpGoesOn ==
  ASSUME CInv, NEW i, NEW victim, Cycled(i, victim), ~Cache!b_bus_op_complete
  PROVE  /\ b_bus_op_state' =
              CASE b_bus_op_state = "fill_first" -> "fill"
                [] b_bus_op_state = "fill" -> (IF LastWord THEN "fill_last" ELSE "fill")
                [] b_bus_op_state = "writeback_first" -> "writeback"
                [] b_bus_op_state = "writeback" ->
                     (IF LastWord THEN "writeback_last" ELSE "writeback")
                [] OTHER -> b_bus_op_state
         /\ b_bus_op_way' = b_bus_op_way
         /\ IF b_bus_op_state \in {"load", "store", "writeback_last"} \/ ~sys_ready
            THEN b_bus_op_block_word' = b_bus_op_block_word /\ b_bus_op_paddr' = b_bus_op_paddr
            ELSE /\ b_bus_op_block_word' =
                      IF b_bus_op_block_word = BlockWords - 1 THEN 0 ELSE b_bus_op_block_word + 1
                 /\ b_bus_op_paddr' = Cache!next_in_block(b_bus_op_paddr)
<1>1. /\ b_bus_op_state' = Cache!b_bus_op_state_next
      /\ b_bus_op_way' = b_bus_op_way
      /\ IF Cache!b_bus_op_block_word_advance
         THEN /\ b_bus_op_block_word' = (b_bus_op_block_word + 1) % BlockWords
              /\ b_bus_op_paddr' = Cache!next_in_block(b_bus_op_paddr)
         ELSE UNCHANGED <<b_bus_op_block_word, b_bus_op_paddr>>
  BY DEF Cycled, Cache!Clock, Cache!BusOp, Cache!ContinueBusOp
<1>2. (b_bus_op_block_word + 1) % BlockWords =
        IF b_bus_op_block_word = BlockWords - 1 THEN 0 ELSE b_bus_op_block_word + 1
  <2>1. b_bus_op_block_word \in 0 .. BlockWords - 1 /\ BlockWords \in Nat /\ BlockWords >= 1
    BY SizeAssumption DEF CInv, TypeOK, Cache!Offsets
  <2> QED BY <2>1, Wraps
<1>3. b_bus_op_state # "none" =>
        (Cache!b_bus_op_last_word <=> LastWord)
  BY BusReady DEF Cache!b_bus_op_last_word, LastWord
<1>4. b_bus_op_state \in {"fill_first", "writeback_first"} => b_bus_op_granted
  BY DEF CInv, BusUse
<1>5. /\ b_bus_op_state \in {"load", "store", "fill_first", "fill", "writeback_first",
                            "writeback", "writeback_last"}
      /\ b_bus_op_state = "writeback_first" => sys_ready
  BY BusReady DEF CInv, TypeOK, Cache!BusOpStates
<1> QED
  BY <1>1, <1>2, <1>3, <1>4, <1>5, BusOpNextState, BusReady
     DEF Cache!b_bus_op_block_word_advance

-----------------------------------------------------------------------------
(***************************************************************************)
(* The request.                                                            *)
(***************************************************************************)
\* When a request is complete, state by state, as the source has it.
LEMMA CompleteByState ==
  ASSUME Cache!b_bus_op_error = FALSE
  PROVE
  /\ b_request_state = "none" => Cache!b_request_complete
  /\ b_request_state \in {"uncached_load_mmu_access", "uncached_store_mmu_access"} =>
       (Cache!b_request_complete <=> Cache!b_request_mmu_error)
  /\ b_request_state \in {"uncached_load_bus_op", "uncached_store_bus_op"} =>
       (Cache!b_request_complete <=> b_request_granted /\ Cache!b_bus_op_cycle_complete)
  /\ b_request_state = "cached_load_l1_access" =>
       (Cache!b_request_complete <=> Cache!b_request_complete_cached_load_l1_access)
  /\ b_request_state = "cached_load_fill" =>
       (Cache!b_request_complete <=>
          b_request_granted /\ Cache!b_bus_op_fill_load_data_ready)
  /\ b_request_state = "cached_store_l1_access" =>
       (Cache!b_request_complete <=> Cache!b_request_complete_cached_store_l1_access)
  /\ b_request_state = "invalidate_l1_access" =>
       (Cache!b_request_complete <=> b_request_granted)
  /\ b_request_state = "writeback_l1_access" =>
       (Cache!b_request_complete <=> Cache!b_request_complete_writeback_l1_access)
  /\ b_request_state = "writeback_bus_op" =>
       (Cache!b_request_complete <=>
          b_request_granted /\ Cache!b_bus_op_writeback_complete)
  /\ b_request_state \in {"cached_load_writeback", "cached_store_stb_wait",
                         "invalidate_sync"} => ~Cache!b_request_complete
<1>1. CASE b_request_state = "none" BY <1>1, Zenon DEF Cache!b_request_complete
<1>2. CASE b_request_state = "uncached_load_mmu_access" BY <1>2, Zenon DEF Cache!b_request_complete
<1>3. CASE b_request_state = "uncached_store_mmu_access" BY <1>3, Zenon DEF Cache!b_request_complete
<1>4. CASE b_request_state = "uncached_load_bus_op" BY <1>4, Zenon DEF Cache!b_request_complete
<1>5. CASE b_request_state = "uncached_store_bus_op" BY <1>5, Zenon DEF Cache!b_request_complete
<1>6. CASE b_request_state = "cached_load_l1_access" BY <1>6, Zenon DEF Cache!b_request_complete
<1>7. CASE b_request_state = "cached_load_fill" BY <1>7, Zenon DEF Cache!b_request_complete
<1>8. CASE b_request_state = "cached_store_l1_access" BY <1>8, Zenon DEF Cache!b_request_complete
<1>9. CASE b_request_state = "invalidate_l1_access" BY <1>9, Zenon DEF Cache!b_request_complete
<1>10. CASE b_request_state = "writeback_l1_access" BY <1>10, Zenon DEF Cache!b_request_complete
<1>11. CASE b_request_state = "writeback_bus_op" BY <1>11, Zenon DEF Cache!b_request_complete
<1>12. CASE b_request_state = "cached_load_writeback" BY <1>12, Zenon DEF Cache!b_request_complete
<1>13. CASE b_request_state = "cached_store_stb_wait" BY <1>13, Zenon DEF Cache!b_request_complete
<1>14. CASE b_request_state = "invalidate_sync" BY <1>14, Zenon DEF Cache!b_request_complete
<1> QED BY <1>1, <1>2, <1>3, <1>4, <1>5, <1>6, <1>7, <1>8, <1>9, <1>10, <1>11, <1>12, <1>13, <1>14, Zenon

\* When the first word of a fill is there.
LEMMA FillDataReady ==
  ASSUME CInv, b_bus_op_state \in {"fill_first", "fill"}
  PROVE  Cache!b_bus_op_fill_load_data_ready <=> sys_ready
<1>1. CASE b_bus_op_state = "fill_first"
  <2>1. Cache!b_bus_op_fill_load_data_ready <=> Cache!b_bus_op_cycle_complete
    BY <1>1, Zenon DEF Cache!b_bus_op_fill_load_data_ready
  <2> QED BY <1>1, <2>1, BusReady
<1>2. CASE b_bus_op_state = "fill"
  BY <1>2, Zenon DEF Cache!b_bus_op_fill_load_data_ready
<1> QED BY <1>1, <1>2

\* The store at the head leaves the store buffer.
Pops == b_stb_state = "write" /\ (b_stb_write_bus => sys_ready)
\* It leaves at once, or when the bus has answered its store.
LEMMA PopsIsPop ==
  ASSUME CInv
  PROVE  /\ Cache!b_stb_pop <=> Pops
         /\ b_stb_state = "write" => (Cache!b_stb_pop_write <=> Pops)
         /\ b_stb_state = "write" /\ b_stb_write_bus =>
              b_bus_op_owner = "stb" /\ b_bus_op_state = "store"
<1>1. b_stb_state = "write" /\ b_stb_write_bus =>
        b_bus_op_owner = "stb" /\ b_bus_op_state = "store"
  BY DEF CInv, Owned, BusUse
<1> QED
  BY <1>1, BusReady DEF Pops, Cache!b_stb_pop, Cache!b_stb_pop_write

\* When a request is complete, in terms of the registers and the bus.
LEMMA Completion ==
  ASSUME CInv
  PROVE
  /\ b_request_state = "none" => Cache!b_request_complete
  /\ b_request_state \in {"uncached_load_mmu_access", "uncached_store_mmu_access"} =>
       (Cache!b_request_complete <=> b_request.mmuen)
  /\ b_request_state \in {"uncached_load_bus_op", "uncached_store_bus_op",
                         "cached_load_fill"} =>
       (Cache!b_request_complete <=> b_request_granted /\ sys_ready)
  /\ b_request_state = "cached_load_l1_access" /\ ~Cache!b_request_complete =>
       /\ ~b_request.mmuen
       /\ b_request_granted => ~Cache!b_request_cache_hit
  /\ b_request_state = "cached_store_l1_access" =>
       (Cache!b_request_complete <=> b_request.mmuen \/ b_request_granted)
  /\ b_request_state = "invalidate_l1_access" =>
       (Cache!b_request_complete <=> b_request_granted)
  /\ b_request_state = "writeback_l1_access" =>
       /\ b_request.mmuen => Cache!b_request_complete
       /\ ~b_request_granted /\ ~b_request.mmuen => ~Cache!b_request_complete
  /\ b_request_state = "writeback_bus_op" =>
       (Cache!b_request_complete <=>
          b_request_granted /\ b_bus_op_state = "writeback_last" /\ sys_ready)
  /\ b_request_state \in {"cached_load_writeback", "cached_store_stb_wait",
                         "invalidate_sync"} => ~Cache!b_request_complete
<1>1. Cache!b_bus_op_error = FALSE
  BY BusReady
<1>2. b_request_granted \in BOOLEAN
  BY DEF CInv, TypeOK
<1>3. b_request_state \in {"uncached_load_bus_op", "uncached_store_bus_op"} /\ b_request_granted =>
        (Cache!b_bus_op_cycle_complete <=> sys_ready)
  BY BusReady DEF CInv, Owned, BusUse, WantsBus
<1>4. b_request_state = "cached_load_fill" /\ b_request_granted =>
        (Cache!b_bus_op_fill_load_data_ready <=> sys_ready)
  BY FillDataReady DEF CInv, Owned, BusUse, WantsBus
<1>5. b_request_state = "cached_store_l1_access" => Cache!b_stb_can_push
  BY PopsIsPop DEF CInv, Room, Pops, Cache!b_stb_can_push
<1>6. Cache!b_bus_op_writeback_complete <=> (b_bus_op_state = "writeback_last" /\ sys_ready)
  BY BusReady
<1> QED
  BY <1>1, <1>2, <1>3, <1>4, <1>5, <1>6, CompleteByState
     DEF Cache!b_request_mmu_error, Cache!b_request_complete_cached_load_l1_access,
         Cache!b_request_complete_cached_store_l1_access,
         Cache!b_request_complete_writeback_l1_access

\* The next state of a request that is not complete, state by state.
LEMMA RequestNextState ==
  ASSUME NEW victim
  PROVE
  /\ b_request_state = "uncached_load_mmu_access" =>
       Cache!b_request_state_next(victim) = "uncached_load_bus_op"
  /\ b_request_state = "uncached_store_mmu_access" =>
       Cache!b_request_state_next(victim) = "uncached_store_bus_op"
  /\ b_request_state = "cached_load_l1_access" =>
       Cache!b_request_state_next(victim) =
         Cache!b_request_state_next_cached_load_l1_access(victim)
  /\ b_request_state = "cached_load_writeback" =>
       Cache!b_request_state_next(victim) =
         IF Cache!b_bus_op_writeback_complete THEN "cached_load_fill"
                                              ELSE "cached_load_writeback"
  /\ b_request_state = "cached_store_stb_wait" =>
       Cache!b_request_state_next(victim) =
         IF Cache!b_stb_pop THEN "cached_store_l1_access" ELSE "cached_store_stb_wait"
  /\ b_request_state = "invalidate_sync" =>
       Cache!b_request_state_next(victim) =
         IF Cache!b_request_sync THEN "invalidate_l1_access" ELSE "invalidate_sync"
  /\ b_request_state = "writeback_l1_access" =>
       Cache!b_request_state_next(victim) =
         IF b_request_granted THEN "writeback_bus_op" ELSE "writeback_l1_access"
  /\ b_request_state \in {"uncached_load_bus_op", "uncached_store_bus_op",
                         "cached_load_fill", "cached_store_l1_access",
                         "invalidate_l1_access", "writeback_bus_op"} =>
       Cache!b_request_state_next(victim) = b_request_state
<1>1. CASE b_request_state = "uncached_load_mmu_access"
  BY <1>1, Zenon DEF Cache!b_request_state_next
<1>2. CASE b_request_state = "uncached_store_mmu_access"
  BY <1>2, Zenon DEF Cache!b_request_state_next
<1>3. CASE b_request_state = "cached_load_l1_access"
  BY <1>3, Zenon DEF Cache!b_request_state_next
<1>4. CASE b_request_state = "cached_load_writeback"
  BY <1>4, Zenon DEF Cache!b_request_state_next
<1>5. CASE b_request_state = "cached_store_stb_wait"
  BY <1>5, Zenon DEF Cache!b_request_state_next
<1>6. CASE b_request_state = "invalidate_sync"
  BY <1>6, Zenon DEF Cache!b_request_state_next
<1>7. CASE b_request_state = "writeback_l1_access"
  BY <1>7, Zenon DEF Cache!b_request_state_next
<1>8. CASE b_request_state = "uncached_load_bus_op"
  BY <1>8, Zenon DEF Cache!b_request_state_next
<1>9. CASE b_request_state = "uncached_store_bus_op"
  BY <1>9, Zenon DEF Cache!b_request_state_next
<1>10. CASE b_request_state = "cached_load_fill"
  BY <1>10, Zenon DEF Cache!b_request_state_next
<1>11. CASE b_request_state = "cached_store_l1_access"
  BY <1>11, Zenon DEF Cache!b_request_state_next
<1>12. CASE b_request_state = "invalidate_l1_access"
  BY <1>12, Zenon DEF Cache!b_request_state_next
<1>13. CASE b_request_state = "writeback_bus_op"
  BY <1>13, Zenon DEF Cache!b_request_state_next
<1> QED BY <1>1, <1>2, <1>3, <1>4, <1>5, <1>6, <1>7, <1>8, <1>9, <1>10, <1>11,
           <1>12, <1>13

\* The first state of a request that the cache takes.
LEMMA RequestFirstState ==
  ASSUME NEW i \in Accepted
  PROVE
  /\ i.code = "none" => Cache!a_new_request_state(i) = "none"
  /\ i.code = "load" =>
       Cache!a_new_request_state(i) =
         IF i.cacheen THEN "cached_load_l1_access" ELSE "uncached_load_mmu_access"
  /\ i.code = "store" =>
       Cache!a_new_request_state(i) = Cache!a_new_request_state_store(i)
  /\ i.code = "invalidate" => Cache!a_new_request_state(i) = "invalidate_sync"
  /\ i.code = "writeback" => Cache!a_new_request_state(i) = "writeback_l1_access"
<1>1. CASE i.code = "none" BY <1>1, Zenon DEF Cache!a_new_request_state
<1>2. CASE i.code = "load" BY <1>2, Zenon DEF Cache!a_new_request_state
<1>3. CASE i.code = "store" BY <1>3, Zenon DEF Cache!a_new_request_state
<1>4. CASE i.code = "invalidate" BY <1>4, Zenon DEF Cache!a_new_request_state
<1>5. CASE i.code = "writeback" BY <1>5, Zenon DEF Cache!a_new_request_state
<1> QED BY <1>1, <1>2, <1>3, <1>4, <1>5, RequestFields

\* The next state of the store buffer, state by state.
LEMMA StbNextState ==
  ASSUME NEW victim, CInv
  PROVE
  /\ b_stb_state = "init" => Cache!b_stb_state_next(victim) = "init"
  /\ b_stb_state = "replace_access" =>
       Cache!b_stb_state_next(victim) =
         IF Cache!b_replace_way_dirty(victim) THEN "writeback" ELSE "fill"
  /\ b_stb_state = "writeback" =>
       Cache!b_stb_state_next(victim) =
         IF b_bus_op_state = "writeback_last" /\ sys_ready THEN "fill" ELSE "writeback"
  /\ b_stb_state = "fill" =>
       Cache!b_stb_state_next(victim) = IF b_bus_op_state = "fill_last" THEN "write" ELSE "fill"
  /\ b_stb_state = "write" =>
       Cache!b_stb_state_next(victim) = IF Pops THEN "init" ELSE "write"
<1>1. CASE b_stb_state = "init"
  BY <1>1, Zenon DEF Cache!b_stb_state_next
<1>2. CASE b_stb_state = "replace_access"
  BY <1>2, Zenon DEF Cache!b_stb_state_next
<1>3. CASE b_stb_state = "writeback"
  <2>1. Cache!b_stb_state_next(victim) =
          IF Cache!b_bus_op_writeback_complete THEN "fill" ELSE "writeback"
    BY <1>3, Zenon DEF Cache!b_stb_state_next
  <2> QED BY <1>3, <2>1, BusReady
<1>4. CASE b_stb_state = "fill"
  <2>1. Cache!b_stb_state_next(victim) =
          IF Cache!b_bus_op_fill_complete THEN "write" ELSE "fill"
    BY <1>4, Zenon DEF Cache!b_stb_state_next
  <2> QED BY <1>4, <2>1, BusReady
<1>5. CASE b_stb_state = "write"
  <2>1. Cache!b_stb_state_next(victim) = IF Cache!b_stb_pop_write THEN "init" ELSE "write"
    BY <1>5, Zenon DEF Cache!b_stb_state_next
  <2> QED BY <1>5, <2>1, PopsIsPop
<1> QED BY <1>1, <1>2, <1>3, <1>4, <1>5

-----------------------------------------------------------------------------
(***************************************************************************)
(* The owners of the RAMs and of the bus.                                  *)
(***************************************************************************)
\* The bus operation lets go of the RAMs.
CacheReleased ==
  \/ b_bus_op_state = "fill_last"
  \/ /\ b_bus_op_owner = "request" /\ b_request_state = "writeback_bus_op"
     /\ b_bus_op_state = "writeback_last" /\ sys_ready
CacheKept ==
  \/ b_stb_state = "replace_access"
  \/ b_bus_op_state \in FillStates \cup WritebackStates /\ ~CacheReleased
VtramNext == IF CacheKept THEN "bus_op" ELSE "none"
RmdramNext ==
  IF CacheKept THEN "bus_op"
  ELSE IF b_bus_op_state = "fill_last" /\ b_bus_op_owner = "stb" THEN "stb"
  ELSE "none"

\* Who keeps the RAMs, or hands them on, is known from the states alone.
LEMMA RamOwnersNext ==
  ASSUME CInv
  PROVE  /\ Cache!b_vtram_owner_next = VtramNext
         /\ Cache!b_rmdram_owner_next = RmdramNext
<1>1. Cache!b_bus_op_error = FALSE
  BY BusReady
<1>2. /\ b_vtram_owner = "none" => Cache!b_vtram_owner_next = "none"
      /\ b_vtram_owner = "request" =>
           Cache!b_vtram_owner_next =
             IF Cache!b_vtram_owner_next_request_none THEN "none" ELSE "request"
      /\ b_vtram_owner = "stb" =>
           Cache!b_vtram_owner_next = Cache!b_cache_owner_next_stb
      /\ b_vtram_owner = "bus_op" =>
           Cache!b_vtram_owner_next =
             IF Cache!b_cache_owner_next_bus_op_none THEN "none" ELSE "bus_op"
  <2>1. CASE b_vtram_owner = "none" BY <1>1, <2>1, Zenon DEF Cache!b_vtram_owner_next
  <2>2. CASE b_vtram_owner = "request" BY <1>1, <2>2, Zenon DEF Cache!b_vtram_owner_next
  <2>3. CASE b_vtram_owner = "stb" BY <1>1, <2>3, Zenon DEF Cache!b_vtram_owner_next
  <2>4. CASE b_vtram_owner = "bus_op" BY <1>1, <2>4, Zenon DEF Cache!b_vtram_owner_next
  <2> QED BY <2>1, <2>2, <2>3, <2>4
<1>3. /\ b_rmdram_owner \in {"none", "request"} => Cache!b_rmdram_owner_next = "none"
      /\ b_rmdram_owner = "stb" =>
           Cache!b_rmdram_owner_next = Cache!b_cache_owner_next_stb
      /\ b_rmdram_owner = "bus_op" =>
           Cache!b_rmdram_owner_next =
             IF ~Cache!b_cache_owner_next_bus_op_none THEN "bus_op"
             ELSE IF b_bus_op_owner = "stb" THEN "stb" ELSE "none"
  <2>1. CASE b_rmdram_owner = "none" BY <1>1, <2>1, Zenon DEF Cache!b_rmdram_owner_next
  <2>2. CASE b_rmdram_owner = "request" BY <1>1, <2>2, Zenon DEF Cache!b_rmdram_owner_next
  <2>3. CASE b_rmdram_owner = "stb" BY <1>1, <2>3, Zenon DEF Cache!b_rmdram_owner_next
  <2>4. CASE b_rmdram_owner = "bus_op" BY <1>1, <2>4, Zenon DEF Cache!b_rmdram_owner_next
  <2> QED BY <2>1, <2>2, <2>3, <2>4
<1>4. /\ b_vtram_owner \in Cache!Owners /\ b_rmdram_owner \in Cache!Owners
      /\ b_request_granted \in BOOLEAN
  BY DEF CInv, TypeOK
<1>5. b_vtram_owner = "request" => Cache!b_vtram_owner_next_request_none
  <2>1. b_vtram_owner = "request" => b_request_granted
    BY DEF CInv, Owned
  <2>2. b_request_state = "cached_store_l1_access" => Cache!b_stb_can_push
    BY PopsIsPop DEF CInv, Room, Pops, Cache!b_stb_can_push
  <2> QED
    BY <2>1, <2>2 DEF Cache!b_vtram_owner_next_request_none,
                      Cache!b_request_complete_cached_store_l1_access
<1>6. b_vtram_owner = "bus_op" \/ b_rmdram_owner = "bus_op" =>
        /\ b_bus_op_state \in FillStates \cup WritebackStates
        /\ b_stb_state # "replace_access"
        /\ Cache!b_cache_owner_next_bus_op_none <=> CacheReleased
  BY BusReady DEF CInv, Owned, BusUse, FillStates, WritebackStates, ReplaceStates,
       CacheReleased, Cache!b_cache_owner_next_bus_op_none
<1>7. /\ b_vtram_owner = "stb" => b_stb_state = "replace_access"
      /\ b_rmdram_owner = "stb" => b_bus_op_state \notin FillStates \cup WritebackStates
  BY DEF CInv, Owned
<1>8. /\ b_vtram_owner \in {"none", "request"} =>
           /\ b_bus_op_state \notin FillStates \cup WritebackStates
           /\ b_stb_state # "replace_access"
      /\ b_rmdram_owner \in {"none", "request"} =>
           /\ b_bus_op_state \notin FillStates \cup WritebackStates
           /\ b_stb_state # "replace_access"
  BY DEF CInv, Owned
<1>9. b_bus_op_state = "fill_last" => b_bus_op_state \in FillStates
  BY DEF FillStates
<1> QED
  BY <1>2, <1>3, <1>4, <1>5, <1>6, <1>7, <1>8, <1>9
     DEF VtramNext, RmdramNext, CacheKept, CacheReleased, Cache!Owners, Cache!b_cache_owner_next_stb,
         FillStates, WritebackStates

\* The owner of the bus passes it on.
RequestPassesBus ==
  IF b_request_state \in {"uncached_load_bus_op", "uncached_store_bus_op"} /\ sys_ready
    THEN "none"
  ELSE IF b_request_state = "cached_load_fill" /\ sys_ready THEN "bus_op"
  ELSE IF b_request_state = "writeback_bus_op" /\ b_bus_op_state = "writeback_last" /\ sys_ready
    THEN "none"
  ELSE "request"
StbPassesBus ==
  IF b_stb_state = "fill" /\ b_bus_op_state = "fill_last" /\ ~b_stb_write_bus THEN "none"
  ELSE IF b_stb_state = "write" /\ sys_ready THEN "none"
  ELSE "stb"
BusNext ==
  IF b_bus_op_owner = "request" THEN RequestPassesBus
  ELSE IF b_bus_op_owner = "stb" THEN StbPassesBus
  ELSE IF b_bus_op_owner = "bus_op" /\ b_bus_op_state = "fill" THEN "bus_op"
  ELSE "none"

\* So it is with the bus.
LEMMA BusOwnerNext ==
  ASSUME CInv
  PROVE  Cache!b_bus_op_owner_next = BusNext
<1>1. Cache!b_bus_op_error = FALSE
  BY BusReady
<1>2. CASE b_bus_op_owner = "none"
  <2>1. Cache!b_bus_op_owner_next = "none"
    BY <1>1, <1>2, Zenon DEF Cache!b_bus_op_owner_next
  <2> QED BY <1>2, <2>1 DEF BusNext
<1>3. CASE b_bus_op_owner = "request"
  <2>1. Cache!b_bus_op_owner_next = Cache!b_bus_op_owner_next_request
    BY <1>1, <1>3, Zenon DEF Cache!b_bus_op_owner_next
  <2>2. b_request_state \in WantsBus /\ b_bus_op_state # "none"
    BY <1>3 DEF CInv, Owned, BusUse, WantsBus, WritebackStates
  <2>3. CASE b_request_state = "uncached_load_bus_op"
    <3>1. Cache!b_bus_op_owner_next_request =
            IF Cache!b_bus_op_cycle_complete THEN "none" ELSE "request"
      BY <2>3, Zenon DEF Cache!b_bus_op_owner_next_request
    <3> QED BY <1>3, <2>1, <2>2, <2>3, <3>1, BusReady DEF BusNext, RequestPassesBus
  <2>4. CASE b_request_state = "uncached_store_bus_op"
    <3>1. Cache!b_bus_op_owner_next_request =
            IF Cache!b_bus_op_cycle_complete THEN "none" ELSE "request"
      BY <2>4, Zenon DEF Cache!b_bus_op_owner_next_request
    <3> QED BY <1>3, <2>1, <2>2, <2>4, <3>1, BusReady DEF BusNext, RequestPassesBus
  <2>5. CASE b_request_state = "cached_load_writeback"
    <3>1. Cache!b_bus_op_owner_next_request = "request"
      BY <2>5, Zenon DEF Cache!b_bus_op_owner_next_request
    <3> QED BY <1>3, <2>1, <2>5, <3>1 DEF BusNext, RequestPassesBus
  <2>6. CASE b_request_state = "cached_load_fill"
    <3>1. Cache!b_bus_op_owner_next_request =
            IF Cache!b_bus_op_fill_load_data_ready THEN "bus_op" ELSE "request"
      BY <2>6, Zenon DEF Cache!b_bus_op_owner_next_request
    <3>2. Cache!b_bus_op_fill_load_data_ready <=> sys_ready
      BY <1>3, <2>6, FillDataReady DEF CInv, BusUse
    <3> QED BY <1>3, <2>1, <2>6, <3>1, <3>2 DEF BusNext, RequestPassesBus
  <2>7. CASE b_request_state = "writeback_bus_op"
    <3>1. Cache!b_bus_op_owner_next_request =
            IF Cache!b_bus_op_writeback_complete THEN "none" ELSE "request"
      BY <2>7, Zenon DEF Cache!b_bus_op_owner_next_request
    <3> QED BY <1>3, <2>1, <2>7, <3>1, BusReady DEF BusNext, RequestPassesBus
  <2> QED BY <2>2, <2>3, <2>4, <2>5, <2>6, <2>7 DEF WantsBus
<1>4. CASE b_bus_op_owner = "stb"
  <2>1. Cache!b_bus_op_owner_next = Cache!b_bus_op_owner_next_stb
    BY <1>1, <1>4, Zenon DEF Cache!b_bus_op_owner_next
  <2>2. b_stb_state \in ReplaceStates \cup {"write"}
    BY <1>4 DEF CInv, Owned
  <2>3. CASE b_stb_state = "replace_access"
    <3>1. Cache!b_bus_op_owner_next_stb = "stb"
      BY <2>3, Zenon DEF Cache!b_bus_op_owner_next_stb
    <3> QED BY <1>4, <2>1, <2>3, <3>1 DEF BusNext, StbPassesBus
  <2>4. CASE b_stb_state = "writeback"
    <3>1. Cache!b_bus_op_owner_next_stb = "stb"
      BY <2>4, Zenon DEF Cache!b_bus_op_owner_next_stb
    <3> QED BY <1>4, <2>1, <2>4, <3>1 DEF BusNext, StbPassesBus
  <2>5. CASE b_stb_state = "fill"
    <3>1. Cache!b_bus_op_owner_next_stb =
            IF Cache!b_bus_op_fill_complete /\ ~b_stb_write_bus THEN "none" ELSE "stb"
      BY <2>5, Zenon DEF Cache!b_bus_op_owner_next_stb
    <3> QED BY <1>4, <2>1, <2>5, <3>1, BusReady DEF BusNext, StbPassesBus
  <2>6. CASE b_stb_state = "write"
    <3>1. Cache!b_bus_op_owner_next_stb =
            IF Cache!b_bus_op_cycle_complete THEN "none" ELSE "stb"
      BY <2>6, Zenon DEF Cache!b_bus_op_owner_next_stb
    <3>2. Cache!b_bus_op_cycle_complete <=> sys_ready
      BY <1>4, <2>6, BusReady DEF CInv, BusUse
    <3> QED BY <1>4, <2>1, <2>6, <3>1, <3>2 DEF BusNext, StbPassesBus
  <2> QED BY <2>2, <2>3, <2>4, <2>5, <2>6 DEF ReplaceStates
<1>5. CASE b_bus_op_owner = "bus_op"
  <2>1. CASE b_bus_op_state = "fill"
    <3>1. Cache!b_bus_op_owner_next = "bus_op"
      BY <1>1, <1>5, <2>1, Zenon DEF Cache!b_bus_op_owner_next
    <3> QED BY <1>5, <2>1, <3>1 DEF BusNext
  <2>2. CASE b_bus_op_state = "fill_last"
    <3>1. Cache!b_bus_op_owner_next = "none"
      BY <1>1, <1>5, <2>2, Zenon DEF Cache!b_bus_op_owner_next
    <3> QED BY <1>5, <2>2, <3>1 DEF BusNext
  <2> QED BY <1>5, <2>1, <2>2 DEF CInv, BusUse
<1> QED BY <1>2, <1>3, <1>4, <1>5 DEF CInv, TypeOK, Cache!Owners

-----------------------------------------------------------------------------
(***************************************************************************)
(* The control after a cycle.                                              *)
(***************************************************************************)
\* What the request does.
LEMMA RequestMoves ==
  ASSUME CInv, NEW i, NEW victim, Cycled(i, victim)
  PROVE  /\ b_request_granted' \in BOOLEAN
         /\ Cache!b_request_complete => b_request_state' = Cache!a_new_request_state(i)
         /\ ~Cache!b_request_complete => b_request_state' = Cache!b_request_state_next(victim)
         /\ b_request_granted' <=>
              /\ b_request_state' \in WantsVtram => VtramNext = "none"
              /\ b_request_state' \in WantsRmdram => RmdramNext = "none"
              /\ b_request_state' \in WantsBus => BusNext \in {"request", "none"}
<1>1. /\ b_request_granted' = Cache!a_request_granted
      /\ b_request_state' = IF Cache!b_request_complete THEN Cache!a_new_request_state(i)
                            ELSE Cache!b_request_state_next(victim)
  BY DEF Cycled, Cache!Clock, Cache!Request
<1>2. /\ Cache!a_request_want_vtram <=> b_request_state' \in WantsVtram
      /\ Cache!a_request_want_rmdram <=> b_request_state' \in WantsRmdram
      /\ Cache!a_request_want_bus_op <=> b_request_state' \in WantsBus
  BY DEF Cache!a_request_want_vtram, Cache!a_request_want_rmdram,
         Cache!a_request_want_bus_op, WantsVtram, WantsRmdram, WantsBus
<1>3. /\ Cache!b_vtram_owner_next \in {"request", "none"} <=> VtramNext = "none"
      /\ Cache!b_rmdram_owner_next \in {"request", "none"} <=> RmdramNext = "none"
      /\ Cache!b_bus_op_owner_next \in {"request", "none"} <=> BusNext \in {"request", "none"}
  BY RamOwnersNext, BusOwnerNext DEF VtramNext, RmdramNext
<1>4. Cache!a_request_granted \in BOOLEAN
  BY DEF Cache!a_request_granted
<1> QED BY <1>1, <1>2, <1>3, <1>4 DEF Cache!a_request_granted

\* The state of a request, from its last one.
LEMMA RequestStates ==
  ASSUME CInv, NEW i, NEW victim, Cycled(i, victim)
  PROVE
  /\ Cache!b_request_complete =>
       /\ i.code = "none" => b_request_state' = "none"
       /\ i.code = "load" =>
            b_request_state' = IF i.cacheen THEN "cached_load_l1_access"
                                            ELSE "uncached_load_mmu_access"
       /\ i.code = "store" =>
            IF i.cacheen
            THEN b_request_state' = IF Cache!a_stb_full /\ ~Cache!a_stb_quick_store
                                    THEN "cached_store_stb_wait" ELSE "cached_store_l1_access"
            ELSE b_request_state' = "uncached_store_mmu_access"
       /\ i.code = "invalidate" => b_request_state' = "invalidate_sync"
       /\ i.code = "writeback" => b_request_state' = "writeback_l1_access"
  /\ ~Cache!b_request_complete =>
       /\ b_request_state # "none"
       /\ b_request_state = "uncached_load_mmu_access" =>
            b_request_state' = "uncached_load_bus_op"
       /\ b_request_state = "uncached_store_mmu_access" =>
            b_request_state' = "uncached_store_bus_op"
       /\ b_request_state = "cached_load_l1_access" =>
            b_request_state' = IF ~b_request_granted THEN "cached_load_l1_access"
                               ELSE IF Cache!b_replace_way_dirty(victim)
                               THEN "cached_load_writeback" ELSE "cached_load_fill"
       /\ b_request_state = "cached_load_writeback" =>
            b_request_state' = IF b_bus_op_state = "writeback_last" /\ sys_ready
                               THEN "cached_load_fill" ELSE "cached_load_writeback"
       /\ b_request_state = "cached_store_stb_wait" =>
            b_request_state' = IF Pops THEN "cached_store_l1_access"
                                       ELSE "cached_store_stb_wait"
       /\ b_request_state = "invalidate_sync" =>
            b_request_state' = IF Cache!b_request_sync THEN "invalidate_l1_access"
                                                       ELSE "invalidate_sync"
       /\ b_request_state = "writeback_l1_access" =>
            b_request_state' = IF b_request_granted THEN "writeback_bus_op"
                                                    ELSE "writeback_l1_access"
       /\ b_request_state \in {"uncached_load_bus_op", "uncached_store_bus_op",
                              "cached_load_fill", "cached_store_l1_access",
                              "invalidate_l1_access", "writeback_bus_op"} =>
            b_request_state' = b_request_state
<1>1. i \in Accepted
  BY RequestStep
<1>2. b_request_state = "cached_load_l1_access" => b_request.alloc
  BY RequestFields DEF CInv, TypeOK, RequestKnown
<1>3. CASE Cache!b_request_complete
  BY <1>1, <1>3, RequestMoves, RequestFirstState DEF Cache!a_new_request_state_store
<1>4. CASE ~Cache!b_request_complete
  <2>1. b_request_state' = Cache!b_request_state_next(victim)
    BY <1>4, RequestMoves
  <2>2. b_request_state # "none"
    BY <1>4, Completion
  <2>3. /\ Cache!b_bus_op_writeback_complete <=> (b_bus_op_state = "writeback_last" /\ sys_ready)
        /\ Cache!b_stb_pop <=> Pops
    BY BusReady, PopsIsPop
  <2>4. b_request_state = "cached_load_l1_access" =>
            b_request_state' = IF ~b_request_granted THEN "cached_load_l1_access"
                               ELSE IF Cache!b_replace_way_dirty(victim)
                               THEN "cached_load_writeback" ELSE "cached_load_fill"
    BY <1>2, <2>1, RequestNextState DEF Cache!b_request_state_next_cached_load_l1_access
  <2> QED BY <1>4, <2>1, <2>2, <2>3, <2>4, RequestNextState
<1> QED BY <1>3, <1>4

\* A request begins to want the bus only from these states, and having it stays
\* with it until it is complete.
LEMMA RequestAndBus ==
  ASSUME CInv, NEW i, NEW victim, Cycled(i, victim)
  PROVE
  /\ Cache!b_request_complete => b_request_state' \notin WantsBus
  /\ ~Cache!b_request_complete /\ b_request_state \in WantsBus => b_request_state' \in WantsBus
  /\ b_request_state' \in {"uncached_load_bus_op", "uncached_store_bus_op"} =>
       b_request_state \in {b_request_state', "uncached_load_mmu_access",
                            "uncached_store_mmu_access"}
  /\ b_request_state' \in {"cached_load_writeback", "cached_load_fill", "writeback_bus_op"} =>
       \/ b_request_state \in {"cached_load_writeback", "cached_load_fill", "writeback_bus_op"}
       \/ /\ b_request_state \in {"cached_load_l1_access", "writeback_l1_access"}
          /\ b_request_granted
  /\ b_request_state' # "none" /\ ~Cache!b_request_complete => b_request_state # "none"
<1>1. i \in Accepted /\ b_request_state \in Cache!RequestStates
  BY RequestStep DEF CInv, TypeOK
<1>2. CASE Cache!b_request_complete
  <2>1. b_request_state' \in {"none", "cached_load_l1_access", "uncached_load_mmu_access",
           "cached_store_stb_wait", "cached_store_l1_access", "uncached_store_mmu_access",
           "invalidate_sync", "writeback_l1_access"}
    BY <1>1, <1>2, RequestStates, RequestFields
  <2> QED BY <1>2, <2>1 DEF WantsBus
<1>3. CASE ~Cache!b_request_complete
  BY <1>1, <1>3, RequestStates DEF Cache!RequestStates, WantsBus
<1> QED BY <1>2, <1>3

\* What the store buffer does: it starts with the entry at its head, or goes on.
StbStarts ==
  /\ b_stb_state \in {"init", "write"}
  /\ b_stb_state = "write" => Pops
  /\ Cache!a_stb_head # NoEntry
  /\ b_request_state' \notin WantsBus
  /\ RmdramNext = "none"
  /\ BusNext = "none"
  /\ ~(b_request_granted' /\ b_request_state' \in WantsRmdram)
  /\ b_stb_write_cache' = (Cache!a_stb_head.cache_hit \/ Cache!a_stb_head.alloc)
  /\ b_stb_write_bus' = (\/ Cache!a_stb_head.writethrough
                         \/ ~Cache!a_stb_head.alloc /\ ~Cache!a_stb_head.cache_hit)
  /\ b_stb_way' = Cache!a_stb_head.way
  /\ IF ~Cache!a_stb_head.cache_hit /\ Cache!a_stb_head.alloc
     THEN /\ b_stb_state' = "replace_access"
          /\ VtramNext = "none"
          /\ ~(b_request_granted' /\ b_request_state' \in WantsVtram)
     ELSE b_stb_state' = "write"
StbGoesOn(victim) ==
  /\ b_stb_state' =
       IF b_stb_state = "replace_access"
         THEN IF Cache!b_replace_way_dirty(victim) THEN "writeback" ELSE "fill"
       ELSE IF b_stb_state = "writeback"
         THEN IF b_bus_op_state = "writeback_last" /\ sys_ready THEN "fill" ELSE "writeback"
       ELSE IF b_stb_state = "fill"
         THEN IF b_bus_op_state = "fill_last" THEN "write" ELSE "fill"
       ELSE IF b_stb_state = "write"
         THEN IF Pops THEN "init" ELSE "write"
       ELSE "init"
  /\ b_stb_write_cache' = (b_stb_state \in ReplaceStates /\ b_stb_write_cache)
  /\ b_stb_write_bus' = b_stb_write_bus
  /\ b_stb_way' = Cache!b_stb_way_next(victim)

\* When the store buffer may start, nobody holds on to the bus.
LEMMA BusPassed ==
  ASSUME CInv, NEW i, NEW victim, Cycled(i, victim),
         b_stb_state \in {"init", "write"}, b_stb_state = "write" => Pops,
         b_request_state' \notin WantsBus, RmdramNext # "bus_op"
  PROVE  BusNext = "none" /\ RmdramNext = "none"
<1>1. RmdramNext = "none"
  BY DEF RmdramNext, CInv, BusUse, Owned, ReplaceStates
<1>2. CASE b_bus_op_owner = "request"
  <2>1. /\ b_request_state \in WantsBus /\ b_request_granted
        /\ b_request_state = "cached_load_fill" => b_bus_op_state \in {"fill_first", "fill"}
    BY <1>2 DEF CInv, Owned, BusUse
  <2>2. Cache!b_request_complete
    BY <2>1, RequestAndBus
  <2>3. ~CacheKept
    BY <1>1 DEF RmdramNext
  <2>4. b_request_state # "cached_load_fill"
    BY <2>1, <2>3, <1>2 DEF CacheKept, CacheReleased, FillStates
  <2> QED BY <1>1, <1>2, <2>1, <2>2, <2>4, Completion DEF BusNext, RequestPassesBus, WantsBus
<1>3. CASE b_bus_op_owner = "stb"
  <2>1. b_stb_state = "write" /\ b_stb_write_bus /\ sys_ready
    BY <1>3 DEF CInv, Owned, ReplaceStates, Pops
  <2> QED BY <1>1, <1>3, <2>1 DEF BusNext, StbPassesBus
<1>4. CASE b_bus_op_owner \notin {"request", "stb"}
  <2>1. ~(b_bus_op_owner = "bus_op" /\ b_bus_op_state = "fill")
    BY <1>1 DEF RmdramNext, CacheKept, CacheReleased, FillStates
  <2> QED BY <1>1, <1>4, <2>1 DEF BusNext
<1> QED BY <1>2, <1>3, <1>4

\* The store buffer starts with a new head or goes on with the one it has.
LEMMA StbMoves ==
  ASSUME CInv, NEW i, NEW victim, Cycled(i, victim)
  PROVE  StbStarts \/ StbGoesOn(victim)
<1>1. b_stb_state \in Cache!StbStates
  BY DEF CInv, TypeOK
<1>2. CASE Cache!a_stb_activate(victim)
  <2>1. Cache!StbActivate
    BY <1>2 DEF Cycled, Cache!Clock, Cache!StbControl
  <2>2. /\ b_stb_state \in {"init", "write"}
        /\ b_stb_state = "write" => Pops
    BY <1>1, <1>2, StbNextState DEF Cache!a_stb_activate, Cache!StbStates
  <2>3. /\ b_request_state' \notin WantsBus
        /\ ~(b_request_granted' /\ b_request_state' \in WantsRmdram)
    BY <1>2 DEF Cache!a_stb_activate, Cache!a_request_want_bus_op,
         Cache!a_request_want_rmdram, WantsBus, WantsRmdram, WantsVtram
  <2>4. RmdramNext \in {"stb", "none"}
    BY <1>2, RamOwnersNext DEF Cache!a_stb_activate
  <2>5. RmdramNext = "none" /\ BusNext = "none"
    BY <2>2, <2>3, <2>4, BusPassed
  <2>6. ~Cache!a_stb_head.cache_hit /\ Cache!a_stb_head.alloc =>
          /\ VtramNext = "none"
          /\ ~(b_request_granted' /\ b_request_state' \in WantsVtram)
    BY <1>2, RamOwnersNext DEF Cache!a_stb_activate, VtramNext, WantsVtram,
         Cache!a_request_want_vtram
  <2>7. Cache!a_stb_head # NoEntry
    BY <1>2 DEF Cache!a_stb_activate, Cache!a_stb_head_valid
  <2> QED BY <2>1, <2>2, <2>3, <2>5, <2>6, <2>7 DEF StbStarts, Cache!StbActivate
<1>3. CASE ~Cache!a_stb_activate(victim)
  <2>1. Cache!StbContinue(victim)
    BY <1>3 DEF Cycled, Cache!Clock, Cache!StbControl
  <2> QED BY <1>1, <2>1, StbNextState
          DEF StbGoesOn, Cache!StbContinue, Cache!StbStates, Cache!b_stb_write_cache_next,
              ReplaceStates
<1> QED BY <1>2, <1>3

\* Who wants the bus in the next cycle, and is let through.
RequestTakesBus == b_request_granted' /\ b_request_state' \in WantsBus
StbTakesBus ==
  \/ b_stb_state' \in ReplaceStates
  \/ b_stb_state' = "write" /\ b_stb_write_bus'

\* The store buffer wants a bus that it has, or one that nobody wants.
LEMMA StbAndBus ==
  ASSUME CInv, NEW i, NEW victim, Cycled(i, victim)
  PROVE  /\ StbTakesBus => BusNext \in {"stb", "none"}
         /\ BusNext = "stb" => StbTakesBus
         /\ ~(StbTakesBus /\ RequestTakesBus)
<1>1. CASE StbStarts
  BY <1>1 DEF StbStarts, StbTakesBus, RequestTakesBus, ReplaceStates
<1>2. CASE StbGoesOn(victim)
  <2>1. b_bus_op_owner = "stb" <=>
          b_stb_state \in ReplaceStates \/ (b_stb_state = "write" /\ b_stb_write_bus)
    BY DEF CInv, Owned
  <2>2. StbTakesBus <=> BusNext = "stb"
    <3>1. b_stb_write_bus \in BOOLEAN
      BY DEF CInv, TypeOK
    <3>2. BusNext = "stb" <=> b_bus_op_owner = "stb" /\ StbPassesBus = "stb"
      BY DEF BusNext, RequestPassesBus
    <3> QED BY <1>2, <2>1, <3>1, <3>2 DEF StbGoesOn, StbTakesBus, StbPassesBus, Pops, ReplaceStates
  <2>3. RequestTakesBus => BusNext \in {"request", "none"}
    BY RequestMoves DEF RequestTakesBus
  <2> QED BY <2>2, <2>3
<1> QED BY <1>1, <1>2, StbMoves

\* A request that has the bus and is not done keeps it.
LEMMA RequestKeepsBus ==
  ASSUME CInv, NEW i, NEW victim, Cycled(i, victim)
  PROVE  /\ RequestTakesBus => BusNext \in {"request", "none"}
         /\ BusNext = "request" => RequestTakesBus
<1>1. RequestTakesBus => BusNext \in {"request", "none"}
  BY RequestMoves DEF RequestTakesBus
<1>2. ASSUME BusNext = "request" PROVE RequestTakesBus
  <2>1. /\ b_bus_op_owner = "request"
        /\ RequestPassesBus = "request"
    BY <1>2 DEF BusNext, StbPassesBus
  <2>2. b_request_state \in WantsBus /\ b_request_granted
    BY <2>1 DEF CInv, Owned
  <2>3. ~Cache!b_request_complete
    BY <2>1, <2>2, Completion DEF RequestPassesBus, WantsBus
  <2>4. b_request_state' \in WantsBus
    BY <2>2, <2>3, RequestAndBus
  <2>5. b_request_state' \notin WantsVtram \cup WantsRmdram
    BY <2>4 DEF WantsBus, WantsVtram, WantsRmdram
  <2> QED BY <1>2, <2>4, <2>5, RequestMoves DEF RequestTakesBus
<1> QED BY <1>1, <1>2

\* The bus is passed on when the bus operation is over.
LEMMA BusFree ==
  ASSUME CInv
  PROVE  /\ BusNext = "none" => Cache!b_bus_op_complete
         /\ BusNext = "bus_op" =>
              ~Cache!b_bus_op_complete /\ b_bus_op_state \in {"fill_first", "fill"}
<1>1. BusNext = "bus_op" => b_bus_op_state \in {"fill_first", "fill"}
  BY DEF BusNext, RequestPassesBus, StbPassesBus, CInv, BusUse
<1>2. CASE b_bus_op_owner = "request"
  BY <1>1, <1>2, BusReady DEF BusNext, RequestPassesBus, CInv, Owned, BusUse, WantsBus
<1>3. CASE b_bus_op_owner = "stb"
  BY <1>1, <1>3, BusReady DEF BusNext, StbPassesBus, CInv, Owned, BusUse, ReplaceStates
<1>4. CASE b_bus_op_owner \in {"none", "bus_op"}
  BY <1>1, <1>4, BusReady DEF BusNext, CInv, Owned, BusUse
<1> QED BY <1>1, <1>2, <1>3, <1>4 DEF CInv, TypeOK, Cache!Owners

\* The owner of the bus after the cycle.
LEMMA BusOwnerStep ==
  ASSUME CInv, NEW i, NEW victim, Cycled(i, victim)
  PROVE  /\ b_bus_op_owner' =
              IF RequestTakesBus THEN "request"
              ELSE IF StbTakesBus THEN "stb"
              ELSE IF BusNext = "bus_op" THEN "bus_op"
              ELSE "none"
         /\ Cache!b_bus_op_complete => Cache!a_new_bus_op_owner = b_bus_op_owner'
<1>1. b_bus_op_owner' = IF BusNext # "none" THEN BusNext ELSE Cache!a_new_bus_op_owner
  BY BusOwnerNext DEF Cycled, Cache!Clock, Cache!BusOp
<1>2. /\ Cache!a_new_bus_op_request <=> RequestTakesBus
      /\ Cache!a_stb_want_bus_op <=> StbTakesBus
  BY DEF Cache!a_new_bus_op_request, RequestTakesBus, Cache!a_request_want_bus_op, WantsBus,
         Cache!a_stb_want_bus_op, StbTakesBus, ReplaceStates
<1>3. /\ RequestTakesBus /\ ~StbTakesBus => Cache!a_new_bus_op_owner = "request"
      /\ ~RequestTakesBus /\ StbTakesBus => Cache!a_new_bus_op_owner = "stb"
      /\ ~RequestTakesBus /\ ~StbTakesBus => Cache!a_new_bus_op_owner = "none"
  <2>1. CASE RequestTakesBus /\ ~StbTakesBus
    BY <1>2, <2>1, Zenon DEF Cache!a_new_bus_op_owner
  <2>2. CASE ~RequestTakesBus /\ StbTakesBus
    BY <1>2, <2>2, Zenon DEF Cache!a_new_bus_op_owner
  <2>3. CASE ~RequestTakesBus /\ ~StbTakesBus
    BY <1>2, <2>3, Zenon DEF Cache!a_new_bus_op_owner
  <2> QED BY <2>1, <2>2, <2>3
<1>4. BusNext \in {"none", "request", "stb", "bus_op"}
  BY DEF BusNext, RequestPassesBus, StbPassesBus
<1>5. /\ ~(StbTakesBus /\ RequestTakesBus)
      /\ StbTakesBus => BusNext \in {"stb", "none"}
      /\ BusNext = "stb" => StbTakesBus
      /\ RequestTakesBus => BusNext \in {"request", "none"}
      /\ BusNext = "request" => RequestTakesBus
      /\ BusNext = "bus_op" => ~Cache!b_bus_op_complete
  BY StbAndBus, RequestKeepsBus, BusFree
<1> QED BY <1>1, <1>3, <1>4, <1>5

\* A bus operation that begins.
LEMMA BusOpBegins ==
  ASSUME CInv, NEW i, NEW victim, Cycled(i, victim), Cache!b_bus_op_complete
  PROVE  /\ b_bus_op_block_word' = 0
         /\ b_bus_op_owner' \in {"none", "request", "stb"}
         /\ b_bus_op_owner' = "none" =>
              b_bus_op_state' = "none" /\ b_bus_op_way' = {} /\ b_bus_op_paddr' = NoRequest
         /\ b_bus_op_owner' = "request" =>
              /\ b_bus_op_state' = Cache!a_request_bus_op_state
              /\ b_bus_op_way' = b_request_way'
              /\ b_bus_op_paddr' = Cache!a_request_bus_op_paddr
         /\ b_bus_op_owner' = "stb" =>
              /\ b_bus_op_state' = Cache!a_stb_bus_op_state
              /\ b_bus_op_way' = b_stb_way'
              /\ b_bus_op_paddr' = Cache!a_stb_bus_op_paddr
<1>1. Cache!NewBusOp
  BY DEF Cycled, Cache!Clock, Cache!BusOp
<1>2. Cache!a_new_bus_op_owner = b_bus_op_owner'
  BY BusOwnerStep
<1>3. b_bus_op_owner' \in {"none", "request", "stb"}
  BY BusOwnerStep, BusFree
<1>4. CASE b_bus_op_owner' = "none"
  BY <1>1, <1>2, <1>4, Zenon DEF Cache!NewBusOp
<1>5. CASE b_bus_op_owner' = "request"
  BY <1>1, <1>2, <1>5, Zenon DEF Cache!NewBusOp
<1>6. CASE b_bus_op_owner' = "stb"
  BY <1>1, <1>2, <1>6, Zenon DEF Cache!NewBusOp
<1> QED BY <1>3, <1>4, <1>5, <1>6

\* How it begins.
LEMMA BusOpFirstState ==
  /\ b_request_state' = "uncached_load_bus_op" => Cache!a_request_bus_op_state = "load"
  /\ b_request_state' = "uncached_store_bus_op" => Cache!a_request_bus_op_state = "store"
  /\ b_request_state' = "cached_load_fill" => Cache!a_request_bus_op_state = "fill_first"
  /\ b_request_state' \in {"writeback_bus_op", "cached_load_writeback"} =>
       Cache!a_request_bus_op_state = "writeback_first"
  /\ b_stb_state' = "replace_access" => Cache!a_stb_bus_op_state = "none"
  /\ b_stb_state' = "writeback" => Cache!a_stb_bus_op_state = "writeback_first"
  /\ b_stb_state' = "fill" => Cache!a_stb_bus_op_state = "fill_first"
  /\ b_stb_state' = "write" => Cache!a_stb_bus_op_state = "store"
<1>1. b_request_state' = "uncached_load_bus_op" => Cache!a_request_bus_op_state = "load"
  BY Zenon DEF Cache!a_request_bus_op_state
<1>2. b_request_state' = "uncached_store_bus_op" => Cache!a_request_bus_op_state = "store"
  BY Zenon DEF Cache!a_request_bus_op_state
<1>3. b_request_state' = "cached_load_fill" => Cache!a_request_bus_op_state = "fill_first"
  BY Zenon DEF Cache!a_request_bus_op_state
<1>4. b_request_state' = "writeback_bus_op" => Cache!a_request_bus_op_state = "writeback_first"
  BY Zenon DEF Cache!a_request_bus_op_state
<1>5. b_request_state' = "cached_load_writeback" => Cache!a_request_bus_op_state = "writeback_first"
  BY Zenon DEF Cache!a_request_bus_op_state
<1>6. b_stb_state' = "replace_access" => Cache!a_stb_bus_op_state = "none"
  BY Zenon DEF Cache!a_stb_bus_op_state
<1>7. b_stb_state' = "writeback" => Cache!a_stb_bus_op_state = "writeback_first"
  BY Zenon DEF Cache!a_stb_bus_op_state
<1>8. b_stb_state' = "fill" => Cache!a_stb_bus_op_state = "fill_first"
  BY Zenon DEF Cache!a_stb_bus_op_state
<1>9. b_stb_state' = "write" => Cache!a_stb_bus_op_state = "store"
  BY Zenon DEF Cache!a_stb_bus_op_state
<1> QED BY <1>1, <1>2, <1>3, <1>4, <1>5, <1>6, <1>7, <1>8, <1>9

\* The RAMs that the bus operation keeps are for a bus operation.
LEMMA KeptIsUsed ==
  ASSUME CInv, NEW i, NEW victim, Cycled(i, victim), CacheKept
  PROVE  /\ b_bus_op_state' \in FillStates \cup WritebackStates
         /\ b_bus_op_owner \in {"request", "stb", "bus_op"}
<1>1. CASE b_stb_state = "replace_access"
  <2>1. b_bus_op_owner = "stb" /\ b_bus_op_state = "none" /\ Cache!b_bus_op_complete
    BY <1>1, BusReady DEF CInv, Owned, BusUse, ReplaceStates
  <2>2. b_stb_state' \in {"writeback", "fill"}
    BY <1>1, StbMoves DEF StbStarts, StbGoesOn
  <2>3. b_bus_op_owner' = "stb"
    BY <2>2, BusOwnerStep, StbAndBus DEF StbTakesBus, ReplaceStates
  <2> QED BY <2>1, <2>2, <2>3, BusOpBegins, BusOpFirstState DEF FillStates, WritebackStates
<1>2. CASE b_stb_state # "replace_access"
  <2>1. b_bus_op_state \in FillStates \cup WritebackStates /\ ~CacheReleased
    BY <1>2 DEF CacheKept
  <2>2. CASE ~Cache!b_bus_op_complete
    BY <2>1, <2>2, BusOpGoesOn, BusReady DEF FillStates, WritebackStates, CacheReleased, CInv, BusUse,
       TypeOK, Cache!Owners
  <2>3. CASE Cache!b_bus_op_complete
    <3>1. b_bus_op_state = "writeback_last" /\ sys_ready
      BY <2>1, <2>3, BusReady DEF CacheReleased, FillStates, WritebackStates
    <3>2. CASE b_bus_op_owner = "request"
      <4>1. b_request_state = "cached_load_writeback" /\ b_request_granted
        BY <2>1, <3>1, <3>2 DEF CInv, Owned, BusUse, WantsBus, CacheReleased
      <4>2. b_request_state' = "cached_load_fill" /\ BusNext = "request"
        BY <3>1, <3>2, <4>1, RequestStates, Completion DEF BusNext, RequestPassesBus
      <4>3. b_bus_op_owner' = "request"
        BY <4>2, RequestKeepsBus, BusOwnerStep
      <4> QED BY <2>3, <3>2, <4>2, <4>3, BusOpBegins, BusOpFirstState DEF FillStates
    <3>3. CASE b_bus_op_owner = "stb"
      <4>1. b_stb_state = "writeback"
        BY <3>1, <3>3 DEF CInv, Owned, BusUse, ReplaceStates, FillStates
      <4>2. b_stb_state' = "fill"
        BY <3>1, <4>1, StbMoves DEF StbStarts, StbGoesOn
      <4>3. b_bus_op_owner' = "stb"
        BY <4>2, BusOwnerStep, StbAndBus DEF StbTakesBus, ReplaceStates
      <4> QED BY <2>3, <3>3, <4>2, <4>3, BusOpBegins, BusOpFirstState DEF FillStates
    <3> QED BY <3>1, <3>2, <3>3 DEF CInv, BusUse, TypeOK, Cache!Owners
  <2> QED BY <2>2, <2>3
<1> QED BY <1>1, <1>2

\* A bus operation that takes RAMs which the last one did not keep is the request's.
LEMMA NewUseIsRequest ==
  ASSUME CInv, NEW i, NEW victim, Cycled(i, victim), ~CacheKept,
         b_bus_op_state' \in FillStates \cup WritebackStates
  PROVE  /\ RmdramNext = "none"
         /\ RequestTakesBus
         /\ b_bus_op_state' \in {"fill_first", "writeback_first"}
<1>1. Cache!b_bus_op_complete
  <2>1. ASSUME ~Cache!b_bus_op_complete PROVE FALSE
    <3>1. b_bus_op_state \in FillStates \cup WritebackStates
      BY <2>1, BusOpGoesOn DEF FillStates, WritebackStates
    <3>2. CacheReleased
      BY <3>1 DEF CacheKept
    <3> QED BY <2>1, <3>2, BusReady DEF CacheReleased
  <2> QED BY <2>1
<1>2. b_stb_state # "replace_access"
  BY DEF CacheKept
<1>3. b_bus_op_owner' # "stb"
  <2>1. ASSUME b_bus_op_owner' = "stb" PROVE FALSE
    <3>1. StbTakesBus
      BY <2>1, BusOwnerStep
    <3>2. b_stb_state' \in {"writeback", "fill"}
      BY <1>1, <2>1, <3>1, BusOpBegins, BusOpFirstState
         DEF StbTakesBus, ReplaceStates, FillStates, WritebackStates
    <3>3. b_stb_state \in {"writeback", "fill"} /\ StbGoesOn(victim)
      BY <1>2, <3>2, StbMoves DEF StbStarts, StbGoesOn
    <3>4. /\ b_bus_op_owner = "stb"
          /\ b_stb_state = "writeback" => b_bus_op_state \in WritebackStates
          /\ b_stb_state = "fill" => b_bus_op_state \in FillStates
      BY <3>3 DEF CInv, Owned, BusUse, ReplaceStates
    <3>5. b_bus_op_state = "fill_last"
      BY <3>3, <3>4 DEF CacheKept, CacheReleased
    <3> QED BY <3>2, <3>3, <3>4, <3>5 DEF StbGoesOn, WritebackStates
  <2> QED BY <2>1
<1>4. b_bus_op_owner' = "request"
  BY <1>1, <1>3, BusOpBegins DEF FillStates, WritebackStates
<1>5. RequestTakesBus
  BY <1>4, BusOwnerStep
<1>6. /\ b_request_state' \in {"cached_load_writeback", "cached_load_fill", "writeback_bus_op"}
      /\ b_bus_op_state' \in {"fill_first", "writeback_first"}
  BY <1>1, <1>4, <1>5, BusOpBegins, BusOpFirstState
     DEF RequestTakesBus, WantsBus, FillStates, WritebackStates
<1>7. RmdramNext = "none"
  <2>1. ASSUME RmdramNext # "none" PROVE FALSE
    <3>1. b_bus_op_state = "fill_last" /\ b_bus_op_owner = "stb"
      BY <2>1 DEF RmdramNext
    <3>2. b_stb_state = "fill"
      BY <1>2, <3>1 DEF CInv, Owned, BusUse, ReplaceStates, WritebackStates
    <3>3. b_vtram_owner = "bus_op" /\ b_vtram_owner # "request"
      BY <3>1 DEF CInv, Owned, FillStates
    <3>4. b_request_state \in {"cached_load_writeback", "cached_load_fill", "writeback_bus_op"}
      BY <1>6, <3>3, RequestAndBus DEF CInv, Owned, WantsVtram
    <3>5. ~b_request_granted
      BY <3>1, <3>4 DEF CInv, Owned, WantsBus
    <3> QED BY <3>2, <3>4, <3>5 DEF CInv, RequestWaits
  <2> QED BY <2>1
<1> QED BY <1>5, <1>6, <1>7

\* What the store buffer takes.
StbTakesRmdram ==
  b_stb_state' = "replace_access" \/ (b_stb_state' = "write" /\ b_stb_write_cache')
\* The store buffer and the request do not take the RAMs together.
LEMMA StbAndRams ==
  ASSUME CInv, NEW i, NEW victim, Cycled(i, victim)
  PROVE  /\ b_stb_state' = "replace_access" =>
              /\ ~CacheKept /\ RmdramNext = "none"
              /\ b_request_state' \notin WantsBus
              /\ ~(b_request_granted' /\ b_request_state' \in WantsVtram)
         /\ StbTakesRmdram =>
              /\ ~CacheKept
              /\ ~(b_request_granted' /\ b_request_state' \in WantsRmdram)
              /\ \/ RmdramNext = "stb"
                 \/ RmdramNext = "none" /\ b_request_state' \notin WantsBus
         /\ RmdramNext = "stb" => StbTakesRmdram
<1>1. CASE StbStarts
  <2>1. RmdramNext = "none"
    BY <1>1 DEF StbStarts
  <2>2. ~CacheKept
    BY <2>1 DEF RmdramNext
  <2> QED BY <1>1, <2>1, <2>2 DEF StbStarts, StbTakesRmdram
<1>2. CASE StbGoesOn(victim)
  <2>1. b_stb_state' # "replace_access"
    BY <1>2 DEF StbGoesOn
  <2>2. StbTakesRmdram <=> RmdramNext = "stb"
    <3>1. StbTakesRmdram <=>
            b_stb_state = "fill" /\ b_bus_op_state = "fill_last" /\ b_stb_write_cache
      BY <1>2 DEF StbGoesOn, StbTakesRmdram, ReplaceStates
    <3>2. b_stb_state = "fill" => b_stb_write_cache /\ b_bus_op_owner = "stb"
      BY DEF CInv, HeadKnown, Owned, ReplaceStates
    <3>3. RmdramNext = "stb" <=>
            b_stb_state # "replace_access" /\ b_bus_op_state = "fill_last" /\ b_bus_op_owner = "stb"
      BY DEF RmdramNext, CacheKept, CacheReleased
    <3>4. b_bus_op_state = "fill_last" /\ b_bus_op_owner = "stb" => b_stb_state = "fill"
      BY DEF CInv, Owned, BusUse, ReplaceStates, WritebackStates
    <3> QED BY <3>1, <3>2, <3>3, <3>4
  <2>3. RmdramNext = "stb" =>
          ~CacheKept /\ ~(b_request_granted' /\ b_request_state' \in WantsRmdram)
    BY RequestMoves DEF RmdramNext
  <2> QED BY <2>1, <2>2, <2>3
<1> QED BY <1>1, <1>2, StbMoves

\* A bus operation that needs the RAMs has them.
LEMMA BusOpGranted ==
  ASSUME CInv, NEW i, NEW victim, Cycled(i, victim)
  PROVE  /\ b_bus_op_granted' \in BOOLEAN
         /\ b_bus_op_state' # "none" => b_bus_op_granted'
<1>1. b_bus_op_granted' = Cache!a_bus_op_granted
  BY DEF Cycled, Cache!Clock, Cache!BusOp
<1>2. ASSUME b_bus_op_state' \in {"fill_first", "writeback_first"}
      PROVE  /\ VtramNext \in {"bus_op", "none"} /\ RmdramNext \in {"bus_op", "none"}
             /\ ~(b_request_granted' /\ b_request_state' \in WantsVtram \cup WantsRmdram)
             /\ ~StbTakesRmdram
  <2>1. CASE CacheKept
    <3>1. VtramNext = "bus_op" /\ RmdramNext = "bus_op"
      BY <2>1 DEF VtramNext, RmdramNext
    <3> QED BY <2>1, <3>1, RequestMoves, StbAndRams DEF WantsRmdram
  <2>2. CASE ~CacheKept
    <3>1. RmdramNext = "none" /\ RequestTakesBus
      BY <1>2, <2>2, NewUseIsRequest DEF FillStates, WritebackStates
    <3>2. b_request_state' \notin WantsVtram \cup WantsRmdram
      BY <3>1 DEF RequestTakesBus, WantsBus, WantsVtram, WantsRmdram
    <3> QED BY <3>1, <3>2, StbAndRams DEF VtramNext, RequestTakesBus
  <2> QED BY <2>1, <2>2
<1>3. Cache!a_stb_want_vtram \/ Cache!a_stb_want_rmdram => StbTakesRmdram
  BY DEF Cache!a_stb_want_vtram, Cache!a_stb_want_rmdram, StbTakesRmdram
<1>4. Cache!a_request_want_vtram \/ Cache!a_request_want_rmdram =>
        b_request_state' \in WantsVtram \cup WantsRmdram
  BY DEF Cache!a_request_want_vtram, Cache!a_request_want_rmdram, WantsVtram
<1>5. Cache!a_bus_op_want_cache <=> b_bus_op_state' \in {"fill_first", "writeback_first"}
  BY DEF Cache!a_bus_op_want_cache
<1> QED BY <1>1, <1>2, <1>3, <1>4, <1>5, RamOwnersNext DEF Cache!a_bus_op_granted

\* The owners of the RAMs after the cycle.
LEMMA NewOwners ==
  ASSUME NEW request \in BOOLEAN, NEW stb \in BOOLEAN, ~(request /\ stb)
  PROVE  Cache!NewOwner(request, stb) =
           IF request THEN "request" ELSE IF stb THEN "stb"
           ELSE IF Cache!a_bus_op_want_cache /\ b_bus_op_granted' THEN "bus_op" ELSE "none"
<1>1. CASE request
  BY <1>1, Zenon DEF Cache!NewOwner
<1>2. CASE stb
  BY <1>2, Zenon DEF Cache!NewOwner
<1>3. CASE ~request /\ ~stb
  BY <1>3, Zenon DEF Cache!NewOwner
<1> QED BY <1>1, <1>2, <1>3

RequestTakesVtram == b_request_granted' /\ b_request_state' \in WantsVtram
RequestTakesRmdram == b_request_granted' /\ b_request_state' \in WantsRmdram
BusOpTakesRams == b_bus_op_state' \in FillStates \cup WritebackStates

\* Who owns the RAMs after the cycle, by the states after it.
LEMMA RamOwnersStep ==
  ASSUME CInv, NEW i, NEW victim, Cycled(i, victim)
  PROVE  /\ b_vtram_owner' =
              IF RequestTakesVtram THEN "request"
              ELSE IF b_stb_state' = "replace_access" THEN "stb"
              ELSE IF BusOpTakesRams THEN "bus_op" ELSE "none"
         /\ b_rmdram_owner' =
              IF RequestTakesRmdram THEN "request"
              ELSE IF StbTakesRmdram THEN "stb"
              ELSE IF BusOpTakesRams THEN "bus_op" ELSE "none"
         /\ ~(RequestTakesVtram /\ b_stb_state' = "replace_access")
         /\ ~(RequestTakesRmdram /\ StbTakesRmdram)
         /\ BusOpTakesRams => ~RequestTakesVtram /\ ~RequestTakesRmdram /\ ~StbTakesRmdram
<1> DEFINE wantVtram == b_request_granted' /\ Cache!a_request_want_vtram
           wantRmdram == b_request_granted' /\ Cache!a_request_want_rmdram
<1>1. /\ b_vtram_owner' = IF VtramNext # "none" THEN VtramNext
                          ELSE Cache!NewOwner(wantVtram, Cache!a_stb_want_vtram)
      /\ b_rmdram_owner' = IF RmdramNext # "none" THEN RmdramNext
                           ELSE Cache!NewOwner(wantRmdram, Cache!a_stb_want_rmdram)
  BY RamOwnersNext DEF Cycled, Cache!Clock, Cache!Owner
<1>2. /\ wantVtram <=> RequestTakesVtram
      /\ wantRmdram <=> RequestTakesRmdram
      /\ Cache!a_stb_want_vtram <=> b_stb_state' = "replace_access"
      /\ Cache!a_stb_want_rmdram <=> StbTakesRmdram
      /\ wantVtram \in BOOLEAN /\ wantRmdram \in BOOLEAN
      /\ Cache!a_stb_want_vtram \in BOOLEAN /\ Cache!a_stb_want_rmdram \in BOOLEAN
  BY RequestMoves DEF RequestTakesVtram, RequestTakesRmdram, Cache!a_request_want_vtram,
     Cache!a_request_want_rmdram, WantsVtram, WantsRmdram, Cache!a_stb_want_vtram,
     Cache!a_stb_want_rmdram, StbTakesRmdram
<1>3. Cache!a_bus_op_want_cache /\ b_bus_op_granted' <=>
        b_bus_op_state' \in {"fill_first", "writeback_first"}
  BY BusOpGranted DEF Cache!a_bus_op_want_cache
<1>4. /\ ~(RequestTakesVtram /\ b_stb_state' = "replace_access")
      /\ ~(RequestTakesRmdram /\ StbTakesRmdram)
  BY StbAndRams DEF RequestTakesVtram, RequestTakesRmdram
<1>5. /\ VtramNext = "none" =>
           b_vtram_owner' = IF RequestTakesVtram THEN "request"
                            ELSE IF b_stb_state' = "replace_access" THEN "stb"
                            ELSE IF b_bus_op_state' \in {"fill_first", "writeback_first"}
                            THEN "bus_op" ELSE "none"
      /\ RmdramNext = "none" =>
           b_rmdram_owner' = IF RequestTakesRmdram THEN "request"
                             ELSE IF StbTakesRmdram THEN "stb"
                             ELSE IF b_bus_op_state' \in {"fill_first", "writeback_first"}
                             THEN "bus_op" ELSE "none"
  <2> HIDE DEF wantVtram, wantRmdram
  <2> QED BY <1>1, <1>2, <1>3, <1>4, NewOwners
<1>6. CASE CacheKept
  <2>1. VtramNext = "bus_op" /\ RmdramNext = "bus_op"
    BY <1>6 DEF VtramNext, RmdramNext
  <2>2. BusOpTakesRams
    BY <1>6, KeptIsUsed DEF BusOpTakesRams
  <2>3. ~RequestTakesVtram /\ ~RequestTakesRmdram /\ ~StbTakesRmdram
    BY <1>6, <2>1, RequestMoves, StbAndRams DEF RequestTakesVtram, RequestTakesRmdram
  <2> QED BY <1>1, <2>1, <2>2, <2>3 DEF StbTakesRmdram
<1>7. CASE ~CacheKept
  <2>1. VtramNext = "none"
    BY <1>7 DEF VtramNext
  <2>2. BusOpTakesRams =>
          /\ RmdramNext = "none" /\ RequestTakesBus
          /\ b_bus_op_state' \in {"fill_first", "writeback_first"}
    BY <1>7, NewUseIsRequest DEF BusOpTakesRams
  <2>3. b_bus_op_state' \in {"fill_first", "writeback_first"} => BusOpTakesRams
    BY DEF BusOpTakesRams, FillStates, WritebackStates
  <2>4. RequestTakesBus => ~RequestTakesVtram /\ ~RequestTakesRmdram
    BY DEF RequestTakesBus, RequestTakesVtram, RequestTakesRmdram, WantsBus, WantsVtram,
           WantsRmdram
  <2>5. RequestTakesBus /\ RmdramNext = "none" => ~StbTakesRmdram
    BY StbAndRams DEF RequestTakesBus
  <2>6. RmdramNext = "none" \/ RmdramNext = "stb"
    BY <1>7 DEF RmdramNext
  <2>7. RmdramNext = "stb" => StbTakesRmdram /\ b_rmdram_owner' = "stb"
    BY <1>1, StbAndRams
  <2> QED BY <1>4, <1>5, <2>1, <2>2, <2>3, <2>4, <2>5, <2>6, <2>7 DEF StbTakesRmdram
<1> QED BY <1>4, <1>6, <1>7

-----------------------------------------------------------------------------
(***************************************************************************)
(* The slots of the store buffer.                                          *)
(***************************************************************************)
\* What was read from the valid RAM, and which way was hit.
LEMMA LookedUp ==
  ASSUME CInv
  PROVE  /\ b_vtram_owner = "request" => Cache!b_vtram_index = b_request.addr.index
         /\ b_vtram_owner = "stb" => Cache!b_vtram_index = Cache!b_stb_head.addr.index
         /\ b_vtram_owner = "bus_op" => Cache!b_vtram_index = b_bus_op_paddr.index
         /\ b_rmdram_owner = "request" => Cache!b_rmdram_index = b_request.addr.index
         /\ b_rmdram_owner = "stb" => Cache!b_rmdram_index = Cache!b_stb_head.addr.index
         /\ b_rmdram_owner = "bus_op" => Cache!b_rmdram_index = b_bus_op_paddr.index
<1>1. b_vtram_owner = "request" => Cache!b_vtram_index = b_request.addr.index
  BY Zenon DEF Cache!b_vtram_index
<1>2. b_vtram_owner = "stb" => Cache!b_vtram_index = Cache!b_stb_head.addr.index
  BY Zenon DEF Cache!b_vtram_index
<1>3. b_vtram_owner = "bus_op" => Cache!b_vtram_index = b_bus_op_paddr.index
  BY Zenon DEF Cache!b_vtram_index
<1>4. b_rmdram_owner = "request" => Cache!b_rmdram_index = b_request.addr.index
  BY Zenon DEF Cache!b_rmdram_index
<1>5. b_rmdram_owner = "stb" => Cache!b_rmdram_index = Cache!b_stb_head.addr.index
  BY Zenon DEF Cache!b_rmdram_index
<1>6. b_rmdram_owner = "bus_op" => Cache!b_rmdram_index = b_bus_op_paddr.index
  BY Zenon DEF Cache!b_rmdram_index
<1> QED BY <1>1, <1>2, <1>3, <1>4, <1>5, <1>6

\* An index that is looked up is one.
LEMMA LookedUpTyped ==
  ASSUME CInv
  PROVE  /\ b_vtram_owner # "none" => Cache!b_vtram_index \in Indexes
         /\ b_rmdram_owner # "none" => Cache!b_rmdram_index \in Indexes
         /\ b_vtram_owner # "none" => Cache!b_vram_rdata \subseteq Ways
         /\ b_rmdram_owner # "none" => Cache!b_mram_rdata \subseteq Ways
         /\ b_stb_state # "init" => Cache!b_stb_head \in StbEntry
<1>1. b_vtram_owner = "request" \/ b_rmdram_owner = "request" => b_request.addr \in Addr
  <2>1. b_vtram_owner = "request" \/ b_rmdram_owner = "request" => b_request_state # "none"
    BY DEF CInv, Owned, WantsVtram, WantsRmdram
  <2> QED BY <2>1, RequestFields DEF CInv, TypeOK, RequestKnown
<1>2. b_stb_state # "init" => Cache!b_stb_head \in StbEntry
  BY DEF CInv, TypeOK, HeadKnown, Cache!b_stb_head
<1>3. b_vtram_owner = "stb" \/ b_rmdram_owner = "stb" => Cache!b_stb_head.addr \in Addr
  BY <1>2 DEF CInv, Owned, StbEntry
<1>4. b_vtram_owner = "bus_op" \/ b_rmdram_owner = "bus_op" => b_bus_op_paddr \in Addr
  BY DEF CInv, Owned, OnBus, FillStates, WritebackStates
<1>5. \A a \in Addr : a.index \in Indexes
  BY DEF Addr, Cache!Addr
<1>6. /\ b_vtram_owner # "none" => Cache!b_vtram_index \in Indexes
      /\ b_rmdram_owner # "none" => Cache!b_rmdram_index \in Indexes
  BY <1>1, <1>3, <1>4, <1>5, LookedUp DEF CInv, TypeOK, Cache!Owners
<1> QED BY <1>2, <1>6 DEF CInv, TypeOK, Cache!b_vram_rdata, Cache!b_mram_rdata

\* The store buffer, slot by slot.
LEMMA SlotStep ==
  ASSUME CInv, NEW i, NEW victim, Cycled(i, victim), NEW n \in Cache!Slots
  PROVE  b_stb_array'[n] =
           IF Cache!b_stb_push /\ n = b_stb_tail_ptr THEN Cache!b_stb_push_entry
           ELSE IF b_stb_array[n] = NoEntry \/ (Pops /\ n = b_stb_head_ptr) THEN NoEntry
           ELSE Cache!b_stb_entry_next(n)
<1>1. b_stb_array' = Cache!b_stb_array_next
  BY DEF Cycled, Cache!Clock, Cache!StoreBuffer
<1>2. Cache!b_bus_op_error = FALSE /\ (Cache!b_stb_pop <=> Pops)
  BY BusReady, PopsIsPop
<1> QED BY <1>1, <1>2 DEF Cache!b_stb_array_next

\* A store that enters the store buffer.
LEMMA PushEntry ==
  ASSUME CInv, Cache!b_stb_push
  PROVE  /\ b_request_state = "cached_store_l1_access" /\ b_request_granted
         /\ Cache!b_stb_can_push
         /\ Cache!b_stb_push_entry \in StbEntry
<1>1. /\ b_request_state = "cached_store_l1_access" /\ b_request_granted
      /\ Cache!b_stb_can_push
  BY DEF Cache!b_stb_push, Cache!b_stb_store_accepted
<1>2. b_request.code = "store" /\ b_request \in Accepted
  BY <1>1 DEF CInv, TypeOK, RequestKnown
<1>3. b_vtram_owner = "request"
  BY <1>1 DEF CInv, Owned, WantsVtram
<1>4. Cache!b_request_cache_way_hit \subseteq Ways /\ Cache!b_request_cache_hit \in BOOLEAN
  BY <1>3, LookedUpTyped DEF Cache!b_request_cache_way_hit, Cache!b_request_cache_hit
<1>5. /\ b_request.addr \in Addr /\ b_request.bytes \in Accesses
      /\ b_request.alloc \in BOOLEAN /\ b_request.writethrough \in BOOLEAN
      /\ b_request.data \in Cache!Data
  BY <1>2, RequestFields
<1> QED BY <1>1, <1>4, <1>5 DEF Cache!b_stb_push_entry, StbEntry

\* An entry that stays.
LEMMA EntryNext ==
  ASSUME CInv, NEW n \in Cache!Slots, b_stb_array[n] \in StbEntry
  PROVE  /\ Cache!b_stb_entry_next(n) \in StbEntry
         /\ Cache!b_stb_entry_next(n).addr = b_stb_array[n].addr
         /\ Cache!b_stb_entry_next(n).bytes = b_stb_array[n].bytes
         /\ Cache!b_stb_entry_next(n).alloc = b_stb_array[n].alloc
         /\ Cache!b_stb_entry_next(n).writethrough = b_stb_array[n].writethrough
         /\ ~Cache!b_stb_array_block_change(n) =>
              /\ Cache!b_stb_entry_next(n).cache_hit = b_stb_array[n].cache_hit
              /\ Cache!b_stb_entry_next(n).way = b_stb_array[n].way
         /\ Cache!b_stb_array_block_change(n) =>
              /\ Cache!b_stb_entry_next(n).cache_hit = (b_bus_op_state = "fill_last")
              /\ Cache!b_stb_entry_next(n).way = b_bus_op_way
         /\ Cache!b_stb_entry_next(n).data =
              IF n \in Cache!b_stb_combine_ptr THEN b_request.data ELSE b_stb_array[n].data
<1>1. n \in Cache!b_stb_combine_ptr => b_request.data \in Cache!Data
  <2>1. n \in Cache!b_stb_combine_ptr => b_request_state = "cached_store_l1_access"
    BY DEF Cache!b_stb_combine_ptr, Cache!b_stb_combine, Cache!b_stb_store_accepted
  <2> QED BY <2>1, RequestFields DEF CInv, TypeOK, RequestKnown
<1>2. Cache!b_block_change_valid = (b_bus_op_state = "fill_last")
  BY DEF Cache!b_block_change_valid
<1>3. b_bus_op_way \subseteq Ways
  BY DEF CInv, TypeOK
<1>4. /\ Cache!b_stb_entry_changed(n) \in StbEntry
      /\ Cache!b_stb_entry_changed(n).addr = b_stb_array[n].addr
      /\ Cache!b_stb_entry_changed(n).bytes = b_stb_array[n].bytes
      /\ Cache!b_stb_entry_changed(n).alloc = b_stb_array[n].alloc
      /\ Cache!b_stb_entry_changed(n).writethrough = b_stb_array[n].writethrough
      /\ Cache!b_stb_entry_changed(n).data = b_stb_array[n].data
      /\ ~Cache!b_stb_array_block_change(n) =>
           /\ Cache!b_stb_entry_changed(n).cache_hit = b_stb_array[n].cache_hit
           /\ Cache!b_stb_entry_changed(n).way = b_stb_array[n].way
      /\ Cache!b_stb_array_block_change(n) =>
           /\ Cache!b_stb_entry_changed(n).cache_hit = (b_bus_op_state = "fill_last")
           /\ Cache!b_stb_entry_changed(n).way = b_bus_op_way
  BY <1>2, <1>3 DEF Cache!b_stb_entry_changed, StbEntry
<1> HIDE DEF Cache!b_stb_entry_changed
<1> QED BY <1>1, <1>4 DEF Cache!b_stb_entry_next, StbEntry

\* The slot after a cycle is empty or an entry.
LEMMA SlotTyped ==
  ASSUME CInv, NEW i, NEW victim, Cycled(i, victim), NEW n \in Cache!Slots
  PROVE  b_stb_array'[n] \in StbEntry \cup {NoEntry}
<1>1. b_stb_array[n] \in StbEntry \cup {NoEntry}
  BY DEF CInv, TypeOK
<1> QED BY <1>1, SlotStep, PushEntry, EntryNext

\* The pointers.
LEMMA Pointers ==
  ASSUME CInv, NEW i, NEW victim, Cycled(i, victim)
  PROVE  /\ b_stb_head_ptr' = IF Pops THEN Cache!next_slot(b_stb_head_ptr) ELSE b_stb_head_ptr
         /\ b_stb_tail_ptr' = IF Cache!b_stb_push THEN Cache!next_slot(b_stb_tail_ptr)
                                                  ELSE b_stb_tail_ptr
         /\ b_stb_head_ptr \in Cache!Slots /\ b_stb_tail_ptr \in Cache!Slots
         /\ b_stb_head_ptr' \in Cache!Slots /\ b_stb_tail_ptr' \in Cache!Slots
<1>1. /\ b_stb_head_ptr' = IF Pops THEN Cache!next_slot(b_stb_head_ptr) ELSE b_stb_head_ptr
      /\ b_stb_tail_ptr' = IF Cache!b_stb_push THEN Cache!next_slot(b_stb_tail_ptr)
                                               ELSE b_stb_tail_ptr
  BY PopsIsPop DEF Cycled, Cache!Clock, Cache!StoreBuffer
<1>2. b_stb_head_ptr \in Cache!Slots /\ b_stb_tail_ptr \in Cache!Slots
  BY DEF CInv, TypeOK
<1>3. Cache!next_slot(b_stb_head_ptr) \in Cache!Slots /\ Cache!next_slot(b_stb_tail_ptr) \in Cache!Slots
  BY <1>2, NextSlot
<1> QED BY <1>1, <1>2, <1>3

\* A store enters behind the head, or in its place when the head leaves.
LEMMA PushBehind ==
  ASSUME CInv, Cache!b_stb_push, b_stb_array[b_stb_tail_ptr] # NoEntry
  PROVE  Pops /\ b_stb_tail_ptr = b_stb_head_ptr /\ Cache!b_stb_full
<1>1. b_stb_tail_ptr \in Cache!b_stb_valid
  BY DEF CInv, TypeOK, Cache!b_stb_valid
<1>2. b_stb_tail_ptr = b_stb_head_ptr
  <2>1. \/ Age(b_stb_tail_ptr) < (b_stb_tail_ptr - b_stb_head_ptr) % StbEntries
        \/ b_stb_tail_ptr = b_stb_head_ptr
    BY <1>1 DEF CInv, RingOrder
  <2>2. (b_stb_tail_ptr - b_stb_head_ptr) % StbEntries \in Int
    BY SizeAssumption DEF CInv, TypeOK, Cache!Slots
  <2> QED BY <2>1, <2>2 DEF Age
<1>3. Cache!b_stb_full
  BY <1>1, <1>2 DEF CInv, RingOrder, Cache!b_stb_full, Cache!b_stb_empty
<1> QED BY <1>2, <1>3, PushEntry, PopsIsPop DEF Cache!b_stb_can_push

\* The entry that is processed stays as it is, but for its place in the cache.
LEMMA HeadStays ==
  ASSUME CInv, NEW i, NEW victim, Cycled(i, victim), b_stb_state # "init", ~Pops
  PROVE  /\ Cache!b_stb_head' \in StbEntry
         /\ Cache!b_stb_head' = Cache!a_stb_head
         /\ Cache!b_stb_head'.addr = Cache!b_stb_head.addr
         /\ Cache!b_stb_head'.bytes = Cache!b_stb_head.bytes
         /\ Cache!b_stb_head'.alloc = Cache!b_stb_head.alloc
         /\ Cache!b_stb_head'.writethrough = Cache!b_stb_head.writethrough
         /\ Cache!b_stb_head'.data = Cache!b_stb_head.data
         /\ b_bus_op_state \notin {"fill_first", "fill_last"} =>
              /\ Cache!b_stb_head'.cache_hit = Cache!b_stb_head.cache_hit
              /\ Cache!b_stb_head'.way = Cache!b_stb_head.way
<1>1. /\ b_stb_head_ptr' = b_stb_head_ptr /\ b_stb_head_ptr \in Cache!Slots
      /\ Cache!b_stb_head = b_stb_array[b_stb_head_ptr]
      /\ Cache!b_stb_head' = b_stb_array'[b_stb_head_ptr']
      /\ Cache!a_stb_head = b_stb_array'[b_stb_head_ptr']
  BY Pointers DEF Cache!b_stb_head, Cache!a_stb_head
<1>2. b_stb_array[b_stb_head_ptr] \in StbEntry /\ b_stb_array[b_stb_head_ptr] # NoEntry
  BY <1>1, LookedUpTyped DEF CInv, HeadKnown
<1>3. ~(Cache!b_stb_push /\ b_stb_head_ptr = b_stb_tail_ptr)
  BY <1>2, PushBehind
<1>4. b_stb_array'[b_stb_head_ptr] = Cache!b_stb_entry_next(b_stb_head_ptr)
  BY <1>1, <1>2, <1>3, SlotStep
<1>5. b_stb_head_ptr \notin Cache!b_stb_combine_ptr
  BY DEF Cache!b_stb_combine_ptr
<1>6. b_bus_op_state \notin {"fill_first", "fill_last"} =>
        ~Cache!b_stb_array_block_change(b_stb_head_ptr)
  BY DEF Cache!b_stb_array_block_change, Cache!b_block_change
<1> QED BY <1>1, <1>2, <1>4, <1>5, <1>6, EntryNext

-----------------------------------------------------------------------------
(***************************************************************************)
(* Ways and addresses.                                                     *)
(***************************************************************************)
\* The way that may be replaced.
LEMMA VictimIsWay ==
  ASSUME CInv, NEW victim \in Victims
  PROVE  /\ b_request_state = "cached_load_l1_access" /\ b_request_granted =>
              victim \in Ways /\ victim \in Cache!b_replace_ways
         /\ b_stb_state = "replace_access" =>
              victim \in Ways /\ victim \in Cache!b_replace_ways
<1>1. Cache!b_replace_ways \subseteq Ways
  BY DEF Cache!b_replace_ways
<1> QED BY <1>1 DEF Victims

\* The way of the request, and of the store buffer.
LEMMA WaysStep ==
  ASSUME CInv, NEW i, NEW victim, Cycled(i, victim)
  PROVE  /\ b_request_way' \subseteq Ways
         /\ b_request_state = "cached_load_l1_access" /\ b_request_granted =>
              b_request_way' = {victim}
         /\ b_request_state \in {"cached_load_writeback", "cached_load_fill"} =>
              b_request_way' = b_request_way
         /\ b_stb_way' \subseteq Ways
         /\ StbGoesOn(victim) =>
              /\ b_stb_state = "replace_access" => b_stb_way' = {victim}
              /\ b_stb_state \in {"writeback", "fill", "write"} => b_stb_way' = b_stb_way
<1>1. b_request_way' = Cache!b_request_way_next(victim)
  BY DEF Cycled, Cache!Clock, Cache!Request
<1>2. /\ b_request_state = "cached_load_l1_access" =>
           Cache!b_request_way_next(victim) = IF b_request_granted THEN {victim} ELSE {}
      /\ b_request_state = "writeback_l1_access" =>
           Cache!b_request_way_next(victim) =
             IF b_request_granted THEN Cache!b_request_cache_way_hit ELSE {}
      /\ b_request_state \in {"cached_load_writeback", "cached_load_fill"} =>
           Cache!b_request_way_next(victim) = b_request_way
      /\ b_request_state \notin {"cached_load_l1_access", "writeback_l1_access",
                                "cached_load_writeback", "cached_load_fill"} =>
           Cache!b_request_way_next(victim) = {}
  BY DEF Cache!b_request_way_next
<1>3. victim \in Victims
  BY DEF Cycled
<1>4. b_request_state = "writeback_l1_access" /\ b_request_granted =>
        Cache!b_request_cache_way_hit \subseteq Ways
  BY LookedUpTyped DEF CInv, Owned, WantsVtram, Cache!b_request_cache_way_hit
<1>5. b_request_way \subseteq Ways /\ b_stb_way \subseteq Ways
  BY DEF CInv, TypeOK
<1>6. b_request_way' \subseteq Ways
  BY <1>1, <1>2, <1>3, <1>4, <1>5, VictimIsWay
<1>7. StbGoesOn(victim) =>
        /\ b_stb_state = "init" => b_stb_way' = {}
        /\ b_stb_state = "replace_access" => b_stb_way' = {victim}
        /\ b_stb_state \in {"writeback", "fill", "write"} => b_stb_way' = b_stb_way
  <2>1. b_stb_state = "init" => Cache!b_stb_way_next(victim) = {}
    BY Zenon DEF Cache!b_stb_way_next
  <2>2. b_stb_state = "replace_access" => Cache!b_stb_way_next(victim) = {victim}
    BY Zenon DEF Cache!b_stb_way_next
  <2>3. b_stb_state = "writeback" => Cache!b_stb_way_next(victim) = b_stb_way
    BY Zenon DEF Cache!b_stb_way_next
  <2>4. b_stb_state = "fill" => Cache!b_stb_way_next(victim) = b_stb_way
    BY Zenon DEF Cache!b_stb_way_next
  <2>5. b_stb_state = "write" => Cache!b_stb_way_next(victim) = b_stb_way
    BY Zenon DEF Cache!b_stb_way_next
  <2> QED BY <2>1, <2>2, <2>3, <2>4, <2>5 DEF StbGoesOn
<1>8. StbStarts => b_stb_way' \subseteq Ways
  <2>1. ASSUME StbStarts PROVE Cache!a_stb_head \in StbEntry
    BY <2>1, Pointers, SlotTyped DEF StbStarts, Cache!a_stb_head
  <2> QED BY <2>1 DEF StbStarts, StbEntry
<1>9. StbGoesOn(victim) => b_stb_way' \subseteq Ways
  BY <1>3, <1>5, <1>7, VictimIsWay DEF CInv, TypeOK, Cache!StbStates
<1> QED BY <1>1, <1>2, <1>6, <1>7, <1>8, <1>9, StbMoves

\* The address at which a bus operation begins.
LEMMA FirstAddress ==
  ASSUME CInv, NEW i, NEW victim, Cycled(i, victim)
  PROVE  /\ RequestTakesBus =>
              /\ Cache!a_request_bus_op_paddr \in Addr
              /\ Cache!a_request_bus_op_paddr.index = b_request'.addr.index
              /\ b_request_state' # "cached_load_writeback" =>
                   Cache!a_request_bus_op_paddr = b_request'.addr
         /\ StbTakesBus =>
              /\ Cache!a_stb_bus_op_paddr \in Addr
              /\ Cache!a_stb_bus_op_paddr.index = Cache!a_stb_head.addr.index
              /\ b_stb_state' # "writeback" =>
                   Cache!a_stb_bus_op_paddr = Cache!a_stb_head.addr
<1>1. \A x \in Indexes, w \in Ways : tram[x][w] \in Tags
  BY DEF CInv, TypeOK
<1>2. ASSUME RequestTakesBus
      PROVE  /\ Cache!a_request_bus_op_paddr \in Addr
             /\ Cache!a_request_bus_op_paddr.index = b_request'.addr.index
             /\ b_request_state' # "cached_load_writeback" =>
                  Cache!a_request_bus_op_paddr = b_request'.addr
  <2>1. ~Cache!b_request_complete /\ b_request' = b_request
    BY <1>2, RequestAndBus, RequestStep DEF RequestTakesBus
  <2>2. b_request.addr \in Addr
    BY <2>1, RequestStates, RequestFields DEF CInv, TypeOK, RequestKnown
  <2>3. b_request_state' = "cached_load_writeback" => \E w \in Ways : b_request_way' = {w}
    <3>1. b_request_state' = "cached_load_writeback" =>
            \/ b_request_state = "cached_load_writeback"
            \/ b_request_state = "cached_load_l1_access" /\ b_request_granted
      BY <2>1, RequestStates DEF CInv, TypeOK, Cache!RequestStates
    <3>2. victim \in Victims
      BY DEF Cycled
    <3> QED BY <3>1, <3>2, VictimIsWay, WaysStep DEF CInv, RequestWaits
  <2>4. b_request_state' = "cached_load_writeback" =>
          (CHOOSE w \in b_request_way' : TRUE) \in Ways
    BY <2>3
  <2> QED BY <1>1, <2>1, <2>2, <2>4 DEF Cache!a_request_bus_op_paddr, Addr, Cache!Addr
<1>3. ASSUME StbTakesBus
      PROVE  /\ Cache!a_stb_bus_op_paddr \in Addr
             /\ Cache!a_stb_bus_op_paddr.index = Cache!a_stb_head.addr.index
             /\ b_stb_state' # "writeback" =>
                  Cache!a_stb_bus_op_paddr = Cache!a_stb_head.addr
  <2>1. Cache!a_stb_head \in StbEntry
    <3>1. CASE StbStarts
      BY <3>1, Pointers, SlotTyped DEF StbStarts, Cache!a_stb_head
    <3>2. CASE StbGoesOn(victim)
      BY <1>3, <3>2, HeadStays DEF StbGoesOn, StbTakesBus, ReplaceStates, Pops
    <3> QED BY <3>1, <3>2, StbMoves
  <2>2. Cache!a_stb_head.addr \in Addr
    BY <2>1 DEF StbEntry
  <2>3. b_stb_state' = "writeback" => \E w \in Ways : b_stb_way' = {w}
    <3>1. b_stb_state' = "writeback" =>
            StbGoesOn(victim) /\ b_stb_state \in {"replace_access", "writeback"}
      BY StbMoves DEF StbStarts, StbGoesOn
    <3>2. victim \in Victims
      BY DEF Cycled
    <3> QED BY <3>1, <3>2, VictimIsWay, WaysStep DEF CInv, RequestWaits
  <2>4. b_stb_state' = "writeback" => (CHOOSE w \in b_stb_way' : TRUE) \in Ways
    BY <2>3
  <2> QED BY <1>1, <2>2, <2>4 DEF Cache!a_stb_bus_op_paddr, Addr, Cache!Addr
<1> QED BY <1>2, <1>3

\* The address of a bus operation.
LEMMA AddressStep ==
  ASSUME CInv, NEW i, NEW victim, Cycled(i, victim)
  PROVE  /\ b_bus_op_paddr' \in Addr \cup {NoRequest}
         /\ b_bus_op_state' # "none" => b_bus_op_paddr' \in Addr
<1>1. CASE Cache!b_bus_op_complete
  BY <1>1, BusOpBegins, BusOwnerStep, FirstAddress
<1>2. CASE ~Cache!b_bus_op_complete
  <2>1. b_bus_op_paddr \in Addr
    BY <1>2, BusReady DEF CInv, OnBus
  <2>2. Cache!next_in_block(b_bus_op_paddr) \in Addr
    BY <2>1, NextInBlock
  <2>3. b_bus_op_paddr' \in {b_bus_op_paddr, Cache!next_in_block(b_bus_op_paddr)}
    BY <1>2, BusOpGoesOn
  <2> QED BY <2>1, <2>2, <2>3
<1> QED BY <1>1, <1>2

-----------------------------------------------------------------------------
(***************************************************************************)
(* The port of the bus.                                                    *)
(***************************************************************************)
\* Where a store to the bus comes from.
StoreSource == IF b_bus_op_owner' = "stb" THEN Cache!a_stb_head ELSE b_request
\* What the cache drives, state by state.
LEMMA Driven ==
  /\ b_bus_op_state' \in {"none", "fill_last", "writeback_first"} =>
       Cache!sys_master_out = NoRequest
  /\ b_bus_op_state' \in {"load", "fill_first", "fill"} =>
       Cache!sys_master_out =
         [write |-> FALSE, burst |-> Cache!a_sys_burst, addr |-> b_bus_op_paddr']
  /\ b_bus_op_state' = "store" =>
       Cache!sys_master_out =
         [write |-> TRUE, burst |-> FALSE, addr |-> b_bus_op_paddr',
          bytes |-> StoreSource.bytes, data |-> StoreSource.data]
  /\ b_bus_op_state' \in {"writeback", "writeback_last"} =>
       Cache!sys_master_out =
         [write |-> TRUE, burst |-> Cache!a_sys_burst, addr |-> b_bus_op_paddr,
          bytes |-> Cache!Bytes,
          data |-> IF Cache!SamePlace(b_bus_op_paddr)
                   THEN Cache!mux_1hot(dram, b_bus_op_way) ELSE Noise]
<1>1. b_bus_op_state' = "none" => Cache!sys_master_out = NoRequest
  BY Zenon DEF Cache!sys_master_out
<1>2. b_bus_op_state' = "fill_last" => Cache!sys_master_out = NoRequest
  BY Zenon DEF Cache!sys_master_out
<1>3. b_bus_op_state' = "writeback_first" => Cache!sys_master_out = NoRequest
  BY Zenon DEF Cache!sys_master_out
<1>4. b_bus_op_state' = "load" =>
        Cache!sys_master_out =
          [write |-> FALSE, burst |-> Cache!a_sys_burst, addr |-> b_bus_op_paddr']
  BY Zenon DEF Cache!sys_master_out
<1>5. b_bus_op_state' = "fill_first" =>
        Cache!sys_master_out =
          [write |-> FALSE, burst |-> Cache!a_sys_burst, addr |-> b_bus_op_paddr']
  BY Zenon DEF Cache!sys_master_out
<1>6. b_bus_op_state' = "fill" =>
        Cache!sys_master_out =
          [write |-> FALSE, burst |-> Cache!a_sys_burst, addr |-> b_bus_op_paddr']
  BY Zenon DEF Cache!sys_master_out
<1>7. b_bus_op_state' = "store" =>
        Cache!sys_master_out =
          [write |-> TRUE, burst |-> FALSE, addr |-> b_bus_op_paddr',
           bytes |-> StoreSource.bytes, data |-> StoreSource.data]
  BY Zenon DEF Cache!sys_master_out, StoreSource
<1>8. b_bus_op_state' = "writeback" =>
        Cache!sys_master_out =
          [write |-> TRUE, burst |-> Cache!a_sys_burst, addr |-> b_bus_op_paddr,
           bytes |-> Cache!Bytes,
           data |-> IF Cache!SamePlace(b_bus_op_paddr)
                    THEN Cache!mux_1hot(dram, b_bus_op_way) ELSE Noise]
  BY Zenon DEF Cache!sys_master_out
<1>9. b_bus_op_state' = "writeback_last" =>
        Cache!sys_master_out =
          [write |-> TRUE, burst |-> Cache!a_sys_burst, addr |-> b_bus_op_paddr,
           bytes |-> Cache!Bytes,
           data |-> IF Cache!SamePlace(b_bus_op_paddr)
                    THEN Cache!mux_1hot(dram, b_bus_op_way) ELSE Noise]
  BY Zenon DEF Cache!sys_master_out
<1> QED BY <1>1, <1>2, <1>3, <1>4, <1>5, <1>6, <1>7, <1>8, <1>9

\* A bus operation starts in one of these states.
LEMMA FirstStates ==
  ASSUME CInv, NEW i, NEW victim, Cycled(i, victim), Cache!b_bus_op_complete
  PROVE  /\ b_bus_op_state' \in {"none", "load", "store", "fill_first", "writeback_first"}
         /\ b_bus_op_state' = "load" =>
              b_bus_op_owner' = "request" /\ b_request_state' = "uncached_load_bus_op"
         /\ b_bus_op_state' = "store" =>
              \/ b_bus_op_owner' = "request" /\ b_request_state' = "uncached_store_bus_op"
              \/ b_bus_op_owner' = "stb" /\ b_stb_state' = "write"
         /\ b_bus_op_owner' = "request" => RequestTakesBus
         /\ b_bus_op_owner' = "stb" => StbTakesBus
<1>1. /\ b_bus_op_owner' = "request" => RequestTakesBus
      /\ b_bus_op_owner' = "stb" => StbTakesBus
  BY BusOwnerStep
<1>2. CASE b_bus_op_owner' = "none"
  BY <1>2, BusOpBegins
<1>3. CASE b_bus_op_owner' = "request"
  BY <1>1, <1>3, BusOpBegins, BusOpFirstState DEF RequestTakesBus, WantsBus
<1>4. CASE b_bus_op_owner' = "stb"
  BY <1>1, <1>4, BusOpBegins, BusOpFirstState DEF StbTakesBus, ReplaceStates
<1> QED BY <1>1, <1>2, <1>3, <1>4, BusOpBegins

\* A store on the bus begins with the store of the request or with the head of
\* the store buffer.
LEMMA StoreBegins ==
  ASSUME CInv, NEW i, NEW victim, Cycled(i, victim), Cache!b_bus_op_complete,
         b_bus_op_state' = "store"
  PROVE  /\ b_bus_op_paddr' = StoreSource.addr
         /\ StoreSource.addr \in Addr
         /\ StoreSource.bytes \in Accesses
         /\ StoreSource.data \in Cache!Data
         /\ StoreSource = IF b_bus_op_owner' = "stb" THEN Cache!b_stb_head' ELSE b_request'
         /\ b_bus_op_owner' = "stb" => b_stb_state' = "write"
<1>1. CASE b_bus_op_owner' = "request" /\ b_request_state' = "uncached_store_bus_op"
  <2>1. RequestTakesBus
    BY <1>1, FirstStates
  <2>2. ~Cache!b_request_complete /\ b_request' = b_request
    BY <2>1, RequestAndBus, RequestStep DEF RequestTakesBus
  <2>3. b_request_state \in {"uncached_store_bus_op", "uncached_store_mmu_access"}
    BY <1>1, <2>2, RequestStates DEF CInv, TypeOK, Cache!RequestStates
  <2>4. b_request.code = "store" /\ b_request \in Accepted
    BY <2>3 DEF CInv, TypeOK, RequestKnown
  <2>5. b_bus_op_paddr' = b_request'.addr
    BY <1>1, <2>1, BusOpBegins, FirstAddress
  <2> QED BY <1>1, <2>2, <2>4, <2>5, RequestFields DEF StoreSource
<1>2. CASE b_bus_op_owner' = "stb" /\ b_stb_state' = "write"
  <2>1. StbTakesBus
    BY <1>2, FirstStates
  <2>2. Cache!a_stb_head \in StbEntry
    <3>1. CASE StbStarts
      BY <3>1, Pointers, SlotTyped DEF StbStarts, Cache!a_stb_head
    <3>2. CASE StbGoesOn(victim)
      BY <1>2, <3>2, HeadStays DEF StbGoesOn, Pops
    <3> QED BY <3>1, <3>2, StbMoves
  <2>3. b_bus_op_paddr' = Cache!a_stb_head.addr
    BY <1>2, <2>1, BusOpBegins, FirstAddress
  <2>4. Cache!b_stb_head' = Cache!a_stb_head
    BY DEF Cache!b_stb_head, Cache!a_stb_head
  <2> QED BY <1>2, <2>2, <2>3, <2>4 DEF StoreSource, StbEntry
<1> QED BY <1>1, <1>2, FirstStates

\* One of many is one of them.
LEMMA Selected ==
  ASSUME CInv, NEW sel \in SUBSET Ways
  PROVE  Cache!mux_1hot(dram, sel) \in Cache!Data
<1>1. CASE \E w \in sel : sel = {w}
  <2>1. PICK w \in sel : sel = {w}
    BY <1>1
  <2>2. (CHOOSE n \in sel : TRUE) = w
    BY <2>1
  <2>3. Cache!mux_1hot(dram, sel) = dram[w]
    BY <1>1, <2>2, Zenon DEF Cache!mux_1hot
  <2> QED BY <2>3 DEF CInv, TypeOK
<1>2. CASE ~\E w \in sel : sel = {w}
  BY <1>2 DEF Cache!mux_1hot, Cache!Data
<1> QED BY <1>1, <1>2

\* Requests of the bus.
LEMMA BusRequests ==
  /\ \A burst \in BOOLEAN, addr \in Addr :
       [write |-> FALSE, burst |-> burst, addr |-> addr] \in BusRequest
  /\ \A burst \in BOOLEAN, addr \in Addr, bytes \in SUBSET Cache!Bytes, data \in Cache!Data :
       [write |-> TRUE, burst |-> burst, addr |-> addr, bytes |-> bytes, data |-> data]
         \in BusRequest
BY DEF BusRequest

\* What the cache drives, when the bus listens, is a request.
LEMMA DrivenTyped ==
  ASSUME CInv, NEW i, NEW victim, Cycled(i, victim), sys_ready
  PROVE  /\ Cache!sys_master_out \in BusRequest \cup {NoRequest}
         /\ b_bus_op_state' \in {"none", "fill_last", "writeback_first"} <=>
              Cache!sys_master_out = NoRequest
<1>1. NoRequest \notin BusRequest
  BY NothingAssumption
<1>2. b_bus_op_state' \in Cache!BusOpStates
  <2>1. CASE Cache!b_bus_op_complete
    BY <2>1, FirstStates DEF Cache!BusOpStates
  <2>2. CASE ~Cache!b_bus_op_complete
    BY <2>2, BusOpGoesOn DEF CInv, TypeOK, Cache!BusOpStates
  <2> QED BY <2>1, <2>2
<1>3. Cache!a_sys_burst \in BOOLEAN
  BY DEF Cache!a_sys_burst
<1>4. CASE b_bus_op_state' \in {"none", "fill_last", "writeback_first"}
  BY <1>4, Driven
<1>5. CASE b_bus_op_state' \in {"load", "fill_first", "fill"}
  <2>1. b_bus_op_paddr' \in Addr
    BY <1>5, AddressStep
  <2>2. Cache!sys_master_out \in BusRequest
    BY <1>3, <1>5, <2>1, Driven, BusRequests
  <2> QED BY <1>1, <1>5, <2>2
<1>6. CASE b_bus_op_state' = "store"
  <2>1. Cache!b_bus_op_complete
    <3>1. ASSUME ~Cache!b_bus_op_complete PROVE FALSE
      <4>1. b_bus_op_state = "store"
        BY <1>6, <3>1, BusOpGoesOn
      <4> QED BY <3>1, <4>1, BusReady
    <3> QED BY <3>1
  <2>2. Cache!sys_master_out \in BusRequest
    <3>1. StoreSource.bytes \in SUBSET Cache!Bytes /\ StoreSource.data \in Cache!Data
          /\ b_bus_op_paddr' \in Addr
      BY <1>6, <2>1, StoreBegins DEF Cache!Bytes
    <3> QED BY <1>6, <3>1, Driven, BusRequests
  <2> QED BY <1>1, <1>6, <2>2
<1>7. CASE b_bus_op_state' \in {"writeback", "writeback_last"}
  <2>1. ~Cache!b_bus_op_complete
    BY <1>7, FirstStates
  <2>2. b_bus_op_paddr \in Addr
    BY <2>1, BusReady DEF CInv, OnBus
  <2>3. Cache!mux_1hot(dram, b_bus_op_way) \in Cache!Data
    BY Selected DEF CInv, TypeOK
  <2>4. (IF Cache!SamePlace(b_bus_op_paddr)
         THEN Cache!mux_1hot(dram, b_bus_op_way) ELSE Noise) \in Cache!Data
    BY <2>3 DEF Cache!Data
  <2>5. Cache!Bytes \in SUBSET Cache!Bytes
    OBVIOUS
  <2>6. Cache!sys_master_out \in BusRequest
    BY <1>3, <1>7, <2>2, <2>4, <2>5, Driven, BusRequests
  <2> QED BY <1>1, <1>7, <2>6
<1> QED BY <1>2, <1>4, <1>5, <1>6, <1>7 DEF Cache!BusOpStates

\* The port: what is driven, with the answer to it or without.
LEMMA PortStep ==
  ASSUME CInv, NEW i, NEW victim, Cycled(i, victim)
  PROVE  /\ port' \in Ports \cup {NoRequest}
         /\ memory' \in Cache!Data
         /\ sys_ready =>
              IF Cache!sys_master_out = NoRequest THEN port' = NoRequest
              ELSE port' # NoRequest /\ port'.req = Cache!sys_master_out
         /\ ~sys_ready => port # NoRequest /\ port' # NoRequest /\ port'.req = port.req
<1> DEFINE q == IF sys_ready THEN Cache!sys_master_out ELSE port.req
<1>1. Bus(q)
  BY DEF Cycled
<1>2. ~sys_ready => port # NoRequest /\ port \in Ports /\ port.req \in BusRequest
  BY DEF sys_ready, CInv, TypeOK, Ports
<1>3. q \in BusRequest \cup {NoRequest}
  BY <1>2, DrivenTyped
<1>4. NoRequest \notin BusRequest /\ NoRequest \notin Ports
  BY NothingAssumption
<1>5. memory \in Cache!Data
  BY DEF CInv, TypeOK
<1> DEFINE Shown ==
             /\ port' \in Ports \cup {NoRequest}
             /\ memory' \in Cache!Data
             /\ q = NoRequest => port' = NoRequest
             /\ q # NoRequest => port' # NoRequest /\ port'.req = q
<1> HIDE DEF q
<1>6. BusIdle(q) => Shown
  BY <1>5 DEF BusIdle
<1>7. ASSUME BusWait(q) PROVE Shown
  <2>1. q \in BusRequest
    BY <1>3, <1>7 DEF BusWait
  <2>2. port' = [req |-> q, done |-> FALSE]
    BY <1>7 DEF BusWait
  <2>3. port' \in Ports /\ port'.req = q
    BY <2>1, <2>2 DEF Ports
  <2> QED BY <1>4, <1>5, <1>7, <2>1, <2>3 DEF BusWait
<1>8. ASSUME BusAnswer(q) PROVE Shown
  <2>1. q \in BusRequest
    BY <1>3, <1>8 DEF BusAnswer
  <2>2. Noise \in Cache!Data
    BY DEF Cache!Data
  <2>3. CASE q.write
    <3>1. q.data \in Cache!Data
      BY <2>1, <2>3 DEF BusRequest
    <3>2. port' = [req |-> q, done |-> TRUE, data |-> Noise]
      BY <1>8, <2>3 DEF BusAnswer
    <3>3. port' \in Ports /\ port'.req = q
      BY <2>1, <2>2, <3>2 DEF Ports
    <3>4. memory' \in Cache!Data
      BY <1>5, <1>8, <2>3, <3>1 DEF BusAnswer
    <3> QED BY <1>4, <2>1, <3>3, <3>4
  <2>4. CASE ~q.write
    <3>1. /\ port' = [req |-> q, done |-> TRUE,
                      data |-> IF q.addr = watched.addr THEN memory ELSE Noise]
          /\ memory' = memory
      BY <1>8, <2>4 DEF BusAnswer
    <3>2. port' \in Ports /\ port'.req = q
      BY <1>5, <2>1, <2>2, <3>1 DEF Ports
    <3> QED BY <1>4, <1>5, <2>1, <3>1, <3>2
  <2> QED BY <2>3, <2>4
<1>9. Shown
  BY <1>1, <1>6, <1>7, <1>8 DEF Bus
<1>10. /\ sys_ready => q = Cache!sys_master_out
       /\ ~sys_ready => q = port.req /\ q # NoRequest
  BY <1>2, <1>4 DEF q
<1> QED BY <1>2, <1>9, <1>10

=============================================================================
