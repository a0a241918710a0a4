--------------------------- MODULE L1MemDataCache ---------------------------
(***************************************************************************)
(* The level-1 data cache (hdl/cpu/l1mem/data/cache: the control path      *)
(* cpu_l1mem_data_cache_ctrl-rtl.vhdl, the data path ..._dp-rtl.vhdl, and  *)
(* the four RAMs they drive) with the pass-through MMU behind it: a        *)
(* write-back or write-through cache with a store buffer (stb).            *)
(*                                                                         *)
(* A synchronous component in the two phases of the source.  b_ signals    *)
(* finish the cycle that the registers describe and are state functions.   *)
(* a_ signals start the next cycle; those that are loaded into a register  *)
(* are written as the new value of that register, x', and the others are   *)
(* defined from those.  Clock(i, victim) is one rising edge of clk with    *)
(* rstn = '1'; its inputs are                                              *)
(*   i                    the request the pipe drives (a_new_request)      *)
(*   victim               the way the replacement policy offers, if the    *)
(*                        set that was read is full, else any free way     *)
(*   sys_ready, sys_error,                                                 *)
(*   sys_data             the slave side of the bus.                       *)
(*                                                                         *)
(* A one-hot vector is the set of the positions that are '1', a pointer    *)
(* into the store buffer the number of the slot.  What is 'X' in the       *)
(* source is {}, NoRequest or Noise, or a CASE without the arm, at which   *)
(* TLC stops if it is used.  Of all data only one byte is followed, the    *)
(* watched one, chosen once and for all: every other byte, and what stands *)
(* where the watched byte should be, is Noise.                             *)
(*                                                                         *)
(* Left out: requests sync and flush, which drive 'X' into the owners and  *)
(* the RAM controls; endianness (the pipe ties be to '1'), privilege, the  *)
(* wait for the MMU (its pass-through version is ready in every cycle and  *)
(* translates nothing), and the replacement RAM but for the set it reads   *)
(* and writes.                                                             *)
(***************************************************************************)
EXTENDS Integers

CONSTANTS
  Ways, Tags, Indexes,
  BlockWords,  \* words in a block, at least two
  Accesses,    \* sets of the bytes of a word that one access may cover
  StbEntries,  \* slots of the store buffer, at least one
  Values,      \* of the watched byte
  Noise,       \* any other byte
  NoEntry,     \* an empty slot of the store buffer
  NoRequest    \* no request on the bus

VARIABLES
  watched,                               \* the byte that is followed
  b_vtram_owner, b_rmdram_owner,         \* of the valid and tag RAMs; of the
                                         \* replacement, dirty and data RAMs
  b_bus_op_owner,                        \* of the bus
  b_request, b_request_state, b_request_granted, b_request_way,
  b_bus_op_state, b_bus_op_way, b_bus_op_granted, b_bus_op_requested,
  b_bus_op_block_word,                   \* number of the beat
  b_bus_op_paddr,
  b_stb_state, b_stb_way, b_stb_write_cache, b_stb_write_bus,
  b_stb_head_ptr, b_stb_tail_ptr, b_stb_array,
  vram, mram, tram,                      \* valid and dirty bits, tags
  dram,                                  \* way by way, the byte at the place
                                         \* of the watched one
  sys_ready, sys_error, sys_data         \* ports

Offsets == 0 .. BlockWords - 1
Slots == 0 .. StbEntries - 1
Addr == [tag : Tags, index : Indexes, offset : Offsets]
Bytes == UNION Accesses
Data == Values \cup {Noise}

Owners == {"none", "request", "stb", "bus_op"}
RequestStates ==
  {"none", "uncached_load_mmu_access", "uncached_load_bus_op",
   "uncached_store_mmu_access", "uncached_store_bus_op",
   "cached_load_l1_access", "cached_load_writeback", "cached_load_fill",
   "cached_store_stb_wait", "cached_store_l1_access", "invalidate_sync",
   "invalidate_l1_access", "writeback_l1_access", "writeback_bus_op"}
BusOpStates ==
  {"none", "load", "store", "fill_first", "fill", "fill_last",
   "writeback_first", "writeback", "writeback_last"}
StbStates == {"init", "replace_access", "writeback", "fill", "write"}

\* The byte that is followed is among the bytes of addr.
Covers(addr, bytes) == addr = watched.addr /\ watched.byte \in bytes
\* The word at addr is kept where the watched byte is kept.
SamePlace(addr) ==
  addr.index = watched.addr.index /\ addr.offset = watched.addr.offset

next_in_block(addr) == [addr EXCEPT !.offset = (@ + 1) % BlockWords]
next_slot(n) == (n + 1) % StbEntries

\* mux_1hot gives 'X' unless exactly one of the inputs is selected.
mux_1hot(din, sel) ==
  IF \E n \in sel : sel = {n} THEN din[CHOOSE n \in sel : TRUE] ELSE Noise

-----------------------------------------------------------------------------
(***************************************************************************)
(* What was read from the RAMs.                                            *)
(***************************************************************************)
b_stb_head == b_stb_array[b_stb_head_ptr]

b_vtram_index ==
  CASE b_vtram_owner = "request" -> b_request.addr.index
    [] b_vtram_owner = "stb" -> b_stb_head.addr.index
    [] b_vtram_owner = "bus_op" -> b_bus_op_paddr.index
b_rmdram_index ==
  CASE b_rmdram_owner = "request" -> b_request.addr.index
    [] b_rmdram_owner = "stb" -> b_stb_head.addr.index
    [] b_rmdram_owner = "bus_op" -> b_bus_op_paddr.index
b_vram_rdata == vram[b_vtram_index]
b_mram_rdata == mram[b_rmdram_index]

\* A free way if there is one, else the policy's: victim is among these.
b_replace_ways == IF b_vram_rdata = Ways THEN Ways ELSE Ways \ b_vram_rdata
b_replace_way_dirty(victim) == victim \in b_vram_rdata /\ victim \in b_mram_rdata

-----------------------------------------------------------------------------
(***************************************************************************)
(* The bus operation in its second phase.                                  *)
(***************************************************************************)
b_bus_op_cycle_complete == b_bus_op_requested /\ sys_ready
b_bus_op_error == b_bus_op_cycle_complete /\ sys_error
b_bus_op_fill_load_data_ready ==
  CASE b_bus_op_state = "fill_first" -> b_bus_op_cycle_complete
    [] b_bus_op_state = "fill" -> sys_ready
b_bus_op_fill_complete == b_bus_op_state = "fill_last"
b_bus_op_writeback_complete ==
  b_bus_op_state = "writeback_last" /\ b_bus_op_cycle_complete

b_bus_op_complete ==
  \/ b_bus_op_error
  \/ b_bus_op_state \in {"none", "fill_last"}
  \/ /\ b_bus_op_state \in {"load", "store", "writeback_last"}
     /\ b_bus_op_cycle_complete

\* (mutant) One beat too many.
b_bus_op_last_word_late ==
  b_bus_op_cycle_complete /\ b_bus_op_block_word = BlockWords
b_bus_op_last_word ==
  b_bus_op_cycle_complete /\ b_bus_op_block_word = BlockWords - 1
b_bus_op_state_next ==
  CASE b_bus_op_state \in {"load", "store", "fill_last", "writeback_last"} ->
         b_bus_op_state
    [] b_bus_op_state = "fill_first" ->
         IF b_bus_op_granted THEN "fill" ELSE "fill_first"
    [] b_bus_op_state = "fill" ->
         IF b_bus_op_last_word THEN "fill_last" ELSE "fill"
    [] b_bus_op_state = "writeback_first" ->
         IF b_bus_op_cycle_complete THEN "writeback" ELSE "writeback_first"
    [] b_bus_op_state = "writeback" ->
         IF b_bus_op_last_word THEN "writeback_last" ELSE "writeback"

b_bus_op_block_word_advance ==
  /\ b_bus_op_state \in {"fill_first", "fill", "writeback_first", "writeback"}
  /\ sys_ready

-----------------------------------------------------------------------------
(***************************************************************************)
(* The store buffer in its second phase.                                   *)
(***************************************************************************)
b_stb_valid == {n \in Slots : b_stb_array[n] # NoEntry}
b_stb_full == b_stb_valid = Slots
b_stb_empty == b_stb_valid = {}

\* (mutant) A store that has been written to the cache leaves at once.
b_stb_pop_write_cached ==
  b_stb_write_bus /\ ~b_stb_write_cache => b_bus_op_cycle_complete
b_stb_pop_write == b_stb_write_bus => b_bus_op_cycle_complete
b_stb_pop == b_stb_state = "write" /\ b_stb_pop_write
b_stb_can_push == ~b_stb_full \/ b_stb_pop

b_stb_state_next(victim) ==
  CASE b_stb_state = "init" -> "init"
    [] b_stb_state = "replace_access" ->
         IF b_replace_way_dirty(victim) THEN "writeback" ELSE "fill"
    [] b_stb_state = "writeback" ->
         IF b_bus_op_writeback_complete THEN "fill" ELSE "writeback"
    [] b_stb_state = "fill" -> IF b_bus_op_fill_complete THEN "write" ELSE "fill"
    [] b_stb_state = "write" -> IF b_stb_pop_write THEN "init" ELSE "write"

b_stb_way_next(victim) ==
  CASE b_stb_state = "init" -> {}
    [] b_stb_state = "replace_access" -> {victim}
    [] b_stb_state \in {"writeback", "fill", "write"} -> b_stb_way
\* The cache is written once, in the first cycle of the state write.
b_stb_write_cache_next ==
  b_stb_state \in {"replace_access", "writeback", "fill"} /\ b_stb_write_cache

-----------------------------------------------------------------------------
(***************************************************************************)
(* The request in its second phase.                                        *)
(***************************************************************************)
b_request_sync ==
  /\ b_vtram_owner = "none"
  /\ b_rmdram_owner = "none"
  /\ b_bus_op_owner = "none"
  /\ b_stb_empty

b_request_mmu_error == b_request.mmuen

b_request_cache_way_hit ==
  {w \in b_vram_rdata : tram[b_vtram_index][w] = b_request.addr.tag}
b_request_cache_hit == b_request_cache_way_hit # {}
b_request_cache_hit_dirty == b_request_cache_way_hit \cap b_mram_rdata # {}
b_request_cache_hit_clean == b_request_cache_way_hit \ b_mram_rdata # {}

\* Entries with the same bytes; with some or other bytes of the same word.
b_request_stb_array_hit ==
  {n \in b_stb_valid : /\ b_stb_array[n].addr = b_request.addr
                       /\ b_stb_array[n].bytes = b_request.bytes
                       /\ b_stb_array[n].writethrough = b_request.writethrough}
b_request_stb_array_conflict ==
  {n \in b_stb_valid : /\ b_stb_array[n].addr = b_request.addr
                       /\ b_stb_array[n].bytes # b_request.bytes}
b_request_stb_hit == b_request_stb_array_hit # {}
b_request_stb_head_hit == b_stb_head_ptr \in b_request_stb_array_hit
b_request_stb_conflict == b_request_stb_array_conflict # {}

\* A store joins an entry that is not being processed yet.
b_request_stb_can_combine ==
  /\ b_request_stb_hit
  /\ ~(b_request_stb_head_hit /\ b_stb_state # "init")
  /\ ~b_request_stb_conflict

\* Completion, state by state.
b_request_complete_cached_load_l1_access ==
  \/ b_request_mmu_error
  \/ b_request_stb_hit
  \/ b_request_granted /\ b_request_cache_hit
b_request_complete_cached_store_l1_access ==
  \/ b_request_mmu_error
  \/ b_request_granted /\ (b_stb_can_push \/ b_request_stb_can_combine)
b_request_complete_writeback_l1_access ==
  \/ b_request_mmu_error
  \/ /\ b_request_granted
     /\ ~b_request_cache_hit \/ b_request_cache_hit_clean
b_request_complete ==
  \/ b_bus_op_error
  \/ CASE b_request_state = "none" -> TRUE
       [] b_request_state \in {"uncached_load_mmu_access",
                               "uncached_store_mmu_access"} -> b_request_mmu_error
       [] b_request_state \in {"uncached_load_bus_op", "uncached_store_bus_op"} ->
            b_request_granted /\ b_bus_op_cycle_complete
       [] b_request_state = "cached_load_l1_access" ->
            b_request_complete_cached_load_l1_access
       [] b_request_state = "cached_load_fill" ->
            b_request_granted /\ b_bus_op_fill_load_data_ready
       [] b_request_state = "cached_store_l1_access" ->
            b_request_complete_cached_store_l1_access
       [] b_request_state = "invalidate_l1_access" -> b_request_granted
       [] b_request_state = "writeback_l1_access" ->
            b_request_complete_writeback_l1_access
       [] b_request_state = "writeback_bus_op" ->
            b_request_granted /\ b_bus_op_writeback_complete
       [] b_request_state \in {"cached_load_writeback", "cached_store_stb_wait",
                               "invalidate_sync"} -> FALSE

b_request_way_next(victim) ==
  CASE b_request_state = "cached_load_l1_access" ->
         IF b_request_granted THEN {victim} ELSE {}
    [] b_request_state = "writeback_l1_access" ->
         IF b_request_granted THEN b_request_cache_way_hit ELSE {}
    [] b_request_state \in {"cached_load_writeback", "cached_load_fill"} ->
         b_request_way
    [] OTHER -> {}

b_request_state_next_cached_load_l1_access(victim) ==
  IF ~b_request_granted THEN "cached_load_l1_access"
  ELSE IF ~b_request.alloc THEN "uncached_load_bus_op"
  ELSE IF b_replace_way_dirty(victim) THEN "cached_load_writeback"
  ELSE "cached_load_fill"
b_request_state_next(victim) ==
  CASE b_request_state = "uncached_load_mmu_access" -> "uncached_load_bus_op"
    [] b_request_state = "uncached_store_mmu_access" -> "uncached_store_bus_op"
    [] b_request_state = "cached_load_l1_access" ->
         b_request_state_next_cached_load_l1_access(victim)
    [] b_request_state = "cached_load_writeback" ->
         IF b_bus_op_writeback_complete THEN "cached_load_fill"
                                        ELSE "cached_load_writeback"
    [] b_request_state = "cached_store_stb_wait" ->
         IF b_stb_pop THEN "cached_store_l1_access" ELSE "cached_store_stb_wait"
    [] b_request_state = "invalidate_sync" ->
         IF b_request_sync THEN "invalidate_l1_access" ELSE "invalidate_sync"
    [] b_request_state = "writeback_l1_access" ->
         IF b_request_granted THEN "writeback_bus_op" ELSE "writeback_l1_access"
    [] b_request_state \in {"uncached_load_bus_op", "uncached_store_bus_op",
                            "cached_load_fill", "cached_store_l1_access",
                            "invalidate_l1_access", "writeback_bus_op"} ->
         b_request_state

\* The answer to a load, as far as it is the watched byte.
b_cache_read_data ==
  IF SamePlace(b_request.addr) THEN mux_1hot(dram, b_request_cache_way_hit)
                               ELSE Noise
b_stb_array_data == [n \in b_stb_valid |-> b_stb_array[n].data]
\* (mutant) The store buffer is not looked at.
b_result_data_cache ==
  CASE b_request_state = "cached_load_l1_access" -> b_cache_read_data
    [] b_request_state \in {"cached_load_fill", "uncached_load_bus_op"} -> sys_data
b_result_data ==
  CASE b_request_state = "cached_load_l1_access" ->
         IF b_request_stb_hit THEN mux_1hot(b_stb_array_data, b_request_stb_array_hit)
                              ELSE b_cache_read_data
    [] b_request_state \in {"cached_load_fill", "uncached_load_bus_op"} -> sys_data

-----------------------------------------------------------------------------
(***************************************************************************)
(* The slots of the store buffer.                                          *)
(***************************************************************************)
b_stb_store_accepted ==
  /\ b_request_state = "cached_store_l1_access"
  /\ ~b_request_mmu_error
  /\ b_request_granted
b_stb_combine == b_stb_store_accepted /\ b_request_stb_can_combine
b_stb_push ==
  b_stb_store_accepted /\ ~b_request_stb_can_combine /\ b_stb_can_push

b_stb_combine_ptr ==
  IF ~b_stb_combine THEN {}
  ELSE {n \in b_request_stb_array_hit : n # b_stb_head_ptr \/ b_stb_state = "init"}

\* The line of an entry is overwritten by a fill, or has arrived with one.
b_block_change == b_bus_op_state \in {"fill_first", "fill_last"}
b_block_change_valid == b_bus_op_state = "fill_last"
\* (mutants) Only lines that arrive, or only lines that leave, are noticed.
b_stb_array_block_change_arrivals(n) ==
  /\ b_block_change_valid
  /\ b_stb_array[n].addr.index = b_bus_op_paddr.index
  /\ b_stb_array[n].addr.tag = b_bus_op_paddr.tag
b_stb_array_block_change_departures(n) ==
  /\ b_bus_op_state = "fill_first"
  /\ b_stb_array[n].addr.index = b_bus_op_paddr.index
  /\ b_stb_array[n].way \cap b_bus_op_way # {}
b_stb_array_block_change(n) ==
  /\ b_block_change
  /\ b_stb_array[n].addr.index = b_bus_op_paddr.index
  /\ IF b_block_change_valid THEN b_stb_array[n].addr.tag = b_bus_op_paddr.tag
                             ELSE b_stb_array[n].way \cap b_bus_op_way # {}

b_stb_push_entry ==
  [addr |-> b_request.addr, bytes |-> b_request.bytes,
   alloc |-> b_request.alloc, writethrough |-> b_request.writethrough,
   cache_hit |-> b_request_cache_hit, way |-> b_request_cache_way_hit,
   data |-> b_request.data]

b_stb_entry_changed(n) ==
  IF b_stb_array_block_change(n)
  THEN [b_stb_array[n] EXCEPT !.cache_hit = b_block_change_valid, !.way = b_bus_op_way]
  ELSE b_stb_array[n]
b_stb_entry_next(n) ==
  IF n \in b_stb_combine_ptr
  THEN [b_stb_entry_changed(n) EXCEPT !.data = b_request.data]
  ELSE b_stb_entry_changed(n)

\* (mutant) A store that is pushed while the buffer is full and pops is lost.
b_stb_array_next_pop_first ==
  [n \in Slots |->
     IF b_bus_op_error \/ (b_stb_pop /\ n = b_stb_head_ptr) THEN NoEntry
     ELSE IF b_stb_push /\ n = b_stb_tail_ptr THEN b_stb_push_entry
     ELSE IF b_stb_array[n] = NoEntry THEN NoEntry
     ELSE b_stb_entry_next(n)]
b_stb_array_next ==
  [n \in Slots |->
     IF b_bus_op_error THEN NoEntry
     ELSE IF b_stb_push /\ n = b_stb_tail_ptr THEN b_stb_push_entry
     ELSE IF b_stb_array[n] = NoEntry \/ (b_stb_pop /\ n = b_stb_head_ptr) THEN NoEntry
     ELSE b_stb_entry_next(n)]

-----------------------------------------------------------------------------
(***************************************************************************)
(* The current owners decide who is next.                                  *)
(***************************************************************************)
\* The bus operation needs the RAMs no more.
b_cache_owner_next_bus_op_none ==
  \/ b_bus_op_owner = "none"
  \/ b_bus_op_fill_complete
  \/ /\ b_bus_op_owner = "request"
     /\ b_request_state = "writeback_bus_op"
     /\ b_bus_op_writeback_complete
\* The store buffer passes the RAMs on to the fill, or has written its word.
\* (mutant) It lets go of them between the two.
b_cache_owner_next_stb_released == "none"
b_cache_owner_next_stb ==
  IF b_stb_state = "replace_access" THEN "bus_op" ELSE "none"
\* A store that finds no room keeps the line it has looked up.
b_vtram_owner_next_request_none ==
  \/ b_request_state # "cached_store_l1_access"
  \/ b_request_complete_cached_store_l1_access

b_vtram_owner_next ==
  IF b_bus_op_error THEN "none"
  ELSE CASE b_vtram_owner = "none" -> "none"
         [] b_vtram_owner = "request" ->
              IF b_vtram_owner_next_request_none THEN "none" ELSE "request"
         [] b_vtram_owner = "stb" -> b_cache_owner_next_stb
         [] b_vtram_owner = "bus_op" ->
              IF b_cache_owner_next_bus_op_none THEN "none" ELSE "bus_op"
\* After a fill for the store buffer the data RAM is still to be written.
b_rmdram_owner_next ==
  IF b_bus_op_error THEN "none"
  ELSE CASE b_rmdram_owner \in {"none", "request"} -> "none"
         [] b_rmdram_owner = "stb" -> b_cache_owner_next_stb
         [] b_rmdram_owner = "bus_op" ->
              IF ~b_cache_owner_next_bus_op_none THEN "bus_op"
              ELSE IF b_bus_op_owner = "stb" THEN "stb" ELSE "none"

b_bus_op_owner_next_request ==
  CASE b_request_state \in {"uncached_load_bus_op", "uncached_store_bus_op"} ->
         IF b_bus_op_cycle_complete THEN "none" ELSE "request"
    [] b_request_state = "cached_load_writeback" -> "request"
    [] b_request_state = "cached_load_fill" ->
         IF b_bus_op_fill_load_data_ready THEN "bus_op" ELSE "request"
    [] b_request_state = "writeback_bus_op" ->
         IF b_bus_op_writeback_complete THEN "none" ELSE "request"
b_bus_op_owner_next_stb ==
  CASE b_stb_state \in {"replace_access", "writeback"} -> "stb"
    [] b_stb_state = "fill" ->
         IF b_bus_op_fill_complete /\ ~b_stb_write_bus THEN "none" ELSE "stb"
    [] b_stb_state = "write" ->
         IF b_bus_op_cycle_complete THEN "none" ELSE "stb"
b_bus_op_owner_next ==
  IF b_bus_op_error THEN "none"
  ELSE CASE b_bus_op_owner = "none" -> "none"
         [] b_bus_op_owner = "request" -> b_bus_op_owner_next_request
         [] b_bus_op_owner = "stb" -> b_bus_op_owner_next_stb
         [] b_bus_op_owner = "bus_op" ->
              CASE b_bus_op_state = "fill" -> "bus_op"
                [] b_bus_op_state = "fill_last" -> "none"

-----------------------------------------------------------------------------
(***************************************************************************)
(* The request in its first phase.                                         *)
(***************************************************************************)
a_stb_head == b_stb_array'[b_stb_head_ptr']
a_stb_head_valid == a_stb_head # NoEntry
a_stb_full == \A n \in Slots : b_stb_array'[n] # NoEntry

\* The head is written to the cache in the next cycle and is then gone.
\* (mutant) It may have to go to the bus, too.
a_stb_quick_store_writethrough ==
  a_stb_head.cache_hit /\ b_rmdram_owner_next = "none"
a_stb_quick_store ==
  /\ a_stb_head.cache_hit
  /\ ~a_stb_head.writethrough
  /\ b_rmdram_owner_next = "none"

a_new_request_state_store(i) ==
  IF ~i.cacheen THEN "uncached_store_mmu_access"
  ELSE IF a_stb_full /\ ~a_stb_quick_store THEN "cached_store_stb_wait"
  ELSE "cached_store_l1_access"
a_new_request_state(i) ==
  CASE i.code = "none" -> "none"
    [] i.code = "load" -> IF i.cacheen THEN "cached_load_l1_access"
                                       ELSE "uncached_load_mmu_access"
    [] i.code = "store" -> a_new_request_state_store(i)
    [] i.code = "invalidate" -> "invalidate_sync"
    [] i.code = "writeback" -> "writeback_l1_access"

a_request_want_vtram ==
  b_request_state' \in {"cached_load_l1_access", "cached_store_l1_access",
                        "invalidate_l1_access", "writeback_l1_access"}
a_request_want_rmdram ==
  b_request_state' \in {"cached_load_l1_access", "invalidate_l1_access",
                        "writeback_l1_access"}
a_request_want_bus_op ==
  b_request_state' \in {"uncached_load_bus_op", "uncached_store_bus_op",
                        "cached_load_writeback", "cached_load_fill",
                        "writeback_bus_op"}

a_request_granted ==
  /\ a_request_want_vtram => b_vtram_owner_next \in {"request", "none"}
  /\ a_request_want_rmdram => b_rmdram_owner_next \in {"request", "none"}
  /\ a_request_want_bus_op => b_bus_op_owner_next \in {"request", "none"}

Request(i, victim) ==
  /\ b_request' = IF b_request_complete THEN i ELSE b_request
  /\ b_request_state' = IF b_request_complete THEN a_new_request_state(i)
                                              ELSE b_request_state_next(victim)
  /\ b_request_granted' = a_request_granted
  /\ b_request_way' = b_request_way_next(victim)

-----------------------------------------------------------------------------
(***************************************************************************)
(* The store buffer in its first phase.                                    *)
(***************************************************************************)
\* A store that misses and allocates needs everything, one that hits the data
\* RAM only; and the request comes first.
a_stb_activate(victim) ==
  /\ b_stb_state_next(victim) = "init"
  /\ a_stb_head_valid
  /\ ~a_request_want_bus_op
  /\ b_rmdram_owner_next \in {"stb", "none"}
  /\ ~(b_request_granted' /\ a_request_want_rmdram)
  /\ ~a_stb_head.cache_hit /\ a_stb_head.alloc =>
       /\ b_vtram_owner_next \in {"stb", "none"}
       /\ ~(b_request_granted' /\ a_request_want_vtram)
       /\ b_bus_op_owner_next \in {"stb", "none"}
       /\ ~(b_request_granted' /\ a_request_want_bus_op)
  /\ (~a_stb_head.cache_hit /\ ~a_stb_head.alloc) \/ a_stb_head.writethrough =>
       ~(/\ b_bus_op_owner_next \notin {"stb", "none"}
         /\ b_request_granted'
         /\ a_request_want_bus_op)

StbActivate ==
  /\ b_stb_write_cache' = (a_stb_head.cache_hit \/ a_stb_head.alloc)
  /\ b_stb_write_bus' = (\/ a_stb_head.writethrough
                         \/ ~a_stb_head.alloc /\ ~a_stb_head.cache_hit)
  /\ b_stb_way' = a_stb_head.way
  /\ b_stb_state' = IF ~a_stb_head.cache_hit /\ a_stb_head.alloc
                    THEN "replace_access" ELSE "write"
StbContinue(victim) ==
  /\ b_stb_write_cache' = b_stb_write_cache_next
  /\ b_stb_write_bus' = b_stb_write_bus
  /\ b_stb_way' = b_stb_way_next(victim)
  /\ b_stb_state' = b_stb_state_next(victim)

StoreBuffer ==
  /\ b_stb_array' = b_stb_array_next
  /\ b_stb_head_ptr' = IF b_stb_pop THEN next_slot(b_stb_head_ptr) ELSE b_stb_head_ptr
  /\ b_stb_tail_ptr' = IF b_stb_push THEN next_slot(b_stb_tail_ptr) ELSE b_stb_tail_ptr
StbControl(victim) ==
  IF a_stb_activate(victim) THEN StbActivate ELSE StbContinue(victim)

a_stb_want_vtram == b_stb_state' = "replace_access"
a_stb_want_rmdram ==
  \/ b_stb_state' = "replace_access"
  \/ b_stb_state' = "write" /\ b_stb_write_cache'
a_stb_want_bus_op ==
  \/ b_stb_state' \in {"replace_access", "writeback", "fill"}
  \/ b_stb_state' = "write" /\ b_stb_write_bus'

-----------------------------------------------------------------------------
(***************************************************************************)
(* The bus operation in its first phase.                                   *)
(***************************************************************************)
\* Of two who want the bus, or a RAM, one at most is granted it.
a_new_bus_op_request == b_request_granted' /\ a_request_want_bus_op
a_new_bus_op_owner ==
  CASE a_new_bus_op_request /\ ~a_stb_want_bus_op -> "request"
    [] ~a_new_bus_op_request /\ a_stb_want_bus_op -> "stb"
    [] ~a_new_bus_op_request /\ ~a_stb_want_bus_op -> "none"

a_request_bus_op_state ==
  CASE b_request_state' = "uncached_load_bus_op" -> "load"
    [] b_request_state' = "uncached_store_bus_op" -> "store"
    [] b_request_state' = "cached_load_fill" -> "fill_first"
    [] b_request_state' \in {"writeback_bus_op", "cached_load_writeback"} ->
         "writeback_first"
a_stb_bus_op_state ==
  CASE b_stb_state' = "replace_access" -> "none"
    [] b_stb_state' = "writeback" -> "writeback_first"
    [] b_stb_state' = "fill" -> "fill_first"
    [] b_stb_state' = "write" -> "store"

\* (mutant) A victim is written back to where the new block belongs.
a_request_bus_op_paddr_own == b_request'.addr
\* A victim is written back to where its tag says.  The tag RAM still shows
\* the set that was read when the victim was chosen.
a_request_bus_op_paddr ==
  IF b_request_state' = "cached_load_writeback"
  THEN [b_request'.addr EXCEPT
          !.tag = tram[b_request'.addr.index][CHOOSE w \in b_request_way' : TRUE]]
  ELSE b_request'.addr
a_stb_bus_op_paddr ==
  IF b_stb_state' = "writeback"
  THEN [a_stb_head.addr EXCEPT
          !.tag = tram[a_stb_head.addr.index][CHOOSE w \in b_stb_way' : TRUE]]
  ELSE a_stb_head.addr

NewBusOp ==
  /\ b_bus_op_block_word' = 0
  /\ CASE a_new_bus_op_owner = "none" ->
            /\ b_bus_op_state' = "none"
            /\ b_bus_op_way' = {}
            /\ b_bus_op_paddr' = NoRequest
       [] a_new_bus_op_owner = "request" ->
            /\ b_bus_op_state' = a_request_bus_op_state
            /\ b_bus_op_way' = b_request_way'
            /\ b_bus_op_paddr' = a_request_bus_op_paddr
       [] a_new_bus_op_owner = "stb" ->
            /\ b_bus_op_state' = a_stb_bus_op_state
            /\ b_bus_op_way' = b_stb_way'
            /\ b_bus_op_paddr' = a_stb_bus_op_paddr
ContinueBusOp ==
  /\ b_bus_op_state' = b_bus_op_state_next
  /\ b_bus_op_way' = b_bus_op_way
  /\ IF b_bus_op_block_word_advance
     THEN /\ b_bus_op_block_word' = (b_bus_op_block_word + 1) % BlockWords
          /\ b_bus_op_paddr' = next_in_block(b_bus_op_paddr)
     ELSE UNCHANGED <<b_bus_op_block_word, b_bus_op_paddr>>

a_bus_op_want_cache == b_bus_op_state' \in {"fill_first", "writeback_first"}
a_bus_op_granted ==
  a_bus_op_want_cache =>
    /\ b_vtram_owner_next \in {"bus_op", "none"}
    /\ b_rmdram_owner_next \in {"bus_op", "none"}
    /\ ~(b_request_granted' /\ (a_request_want_vtram \/ a_request_want_rmdram))
    /\ ~(a_stb_want_vtram \/ a_stb_want_rmdram)

BusOp ==
  /\ b_bus_op_owner' = IF b_bus_op_owner_next # "none" THEN b_bus_op_owner_next
                                                       ELSE a_new_bus_op_owner
  /\ IF b_bus_op_complete THEN NewBusOp ELSE ContinueBusOp
  /\ b_bus_op_requested' = ((b_bus_op_requested /\ ~b_bus_op_complete) \/ sys_ready)
  /\ b_bus_op_granted' = a_bus_op_granted

NewOwner(request, stb) ==
  CASE request /\ ~stb -> "request"
    [] ~request /\ stb -> "stb"
    [] ~request /\ ~stb ->
         IF a_bus_op_want_cache /\ b_bus_op_granted' THEN "bus_op" ELSE "none"
Owner ==
  /\ b_vtram_owner' =
       IF b_vtram_owner_next # "none" THEN b_vtram_owner_next
       ELSE NewOwner(b_request_granted' /\ a_request_want_vtram, a_stb_want_vtram)
  /\ b_rmdram_owner' =
       IF b_rmdram_owner_next # "none" THEN b_rmdram_owner_next
       ELSE NewOwner(b_request_granted' /\ a_request_want_rmdram, a_stb_want_rmdram)

\* What goes to the bus.  A block that is written back comes from the data
\* RAM, which is one word ahead of the bus.
a_sys_burst ==
  \/ b_bus_op_state' = "writeback"
  \/ /\ b_bus_op_state' \in {"fill_first", "fill"}
     /\ b_bus_op_block_word' # BlockWords - 1
sys_master_out ==
  CASE b_bus_op_state' \in {"none", "fill_last", "writeback_first"} -> NoRequest
    [] b_bus_op_state' \in {"load", "fill_first", "fill"} ->
         [write |-> FALSE, burst |-> a_sys_burst, addr |-> b_bus_op_paddr']
    [] b_bus_op_state' = "store" ->
         LET source == IF b_bus_op_owner' = "stb" THEN a_stb_head ELSE b_request
         IN [write |-> TRUE, burst |-> FALSE, addr |-> b_bus_op_paddr',
             bytes |-> source.bytes, data |-> source.data]
    [] b_bus_op_state' \in {"writeback", "writeback_last"} ->
         [write |-> TRUE, burst |-> a_sys_burst, addr |-> b_bus_op_paddr,
          bytes |-> Bytes,
          data |-> IF SamePlace(b_bus_op_paddr) THEN mux_1hot(dram, b_bus_op_way)
                                                ELSE Noise]

-----------------------------------------------------------------------------
(***************************************************************************)
(* The RAMs.                                                               *)
(***************************************************************************)
b_vram_we ==
  /\ ~b_bus_op_error
  /\ \/ b_vtram_owner = "request" /\ b_request_state = "invalidate_l1_access"
     \/ /\ b_vtram_owner = "bus_op"
        /\ \/ b_bus_op_state = "fill_last"
           \/ /\ b_bus_op_state = "fill_first"
              /\ sys_ready
              /\ b_bus_op_block_word = 0
\* The source has 'X' for what is written in fill_first: hardware does what it
\* does in one of the other two states of a fill.
b_vram_wdata ==
  CASE b_vtram_owner = "request" -> {{}}
    [] b_vtram_owner = "bus_op" /\ b_bus_op_state = "fill_last" ->
         {b_vram_rdata \cup b_bus_op_way}
    [] b_vtram_owner = "bus_op" /\ b_bus_op_state = "fill_first" ->
         {b_vram_rdata \ b_bus_op_way, b_vram_rdata \cup b_bus_op_way}

\* (mutant) The line is clean after the first word has been written back.
b_mram_we_first ==
  /\ ~b_bus_op_error
  /\ \/ b_rmdram_owner = "stb" /\ b_stb_state = "write" /\ b_stb_write_cache
     \/ /\ b_rmdram_owner = "bus_op"
        /\ \/ b_bus_op_state = "fill_last"
           \/ b_bus_op_state \in {"writeback", "writeback_last"} /\ sys_ready
b_mram_we ==
  /\ ~b_bus_op_error
  /\ \/ b_rmdram_owner = "stb" /\ b_stb_state = "write" /\ b_stb_write_cache
     \/ /\ b_rmdram_owner = "bus_op"
        /\ \/ b_bus_op_state = "fill_last"
           \/ b_bus_op_state = "writeback_last" /\ sys_ready
\* A store to the cache makes its line dirty, a fill or a write-back clean.
b_mram_wdata ==
  IF b_rmdram_owner = "stb" THEN b_mram_rdata \cup b_stb_way
                            ELSE b_mram_rdata \ b_bus_op_way

\* The word on the bus goes into the way at the address of the beat it
\* answers, the tag with the last of them; a store into its way.
a_tram_we == b_vtram_owner' = "bus_op" /\ b_bus_op_state' = "fill_last"
a_dram_fill ==
  /\ b_rmdram_owner' = "bus_op"
  /\ b_bus_op_state' \in {"fill", "fill_last"}
  /\ sys_ready
  /\ SamePlace(b_bus_op_paddr)
a_dram_store ==
  /\ b_rmdram_owner' = "stb"
  /\ b_stb_state' = "write"
  /\ SamePlace(a_stb_head.addr)
  /\ watched.byte \in a_stb_head.bytes

\* The ways whose use is written to the replacement policy, and the set.
b_replace_wway ==
  CASE b_rmdram_owner = "none" -> {}
    [] b_rmdram_owner = "request" ->
         IF b_request_state = "cached_load_l1_access" /\ ~b_request_mmu_error
         THEN b_request_cache_way_hit ELSE {}
    [] b_rmdram_owner = "stb" ->
         IF b_stb_state = "write" /\ b_stb_write_cache /\ b_stb_pop_write
         THEN b_stb_way ELSE {}
    [] b_rmdram_owner = "bus_op" ->
         IF b_bus_op_state = "fill_last" THEN b_bus_op_way ELSE {}
b_replace_we == ~b_bus_op_error /\ b_replace_wway # {}
b_replace_windex == b_rmdram_index
\* The set that the policy reads for the next cycle.
\* (mutant) It does not when a fill comes to its end.
a_replace_re_unfilled ==
  CASE b_rmdram_owner' \in {"none", "bus_op"} -> FALSE
    [] b_rmdram_owner' = "request" -> b_request_state' # "writeback_l1_access"
    [] b_rmdram_owner' = "stb" -> b_stb_state' = "replace_access"
a_replace_re ==
  CASE b_rmdram_owner' = "none" -> FALSE
    [] b_rmdram_owner' = "request" -> b_request_state' # "writeback_l1_access"
    [] b_rmdram_owner' = "stb" -> b_stb_state' = "replace_access"
    [] b_rmdram_owner' = "bus_op" -> b_bus_op_state' = "fill_last"
a_replace_rindex ==
  CASE b_rmdram_owner' = "request" -> b_request'.addr.index
    [] b_rmdram_owner' = "stb" -> a_stb_head.addr.index
    [] b_rmdram_owner' = "bus_op" -> b_bus_op_paddr.index

Rams ==
  /\ IF b_vram_we
     THEN \E wdata \in b_vram_wdata :
            vram' = [vram EXCEPT ![b_vtram_index] = wdata]
     ELSE vram' = vram
  /\ mram' = IF b_mram_we THEN [mram EXCEPT ![b_rmdram_index] = b_mram_wdata]
                          ELSE mram
  /\ tram' = IF a_tram_we
             THEN [tram EXCEPT ![b_bus_op_paddr.index] =
                     [w \in Ways |-> IF w \in b_bus_op_way'
                                     THEN b_bus_op_paddr.tag ELSE @[w]]]
             ELSE tram
  /\ dram' = CASE a_dram_fill ->
                    [w \in Ways |-> IF w \in b_bus_op_way' THEN sys_data ELSE dram[w]]
               [] a_dram_store ->
                    [w \in Ways |-> IF w \in b_stb_way' THEN a_stb_head.data ELSE dram[w]]
               [] OTHER -> dram

-----------------------------------------------------------------------------
\* Out of reset.  The RAMs, and the registers without a reset value, hold
\* anything; what stands for that in the registers is never looked at.
Init ==
  /\ watched \in [addr : Addr, byte : Bytes]
  /\ b_vtram_owner = "none"
  /\ b_rmdram_owner = "none"
  /\ b_bus_op_owner = "none"
  /\ b_request = [code |-> "none"]
  /\ b_request_state = "none"
  /\ b_request_granted = FALSE
  /\ b_request_way = {}
  /\ b_bus_op_state = "none"
  /\ b_bus_op_way = {}
  /\ b_bus_op_granted = FALSE
  /\ b_bus_op_requested \in BOOLEAN
  /\ b_bus_op_block_word = 0
  /\ b_bus_op_paddr = NoRequest
  /\ b_stb_state = "init"
  /\ b_stb_way = {}
  /\ b_stb_write_cache = FALSE
  /\ b_stb_write_bus = FALSE
  /\ b_stb_head_ptr = 0
  /\ b_stb_tail_ptr = 0
  /\ b_stb_array = [n \in Slots |-> NoEntry]
  /\ vram \in [Indexes -> SUBSET Ways]
  /\ mram \in [Indexes -> SUBSET Ways]
  /\ tram \in [Indexes -> [Ways -> Tags]]
  /\ dram = [w \in Ways |-> Noise]

Clock(i, victim) ==
  /\ StoreBuffer
  /\ Request(i, victim)
  /\ StbControl(victim)
  /\ BusOp
  /\ Owner
  /\ Rams
  /\ UNCHANGED watched
=============================================================================
