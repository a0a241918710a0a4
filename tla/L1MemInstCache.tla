--------------------------- MODULE L1MemInstCache ---------------------------
(***************************************************************************)
(* The level-1 instruction cache (hdl/cpu/l1mem/inst/cache: the control    *)
(* path cpu_l1mem_inst_cache_ctrl-rtl.vhdl, the data path ..._dp-rtl.vhdl, *)
(* and the three RAMs they drive) with the pass-through MMU behind it.     *)
(*                                                                         *)
(* A synchronous component, in the two phases of the source: b_ signals    *)
(* finish the cycle that the registers describe, a_ signals start the      *)
(* next one.  The ports are                                                *)
(*   i                    the request the pipe drives (a_new_request)      *)
(*   victim               a way the replacement policy may choose          *)
(*   sys_ready, sys_error,                                                 *)
(*   sys_data             the slave side of the bus                        *)
(* and Clock(i, victim) is one rising edge of clk with rstn = '1'.         *)
(*                                                                         *)
(* A one-hot vector of ways is the set of the ways whose bit is '1'.  What *)
(* is 'X' in the source is {} for such a vector and NoRequest for an       *)
(* address; a CASE without OTHER leaves out the states that give 'X'.  TLC *)
(* stops if such a value is ever used.                                     *)
(*                                                                         *)
(* Left out: the sync request, which the pipe ties to '0'; the privilege   *)
(* bit; the wait for the MMU, whose pass-through version is ready in every *)
(* cycle and translates nothing: the tag of an address is its page number. *)
(* An access of the RAMs takes effect in the cycle in which its result is  *)
(* on their output register; nothing can write them in between.            *)
(***************************************************************************)
EXTENDS Integers

CONSTANTS
  Ways, Tags, Indexes,
  BlockInsts,  \* words in a block, at least two
  NoRequest    \* no request on the bus

VARIABLES
  b_cache_owner, b_bus_op_owner,         \* "none", "request" or "bus_op"
  b_request, b_request_state, b_request_granted,
  b_request_tagless,                     \* the way is known: compare no tags
  b_request_way,
  b_bus_op_state, b_bus_op_way, b_bus_op_granted, b_bus_op_requested,
  b_bus_op_block_inst,                   \* number of the beat of the fill
  b_bus_op_addr,
  vram, tram, dram,                      \* valid bits, tags and words
  sys_ready, sys_error, sys_data         \* ports

Offsets == 0 .. BlockInsts - 1
Addr == [tag : Tags, index : Indexes, offset : Offsets]

Owners == {"none", "request", "bus_op"}
RequestStates ==
  {"none", "uncached_fetch_mmu_access", "uncached_fetch_bus_op",
   "cached_fetch_l1_access", "cached_fetch_fill",
   "invalidate_sync", "invalidate_l1_access"}
BusOpStates == {"none", "fetch", "fill_first", "fill", "fill_last"}

\* What the pipe may drive.  seq: the fetch follows the last one.
Fetches == [code : {"fetch"}, seq : BOOLEAN, cacheen : BOOLEAN,
            mmuen : BOOLEAN, alloc : BOOLEAN, addr : Addr]
Invalidates == [code : {"invalidate"}, seq : BOOLEAN, addr : Addr]
Nones == [code : {"none"}, seq : BOOLEAN]
Requests == Fetches \cup Invalidates \cup Nones

last_in_block(addr) == addr.offset = BlockInsts - 1
next_in_block(addr) == [addr EXCEPT !.offset = (@ + 1) % BlockInsts]

-----------------------------------------------------------------------------
(***************************************************************************)
(* The bus operation in its second phase.                                  *)
(***************************************************************************)
b_bus_op_cycle_complete == b_bus_op_requested /\ sys_ready
b_bus_op_error == b_bus_op_cycle_complete /\ sys_error
b_bus_op_fill_complete == b_bus_op_state = "fill_last"
b_bus_op_fill_fetch_data_ready ==
  CASE b_bus_op_state = "fill_first" -> b_bus_op_cycle_complete
    [] b_bus_op_state \in {"fill", "fill_last"} -> sys_ready
b_bus_op_complete ==
  \/ b_bus_op_state \in {"none", "fill_last"}
  \/ b_bus_op_state = "fetch" /\ b_bus_op_cycle_complete
b_bus_op_block_inst_advance ==
  b_bus_op_state \in {"fill_first", "fill"} /\ sys_ready

\* (mutant) The fill ends one word early.
b_bus_op_last_beat_early == b_bus_op_block_inst = BlockInsts - 2
b_bus_op_last_beat == b_bus_op_block_inst = BlockInsts - 1

b_bus_op_state_next ==
  IF b_bus_op_error THEN "none"
  ELSE CASE b_bus_op_state = "fetch" -> "fetch"
         [] b_bus_op_state = "fill_first" ->
              IF b_bus_op_granted THEN "fill" ELSE "fill_first"
         [] b_bus_op_state = "fill" ->
              IF b_bus_op_cycle_complete /\ b_bus_op_last_beat
              THEN "fill_last" ELSE "fill"

-----------------------------------------------------------------------------
(***************************************************************************)
(* The request in its second phase.                                        *)
(***************************************************************************)
b_cache_index ==
  IF b_cache_owner = "bus_op" THEN b_bus_op_addr.index ELSE b_request.addr.index
b_vram_rdata == vram[b_cache_index]

b_request_cache_way_hit ==
  {w \in b_vram_rdata : tram[b_cache_index][w] = b_request.addr.tag}
b_request_cache_hit == b_request_cache_way_hit # {}

\* A free way if there is one (which one is left open), else the policy's.
b_replace_way == IF b_vram_rdata = Ways THEN Ways ELSE Ways \ b_vram_rdata

\* (mutant) Waits for the end of a fill, also when there is none.
b_request_sync_fill == b_bus_op_fill_complete
b_request_sync == b_cache_owner = "none" /\ b_bus_op_owner = "none"

b_request_mmu_error == b_request.mmuen

\* Completion, state by state.
b_request_complete_uncached_fetch_bus_op ==
  b_request_granted /\ b_bus_op_cycle_complete
b_request_complete_cached_fetch_l1_access ==
  \/ b_request_mmu_error
  \/ b_request_granted /\ (b_request_tagless \/ b_request_cache_hit)
b_request_complete_cached_fetch_fill ==
  b_request_granted /\ b_bus_op_fill_fetch_data_ready
b_request_complete ==
  \/ b_bus_op_error
  \/ CASE b_request_state = "none" -> TRUE
       [] b_request_state = "uncached_fetch_mmu_access" -> b_request_mmu_error
       [] b_request_state = "uncached_fetch_bus_op" ->
            b_request_complete_uncached_fetch_bus_op
       [] b_request_state = "cached_fetch_l1_access" ->
            b_request_complete_cached_fetch_l1_access
       [] b_request_state = "cached_fetch_fill" ->
            b_request_complete_cached_fetch_fill
       [] b_request_state = "invalidate_sync" -> FALSE
       [] b_request_state = "invalidate_l1_access" -> b_request_granted

b_request_state_next ==
  IF b_bus_op_error THEN "none"
  ELSE CASE b_request_state = "uncached_fetch_mmu_access" ->
              "uncached_fetch_bus_op"
         [] b_request_state = "cached_fetch_l1_access" ->
              IF ~b_request_granted THEN "cached_fetch_l1_access"
              ELSE IF b_request.alloc THEN "cached_fetch_fill"
              ELSE "uncached_fetch_bus_op"
         [] b_request_state = "invalidate_sync" ->
              IF b_request_sync THEN "invalidate_l1_access" ELSE "invalidate_sync"
         [] b_request_state \in {"uncached_fetch_bus_op", "cached_fetch_fill",
                                 "invalidate_l1_access"} -> b_request_state

\* The way the request is in or will be filled into.
b_request_way_next(victim) ==
  IF b_request_state = "cached_fetch_l1_access" /\ ~b_request_tagless
  THEN IF ~b_request_granted THEN {}
       ELSE IF b_request_cache_hit THEN b_request_cache_way_hit
       ELSE {victim}
  ELSE IF b_request_state \in {"none", "cached_fetch_l1_access", "cached_fetch_fill"}
  THEN b_request_way
  ELSE {}

\* May the next fetch, if it is the next word, use the same way unchecked?
\* (mutant) The end of the block is forgotten.
b_request_tagless_seq_next_unbounded ==
  IF b_request_state = "none" THEN b_request_tagless
  ELSE b_request_state \in {"cached_fetch_l1_access", "cached_fetch_fill"}
b_request_tagless_seq_next ==
  IF b_request_state = "none" THEN b_request_tagless
  ELSE /\ b_request_state \in {"cached_fetch_l1_access", "cached_fetch_fill"}
       /\ ~last_in_block(b_request.addr)

\* The answer: the words the one-hot multiplexer lets through.
b_cache_read_data ==
  {dram[b_request.addr.index][w][b_request.addr.offset] :
     w \in IF b_request_tagless THEN b_request_way ELSE b_request_cache_way_hit}
b_result_inst ==
  IF b_request_state = "cached_fetch_l1_access" THEN b_cache_read_data
                                                ELSE {sys_data}

\* Who keeps the cache, and who keeps the bus, unless it is given up now.
b_cache_owner_next ==
  IF /\ ~b_bus_op_error
     /\ b_cache_owner = "bus_op"
     /\ b_bus_op_owner # "none"
     /\ ~b_bus_op_fill_complete
  THEN "bus_op" ELSE "none"
b_bus_op_owner_next ==
  IF b_bus_op_error \/ b_bus_op_owner = "none" THEN "none"
  ELSE IF b_bus_op_owner = "request" /\ b_request_state = "uncached_fetch_bus_op"
  THEN IF b_bus_op_cycle_complete THEN "none" ELSE "request"
  ELSE IF b_bus_op_fill_complete THEN "none"
  ELSE IF b_bus_op_fill_fetch_data_ready THEN "bus_op"
  ELSE b_bus_op_owner

-----------------------------------------------------------------------------
(***************************************************************************)
(* The request in its first phase.                                         *)
(***************************************************************************)
\* The next word of the block that is being filled needs no new access.
\* (mutant) In any direction.
a_new_request_fill_forward_any(i) ==
  /\ i.code = "fetch"
  /\ b_request_state = "cached_fetch_fill"
  /\ ~last_in_block(b_request.addr)
  /\ i.mmuen = b_request.mmuen
a_new_request_fill_forward(i) ==
  /\ i.code = "fetch"
  /\ b_request_state = "cached_fetch_fill"
  /\ i.seq
  /\ ~last_in_block(b_request.addr)
  /\ i.mmuen = b_request.mmuen

a_new_request_state(i) ==
  CASE i.code = "none" -> "none"
    [] i.code = "invalidate" -> "invalidate_sync"
    [] i.code = "fetch" ->
         IF ~i.cacheen THEN "uncached_fetch_mmu_access"
         ELSE IF a_new_request_fill_forward(i) THEN "cached_fetch_fill"
         ELSE "cached_fetch_l1_access"

a_request(i) == IF b_request_complete THEN i ELSE b_request
a_request_state(i) ==
  IF b_request_complete THEN a_new_request_state(i) ELSE b_request_state_next
a_request_tagless(i) ==
  IF b_request_complete THEN b_request_tagless_seq_next /\ i.seq
                        ELSE b_request_tagless

a_request_want_cache(i) ==
  a_request_state(i) \in {"cached_fetch_l1_access", "invalidate_l1_access"}
a_request_want_bus_op(i) ==
  a_request_state(i) \in {"uncached_fetch_bus_op", "cached_fetch_fill"}

a_request_granted(i) ==
  \/ /\ a_request_want_cache(i) => b_cache_owner_next # "bus_op"
     /\ a_request_want_bus_op(i) => b_bus_op_owner_next # "bus_op"
  \/ b_request_complete /\ a_new_request_fill_forward(i)

-----------------------------------------------------------------------------
(***************************************************************************)
(* The bus operation in its first phase, and the owners.                   *)
(***************************************************************************)
a_new_bus_op(i) == a_request_granted(i) /\ a_request_want_bus_op(i)

a_bus_op_owner(i) ==
  IF b_bus_op_owner_next # "none" THEN b_bus_op_owner_next
  ELSE IF a_new_bus_op(i) THEN "request" ELSE "none"
a_bus_op_state(i) ==
  IF ~b_bus_op_complete THEN b_bus_op_state_next
  ELSE IF ~a_new_bus_op(i) THEN "none"
  ELSE IF a_request_state(i) = "cached_fetch_fill" THEN "fill_first" ELSE "fetch"
a_bus_op_way(i, victim) ==
  IF ~b_bus_op_complete THEN b_bus_op_way
  ELSE IF a_new_bus_op(i) THEN b_request_way_next(victim) ELSE {}
a_bus_op_block_inst ==
  IF b_bus_op_complete THEN 0
  ELSE IF b_bus_op_block_inst_advance THEN (b_bus_op_block_inst + 1) % BlockInsts
  ELSE b_bus_op_block_inst
\* The page number comes from the MMU, so it is that of the last request.
a_bus_op_addr(i) ==
  IF ~b_bus_op_complete
  THEN IF b_bus_op_block_inst_advance THEN next_in_block(b_bus_op_addr)
                                      ELSE b_bus_op_addr
  ELSE IF a_new_bus_op(i) THEN [a_request(i).addr EXCEPT !.tag = b_request.addr.tag]
  ELSE NoRequest

a_bus_op_granted(i) ==
  a_bus_op_state(i) = "fill_first" =>
    ~(a_request_granted(i) /\ a_request_want_cache(i))
a_cache_owner(i) ==
  IF b_cache_owner_next # "none" THEN b_cache_owner_next
  ELSE IF a_request_granted(i) /\ a_request_want_cache(i) THEN "request"
  ELSE IF a_bus_op_granted(i) /\ a_bus_op_state(i) = "fill_first" THEN "bus_op"
  ELSE "none"

\* What goes to the bus: words one by one, or a burst that wraps at the block.
\* (mutant) The burst is announced as if it went on after its last beat.
a_sys_burst_endless(i) == a_bus_op_state(i) \in {"fill_first", "fill"}
a_sys_burst(i) ==
  /\ a_bus_op_state(i) \in {"fill_first", "fill"}
  /\ a_bus_op_block_inst # BlockInsts - 1
sys_master_out(i) ==
  IF a_bus_op_state(i) \in {"none", "fill_last"} THEN NoRequest
  ELSE [write |-> FALSE, burst |-> a_sys_burst(i), addr |-> a_bus_op_addr(i)]

-----------------------------------------------------------------------------
(***************************************************************************)
(* Registers and RAMs.                                                     *)
(***************************************************************************)
\* (mutant) An invalidation clears the way of the last fetch only.
b_vram_wdata_one_way ==
  IF b_cache_owner = "bus_op" /\ b_bus_op_state = "fill_last"
  THEN b_vram_rdata \cup b_bus_op_way
  ELSE b_vram_rdata \ b_bus_op_way
\* An invalidation clears its set; a fill clears the bit of its way at the
\* first beat, if that is there already, and sets it at the end.
b_vram_wdata ==
  IF b_cache_owner = "request" /\ b_request_state = "invalidate_l1_access" THEN {}
  ELSE IF b_cache_owner = "bus_op" /\ b_bus_op_state = "fill_last"
  THEN b_vram_rdata \cup b_bus_op_way
  ELSE b_vram_rdata \ b_bus_op_way
b_vram_we ==
  /\ ~b_bus_op_error
  /\ \/ b_cache_owner = "request" /\ b_request_state = "invalidate_l1_access"
     \/ /\ b_cache_owner = "bus_op"
        /\ \/ b_bus_op_state = "fill_last"
           \/ /\ b_bus_op_state = "fill_first"
              /\ sys_ready
              /\ b_bus_op_block_inst = 0

\* The ways whose use is written to the policy, and the set it is written to.
b_replace_wway ==
  IF b_cache_owner = "request" /\ b_request_state = "cached_fetch_l1_access"
  THEN IF b_request_mmu_error THEN {}
       ELSE IF b_request_tagless THEN b_request_way ELSE b_request_cache_way_hit
  ELSE IF b_cache_owner = "bus_op" /\ b_bus_op_state = "fill_last"
  THEN b_bus_op_way ELSE {}
b_replace_we == ~b_bus_op_error /\ b_replace_wway # {}
b_replace_windex == b_cache_index

\* The policy reads the set of every access to the RAMs but the beats of a fill.
\* (mutant) Not either with the last beat, in which the fill records its use.
a_replace_re_unfilled(i) == a_cache_owner(i) = "request"
a_replace_re(i) ==
  \/ a_cache_owner(i) = "request"
  \/ a_cache_owner(i) = "bus_op" /\ a_bus_op_state(i) = "fill_last"
a_replace_rindex(i) ==
  IF a_cache_owner(i) = "request" THEN a_request(i).addr.index
                                  ELSE b_bus_op_addr.index

\* The word on the bus goes into the way at the address of the beat it
\* answers; the tag follows with the last of them.
a_dram_we(i) ==
  /\ a_cache_owner(i) = "bus_op"
  /\ a_bus_op_state(i) \in {"fill", "fill_last"}
  /\ sys_ready
a_tram_we(i) == a_cache_owner(i) = "bus_op" /\ a_bus_op_state(i) = "fill_last"

Rams(i) ==
  /\ vram' = IF b_vram_we THEN [vram EXCEPT ![b_cache_index] = b_vram_wdata]
                          ELSE vram
  /\ dram' = IF a_dram_we(i)
             THEN [dram EXCEPT ![b_bus_op_addr.index] =
                     [w \in Ways |-> IF w \in b_bus_op_way
                        THEN [@[w] EXCEPT ![b_bus_op_addr.offset] = sys_data]
                        ELSE @[w]]]
             ELSE dram
  /\ tram' = IF a_tram_we(i)
             THEN [tram EXCEPT ![b_bus_op_addr.index] =
                     [w \in Ways |-> IF w \in b_bus_op_way
                                     THEN b_bus_op_addr.tag ELSE @[w]]]
             ELSE tram

Registers(i, victim) ==
  /\ b_cache_owner' = a_cache_owner(i)
  /\ b_bus_op_owner' = a_bus_op_owner(i)
  /\ b_request' = [a_request(i) EXCEPT !.seq = FALSE]  \* not looked at again
  /\ b_request_state' = a_request_state(i)
  /\ b_request_granted' = a_request_granted(i)
  /\ b_request_tagless' = a_request_tagless(i)
  /\ b_request_way' = b_request_way_next(victim)
  /\ b_bus_op_state' = a_bus_op_state(i)
  /\ b_bus_op_way' = a_bus_op_way(i, victim)
  /\ b_bus_op_granted' = a_bus_op_granted(i)
  /\ b_bus_op_requested' = ((b_bus_op_requested /\ ~b_bus_op_complete) \/ sys_ready)
  /\ b_bus_op_block_inst' = a_bus_op_block_inst
  /\ b_bus_op_addr' = a_bus_op_addr(i)

\* Out of reset.  The RAMs, and the registers without a reset value, hold
\* anything; what stands for that in the registers is never looked at.
Init(word) ==
  /\ b_cache_owner = "none"
  /\ b_bus_op_owner = "none"
  /\ b_request = [code |-> "none", seq |-> FALSE]
  /\ b_request_state = "none"
  /\ b_request_granted = FALSE
  /\ b_request_tagless \in BOOLEAN
  /\ b_request_way = {}
  /\ b_bus_op_state = "none"
  /\ b_bus_op_way = {}
  /\ b_bus_op_granted = FALSE
  /\ b_bus_op_requested \in BOOLEAN
  /\ b_bus_op_block_inst = 0
  /\ b_bus_op_addr = NoRequest
  /\ vram \in [Indexes -> SUBSET Ways]
  /\ tram \in [Indexes -> [Ways -> Tags]]
  /\ dram = [x \in Indexes |-> [w \in Ways |-> [o \in Offsets |-> word]]]

Clock(i, victim) == Registers(i, victim) /\ Rams(i)
=============================================================================
