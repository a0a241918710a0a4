-------------------------- MODULE InstFetchProofs --------------------------
(***************************************************************************)
(* The safety of InstFetch, for any number of ways, tags and sets, blocks  *)
(* of any length from two words up, and any interleaving of stores:        *)
(* IInv is an inductive invariant, and every safety property the runs      *)
(* check follows from it.                                                  *)
(***************************************************************************)
EXTENDS InstFetch, FiniteSetTheorems, TLAPS

(***************************************************************************)
(* What one cycle of InstFetch does to each register, RAM and port in a    *)
(* state of the inductive invariant: the operators of the instruction      *)
(* cache, which describe the logic in front of each register, brought to   *)
(* the form in which the proofs below use them.                            *)
(***************************************************************************)
\* What drives the cache in a cycle: a new request, or the one it has.
Input(i) ==
  IF Cache!b_request_complete THEN i \in PipeRequests /\ Taken(i)
  ELSE i = b_request /\ UNCHANGED <<last, faulted, asked>>

\* A step of the system in which the cache takes i, and victim may be replaced.
Cycled(i, victim) ==
  /\ Input(i)
  /\ victim \in Victims
  /\ Cache!Clock(i, victim)
  /\ Invalidated
  /\ listed' = IF Cache!a_replace_re(i) THEN Cache!a_replace_rindex(i) ELSE NoRequest
  /\ Bus(IF sys_ready THEN Cache!sys_master_out(i) ELSE port.req)

-----------------------------------------------------------------------------
(***************************************************************************)
(* The request that enters the cache.                                      *)
(***************************************************************************)
\* Offsets wrap at the end of a block.
LEMMA NextOffset ==
  ASSUME NEW o \in Cache!Offsets
  PROVE  (o + 1) % BlockInsts = IF o = BlockInsts - 1 THEN 0 ELSE o + 1
<1>1. \A k \in Nat : k < BlockInsts => k % BlockInsts = k
  BY BlockAssumption
<1>2. BlockInsts % BlockInsts = 0
  BY BlockAssumption
<1> QED
  BY <1>1, <1>2, BlockAssumption DEF Cache!Offsets

\* The next word is in the same block.
LEMMA NextInBlock ==
  ASSUME NEW a \in Addr
  PROVE  /\ Cache!next_in_block(a) \in Addr
         /\ Cache!next_in_block(a).tag = a.tag
         /\ Cache!next_in_block(a).index = a.index
         /\ Cache!next_in_block(a).offset =
              IF a.offset = BlockInsts - 1 THEN 0 ELSE a.offset + 1
<1>1. a.offset \in Cache!Offsets
  BY DEF Addr, Cache!Addr
<1>2. (a.offset + 1) % BlockInsts = IF a.offset = BlockInsts - 1 THEN 0 ELSE a.offset + 1
  BY <1>1, NextOffset
<1>3. (a.offset + 1) % BlockInsts \in Cache!Offsets
  BY <1>1, <1>2, BlockAssumption DEF Cache!Offsets
<1> QED
  BY <1>2, <1>3 DEF Addr, Cache!Addr, Cache!next_in_block

\* The pipe asks for addresses.
LEMMA FollowingTyped ==
  ASSUME IInv
  PROVE  Following \subseteq Addr /\ (Following # {} => last \in Addr)
BY NextInBlock DEF Following, IInv, TypeOK

\* What a request that the cache takes may be.
LEMMA Accepted ==
  ASSUME IInv, NEW i, Input(i), Cache!b_request_complete
  PROVE  /\ i \in Cache!Requests
         /\ i.code = "fetch" => i.alloc /\ (i.cacheen => i.addr.index \in invalidated)
         /\ i.code = "fetch" => /\ last' = i.addr
                                /\ faulted' = (i.mmuen \/ (i.seq /\ faulted))
                                /\ asked' = memory[i.addr]
         /\ i.code # "fetch" => last' = last /\ faulted' = faulted /\ asked' = asked
         /\ i.code = "fetch" /\ i.seq =>
              /\ last \in Addr
              /\ Cache!last_in_block(last) \/ i.addr = Cache!next_in_block(last)
<1>1. i \in PipeRequests /\ Taken(i)
  BY DEF Input
<1>2. CASE i \in PipeFetch(FALSE, Addr)
  <2>1. /\ i \in [code : {"fetch"}, seq : {FALSE}, cacheen : BOOLEAN,
                 mmuen : BOOLEAN, alloc : {TRUE}, addr : Addr]
        /\ i.cacheen => i.addr.index \in invalidated
    BY <1>2 DEF PipeFetch
  <2> QED BY <2>1, <1>1 DEF Taken, Cache!Requests, Cache!Fetches, Addr
<1>3. CASE i \in PipeFetch(TRUE, Following)
  <2>1. /\ i \in [code : {"fetch"}, seq : {TRUE}, cacheen : BOOLEAN,
                 mmuen : BOOLEAN, alloc : {TRUE}, addr : Following]
        /\ i.cacheen => i.addr.index \in invalidated
    BY <1>3 DEF PipeFetch
  <2>2. i.addr \in Following /\ i.addr \in Addr /\ last \in Addr
    BY <2>1, FollowingTyped
  <2>3. Cache!last_in_block(last) \/ i.addr = Cache!next_in_block(last)
    BY <2>2 DEF Following
  <2> QED BY <2>1, <2>2, <2>3, <1>1 DEF Taken, Cache!Requests, Cache!Fetches, Addr
<1>4. CASE i \in Cache!Invalidates \cup Cache!Nones
  BY <1>1, <1>4 DEF Taken, Cache!Requests, Cache!Invalidates, Cache!Nones
<1> QED BY <1>1, <1>2, <1>3, <1>4 DEF PipeRequests, PipeFetches

-----------------------------------------------------------------------------
(***************************************************************************)
(* The state machines.  The CASE expressions of the cache leave out the    *)
(* states whose value is not looked at, so each is evaluated where it is   *)
(* defined.                                                                *)
(***************************************************************************)
\* The next state of a bus operation that is not over, state by state.
LEMMA BusOpNextState ==
  ASSUME Cache!b_bus_op_error = FALSE
  PROVE  /\ b_bus_op_state = "fetch" => Cache!b_bus_op_state_next = "fetch"
         /\ b_bus_op_state = "fill_first" =>
              Cache!b_bus_op_state_next = IF b_bus_op_granted THEN "fill" ELSE "fill_first"
         /\ b_bus_op_state = "fill" =>
              Cache!b_bus_op_state_next =
                IF Cache!b_bus_op_cycle_complete /\ Cache!b_bus_op_last_beat
                THEN "fill_last" ELSE "fill"
<1>1. ASSUME b_bus_op_state = "fetch" PROVE Cache!b_bus_op_state_next = "fetch"
  BY <1>1, Zenon DEF Cache!b_bus_op_state_next
<1>2. ASSUME b_bus_op_state = "fill_first"
      PROVE  Cache!b_bus_op_state_next = IF b_bus_op_granted THEN "fill" ELSE "fill_first"
  BY <1>2, Zenon DEF Cache!b_bus_op_state_next
<1>3. ASSUME b_bus_op_state = "fill"
      PROVE  Cache!b_bus_op_state_next =
               IF Cache!b_bus_op_cycle_complete /\ Cache!b_bus_op_last_beat
               THEN "fill_last" ELSE "fill"
  BY <1>3, Zenon DEF Cache!b_bus_op_state_next
<1> QED BY <1>1, <1>2, <1>3

\* The state that a new request is in, code by code.
LEMMA NewStateOfCode ==
  ASSUME NEW i
  PROVE  /\ i.code = "none" => Cache!a_new_request_state(i) = "none"
         /\ i.code = "invalidate" => Cache!a_new_request_state(i) = "invalidate_sync"
         /\ i.code = "fetch" =>
              Cache!a_new_request_state(i) =
                IF ~i.cacheen THEN "uncached_fetch_mmu_access"
                ELSE IF Cache!a_new_request_fill_forward(i) THEN "cached_fetch_fill"
                ELSE "cached_fetch_l1_access"
<1>1. CASE i.code = "none" BY <1>1, Zenon DEF Cache!a_new_request_state
<1>2. CASE i.code = "invalidate" BY <1>2, Zenon DEF Cache!a_new_request_state
<1>3. CASE i.code = "fetch" BY <1>3, Zenon DEF Cache!a_new_request_state
<1> QED BY <1>1, <1>2, <1>3

\* The next state of a request that is not complete, state by state.
LEMMA RequestNextState ==
  ASSUME Cache!b_bus_op_error = FALSE
  PROVE  /\ b_request_state = "uncached_fetch_mmu_access" =>
              Cache!b_request_state_next = "uncached_fetch_bus_op"
         /\ b_request_state = "cached_fetch_l1_access" =>
              Cache!b_request_state_next =
                IF ~b_request_granted THEN "cached_fetch_l1_access"
                ELSE IF b_request.alloc THEN "cached_fetch_fill"
                ELSE "uncached_fetch_bus_op"
         /\ b_request_state = "invalidate_sync" =>
              Cache!b_request_state_next =
                IF Cache!b_request_sync THEN "invalidate_l1_access" ELSE "invalidate_sync"
         /\ b_request_state \in {"uncached_fetch_bus_op", "cached_fetch_fill",
                                "invalidate_l1_access"} =>
              Cache!b_request_state_next = b_request_state
<1>1. CASE b_request_state = "uncached_fetch_mmu_access"
  BY <1>1, Zenon DEF Cache!b_request_state_next
<1>2. CASE b_request_state = "cached_fetch_l1_access"
  BY <1>2, Zenon DEF Cache!b_request_state_next
<1>3. CASE b_request_state = "invalidate_sync" BY <1>3, Zenon DEF Cache!b_request_state_next
<1>4. CASE b_request_state \in {"uncached_fetch_bus_op", "cached_fetch_fill",
                                 "invalidate_l1_access"}
  <2>1. CASE b_request_state = "uncached_fetch_bus_op"
    BY <2>1, Zenon DEF Cache!b_request_state_next
  <2>2. CASE b_request_state = "cached_fetch_fill"
    BY <2>2, Zenon DEF Cache!b_request_state_next
  <2>3. CASE b_request_state = "invalidate_l1_access"
    BY <2>3, Zenon DEF Cache!b_request_state_next
  <2> QED BY <1>4, <2>1, <2>2, <2>3
<1> QED BY <1>1, <1>2, <1>3, <1>4

\* When a beat of a fill has its word, state by state.
LEMMA DataReady ==
  /\ b_bus_op_state = "fill_first" =>
       (Cache!b_bus_op_fill_fetch_data_ready <=> Cache!b_bus_op_cycle_complete)
  /\ b_bus_op_state \in {"fill", "fill_last"} =>
       (Cache!b_bus_op_fill_fetch_data_ready <=> sys_ready)
<1>1. CASE b_bus_op_state = "fill_first"
  BY <1>1, Zenon DEF Cache!b_bus_op_fill_fetch_data_ready
<1>2. CASE b_bus_op_state = "fill" BY <1>2, Zenon DEF Cache!b_bus_op_fill_fetch_data_ready
<1>3. CASE b_bus_op_state = "fill_last"
  BY <1>3, Zenon DEF Cache!b_bus_op_fill_fetch_data_ready
<1> QED BY <1>1, <1>2, <1>3

\* When a request is complete, state by state.
LEMMA Completion ==
  ASSUME IInv
  PROVE /\ Cache!b_bus_op_error = FALSE
        /\ b_bus_op_state \in {"none", "fill_last"} => sys_ready
        /\ Cache!b_bus_op_cycle_complete = (b_bus_op_requested /\ sys_ready)
        /\ b_request_state = "none" => Cache!b_request_complete
        /\ b_request_state = "uncached_fetch_mmu_access" =>
             (Cache!b_request_complete <=> b_request.mmuen)
        /\ b_request_state = "uncached_fetch_bus_op" =>
             (Cache!b_request_complete <=> b_request_granted /\ sys_ready)
        /\ b_request_state = "cached_fetch_l1_access" =>
             (Cache!b_request_complete <=>
                \/ b_request.mmuen
                \/ b_request_granted /\ (b_request_tagless \/ Cache!b_request_cache_hit))
        /\ b_request_state = "cached_fetch_fill" =>
             (Cache!b_request_complete <=> b_request_granted /\ sys_ready)
        /\ b_request_state = "invalidate_sync" => ~Cache!b_request_complete
        /\ b_request_state = "invalidate_l1_access" => Cache!b_request_complete
BY DEF IInv, TypeOK, RequestKnown, Owned, Waits, OnBus, sys_error, sys_ready,
       Cache!b_bus_op_error, Cache!b_bus_op_cycle_complete, Cache!b_request_complete,
       Cache!b_request_mmu_error, Cache!b_request_complete_uncached_fetch_bus_op,
       Cache!b_request_complete_cached_fetch_l1_access,
       Cache!b_request_complete_cached_fetch_fill, Cache!b_bus_op_fill_fetch_data_ready,
       Filled, Compares, Cache!RequestStates, Cache!BusOpStates, Cache!Owners

\* When a bus operation is over.
LEMMA OpComplete ==
  ASSUME IInv
  PROVE  Cache!b_bus_op_complete <=>
           b_bus_op_state \in {"none", "fill_last"} \/ (b_bus_op_state = "fetch" /\ sys_ready)
BY Completion DEF IInv, OnBus, Cache!b_bus_op_complete

\* Who keeps the cache and who keeps the bus: the fill the one, until its last
\* word is there, and whoever began the bus operation the other.
LEMMA OwnersNext ==
  ASSUME IInv
  PROVE  /\ Cache!b_cache_owner_next =
              IF b_bus_op_state \in {"fill_first", "fill"} THEN "bus_op" ELSE "none"
         /\ Cache!b_bus_op_owner_next =
              CASE b_bus_op_state \in {"none", "fill_last"} -> "none"
                [] b_bus_op_state = "fetch" -> (IF sys_ready THEN "none" ELSE "request")
                [] OTHER -> (IF sys_ready THEN "bus_op" ELSE b_bus_op_owner)
         /\ Cache!b_bus_op_complete <=>
              (b_bus_op_state \in {"none", "fill_last"} \/ (b_bus_op_state = "fetch" /\ sys_ready))
<1> USE Completion, DataReady
    DEF IInv, TypeOK, Owned, OnBus, Filled, Cache!Owners, Cache!b_bus_op_complete,
        Cache!b_cache_owner_next, Cache!b_bus_op_owner_next, Cache!b_bus_op_fill_complete
<1>1. CASE b_bus_op_state = "none" BY <1>1
<1>2. CASE b_bus_op_state = "fetch" BY <1>2
<1>3. CASE b_bus_op_state = "fill_first" BY <1>3
<1>4. CASE b_bus_op_state = "fill" BY <1>4
<1>5. CASE b_bus_op_state = "fill_last" BY <1>5
<1> QED BY <1>1, <1>2, <1>3, <1>4, <1>5 DEF Cache!BusOpStates

\* The same in a state of the invariant: the first beat of a fill is granted.
LEMMA BusOpGoesOn ==
  ASSUME IInv, ~Cache!b_bus_op_complete
  PROVE  Cache!b_bus_op_state_next =
           CASE b_bus_op_state = "fetch" -> "fetch"
             [] b_bus_op_state = "fill_first" -> "fill"
             [] OTHER -> IF sys_ready /\ b_bus_op_block_inst = BlockInsts - 1
                         THEN "fill_last" ELSE "fill"
BY Completion, OwnersNext, BusOpNextState
   DEF IInv, TypeOK, Owned, OnBus, Cache!BusOpStates, Cache!b_bus_op_last_beat

\* A request is a fetch in the states of a fetch.
LEMMA CodeKnown ==
  ASSUME IInv
  PROVE  b_request.code = "fetch" <=>
           b_request_state \in {"uncached_fetch_mmu_access", "uncached_fetch_bus_op",
                               "cached_fetch_l1_access", "cached_fetch_fill"}
BY DEF IInv, TypeOK, RequestKnown, Cache!RequestStates, Cache!Requests, Cache!Fetches,
       Cache!Nones, Cache!Invalidates

\* The same in a state of the invariant: every fetch through the cache allocates.
LEMMA StateNext ==
  ASSUME IInv, ~Cache!b_request_complete
  PROVE  Cache!b_request_state_next =
           CASE b_request_state = "uncached_fetch_mmu_access" -> "uncached_fetch_bus_op"
             [] b_request_state = "cached_fetch_l1_access" ->
                  (IF b_request_granted THEN "cached_fetch_fill" ELSE "cached_fetch_l1_access")
             [] b_request_state = "invalidate_sync" ->
                  (IF b_cache_owner = "none" /\ b_bus_op_owner = "none"
                   THEN "invalidate_l1_access" ELSE "invalidate_sync")
             [] OTHER -> b_request_state
BY Completion, RequestNextState, CodeKnown
   DEF IInv, TypeOK, RequestKnown, Cache!RequestStates, Cache!b_request_sync

\* The state of a new request.
LEMMA StateNew ==
  ASSUME IInv, NEW i, Input(i), Cache!b_request_complete
  PROVE  Cache!a_new_request_state(i) =
           CASE i.code = "none" -> "none"
             [] i.code = "invalidate" -> "invalidate_sync"
             [] OTHER -> IF ~i.cacheen THEN "uncached_fetch_mmu_access"
                         ELSE IF Cache!a_new_request_fill_forward(i) THEN "cached_fetch_fill"
                         ELSE "cached_fetch_l1_access"
BY Accepted, NewStateOfCode
   DEF Cache!Requests, Cache!Fetches, Cache!Nones, Cache!Invalidates

\* A fetch is forwarded from a fill only if it asks for the next word of the block
\* while the word before it is on the bus, and beats of the fill are left.
LEMMA Forwarded ==
  ASSUME IInv, NEW i, Input(i), Cache!b_request_complete, Cache!a_new_request_fill_forward(i)
  PROVE  /\ i.code = "fetch"
         /\ b_request_state = "cached_fetch_fill"
         /\ b_request_granted /\ sys_ready
         /\ b_bus_op_state \in {"fill_first", "fill"}
         /\ b_bus_op_block_inst # BlockInsts - 1
         /\ ~i.mmuen
         /\ b_request.addr \in Addr
         /\ i.addr = Cache!next_in_block(b_request.addr)
         /\ b_bus_op_addr = b_request.addr
<1>1. /\ i.code = "fetch"
      /\ i.seq
      /\ b_request_state = "cached_fetch_fill"
      /\ ~Cache!last_in_block(b_request.addr)
      /\ i.mmuen = b_request.mmuen
  BY DEF Cache!a_new_request_fill_forward
<1>2. b_request_granted /\ sys_ready
  BY <1>1, Completion
<1>3. b_request.code = "fetch"
  BY <1>1, CodeKnown
<1>4. b_request.addr = last /\ ~b_request.mmuen
  BY <1>1, <1>3 DEF IInv, RequestKnown
<1>5. i.addr = Cache!next_in_block(b_request.addr)
  BY <1>1, <1>4, Accepted
<1>6. b_request.addr \in Addr
  BY <1>3
     DEF IInv, TypeOK, Cache!Requests, Cache!Fetches, Cache!Nones, Cache!Invalidates, Addr
<1>7. /\ b_bus_op_state \in {"fill_first", "fill"}
      /\ b_bus_op_addr = b_request.addr
      /\ b_bus_op_block_inst <= b_request.addr.offset
  BY <1>1, <1>2 DEF IInv, Waits
<1>8. b_bus_op_block_inst # BlockInsts - 1
  BY <1>1, <1>6, <1>7, BlockAssumption
     DEF Cache!last_in_block, Addr, Cache!Addr, Cache!Offsets, IInv, TypeOK
<1> QED BY <1>1, <1>2, <1>4, <1>5, <1>6, <1>7, <1>8

\* The state of the request after the cycle.
LEMMA StateTyped ==
  ASSUME IInv, NEW i, Input(i)
  PROVE  /\ Cache!a_request_state(i) \in Cache!RequestStates
         /\ Cache!a_request_state(i) =
              IF Cache!b_request_complete THEN Cache!a_new_request_state(i)
              ELSE Cache!b_request_state_next
BY StateNew, StateNext DEF IInv, TypeOK, Cache!a_request_state, Cache!RequestStates

\* When the request after the cycle has what it needs.
LEMMA Granted ==
  ASSUME IInv, NEW i, Input(i)
  PROVE  Cache!a_request_granted(i) =
           CASE Cache!a_request_state(i) \in Compares ->
                  b_bus_op_state \notin {"fill_first", "fill"}
             [] Cache!a_request_state(i) = "uncached_fetch_bus_op" ->
                  Cache!b_bus_op_owner_next # "bus_op"
             [] Cache!a_request_state(i) = "cached_fetch_fill" ->
                  Cache!b_bus_op_owner_next # "bus_op" \/ Cache!b_request_complete
             [] OTHER -> TRUE
<1>1. Cache!b_request_complete /\ Cache!a_request_state(i) = "cached_fetch_fill" =>
        Cache!a_new_request_fill_forward(i)
  BY StateTyped, StateNew
<1>2. Cache!b_request_complete /\ Cache!a_new_request_fill_forward(i) =>
        Cache!a_request_state(i) \in {"uncached_fetch_mmu_access", "cached_fetch_fill"}
  BY StateTyped, StateNew DEF Cache!a_new_request_fill_forward
<1>3. Cache!b_cache_owner_next = "bus_op" <=> b_bus_op_state \in {"fill_first", "fill"}
  BY OwnersNext
<1> QED
  BY <1>1, <1>2, <1>3, StateTyped
     DEF Compares, Cache!RequestStates, Cache!a_request_granted, Cache!a_request_want_cache,
         Cache!a_request_want_bus_op

\* A bus operation begins with a request that was there before, and it is granted.
LEMMA NewBusOp ==
  ASSUME IInv, NEW i, Input(i), Cache!b_bus_op_complete
  PROVE  /\ Cache!a_new_bus_op(i) <=>
              Cache!a_request_state(i) \in {"uncached_fetch_bus_op", "cached_fetch_fill"}
         /\ Cache!a_new_bus_op(i) => /\ ~Cache!b_request_complete
                                     /\ b_request.code = "fetch"
                                     /\ Cache!a_request_granted(i)
<1>1. Cache!a_new_bus_op(i) <=>
        Cache!a_request_state(i) \in {"uncached_fetch_bus_op", "cached_fetch_fill"}
  BY OwnersNext, Granted DEF Cache!a_new_bus_op, Cache!a_request_want_bus_op, Compares
<1>2. Cache!a_request_state(i) \in {"uncached_fetch_bus_op", "cached_fetch_fill"} =>
        ~Cache!b_request_complete
  BY StateTyped, StateNew, Forwarded, OwnersNext
<1>3. Cache!a_request_state(i) \in {"uncached_fetch_bus_op", "cached_fetch_fill"} =>
        b_request.code = "fetch"
  BY StateTyped, StateNext, <1>2, CodeKnown
<1> QED BY <1>1, <1>2, <1>3 DEF Cache!a_new_bus_op

\* The state of the bus operation after the cycle.
LEMMA BusOpStep ==
  ASSUME IInv, NEW i, Input(i)
  PROVE  Cache!a_bus_op_state(i) =
           IF Cache!b_bus_op_complete
           THEN CASE Cache!a_request_state(i) = "cached_fetch_fill" -> "fill_first"
                  [] Cache!a_request_state(i) = "uncached_fetch_bus_op" -> "fetch"
                  [] OTHER -> "none"
           ELSE CASE b_bus_op_state = "fetch" -> "fetch"
                  [] b_bus_op_state = "fill_first" -> "fill"
                  [] OTHER -> IF sys_ready /\ b_bus_op_block_inst = BlockInsts - 1
                              THEN "fill_last" ELSE "fill"
BY NewBusOp, BusOpGoesOn DEF Cache!a_bus_op_state

-----------------------------------------------------------------------------
(***************************************************************************)
(* The other registers.                                                    *)
(***************************************************************************)
\* A request that is at work has an address.
LEMMA RequestTyped ==
  ASSUME IInv
  PROVE  /\ b_request.code \in {"fetch", "invalidate"} => b_request.addr \in Addr
         /\ b_request_state \in {"invalidate_sync", "invalidate_l1_access"} =>
              b_request.addr \in Addr
         /\ b_request_state = "cached_fetch_l1_access" => b_request.addr \in Addr
         /\ b_request_state = "cached_fetch_fill" => b_request.addr \in Addr
BY CodeKnown
   DEF IInv, TypeOK, RequestKnown, Cache!Requests, Cache!Fetches, Cache!Nones,
       Cache!Invalidates, Addr

\* The request after the cycle.
LEMMA RequestStep ==
  ASSUME IInv, NEW i, Input(i)
  PROVE  /\ Cache!a_request(i) = IF Cache!b_request_complete THEN i ELSE b_request
         /\ Cache!a_request(i) \in Cache!Requests
         /\ [Cache!a_request(i) EXCEPT !.seq = FALSE] \in Cache!Requests
         /\ Cache!a_request(i).code = "fetch" => Cache!a_request(i).addr \in Addr
<1>1. Cache!a_request(i) = IF Cache!b_request_complete THEN i ELSE b_request
  BY DEF Cache!a_request
<1>2. Cache!a_request(i) \in Cache!Requests
  BY <1>1, Accepted DEF IInv, TypeOK
<1>3. ASSUME NEW r \in Cache!Requests
      PROVE  /\ [r EXCEPT !.seq = FALSE] \in Cache!Requests
             /\ (r.code = "fetch" => r.addr \in Addr)
  <2>1. CASE r \in Cache!Fetches
    BY <2>1 DEF Cache!Requests, Cache!Fetches, Addr
  <2>2. CASE r \in Cache!Invalidates
    BY <2>2 DEF Cache!Requests, Cache!Invalidates
  <2>3. CASE r \in Cache!Nones
    BY <2>3 DEF Cache!Requests, Cache!Nones
  <2> QED BY <2>1, <2>2, <2>3 DEF Cache!Requests
<1> QED BY <1>1, <1>2, <1>3

\* The address of the bus operation after the cycle.
LEMMA AddrStep ==
  ASSUME IInv, NEW i, Input(i)
  PROVE  Cache!a_bus_op_addr(i) =
           CASE b_bus_op_state \in {"fill_first", "fill"} ->
                  (IF sys_ready THEN Cache!next_in_block(b_bus_op_addr) ELSE b_bus_op_addr)
             [] b_bus_op_state = "fetch" /\ ~sys_ready -> b_bus_op_addr
             [] OTHER ->
               IF Cache!a_request_state(i) \in {"uncached_fetch_bus_op", "cached_fetch_fill"}
               THEN b_request.addr ELSE NoRequest
<1>1. CASE Cache!b_bus_op_complete
  <2>1. CASE Cache!a_new_bus_op(i)
    <3>1. Cache!a_request(i) = b_request /\ b_request.addr \in Addr
      BY <1>1, <2>1, NewBusOp, RequestStep, RequestTyped
    <3>2. [Cache!a_request(i).addr EXCEPT !.tag = b_request.addr.tag] = b_request.addr
      BY <3>1 DEF Addr, Cache!Addr
    <3> QED BY <1>1, <2>1, <3>2, NewBusOp, OwnersNext DEF Cache!a_bus_op_addr
  <2>2. CASE ~Cache!a_new_bus_op(i)
    BY <1>1, <2>2, NewBusOp, OwnersNext DEF Cache!a_bus_op_addr
  <2> QED BY <2>1, <2>2
<1>2. CASE ~Cache!b_bus_op_complete
  <2>1. b_bus_op_state \in {"fill_first", "fill"} \/ (b_bus_op_state = "fetch" /\ ~sys_ready)
    BY <1>2, OpComplete DEF IInv, TypeOK, Cache!BusOpStates
  <2> QED BY <1>2, <2>1 DEF Cache!a_bus_op_addr, Cache!b_bus_op_block_inst_advance
<1> QED BY <1>1, <1>2

\* The number of the beat after the cycle.
LEMMA BeatStep ==
  ASSUME IInv
  PROVE  Cache!a_bus_op_block_inst =
           CASE b_bus_op_state \in {"fill_first", "fill"} ->
                  (IF ~sys_ready THEN b_bus_op_block_inst
                   ELSE IF b_bus_op_block_inst = BlockInsts - 1 THEN 0
                   ELSE b_bus_op_block_inst + 1)
             [] b_bus_op_state = "fetch" /\ ~sys_ready -> b_bus_op_block_inst
             [] OTHER -> 0
<1>1. b_bus_op_block_inst \in Cache!Offsets /\ b_bus_op_state \in Cache!BusOpStates
  BY DEF IInv, TypeOK
<1>2. (b_bus_op_block_inst + 1) % BlockInsts =
        IF b_bus_op_block_inst = BlockInsts - 1 THEN 0 ELSE b_bus_op_block_inst + 1
  BY <1>1, NextOffset
<1>3. Cache!b_bus_op_complete <=>
        b_bus_op_state \in {"none", "fill_last"} \/ (b_bus_op_state = "fetch" /\ sys_ready)
  BY OpComplete
<1> QED
  BY <1>1, <1>2, <1>3
     DEF Cache!a_bus_op_block_inst, Cache!b_bus_op_block_inst_advance, Cache!BusOpStates

\* The way of the bus operation after the cycle.
LEMMA WayStep ==
  ASSUME IInv, NEW i, Input(i), NEW victim
  PROVE  /\ Cache!a_bus_op_way(i, victim) =
              IF \/ b_bus_op_state \in {"fill_first", "fill"}
                 \/ b_bus_op_state = "fetch" /\ ~sys_ready
              THEN b_bus_op_way
              ELSE IF Cache!a_request_state(i) \in {"uncached_fetch_bus_op",
                                                   "cached_fetch_fill"}
              THEN Cache!b_request_way_next(victim) ELSE {}
         /\ b_request_state \in {"none", "cached_fetch_fill"} =>
              Cache!b_request_way_next(victim) = b_request_way
BY OpComplete, NewBusOp
   DEF Cache!a_bus_op_way, Cache!b_request_way_next, IInv, TypeOK, Cache!BusOpStates

\* A bus operation has an address.
LEMMA AddrTyped ==
  ASSUME IInv, NEW i, Input(i)
  PROVE  IF Cache!a_bus_op_state(i) = "none"
         THEN Cache!a_bus_op_addr(i) = NoRequest
         ELSE Cache!a_bus_op_addr(i) \in Addr
<1>1. b_bus_op_state \in {"fetch", "fill_first", "fill"} => b_bus_op_addr \in Addr
  BY DEF IInv, OnBus
<1>2. CASE Cache!b_bus_op_complete
  <2>1. Cache!a_request_state(i) \in {"uncached_fetch_bus_op", "cached_fetch_fill"} =>
          b_request.addr \in Addr
    BY <1>2, NewBusOp, RequestTyped
  <2>2. /\ ~(b_bus_op_state \in {"fill_first", "fill"})
        /\ ~(b_bus_op_state = "fetch" /\ ~sys_ready)
    BY <1>2, OpComplete
  <2> QED BY <1>2, <2>1, <2>2, AddrStep, BusOpStep
<1>3. CASE ~Cache!b_bus_op_complete
  <2>1. b_bus_op_state \in {"fill_first", "fill"} \/ (b_bus_op_state = "fetch" /\ ~sys_ready)
    BY <1>3, OpComplete DEF IInv, TypeOK, Cache!BusOpStates
  <2> QED BY <1>1, <1>3, <2>1, AddrStep, BusOpStep, NextInBlock
<1> QED BY <1>2, <1>3

-----------------------------------------------------------------------------
(***************************************************************************)
(* The RAMs.                                                               *)
(***************************************************************************)
\* What the cycle writes into the RAMs.
Vram ==
  CASE b_bus_op_state = "fill_last" ->
         [vram EXCEPT ![b_bus_op_addr.index] = @ \cup b_bus_op_way]
    [] b_bus_op_state = "fill_first" /\ sys_ready ->
         [vram EXCEPT ![b_bus_op_addr.index] = @ \ b_bus_op_way]
    [] b_request_state = "invalidate_l1_access" ->
         [vram EXCEPT ![b_request.addr.index] = {}]
    [] OTHER -> vram
Dram ==
  IF b_bus_op_state \in {"fill_first", "fill"} /\ sys_ready
  THEN [dram EXCEPT ![b_bus_op_addr.index] =
          [w \in Ways |-> IF w \in b_bus_op_way
             THEN [@[w] EXCEPT ![b_bus_op_addr.offset] = sys_data] ELSE @[w]]]
  ELSE dram
LastBeat == b_bus_op_state = "fill" /\ sys_ready /\ b_bus_op_block_inst = BlockInsts - 1
Tram ==
  IF LastBeat
  THEN [tram EXCEPT ![b_bus_op_addr.index] =
          [w \in Ways |-> IF w \in b_bus_op_way THEN b_bus_op_addr.tag ELSE @[w]]]
  ELSE tram

\* The cycle writes that.
LEMMA RamStep ==
  ASSUME IInv, NEW i, Input(i), NEW victim, Cache!Clock(i, victim)
  PROVE  vram' = Vram /\ dram' = Dram /\ tram' = Tram
<1>1. Cache!a_cache_owner(i) = "bus_op" /\ Cache!a_bus_op_state(i) = "fill_last" <=> LastBeat
  BY BusOpStep, OwnersNext
     DEF Cache!a_cache_owner, IInv, TypeOK, Cache!BusOpStates, LastBeat
<1>2. Cache!a_cache_owner(i) = "bus_op" /\ Cache!a_bus_op_state(i) \in {"fill", "fill_last"}
        <=> b_bus_op_state \in {"fill_first", "fill"}
  BY BusOpStep, OwnersNext DEF Cache!a_cache_owner, IInv, TypeOK, Cache!BusOpStates
<1>3. vram' = Vram
  BY Completion
     DEF Cache!Clock, Cache!Rams, Cache!b_vram_we, Cache!b_vram_wdata, Cache!b_vram_rdata,
         Cache!b_cache_index, IInv, Owned, Waits, Filled, Compares, TypeOK, Vram
<1>4. dram' = Dram
  BY <1>2 DEF Cache!Clock, Cache!Rams, Cache!a_dram_we, Dram
<1>5. tram' = Tram
  BY <1>1 DEF Cache!Clock, Cache!Rams, Cache!a_tram_we, Tram
<1> QED BY <1>3, <1>4, <1>5

\* What the cycle does to one line.
LEMMA LineStep ==
  ASSUME IInv, NEW i, NEW victim, Cycled(i, victim), NEW x \in Indexes
  PROVE  /\ vram'[x] =
              IF b_bus_op_state = "fill_last" /\ x = b_bus_op_addr.index
              THEN vram[x] \cup b_bus_op_way
              ELSE IF b_bus_op_state = "fill_first" /\ sys_ready /\ x = b_bus_op_addr.index
              THEN vram[x] \ b_bus_op_way
              ELSE IF b_request_state = "invalidate_l1_access" /\ x = b_request.addr.index
              THEN {} ELSE vram[x]
         /\ \A w \in Ways :
              tram'[x][w] =
                IF LastBeat /\ x = b_bus_op_addr.index /\ w \in b_bus_op_way
                THEN b_bus_op_addr.tag ELSE tram[x][w]
         /\ \A w \in Ways, o \in Cache!Offsets :
              dram'[x][w][o] =
                IF /\ b_bus_op_state \in {"fill_first", "fill"} /\ sys_ready
                   /\ x = b_bus_op_addr.index /\ w \in b_bus_op_way
                   /\ o = b_bus_op_addr.offset
                THEN sys_data ELSE dram[x][w][o]
<1>1. /\ vram \in [Indexes -> SUBSET Ways] /\ tram \in [Indexes -> [Ways -> Tags]]
      /\ dram \in [Indexes -> [Ways -> [Cache!Offsets -> Datum]]]
  BY DEF IInv, TypeOK
<1>2. b_request_state = "invalidate_l1_access" => b_bus_op_state = "none"
  BY DEF IInv, Waits
<1>3. Input(i) /\ Cache!Clock(i, victim)
  BY DEF Cycled
<1>4. vram' = Vram /\ dram' = Dram /\ tram' = Tram
  BY <1>3, RamStep
<1>5. vram'[x] =
              IF b_bus_op_state = "fill_last" /\ x = b_bus_op_addr.index
              THEN vram[x] \cup b_bus_op_way
              ELSE IF b_bus_op_state = "fill_first" /\ sys_ready /\ x = b_bus_op_addr.index
              THEN vram[x] \ b_bus_op_way
              ELSE IF b_request_state = "invalidate_l1_access" /\ x = b_request.addr.index
              THEN {} ELSE vram[x]
  BY <1>1, <1>2, <1>4 DEF Vram
<1>6. \A w \in Ways :
              tram'[x][w] =
                IF LastBeat /\ x = b_bus_op_addr.index /\ w \in b_bus_op_way
                THEN b_bus_op_addr.tag ELSE tram[x][w]
  BY <1>1, <1>4 DEF Tram
<1>7. ASSUME NEW w \in Ways, NEW o \in Cache!Offsets
      PROVE  dram'[x][w][o] =
                IF /\ b_bus_op_state \in {"fill_first", "fill"} /\ sys_ready
                   /\ x = b_bus_op_addr.index /\ w \in b_bus_op_way
                   /\ o = b_bus_op_addr.offset
                THEN sys_data ELSE dram[x][w][o]
  <2>1. CASE /\ b_bus_op_state \in {"fill_first", "fill"}
             /\ sys_ready
             /\ x = b_bus_op_addr.index
    <3>1. dram'[x][w] =
            IF w \in b_bus_op_way THEN [dram[x][w] EXCEPT ![b_bus_op_addr.offset] = sys_data]
            ELSE dram[x][w]
      BY <1>1, <1>4, <2>1 DEF Dram
    <3>2. dram[x][w] \in [Cache!Offsets -> Datum]
      BY <1>1
    <3> QED BY <2>1, <3>1, <3>2
  <2>2. CASE ~(b_bus_op_state \in {"fill_first", "fill"} /\ sys_ready /\
               x = b_bus_op_addr.index)
    BY <1>1, <1>4, <2>2 DEF Dram
  <2> QED BY <2>1, <2>2
<1> QED BY <1>5, <1>6, <1>7

-----------------------------------------------------------------------------
(***************************************************************************)
(* The bus, the memory and the history.                                    *)
(***************************************************************************)
\* Numbers of words in memory only grow.
LEMMA MemoryStep ==
  ASSUME IInv, NEW q, Bus(q)
  PROVE  memory' \in [Addr -> Nat] /\ \A a \in Addr : memory[a] <= memory'[a]
<1>1. memory' = memory \/ \E a \in Addr : memory' = [memory EXCEPT ![a] = @ + 1]
  BY DEF Bus, BusIdle, BusWait, BusAnswer, Stores
<1>2. memory \in [Addr -> Nat]
  BY DEF IInv, TypeOK
<1>3. ASSUME NEW a \in Addr, memory' = [memory EXCEPT ![a] = @ + 1]
      PROVE  memory' \in [Addr -> Nat] /\ \A b \in Addr : memory[b] <= memory'[b]
  BY <1>2, <1>3
<1>4. CASE memory' = memory
  BY <1>2, <1>4
<1> QED BY <1>1, <1>3, <1>4

\* What an invalidation leaves in the history.
LEMMA HistoryStep ==
  ASSUME IInv, Invalidated
  PROVE  IF b_request_state = "invalidate_l1_access"
         THEN /\ invalidated' = invalidated \cup {b_request.addr.index}
              /\ oldest' = [a \in Addr |-> IF a.index = b_request.addr.index
                                           THEN memory[a] ELSE oldest[a]]
         ELSE invalidated' = invalidated /\ oldest' = oldest
BY Completion DEF Invalidated

\* What is on the port after the cycle: what the bus operation is then at.
LEMMA PortStep ==
  ASSUME IInv, NEW i, Input(i), Bus(IF sys_ready THEN Cache!sys_master_out(i) ELSE port.req)
  PROVE  IF Cache!a_bus_op_state(i) \in {"none", "fill_last"} THEN port' = NoRequest
         ELSE \E q \in Request :
                /\ q.addr = Cache!a_bus_op_addr(i)
                /\ q.burst <=>
                     Cache!a_bus_op_state(i) # "fetch" /\
                     Cache!a_bus_op_block_inst # BlockInsts - 1
                /\ \/ port' = [req |-> q, done |-> FALSE]
                   \/ /\ port' =
                           [req |-> q, done |-> TRUE, data |-> Word(q.addr, memory[q.addr])]
                      /\ memory' = memory
<1> DEFINE q == IF sys_ready THEN Cache!sys_master_out(i) ELSE port.req
<1>1. CASE Cache!a_bus_op_state(i) \in {"none", "fill_last"}
  <2>1. sys_ready
    BY <1>1, BusOpStep, OpComplete, Completion
  <2>2. q = NoRequest
    BY <1>1, <2>1 DEF Cache!sys_master_out
  <2> QED BY <1>1, <2>2 DEF Bus, BusIdle, BusWait, BusAnswer
<1>2. CASE Cache!a_bus_op_state(i) \notin {"none", "fill_last"}
  <2>1. Cache!a_bus_op_state(i) \in {"fetch", "fill_first", "fill"}
    BY <1>2, BusOpStep
  <2>2. /\ q \in Request
        /\ q.addr = Cache!a_bus_op_addr(i)
        /\ q.burst <=>
             Cache!a_bus_op_state(i) # "fetch" /\ Cache!a_bus_op_block_inst # BlockInsts - 1
    <3>1. CASE sys_ready
      BY <2>1, <3>1, AddrTyped DEF Cache!sys_master_out, Cache!a_sys_burst, Request
    <3>2. CASE ~sys_ready
      <4>1. b_bus_op_state \in {"fetch", "fill_first", "fill"}
        BY <3>2, Completion DEF IInv, TypeOK, Cache!BusOpStates
      <4>2. /\ port.req \in Request
            /\ port.req.addr = b_bus_op_addr
            /\ port.req.burst <=>
                 b_bus_op_state # "fetch" /\ b_bus_op_block_inst # BlockInsts - 1
        BY <4>1 DEF IInv, OnBus, TypeOK, Ports
      <4>3. /\ Cache!a_bus_op_addr(i) = b_bus_op_addr
            /\ Cache!a_bus_op_block_inst = b_bus_op_block_inst
        BY <3>2, <4>1, AddrStep, BeatStep
      <4>4. Cache!a_bus_op_state(i) = "fetch" <=> b_bus_op_state = "fetch"
        BY <3>2, <4>1, BusOpStep, OpComplete
      <4> QED BY <3>2, <4>2, <4>3, <4>4
    <3> QED BY <3>1, <3>2
  <2>3. q # NoRequest
    BY <2>2, NoRequestAssumption DEF Request
  <2>4. Bus(q)
    OBVIOUS
  <2> HIDE DEF q
  <2> QED BY <1>2, <2>2, <2>3, <2>4 DEF Bus, BusIdle, BusWait, BusAnswer
<1> QED BY <1>1, <1>2

\* The data on the bus is a word.
LEMMA SysDataTyped ==
  ASSUME IInv
  PROVE  sys_data \in Datum
<1>1. Garbage \in Datum
  BY DEF Garbage, Datum
<1>2. port # NoRequest /\ port.done => port.data \in Datum
  BY DEF IInv, TypeOK, Ports
<1> QED BY <1>1, <1>2 DEF sys_data, Answered

-----------------------------------------------------------------------------
(***************************************************************************)
(* The parts of the invariant about who waits for whom.                    *)
(***************************************************************************)
\* The owners are kept.
LEMMA OwnedKept ==
  ASSUME IInv, NEW i, Input(i), NEW victim, Cache!Clock(i, victim)
  PROVE Owned'
<1> USE BusOpStep, StateTyped, StateNew, StateNext, Granted, OwnersNext, NewBusOp,
        Completion
    DEF IInv, TypeOK, RequestKnown, Owned, Waits, Cache!Clock, Cache!Registers,
        Cache!a_cache_owner, Cache!a_bus_op_owner, Cache!a_bus_op_granted,
        Cache!a_bus_op_block_inst, Cache!a_request_want_cache,
        Cache!b_bus_op_block_inst_advance, Filled, Compares, Cache!RequestStates,
        Cache!BusOpStates, Cache!Owners
<1>1. CASE b_bus_op_state = "none"
  BY <1>1
<1>2. CASE b_bus_op_state = "fetch"
  BY <1>2
<1>3. CASE b_bus_op_state = "fill_first"
  BY <1>3
<1>4. CASE b_bus_op_state = "fill"
  <2>1. Cache!a_bus_op_state(i) = "fill_last" => Cache!a_bus_op_block_inst = 0
    BY <1>4, NextOffset
  <2>2. Cache!a_cache_owner(i) = "bus_op"
    BY <1>4
  <2>3. ~sys_ready => Cache!a_request_granted(i) \/ b_bus_op_owner = "bus_op"
    BY <1>4
  <2>4. ~sys_ready =>
          Cache!a_request_state(i) = "cached_fetch_fill" \/ b_bus_op_owner = "bus_op"
    BY <1>4
  <2>5. Cache!a_request_state(i) \in Compares => ~Cache!a_request_granted(i)
    BY <1>4
  <2> HIDE Completion, StateNew, StateNext, Granted, NewBusOp
  <2> QED
    BY <1>4, <2>1, <2>2, <2>3, <2>4, <2>5
<1>5. CASE b_bus_op_state = "fill_last"
  BY <1>5
<1> QED BY <1>1, <1>2, <1>3, <1>4, <1>5

\* The request and its history stay together.
LEMMA RequestKept ==
  ASSUME IInv, NEW i, Input(i), NEW victim, Cache!Clock(i, victim), Invalidated, NEW q, Bus(q)
  PROVE  RequestKnown'
<1>1. invalidated \subseteq invalidated'
  BY HistoryStep
<1>2. /\ b_request' = [Cache!a_request(i) EXCEPT !.seq = FALSE]
      /\ b_request_state' = Cache!a_request_state(i)
  BY DEF Cache!Clock, Cache!Registers
<1>3. CASE Cache!b_request_complete
  <2>1. /\ b_request' = [i EXCEPT !.seq = FALSE]
        /\ b_request_state' = Cache!a_new_request_state(i)
    BY <1>2, <1>3, RequestStep, StateTyped
  <2>2. CASE i \in Cache!Fetches
    <3>1. /\ b_request'.code = "fetch"
          /\ b_request'.addr = i.addr
          /\ b_request'.cacheen = i.cacheen
          /\ b_request'.mmuen = i.mmuen
          /\ b_request'.alloc = i.alloc
          /\ i.code = "fetch"
          /\ i.addr \in Addr
          /\ i.mmuen \in BOOLEAN
          /\ i.cacheen \in BOOLEAN
      BY <2>1, <2>2 DEF Cache!Fetches, Addr
    <3>2. memory[i.addr] <= memory'[i.addr]
      BY <3>1, MemoryStep
    <3>3. b_request_state' = "cached_fetch_fill" => ~i.mmuen
      BY <1>3, <2>1, <3>1, StateNew, Forwarded
    <3> QED BY <1>1, <1>3, <2>1, <3>1, <3>2, <3>3, Accepted, StateNew DEF RequestKnown
  <2>3. CASE i \in Cache!Invalidates \cup Cache!Nones
    BY <2>1, <2>3, <1>3, StateNew DEF Cache!Nones, Cache!Invalidates, RequestKnown
  <2> QED BY <1>3, <2>2, <2>3, Accepted DEF Cache!Requests
<1>4. CASE ~Cache!b_request_complete
  <2>1. /\ b_request' = [b_request EXCEPT !.seq = FALSE]
        /\ b_request_state' = Cache!b_request_state_next
    BY <1>2, <1>4, RequestStep, StateTyped
  <2>2. last' = last /\ faulted' = faulted /\ asked' = asked
    BY <1>4 DEF Input
  <2>3. CASE b_request \in Cache!Fetches
    <3>1. /\ b_request'.code = "fetch" /\ b_request.code = "fetch"
          /\ b_request'.addr = b_request.addr
          /\ b_request'.cacheen = b_request.cacheen
          /\ b_request'.mmuen = b_request.mmuen
          /\ b_request'.alloc = b_request.alloc
          /\ b_request.addr \in Addr
      BY <2>1, <2>3 DEF Cache!Fetches, Addr
    <3>2. /\ memory[b_request.addr] <= memory'[b_request.addr]
          /\ memory[b_request.addr] \in Nat
          /\ memory'[b_request.addr] \in Nat
          /\ asked \in Nat
      BY <3>1, MemoryStep DEF IInv, TypeOK
    <3>3. /\ b_request_state'
               \in {"uncached_fetch_bus_op", "cached_fetch_l1_access", "cached_fetch_fill"}
          /\ b_request.cacheen <=>
               b_request_state' \in {"cached_fetch_l1_access", "cached_fetch_fill"}
          /\ ~b_request.mmuen
      BY <1>4, <2>1, <3>1, StateNext, Completion, CodeKnown DEF RequestKnown, IInv
    <3>4. asked' <= memory'[b_request.addr]
      BY <2>2, <3>1, <3>2 DEF RequestKnown, IInv
    <3>5. /\ b_request.alloc
          /\ last = b_request.addr
          /\ (b_request.cacheen => b_request.addr.index \in invalidated)
      BY <3>1 DEF RequestKnown, IInv
    <3> QED BY <1>1, <2>2, <3>1, <3>3, <3>4, <3>5 DEF RequestKnown
  <2>4. CASE b_request \in Cache!Invalidates \cup Cache!Nones
    <3>1. b_request'.code = b_request.code /\ b_request.code \in {"none", "invalidate"}
      BY <2>1, <2>4 DEF Cache!Nones, Cache!Invalidates
    <3>2. b_request_state = "invalidate_sync" /\ b_request.code = "invalidate"
      BY <3>1, <1>4, Completion DEF IInv, RequestKnown
    <3>3. b_request_state' \in {"invalidate_sync", "invalidate_l1_access"}
      BY <2>1, <3>2, <1>4, StateNext
    <3> QED BY <3>1, <3>2, <3>3 DEF RequestKnown
  <2> QED BY <2>3, <2>4 DEF Cache!Requests, IInv, TypeOK
<1> QED BY <1>3, <1>4

\* Whoever waits, waits for what is under way.
LEMMA WaitsKept ==
  ASSUME IInv, NEW i, Input(i), NEW victim, Cache!Clock(i, victim)
  PROVE  Waits'
<1> USE DEF Cache!Clock, Cache!Registers
<1>1. b_request_state' \in Compares /\ ~b_request_granted' => b_cache_owner' = "bus_op"
  BY Granted, OwnersNext DEF Cache!a_cache_owner, Compares
<1>2. b_request_state' = "invalidate_l1_access" => b_bus_op_state' = "none"
  <2>1. SUFFICES ASSUME Cache!a_request_state(i) = "invalidate_l1_access"
                 PROVE  Cache!a_bus_op_state(i) = "none"
    OBVIOUS
  <2>2. /\ ~Cache!b_request_complete
        /\ b_request_state = "invalidate_sync"
        /\ b_bus_op_owner = "none"
    BY <2>1, StateTyped, StateNew, StateNext, Completion
  <2>3. b_bus_op_state = "none"
    BY <2>2 DEF IInv, Owned
  <2> QED BY <2>1, <2>3, OpComplete, BusOpStep
<1>3. b_request_state' = "uncached_fetch_bus_op" =>
       IF b_request_granted'
       THEN b_bus_op_state' = "fetch" /\ b_bus_op_addr' = b_request'.addr
       ELSE b_bus_op_owner' = "bus_op"
  <2>1. SUFFICES ASSUME Cache!a_request_state(i) = "uncached_fetch_bus_op"
                 PROVE IF Cache!a_request_granted(i)
                       THEN Cache!a_bus_op_state(i) = "fetch" /\
                              Cache!a_bus_op_addr(i) = b_request'.addr
                       ELSE Cache!a_bus_op_owner(i) = "bus_op"
    OBVIOUS
  <2>2. ~Cache!b_request_complete /\ b_request.code = "fetch"
    BY <2>1, StateTyped, StateNew, StateNext, CodeKnown
  <2>3. b_request'.addr = b_request.addr
    BY <2>2, RequestStep, RequestTyped
       DEF Cache!Requests, Cache!Fetches, Cache!Nones, Cache!Invalidates
  <2>4. CASE Cache!a_request_granted(i)
    <3>1. b_bus_op_state \notin {"fill_first", "fill"} \/
            (~sys_ready /\ b_bus_op_owner # "bus_op")
      BY <2>1, <2>4, Granted, OwnersNext DEF Compares
    <3>2. b_bus_op_state \notin {"fill_first", "fill"}
      BY <2>1, <2>2, <3>1, StateTyped, StateNext, Completion
         DEF IInv, Owned, TypeOK, Cache!Owners
    <3>3. CASE b_bus_op_state = "fetch" /\ ~sys_ready
      <4>1. b_request_state = "uncached_fetch_bus_op" /\ b_bus_op_addr = b_request.addr
        BY <3>3 DEF IInv, Owned, Waits
      <4> QED BY <2>4, <3>3, <4>1, <2>3, OpComplete, BusOpStep, AddrStep
    <3>4. CASE ~(b_bus_op_state = "fetch" /\ ~sys_ready)
      <4>1. Cache!b_bus_op_complete
        BY <3>2, <3>4, OpComplete DEF IInv, TypeOK, Cache!BusOpStates
      <4> QED BY <2>1, <2>3, <2>4, <3>2, <3>4, <4>1, BusOpStep, AddrStep
    <3> QED BY <3>3, <3>4
  <2>5. CASE ~Cache!a_request_granted(i)
    BY <2>1, <2>5, Granted DEF Compares, Cache!a_bus_op_owner
  <2> QED BY <2>4, <2>5
<1>4. b_request_state' = "cached_fetch_fill" =>
       /\ b_bus_op_way' = b_request_way'
       /\ b_bus_op_addr' \in Addr
       /\ b_bus_op_addr'.tag = b_request'.addr.tag
       /\ b_bus_op_addr'.index = b_request'.addr.index
       /\ IF b_request_granted'
          THEN /\ b_bus_op_state' \in {"fill_first", "fill"}
               /\ b_bus_op_addr' = b_request'.addr
               /\ b_bus_op_block_inst' <= b_request'.addr.offset
          ELSE b_bus_op_owner' = "bus_op"
  <2>1. SUFFICES ASSUME Cache!a_request_state(i) = "cached_fetch_fill"
        PROVE  /\ b_bus_op_way' = b_request_way'
               /\ b_bus_op_addr' \in Addr
               /\ b_bus_op_addr'.tag = b_request'.addr.tag
               /\ b_bus_op_addr'.index = b_request'.addr.index
               /\ IF b_request_granted'
                  THEN /\ b_bus_op_state' \in {"fill_first", "fill"}
                       /\ b_bus_op_addr' = b_request'.addr
                       /\ b_bus_op_block_inst' <= b_request'.addr.offset
                  ELSE b_bus_op_owner' = "bus_op"
    OBVIOUS
  <2>2. /\ b_bus_op_way' = Cache!a_bus_op_way(i, victim)
        /\ b_request_way' = Cache!b_request_way_next(victim)
        /\ b_bus_op_addr' = Cache!a_bus_op_addr(i)
        /\ b_bus_op_state' = Cache!a_bus_op_state(i)
        /\ b_bus_op_owner' = Cache!a_bus_op_owner(i)
        /\ b_bus_op_block_inst' = Cache!a_bus_op_block_inst
        /\ b_request_granted' = Cache!a_request_granted(i)
    OBVIOUS
  <2>3. /\ Cache!a_request(i).code = "fetch"
        /\ b_request'.addr = Cache!a_request(i).addr
        /\ b_request'.addr \in Addr
    <3>1. Cache!a_request(i).code = "fetch"
      BY <2>1, StateTyped, StateNew, StateNext, CodeKnown, RequestStep, Forwarded
    <3> QED
      BY <3>1, RequestStep DEF Cache!Requests, Cache!Fetches, Cache!Nones, Cache!Invalidates
  <2> HIDE DEF Cache!Clock, Cache!Registers
  <2>4. CASE Cache!b_request_complete
    <3>1. Cache!a_new_request_fill_forward(i)
      BY <2>1, <2>4, StateTyped, StateNew
    <3>2. b_request'.addr = Cache!next_in_block(b_request.addr) /\ b_request.addr \in Addr
      BY <2>3, <2>4, <3>1, RequestStep, Forwarded
    <3>3. b_bus_op_addr' = b_request'.addr
      BY <2>2, <2>4, <3>1, <3>2, Forwarded, AddrStep
    <3>4. b_bus_op_way' = b_request_way'
      BY <2>2, <2>4, <3>1, Forwarded, WayStep DEF IInv, Waits
    <3>5. b_bus_op_state' = "fill"
      BY <2>2, <2>4, <3>1, Forwarded, OpComplete, BusOpStep
    <3>6. b_bus_op_block_inst' <= b_request'.addr.offset
      <4>1. /\ b_bus_op_block_inst <= b_request.addr.offset
            /\ b_request.addr.offset \in Cache!Offsets
            /\ b_bus_op_block_inst \in Cache!Offsets
        BY <2>4, <3>1, Forwarded DEF IInv, Waits, TypeOK, Addr, Cache!Addr
      <4>2. ~Cache!last_in_block(b_request.addr)
        BY <3>1 DEF Cache!a_new_request_fill_forward
      <4>3. b_bus_op_block_inst' = b_bus_op_block_inst + 1
        BY <2>2, <2>4, <3>1, Forwarded, BeatStep
      <4> QED
        BY <3>2, <4>1, <4>2, <4>3, NextInBlock, BlockAssumption
           DEF Cache!last_in_block, Cache!Offsets
    <3>7. b_request_granted'
      BY <2>1, <2>2, <2>4, Granted DEF Compares
    <3> QED BY <2>3, <3>3, <3>4, <3>5, <3>6, <3>7
  <2>5. CASE ~Cache!b_request_complete
    <3>1. b_request'.addr = b_request.addr /\ b_request.addr \in Addr
      BY <2>3, <2>5, RequestStep
    <3>2. b_request_state = "cached_fetch_fill" \/
            (b_request_state = "cached_fetch_l1_access" /\ b_request_granted)
      BY <2>1, <2>5, StateTyped, StateNext
    <3>3. CASE b_bus_op_state \in {"fill_first", "fill"}
      <4>1. b_request_state = "cached_fetch_fill"
        BY <3>2, <3>3 DEF IInv, Owned, Filled, Compares
      <4>2. b_bus_op_way' = b_request_way'
        BY <2>2, <3>3, <4>1, WayStep DEF IInv, Waits
      <4>3. /\ b_bus_op_addr \in Addr
            /\ b_bus_op_addr.tag = b_request.addr.tag
            /\ b_bus_op_addr.index = b_request.addr.index
        BY <4>1 DEF IInv, Waits
      <4>4. /\ b_bus_op_addr' \in Addr
            /\ b_bus_op_addr'.tag = b_request.addr.tag
            /\ b_bus_op_addr'.index = b_request.addr.index
        BY <2>2, <3>3, <4>3, AddrStep, NextInBlock
      <4>5. CASE b_request_granted'
        <5>1. ~sys_ready /\ b_bus_op_owner # "bus_op"
          BY <2>1, <2>2, <2>5, <3>3, <4>5, Granted, OwnersNext DEF Compares
        <5>2. b_request_granted
          BY <4>1, <5>1 DEF IInv, Waits
        <5>3. b_bus_op_addr' = b_request'.addr /\ b_bus_op_block_inst' = b_bus_op_block_inst
          BY <2>2, <3>1, <3>3, <4>1, <5>1, <5>2, AddrStep, BeatStep DEF IInv, Waits
        <5>4. b_bus_op_state' = "fill"
          BY <2>2, <3>3, <5>1, OpComplete, BusOpStep
        <5>5. b_bus_op_block_inst <= b_request.addr.offset
          BY <4>1, <5>2 DEF IInv, Waits
        <5> QED BY <3>1, <4>2, <4>4, <4>5, <5>3, <5>4, <5>5
      <4>6. CASE ~b_request_granted'
        <5>1. b_bus_op_owner' = "bus_op"
          BY <2>1, <2>2, <4>6, Granted DEF Compares, Cache!a_bus_op_owner
        <5> QED BY <3>1, <4>2, <4>4, <4>6, <5>1
      <4> QED BY <4>5, <4>6
    <3>4. CASE b_bus_op_state \notin {"fill_first", "fill"}
      <4>1. b_bus_op_state \in {"none", "fill_last"}
        BY <3>2, <3>4 DEF IInv, Owned, TypeOK, Cache!BusOpStates
      <4>2. /\ b_bus_op_addr' = b_request.addr
            /\ b_bus_op_way' = b_request_way'
            /\ b_bus_op_state' = "fill_first"
            /\ b_bus_op_block_inst' = 0
        BY <2>1, <2>2, <4>1, AddrStep, WayStep, OpComplete, BusOpStep, BeatStep
      <4>3. 0 <= b_request.addr.offset
        BY <3>1 DEF Addr, Cache!Addr, Cache!Offsets
      <4>4. b_request_granted'
        BY <2>1, <2>2, <4>1, Granted, OwnersNext DEF Compares
      <4> QED BY <3>1, <4>2, <4>3, <4>4
    <3> QED BY <3>3, <3>4
  <2> QED BY <2>4, <2>5
<1> QED BY <1>1, <1>2, <1>3, <1>4 DEF Waits, Compares

\* What may be on the port is something on the port.
LEMMA AnswerTyped ==
  ASSUME IInv, NEW q \in Request
  PROVE  /\ [req |-> q, done |-> FALSE] \in Ports
         /\ [req |-> q, done |-> TRUE, data |-> Word(q.addr, memory[q.addr])] \in Ports
<1>1. Word(q.addr, memory[q.addr]) \in Datum
  BY DEF Word, Datum, IInv, TypeOK, Request
<1> QED BY <1>1 DEF Ports

\* Types are kept.
LEMMA TypeKept ==
  ASSUME IInv, NEW i, NEW victim, Cycled(i, victim)
  PROVE  TypeOK'
<1> USE DEF Cycled
<1>1. b_cache_owner' \in Cache!Owners /\ b_bus_op_owner' \in Cache!Owners
  BY OwnersNext
     DEF Cache!Clock, Cache!Registers, Cache!a_cache_owner, Cache!a_bus_op_owner,
         Cache!Owners, IInv, TypeOK
<1>2. b_request' \in Cache!Requests /\ b_request_state' \in Cache!RequestStates
  BY RequestStep, StateTyped DEF Cache!Clock, Cache!Registers
<1>3. {b_request_granted, b_request_tagless, b_bus_op_granted, b_bus_op_requested,
        faulted}' \subseteq BOOLEAN
  <2>1. b_request_granted' \in BOOLEAN
    BY DEF Cache!Clock, Cache!Registers, Cache!a_request_granted
  <2>2. b_request_tagless' \in BOOLEAN
    BY DEF Cache!Clock, Cache!Registers, Cache!a_request_tagless, IInv, TypeOK
  <2>3. b_bus_op_granted' \in BOOLEAN /\ b_bus_op_requested' \in BOOLEAN
    BY DEF Cache!Clock, Cache!Registers, Cache!a_bus_op_granted
  <2>4. faulted' \in BOOLEAN
    BY DEF Input, Taken, IInv, TypeOK
  <2> QED BY <2>1, <2>2, <2>3, <2>4
<1>4. b_request_way' \subseteq Ways /\ b_bus_op_way' \subseteq Ways
  <2>1. Cache!b_request_way_next(victim) \subseteq Ways
    <3>1. b_request_state = "cached_fetch_l1_access" /\ b_request_granted =>
            Cache!b_request_cache_way_hit \subseteq Ways
      <4>1. SUFFICES ASSUME b_request_state = "cached_fetch_l1_access", b_request_granted
                     PROVE  Cache!b_request_cache_way_hit \subseteq Ways
        OBVIOUS
      <4>2. Cache!b_cache_index = b_request.addr.index
        BY <4>1 DEF Cache!b_cache_index, IInv, Owned, Compares
      <4>3. b_request.addr.index \in Indexes
        BY <4>1, RequestTyped DEF Addr, Cache!Addr
      <4> QED
        BY <4>2, <4>3 DEF Cache!b_request_cache_way_hit, Cache!b_vram_rdata, IInv, TypeOK
    <3>2. b_request_state = "cached_fetch_l1_access" /\ b_request_granted => victim \in Ways
      BY DEF Victims, Cache!b_replace_way
    <3>3. b_request_way \subseteq Ways
      BY DEF IInv, TypeOK
    <3> QED BY <3>1, <3>2, <3>3 DEF Cache!b_request_way_next
  <2>2. b_bus_op_way \subseteq Ways
    BY DEF IInv, TypeOK
  <2> QED BY <2>1, <2>2 DEF Cache!Clock, Cache!Registers, Cache!a_bus_op_way
<1>5. b_bus_op_state' \in Cache!BusOpStates
  BY BusOpStep DEF Cache!Clock, Cache!Registers, Cache!BusOpStates
<1>6. b_bus_op_block_inst' \in Cache!Offsets
  <2>1. b_bus_op_block_inst \in Cache!Offsets
    BY DEF IInv, TypeOK
  <2>2. b_bus_op_block_inst' = Cache!a_bus_op_block_inst
    BY DEF Cache!Clock, Cache!Registers
  <2>3. /\ 0 \in Cache!Offsets
        /\ (b_bus_op_block_inst # BlockInsts - 1 => b_bus_op_block_inst + 1 \in Cache!Offsets)
    BY <2>1, BlockAssumption DEF Cache!Offsets
  <2> QED BY <2>1, <2>2, <2>3, BeatStep
<1>7. b_bus_op_addr' \in Addr \cup {NoRequest}
  BY AddrTyped DEF Cache!Clock, Cache!Registers
<1>8. b_bus_op_state \in Filled =>
        /\ b_bus_op_addr.index \in Indexes
        /\ b_bus_op_addr.offset \in Cache!Offsets
        /\ b_bus_op_addr.tag \in Tags
  BY DEF IInv, FillSound, Addr, Cache!Addr
<1>9. vram' \in [Indexes -> SUBSET Ways]
  <2>1. vram \in [Indexes -> SUBSET Ways] /\ b_bus_op_way \subseteq Ways
    BY DEF IInv, TypeOK
  <2> QED BY <2>1, RamStep DEF Vram
<1>10. tram' \in [Indexes -> [Ways -> Tags]]
  <2>1. tram \in [Indexes -> [Ways -> Tags]]
    BY DEF IInv, TypeOK
  <2>2. CASE b_bus_op_state \in Filled
    <3> DEFINE line == [w \in Ways |-> IF w \in b_bus_op_way THEN b_bus_op_addr.tag
                                       ELSE tram[b_bus_op_addr.index][w]]
    <3>1. line \in [Ways -> Tags]
      BY <1>8, <2>1, <2>2
    <3>2. tram' = tram \/ tram' = [tram EXCEPT ![b_bus_op_addr.index] = line]
      BY <1>8, <2>1, <2>2, RamStep DEF Tram
    <3> HIDE DEF line
    <3> QED BY <2>1, <3>1, <3>2
  <2>3. CASE b_bus_op_state \notin Filled
    BY <2>1, <2>3, RamStep DEF Filled, Tram, LastBeat
  <2> QED BY <2>2, <2>3
<1>11. dram' \in [Indexes -> [Ways -> [Cache!Offsets -> Datum]]]
  <2>1. dram \in [Indexes -> [Ways -> [Cache!Offsets -> Datum]]]
    BY DEF IInv, TypeOK
  <2>2. CASE b_bus_op_state \in Filled
    <3> DEFINE old == dram[b_bus_op_addr.index]
               new(w) == [old[w] EXCEPT ![b_bus_op_addr.offset] = sys_data]
               line == [w \in Ways |-> IF w \in b_bus_op_way THEN new(w) ELSE old[w]]
    <3>1. old \in [Ways -> [Cache!Offsets -> Datum]]
      BY <1>8, <2>1, <2>2
    <3>2. \A w \in Ways : /\ old[w] \in [Cache!Offsets -> Datum]
                          /\ new(w) \in [Cache!Offsets -> Datum]
      BY <3>1, SysDataTyped
    <3>3. dram' = dram \/ dram' = [dram EXCEPT ![b_bus_op_addr.index] = line]
      BY <1>8, <2>1, <2>2, RamStep DEF Dram
    <3> HIDE DEF old, new
    <3>4. line \in [Ways -> [Cache!Offsets -> Datum]]
      BY <3>2
    <3> HIDE DEF line
    <3> QED BY <2>1, <3>3, <3>4
  <2>3. CASE b_bus_op_state \notin Filled
    BY <2>1, <2>3, RamStep DEF Filled, Dram
  <2> QED BY <2>2, <2>3
<1>12. port' \in Ports \cup {NoRequest}
  <2>1. CASE Cache!a_bus_op_state(i) \in {"none", "fill_last"}
    BY <2>1, PortStep
  <2>2. CASE Cache!a_bus_op_state(i) \notin {"none", "fill_last"}
    <3>1. PICK q \in Request :
            \/ port' = [req |-> q, done |-> FALSE]
            \/ port' = [req |-> q, done |-> TRUE, data |-> Word(q.addr, memory[q.addr])]
      BY <2>2, PortStep
    <3> QED BY <3>1, AnswerTyped
  <2> QED BY <2>1, <2>2
<1>13. memory' \in [Addr -> Nat] /\ oldest' \in [Addr -> Nat] /\ asked' \in Nat
       /\ (\A a \in Addr : oldest'[a] <= memory'[a])
  <2>1. /\ memory \in [Addr -> Nat]
        /\ oldest \in [Addr -> Nat]
        /\ asked \in Nat
        /\ (\A a \in Addr : oldest[a] <= memory[a])
    BY DEF IInv, TypeOK
  <2>2. memory' \in [Addr -> Nat] /\ \A a \in Addr : memory[a] <= memory'[a]
    BY MemoryStep
  <2>3. /\ oldest' \in [Addr -> Nat]
        /\ \A a \in Addr : oldest'[a] = oldest[a] \/ oldest'[a] = memory[a]
    BY <2>1, HistoryStep
  <2>4. asked' = asked \/ \E a \in Addr : asked' = memory[a]
    BY Accepted
       DEF Input, Cache!Requests, Cache!Fetches, Cache!Nones, Cache!Invalidates, Addr
  <2>5. asked' \in Nat
    BY <2>1, <2>4
  <2>6. ASSUME NEW a \in Addr PROVE oldest'[a] <= memory'[a]
    <3>1. /\ oldest'[a] <= memory[a]
          /\ memory[a] <= memory'[a]
          /\ oldest'[a] \in Nat
          /\ memory[a] \in Nat
          /\ memory'[a] \in Nat
      BY <2>1, <2>2, <2>3
    <3> QED BY <3>1
  <2> QED BY <2>2, <2>3, <2>5, <2>6
<1>14. last' \in Addr \cup {NoRequest}
  <2>1. last \in Addr \cup {NoRequest}
    BY DEF IInv, TypeOK
  <2>2. CASE Cache!b_request_complete
    <3>1. i \in Cache!Requests
      BY <2>2, Accepted
    <3>2. i.code = "fetch" => i.addr \in Addr
      BY <3>1 DEF Cache!Requests, Cache!Fetches, Cache!Nones, Cache!Invalidates, Addr
    <3> QED BY <2>1, <2>2, <3>2, Accepted
  <2>3. CASE ~Cache!b_request_complete
    BY <2>1, <2>3 DEF Input
  <2> QED BY <2>2, <2>3
<1>15. listed' \in Indexes \cup {NoRequest}
  <2>1. ASSUME Cache!a_cache_owner(i) = "request"
        PROVE  Cache!a_request(i).addr.index \in Indexes
    <3>1. Cache!a_request_state(i) \in Compares
      BY <2>1, OwnersNext DEF Cache!a_cache_owner, Cache!a_request_want_cache, Compares
    <3>2. Cache!a_request(i).code \in {"fetch", "invalidate"}
      <4>1. CASE Cache!b_request_complete
        <5>1. Cache!a_new_request_state(i) \in Compares
          BY <3>1, <4>1, StateTyped
        <5>2. i.code \notin {"none", "invalidate"}
          BY <4>1, <5>1, StateNew DEF Compares
        <5>3. i.code = "fetch"
          BY <4>1, <5>2, Accepted
             DEF Cache!Requests, Cache!Fetches, Cache!Nones, Cache!Invalidates
        <5> QED BY <4>1, <5>3, RequestStep
      <4>2. CASE ~Cache!b_request_complete
        <5>1. b_request_state
                \in {"cached_fetch_l1_access", "invalidate_sync", "invalidate_l1_access"}
          BY <3>1, <4>2, StateTyped, StateNext DEF Compares
        <5> QED BY <4>2, <5>1, RequestStep, CodeKnown DEF IInv, RequestKnown
      <4> QED BY <4>1, <4>2
    <3> QED
      BY <3>2, RequestStep
         DEF Cache!Requests, Cache!Fetches, Cache!Nones, Cache!Invalidates, Addr, Cache!Addr
  <2>2. ASSUME Cache!a_cache_owner(i) # "request", Cache!a_replace_re(i)
        PROVE  b_bus_op_addr.index \in Indexes
    <3>1. Cache!a_bus_op_state(i) = "fill_last"
      BY <2>2 DEF Cache!a_replace_re
    <3>2. b_bus_op_state \in Filled
      BY <3>1, BusOpStep, OpComplete DEF Filled, IInv, TypeOK, Cache!BusOpStates
    <3> QED BY <1>8, <3>2
  <2> QED BY <2>1, <2>2 DEF Cache!a_replace_rindex
<1>16. invalidated' \subseteq Indexes
  BY HistoryStep, RequestTyped DEF IInv, TypeOK, Addr, Cache!Addr
<1> QED
  BY <1>1, <1>2, <1>3, <1>4, <1>5, <1>6, <1>7, <1>9, <1>10, <1>11, <1>12, <1>13, <1>14,
     <1>15, <1>16
     DEF TypeOK

\* The port belongs to the bus operation, and its answer is a fresh word.
LEMMA OnBusKept ==
  ASSUME IInv, NEW i, NEW victim, Cycled(i, victim), TypeOK', RequestKnown', Owned', Waits'
  PROVE  OnBus'
<1> USE DEF Cycled
<1>1. /\ b_bus_op_state' = Cache!a_bus_op_state(i)
      /\ b_bus_op_addr' = Cache!a_bus_op_addr(i)
      /\ b_bus_op_block_inst' = Cache!a_bus_op_block_inst
      /\ b_bus_op_requested' = ((b_bus_op_requested /\ ~Cache!b_bus_op_complete) \/ sys_ready)
  BY DEF Cache!Clock, Cache!Registers
<1>2. b_bus_op_state' # "none" => b_bus_op_requested'
  BY <1>1, Completion, OpComplete, BusOpStep DEF IInv, OnBus, TypeOK, Cache!BusOpStates
<1>3. CASE b_bus_op_state' \in {"none", "fill_last"}
  BY <1>1, <1>2, <1>3, PortStep DEF OnBus
<1>4. CASE b_bus_op_state' \notin {"none", "fill_last"}
  <2>1. PICK q \in Request :
          /\ q.addr = Cache!a_bus_op_addr(i)
          /\ q.burst <=>
               /\ Cache!a_bus_op_state(i) # "fetch"
               /\ Cache!a_bus_op_block_inst # BlockInsts - 1
          /\ \/ port' = [req |-> q, done |-> FALSE]
             \/ /\ port' = [req |-> q, done |-> TRUE, data |-> Word(q.addr, memory[q.addr])]
                /\ memory' = memory
    BY <1>1, <1>4, PortStep
  <2>2. b_bus_op_addr' \in Addr
    BY <1>1, <1>4, AddrTyped
  <2>3. port' # NoRequest /\ port'.req = q
    <3>1. port' \in Ports
      BY <2>1, AnswerTyped
    <3> QED BY <2>1, <3>1, NoRequestAssumption
  <2>4. ASSUME port'.done
        PROVE  Holds(port.data, b_bus_op_addr,
                     IF b_bus_op_state = "fetch" THEN asked ELSE oldest[b_bus_op_addr])'
    <3>1. port'.data = Word(b_bus_op_addr', memory[b_bus_op_addr']) /\ memory' = memory
      BY <1>1, <2>1, <2>4
    <3>2. memory[b_bus_op_addr'] \in Nat
      BY <2>2 DEF IInv, TypeOK
    <3>3. oldest'[b_bus_op_addr'] <= memory[b_bus_op_addr']
      <4>1. \A a \in Addr : oldest'[a] = memory[a] \/ oldest'[a] = oldest[a]
        BY HistoryStep DEF IInv, TypeOK
      <4>2. \A a \in Addr : oldest[a] <= memory[a] /\ memory[a] \in Nat
        BY DEF IInv, TypeOK
      <4> QED BY <2>2, <4>1, <4>2
    <3>4. b_bus_op_state' = "fetch" => asked' <= memory[b_bus_op_addr']
      <4>1. SUFFICES ASSUME b_bus_op_state' = "fetch" PROVE asked' <= memory[b_bus_op_addr']
        OBVIOUS
      <4>2. b_request_state' = "uncached_fetch_bus_op" /\ b_request_granted'
        BY <4>1 DEF Owned
      <4>3. b_bus_op_addr' = b_request'.addr
        BY <4>2 DEF Waits
      <4>4. b_request'.code = "fetch"
        BY <4>2
           DEF RequestKnown, TypeOK, Cache!Requests, Cache!Fetches, Cache!Nones,
               Cache!Invalidates
      <4> QED BY <3>1, <4>3, <4>4 DEF RequestKnown
    <3> QED BY <3>1, <3>2, <3>3, <3>4 DEF Holds, Word
  <2> QED BY <1>1, <1>2, <1>4, <2>1, <2>2, <2>3, <2>4 DEF OnBus
<1> QED BY <1>3, <1>4

\* The list of the replacement policy is that of the set in use.
LEMMA ListedKept ==
  ASSUME IInv, NEW i, NEW victim, Cycled(i, victim), Owned'
  PROVE  Listed'
<1>1. /\ b_cache_owner' = Cache!a_cache_owner(i)
      /\ b_request' = [Cache!a_request(i) EXCEPT !.seq = FALSE]
      /\ b_bus_op_state' = Cache!a_bus_op_state(i)
      /\ b_bus_op_addr' = Cache!a_bus_op_addr(i)
  BY DEF Cycled, Cache!Clock, Cache!Registers
<1>2. ASSUME Cache!a_cache_owner(i) = "request" PROVE listed' = b_request'.addr.index
  <2>1. listed' = Cache!a_request(i).addr.index
    BY <1>2 DEF Cycled, Cache!a_replace_re, Cache!a_replace_rindex
  <2>2. b_request'.addr = Cache!a_request(i).addr
    <3>1. Cache!a_request(i) \in Cache!Requests
      BY RequestStep DEF Cycled
    <3> QED BY <1>1, <3>1 DEF Cache!Requests, Cache!Fetches, Cache!Nones, Cache!Invalidates
  <2> QED BY <2>1, <2>2
<1>3. ASSUME Cache!a_bus_op_state(i) = "fill_last" PROVE listed' = b_bus_op_addr'.index
  <2>1. b_cache_owner' = "bus_op"
    BY <1>1, <1>3 DEF Owned, Filled
  <2>2. listed' = b_bus_op_addr.index
    BY <1>1, <1>3, <2>1 DEF Cycled, Cache!a_replace_re, Cache!a_replace_rindex
  <2>3. b_bus_op_state = "fill"
    BY <1>3, BusOpStep, OpComplete DEF IInv, TypeOK, Cache!BusOpStates, Cycled
  <2>4. b_bus_op_addr \in Addr
    BY <2>3 DEF IInv, OnBus
  <2> QED BY <1>1, <2>2, <2>3, <2>4, AddrStep, NextInBlock DEF Cycled
<1> QED BY <1>1, <1>2, <1>3 DEF Listed

-----------------------------------------------------------------------------
(***************************************************************************)
(* The parts about the words in the cache.                                 *)
(***************************************************************************)
\* A fresh word stays fresh, unless its set is invalidated.
LEMMA StaysFresh ==
  ASSUME IInv, NEW i, NEW victim, Cycled(i, victim), NEW a \in Addr, NEW d \in Datum,
         b_request_state = "invalidate_l1_access" => a.index # b_request.addr.index,
         Holds(d, a, oldest[a])
  PROVE  d.addr = a /\ oldest'[a] <= d.number /\ d.number <= memory'[a]
<1>1. oldest'[a] = oldest[a]
  BY HistoryStep DEF IInv, TypeOK, Cycled
<1>2. memory[a] <= memory'[a] /\ memory[a] \in Nat /\ memory'[a] \in Nat /\ d.number \in Nat
  BY MemoryStep DEF IInv, TypeOK, Cycled, Datum
<1> QED BY <1>1, <1>2 DEF Holds

\* The words of a valid line that is not being filled are fresh.
LEMMA Fresh ==
  ASSUME IInv, NEW x \in invalidated, NEW w \in vram[x], ~Filling(x, w),
         NEW o \in Cache!Offsets, NEW a, a = [tag |-> tram[x][w], index |-> x, offset |-> o]
  PROVE  a \in Addr /\ dram[x][w][o] \in Datum /\ Holds(dram[x][w][o], a, oldest[a])
<1>1. x \in Indexes /\ w \in Ways
  BY DEF IInv, TypeOK
<1>2. a \in Addr /\ dram[x][w][o] \in Datum /\ tram[x][w] \in Tags
  BY <1>1 DEF IInv, TypeOK, Addr, Cache!Addr
<1>3. dram[x][w][o] \in {Word(a, n) : n \in oldest[a] .. memory[a]}
  <2>1. \A oo \in Cache!Offsets :
          dram[x][w][oo] \in {Word([tag |-> tram[x][w], index |-> x, offset |-> oo], n) :
             n \in oldest[[tag |-> tram[x][w], index |-> x, offset |-> oo]]
               .. memory[[tag |-> tram[x][w], index |-> x, offset |-> oo]]}
    BY Zenon DEF IInv, CacheCoherent
  <2> QED BY <2>1, Zenon
<1>4. oldest[a] \in Nat /\ memory[a] \in Nat
  BY <1>2 DEF IInv, TypeOK
<1> QED BY <1>2, <1>3, <1>4 DEF Holds, Word

\* The words that a fill has replaced: one more in a cycle with an answer.
LEMMA ReplacedStep ==
  ASSUME IInv, NEW i, NEW victim, Cycled(i, victim), b_bus_op_state \in {"fill_first", "fill"}
  PROVE  Replaced' \subseteq Replaced \cup IF sys_ready THEN {b_bus_op_addr.offset} ELSE {}
<1>1. /\ b_bus_op_state' = Cache!a_bus_op_state(i)
      /\ b_bus_op_addr' = Cache!a_bus_op_addr(i)
      /\ b_bus_op_block_inst' = Cache!a_bus_op_block_inst
  BY DEF Cycled, Cache!Clock, Cache!Registers
<1>2. /\ b_bus_op_addr \in Addr
      /\ b_bus_op_addr.offset \in Cache!Offsets
      /\ b_bus_op_block_inst \in Cache!Offsets
  BY DEF IInv, OnBus, TypeOK, Addr, Cache!Addr
<1>3. CASE ~sys_ready
  BY <1>1, <1>3, AddrStep, BeatStep, BusOpStep, OpComplete DEF Replaced, Cycled
<1>4. CASE sys_ready /\ b_bus_op_block_inst = BlockInsts - 1
  <2>1. Cache!Offsets \subseteq Replaced \cup {b_bus_op_addr.offset}
    BY <1>2, <1>4, BlockAssumption DEF Replaced, Cache!Offsets
  <2> QED BY <1>4, <2>1 DEF Replaced
<1>5. CASE sys_ready /\ b_bus_op_block_inst # BlockInsts - 1
  <2>1. b_bus_op_block_inst' = b_bus_op_block_inst + 1
    BY <1>1, <1>5, BeatStep
  <2>2. b_bus_op_addr'.offset =
          IF b_bus_op_addr.offset = BlockInsts - 1 THEN 0 ELSE b_bus_op_addr.offset + 1
    BY <1>1, <1>2, <1>5, AddrStep, NextInBlock DEF Cycled
  <2>3. b_bus_op_state' = "fill"
    BY <1>1, <1>5, BusOpStep, OpComplete DEF Cycled
  <2>4. ASSUME NEW o \in Cache!Offsets,
               \/ b_bus_op_addr'.offset - b_bus_op_block_inst' <= o /\ o < b_bus_op_addr'.offset
               \/ b_bus_op_addr'.offset + BlockInsts - b_bus_op_block_inst' <= o
        PROVE  o \in Replaced \cup {b_bus_op_addr.offset}
    <3>1. b_bus_op_state # "fill_last"
      OBVIOUS
    <3>2. CASE b_bus_op_addr.offset = BlockInsts - 1
      BY <1>2, <1>5, <2>1, <2>2, <2>4, <3>1, <3>2, BlockAssumption
         DEF Replaced, Cache!Offsets
    <3>3. CASE b_bus_op_addr.offset # BlockInsts - 1
      BY <1>2, <1>5, <2>1, <2>2, <2>4, <3>1, <3>3, BlockAssumption
         DEF Replaced, Cache!Offsets
    <3> QED BY <3>2, <3>3
  <2> QED BY <1>5, <2>3, <2>4 DEF Replaced
<1> QED BY <1>3, <1>4, <1>5

\* A fill replaces word after word by fresh ones, in a way that is its own.
LEMMA FillKept ==
  ASSUME IInv, NEW i, NEW victim, Cycled(i, victim), TypeOK', RequestKnown', Waits', Owned'
  PROVE  FillSound'
<1>1. /\ b_bus_op_state' = Cache!a_bus_op_state(i)
      /\ b_bus_op_addr' = Cache!a_bus_op_addr(i)
      /\ b_bus_op_way' = Cache!a_bus_op_way(i, victim)
      /\ b_bus_op_block_inst' = Cache!a_bus_op_block_inst
      /\ b_request_way' = Cache!b_request_way_next(victim)
      /\ b_request_state' = Cache!a_request_state(i)
  BY DEF Cycled, Cache!Clock, Cache!Registers
<1>2. CASE b_bus_op_state' = "fill_first"
  <2>1. Cache!b_bus_op_complete /\ Cache!a_request_state(i) = "cached_fetch_fill"
    BY <1>1, <1>2, BusOpStep DEF Cycled
  <2>2. ~Cache!b_request_complete /\ b_request.code = "fetch"
    BY <2>1, NewBusOp DEF Cycled
  <2>3. /\ b_bus_op_addr' = b_request.addr
        /\ b_request.addr \in Addr
        /\ b_bus_op_way' = b_request_way'
    BY <1>1, <2>1, <2>2, OpComplete, AddrStep, WayStep, RequestTyped DEF Cycled
  <2>4. b_bus_op_addr'.index \in invalidated'
    <3>1. b_request'.code = "fetch" /\ b_request'.addr.index \in invalidated'
      BY <1>1, <2>1
         DEF RequestKnown, TypeOK, Cache!Requests, Cache!Fetches, Cache!Nones,
             Cache!Invalidates
    <3>2. b_bus_op_addr'.index = b_request'.addr.index
      BY <1>1, <2>1 DEF Waits
    <3> QED BY <3>1, <3>2
  <2>5. Replaced' = {}
    <3>1. b_bus_op_block_inst' = 0
      BY <1>2 DEF Owned
    <3>2. b_bus_op_addr'.offset \in Cache!Offsets
      BY <2>3 DEF Addr, Cache!Addr
    <3> QED BY <1>2, <3>1, <3>2, BlockAssumption DEF Replaced, Cache!Offsets
  <2>6. PICK w \in Ways :
          /\ b_bus_op_way' = {w}
          /\ \A v \in vram'[b_bus_op_addr'.index] \ {w} :
               tram'[b_bus_op_addr'.index][v] # b_bus_op_addr'.tag
    <3>1. b_request_state = "cached_fetch_fill" \/
            (b_request_state = "cached_fetch_l1_access" /\ b_request_granted)
      BY <2>1, <2>2, StateTyped, StateNext DEF Cycled
    <3>2. CASE b_request_state = "cached_fetch_fill"
      <4>1. b_bus_op_state = "fill_last"
        BY <2>1, <3>2, OpComplete DEF IInv, Waits, Owned
      <4>2. /\ b_bus_op_addr.tag = b_request.addr.tag
            /\ b_bus_op_addr.index = b_request.addr.index
            /\ b_bus_op_way' = b_bus_op_way
        BY <1>1, <2>3, <3>2, WayStep DEF IInv, Waits, Cycled
      <4>3. PICK w \in Ways :
              /\ b_bus_op_way = {w}
              /\ \A v \in vram[b_bus_op_addr.index] \ {w} :
                   tram[b_bus_op_addr.index][v] # b_bus_op_addr.tag
        BY <4>1 DEF IInv, FillSound, Filled
      <4>4. b_bus_op_addr.index \in Indexes /\ vram[b_bus_op_addr.index] \subseteq Ways
        BY <2>3, <4>2 DEF IInv, TypeOK, Addr, Cache!Addr
      <4>5. /\ vram'[b_bus_op_addr.index] \ {w} \subseteq vram[b_bus_op_addr.index] \ {w}
            /\ \A v \in Ways : tram'[b_bus_op_addr.index][v] = tram[b_bus_op_addr.index][v]
        BY <4>1, <4>3, <4>4, LineStep DEF LastBeat
      <4> QED BY <2>3, <4>2, <4>3, <4>4, <4>5
    <3>3. CASE b_request_state = "cached_fetch_l1_access" /\ b_request_granted
      <4>1. b_bus_op_state = "none" /\ Cache!b_cache_index = b_request.addr.index
        BY <2>1, <3>3, OpComplete DEF IInv, Owned, Compares, Filled, Cache!b_cache_index
      <4>2. /\ ~b_request_tagless
            /\ Cache!b_request_cache_way_hit = {}
            /\ ~Cache!b_request_cache_hit
        BY <2>2, <3>3, Completion DEF Cache!b_request_cache_hit
      <4>3. vram' = vram /\ tram' = tram
        BY <3>3, <4>1, RamStep DEF Cycled, Vram, Tram, LastBeat
      <4>4. \A v \in vram[b_request.addr.index] :
              tram[b_request.addr.index][v] # b_request.addr.tag
        BY <4>1, <4>2 DEF Cache!b_request_cache_way_hit, Cache!b_vram_rdata
      <4>5. b_request_way' = {victim}
        BY <1>1, <3>3, <4>2 DEF Cache!b_request_way_next
      <4>6. victim \in Ways
        BY <3>3 DEF Cycled, Victims, Cache!b_replace_way
      <4> QED BY <2>3, <4>3, <4>4, <4>5, <4>6
    <3> QED BY <3>1, <3>2, <3>3
  <2> QED BY <1>2, <2>3, <2>4, <2>5, <2>6 DEF FillSound
<1>3. CASE b_bus_op_state' \in {"fill", "fill_last"}
  <2>1. b_bus_op_state \in {"fill_first", "fill"}
    BY <1>1, <1>3, BusOpStep, OpComplete DEF Cycled, IInv, TypeOK, Cache!BusOpStates
  <2>2. /\ b_bus_op_addr \in Addr
        /\ b_bus_op_addr' \in Addr
        /\ b_bus_op_addr'.tag = b_bus_op_addr.tag
        /\ b_bus_op_addr'.index = b_bus_op_addr.index
        /\ b_bus_op_way' = b_bus_op_way
    <3>1. b_bus_op_addr \in Addr
      BY <2>1 DEF IInv, OnBus
    <3> QED BY <1>1, <2>1, <3>1, AddrStep, NextInBlock, WayStep DEF Cycled
  <2>3. b_request_state # "invalidate_l1_access"
    BY <2>1 DEF IInv, Waits
  <2> DEFINE x == b_bus_op_addr.index
             t == b_bus_op_addr.tag
  <2>4. PICK w \in Ways :
         /\ b_bus_op_way = {w}
         /\ \A v \in vram[x] \ {w} : tram[x][v] # t
         /\ \A o \in Replaced :
              Holds(dram[x][w][o], InBlock(b_bus_op_addr, o), oldest[InBlock(b_bus_op_addr, o)])
    BY <2>1 DEF IInv, FillSound, Filled
  <2>5. x \in Indexes /\ t \in Tags /\ b_bus_op_addr.offset \in Cache!Offsets
    BY <2>2 DEF Addr, Cache!Addr
  <2>6. x \in invalidated'
    BY <2>1, HistoryStep DEF IInv, FillSound, Filled, Cycled
  <2>7. vram'[x] \subseteq vram[x]
    BY <2>1, <2>3, <2>5, LineStep
  <2>8. \A v \in vram'[x] \ {w} : tram'[x][v] # t
    <3>1. ASSUME NEW v \in Ways \ {w} PROVE tram'[x][v] = tram[x][v]
      <4>1. v \in Ways /\ v \notin b_bus_op_way
        BY <2>4
      <4> QED BY <2>5, <4>1, LineStep
    <3>2. vram'[x] \subseteq Ways
      BY <2>5 DEF TypeOK
    <3> QED BY <2>4, <2>7, <3>1, <3>2
  <2>9. b_bus_op_state' = "fill_last" => tram'[x][w] = t
    <3>1. SUFFICES ASSUME b_bus_op_state' = "fill_last" PROVE tram'[x][w] = t
      OBVIOUS
    <3>2. b_bus_op_state = "fill" /\ sys_ready /\ b_bus_op_block_inst = BlockInsts - 1
      BY <1>1, <2>1, <3>1, BusOpStep, OpComplete DEF Cycled
    <3> QED BY <2>4, <2>5, <3>2, LineStep DEF LastBeat
  <2>10. ASSUME NEW o \in Replaced'
         PROVE  Holds(dram[x][w][o], InBlock(b_bus_op_addr, o),
                      oldest[InBlock(b_bus_op_addr, o)])'
    <3>1. /\ o \in Cache!Offsets
          /\ InBlock(b_bus_op_addr, o) \in Addr
          /\ InBlock(b_bus_op_addr', o) = InBlock(b_bus_op_addr, o)
      BY <2>2, <2>5 DEF Replaced, InBlock, Addr, Cache!Addr
    <3> DEFINE a == InBlock(b_bus_op_addr, o)
    <3>2. dram[x][w][o] \in Datum
      BY <2>5, <3>1 DEF IInv, TypeOK
    <3>3. CASE sys_ready /\ o = b_bus_op_addr.offset
      <4>1. dram'[x][w][o] = sys_data
        BY <2>1, <2>4, <2>5, <3>3, LineStep
      <4>2. a = b_bus_op_addr
        BY <2>2, <3>3 DEF InBlock, Addr, Cache!Addr
      <4>3. sys_data \in Datum /\ Holds(sys_data, a, oldest[a])
        BY <2>1, <3>3, <4>2, SysDataTyped DEF IInv, OnBus, sys_ready, sys_data, Answered
      <4>4. /\ sys_data.addr = a
            /\ oldest'[a] <= sys_data.number
            /\ sys_data.number <= memory'[a]
        BY <2>3, <3>1, <4>3, StaysFresh
      <4> QED BY <2>2, <3>1, <4>1, <4>4 DEF Holds
    <3>4. CASE ~(sys_ready /\ o = b_bus_op_addr.offset)
      <4>1. o \in Replaced
        BY <2>1, <3>4, ReplacedStep
      <4>2. dram'[x][w][o] = dram[x][w][o]
        <5>1. dram'[x][w][o] =
                IF /\ b_bus_op_state \in {"fill_first", "fill"} /\ sys_ready
                   /\ x = b_bus_op_addr.index /\ w \in b_bus_op_way
                   /\ o = b_bus_op_addr.offset
                THEN sys_data ELSE dram[x][w][o]
          BY <2>4, <2>5, <3>1, LineStep
        <5> QED BY <3>4, <5>1
      <4>3. Holds(dram[x][w][o], a, oldest[a])
        BY <2>4, <4>1
      <4>4. /\ dram[x][w][o].addr = a
            /\ oldest'[a] <= dram[x][w][o].number
            /\ dram[x][w][o].number <= memory'[a]
        BY <2>3, <3>1, <3>2, <4>3, StaysFresh
      <4> QED BY <2>2, <3>1, <4>2, <4>4 DEF Holds
    <3> QED BY <3>3, <3>4
  <2> QED BY <2>2, <2>4, <2>6, <2>8, <2>9, <2>10 DEF FillSound
<1> QED BY <1>2, <1>3 DEF FillSound, Filled

\* The words of line w of set x after a step are those of the block that its tag
\* names, and fresh.
LineSound(x, w) ==
  \A o \in Cache!Offsets :
    dram'[x][w][o] \in
      {Word([tag |-> tram'[x][w], index |-> x, offset |-> o], n) :
         n \in oldest'[[tag |-> tram'[x][w], index |-> x, offset |-> o]]
                 .. memory'[[tag |-> tram'[x][w], index |-> x, offset |-> o]]}

\* A line that nothing writes stays as it is.
LEMMA LineKept ==
  ASSUME IInv, NEW i, NEW victim, Cycled(i, victim), NEW x \in invalidated,
         NEW w \in vram[x], ~Filling(x, w),
         b_request_state = "invalidate_l1_access" => x # b_request.addr.index
  PROVE  tram'[x][w] = tram[x][w] /\ LineSound(x, w)
<1>1. x \in Indexes /\ w \in Ways
  BY DEF IInv, TypeOK
<1>2. tram'[x][w] = tram[x][w]
  BY <1>1, LineStep DEF Filling, LastBeat
<1>3. ASSUME NEW o \in Cache!Offsets, NEW a, a = [tag |-> tram[x][w], index |-> x, offset |-> o]
      PROVE  dram'[x][w][o] \in {Word(a, n) : n \in oldest'[a] .. memory'[a]}
  <2> DEFINE d == dram[x][w][o]
  <2>1. dram'[x][w][o] = d
    <3>1. dram'[x][w][o] =
                IF /\ b_bus_op_state \in {"fill_first", "fill"} /\ sys_ready
                   /\ x = b_bus_op_addr.index /\ w \in b_bus_op_way
                   /\ o = b_bus_op_addr.offset
                THEN sys_data ELSE dram[x][w][o]
      BY <1>1, LineStep
    <3> QED BY <3>1 DEF Filling
  <2>2. a \in Addr /\ d \in Datum /\ Holds(d, a, oldest[a])
    BY <1>3, Fresh
  <2>3. a.index = x
    BY <1>3
  <2> HIDE DEF d
  <2>4. d.addr = a /\ oldest'[a] <= d.number /\ d.number <= memory'[a]
    BY <2>2, <2>3, StaysFresh
  <2>5. d = Word(a, d.number) /\ d.number \in oldest'[a] .. memory'[a]
    <3>1. oldest'[a] \in Nat /\ memory'[a] \in Nat
      BY <2>2, TypeKept DEF TypeOK
    <3> QED BY <2>2, <2>4, <3>1 DEF Word, Datum
  <2> QED BY <2>1, <2>5
<1>4. LineSound(x, w)
  BY <1>2, <1>3, Zenon DEF LineSound
<1> QED BY <1>2, <1>4

\* Valid lines stay fresh and distinct.
LEMMA CoherentKept ==
  ASSUME IInv, NEW i, NEW victim, Cycled(i, victim)
  PROVE  CacheCoherent'
<1>1. SUFFICES ASSUME NEW x \in invalidated', NEW w \in vram'[x]
               PROVE  /\ \A v \in vram'[x] \ {w} : tram'[x][v] # tram'[x][w]
                      /\ Filling(x, w)' \/ LineSound(x, w)
  BY Zenon DEF CacheCoherent, LineSound
<1>2. TypeOK' /\ x \in Indexes /\ vram'[x] \subseteq Ways
  BY TypeKept DEF TypeOK
<1>3. Invalidated /\ Input(i)
  BY DEF Cycled
<1>4. b_request_state = "invalidate_l1_access" =>
        x # b_request.addr.index /\ b_bus_op_state = "none"
  <2>1. SUFFICES ASSUME b_request_state = "invalidate_l1_access", x = b_request.addr.index
                 PROVE  FALSE
    BY DEF IInv, Waits
  <2>2. b_bus_op_state = "none"
    BY <2>1 DEF IInv, Waits
  <2> QED BY <1>2, <2>1, <2>2, LineStep
<1>5. x \in invalidated
  BY <1>3, <1>4, HistoryStep
<1>6. \A v \in vram[x] : \A u \in vram[x] \ {v} : tram[x][u] # tram[x][v]
  BY <1>5, Zenon DEF IInv, CacheCoherent
<1>7. CASE b_bus_op_state \in Filled /\ x = b_bus_op_addr.index
  <2>1. PICK f \in Ways :
         /\ b_bus_op_way = {f}
         /\ \A v \in vram[x] \ {f} : tram[x][v] # b_bus_op_addr.tag
         /\ b_bus_op_state = "fill_last" => tram[x][f] = b_bus_op_addr.tag
         /\ \A o \in Replaced :
              Holds(dram[x][f][o], InBlock(b_bus_op_addr, o), oldest[InBlock(b_bus_op_addr, o)])
    BY <1>7 DEF IInv, FillSound
  <2>2. b_bus_op_addr \in Addr
    BY <1>7 DEF IInv, FillSound
  <2>3. /\ vram'[x] \subseteq vram[x] \cup {f}
        /\ (b_bus_op_state # "fill_last" => vram'[x] \subseteq vram[x])
    BY <1>2, <1>4, <2>1, LineStep
  <2>4. tram'[x][f] = tram[x][f] \/ tram'[x][f] = b_bus_op_addr.tag
    BY <1>2, <2>1, LineStep
  <2>5. \A v \in Ways \ {f} : tram'[x][v] = tram[x][v]
    <3>1. ASSUME NEW v \in Ways \ {f} PROVE tram'[x][v] = tram[x][v]
      <4>1. v \in Ways /\ v \notin b_bus_op_way
        BY <2>1
      <4> QED BY <1>2, <4>1, LineStep
    <3> QED BY <3>1
  <2>6. b_bus_op_state = "fill_last" => tram'[x][f] = b_bus_op_addr.tag
    BY <2>1, <2>4
  <2>7. \A v \in vram'[x] \ {w} : tram'[x][v] # tram'[x][w]
    <3>1. CASE b_bus_op_state = "fill_last"
      BY <1>2, <1>6, <2>1, <2>3, <2>5, <2>6, <3>1
    <3>2. CASE b_bus_op_state # "fill_last"
      BY <1>2, <1>6, <2>1, <2>3, <2>4, <2>5, <3>2
    <3> QED BY <3>1, <3>2
  <2>8. CASE w # f
    <3>1. w \in vram[x] /\ ~Filling(x, w)
      BY <2>1, <2>3, <2>8 DEF Filling
    <3> QED BY <1>4, <1>5, <2>7, <3>1, LineKept
  <2>9. CASE w = f /\ b_bus_op_state # "fill_last"
    <3>1. b_bus_op_state \in {"fill_first", "fill"}
      BY <1>7, <2>9 DEF Filled
    <3>2. /\ b_bus_op_state' \in {"fill", "fill_last"}
          /\ b_bus_op_addr' = Cache!a_bus_op_addr(i)
          /\ b_bus_op_way' = Cache!a_bus_op_way(i, victim)
      BY <1>3, <3>1, BusOpStep, OpComplete DEF Cycled, Cache!Clock, Cache!Registers
    <3>3. b_bus_op_addr'.index = x /\ b_bus_op_way' = {f}
      BY <1>3, <1>7, <2>1, <2>2, <3>1, <3>2, AddrStep, NextInBlock, WayStep
    <3>4. Filling(x, w)'
      BY <2>9, <3>2, <3>3 DEF Filling
    <3> QED BY <2>7, <3>4
  <2>10. CASE w = f /\ b_bus_op_state = "fill_last"
    <3>1. ASSUME NEW o \in Cache!Offsets, NEW a,
                 a = [tag |-> tram'[x][f], index |-> x, offset |-> o]
          PROVE  dram'[x][f][o] \in {Word(a, n) : n \in oldest'[a] .. memory'[a]}
      <4> DEFINE d == dram[x][f][o]
      <4>1. a = InBlock(b_bus_op_addr, o) /\ a \in Addr /\ a.index = x
        BY <1>7, <2>2, <2>6, <2>10, <3>1 DEF InBlock, Addr, Cache!Addr
      <4>2. o \in Replaced
        BY <2>10 DEF Replaced
      <4>3. dram'[x][f][o] = d /\ d \in Datum
        <5>1. dram'[x][f][o] =
                IF /\ b_bus_op_state \in {"fill_first", "fill"} /\ sys_ready
                   /\ x = b_bus_op_addr.index /\ f \in b_bus_op_way
                   /\ o = b_bus_op_addr.offset
                THEN sys_data ELSE dram[x][f][o]
          <6>1. f \in Ways
            BY <2>1
          <6> HIDE DEF d
          <6> QED BY <1>2, <6>1, LineStep
        <5>2. dram \in [Indexes -> [Ways -> [Cache!Offsets -> Datum]]]
          BY DEF IInv, TypeOK
        <5> QED BY <1>2, <2>1, <2>10, <5>1, <5>2
      <4>4. Holds(d, a, oldest[a])
        BY <2>1, <4>1, <4>2
      <4> HIDE DEF d
      <4>5. d.addr = a /\ oldest'[a] <= d.number /\ d.number <= memory'[a]
        BY <1>4, <4>1, <4>3, <4>4, StaysFresh
      <4>6. d = Word(a, d.number) /\ d.number \in oldest'[a] .. memory'[a]
        <5>1. oldest'[a] \in Nat /\ memory'[a] \in Nat
          BY <1>2, <4>1 DEF TypeOK
        <5> QED BY <4>3, <4>5, <5>1 DEF Word, Datum
      <4> QED BY <4>3, <4>6
    <3>2. LineSound(x, f)
      BY <3>1, Zenon DEF LineSound
    <3> QED BY <2>7, <2>10, <3>2
  <2> QED BY <2>8, <2>9, <2>10
<1>8. CASE ~(b_bus_op_state \in Filled /\ x = b_bus_op_addr.index)
  <2>1. vram'[x] = vram[x]
    BY <1>2, <1>4, <1>8, LineStep DEF Filled
  <2>2. ASSUME NEW v \in vram[x] PROVE ~Filling(x, v)
    BY <1>8 DEF Filling, Filled
  <2>3. ASSUME NEW v \in vram[x] PROVE tram'[x][v] = tram[x][v]
    BY <1>4, <1>5, <2>2, LineKept
  <2>4. w \in vram[x] /\ LineSound(x, w)
    BY <1>4, <1>5, <2>1, <2>2, LineKept
  <2> QED BY <1>6, <2>1, <2>3, <2>4
<1> QED BY <1>7, <1>8

-----------------------------------------------------------------------------
(***************************************************************************)
(* The part about the accesses that compare no tags.                       *)
(***************************************************************************)
\* A way that holds a block, or is being filled with it, still does after the cycle.
LEMMA WayHoldsKept ==
  ASSUME IInv, NEW i, NEW victim, Cycled(i, victim), NEW way, NEW a \in Addr, WayHolds(way, a),
         Cache!a_request_state(i) \in {"none", "cached_fetch_l1_access"},
         b_request_state # "invalidate_l1_access"
  PROVE  IF b_bus_op_state' \in Filled
         THEN /\ way = b_bus_op_way'
              /\ b_bus_op_addr'.tag = a.tag
              /\ b_bus_op_addr'.index = a.index
         ELSE \E w \in vram'[a.index] : way = {w} /\ tram'[a.index][w] = a.tag
<1>1. Input(i) /\ b_bus_op_state' = Cache!a_bus_op_state(i)
      /\ b_bus_op_addr' = Cache!a_bus_op_addr(i)
      /\ b_bus_op_way' = Cache!a_bus_op_way(i, victim)
  BY DEF Cycled, Cache!Clock, Cache!Registers
<1>2. a.index \in Indexes /\ vram[a.index] \subseteq Ways
  BY DEF IInv, TypeOK, Addr, Cache!Addr
<1>3. CASE b_bus_op_state \in {"fill_first", "fill"}
  <2>1. /\ b_bus_op_addr \in Addr
        /\ way = b_bus_op_way
        /\ b_bus_op_addr.tag = a.tag
        /\ b_bus_op_addr.index = a.index
    BY <1>3 DEF WayHolds, Filled, IInv, OnBus
  <2>2. b_bus_op_state' \in Filled
    BY <1>1, <1>3, BusOpStep, OpComplete DEF Filled
  <2>3. b_bus_op_addr'.tag = a.tag /\ b_bus_op_addr'.index = a.index
    BY <1>1, <1>3, <2>1, AddrStep, NextInBlock
  <2>4. b_bus_op_way' = way
    BY <1>1, <1>3, <2>1, WayStep
  <2> QED BY <2>2, <2>3, <2>4
<1>4. CASE b_bus_op_state = "fill_last"
  <2>1. b_bus_op_state' \notin Filled
    BY <1>1, <1>4, BusOpStep, OpComplete DEF Filled
  <2>2. PICK w \in Ways : /\ b_bus_op_way = {w}
                          /\ tram[b_bus_op_addr.index][w] = b_bus_op_addr.tag
    BY <1>4 DEF IInv, FillSound, Filled
  <2>3. way = {w} /\ b_bus_op_addr.tag = a.tag /\ b_bus_op_addr.index = a.index
    BY <1>4, <2>2 DEF WayHolds, Filled
  <2>4. /\ vram'[a.index] = vram[a.index] \cup b_bus_op_way
        /\ tram'[a.index][w] = tram[a.index][w]
    BY <1>2, <1>4, <2>2, <2>3, LineStep DEF LastBeat
  <2> QED BY <2>1, <2>2, <2>3, <2>4
<1>5. CASE b_bus_op_state \in {"none", "fetch"}
  <2>1. b_bus_op_state' \notin Filled
    BY <1>1, <1>5, BusOpStep, OpComplete DEF Filled
  <2>2. PICK w \in vram[a.index] : way = {w} /\ tram[a.index][w] = a.tag
    BY <1>5 DEF WayHolds, Filled
  <2>3. w \in vram'[a.index] /\ tram'[a.index][w] = a.tag
    BY <1>2, <1>5, <2>2, LineStep DEF LastBeat
  <2> QED BY <2>1, <2>2, <2>3
<1> QED BY <1>3, <1>4, <1>5 DEF IInv, TypeOK, Cache!BusOpStates

\* A hit is one way.
LEMMA HitIsOne ==
  ASSUME IInv, b_request_state = "cached_fetch_l1_access", b_request_granted,
         Cache!b_request_cache_hit
  PROVE  /\ b_bus_op_state \notin Filled
         /\ Cache!b_cache_index = b_request.addr.index
         /\ \E w \in vram[b_request.addr.index] :
              /\ Cache!b_request_cache_way_hit = {w}
              /\ tram[b_request.addr.index][w] = b_request.addr.tag
<1>1. b_bus_op_state \notin Filled /\ Cache!b_cache_index = b_request.addr.index
  BY DEF IInv, Owned, Compares, Cache!b_cache_index
<1>2. b_request.addr.index \in invalidated
  BY CodeKnown DEF IInv, RequestKnown
<1>3. \A w \in vram[b_request.addr.index] : \A v \in vram[b_request.addr.index] \ {w} :
        tram[b_request.addr.index][v] # tram[b_request.addr.index][w]
  BY <1>2, Zenon DEF IInv, CacheCoherent
<1>4. PICK w \in vram[b_request.addr.index] : tram[b_request.addr.index][w] = b_request.addr.tag
  BY <1>1 DEF Cache!b_request_cache_hit, Cache!b_request_cache_way_hit, Cache!b_vram_rdata
<1>5. Cache!b_request_cache_way_hit = {w}
  BY <1>1, <1>3, <1>4 DEF Cache!b_request_cache_way_hit, Cache!b_vram_rdata
<1> QED BY <1>1, <1>4, <1>5

\* The way for the next word stays known.
LEMMA WayKnownKept ==
  ASSUME IInv, NEW i, NEW victim, Cycled(i, victim)
  PROVE  WayKnown'
<1>1. /\ Input(i) /\ Invalidated
      /\ b_request_state' = Cache!a_request_state(i)
      /\ b_request_tagless' = Cache!a_request_tagless(i)
      /\ b_request_way' = Cache!b_request_way_next(victim)
  BY DEF Cycled, Cache!Clock, Cache!Registers
<1>2. SUFFICES ASSUME Cache!a_request_state(i) \in {"none", "cached_fetch_l1_access"},
                      Cache!a_request_tagless(i), ~faulted', last' # NoRequest
               PROVE  /\ last'.index \in invalidated'
                      /\ Cache!a_request_state(i) = "none" => ~Cache!last_in_block(last')
                      /\ IF b_bus_op_state' \in Filled
                         THEN /\ b_request_way' = b_bus_op_way'
                              /\ b_bus_op_addr'.tag = last'.tag
                              /\ b_bus_op_addr'.index = last'.index
                         ELSE \E w \in vram'[last'.index] :
                                /\ b_request_way' = {w}
                                /\ tram'[last'.index][w] = last'.tag
  BY <1>1 DEF WayKnown, WayHolds, Cache!last_in_block
<1>3. invalidated \subseteq invalidated'
  BY <1>1, HistoryStep
<1>4. /\ ~faulted /\ last \in Addr
      /\ last'.tag = last.tag /\ last'.index = last.index
      /\ Cache!a_request_state(i) = "none" => ~Cache!last_in_block(last')
      /\ last.index \in invalidated
      /\ b_request_state # "invalidate_l1_access"
      /\ WayHolds(b_request_way', last)
  <2>1. CASE ~Cache!b_request_complete
    <3>1. last' = last /\ ~faulted /\ b_request_tagless
      BY <1>1, <1>2, <2>1 DEF Input, Cache!a_request_tagless
    <3>2. b_request_state = "cached_fetch_l1_access" /\ Cache!a_request_state(i) # "none"
      BY <1>1, <1>2, <2>1, StateTyped, StateNext, Completion
         DEF IInv, TypeOK, Cache!RequestStates
    <3>3. b_request_way' = b_request_way
      BY <1>1, <3>1, <3>2 DEF Cache!b_request_way_next
    <3> QED BY <1>2, <3>1, <3>2, <3>3 DEF IInv, WayKnown, TypeOK
  <2>2. CASE Cache!b_request_complete
    <3>1. i.seq /\ Cache!b_request_tagless_seq_next
      BY <1>2, <2>2 DEF Cache!a_request_tagless
    <3>2. i.code # "invalidate" /\ i.code \in {"none", "fetch"}
      BY <1>1, <1>2, <2>2, StateTyped, StateNew, Accepted
         DEF Cache!Requests, Cache!Fetches, Cache!Nones, Cache!Invalidates
    <3>3. /\ ~faulted
          /\ Cache!a_request_state(i) = "none" <=> i.code = "none"
          /\ i.code = "none" => last' = last
          /\ i.code = "fetch" =>
               /\ last' = i.addr /\ last \in Addr
               /\ Cache!last_in_block(last) \/ i.addr = Cache!next_in_block(last)
      BY <1>1, <1>2, <2>2, <3>1, <3>2, StateTyped, StateNew, Accepted
    <3>4. last \in Addr
      BY <1>2, <3>2, <3>3 DEF IInv, TypeOK
    <3>5. /\ ~Cache!last_in_block(last)
          /\ last.index \in invalidated
          /\ b_request_state # "invalidate_l1_access"
          /\ WayHolds(b_request_way', last)
      <4>1. CASE b_request_state = "none"
        <5>1. b_request_tagless /\ b_request_way' = b_request_way
          BY <1>1, <3>1, <4>1, WayStep DEF Cache!b_request_tagless_seq_next
        <5>2. last # NoRequest
          BY <3>4, NoRequestAssumption
        <5> QED BY <3>3, <4>1, <5>1, <5>2 DEF IInv, WayKnown
      <4>2. CASE b_request_state = "cached_fetch_l1_access"
        <5>1. /\ ~Cache!last_in_block(b_request.addr) /\ last = b_request.addr
              /\ ~b_request.mmuen
              /\ b_request.addr.index \in invalidated
          BY <3>1, <3>3, <4>2, CodeKnown
             DEF Cache!b_request_tagless_seq_next, IInv, RequestKnown
        <5>2. b_request_granted /\ (b_request_tagless \/ Cache!b_request_cache_hit)
          BY <2>2, <4>2, <5>1, Completion
        <5>3. WayHolds(b_request_way', last)
          <6>1. CASE b_request_tagless
            <7>1. b_request_way' = b_request_way
              BY <1>1, <4>2, <6>1 DEF Cache!b_request_way_next
            <7>2. last # NoRequest
              BY <3>4, NoRequestAssumption
            <7> QED BY <3>3, <4>2, <6>1, <7>1, <7>2 DEF IInv, WayKnown
          <6>2. CASE ~b_request_tagless
            <7>1. b_request_way' = Cache!b_request_cache_way_hit
              BY <1>1, <4>2, <5>2, <6>2 DEF Cache!b_request_way_next
            <7> QED BY <4>2, <5>1, <5>2, <6>2, <7>1, HitIsOne DEF WayHolds
          <6> QED BY <6>1, <6>2
        <5> QED BY <4>2, <5>1, <5>3
      <4>3. CASE b_request_state = "cached_fetch_fill"
        <5>1. /\ ~Cache!last_in_block(b_request.addr)
              /\ last = b_request.addr
              /\ b_request.addr.index \in invalidated
          BY <3>1, <4>3, CodeKnown DEF Cache!b_request_tagless_seq_next, IInv, RequestKnown
        <5>2. b_request_granted /\ b_request_way' = b_request_way
          BY <1>1, <2>2, <4>3, Completion, WayStep
        <5>3. /\ b_bus_op_state \in Filled
              /\ b_bus_op_way = b_request_way
              /\ b_bus_op_addr = b_request.addr
          BY <4>3, <5>2 DEF IInv, Waits, Filled
        <5> QED BY <4>3, <5>1, <5>2, <5>3 DEF WayHolds
      <4> QED BY <3>1, <4>1, <4>2, <4>3 DEF Cache!b_request_tagless_seq_next
    <3>6. last'.tag = last.tag /\ last'.index = last.index
      BY <3>2, <3>3, <3>4, <3>5, NextInBlock
    <3> QED BY <3>3, <3>4, <3>5, <3>6
  <2> QED BY <2>1, <2>2
<1>5. IF b_bus_op_state' \in Filled
      THEN /\ b_request_way' = b_bus_op_way'
           /\ b_bus_op_addr'.tag = last.tag
           /\ b_bus_op_addr'.index = last.index
      ELSE \E w \in vram'[last.index] : b_request_way' = {w} /\ tram'[last.index][w] = last.tag
  BY <1>2, <1>4, WayHoldsKept
<1> QED BY <1>3, <1>4, <1>5

-----------------------------------------------------------------------------
(***************************************************************************)
(* The invariant is inductive.                                             *)
(***************************************************************************)
\* Reset establishes it.
LEMMA InitInvariant == Init => IInv
<1> SUFFICES ASSUME Init PROVE IInv
  OBVIOUS
<1>1. Garbage \in Datum
  BY DEF Garbage, Datum
<1>2. TypeOK
  <2>1. b_request \in Cache!Requests
    BY DEF Init, Cache!Init, Cache!Requests, Cache!Nones
  <2>2. /\ vram \in [Indexes -> SUBSET Ways]
        /\ tram \in [Indexes -> [Ways -> Tags]]
        /\ dram \in [Indexes -> [Ways -> [Cache!Offsets -> Datum]]]
    BY <1>1 DEF Init, Cache!Init
  <2>3. b_bus_op_block_inst \in Cache!Offsets
    BY BlockAssumption DEF Init, Cache!Init, Cache!Offsets
  <2>4. /\ memory \in [Addr -> Nat] /\ oldest \in [Addr -> Nat] /\ asked \in Nat
        /\ \A a \in Addr : oldest[a] <= memory[a]
    BY DEF Init
  <2> QED
    BY <2>1, <2>2, <2>3, <2>4
       DEF Init, Cache!Init, TypeOK, Cache!Owners, Cache!RequestStates, Cache!BusOpStates
<1> QED
  BY <1>2
     DEF Init, Cache!Init, IInv, RequestKnown, Owned, Waits, OnBus, FillSound,
         CacheCoherent, WayKnown, Listed, Filled, Compares

\* A step of the system is a cycle, with some request and some victim.
LEMMA StepIsCycled ==
  ASSUME IInv, Next
  PROVE  \E i, victim : Cycled(i, victim)
<1>1. CASE Cache!b_request_complete
  <2>1. PICK i \in PipeRequests : Taken(i) /\ Cycle(i)
    BY <1>1 DEF Next, Accept
  <2>2. PICK victim \in Victims : Cache!Clock(i, victim)
    BY <2>1 DEF Cycle
  <2>3. Cycled(i, victim)
    BY <1>1, <2>1, <2>2 DEF Cycled, Cycle, Input
  <2> QED BY <2>3
<1>2. CASE ~Cache!b_request_complete
  <2>1. UNCHANGED <<last, faulted, asked>> /\ Cycle(b_request)
    BY <1>2 DEF Next, Continue
  <2>2. PICK victim \in Victims : Cache!Clock(b_request, victim)
    BY <2>1 DEF Cycle
  <2>3. Cycled(b_request, victim)
    BY <1>2, <2>1, <2>2 DEF Cycled, Cycle, Input
  <2> QED BY <2>3
<1> QED BY <1>1, <1>2

\* Every cycle keeps the inductive invariant.
LEMMA InvariantStep ==
  ASSUME IInv, NEW i, NEW victim, Cycled(i, victim)
  PROVE  IInv'
<1>1. /\ Input(i) /\ Cache!Clock(i, victim) /\ Invalidated
      /\ Bus(IF sys_ready THEN Cache!sys_master_out(i) ELSE port.req)
  BY DEF Cycled
<1>2. TypeOK' BY TypeKept
<1>3. RequestKnown' BY <1>1, RequestKept
<1>4. Owned' BY <1>1, OwnedKept
<1>5. Waits' BY <1>1, WaitsKept
<1>6. OnBus' BY <1>2, <1>3, <1>4, <1>5, OnBusKept
<1>7. FillSound' BY <1>2, <1>3, <1>4, <1>5, FillKept
<1>8. CacheCoherent' BY CoherentKept
<1>9. WayKnown' BY WayKnownKept
<1>10. Listed' BY <1>4, ListedKept
<1> QED BY <1>2, <1>3, <1>4, <1>5, <1>6, <1>7, <1>8, <1>9, <1>10 DEF IInv

\* So does a step in which nothing changes.
LEMMA InvariantStutter == IInv /\ UNCHANGED vars => IInv'
<1> SUFFICES ASSUME IInv, UNCHANGED vars PROVE IInv'
  OBVIOUS
<1> USE DEF vars, cache_vars, IInv
<1>1. TypeOK' BY DEF TypeOK
<1>2. RequestKnown' BY DEF RequestKnown
<1>3. Owned' BY DEF Owned
<1>4. Waits' BY DEF Waits
<1>5. OnBus' BY DEF OnBus, Holds
<1>6. FillSound' BY DEF FillSound, Holds, Replaced
<1>7. CacheCoherent'
  <2>1. SUFFICES ASSUME NEW x \in invalidated, NEW w \in vram[x]
                 PROVE  /\ \A v \in vram[x] \ {w} : tram[x][v] # tram[x][w]
                        /\ Filling(x, w)' \/ LineSound(x, w)
    BY Zenon DEF CacheCoherent, LineSound
  <2>2. /\ \A v \in vram[x] \ {w} : tram[x][v] # tram[x][w]
        /\ Filling(x, w) \/
             \A o \in Cache!Offsets :
               LET a == [tag |-> tram[x][w], index |-> x, offset |-> o]
               IN dram[x][w][o] \in {Word(a, n) : n \in oldest[a] .. memory[a]}
    BY Zenon DEF CacheCoherent
  <2>3. Filling(x, w) => Filling(x, w)'
    BY DEF Filling
  <2> QED BY <2>2, <2>3, Zenon DEF LineSound
<1>8. WayKnown' BY DEF WayKnown, WayHolds
<1>9. Listed' BY DEF Listed
<1> QED BY <1>1, <1>2, <1>3, <1>4, <1>5, <1>6, <1>7, <1>8, <1>9

\* What each register says of the others, of the RAMs and of the words in memory
\* holds in every cycle from reset on, whatever the pipe, the bus and the other
\* masters do.
THEOREM Inductive == Spec => []IInv
<1>1. IInv /\ [Next]_vars => IInv'
  BY StepIsCycled, InvariantStep, InvariantStutter
<1> QED BY <1>1, InitInvariant, PTL DEF Spec

-----------------------------------------------------------------------------
(***************************************************************************)
(* The safety properties.                                                  *)
(***************************************************************************)
\* The word that a fetch is answered with comes from the bus or from a way that
\* holds its block.
LEMMA FetchAnswer == ASSUME IInv PROVE FetchCorrect
<1>1. SUFFICES ASSUME Fetching, Cache!b_request_complete
               PROVE  \E n \in (IF b_request.cacheen THEN oldest[b_request.addr] ELSE asked)
                                 .. memory[b_request.addr] :
                        Cache!b_result_inst = {Word(b_request.addr, n)}
  BY DEF FetchCorrect
<1> DEFINE a == b_request.addr
           least == IF b_request.cacheen THEN oldest[a] ELSE asked
<1>2. /\ a \in Addr /\ memory[a] \in Nat /\ least \in Nat
      /\ ~b_request.mmuen
      /\ b_request.code = "fetch"
  BY <1>1, RequestTyped DEF Fetching, IInv, TypeOK, RequestKnown
<1>3. SUFFICES ASSUME NEW d \in Datum, Holds(d, a, least)
               PROVE  \E n \in least .. memory[a] : d = Word(a, n)
  <2>1. \E d \in Datum : Holds(d, a, least) /\ Cache!b_result_inst = {d}
    <3>1. CASE b_request_state = "uncached_fetch_bus_op"
      <4>1. /\ b_request_granted
            /\ sys_ready
            /\ b_bus_op_state = "fetch"
            /\ b_bus_op_addr = a
            /\ ~b_request.cacheen
        BY <1>1, <1>2, <3>1, Completion DEF IInv, Waits, RequestKnown
      <4>2. sys_data \in Datum /\ Holds(sys_data, a, least)
        BY <4>1, SysDataTyped DEF IInv, OnBus, sys_ready, sys_data, Answered
      <4> QED BY <3>1, <4>2 DEF Cache!b_result_inst
    <3>2. CASE b_request_state = "cached_fetch_fill"
      <4>1. /\ b_request_granted
            /\ sys_ready
            /\ b_bus_op_state \in {"fill_first", "fill"}
            /\ b_bus_op_addr = a
            /\ b_request.cacheen
        BY <1>1, <1>2, <3>2, Completion DEF IInv, Waits, RequestKnown
      <4>2. sys_data \in Datum /\ Holds(sys_data, a, least)
        BY <4>1, SysDataTyped DEF IInv, OnBus, sys_ready, sys_data, Answered
      <4> QED BY <3>2, <4>2 DEF Cache!b_result_inst
    <3>3. CASE b_request_state = "cached_fetch_l1_access"
      <4>1. /\ b_request_granted
            /\ (b_request_tagless \/ Cache!b_request_cache_hit)
            /\ b_request.cacheen
            /\ a.index \in invalidated
            /\ last = a
        BY <1>1, <1>2, <3>3, Completion DEF IInv, RequestKnown
      <4>2. \E w \in vram[a.index] :
              (IF b_request_tagless THEN b_request_way
                ELSE Cache!b_request_cache_way_hit) = {w} /\ tram[a.index][w] = a.tag
        <5>1. CASE b_request_tagless
          <6>1. WayHolds(b_request_way, a) /\ b_bus_op_state \notin Filled
            BY <1>1, <1>2, <3>3, <4>1, <5>1, NoRequestAssumption
               DEF IInv, WayKnown, Owned, Compares, Fetching
          <6> QED BY <5>1, <6>1 DEF WayHolds
        <5>2. CASE ~b_request_tagless
          BY <3>3, <4>1, <5>2, HitIsOne
        <5> QED BY <5>1, <5>2
      <4>3. PICK w \in vram[a.index] :
              (IF b_request_tagless THEN b_request_way
                ELSE Cache!b_request_cache_way_hit) = {w} /\ tram[a.index][w] = a.tag
        BY <4>2
      <4>4. /\ a = [tag |-> tram[a.index][w], index |-> a.index, offset |-> a.offset]
            /\ a.offset \in Cache!Offsets
        BY <1>2, <4>3 DEF Addr, Cache!Addr
      <4>5. ~Filling(a.index, w)
        BY <3>3, <4>1 DEF Filling, IInv, Owned, Compares, Filled
      <4>6. /\ dram[a.index][w][a.offset] \in Datum
            /\ Holds(dram[a.index][w][a.offset], a, oldest[a])
        BY <4>1, <4>3, <4>4, <4>5, Fresh
      <4>7. Cache!b_result_inst = {dram[a.index][w][a.offset]}
        BY <3>3, <4>3 DEF Cache!b_result_inst, Cache!b_cache_read_data
      <4> QED BY <4>1, <4>6, <4>7
    <3> QED BY <1>1, <1>2, <3>1, <3>2, <3>3, CodeKnown, Completion
  <2> HIDE DEF least
  <2>2. PICK d \in Datum : Holds(d, a, least) /\ Cache!b_result_inst = {d}
    BY <2>1
  <2>3. ASSUME \E n \in least .. memory[a] : d = Word(a, n)
        PROVE  \E n \in least .. memory[a] : Cache!b_result_inst = {Word(a, n)}
    BY <2>2, <2>3
  <2> QED BY <2>2, <2>3 DEF least
<1> HIDE DEF least
<1>4. d = Word(a, d.number) /\ d.number \in least .. memory[a]
  BY <1>2, <1>3 DEF Holds, Datum, Word
<1> QED BY <1>4

\* A fetch that the MMU lets through is answered with the word of its own address,
\* one not older than the last invalidation of its set or, past the cache, than
\* the request.
THEOREM FetchIsCorrect == Spec => []FetchCorrect
BY Inductive, FetchAnswer, PTL

\* Whatever was invalidated once holds, in every valid line, the words of the block
\* that the tag of the line names, and holds no block twice.
THEOREM CacheIsCoherent == Spec => []CacheCoherent
<1>1. IInv => CacheCoherent
  BY DEF IInv
<1> QED BY <1>1, Inductive, PTL

\* The types of the registers, RAMs and wires.
THEOREM TypeCorrect == Spec => []TypeOK
<1>1. IInv => TypeOK
  BY DEF IInv
<1> QED BY <1>1, Inductive, PTL

\* The way remembered from the word before is the way a comparison would find.
LEMMA TaglessWay == ASSUME IInv PROVE TaglessSound
<1>1. SUFFICES ASSUME Fetching, b_request_state = "cached_fetch_l1_access", b_request_tagless,
                        b_request_granted
               PROVE Cache!b_request_cache_way_hit = b_request_way /\ b_request_way # {}
  BY DEF TaglessSound
<1>2. b_request.addr \in Addr /\ last = b_request.addr /\ last # NoRequest
  BY <1>1, RequestTyped, NoRequestAssumption DEF IInv, RequestKnown, Fetching
<1>3. WayHolds(b_request_way, b_request.addr) /\ b_bus_op_state \notin Filled
  BY <1>1, <1>2 DEF IInv, WayKnown, Owned, Compares, Fetching
<1>4. PICK w \in vram[b_request.addr.index] :
        /\ b_request_way = {w}
        /\ tram[b_request.addr.index][w] = b_request.addr.tag
  BY <1>3 DEF WayHolds
<1>5. Cache!b_request_cache_hit
  <2>1. Cache!b_cache_index = b_request.addr.index
    BY <1>1 DEF IInv, Owned, Compares, Cache!b_cache_index
  <2> QED
    BY <1>4, <2>1
       DEF Cache!b_request_cache_hit, Cache!b_request_cache_way_hit, Cache!b_vram_rdata
<1>6. w \in Cache!b_request_cache_way_hit
  BY <1>4, <1>1, <1>5, HitIsOne DEF Cache!b_request_cache_way_hit, Cache!b_vram_rdata
<1> QED BY <1>1, <1>4, <1>5, <1>6, HitIsOne

\* A fetch that skips the comparison of tags reads the way in which its word is.
THEOREM TaglessIsSound == Spec => []TaglessSound
BY Inductive, TaglessWay, PTL

\* A hit and a fill write back one way, for the set whose list was read.
LEMMA ReplaceWay == ASSUME IInv PROVE ReplaceFresh
<1>1. SUFFICES ASSUME ~faulted, Cache!b_replace_we
               PROVE  (\E w : Cache!b_replace_wway = {w}) /\ Cache!b_replace_windex = listed
  BY FS_Singleton DEF ReplaceFresh
<1>2. CASE b_cache_owner = "request" /\ b_request_state = "cached_fetch_l1_access"
  <2>1. b_request_granted /\ ~b_request.mmuen /\ b_request.code = "fetch"
    BY <1>1, <1>2, CodeKnown DEF IInv, Owned, RequestKnown
  <2>2. Cache!b_replace_windex = listed
    BY <1>2 DEF IInv, Listed, Cache!b_replace_windex, Cache!b_cache_index
  <2>3. CASE b_request_tagless
    <3>1. last = b_request.addr /\ last # NoRequest
      BY <1>2, <2>1, RequestTyped, NoRequestAssumption DEF IInv, RequestKnown
    <3>2. WayHolds(b_request_way, last) /\ b_bus_op_state \notin Filled
      BY <1>1, <1>2, <2>3, <3>1 DEF IInv, WayKnown, Owned
    <3> QED
      BY <1>2, <2>1, <2>2, <2>3, <3>2
         DEF WayHolds, Cache!b_replace_wway, Cache!b_request_mmu_error
  <2>4. CASE ~b_request_tagless
    <3>1. Cache!b_replace_wway = Cache!b_request_cache_way_hit /\ Cache!b_request_cache_hit
      BY <1>1, <1>2, <2>1, <2>4
         DEF Cache!b_replace_we, Cache!b_replace_wway, Cache!b_request_mmu_error,
             Cache!b_request_cache_hit
    <3> QED BY <1>2, <2>1, <2>2, <3>1, HitIsOne
  <2> QED BY <2>3, <2>4
<1>3. CASE b_cache_owner = "bus_op" /\ b_bus_op_state = "fill_last"
  <2>1. Cache!b_replace_wway = b_bus_op_way /\ \E w \in Ways : b_bus_op_way = {w}
    BY <1>3 DEF IInv, FillSound, Filled, Cache!b_replace_wway
  <2>2. Cache!b_replace_windex = listed
    BY <1>3 DEF IInv, Listed, Cache!b_replace_windex, Cache!b_cache_index
  <2> QED BY <2>1, <2>2
<1> QED BY <1>1, <1>2, <1>3 DEF Cache!b_replace_we, Cache!b_replace_wway

\* The replacement policy is told of one way, with the list of the same set.
THEOREM ReplaceIsFresh == Spec => []ReplaceFresh
BY Inductive, ReplaceWay, PTL

\* Cache and bus belong to whoever is using them, and a request that waits for a
\* fill waits for the beat that is on the bus.
THEOREM OwnershipHolds == Spec => []Ownership
<1>1. IInv => Ownership
  BY DEF IInv, Owned, Waits, OnBus, Ownership, Filled
<1> QED BY <1>1, Inductive, PTL

\* The next beat is on the port in the cycle that ends the beat before it.

LEMMA BurstGoesOn ==
  ASSUME IInv, NEW i, NEW victim, Cycled(i, victim)
  PROVE  BurstStep
<1>1. SUFFICES ASSUME Answered, port.req.burst
               PROVE /\ port' # NoRequest
                     /\ port'.req.addr = Cache!next_in_block(port.req.addr)
  BY DEF BurstStep
<1>2. /\ sys_ready /\ b_bus_op_state \in {"fill_first", "fill"} /\
           b_bus_op_block_inst # BlockInsts - 1
      /\ port.req.addr = b_bus_op_addr
  BY <1>1 DEF IInv, TypeOK, OnBus, Answered, sys_ready, Cache!BusOpStates
<1>3. /\ Input(i)
      /\ b_bus_op_state' = Cache!a_bus_op_state(i)
      /\ b_bus_op_addr' = Cache!a_bus_op_addr(i)
  BY DEF Cycled, Cache!Clock, Cache!Registers
<1>4. b_bus_op_state' = "fill" /\ b_bus_op_addr' = Cache!next_in_block(b_bus_op_addr)
  BY <1>2, <1>3, BusOpStep, OpComplete, AddrStep
<1>5. OnBus'
  BY InvariantStep DEF IInv
<1> QED BY <1>2, <1>4, <1>5 DEF OnBus

\* The cache keeps the rule of the bus for bursts.
THEOREM BurstsGoOn == Spec => BurstRule
<1>1. IInv /\ [Next]_vars => [BurstStep]_vars
  BY StepIsCycled, BurstGoesOn
<1> QED BY <1>1, Inductive, PTL DEF Spec, BurstRule
=============================================================================
