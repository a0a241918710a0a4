----------------------------- MODULE DataAccess -----------------------------
(***************************************************************************)
(* The data side: the load and store port of the pipe, the data cache and  *)
(* the bus.  One step is one clock cycle.                                  *)
(*                                                                         *)
(* Of the pipe (cpu_or1knd_i5_pipe_ctrl-rtl.vhdl) there is what the cache  *)
(* relies on: one request at a time, policies that are fixed when the      *)
(* hardware is built, and software that uses the cache as the OpenRISC     *)
(* architecture asks: it invalidates a set after reset before it accesses  *)
(* it through the cache, does not access past the cache what it has        *)
(* accessed through it, and writes back blocks of sets in use only.  Of    *)
(* the bus there is what SysBusSpec promises to one master.                *)
(***************************************************************************)
EXTENDS Integers, FiniteSets

CONSTANTS
  Ways, Tags, Indexes, BlockWords, Accesses, StbEntries, Values,
  Noise, NoEntry, NoRequest,
  Systems,   \* how the hardware may be built: records of writethrough and
             \* write_alloc, and with them bounds on what software does: the
             \* widths of accesses (sets of bytes), the settings mmuens of the
             \* MMU enable bit, the requests of whole blocks or sets, of
             \* "invalidate" and "writeback", and if all_tags is FALSE, only
             \* blocks with the tag of the watched byte
  AllWords   \* bound: if FALSE, the one word of a block that is accessed is
             \* that at the place of the watched byte, but in its own block

VARIABLES
  watched, b_vtram_owner, b_rmdram_owner, b_bus_op_owner,
  b_request, b_request_state, b_request_granted, b_request_way,
  b_bus_op_state, b_bus_op_way, b_bus_op_granted, b_bus_op_requested,
  b_bus_op_block_word, b_bus_op_paddr,
  b_stb_state, b_stb_way, b_stb_write_cache, b_stb_write_bus,
  b_stb_head_ptr, b_stb_tail_ptr, b_stb_array,
  vram, mram, tram, dram,  \* the cache
  memory,    \* the watched byte in memory
  port,      \* the port of the bus: NoRequest, or a request and its answer
  system,    \* the member of Systems
  expected,  \* what a load of the watched byte should give
  used,      \* set by set, what software has done with it since reset
  listed     \* the set the replacement policy read in the last cycle, if any

cache_vars == <<watched, b_vtram_owner, b_rmdram_owner, b_bus_op_owner,
                b_request, b_request_state, b_request_granted, b_request_way,
                b_bus_op_state, b_bus_op_way, b_bus_op_granted,
                b_bus_op_requested, b_bus_op_block_word, b_bus_op_paddr,
                b_stb_state, b_stb_way, b_stb_write_cache, b_stb_write_bus,
                b_stb_head_ptr, b_stb_tail_ptr, b_stb_array,
                vram, mram, tram, dram>>
vars == <<cache_vars, memory, port, system, expected, used, listed>>

-----------------------------------------------------------------------------
(***************************************************************************)
(* The wires.                                                              *)
(***************************************************************************)
Answered == port # NoRequest /\ port.done
sys_ready == port # NoRequest => port.done
sys_data == IF Answered THEN port.data ELSE Noise
sys_error == FALSE  \* no slave of the system answers with an error

Cache == INSTANCE L1MemDataCache
Addr == Cache!Addr

Init ==
  /\ Cache!Init
  /\ memory \in Values
  /\ port = NoRequest
  /\ system \in Systems
  /\ watched.byte \in UNION system.widths
  /\ expected = memory
  /\ used = [x \in Indexes |-> "unknown"]
  /\ listed = NoRequest

-----------------------------------------------------------------------------
(***************************************************************************)
(* The pipe.                                                               *)
(***************************************************************************)
Touched == {a \in Addr : system.all_tags \/ a.tag = watched.addr.tag}
Reached ==
  {a \in Touched : AllWords \/ a.tag = watched.addr.tag \/ Cache!SamePlace(a)}
Loads ==
  [code : {"load"}, addr : Reached, bytes : system.widths, cacheen : BOOLEAN,
   mmuen : system.mmuens, alloc : {TRUE}, writethrough : {system.writethrough}]
\* A store changes the watched byte: one that does not could hide an error.
Stores ==
  {s \in [code : {"store"}, addr : Reached, bytes : system.widths, cacheen : BOOLEAN,
          mmuen : system.mmuens, alloc : {system.write_alloc},
          writethrough : {system.writethrough},
          data : (Values \cup {Noise}) \ {expected}] :
     s.data = Noise <=> ~Cache!Covers(s.addr, s.bytes)}
\* An access past the cache does not follow one through it.
PipeAccesses == {a \in Loads \cup Stores :
                used[a.addr.index] \in (IF a.cacheen THEN {"invalidated", "used"}
                                        ELSE {"unknown", "invalidated"})}
Invalidates ==
  [code : {"invalidate"} \cap system.requests, addr : {a \in Touched : a.offset = 0}]
Writebacks ==
  [code : {"writeback"} \cap system.requests, addr : {a \in Touched : used[a.index] = "used"},
   mmuen : system.mmuens]
PipeRequests ==
  PipeAccesses \cup Invalidates \cup Writebacks \cup {[code |-> "none"]}

\* What a load of the watched byte should give, once the cache has taken i and
\* an invalidation has completed: the value last stored, unless the set that
\* held it was invalidated since.
WatchedStored(i) ==
  i.code = "store" /\ ~i.mmuen /\ Cache!Covers(i.addr, i.bytes)
Invalidated ==
  /\ b_request_state = "invalidate_l1_access"
  /\ Cache!b_request_complete
InvalidatedWatched ==
  Invalidated /\ b_request.addr.index = watched.addr.index

History(i) ==
  /\ expected' = IF WatchedStored(i) THEN i.data
                 ELSE IF InvalidatedWatched THEN memory'
                 ELSE expected
  /\ used' = [x \in Indexes |->
                IF i.code \in {"load", "store"} /\ i.cacheen /\ x = i.addr.index
                THEN "used"
                ELSE IF Invalidated /\ x = b_request.addr.index THEN "invalidated"
                ELSE used[x]]

-----------------------------------------------------------------------------
(***************************************************************************)
(* The bus: what happens to the request q that is on the port.             *)
(***************************************************************************)
BusIdle(q) == q = NoRequest /\ port' = NoRequest /\ UNCHANGED memory
BusWait(q) ==
  q # NoRequest /\ port' = [req |-> q, done |-> FALSE] /\ UNCHANGED memory
BusAnswer(q) ==
  /\ q # NoRequest
  /\ IF q.write
     THEN /\ memory' = IF Cache!Covers(q.addr, q.bytes) THEN q.data ELSE memory
          /\ port' = [req |-> q, done |-> TRUE, data |-> Noise]
     ELSE /\ port' = [req |-> q, done |-> TRUE,
                      data |-> IF q.addr = watched.addr THEN memory ELSE Noise]
          /\ UNCHANGED memory
Bus(q) == BusIdle(q) \/ BusWait(q) \/ BusAnswer(q)

-----------------------------------------------------------------------------
\* The way the replacement policy offers, when it is looked at.
Victims ==
  IF \/ b_request_state = "cached_load_l1_access" /\ b_request_granted
     \/ b_stb_state = "replace_access"
  THEN Cache!b_replace_ways ELSE {NoRequest}

Cycle(i) ==
  /\ \E victim \in Victims : Cache!Clock(i, victim)
  /\ listed' = IF Cache!a_replace_re THEN Cache!a_replace_rindex ELSE NoRequest
  /\ Bus(IF sys_ready THEN Cache!sys_master_out ELSE port.req)
  /\ UNCHANGED system

\* The cache takes what the pipe drives, or goes on with what it has.
Accept == \E i \in PipeRequests : b_request' = i /\ Cycle(i) /\ History(i)
Continue == Cycle(b_request) /\ UNCHANGED <<expected, used>>

Next == IF Cache!b_request_complete THEN Accept ELSE Continue

\* The clock does not stop.
Spec == Init /\ [][Next]_vars /\ WF_vars(Next)
-----------------------------------------------------------------------------
(***************************************************************************)
(* Where the watched byte is.                                              *)
(***************************************************************************)
\* Way w of set x is being overwritten.
Filling(x, w) ==
  /\ b_bus_op_state \in {"fill_first", "fill", "fill_last"}
  /\ b_bus_op_paddr.index = x
  /\ w \in b_bus_op_way

\* The slots of the store buffer from the oldest on.
Age(n) == (n - b_stb_head_ptr) % StbEntries
Entry(n) == b_stb_array[n]
WatchedEntries ==
  {n \in Cache!b_stb_valid : Cache!Covers(Entry(n).addr, Entry(n).bytes)}
WatchedLines ==
  {w \in vram[watched.addr.index] :
     /\ used[watched.addr.index] # "unknown"
     /\ tram[watched.addr.index][w] = watched.addr.tag
     /\ ~Filling(watched.addr.index, w)}

\* The newest value: in the store buffer, else in the cache, else in memory.
Latest ==
  IF WatchedEntries # {}
  THEN Entry(CHOOSE n \in WatchedEntries :
               \A m \in WatchedEntries : Age(m) <= Age(n)).data
  ELSE IF WatchedLines # {} THEN dram[CHOOSE w \in WatchedLines : TRUE]
  ELSE memory

-----------------------------------------------------------------------------
(***************************************************************************)
(* Safety.                                                                 *)
(***************************************************************************)
Accepted ==
  [code : {"load"}, addr : Addr, bytes : Accesses, cacheen : BOOLEAN,
   mmuen : BOOLEAN, alloc : {TRUE}, writethrough : BOOLEAN]
    \cup [code : {"store"}, addr : Addr, bytes : Accesses, cacheen : BOOLEAN,
          mmuen : BOOLEAN, alloc : BOOLEAN, writethrough : BOOLEAN, data : Cache!Data]
    \cup [code : {"invalidate"}, addr : Addr]
    \cup [code : {"writeback"}, addr : Addr, mmuen : BOOLEAN]
    \cup [code : {"none"}]
StbEntry ==
  [addr : Addr, bytes : Accesses, alloc : BOOLEAN, writethrough : BOOLEAN,
   cache_hit : BOOLEAN, way : SUBSET Ways, data : Cache!Data]
BusRequest ==
  [write : {FALSE}, burst : BOOLEAN, addr : Addr]
    \cup [write : {TRUE}, burst : BOOLEAN, addr : Addr, bytes : SUBSET Cache!Bytes,
          data : Cache!Data]
Ports ==
  [req : BusRequest, done : {FALSE}]
    \cup [req : BusRequest, done : {TRUE}, data : Cache!Data]

\* A block has two words or more, the store buffer a slot.
ASSUME SizeAssumption ==
  /\ BlockWords \in Nat /\ BlockWords >= 2
  /\ StbEntries \in Nat /\ StbEntries >= 1
\* What stands for nothing is nothing else.
ASSUME NothingAssumption ==
  /\ NoRequest \notin Addr \cup BusRequest \cup Ports
  /\ NoEntry \notin StbEntry
  /\ Noise \notin Values
\* How the hardware is built, and what software does with it.
ASSUME SystemAssumption ==
  \A s \in Systems :
    /\ s.writethrough \in BOOLEAN /\ s.write_alloc \in BOOLEAN
    /\ s.widths \subseteq Accesses /\ s.mmuens \subseteq BOOLEAN

\* Types of the registers and RAMs of the cache, of the port and of the history.
TypeOK ==
  /\ watched \in [addr : Addr, byte : Cache!Bytes]
  /\ b_vtram_owner \in Cache!Owners
  /\ b_rmdram_owner \in Cache!Owners
  /\ b_bus_op_owner \in Cache!Owners
  /\ b_request \in Accepted
  /\ b_request_state \in Cache!RequestStates
  /\ {b_request_granted, b_bus_op_granted, b_bus_op_requested,
      b_stb_write_cache, b_stb_write_bus} \subseteq BOOLEAN
  /\ b_request_way \subseteq Ways
  /\ b_bus_op_state \in Cache!BusOpStates
  /\ b_bus_op_way \subseteq Ways
  /\ b_bus_op_block_word \in Cache!Offsets
  /\ b_bus_op_paddr \in Addr \cup {NoRequest}
  /\ b_stb_state \in Cache!StbStates
  /\ b_stb_way \subseteq Ways
  /\ b_stb_head_ptr \in Cache!Slots /\ b_stb_tail_ptr \in Cache!Slots
  /\ b_stb_array \in [Cache!Slots -> StbEntry \cup {NoEntry}]
  /\ vram \in [Indexes -> SUBSET Ways]
  /\ mram \in [Indexes -> SUBSET Ways]
  /\ tram \in [Indexes -> [Ways -> Tags]]
  /\ dram \in [Ways -> Cache!Data]
  /\ memory \in Cache!Data /\ expected \in Cache!Data
  /\ port \in Ports \cup {NoRequest}
  /\ system \in Systems
  /\ used \in [Indexes -> {"unknown", "invalidated", "used"}]
  /\ listed \in Indexes \cup {NoRequest}

\* No store is lost, and none is overtaken: unless a store of it is still on
\* its way into the buffer or to the bus, the newest copy of the watched byte
\* is the value stored last.
Pending ==
  \/ b_request_state # "none" /\ WatchedStored(b_request)
  \/ b_request_state = "invalidate_l1_access"
LatestKept == Pending \/ Latest = expected

\* What a load of the watched byte answers is the value stored last.  The
\* store buffer is to hold no more than one entry with exactly the bytes of the
\* load and none with other bytes of the word: the cache does not wait for
\* such entries to be written.
LoadAnswered ==
  /\ b_request.code = "load"
  /\ b_request_state # "none"
  /\ ~b_request.mmuen
  /\ Cache!b_request_complete
  /\ Cache!Covers(b_request.addr, b_request.bytes)
LoadCorrect ==
  /\ LoadAnswered
  /\ Cardinality(Cache!b_request_stb_array_hit) <= 1
  /\ ~Cache!b_request_stb_conflict
  => Cache!b_result_data = expected

\* A line that is valid and not dirty is what memory holds, so that it may be
\* dropped.  (A store writes the data RAM one cycle before the dirty bit.)
CleanIsStored ==
  \A w \in WatchedLines \ mram[watched.addr.index] :
    dram[w] = memory \/ (b_rmdram_owner = "stb" /\ b_stb_state = "write")

\* No block is in two ways, so that a hit is one way.
HitsAreUnique ==
  \A x \in {x \in Indexes : used[x] # "unknown"} : \A v, w \in vram[x] :
    v # w /\ ~Filling(x, v) /\ ~Filling(x, w) => tram[x][v] # tram[x][w]

\* An entry of the store buffer knows whether its line is in the cache, and in
\* which way, although lines come and go between the store and the write.
StbTracksCache ==
  b_bus_op_state \notin {"fill_first", "fill", "fill_last"} =>
    \A n \in Cache!b_stb_valid :
      LET hit == {w \in vram[Entry(n).addr.index] :
                    tram[Entry(n).addr.index][w] = Entry(n).addr.tag}
      IN /\ Entry(n).cache_hit <=> hit # {}
         /\ Entry(n).cache_hit => Entry(n).way = hit

\* The valid slots are those from head to tail, and the slot that is processed
\* is one of them.
RingOrder ==
  /\ Cache!b_stb_valid =
       {n \in Cache!Slots :
          \/ Age(n) < (b_stb_tail_ptr - b_stb_head_ptr) % StbEntries
          \/ b_stb_tail_ptr = b_stb_head_ptr /\ ~Cache!b_stb_empty}
  /\ b_stb_state # "init" => Cache!b_stb_head # NoEntry

\* The owners of the RAMs and of the bus agree with what the three parts of
\* the cache do.  The tag of a victim is still on the output of the tag RAM
\* when its write-back starts.
Ownership ==
  /\ b_bus_op_owner = "none" <=>
       b_bus_op_state = "none" /\ b_stb_state # "replace_access"
  /\ b_bus_op_state \in {"fill_first", "fill", "fill_last"} =>
       b_bus_op_granted /\ b_vtram_owner = "bus_op"
  /\ b_bus_op_state \notin {"none", "load", "store"} =>
       b_rmdram_owner = "bus_op"
  /\ b_bus_op_state # "none" => b_bus_op_requested
  /\ b_request_state = "cached_load_writeback" /\ ~b_request_granted =>
       b_vtram_owner = "none"

\* A store that is let through to the store buffer finds room there: the room
\* was promised (quick store) when the store was taken.
QuickStore ==
  /\ b_request_state = "cached_store_l1_access"
  /\ b_request_granted
  => Cache!b_stb_can_push \/ Cache!b_request_stb_can_combine

\* An entry that has to go to memory leaves the store buffer in the cycle in
\* which the bus answers its own store.
StoreReachesMemory ==
  Cache!b_stb_pop /\ b_stb_write_bus =>
    /\ Answered
    /\ port.req.write
    /\ port.req.addr = Cache!b_stb_head.addr
    /\ port.req.bytes = Cache!b_stb_head.bytes
    /\ port.req.data = Cache!b_stb_head.data

\* What is written back to the replacement policy is for the set whose list
\* was read in the cycle before.  The store buffer is left out: it writes the
\* list when it writes the cache, and does not read it then.
ReplaceFresh ==
  Cache!b_replace_we /\ b_rmdram_owner # "stb" =>
    /\ Cardinality(Cache!b_replace_wway) = 1
    /\ Cache!b_replace_windex = listed

\* The rule of the bus: in the cycle that completes a beat of a burst but the
\* last, the cache drives the next beat.
BurstStep ==
  Answered /\ port.req.burst =>
    /\ port' # NoRequest
    /\ port'.req.write = port.req.write
    /\ port'.req.addr = Cache!next_in_block(port.req.addr)
BurstRule == [][BurstStep]_vars

\* What an assertion of the cache says of the data RAM: the ways that are read
\* for a write-back are not 'X'.
DramBankenValid ==
  b_rmdram_owner = "bus_op" /\ b_bus_op_state = "writeback_first" =>
    b_bus_op_way # {}

(***************************************************************************)
(* Liveness.                                                               *)
(***************************************************************************)
\* Whatever the pipe asks is answered, if the bus never leaves the cache
\* waiting for ever.
Completes ==
  []<>sys_ready => (b_request_state # "none" ~> Cache!b_request_complete)

\* When the pipe asks for nothing more, the stores that are buffered leave.
Drains ==
  []<>sys_ready =>
    (<>[](b_request_state = "none") => <>[]Cache!b_stb_empty)

(***************************************************************************)
(* The inductive invariant of the control.                                 *)
(***************************************************************************)
WantsVtram == {"cached_load_l1_access", "cached_store_l1_access",
               "invalidate_l1_access", "writeback_l1_access"}
WantsRmdram == WantsVtram \ {"cached_store_l1_access"}
WantsBus == {"uncached_load_bus_op", "uncached_store_bus_op", "cached_load_writeback",
             "cached_load_fill", "writeback_bus_op"}
FillStates == {"fill_first", "fill", "fill_last"}
WritebackStates == {"writeback_first", "writeback", "writeback_last"}
ReplaceStates == {"replace_access", "writeback", "fill"}

\* The request belongs to its state.
RequestKnown ==
  /\ b_request_state = "none" <=> b_request.code = "none"
  /\ b_request_state \in {"invalidate_sync", "invalidate_l1_access"}
       <=> b_request.code = "invalidate"
  /\ b_request_state \in {"writeback_l1_access", "writeback_bus_op"}
       <=> b_request.code = "writeback"
  /\ b_request_state \in {"uncached_load_mmu_access", "uncached_load_bus_op"}
       <=> b_request.code = "load" /\ ~b_request.cacheen
  /\ b_request_state \in {"cached_load_l1_access", "cached_load_writeback", "cached_load_fill"}
       <=> b_request.code = "load" /\ b_request.cacheen
  /\ b_request_state \in {"uncached_store_mmu_access", "uncached_store_bus_op"}
       <=> b_request.code = "store" /\ ~b_request.cacheen
  /\ b_request_state \in {"cached_store_stb_wait", "cached_store_l1_access"}
       <=> b_request.code = "store" /\ b_request.cacheen
  /\ b_request_state \in WantsBus => b_request.code = "writeback" \/ ~b_request.mmuen

\* Who owns the RAMs and the bus.
Owned ==
  /\ b_vtram_owner = "request" <=> b_request_granted /\ b_request_state \in WantsVtram
  /\ b_rmdram_owner = "request" <=> b_request_granted /\ b_request_state \in WantsRmdram
  /\ b_bus_op_owner = "request" <=> b_request_granted /\ b_request_state \in WantsBus
  /\ b_vtram_owner = "stb" <=> b_stb_state = "replace_access"
  /\ b_rmdram_owner = "stb" <=>
       b_stb_state = "replace_access" \/ (b_stb_state = "write" /\ b_stb_write_cache)
  /\ b_bus_op_owner = "stb" <=>
       b_stb_state \in ReplaceStates \/ (b_stb_state = "write" /\ b_stb_write_bus)
  /\ b_vtram_owner = "bus_op" <=> b_bus_op_state \in FillStates \cup WritebackStates
  /\ b_rmdram_owner = "bus_op" <=> b_bus_op_state \in FillStates \cup WritebackStates

\* What the owner of the bus does with it.
BusUse ==
  /\ b_bus_op_owner = "none" => b_bus_op_state = "none"
  /\ b_bus_op_owner = "bus_op" => b_bus_op_state \in {"fill", "fill_last"}
  /\ b_bus_op_owner = "request" =>
       /\ b_request_state = "uncached_load_bus_op" => b_bus_op_state = "load"
       /\ b_request_state = "uncached_store_bus_op" => b_bus_op_state = "store"
       /\ b_request_state = "cached_load_fill" => b_bus_op_state \in {"fill_first", "fill"}
       /\ b_request_state \in {"cached_load_writeback", "writeback_bus_op"} =>
            b_bus_op_state \in WritebackStates
  /\ b_bus_op_owner = "stb" =>
       /\ b_stb_state = "replace_access" => b_bus_op_state = "none"
       /\ b_stb_state = "writeback" => b_bus_op_state \in WritebackStates
       /\ b_stb_state = "fill" => b_bus_op_state \in FillStates
       /\ b_stb_state = "write" => b_bus_op_state = "store"
  /\ b_bus_op_state # "none" => b_bus_op_granted
  /\ b_bus_op_state \in {"none", "load", "store", "fill_first", "fill_last",
                         "writeback_first", "writeback_last"} => b_bus_op_block_word = 0
  /\ b_bus_op_state # "none" => b_bus_op_requested

\* A request that waits for the bus, having looked at the cache, waits for a store
\* to leave that leaves the RAMs alone: it may use them at once.
RequestWaits ==
  /\ b_request_state \in {"cached_load_writeback", "cached_load_fill",
                         "writeback_bus_op"} /\ ~b_request_granted =>
       b_stb_state = "write" /\ b_stb_write_bus /\ ~b_stb_write_cache
  /\ b_request_state \in {"cached_load_writeback", "cached_load_fill"} =>
       \E w \in Ways : b_request_way = {w}
  /\ b_stb_state \in {"writeback", "fill"} => \E w \in Ways : b_stb_way = {w}

\* What the store buffer does is with the entry at its head.
HeadKnown ==
  /\ b_stb_state # "init" => Cache!b_stb_head # NoEntry
  /\ b_stb_state \in ReplaceStates => b_stb_write_cache
  /\ b_stb_state \in ReplaceStates /\ b_stb_write_bus => Cache!b_stb_head.writethrough
  /\ b_stb_state = "write" /\ b_stb_write_bus =>
        Cache!b_stb_head.writethrough \/ ~Cache!b_stb_head.cache_hit
\* A store that waits for the cache has room in the store buffer.
Room ==
  b_request_state = "cached_store_l1_access" =>
    ~Cache!b_stb_full \/ (b_stb_state = "write" /\ ~b_stb_write_bus)

\* What is on the port.
Carries(req, entry) ==
  req.addr = entry.addr /\ req.bytes = entry.bytes /\ req.data = entry.data
OnBus ==
  /\ b_bus_op_state = "none" \/ b_bus_op_paddr \in Addr
  /\ b_bus_op_state \in {"none", "fill_last", "writeback_first"} => port = NoRequest
  /\ b_bus_op_state \in {"load", "fill_first", "fill"} =>
       /\ port # NoRequest
       /\ ~port.req.write
       /\ port.req.addr = b_bus_op_paddr
       /\ port.req.burst <=> b_bus_op_state # "load" /\ b_bus_op_block_word # BlockWords - 1
  /\ b_bus_op_state = "store" =>
       /\ port # NoRequest
       /\ port.req.write
       /\ ~port.req.burst
       /\ IF b_bus_op_owner = "stb" THEN Carries(port.req, Cache!b_stb_head)
          ELSE Carries(port.req, b_request)
  /\ b_bus_op_state \in {"writeback", "writeback_last"} =>
       /\ port # NoRequest
       /\ port.req.write
       /\ port.req.burst <=> b_bus_op_state = "writeback"
       /\ b_bus_op_paddr = Cache!next_in_block(port.req.addr)

\* The list that the replacement policy has on its output.
Listed ==
  /\ b_rmdram_owner = "request" /\ b_request_state # "writeback_l1_access" =>
       listed = b_request.addr.index
  /\ b_bus_op_state = "fill_last" => listed = b_bus_op_paddr.index

CInv ==
  /\ TypeOK
  /\ RequestKnown
  /\ Owned
  /\ BusUse
  /\ RequestWaits
  /\ HeadKnown
  /\ Room
  /\ RingOrder
  /\ OnBus
  /\ Listed

(***************************************************************************)
(* The inductive invariant of the tags.                                    *)
(***************************************************************************)
\* The ways of set x that hold the block of a fill as far as it has come: the
\* tag RAM does not yet say what is in them, or has just been told.
Refilled(x) ==
  IF b_bus_op_state \in {"fill", "fill_last"} /\ b_bus_op_paddr.index = x
  THEN b_bus_op_way ELSE {}
Lines(a) == {w \in vram[a.index] : tram[a.index][w] = a.tag}

\* A set is invalidated when nothing of the cache is in use.
InvalidatesAlone ==
  b_request_state = "invalidate_l1_access" =>
    Cache!b_stb_empty /\ b_bus_op_state = "none"

\* Sets are in use that the request or the store buffer looks up.
InUse ==
  /\ b_request.code \in {"load", "store"} /\ b_request.cacheen =>
       used[b_request.addr.index] = "used"
  /\ \A n \in Cache!b_stb_valid : used[Entry(n).addr.index] = "used"

LinesDiffer ==
  \A x \in {x \in Indexes : used[x] # "unknown"} : \A v, w \in vram[x] \ Refilled(x) :
    v # w => tram[x][v] # tram[x][w]

\* A block is filled into one way, and is in no other.
FillKnown ==
  b_bus_op_state \in FillStates =>
    \E w \in Ways :
      /\ b_bus_op_way = {w}
      /\ Lines(b_bus_op_paddr) \subseteq {w}
      /\ b_bus_op_state = "fill_last" =>
           tram[b_bus_op_paddr.index][w] = b_bus_op_paddr.tag

\* A block that is to be filled is not there.
MissKnown ==
  /\ \/ b_request_state = "cached_load_writeback"
     \/ b_request_state = "cached_load_fill" /\ ~b_request_granted
     => Lines(b_request.addr) = {}
  /\ b_stb_state \in {"replace_access", "writeback"} => ~Cache!b_stb_head.cache_hit

\* An entry of the store buffer knows its line, but for the way of a fill.
EntriesTrack ==
  \A n \in Cache!b_stb_valid :
    LET hit == Lines(Entry(n).addr) \ Refilled(Entry(n).addr.index)
    IN /\ Entry(n).cache_hit <=> hit # {}
       /\ Entry(n).cache_hit => Entry(n).way = hit

TInv ==
  /\ InvalidatesAlone
  /\ InUse
  /\ LinesDiffer
  /\ FillKnown
  /\ MissKnown
  /\ EntriesTrack

(***************************************************************************)
(* The inductive invariant of the data.                                    *)
(***************************************************************************)
\* What the theorems about data ask of the software: it writes blocks back
\* (requests writeback) only if no store goes to the bus past the cache.
WritebacksAreAlone ==
  \A s \in Systems : "writeback" \in s.requests => ~s.writethrough /\ s.write_alloc

\* The policies are those the hardware is built with, and the store buffer
\* goes by them.
PoliciesKnown ==
  /\ b_request.code \in {"load", "store"} => b_request.writethrough = system.writethrough
  /\ b_request.code = "store" => b_request.alloc = system.write_alloc
  /\ b_request.code = "writeback" => ~system.writethrough /\ system.write_alloc
  /\ \A n \in Cache!b_stb_valid : /\ Entry(n).writethrough = system.writethrough
                                  /\ Entry(n).alloc = system.write_alloc
  /\ b_stb_state # "init" /\ b_stb_write_bus =>
       Cache!b_stb_head.writethrough \/ ~Cache!b_stb_head.alloc
  /\ b_stb_state = "write" =>
       b_stb_write_bus \/ (b_stb_write_cache /\ Cache!b_stb_head.cache_hit)

\* Nothing of a set is in the cache that is not accessed through it.
SetsKnown ==
  /\ b_request.code = "writeback" => used[b_request.addr.index] # "unknown"
  /\ b_request.code \in {"load", "store"} /\ ~b_request.cacheen =>
       used[b_request.addr.index] # "used"
  /\ \A x \in Indexes : used[x] = "invalidated" => vram[x] = {}
  /\ b_bus_op_state \in FillStates \cup WritebackStates => used[b_bus_op_paddr.index] = "used"

\* A bus operation works on the way and at the address it was begun with.
BusOpKnown ==
  /\ b_bus_op_owner = "request" /\ b_request_state \in {"cached_load_writeback", "cached_load_fill"} =>
       b_bus_op_way = b_request_way /\ b_bus_op_paddr.index = b_request.addr.index
  /\ b_bus_op_owner = "request" /\ b_request_state \in {"cached_load_fill", "uncached_load_bus_op"} =>
       b_bus_op_paddr = b_request.addr
  /\ b_stb_state \in {"writeback", "fill"} =>
       b_bus_op_way = b_stb_way /\ b_bus_op_paddr.index = Cache!b_stb_head.addr.index
  /\ b_stb_state = "fill" => b_bus_op_paddr.tag = Cache!b_stb_head.addr.tag

\* A victim that is to be written back is a line, and stays one while it is
\* written; a victim that is not is clean.
VictimKnown ==
  /\ b_request_state = "cached_load_writeback" => b_request_way \subseteq vram[b_request.addr.index]
  /\ b_request_state = "cached_load_fill" /\ ~b_request_granted =>
       b_request_way \cap vram[b_request.addr.index] \cap mram[b_request.addr.index] = {}
  /\ b_bus_op_state \in WritebackStates =>
       \E w \in Lines(b_bus_op_paddr) : b_bus_op_way = {w}

\* The beat of the watched byte is still to come.
OnBlock ==
  b_bus_op_paddr.index = watched.addr.index /\ b_bus_op_paddr.tag = watched.addr.tag
ToCome ==
  /\ b_bus_op_state \notin {"fill_last", "writeback_last"}
  /\ (watched.addr.offset - b_bus_op_paddr.offset) % BlockWords < BlockWords - b_bus_op_block_word

\* Beat by beat, a fill makes its way hold what memory holds, a write-back
\* makes memory hold what its way holds.
BeatsKnown ==
  /\ b_bus_op_state \in FillStates /\ OnBlock /\ ~ToCome =>
       \A w \in b_bus_op_way : dram[w] = memory
  /\ b_bus_op_state \in {"writeback", "writeback_last"} => \A w \in b_bus_op_way :
       /\ port.req.bytes = Cache!Bytes
       /\ Cache!SamePlace(port.req.addr) => port.req.data = dram[w]
       /\ OnBlock /\ ~ToCome => port.req.addr = watched.addr \/ dram[w] = memory

\* What the bus has answered is so.
AnswerKnown ==
  Answered =>
    IF port.req.write
    THEN Cache!Covers(port.req.addr, port.req.bytes) => memory = port.req.data
    ELSE port.data = IF port.req.addr = watched.addr THEN memory ELSE Noise

\* A line that is not dirty may be dropped, unless its dirty bit is on its way.
CleanKnown ==
  \A w \in WatchedLines \ mram[watched.addr.index] :
    \/ dram[w] = memory
    \/ /\ b_rmdram_owner = "stb" /\ b_stb_state = "write"
       /\ Cache!b_stb_head.addr.index = watched.addr.index /\ w \in b_stb_way

\* The store buffer has written the entry at its head to the cache.
HeadWritten ==
  b_stb_state = "write" /\ Cache!b_stb_head.cache_hit =>
    /\ b_stb_way = Cache!b_stb_head.way
    /\ Cache!Covers(Cache!b_stb_head.addr, Cache!b_stb_head.bytes) =>
         \A w \in b_stb_way : dram[w] = Cache!b_stb_head.data

\* A load that is to fill a block has found no store to answer it.
LoadKnown ==
  b_request_state \in {"cached_load_writeback", "cached_load_fill"} => ~Cache!b_request_stb_hit

\* The newest value is what was stored last.
Newest(n) == n \in WatchedEntries /\ \A m \in WatchedEntries : Age(m) <= Age(n)
LatestKnown ==
  /\ WatchedStored(b_request) => b_request.data = expected
  /\ WatchedEntries # {} =>
       \E n \in Cache!Slots : Newest(n) /\ (WatchedStored(b_request) \/ Entry(n).data = expected)
  /\ WatchedEntries = {} /\ ~WatchedStored(b_request) =>
       /\ \A w \in WatchedLines : dram[w] = expected
       /\ WatchedLines = {} => memory = expected

DInv ==
  /\ PoliciesKnown
  /\ SetsKnown
  /\ BusOpKnown
  /\ VictimKnown
  /\ BeatsKnown
  /\ AnswerKnown
  /\ CleanKnown
  /\ HeadWritten
  /\ LoadKnown
  /\ LatestKnown
=============================================================================
