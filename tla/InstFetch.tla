----------------------------- MODULE InstFetch -----------------------------
(***************************************************************************)
(* The instruction side: the pipe's fetch port, the instruction cache and  *)
(* the bus.  One step is one clock cycle.                                  *)
(*                                                                         *)
(* Of the pipe (cpu_or1knd_i5_pipe_ctrl-rtl.vhdl) there is what the cache  *)
(* relies on: it looks at ready in every cycle, asks for the next word     *)
(* with the direction seq only after the word before it, and does not      *)
(* fetch through the cache from a set that software has not invalidated.   *)
(* Of the bus there is what SysBusSpec promises to one master; stores of   *)
(* the other master change the memory at any time.  Word number n of an    *)
(* address is what its n-th store left there.                              *)
(***************************************************************************)
EXTENDS Integers, FiniteSetsExt

CONSTANTS
  Ways, Tags, Indexes, BlockInsts, NoRequest,
  MaxStores,  \* bound: stores to memory
  MmuOffsets  \* bound: where in a block fetches occur with the MMU enabled

VARIABLES
  b_cache_owner, b_bus_op_owner, b_request, b_request_state,
  b_request_granted, b_request_tagless, b_request_way,
  b_bus_op_state, b_bus_op_way, b_bus_op_granted, b_bus_op_requested,
  b_bus_op_block_inst, b_bus_op_addr, vram, tram, dram,  \* the cache
  memory,       \* number of the word at each address
  port,         \* the port of the bus: NoRequest, or a request and its answer
  last,         \* the address of the last fetch the cache took
  faulted,      \* that fetch, or one it follows in sequence, meets an MMU fault
  asked,        \* the word that was in memory when the fetch was taken
  oldest,       \* the words in memory when their set was last invalidated
  invalidated,  \* the sets that software has invalidated since reset
  listed        \* the set the replacement policy read in the last cycle, if any

cache_vars == <<b_cache_owner, b_bus_op_owner, b_request, b_request_state,
                b_request_granted, b_request_tagless, b_request_way,
                b_bus_op_state, b_bus_op_way, b_bus_op_granted,
                b_bus_op_requested, b_bus_op_block_inst, b_bus_op_addr,
                vram, tram, dram>>
vars == <<cache_vars, memory, port, last, faulted, asked, oldest, invalidated,
          listed>>

-----------------------------------------------------------------------------
(***************************************************************************)
(* The wires.                                                              *)
(***************************************************************************)
Word(a, n) == [addr |-> a, number |-> n]
Garbage == [addr |-> NoRequest, number |-> 0]

Answered == port # NoRequest /\ port.done
sys_ready == port # NoRequest => port.done
sys_data == IF Answered THEN port.data ELSE Garbage
sys_error == FALSE  \* no slave of the system answers with an error

Cache == INSTANCE L1MemInstCache
Addr == Cache!Addr

Init ==
  /\ Cache!Init(Garbage)
  /\ memory = [a \in Addr |-> 0]
  /\ port = NoRequest
  /\ last = NoRequest
  /\ faulted = FALSE
  /\ asked = 0
  /\ oldest = [a \in Addr |-> 0]
  /\ invalidated = {}
  /\ listed = NoRequest

-----------------------------------------------------------------------------
(***************************************************************************)
(* The pipe.                                                               *)
(***************************************************************************)
\* The addresses after the last fetch: the next block is any block, pages
\* being contiguous for the pipe and not for the cache.
Following ==
  IF last = NoRequest THEN {}
  ELSE IF Cache!last_in_block(last) THEN {n \in Addr : n.offset = 0}
  ELSE {Cache!next_in_block(last)}

PipeFetch(direction, targets) ==
  {f \in [code : {"fetch"}, seq : {direction}, cacheen : BOOLEAN,
          mmuen : BOOLEAN, alloc : {TRUE}, addr : targets] :
     /\ f.cacheen => f.addr.index \in invalidated
     /\ f.mmuen => f.addr.offset \in MmuOffsets}
PipeFetches == PipeFetch(FALSE, Addr) \cup PipeFetch(TRUE, Following)
PipeRequests == PipeFetches \cup Cache!Invalidates \cup Cache!Nones

\* What the cache takes in this cycle.
Taken(i) ==
  IF i.code = "fetch"
  THEN /\ last' = i.addr
       /\ faulted' = (i.mmuen \/ (i.seq /\ faulted))
       /\ asked' = memory[i.addr]
  ELSE UNCHANGED <<last, faulted, asked>>

\* What is known once an invalidation is over.
Invalidated ==
  IF b_request_state = "invalidate_l1_access" /\ Cache!b_request_complete
  THEN /\ invalidated' = invalidated \cup {b_request.addr.index}
       /\ oldest' = [a \in Addr |-> IF a.index = b_request.addr.index
                                    THEN memory[a] ELSE oldest[a]]
  ELSE UNCHANGED <<invalidated, oldest>>

-----------------------------------------------------------------------------
(***************************************************************************)
(* The bus: what happens to the request q that is on the port.             *)
(***************************************************************************)
Stores ==
  \/ UNCHANGED memory
  \/ /\ Cardinality({s \in Addr \X (1 .. MaxStores) : s[2] <= memory[s[1]]}) < MaxStores
     /\ \E a \in Addr : memory' = [memory EXCEPT ![a] = @ + 1]

BusIdle(q) == q = NoRequest /\ port' = NoRequest /\ Stores
BusWait(q) ==
  q # NoRequest /\ port' = [req |-> q, done |-> FALSE] /\ Stores
BusAnswer(q) ==
  /\ q # NoRequest
  /\ port' = [req |-> q, done |-> TRUE, data |-> Word(q.addr, memory[q.addr])]
  /\ UNCHANGED memory
Bus(q) == BusIdle(q) \/ BusWait(q) \/ BusAnswer(q)

-----------------------------------------------------------------------------
\* The way that is lost if the access under way misses.
Victims ==
  IF b_request_state = "cached_fetch_l1_access" /\ b_request_granted
  THEN Cache!b_replace_way ELSE {NoRequest}

Cycle(i) ==
  /\ \E victim \in Victims : Cache!Clock(i, victim)
  /\ Invalidated
  /\ listed' = IF Cache!a_replace_re(i) THEN Cache!a_replace_rindex(i) ELSE NoRequest
  /\ Bus(IF sys_ready THEN Cache!sys_master_out(i) ELSE port.req)

\* The cache takes what the pipe drives, or goes on with what it has.
Accept == \E i \in PipeRequests : Taken(i) /\ Cycle(i)
Continue == UNCHANGED <<last, faulted, asked>> /\ Cycle(b_request)

Next == IF Cache!b_request_complete THEN Accept ELSE Continue

\* The clock does not stop.
Spec == Init /\ [][Next]_vars /\ WF_vars(Next)

-----------------------------------------------------------------------------
(***************************************************************************)
(* Safety.                                                                 *)
(***************************************************************************)
Datum == [addr : Addr \cup {NoRequest}, number : Nat]
Request == [write : {FALSE}, burst : BOOLEAN, addr : Addr]
Ports == [req : Request, done : {FALSE}]
           \cup [req : Request, done : {TRUE}, data : Datum]

\* A block has two words or more, and NoRequest is nothing else.
ASSUME BlockAssumption == BlockInsts \in Nat /\ BlockInsts >= 2
ASSUME NoRequestAssumption == NoRequest \notin Addr \cup Request \cup Ports

\* Types of the registers and RAMs of the cache, of the port and of the history.
TypeOK ==
  /\ b_cache_owner \in Cache!Owners
  /\ b_bus_op_owner \in Cache!Owners
  /\ b_request \in Cache!Requests
  /\ b_request_state \in Cache!RequestStates
  /\ {b_request_granted, b_request_tagless, b_bus_op_granted,
      b_bus_op_requested, faulted} \subseteq BOOLEAN
  /\ b_request_way \subseteq Ways
  /\ b_bus_op_state \in Cache!BusOpStates
  /\ b_bus_op_way \subseteq Ways
  /\ b_bus_op_block_inst \in Cache!Offsets
  /\ b_bus_op_addr \in Addr \cup {NoRequest}
  /\ vram \in [Indexes -> SUBSET Ways]
  /\ tram \in [Indexes -> [Ways -> Tags]]
  /\ dram \in [Indexes -> [Ways -> [Cache!Offsets -> Datum]]]
  /\ port \in Ports \cup {NoRequest}
  /\ memory \in [Addr -> Nat] /\ oldest \in [Addr -> Nat] /\ asked \in Nat
  /\ \A a \in Addr : oldest[a] <= memory[a]
  /\ last \in Addr \cup {NoRequest}
  /\ listed \in Indexes \cup {NoRequest}
  /\ invalidated \subseteq Indexes

\* A fetch that the MMU lets through answers with one word, the word of its
\* own address: through the cache, one that is not older than the last
\* invalidation of its set; past the cache, not older than the request.
Fetching == b_request.code = "fetch" /\ b_request_state # "none" /\ ~faulted
FetchCorrect ==
  Fetching /\ Cache!b_request_complete =>
    \E n \in (IF b_request.cacheen THEN oldest[b_request.addr] ELSE asked)
               .. memory[b_request.addr] :
      Cache!b_result_inst = {Word(b_request.addr, n)}

\* Way w of set x is being overwritten.
Filling(x, w) ==
  /\ b_bus_op_state \in {"fill_first", "fill", "fill_last"}
  /\ b_bus_op_addr.index = x
  /\ w \in b_bus_op_way

\* Every line that is marked valid holds the words of the block its tag names,
\* none older than the last invalidation of the set, and no block is in two
\* ways, so that a hit is one way.
CacheCoherent ==
  \A x \in invalidated : \A w \in vram[x] :
    /\ \A v \in vram[x] \ {w} : tram[x][v] # tram[x][w]
    /\ Filling(x, w) \/
         \A o \in Cache!Offsets :
           LET a == [tag |-> tram[x][w], index |-> x, offset |-> o]
           IN dram[x][w][o] \in {Word(a, n) : n \in oldest[a] .. memory[a]}

\* An access that compares no tags is to a way that a comparison would find.
TaglessSound ==
  /\ Fetching
  /\ b_request_state = "cached_fetch_l1_access"
  /\ b_request_tagless
  /\ b_request_granted
  => Cache!b_request_cache_way_hit = b_request_way /\ b_request_way # {}

\* What is written back to the replacement policy, one way and the list on its
\* output, is for the set whose list was read in the cycle before: CacheReplace
\* relies on it.  Fills in the background and accesses to other sets must not
\* come in between.
ReplaceFresh ==
  ~faulted /\ Cache!b_replace_we =>
    /\ Cardinality(Cache!b_replace_wway) = 1
    /\ Cache!b_replace_windex = listed

\* The cache belongs to the bus operation from the first to the last cycle of
\* a fill, and the bus to somebody for as long as an operation is under way.
\* A request that waits for a fill waits for the very beat on the bus, unless
\* it lost its grant: that happens to a word forwarded from the fill whose
\* beat does not come at once, and it then fills its own way again.
Ownership ==
  /\ b_cache_owner = "bus_op" <=>
       b_bus_op_state \in {"fill_first", "fill", "fill_last"}
  /\ b_bus_op_owner = "none" <=> b_bus_op_state = "none"
  /\ b_bus_op_state # "none" => b_bus_op_requested
  /\ b_request_state = "cached_fetch_fill" =>
       /\ b_bus_op_way = b_request_way
       /\ b_bus_op_addr.tag = b_request.addr.tag
       /\ b_bus_op_addr.index = b_request.addr.index
       /\ IF b_request_granted
          THEN /\ b_bus_op_state \in {"fill_first", "fill"}
               /\ b_bus_op_addr = b_request.addr
          ELSE b_bus_op_owner = "bus_op"

\* The rule of the bus: in the cycle that completes a beat of a burst but the
\* last, the cache drives the next beat.
BurstStep ==
  Answered /\ port.req.burst =>
    /\ port' # NoRequest
    /\ port'.req.addr = Cache!next_in_block(port.req.addr)
BurstRule == [][BurstStep]_vars

\* What a comment of the control path says of the first state of a fill:
\* "clear valid bit".  No line is valid once the first of its words has been
\* replaced, until the last one has been.
ClearedFirst ==
  b_bus_op_state = "fill" /\ b_bus_op_block_inst > 0 =>
    b_bus_op_way \cap vram[b_bus_op_addr.index] = {}

(***************************************************************************)
(* Liveness.                                                               *)
(***************************************************************************)
\* Whatever the pipe asks is answered, if the bus never leaves the cache
\* waiting for ever: what the bus promises to the master with priority.
Completes ==
  []<>sys_ready => (b_request_state # "none" ~> Cache!b_request_complete)

(***************************************************************************)
(* The inductive invariant, from which InstFetchProofs derives the safety  *)
(* properties.                                                             *)
(***************************************************************************)
Filled == {"fill_first", "fill", "fill_last"}
Compares == {"cached_fetch_l1_access", "invalidate_l1_access"}
Holds(d, a, least) == d.addr = a /\ least <= d.number /\ d.number <= memory[a]

\* The request belongs to its state, and the history to the request.
RequestKnown ==
  /\ b_request_state = "none" <=> b_request.code = "none"
  /\ b_request_state \in {"invalidate_sync", "invalidate_l1_access"}
       <=> b_request.code = "invalidate"
  /\ b_request.code = "fetch" =>
       /\ b_request.cacheen <=>
            b_request_state \in {"cached_fetch_l1_access", "cached_fetch_fill"}
       /\ b_request_state \in {"uncached_fetch_bus_op", "cached_fetch_fill"}
            => ~b_request.mmuen
       /\ b_request.cacheen => b_request.addr.index \in invalidated
       /\ b_request.mmuen => faulted
       /\ b_request.alloc
       /\ last = b_request.addr
       /\ asked <= memory[b_request.addr]

\* Who owns what, while what is done.
Owned ==
  /\ b_cache_owner = "bus_op" <=> b_bus_op_state \in Filled
  /\ b_cache_owner = "request" <=> b_request_state \in Compares /\ b_request_granted
  /\ b_bus_op_owner = "none" <=> b_bus_op_state = "none"
  /\ b_bus_op_owner = "request" =>
       /\ b_request_granted
       /\ IF b_bus_op_state = "fetch" THEN b_request_state = "uncached_fetch_bus_op"
          ELSE b_bus_op_state # "fill_last" /\ b_request_state = "cached_fetch_fill"
  /\ b_bus_op_state \in {"fetch", "fill_first"} => b_bus_op_owner = "request"
  /\ b_bus_op_state = "fill_first" => b_bus_op_granted
  /\ b_bus_op_state \in {"fill_first", "fill_last"} => b_bus_op_block_inst = 0

\* What a request waits for.
Waits ==
  /\ b_request_state \in Compares /\ ~b_request_granted => b_cache_owner = "bus_op"
  /\ b_request_state = "invalidate_l1_access" => b_bus_op_state = "none"
  /\ b_request_state = "uncached_fetch_bus_op" =>
       IF b_request_granted
       THEN b_bus_op_state = "fetch" /\ b_bus_op_addr = b_request.addr
       ELSE b_bus_op_owner = "bus_op"
  /\ b_request_state = "cached_fetch_fill" =>
       /\ b_bus_op_way = b_request_way
       /\ b_bus_op_addr \in Addr
       /\ b_bus_op_addr.tag = b_request.addr.tag
       /\ b_bus_op_addr.index = b_request.addr.index
       /\ IF b_request_granted
          THEN /\ b_bus_op_state \in {"fill_first", "fill"}
               /\ b_bus_op_addr = b_request.addr
               /\ b_bus_op_block_inst <= b_request.addr.offset
          ELSE b_bus_op_owner = "bus_op"

\* The bus is asked for what the bus operation is at, and answers it.
OnBus ==
  /\ b_bus_op_state # "none" => b_bus_op_requested
  /\ IF b_bus_op_state \in {"none", "fill_last"} THEN port = NoRequest
     ELSE /\ port # NoRequest
          /\ b_bus_op_addr \in Addr
          /\ port.req.addr = b_bus_op_addr
          /\ port.req.burst <=>
               b_bus_op_state # "fetch" /\ b_bus_op_block_inst # BlockInsts - 1
          /\ port.done =>
               Holds(port.data, b_bus_op_addr,
                     IF b_bus_op_state = "fetch" THEN asked ELSE oldest[b_bus_op_addr])

\* A fill has replaced the words before the one it is at, and they are fresh;
\* the block is in no other way.
Replaced ==
  IF b_bus_op_state = "fill_last" THEN Cache!Offsets
  ELSE {o \in Cache!Offsets :
          \/ b_bus_op_addr.offset - b_bus_op_block_inst <= o /\ o < b_bus_op_addr.offset
          \/ b_bus_op_addr.offset + BlockInsts - b_bus_op_block_inst <= o}
InBlock(a, o) == [tag |-> a.tag, index |-> a.index, offset |-> o]
FillSound ==
  b_bus_op_state \in Filled =>
    /\ b_bus_op_addr \in Addr
    /\ b_bus_op_addr.index \in invalidated
    /\ \E w \in Ways :
         /\ b_bus_op_way = {w}
         /\ \A v \in vram[b_bus_op_addr.index] \ {w} :
              tram[b_bus_op_addr.index][v] # b_bus_op_addr.tag
         /\ b_bus_op_state = "fill_last" =>
              tram[b_bus_op_addr.index][w] = b_bus_op_addr.tag
         /\ \A o \in Replaced :
              Holds(dram[b_bus_op_addr.index][w][o], InBlock(b_bus_op_addr, o),
                    oldest[InBlock(b_bus_op_addr, o)])

\* The way that the next word may be taken from unchecked is that of its block,
\* or the one the block is being filled into.
WayHolds(way, a) ==
  IF b_bus_op_state \in Filled
  THEN way = b_bus_op_way /\ b_bus_op_addr.tag = a.tag /\ b_bus_op_addr.index = a.index
  ELSE \E w \in vram[a.index] : way = {w} /\ tram[a.index][w] = a.tag
WayKnown ==
  /\ b_request_state \in {"none", "cached_fetch_l1_access"}
  /\ b_request_tagless /\ ~faulted /\ last # NoRequest
  => /\ last.index \in invalidated
     /\ b_request_state = "none" => ~Cache!last_in_block(last)
     /\ WayHolds(b_request_way, last)

\* The list that the replacement policy has on its output.
Listed ==
  /\ b_cache_owner = "request" => listed = b_request.addr.index
  /\ b_bus_op_state = "fill_last" => listed = b_bus_op_addr.index

IInv ==
  /\ TypeOK
  /\ RequestKnown
  /\ Owned
  /\ Waits
  /\ OnBus
  /\ FillSound
  /\ CacheCoherent
  /\ WayKnown
  /\ Listed
=============================================================================
