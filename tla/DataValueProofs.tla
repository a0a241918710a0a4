--------------------------- MODULE DataValueProofs ---------------------------
(***************************************************************************)
(* The data of the data cache: no store is lost and none is overtaken, a   *)
(* clean line is what memory holds, and a load answers what was stored     *)
(* last.  The watched byte stands for every byte.  The invariant DInv is   *)
(* inductive together with CInv and TInv, if no block is written back on   *)
(* request where stores go past the cache.                                 *)
(***************************************************************************)
EXTENDS DataAccessProofs

-----------------------------------------------------------------------------
(***************************************************************************)
(* What a cycle does to the dirty bits, to the data RAM and to memory.     *)
(***************************************************************************)
\* A store makes its line dirty, the end of a fill and of a write-back clean.
LEMMA MramStep ==
  ASSUME CInv, NEW i, NEW victim, Cycled(i, victim), NEW x \in Indexes
  PROVE  mram'[x] =
           IF b_stb_state = "write" /\ b_stb_write_cache
           THEN IF x = Cache!b_stb_head.addr.index THEN mram[x] \cup b_stb_way ELSE mram[x]
           ELSE IF /\ \/ b_bus_op_state = "fill_last"
                      \/ b_bus_op_state = "writeback_last" /\ sys_ready
                   /\ x = b_bus_op_paddr.index
                THEN mram[x] \ b_bus_op_way
           ELSE mram[x]
<1>1. mram \in [Indexes -> SUBSET Ways]
  BY DEF CInv, TypeOK
<1>2. mram' = IF Cache!b_mram_we THEN [mram EXCEPT ![Cache!b_rmdram_index] = Cache!b_mram_wdata]
                                 ELSE mram
  BY DEF Cycled, Cache!Clock, Cache!Rams
<1>3. Cache!b_bus_op_error = FALSE
  BY BusReady
<1>4. /\ b_rmdram_owner = "stb" <=>
           b_stb_state = "replace_access" \/ (b_stb_state = "write" /\ b_stb_write_cache)
      /\ b_rmdram_owner = "bus_op" <=> b_bus_op_state \in FillStates \cup WritebackStates
  BY DEF CInv, Owned
<1>5. CASE b_stb_state = "write" /\ b_stb_write_cache
  <2>1. b_rmdram_owner = "stb" /\ Cache!b_rmdram_index = Cache!b_stb_head.addr.index
    BY <1>4, <1>5, LookedUp
  <2>2. Cache!b_mram_we /\ Cache!b_mram_wdata = mram[Cache!b_stb_head.addr.index] \cup b_stb_way
    BY <1>3, <1>5, <2>1 DEF Cache!b_mram_we, Cache!b_mram_wdata, Cache!b_mram_rdata
  <2>3. Cache!b_stb_head.addr.index \in Indexes
    BY <2>1, LookedUpTyped
  <2> QED BY <1>1, <1>2, <1>5, <2>1, <2>2, <2>3
<1>6. CASE /\ ~(b_stb_state = "write" /\ b_stb_write_cache)
           /\ \/ b_bus_op_state = "fill_last"
              \/ b_bus_op_state = "writeback_last" /\ sys_ready
  <2>1. b_rmdram_owner = "bus_op" /\ Cache!b_rmdram_index = b_bus_op_paddr.index
    BY <1>4, <1>6, LookedUp DEF FillStates, WritebackStates
  <2>2. Cache!b_mram_we /\ Cache!b_mram_wdata = mram[b_bus_op_paddr.index] \ b_bus_op_way
    BY <1>3, <1>6, <2>1 DEF Cache!b_mram_we, Cache!b_mram_wdata, Cache!b_mram_rdata
  <2>3. b_bus_op_paddr.index \in Indexes
    BY <2>1, LookedUpTyped
  <2> QED BY <1>1, <1>2, <1>6, <2>1, <2>2, <2>3
<1>7. CASE /\ ~(b_stb_state = "write" /\ b_stb_write_cache)
           /\ b_bus_op_state # "fill_last"
           /\ ~(b_bus_op_state = "writeback_last" /\ sys_ready)
  BY <1>2, <1>7 DEF Cache!b_mram_we
<1> QED BY <1>5, <1>6, <1>7

\* A word of a fill comes to the place of the watched byte; the store buffer
\* writes the watched byte.
FillsWord ==
  b_bus_op_state \in {"fill_first", "fill"} /\ sys_ready /\ Cache!SamePlace(b_bus_op_paddr)
StoresWord ==
  /\ b_stb_state' = "write" /\ b_stb_write_cache'
  /\ Cache!SamePlace(Cache!a_stb_head.addr)
  /\ watched.byte \in Cache!a_stb_head.bytes
LEMMA DramStep ==
  ASSUME CInv, NEW i, NEW victim, Cycled(i, victim), NEW w \in Ways
  PROVE  /\ ~(FillsWord /\ StoresWord)
         /\ dram'[w] = IF FillsWord /\ w \in b_bus_op_way THEN sys_data
                       ELSE IF StoresWord /\ w \in b_stb_way' THEN Cache!a_stb_head.data
                       ELSE dram[w]
<1>1. dram \in [Ways -> Cache!Data]
  BY DEF CInv, TypeOK
<1>2. dram' = CASE Cache!a_dram_fill ->
                     [v \in Ways |-> IF v \in b_bus_op_way' THEN sys_data ELSE dram[v]]
                [] Cache!a_dram_store ->
                     [v \in Ways |-> IF v \in b_stb_way' THEN Cache!a_stb_head.data ELSE dram[v]]
                [] OTHER -> dram
  BY DEF Cycled, Cache!Clock, Cache!Rams
<1>3. /\ b_rmdram_owner' = "bus_op" <=> b_bus_op_state' \in FillStates \cup WritebackStates
      /\ b_rmdram_owner' = "stb" <=>
           b_stb_state' = "replace_access" \/ (b_stb_state' = "write" /\ b_stb_write_cache')
  BY OwnedKept DEF Owned
<1>4. /\ b_bus_op_state' \in {"fill", "fill_last"} <=> b_bus_op_state \in {"fill_first", "fill"}
      /\ b_bus_op_state' \in {"fill", "fill_last"} => b_bus_op_way' = b_bus_op_way
  BY FillGoesOn
<1>5. Cache!a_dram_fill <=> FillsWord
  BY <1>3, <1>4 DEF Cache!a_dram_fill, FillsWord, FillStates
<1>6. Cache!a_dram_store <=> StoresWord
  BY <1>3 DEF Cache!a_dram_store, StoresWord
<1>7. ~(FillsWord /\ StoresWord)
  BY <1>3, <1>5, <1>6 DEF Cache!a_dram_fill, Cache!a_dram_store
<1>8. FillsWord => b_bus_op_way' = b_bus_op_way
  BY <1>4 DEF FillsWord
<1>9. CASE FillsWord
  <2>1. dram' = [v \in Ways |-> IF v \in b_bus_op_way' THEN sys_data ELSE dram[v]]
    BY <1>2, <1>5, <1>6, <1>7, <1>9
  <2> QED BY <1>7, <1>8, <1>9, <2>1
<1>10. CASE StoresWord
  <2>1. dram' = [v \in Ways |-> IF v \in b_stb_way' THEN Cache!a_stb_head.data ELSE dram[v]]
    BY <1>2, <1>5, <1>6, <1>7, <1>10
  <2> QED BY <1>7, <1>10, <2>1
<1>11. CASE ~FillsWord /\ ~StoresWord
  BY <1>2, <1>5, <1>6, <1>11
<1> QED BY <1>9, <1>10, <1>11

\* The bus has written memory, or left it alone, and says what is in it.
LEMMA AnswerKnownKept ==
  ASSUME CInv, NEW i, NEW victim, Cycled(i, victim)
  PROVE  /\ AnswerKnown'
         /\ \/ memory' = memory
            \/ /\ port' # NoRequest
               /\ port'.req.write
               /\ Cache!Covers(port'.req.addr, port'.req.bytes)
               /\ memory' = port'.req.data
<1> DEFINE q == IF sys_ready THEN Cache!sys_master_out ELSE port.req
<1>1. BusIdle(q) \/ BusWait(q) \/ BusAnswer(q)
  BY DEF Cycled, Bus
<1>2. watched' = watched
  BY DEF Cycled, Cache!Clock
<1>3. port' # NoRequest => port'.req = q
  BY PortStep
<1>4. CASE BusIdle(q)
  BY <1>4 DEF BusIdle, AnswerKnown, Answered
<1>5. CASE BusWait(q)
  BY <1>5 DEF BusWait, AnswerKnown, Answered
<1>6. CASE BusAnswer(q)
  <2>1. port' # NoRequest
    BY PortStep, <1>6 DEF BusAnswer
  <2>2. CASE q.write
    <3>1. /\ memory' = IF Cache!Covers(q.addr, q.bytes) THEN q.data ELSE memory
          /\ port' = [req |-> q, done |-> TRUE, data |-> Noise]
      BY <1>6, <2>2 DEF BusAnswer
    <3> QED BY <1>2, <2>1, <2>2, <3>1 DEF AnswerKnown, Answered, Cache!Covers
  <2>3. CASE ~q.write
    <3>1. /\ memory' = memory
          /\ port' = [req |-> q, done |-> TRUE,
                      data |-> IF q.addr = watched.addr THEN memory ELSE Noise]
      BY <1>6, <2>3 DEF BusAnswer
    <3> QED BY <1>2, <2>1, <2>3, <3>1 DEF AnswerKnown, Answered
  <2> QED BY <2>2, <2>3
<1> QED BY <1>1, <1>4, <1>5, <1>6

-----------------------------------------------------------------------------
(***************************************************************************)
(* What a cycle does to entries and lines.                                 *)
(***************************************************************************)
\* The head of the store buffer, as the first phase and the next cycle see it.
LEMMA HeadNext == Cache!a_stb_head = Cache!b_stb_head'
BY DEF Cache!a_stb_head, Cache!b_stb_head

\* The head that the store buffer works on is a valid entry.
LEMMA HeadValid ==
  ASSUME CInv, b_stb_state # "init"
  PROVE  /\ b_stb_head_ptr \in Cache!b_stb_valid
         /\ Entry(b_stb_head_ptr) = Cache!b_stb_head
         /\ Cache!b_stb_head \in StbEntry
<1>1. Cache!b_stb_head # NoEntry /\ b_stb_head_ptr \in Cache!Slots
  BY DEF CInv, HeadKnown, TypeOK
<1> QED BY <1>1, LookedUpTyped DEF Cache!b_stb_valid, Cache!b_stb_head, Entry

\* In the next cycle, too.
LEMMA HeadValidNext ==
  ASSUME CInv', b_stb_state' # "init"
  PROVE  /\ b_stb_head_ptr' \in Cache!b_stb_valid'
         /\ Entry(b_stb_head_ptr)' = Cache!b_stb_head'
         /\ Cache!b_stb_head' \in StbEntry
<1>1. /\ Cache!b_stb_head' # NoEntry /\ b_stb_head_ptr' \in Cache!Slots
      /\ b_stb_array' \in [Cache!Slots -> StbEntry \cup {NoEntry}]
  BY DEF CInv, HeadKnown, TypeOK
<1> QED BY <1>1 DEF Cache!b_stb_valid, Cache!b_stb_head, Entry

\* A set that is in use stays so while the store buffer holds an entry, or a
\* bus operation is on.
LEMMA StaysUsed ==
  ASSUME CInv, TInv, NEW i, NEW victim, Cycled(i, victim), NEW x \in Indexes, used[x] = "used",
         Cache!b_stb_valid # {} \/ b_bus_op_state # "none" \/ ~Invalidating
  PROVE  used'[x] = "used" /\ ~Invalidating
<1>1. ~Invalidating
  BY DEF TInv, InvalidatesAlone, Invalidating, Cache!b_stb_empty
<1> QED BY <1>1, UsedStep

\* An invalidation has completed.
LEMMA InvalidatedIs == ASSUME CInv PROVE Invalidated <=> Invalidating
BY Completion DEF Invalidated, Invalidating

\* The entries of the watched byte.
LEMMA WatchedEntriesStep ==
  ASSUME CInv, NEW i, NEW victim, Cycled(i, victim), NEW n \in Cache!Slots
  PROVE  /\ Cache!b_stb_push /\ n = b_stb_tail_ptr =>
              /\ n \in WatchedEntries' <=> Cache!Covers(b_request.addr, b_request.bytes)
              /\ Entry(n)'.data = b_request.data
         /\ ~(Cache!b_stb_push /\ n = b_stb_tail_ptr) =>
              /\ n \in WatchedEntries' <=>
                   n \in WatchedEntries /\ ~(Pops /\ n = b_stb_head_ptr)
              /\ n \in WatchedEntries' =>
                   Entry(n)'.data = IF n \in Cache!b_stb_combine_ptr THEN b_request.data
                                    ELSE Entry(n).data
<1>1. watched' = watched
  BY DEF Cycled, Cache!Clock
<1>2. NoEntry \notin StbEntry /\ b_stb_array[n] \in StbEntry \cup {NoEntry}
  BY NothingAssumption DEF CInv, TypeOK
<1>3. CASE Cache!b_stb_push /\ n = b_stb_tail_ptr
  <2>1. b_stb_array'[n] = Cache!b_stb_push_entry /\ Cache!b_stb_push_entry \in StbEntry
    BY <1>3, SlotStep, PushEntry
  <2>2. /\ Entry(n)'.addr = b_request.addr /\ Entry(n)'.bytes = b_request.bytes
        /\ Entry(n)'.data = b_request.data
    BY <2>1 DEF Entry, Cache!b_stb_push_entry
  <2>3. n \in Cache!b_stb_valid'
    BY <1>2, <2>1 DEF Cache!b_stb_valid
  <2> QED BY <1>1, <1>3, <2>2, <2>3 DEF WatchedEntries, Cache!Covers
<1>4. CASE ~(Cache!b_stb_push /\ n = b_stb_tail_ptr)
  <2>1. CASE b_stb_array[n] = NoEntry \/ (Pops /\ n = b_stb_head_ptr)
    <3>1. b_stb_array'[n] = NoEntry
      BY <1>4, <2>1, SlotStep
    <3> QED BY <1>4, <2>1, <3>1 DEF WatchedEntries, Cache!b_stb_valid
  <2>2. CASE ~(b_stb_array[n] = NoEntry \/ (Pops /\ n = b_stb_head_ptr))
    <3>1. b_stb_array'[n] = Cache!b_stb_entry_next(n) /\ b_stb_array[n] \in StbEntry
      BY <1>2, <1>4, <2>2, SlotStep
    <3>2. /\ Entry(n)'.addr = Entry(n).addr /\ Entry(n)'.bytes = Entry(n).bytes
          /\ Entry(n)'.data = IF n \in Cache!b_stb_combine_ptr THEN b_request.data
                              ELSE Entry(n).data
          /\ b_stb_array'[n] \in StbEntry
      BY <3>1, EntryNext DEF Entry
    <3>3. n \in Cache!b_stb_valid' /\ n \in Cache!b_stb_valid
      BY <1>2, <2>2, <3>2 DEF Cache!b_stb_valid
    <3> QED BY <1>1, <1>4, <2>2, <3>2, <3>3 DEF WatchedEntries, Cache!Covers
  <2> QED BY <2>1, <2>2
<1> QED BY <1>3, <1>4

\* A line of the watched byte is there, or has come with a fill; it goes with
\* an invalidation, or is given to a fill.
LEMMA WatchedLinesStep ==
  ASSUME CInv, TInv, DInv, NEW i, NEW victim, Cycled(i, victim)
  PROVE  /\ WatchedLines \subseteq Ways
         /\ \A w \in WatchedLines' :
              \/ w \in WatchedLines
              \/ b_bus_op_state = "fill_last" /\ OnBlock /\ w \in b_bus_op_way
         /\ b_bus_op_state \in FillStates /\ OnBlock => WatchedLines = {}
         /\ Invalidating /\ b_request.addr.index = watched.addr.index => WatchedLines' = {}
         /\ \A w \in WatchedLines \ WatchedLines' :
              \/ Invalidating /\ b_request.addr.index = watched.addr.index
              \/ /\ b_bus_op_state' = "fill_first"
                 /\ b_bus_op_paddr'.index = watched.addr.index
                 /\ w \in b_bus_op_way'
<1>a. PICK a \in Addr : a = watched.addr
  BY DEF CInv, TypeOK
<1>x. PICK x \in Indexes : x = watched.addr.index
  BY DEF CInv, TypeOK, Addr, Cache!Addr
<1>1. watched' = watched
  BY DEF Cycled, Cache!Clock
<1>2. x \in Indexes /\ a \in Addr /\ a.tag \in Tags /\ a.index = x
  BY <1>a, <1>x DEF Addr, Cache!Addr
<1>3. Known(x) \subseteq Ways
  BY <1>2, KnownStep
<1>4. WatchedLines =
        IF used[x] = "unknown" THEN {} ELSE {w \in Known(x) \ Given(x) : tram[x][w] = a.tag}
  BY <1>a, <1>x DEF WatchedLines, Known, Refilled, Given, Filling, FillStates
<1>5. WatchedLines' =
        IF used'[x] = "unknown" THEN {}
        ELSE {w \in Known(x)' \ Given(x)' : tram'[x][w] = a.tag}
  BY <1>1, <1>a, <1>x DEF WatchedLines, Known, Refilled, Given, Filling, FillStates
<1>6. Given(x)' = IF b_bus_op_state' \in FillStates /\ b_bus_op_paddr'.index = x
                  THEN b_bus_op_way' ELSE {}
  BY DEF Given
<1>7. b_bus_op_state \in FillStates /\ OnBlock => WatchedLines = {}
  <2> SUFFICES ASSUME b_bus_op_state \in FillStates, OnBlock PROVE WatchedLines = {}
    OBVIOUS
  <2>1. PICK w \in Ways : b_bus_op_way = {w} /\ Lines(b_bus_op_paddr) \subseteq {w}
    BY DEF TInv, FillKnown
  <2> QED BY <1>4, <1>a, <1>x, <2>1 DEF OnBlock, Known, Given, Lines
<1>8. CASE Invalidating /\ b_request.addr.index = x
  <2>1. Known(x)' = {}
    BY <1>2, <1>8, KnownStep
  <2>2. WatchedLines' = {}
    BY <1>5, <2>1
  <2> QED BY <1>a, <1>x, <1>3, <1>4, <1>7, <1>8, <2>2
<1>9. CASE ~(Invalidating /\ b_request.addr.index = x)
  <2>1. used[x] = "unknown" <=> used'[x] = "unknown"
    <3>1. used[x] = "unknown" => used'[x] = "unknown"
      BY <1>2, <1>9, UsedStep
    <3>2. used'[x] = "unknown" => used[x] = "unknown"
      <4>1. CASE Cache!b_request_complete
        <5>1. History(i)
          BY <4>1 DEF Cycled, Input
        <5> QED BY <1>2, <5>1 DEF History
      <4>2. CASE ~Cache!b_request_complete
        BY <4>2 DEF Cycled, Input
      <4> QED BY <4>1, <4>2
    <3> QED BY <3>1, <3>2
  <2>2. CASE b_bus_op_state \notin {"fill_first", "fill_last"}
    <3>1. Known(x)' = Known(x) /\ \A w \in Known(x) : tram'[x][w] = tram[x][w]
      BY <1>2, <1>9, <2>2, KnownStep
    <3>2. b_bus_op_state = "fill" => Given(x)' = Given(x)
      BY <1>6, FillGoesOn DEF Given, FillStates
    <3>3. b_bus_op_state # "fill" => Given(x) = {}
      BY <2>2 DEF Given, FillStates
    <3>4. b_bus_op_state # "fill" =>
            (b_bus_op_state' \in FillStates => b_bus_op_state' = "fill_first")
      BY <2>2, FillGoesOn DEF FillStates
    <3> QED BY <1>a, <1>x, <1>3, <1>4, <1>5, <1>6, <1>7, <1>9, <2>1, <3>1, <3>2, <3>3, <3>4
  <2>3. CASE b_bus_op_state = "fill_first"
    <3>1. Known(x)' = Known(x) \ Given(x) /\ \A w \in Ways : tram'[x][w] = tram[x][w]
      BY <1>2, <2>3, KnownStep
    <3>2. Given(x)' = Given(x)
      BY <1>6, <2>3, FillGoesOn DEF Given, FillStates
    <3> QED BY <1>a, <1>x, <1>3, <1>4, <1>5, <1>7, <1>9, <2>1, <3>1, <3>2
  <2>4. CASE b_bus_op_state = "fill_last"
    <3>1. Known(x)' = Known(x) \cup Given(x) /\ \A w \in Ways : tram'[x][w] = tram[x][w]
      BY <1>2, <2>4, KnownStep
    <3>2. Known(x) \cap Given(x) = {} /\ Given(x) \subseteq Ways
      BY <2>4 DEF Known, Given, Refilled, FillStates, CInv, TypeOK
    <3>3. \A w \in Given(x) : tram[x][w] = b_bus_op_paddr.tag /\ w \in b_bus_op_way
                              /\ b_bus_op_paddr.index = x
      BY <2>4 DEF TInv, FillKnown, Given, FillStates
    <3>4. b_bus_op_state' \in FillStates => b_bus_op_state' = "fill_first"
      BY <2>4, FillGoesOn DEF FillStates
    <3> QED BY <1>a, <1>x, <1>3, <1>4, <1>5, <1>6, <1>7, <1>9, <2>1, <2>4, <3>1, <3>2, <3>3, <3>4, <1>a, <1>x DEF OnBlock
  <2> QED BY <2>2, <2>3, <2>4
<1> QED BY <1>x, <1>8, <1>9

-----------------------------------------------------------------------------
(***************************************************************************)
(* A cycle keeps the invariant, part by part.                              *)
(***************************************************************************)
\* What the pipe drives goes by the policies of the hardware.
LEMMA PipePolicies ==
  ASSUME WritebacksAreAlone, CInv, NEW i \in PipeRequests
  PROVE  /\ i.code \in {"load", "store"} => i.writethrough = system.writethrough
         /\ i.code = "store" => i.alloc = system.write_alloc
         /\ i.code = "writeback" => /\ ~system.writethrough /\ system.write_alloc
                                    /\ used[i.addr.index] = "used"
         /\ i.code \in {"load", "store"} =>
              used[i.addr.index] \in (IF i.cacheen THEN {"invalidated", "used"}
                                      ELSE {"unknown", "invalidated"})
<1>1. system \in Systems
  BY DEF CInv, TypeOK
<1>2. \/ i \in PipeAccesses
      \/ i.code = "invalidate"
      \/ i.code = "writeback" /\ "writeback" \in system.requests /\ used[i.addr.index] = "used"
      \/ i.code = "none"
  BY DEF PipeRequests, Invalidates, Writebacks
<1>3. i \in PipeAccesses =>
        /\ i.code \in {"load", "store"}
        /\ i.writethrough = system.writethrough
        /\ i.code = "store" => i.alloc = system.write_alloc
        /\ used[i.addr.index] \in (IF i.cacheen THEN {"invalidated", "used"}
                                   ELSE {"unknown", "invalidated"})
  BY DEF PipeAccesses, Loads, Stores
<1> QED BY <1>1, <1>2, <1>3 DEF WritebacksAreAlone

\* The store buffer goes by the policies of its entries.
LEMMA PoliciesKnownKept ==
  ASSUME WritebacksAreAlone, CInv, TInv, DInv, CInv', TInv',
         NEW i, NEW victim, Cycled(i, victim)
  PROVE  PoliciesKnown'
<1>1. system' = system
  BY DEF Cycled
<1>2. /\ b_request'.code \in {"load", "store"} => b_request'.writethrough = system.writethrough
      /\ b_request'.code = "store" => b_request'.alloc = system.write_alloc
      /\ b_request'.code = "writeback" => ~system.writethrough /\ system.write_alloc
  <2>1. CASE Cache!b_request_complete
    BY <2>1, RequestStep, PipePolicies DEF Cycled, Input
  <2>2. CASE ~Cache!b_request_complete
    BY <2>2, RequestStep DEF DInv, PoliciesKnown
  <2> QED BY <2>1, <2>2
<1>3. \A n \in Cache!b_stb_valid' : /\ Entry(n)'.writethrough = system.writethrough
                                    /\ Entry(n)'.alloc = system.write_alloc
  <2> TAKE n \in Cache!b_stb_valid'
  <2>1. CASE Cache!b_stb_push /\ b_stb_array'[n] = Cache!b_stb_push_entry
    <3>1. b_request.code = "store"
      BY <2>1, PushEntry DEF CInv, RequestKnown
    <3> QED BY <2>1, <3>1 DEF Entry, Cache!b_stb_push_entry, DInv, PoliciesKnown
  <2>2. CASE /\ n \in Cache!b_stb_valid
             /\ b_stb_array[n] \in StbEntry
             /\ b_stb_array'[n] = Cache!b_stb_entry_next(n)
    BY <2>2, EntryNext, EntryComes DEF Entry, DInv, PoliciesKnown
  <2> QED BY <2>1, <2>2, EntryComes
<1>4. b_stb_state' # "init" /\ b_stb_write_bus' =>
        Cache!b_stb_head'.writethrough \/ ~Cache!b_stb_head'.alloc
  <2>1. CASE StbStarts
    BY <2>1, HeadNext DEF StbStarts
  <2>2. CASE StbGoesOn(victim) /\ b_stb_state' # "init"
    <3>1. b_stb_state # "init" /\ ~Pops /\ b_stb_write_bus' = b_stb_write_bus
      BY <2>2 DEF StbGoesOn, Pops
    <3> QED BY <3>1, HeadStays DEF DInv, PoliciesKnown
  <2> QED BY <2>1, <2>2, StbMoves
<1>5. b_stb_state' = "write" =>
        b_stb_write_bus' \/ (b_stb_write_cache' /\ Cache!b_stb_head'.cache_hit)
  <2> SUFFICES ASSUME b_stb_state' = "write", ~b_stb_write_bus'
               PROVE  b_stb_write_cache' /\ Cache!b_stb_head'.cache_hit
    OBVIOUS
  <2>1. CASE StbStarts
    <3>1. Cache!b_stb_head'.cache_hit \/ ~Cache!b_stb_head'.alloc
      BY <2>1, HeadNext DEF StbStarts
    <3> QED BY <2>1, <3>1, HeadNext DEF StbStarts
  <2>2. CASE StbGoesOn(victim)
    <3>1. \/ b_stb_state = "fill" /\ b_bus_op_state = "fill_last"
          \/ b_stb_state = "write" /\ ~Pops
      BY <2>2 DEF StbGoesOn
    <3>2. b_stb_write_bus' = b_stb_write_bus
      BY <2>2 DEF StbGoesOn
    <3>3. b_stb_state # "write"
      BY <3>1, <3>2 DEF Pops
    <3>4. b_stb_write_cache'
      BY <2>2, <3>1, <3>3 DEF StbGoesOn, ReplaceStates, CInv, HeadKnown
    <3>5. b_stb_head_ptr \in Cache!Slots /\ b_stb_array[b_stb_head_ptr] = Cache!b_stb_head
          /\ Cache!b_stb_head \in StbEntry
      BY <3>1, HeadValid DEF Entry, Cache!b_stb_valid
    <3>6. Cache!b_stb_array_block_change(b_stb_head_ptr)
      BY <3>1, <3>3, <3>5
         DEF Cache!b_stb_array_block_change, Cache!b_block_change, Cache!b_block_change_valid,
             DInv, BusOpKnown
    <3>7. Cache!b_stb_head' = Cache!b_stb_entry_next(b_stb_head_ptr)
      <4>1. ~Pops /\ b_stb_head_ptr' = b_stb_head_ptr
        BY <3>1, <3>3, Pointers DEF Pops
      <4>2. ~(Cache!b_stb_push /\ b_stb_head_ptr = b_stb_tail_ptr)
        BY <3>5, <4>1, PushBehind, NothingAssumption
      <4> QED BY <3>5, <4>1, <4>2, SlotStep, NothingAssumption DEF Cache!b_stb_head
    <3> QED BY <3>1, <3>3, <3>4, <3>5, <3>6, <3>7, EntryNext
  <2> QED BY <2>1, <2>2, StbMoves
<1> QED BY <1>1, <1>2, <1>3, <1>4, <1>5 DEF PoliciesKnown

\* A write-back on request never waits for the bus.
LEMMA WritebackGranted ==
  ASSUME CInv, DInv, b_request_state = "writeback_bus_op"
  PROVE  b_request_granted /\ b_bus_op_state \in WritebackStates
<1>1. b_request.code = "writeback"
  BY DEF CInv, RequestKnown
<1>2. ~system.writethrough /\ system.write_alloc
  BY <1>1 DEF DInv, PoliciesKnown
<1>3. ~(b_stb_state = "write" /\ b_stb_write_bus)
  <2>1. b_stb_state = "write" =>
          b_stb_head_ptr \in Cache!b_stb_valid /\ Entry(b_stb_head_ptr) = Cache!b_stb_head
    BY HeadValid
  <2> QED BY <1>2, <2>1 DEF DInv, PoliciesKnown
<1>4. b_request_granted
  BY <1>3 DEF CInv, RequestWaits
<1> QED BY <1>4 DEF CInv, Owned, BusUse, WantsBus

\* A write-back on request begins with a line that was hit.
LEMMA WritebackHits ==
  ASSUME CInv, NEW i, NEW victim, Cycled(i, victim),
         b_request_state = "writeback_l1_access", b_request_granted, ~Cache!b_request_complete
  PROVE  Cache!b_request_cache_way_hit = Lines(b_request.addr) /\ Lines(b_request.addr) # {}
<1>1. ~Cache!b_request_complete_writeback_l1_access
  BY BusReady, CompleteByState
<1>2. Cache!b_request_cache_way_hit # {}
  BY <1>1 DEF Cache!b_request_complete_writeback_l1_access, Cache!b_request_cache_hit
<1>3. b_vtram_owner = "request"
  BY DEF CInv, Owned, WantsVtram
<1> QED BY <1>2, <1>3, HitIsLine

\* Where a bus operation that uses the RAMs begins.
LEMMA RamsOpBegins ==
  ASSUME CInv, NEW i, NEW victim, Cycled(i, victim), Cache!b_bus_op_complete,
         b_bus_op_state' \in FillStates \cup WritebackStates
  PROVE  /\ b_bus_op_state' \in {"fill_first", "writeback_first"}
         /\ \/ /\ b_bus_op_owner' = "request" /\ b_request_granted'
               /\ b_request_state' \in {"cached_load_writeback", "cached_load_fill",
                                       "writeback_bus_op"}
               /\ b_bus_op_state' = "fill_first" <=> b_request_state' = "cached_load_fill"
               /\ b_bus_op_way' = b_request_way'
               /\ b_bus_op_paddr' = Cache!a_request_bus_op_paddr
               /\ b_bus_op_paddr'.index = b_request'.addr.index
               /\ b_request_state' # "cached_load_writeback" => b_bus_op_paddr' = b_request'.addr
            \/ /\ b_bus_op_owner' = "stb"
               /\ b_stb_state' \in {"writeback", "fill"}
               /\ b_bus_op_state' = "fill_first" <=> b_stb_state' = "fill"
               /\ b_bus_op_way' = b_stb_way'
               /\ b_bus_op_paddr' = Cache!a_stb_bus_op_paddr
               /\ b_bus_op_paddr'.index = Cache!b_stb_head'.addr.index
               /\ b_stb_state' = "fill" => b_bus_op_paddr' = Cache!b_stb_head'.addr
<1>1. b_bus_op_owner' \in {"request", "stb"}
      /\ b_bus_op_state' \in {"fill_first", "writeback_first"}
  BY BusOpBegins, FirstStates DEF FillStates, WritebackStates
<1>2. CASE b_bus_op_owner' = "request"
  <2>1. /\ RequestTakesBus /\ b_bus_op_state' = Cache!a_request_bus_op_state
        /\ b_bus_op_paddr' = Cache!a_request_bus_op_paddr /\ b_bus_op_way' = b_request_way'
    BY <1>2, BusOpBegins, FirstStates
  <2>2. /\ b_bus_op_paddr'.index = b_request'.addr.index
        /\ b_request_state' # "cached_load_writeback" => b_bus_op_paddr' = b_request'.addr
    BY <2>1, FirstAddress
  <2>3. /\ b_request_state' \in {"cached_load_writeback", "cached_load_fill", "writeback_bus_op"}
        /\ b_bus_op_state' = "fill_first" <=> b_request_state' = "cached_load_fill"
    BY <1>1, <2>1, BusOpFirstState DEF RequestTakesBus, WantsBus
  <2> QED BY <1>1, <1>2, <2>1, <2>2, <2>3 DEF RequestTakesBus
<1>3. CASE b_bus_op_owner' = "stb"
  <2>1. /\ StbTakesBus /\ b_bus_op_state' = Cache!a_stb_bus_op_state
        /\ b_bus_op_paddr' = Cache!a_stb_bus_op_paddr /\ b_bus_op_way' = b_stb_way'
    BY <1>3, BusOpBegins, FirstStates
  <2>2. /\ b_bus_op_paddr'.index = Cache!b_stb_head'.addr.index
        /\ b_stb_state' # "writeback" => b_bus_op_paddr' = Cache!b_stb_head'.addr
    BY <2>1, FirstAddress, HeadNext
  <2>3. /\ b_stb_state' \in {"writeback", "fill"}
        /\ b_bus_op_state' = "fill_first" <=> b_stb_state' = "fill"
    BY <1>1, <2>1, BusOpFirstState DEF StbTakesBus, ReplaceStates
  <2> QED BY <1>1, <1>3, <2>1, <2>2, <2>3
<1> QED BY <1>1, <1>2, <1>3

\* A bus operation that uses the RAMs goes on at its block and with its way.
LEMMA RamsOpGoesOn ==
  ASSUME CInv, NEW i, NEW victim, Cycled(i, victim), ~Cache!b_bus_op_complete,
         b_bus_op_state' \in FillStates \cup WritebackStates
  PROVE  /\ b_bus_op_state \in FillStates \cup WritebackStates
         /\ b_bus_op_state \in FillStates <=> b_bus_op_state' \in FillStates
         /\ b_bus_op_way' = b_bus_op_way
         /\ b_bus_op_paddr \in Addr
         /\ b_bus_op_paddr'.tag = b_bus_op_paddr.tag
         /\ b_bus_op_paddr'.index = b_bus_op_paddr.index
         /\ b_bus_op_paddr'.index \in Indexes
<1>1. /\ b_bus_op_state \in FillStates \cup WritebackStates
      /\ b_bus_op_state \in FillStates <=> b_bus_op_state' \in FillStates
      /\ b_bus_op_way' = b_bus_op_way
      /\ b_bus_op_paddr' = b_bus_op_paddr \/ b_bus_op_paddr' = Cache!next_in_block(b_bus_op_paddr)
  BY BusOpGoesOn, BusReady DEF FillStates, WritebackStates, CInv, TypeOK, Cache!BusOpStates
<1>2. b_bus_op_paddr \in Addr
  BY <1>1 DEF CInv, OnBus, FillStates, WritebackStates
<1> QED BY <1>1, <1>2, NextInBlock DEF Addr, Cache!Addr

\* What is in the cache is accessed through it only.
LEMMA SetsKnownKept ==
  ASSUME WritebacksAreAlone, CInv, TInv, DInv, CInv', TInv',
         NEW i, NEW victim, Cycled(i, victim)
  PROVE  SetsKnown'
<1>1. ASSUME b_request'.code = "writeback" PROVE used'[b_request'.addr.index] # "unknown"
  <2>1. b_request' = i /\ i \in Accepted
    BY RequestStep
  <2>2. i.addr.index \in Indexes
    BY <1>1, <2>1, RequestFields DEF Addr, Cache!Addr
  <2>3. CASE Cache!b_request_complete
    <3>1. History(i) /\ used[i.addr.index] = "used"
      BY <1>1, <2>1, <2>3, PipePolicies DEF Cycled, Input
    <3> QED BY <2>1, <2>2, <3>1 DEF History
  <2>4. CASE ~Cache!b_request_complete
    BY <1>1, <2>1, <2>4, RequestStep DEF Cycled, Input, DInv, SetsKnown
  <2> QED BY <2>3, <2>4
<1>2. ASSUME b_request'.code \in {"load", "store"}, ~b_request'.cacheen
      PROVE  used'[b_request'.addr.index] # "used"
  <2>1. b_request' = i /\ i \in Accepted
    BY RequestStep
  <2>2. i.addr.index \in Indexes
    BY <1>2, <2>1, RequestFields DEF Addr, Cache!Addr
  <2>3. CASE Cache!b_request_complete
    <3>1. History(i) /\ used[i.addr.index] \in {"unknown", "invalidated"}
      BY <1>2, <2>1, <2>3, PipePolicies DEF Cycled, Input
    <3> QED BY <1>2, <2>1, <2>2, <3>1 DEF History
  <2>4. CASE ~Cache!b_request_complete
    BY <1>2, <2>1, <2>4, RequestStep DEF Cycled, Input, DInv, SetsKnown
  <2> QED BY <2>3, <2>4
<1>3. ASSUME NEW x \in Indexes, used'[x] = "invalidated" PROVE vram'[x] = {}
  <2>1. CASE Invalidating /\ x = b_request.addr.index
    BY <2>1, VramStep
  <2>2. CASE ~(Invalidating /\ x = b_request.addr.index)
    <3>1. used[x] = "invalidated"
      <4>1. CASE Cache!b_request_complete
        <5>1. History(i)
          BY <4>1 DEF Cycled, Input
        <5> QED BY <1>3, <2>2, <5>1, InvalidatedIs DEF History
      <4>2. CASE ~Cache!b_request_complete
        BY <1>3, <4>2 DEF Cycled, Input
      <4> QED BY <4>1, <4>2
    <3>2. vram[x] = {} /\ Given(x) = {}
      BY <3>1 DEF DInv, SetsKnown, Given
    <3>3. CASE Invalidating
      BY <2>2, <3>2, <3>3, VramStep
    <3>4. CASE ~Invalidating /\ b_bus_op_state = "fill_first"
      <4>1. vram'[x] \ Given(x) = vram[x] \ Given(x)
        BY <3>4, VramStep
      <4> QED BY <3>2, <4>1
    <3>5. CASE ~Invalidating /\ b_bus_op_state = "fill_last"
      <4>1. vram'[x] = vram[x] \cup Given(x)
        BY <3>5, VramStep
      <4> QED BY <3>2, <4>1
    <3>6. CASE ~Invalidating /\ b_bus_op_state \notin {"fill_first", "fill_last"}
      BY <3>2, <3>6, VramStep
    <3> QED BY <3>3, <3>4, <3>5, <3>6
  <2> QED BY <2>1, <2>2
<1>4. ASSUME b_bus_op_state' \in FillStates \cup WritebackStates
      PROVE  used'[b_bus_op_paddr'.index] = "used"
  <2>1. CASE ~Cache!b_bus_op_complete
    <3>1. /\ b_bus_op_state \in FillStates \cup WritebackStates
          /\ b_bus_op_paddr'.index = b_bus_op_paddr.index
          /\ b_bus_op_paddr.index \in Indexes
      BY <1>4, <2>1, RamsOpGoesOn
    <3>2. used[b_bus_op_paddr.index] = "used" /\ b_bus_op_state # "none"
      BY <3>1 DEF DInv, SetsKnown, FillStates, WritebackStates
    <3> QED BY <3>1, <3>2, StaysUsed
  <2>2. CASE Cache!b_bus_op_complete /\ b_bus_op_owner' = "stb"
    <3>1. b_bus_op_paddr'.index = Cache!b_stb_head'.addr.index /\ b_stb_state' # "init"
      BY <1>4, <2>2, RamsOpBegins
    <3>2. b_stb_head_ptr' \in Cache!b_stb_valid' /\ Entry(b_stb_head_ptr)' = Cache!b_stb_head'
      BY <3>1, HeadValidNext
    <3>3. \A n \in Cache!b_stb_valid' : used'[Entry(n)'.addr.index] = "used"
      BY DEF TInv, InUse
    <3>4. Entry(b_stb_head_ptr)' = b_stb_array'[b_stb_head_ptr'] /\ \A n : Entry(n)' = b_stb_array'[n]
      BY DEF Entry
    <3> QED BY <3>1, <3>2, <3>3, <3>4
  <2>3. CASE Cache!b_bus_op_complete /\ b_bus_op_owner' = "request"
    <3>1. /\ b_bus_op_paddr'.index = b_request'.addr.index
          /\ b_request_state' \in {"cached_load_writeback", "cached_load_fill", "writeback_bus_op"}
      BY <1>4, <2>3, RamsOpBegins
    <3>2. CASE b_request_state' \in {"cached_load_writeback", "cached_load_fill"}
      <4>1. b_request'.code = "load" /\ b_request'.cacheen
        BY <3>2 DEF CInv, RequestKnown
      <4> QED BY <3>1, <4>1 DEF TInv, InUse
    <3>3. CASE b_request_state' = "writeback_bus_op"
      <4>1. ~Cache!b_request_complete /\ b_request' = b_request
        BY <3>3, RequestAndBus, RequestStep DEF WantsBus
      <4>2. b_request_state \in {"writeback_l1_access", "writeback_bus_op"}
        BY <3>3, <4>1 DEF CInv, RequestKnown
      <4>3. b_request_state # "writeback_bus_op"
        BY <2>3, <4>1, WritebackGranted, BusReady, Completion DEF WritebackStates
      <4>4. b_request_granted
        BY <3>3, <4>1, <4>2, <4>3, RequestStates
      <4>5. Lines(b_request.addr) # {}
        BY <4>1, <4>2, <4>3, <4>4, WritebackHits
      <4>6. b_request.code = "writeback" /\ b_request.addr.index \in Indexes
        BY <4>2, RequestFields DEF CInv, RequestKnown, TypeOK, Addr, Cache!Addr
      <4>7. used[b_request.addr.index] = "used"
        BY <4>5, <4>6 DEF DInv, SetsKnown, Lines, CInv, TypeOK
      <4>8. ~Invalidating
        BY <4>2 DEF Invalidating
      <4> QED BY <3>1, <4>1, <4>6, <4>7, <4>8, StaysUsed
    <3> QED BY <3>1, <3>2, <3>3
  <2> QED BY <1>4, <2>1, <2>2, <2>3, RamsOpBegins
<1> QED BY <1>1, <1>2, <1>3, <1>4 DEF SetsKnown

\* The bus operation goes on for whom it was begun.
LEMMA BusOpStays ==
  ASSUME CInv, NEW i, NEW victim, Cycled(i, victim), ~Cache!b_bus_op_complete
  PROVE  /\ b_bus_op_owner' = "request" =>
              /\ b_bus_op_owner = "request" /\ BusNext = "request"
              /\ ~Cache!b_request_complete
              /\ b_request_state' = b_request_state
              /\ b_request' = b_request
         /\ b_bus_op_owner' = "stb" =>
              /\ b_bus_op_owner = "stb"
              /\ b_stb_state \in {"writeback", "fill", "write"}
              /\ b_stb_state' = b_stb_state
              /\ ~Pops
<1>1. BusNext # "none"
  BY BusFree
<1>2. ASSUME b_bus_op_owner' = "request"
      PROVE  /\ b_bus_op_owner = "request" /\ BusNext = "request"
             /\ ~Cache!b_request_complete
             /\ b_request_state' = b_request_state
             /\ b_request' = b_request
  <2>1. RequestTakesBus
    BY <1>2, BusOwnerStep DEF StbTakesBus
  <2>2. BusNext = "request"
    BY <1>1, <2>1, RequestKeepsBus
  <2>3. b_bus_op_owner = "request"
    BY <2>2 DEF BusNext, StbPassesBus
  <2>4. b_request_state \in WantsBus /\ b_request_state' \in WantsBus
    BY <2>1, <2>3 DEF RequestTakesBus, CInv, Owned
  <2>5. ~Cache!b_request_complete
    BY <2>4, RequestAndBus
  <2>6. b_request_state' = b_request_state
    BY <2>4, <2>5, RequestStates, BusReady DEF WantsBus
  <2> QED BY <2>2, <2>3, <2>5, <2>6, RequestStep
<1>3. ASSUME b_bus_op_owner' = "stb"
      PROVE  /\ b_bus_op_owner = "stb"
             /\ b_stb_state \in {"writeback", "fill", "write"}
             /\ b_stb_state' = b_stb_state
             /\ ~Pops
  <2>1. StbTakesBus
    BY <1>3, BusOwnerStep
  <2>2. BusNext = "stb"
    BY <1>1, <2>1, StbAndBus
  <2>3. b_bus_op_owner = "stb"
    BY <2>2 DEF BusNext, RequestPassesBus
  <2>4. b_stb_state \in ReplaceStates \/ (b_stb_state = "write" /\ b_stb_write_bus)
    BY <2>3 DEF CInv, Owned
  <2>5. b_stb_state # "replace_access"
    BY <2>3, BusReady DEF CInv, BusUse
  <2>6. b_stb_state = "write" => ~sys_ready
    BY <2>3, BusReady DEF CInv, BusUse
  <2>7. ~Pops
    BY <2>4, <2>6 DEF Pops, ReplaceStates
  <2>8. b_stb_state = "fill" => b_bus_op_state # "fill_last"
    BY BusReady
  <2>9. ~StbStarts
    BY <2>2 DEF StbStarts
  <2>10. StbGoesOn(victim)
    BY <2>9, StbMoves
  <2>11. b_stb_state' = b_stb_state
    BY <2>4, <2>5, <2>7, <2>8, <2>10, BusReady DEF StbGoesOn, ReplaceStates
  <2> QED BY <2>3, <2>4, <2>5, <2>7, <2>11 DEF ReplaceStates
<1> QED BY <1>2, <1>3

\* It works on the way and at the address it was begun with.
LEMMA BusOpKnownKept ==
  ASSUME CInv, TInv, DInv, CInv', NEW i, NEW victim, Cycled(i, victim)
  PROVE  BusOpKnown'
<1>1. CASE Cache!b_bus_op_complete
  <2>1. ASSUME b_bus_op_owner' = "request",
               b_request_state' \in {"cached_load_writeback", "cached_load_fill"}
        PROVE  b_bus_op_way' = b_request_way' /\ b_bus_op_paddr'.index = b_request'.addr.index
    <3>1. b_bus_op_state' \in FillStates \cup WritebackStates
      BY <2>1 DEF CInv, BusUse, FillStates
    <3> QED BY <1>1, <2>1, <3>1, RamsOpBegins
  <2>2. ASSUME b_bus_op_owner' = "request",
               b_request_state' \in {"cached_load_fill", "uncached_load_bus_op"}
        PROVE  b_bus_op_paddr' = b_request'.addr
    BY <1>1, <2>2, FirstStates, BusOpBegins, FirstAddress
  <2>3. ASSUME b_stb_state' \in {"writeback", "fill"}
        PROVE  /\ b_bus_op_way' = b_stb_way'
               /\ b_bus_op_paddr'.index = Cache!b_stb_head'.addr.index
               /\ b_stb_state' = "fill" => b_bus_op_paddr'.tag = Cache!b_stb_head'.addr.tag
    <3>1. b_bus_op_owner' = "stb"
      BY <2>3 DEF CInv, Owned, ReplaceStates
    <3>2. b_bus_op_state' \in FillStates \cup WritebackStates
      BY <2>3, <3>1 DEF CInv, BusUse
    <3> QED BY <1>1, <2>3, <3>1, <3>2, RamsOpBegins
  <2> QED BY <2>1, <2>2, <2>3 DEF BusOpKnown
<1>2. CASE ~Cache!b_bus_op_complete
  <2>1. ASSUME b_bus_op_owner' = "request",
               b_request_state' \in {"cached_load_writeback", "cached_load_fill"}
        PROVE  b_bus_op_way' = b_request_way' /\ b_bus_op_paddr'.index = b_request'.addr.index
    <3>1. b_bus_op_owner = "request" /\ b_request_state' = b_request_state
          /\ b_request' = b_request
      BY <1>2, <2>1, BusOpStays
    <3>2. b_bus_op_way = b_request_way /\ b_bus_op_paddr.index = b_request.addr.index
      BY <2>1, <3>1 DEF DInv, BusOpKnown
    <3>3. b_bus_op_state' \in FillStates \cup WritebackStates
      BY <2>1 DEF CInv, BusUse, FillStates
    <3>4. b_bus_op_way' = b_bus_op_way /\ b_bus_op_paddr'.index = b_bus_op_paddr.index
      BY <1>2, <3>3, RamsOpGoesOn
    <3>5. b_request_way' = b_request_way
      BY <2>1, <3>1, WaysStep
    <3> QED BY <3>1, <3>2, <3>4, <3>5
  <2>2. ASSUME b_bus_op_owner' = "request",
               b_request_state' \in {"cached_load_fill", "uncached_load_bus_op"}
        PROVE  b_bus_op_paddr' = b_request'.addr
    <3>1. /\ b_bus_op_owner = "request" /\ b_request_state' = b_request_state
          /\ b_request' = b_request /\ ~Cache!b_request_complete
      BY <1>2, <2>2, BusOpStays
    <3>2. b_bus_op_paddr = b_request.addr
      BY <2>2, <3>1 DEF DInv, BusOpKnown
    <3>3. ~sys_ready
      BY <2>2, <3>1, Completion DEF CInv, Owned
    <3>4. b_bus_op_paddr' = b_bus_op_paddr
      BY <1>2, <3>3, BusOpGoesOn
    <3> QED BY <3>1, <3>2, <3>4
  <2>3. ASSUME b_stb_state' \in {"writeback", "fill"}
        PROVE  /\ b_bus_op_way' = b_stb_way'
               /\ b_bus_op_paddr'.index = Cache!b_stb_head'.addr.index
               /\ b_stb_state' = "fill" => b_bus_op_paddr'.tag = Cache!b_stb_head'.addr.tag
    <3>1. b_bus_op_owner' = "stb"
      BY <2>3 DEF CInv, Owned, ReplaceStates
    <3>2. b_bus_op_state' \in FillStates \cup WritebackStates
      BY <2>3, <3>1 DEF CInv, BusUse
    <3>3. b_stb_state' = b_stb_state /\ ~Pops
      BY <1>2, <3>1, BusOpStays
    <3>4. StbGoesOn(victim)
      BY <2>3, StbMoves DEF StbStarts
    <3>5. b_stb_way' = b_stb_way /\ Cache!b_stb_head'.addr = Cache!b_stb_head.addr
      BY <2>3, <3>3, <3>4, WaysStep, HeadStays
    <3>6. /\ b_bus_op_way' = b_bus_op_way /\ b_bus_op_paddr'.index = b_bus_op_paddr.index
          /\ b_bus_op_paddr'.tag = b_bus_op_paddr.tag
      BY <1>2, <3>2, RamsOpGoesOn
    <3> QED BY <2>3, <3>3, <3>5, <3>6 DEF DInv, BusOpKnown
  <2> QED BY <2>1, <2>2, <2>3 DEF BusOpKnown
<1> QED BY <1>1, <1>2

-----------------------------------------------------------------------------
(***************************************************************************)
(* Victims.                                                                *)
(***************************************************************************)
\* While a load chooses its victim, or waits to replace it, the valid and dirty
\* bits stay as they are.
LEMMA VictimStays ==
  ASSUME CInv, TInv, NEW i, NEW victim, Cycled(i, victim), NEW x \in Indexes,
         \/ b_request_state = "cached_load_l1_access" /\ b_request_granted
         \/ b_request_state = "cached_load_writeback"
         \/ b_request_state = "cached_load_fill" /\ ~b_request_granted
  PROVE  /\ b_bus_op_state \notin FillStates
         /\ vram'[x] = vram[x]
         /\ b_bus_op_state # "writeback_last" => mram'[x] = mram[x]
<1>1. b_bus_op_state \notin FillStates /\ ~(b_stb_state = "write" /\ b_stb_write_cache)
  <2>1. CASE b_request_state = "cached_load_l1_access" /\ b_request_granted
    BY <2>1 DEF CInv, Owned, WantsVtram, WantsRmdram, FillStates
  <2>2. CASE b_request_state \in {"cached_load_writeback", "cached_load_fill"} /\ ~b_request_granted
    BY <2>2 DEF CInv, Owned, RequestWaits, BusUse, FillStates
  <2>3. CASE b_request_state = "cached_load_writeback" /\ b_request_granted
    BY <2>3 DEF CInv, Owned, BusUse, WantsBus, FillStates, WritebackStates
  <2> QED BY <2>1, <2>2, <2>3
<1>2. ~Invalidating
  BY DEF Invalidating
<1>3. vram'[x] = vram[x]
  BY <1>1, <1>2, VramStep DEF FillStates
<1> QED BY <1>1, <1>3, MramStep DEF FillStates

\* The lines of a block that is looked up are one way.
LEMMA LineIsOne ==
  ASSUME CInv, TInv, NEW a \in Addr, used[a.index] # "unknown", b_bus_op_state \notin FillStates
  PROVE  \A v, w \in Lines(a) : v = w
<1>1. a.index \in Indexes /\ Refilled(a.index) = {}
  BY DEF Refilled, FillStates, Addr, Cache!Addr
<1> QED BY <1>1 DEF TInv, LinesDiffer, Lines

\* A load that misses chooses its victim, which it writes back if it is dirty.
LEMMA LoadMisses ==
  ASSUME CInv, CInv', NEW i, NEW victim, Cycled(i, victim),
         b_request_state' \in {"cached_load_writeback", "cached_load_fill"}
  PROVE  /\ ~Cache!b_request_complete /\ b_request' = b_request
         /\ b_request.addr \in Addr /\ b_request.addr.index \in Indexes
         /\ b_request_state \in {"cached_load_l1_access", "cached_load_writeback",
                                 "cached_load_fill"}
         /\ b_request_state = "cached_load_l1_access" =>
              /\ b_request_granted
              /\ b_request_way' = {victim}
              /\ b_request_state' = "cached_load_writeback" <=>
                   /\ victim \in vram[b_request.addr.index]
                   /\ victim \in mram[b_request.addr.index]
<1>1. ~Cache!b_request_complete /\ b_request' = b_request
  BY RequestAndBus, RequestStep DEF WantsBus
<1>2. b_request'.code = "load" /\ b_request'.cacheen
  BY DEF CInv, RequestKnown
<1>3. b_request_state \in {"cached_load_l1_access", "cached_load_writeback",
                           "cached_load_fill"}
  BY <1>1, <1>2 DEF CInv, RequestKnown
<1>4. b_request.addr \in Addr
  BY <1>1, <1>2, RequestStep, RequestFields
<1>5. b_request_state = "cached_load_l1_access" => b_request_granted
  BY <1>1, RequestStates
<1>6. b_request_state = "cached_load_l1_access" =>
        /\ Cache!b_vram_rdata = vram[b_request.addr.index]
        /\ Cache!b_mram_rdata = mram[b_request.addr.index]
  BY <1>5, LookedUp DEF CInv, Owned, WantsVtram, WantsRmdram, Cache!b_vram_rdata,
                        Cache!b_mram_rdata
<1> QED BY <1>1, <1>3, <1>4, <1>5, <1>6, RequestStates, WaysStep
        DEF Cache!b_replace_way_dirty, Addr, Cache!Addr

\* A victim that is to be written back is a line, and stays one while it is
\* written; a victim that is not is clean.
LEMMA VictimKnownKept ==
  ASSUME WritebacksAreAlone, CInv, TInv, DInv, CInv', TInv',
         NEW i, NEW victim, Cycled(i, victim)
  PROVE  VictimKnown'
<1>1. ASSUME b_request_state' \in {"cached_load_writeback", "cached_load_fill"}
      PROVE  /\ ~Cache!b_request_complete /\ b_request' = b_request
             /\ b_request.addr \in Addr /\ b_request.addr.index \in Indexes
             /\ b_request_state \in {"cached_load_l1_access", "cached_load_writeback",
                                     "cached_load_fill"}
             /\ b_request_state = "cached_load_l1_access" =>
                  /\ b_request_granted
                  /\ b_request_way' = {victim}
                  /\ b_request_state' = "cached_load_writeback" <=>
                       /\ victim \in vram[b_request.addr.index]
                       /\ victim \in mram[b_request.addr.index]
  BY <1>1, LoadMisses
<1>2. ASSUME b_request_state' = "cached_load_writeback"
      PROVE  b_request_way' \subseteq vram'[b_request'.addr.index]
  <2>1. b_request_state \in {"cached_load_l1_access", "cached_load_writeback"}
    <3>1. b_request_state = "cached_load_fill" => b_request_state' = "cached_load_fill"
      BY <1>1, <1>2, RequestStates
    <3> QED BY <1>1, <1>2, <3>1
  <2>2. vram'[b_request.addr.index] = vram[b_request.addr.index]
    BY <1>1, <1>2, <2>1, VictimStays
  <2>3. b_request_state = "cached_load_writeback" =>
          b_request_way' = b_request_way /\ b_request_way \subseteq vram[b_request.addr.index]
    BY WaysStep DEF DInv, VictimKnown
  <2> QED BY <1>1, <1>2, <2>1, <2>2, <2>3
<1>3. ASSUME b_request_state' = "cached_load_fill", ~b_request_granted'
      PROVE  b_request_way' \cap vram'[b_request'.addr.index] \cap mram'[b_request'.addr.index] = {}
  <2>1. (~b_request_granted /\ b_request_state = "cached_load_fill")
        \/ b_request_state = "cached_load_l1_access"
    <3>1. BusNext \notin {"request", "none"}
      BY <1>3, RequestMoves DEF WantsVtram, WantsRmdram, WantsBus
    <3>2. CASE b_request_state = "cached_load_writeback"
      <4>1. b_bus_op_state = "writeback_last"
        BY <1>1, <1>3, <3>2, RequestStates
      <4>2. b_request_granted
        BY <3>2, <4>1 DEF CInv, RequestWaits, Owned, BusUse
      <4>3. b_bus_op_owner = "request"
        BY <3>2, <4>2 DEF CInv, Owned, WantsBus
      <4> QED BY <3>1, <3>2, <4>3 DEF BusNext, RequestPassesBus
    <3>3. CASE b_request_state = "cached_load_fill" /\ b_request_granted
      <4>1. b_bus_op_owner = "request"
        BY <3>3 DEF CInv, Owned, WantsBus
      <4>2. ~sys_ready
        BY <1>1, <1>3, <3>3, Completion
      <4> QED BY <3>1, <3>3, <4>1, <4>2 DEF BusNext, RequestPassesBus
    <3> QED BY <1>1, <1>3, <3>2, <3>3
  <2>2. b_bus_op_state # "writeback_last"
    BY <1>1, <1>3, <2>1 DEF CInv, Owned, RequestWaits, BusUse, WantsVtram, WritebackStates
  <2>3. /\ vram'[b_request.addr.index] = vram[b_request.addr.index]
        /\ mram'[b_request.addr.index] = mram[b_request.addr.index]
    BY <1>1, <1>3, <2>1, <2>2, VictimStays
  <2>4. b_request_state = "cached_load_fill" =>
          /\ b_request_way' = b_request_way
          /\ b_request_way \cap vram[b_request.addr.index] \cap mram[b_request.addr.index] = {}
    BY <2>1, WaysStep DEF DInv, VictimKnown
  <2> QED BY <1>1, <1>3, <2>1, <2>3, <2>4
<1>4. ASSUME b_bus_op_state' \in WritebackStates
      PROVE  \E w \in LinesNext(b_bus_op_paddr') : b_bus_op_way' = {w}
  <2>1. CASE ~Cache!b_bus_op_complete
    <3>1. /\ b_bus_op_state \in WritebackStates /\ b_bus_op_state \notin FillStates
          /\ b_bus_op_way' = b_bus_op_way
          /\ b_bus_op_paddr \in Addr
          /\ b_bus_op_paddr'.tag = b_bus_op_paddr.tag
          /\ b_bus_op_paddr'.index = b_bus_op_paddr.index
      BY <1>4, <2>1, RamsOpGoesOn DEF FillStates, WritebackStates
    <3>2. ~Invalidating
      BY <3>1 DEF TInv, InvalidatesAlone, Invalidating, WritebackStates
    <3>3. LinesNext(b_bus_op_paddr) = Lines(b_bus_op_paddr)
      BY <3>1, <3>2, LinesStay
    <3>4. LinesNext(b_bus_op_paddr') = LinesNext(b_bus_op_paddr)
      BY <3>1 DEF LinesNext
    <3> QED BY <3>1, <3>3, <3>4 DEF DInv, VictimKnown
  <2>2. CASE Cache!b_bus_op_complete /\ b_bus_op_owner' = "request"
    <3>1. /\ b_bus_op_state' = "writeback_first"
          /\ b_request_state' \in {"cached_load_writeback", "writeback_bus_op"}
          /\ b_bus_op_way' = b_request_way'
          /\ b_bus_op_paddr' = Cache!a_request_bus_op_paddr
          /\ b_request_state' # "cached_load_writeback" => b_bus_op_paddr' = b_request'.addr
      BY <1>4, <2>2, RamsOpBegins DEF WritebackStates
    <3>2. CASE b_request_state' = "cached_load_writeback"
      <4>1. PICK w \in Ways : b_request_way' = {w}
        BY <3>2 DEF CInv, RequestWaits
      <4>2. w \in vram'[b_request'.addr.index] /\ b_request'.addr \in Addr
        BY <1>1, <1>2, <3>2, <4>1
      <4>3. PICK x \in Indexes : x = b_request'.addr.index
        BY <1>1, <3>2
      <4>4. tram'[x][w] = tram[x][w]
        BY <3>1, TramStep
      <4>5. /\ b_bus_op_paddr'.index = x
            /\ b_bus_op_paddr'.tag = tram[x][w]
        BY <3>1, <3>2, <4>1, <4>2, <4>3 DEF Cache!a_request_bus_op_paddr, Addr, Cache!Addr
      <4> QED BY <3>1, <4>1, <4>2, <4>3, <4>4, <4>5 DEF LinesNext
    <3>3. CASE b_request_state' = "writeback_bus_op"
      <4>1. ~Cache!b_request_complete /\ b_request' = b_request
        BY <3>3, RequestAndBus, RequestStep DEF WantsBus
      <4>2. b_request_state \in {"writeback_l1_access", "writeback_bus_op"}
            /\ b_request.code = "writeback"
        BY <3>3, <4>1 DEF CInv, RequestKnown
      <4>3. b_request_state # "writeback_bus_op"
        BY <2>2, <4>1, WritebackGranted, BusReady, Completion DEF WritebackStates
      <4>4. b_request_granted
        BY <3>3, <4>1, <4>2, <4>3, RequestStates
      <4>5. Cache!b_request_cache_way_hit = Lines(b_request.addr) /\ Lines(b_request.addr) # {}
        BY <4>1, <4>2, <4>3, <4>4, WritebackHits
      <4>6. b_request_way' = Lines(b_request.addr)
        <5>1. b_request_way' = Cache!b_request_way_next(victim)
          BY DEF Cycled, Cache!Clock, Cache!Request
        <5>2. b_request_state = "writeback_l1_access" => Cache!b_request_way_next(victim) =
                IF b_request_granted THEN Cache!b_request_cache_way_hit ELSE {}
          BY Zenon DEF Cache!b_request_way_next
        <5> QED BY <4>2, <4>3, <4>4, <4>5, <5>1, <5>2
      <4>7. b_request.addr \in Addr /\ used[b_request.addr.index] # "unknown"
        BY <4>2, RequestFields DEF DInv, SetsKnown, CInv, TypeOK
      <4>8. b_bus_op_state \notin FillStates /\ ~Invalidating
        BY <4>2, <4>3, <4>4 DEF CInv, Owned, WantsVtram, FillStates, Invalidating
      <4>9. LinesNext(b_request.addr) = Lines(b_request.addr)
        BY <4>7, <4>8, LinesStay
      <4>10. \A v, w \in Lines(b_request.addr) : v = w
        BY <4>7, <4>8, LineIsOne
      <4>11. PICK w \in Lines(b_request.addr) : Lines(b_request.addr) = {w}
        BY <4>5, <4>10
      <4> QED BY <3>1, <3>3, <4>1, <4>6, <4>9, <4>11
    <3> QED BY <3>1, <3>2, <3>3
  <2>3. CASE Cache!b_bus_op_complete /\ b_bus_op_owner' = "stb"
    <3>1. /\ b_bus_op_state' = "writeback_first" /\ b_stb_state' = "writeback"
          /\ b_bus_op_way' = b_stb_way' /\ b_bus_op_paddr' = Cache!a_stb_bus_op_paddr
      BY <1>4, <2>3, RamsOpBegins DEF WritebackStates
    <3>2. StbGoesOn(victim)
      BY <3>1, StbMoves DEF StbStarts
    <3>3. b_stb_state = "replace_access"
      <4>1. b_stb_state \in {"replace_access", "writeback"}
        BY <3>1, <3>2 DEF StbGoesOn
      <4>2. b_stb_state # "writeback"
        BY <2>3, <3>1, <3>2, BusReady DEF StbGoesOn, CInv, Owned, BusUse, ReplaceStates, WritebackStates
      <4> QED BY <4>1, <4>2
    <3>4. b_stb_way' = {victim} /\ victim \in Ways
      BY <3>2, <3>3, WaysStep, VictimIsWay DEF Cycled
    <3>5. /\ Cache!a_stb_head.addr = Cache!b_stb_head.addr
          /\ Cache!b_stb_head.addr \in Addr
          /\ Cache!b_stb_head.addr.index \in Indexes
      <4>1. Cache!b_stb_head' = Cache!a_stb_head /\ Cache!b_stb_head'.addr = Cache!b_stb_head.addr
        BY <3>3, HeadStays DEF Pops
      <4>2. Cache!b_stb_head \in StbEntry
        BY <3>3, HeadValid
      <4> QED BY <4>1, <4>2 DEF StbEntry, Addr, Cache!Addr
    <3>6. PICK x \in Indexes : x = Cache!b_stb_head.addr.index
      BY <3>5
    <3>7. victim \in vram[x] /\ b_bus_op_state \notin FillStates
      <4>1. Cache!b_replace_way_dirty(victim)
        BY <3>1, <3>2, <3>3 DEF StbGoesOn
      <4>2. b_vtram_owner = "stb"
        BY <3>3 DEF CInv, Owned
      <4> QED BY <3>6, <4>1, <4>2, LookedUp
              DEF Cache!b_replace_way_dirty, Cache!b_vram_rdata, CInv, Owned, FillStates
    <3>8. ~Invalidating
      BY <3>3, HeadValid DEF TInv, InvalidatesAlone, Invalidating, Cache!b_stb_empty
    <3>9. vram'[x] = vram[x] /\ tram'[x][victim] = tram[x][victim]
      BY <3>1, <3>4, <3>7, <3>8, VramStep, TramStep DEF FillStates
    <3>10. b_bus_op_paddr'.index = x /\ b_bus_op_paddr'.tag = tram[x][victim]
      BY <3>1, <3>4, <3>5, <3>6 DEF Cache!a_stb_bus_op_paddr, Addr, Cache!Addr
    <3> QED BY <3>1, <3>4, <3>7, <3>9, <3>10 DEF LinesNext
  <2> QED BY <1>4, <2>1, <2>2, <2>3, RamsOpBegins
<1>5. Lines(b_bus_op_paddr)' = LinesNext(b_bus_op_paddr')
  BY DEF Lines, LinesNext
<1> QED BY <1>2, <1>3, <1>4, <1>5 DEF VictimKnown, WritebackStates

-----------------------------------------------------------------------------
(***************************************************************************)
(* Beats.                                                                  *)
(***************************************************************************)
\* How far the beat of the watched byte is, when a bus operation begins.
LEMMA BeatsBegin ==
  ASSUME CInv, NEW i, NEW victim, Cycled(i, victim), Cache!b_bus_op_complete,
         b_bus_op_state' \in {"fill_first", "writeback_first"}
  PROVE  ToCome'
<1>1. watched' = watched /\ watched.addr.offset \in 0 .. BlockWords - 1
  BY DEF Cycled, Cache!Clock, CInv, TypeOK, Addr, Cache!Addr, Cache!Offsets
<1>2. b_bus_op_paddr'.offset \in 0 .. BlockWords - 1
  BY AddressStep DEF Addr, Cache!Addr, Cache!Offsets
<1>3. b_bus_op_block_word' = 0
  BY BusOpBegins
<1>4. PICK o \in 0 .. BlockWords - 1 : o = b_bus_op_paddr'.offset
  BY <1>2
<1>5. PICK p \in 0 .. BlockWords - 1 : p = watched.addr.offset
  BY <1>1
<1>6. (p - o) % BlockWords = IF p >= o THEN p - o ELSE p - o + BlockWords
  BY SizeAssumption, GoingRound
<1> QED BY <1>1, <1>3, <1>4, <1>5, <1>6, SizeAssumption DEF ToCome

\* Every beat brings it nearer, until it comes.
LEMMA BeatsGoOn ==
  ASSUME CInv, NEW i, NEW victim, Cycled(i, victim), ~Cache!b_bus_op_complete,
         b_bus_op_state' \in FillStates \cup WritebackStates
  PROVE  /\ ~sys_ready => (ToCome' <=> ToCome)
         /\ sys_ready /\ ~ToCome' => ~ToCome \/ b_bus_op_paddr.offset = watched.addr.offset
<1>1. watched' = watched /\ watched.addr.offset \in 0 .. BlockWords - 1
  BY DEF Cycled, Cache!Clock, CInv, TypeOK, Addr, Cache!Addr, Cache!Offsets
<1>2. /\ b_bus_op_state \in FillStates \cup WritebackStates
      /\ b_bus_op_paddr \in Addr
  BY RamsOpGoesOn
<1>3. b_bus_op_paddr.offset \in 0 .. BlockWords - 1 /\ b_bus_op_block_word \in 0 .. BlockWords - 1
  BY <1>2 DEF CInv, TypeOK, Addr, Cache!Addr, Cache!Offsets
<1>4. ASSUME ~sys_ready PROVE ToCome' <=> ToCome
  <2>1. /\ b_bus_op_block_word' = b_bus_op_block_word /\ b_bus_op_paddr' = b_bus_op_paddr
        /\ b_bus_op_state' \in {"fill_last", "writeback_last"} <=>
             b_bus_op_state \in {"fill_last", "writeback_last"}
    BY <1>2, <1>4, BusOpGoesOn DEF LastWord, FillStates, WritebackStates
  <2> QED BY <1>1, <2>1 DEF ToCome
<1>5. ASSUME sys_ready, ~ToCome', ToCome, b_bus_op_paddr.offset # watched.addr.offset
      PROVE  FALSE
  <2>1. b_bus_op_state \in {"fill_first", "fill", "writeback_first", "writeback"}
    BY <1>2, <1>5 DEF ToCome, FillStates, WritebackStates
  <2>2. /\ b_bus_op_block_word' =
             IF b_bus_op_block_word = BlockWords - 1 THEN 0 ELSE b_bus_op_block_word + 1
        /\ b_bus_op_paddr' = Cache!next_in_block(b_bus_op_paddr)
    BY <1>5, <2>1, BusOpGoesOn
  <2>3. b_bus_op_paddr'.offset = IF b_bus_op_paddr.offset = BlockWords - 1 THEN 0
                                 ELSE b_bus_op_paddr.offset + 1
    BY <1>2, <2>2, NextInBlock
  <2>4. PICK o \in 0 .. BlockWords - 1 : o = b_bus_op_paddr.offset
    BY <1>3
  <2>5. PICK p \in 0 .. BlockWords - 1 : p = watched.addr.offset
    BY <1>1
  <2>6. PICK q \in 0 .. BlockWords - 1 : q = b_bus_op_paddr'.offset
    BY <2>3, <2>4, SizeAssumption
  <2>7. /\ (p - o) % BlockWords = IF p >= o THEN p - o ELSE p - o + BlockWords
        /\ (p - q) % BlockWords = IF p >= q THEN p - q ELSE p - q + BlockWords
    BY SizeAssumption, GoingRound
  <2>8. (p - o) % BlockWords < BlockWords - b_bus_op_block_word
    BY <1>5, <2>4, <2>5 DEF ToCome
  <2>9. b_bus_op_block_word # BlockWords - 1
    BY <1>3, <1>5, <2>4, <2>5, <2>7, <2>8, SizeAssumption
  <2>10. b_bus_op_state' \notin {"fill_last", "writeback_last"}
    BY <2>1, <2>9, BusOpGoesOn DEF LastWord
  <2>11. (p - q) % BlockWords >= BlockWords - b_bus_op_block_word'
    <3>1. ~((p - q) % BlockWords < BlockWords - b_bus_op_block_word')
      BY <1>1, <1>5, <2>5, <2>6, <2>10 DEF ToCome
    <3> QED BY <1>3, <2>2, <2>7, <2>9, <3>1, SizeAssumption
  <2> QED BY <1>3, <1>5, <2>2, <2>3, <2>4, <2>5, <2>6, <2>7, <2>8, <2>9, <2>11, SizeAssumption
<1> QED BY <1>4, <1>5

\* A cycle leaves memory alone, unless a store to the watched byte is driven.
LEMMA MemoryStays ==
  ASSUME CInv, NEW i, NEW victim, Cycled(i, victim)
  PROVE  \/ memory' = memory
         \/ /\ port' # NoRequest
            /\ port'.req.write
            /\ port'.req.addr = watched.addr
            /\ watched.byte \in port'.req.bytes
            /\ memory' = port'.req.data
BY AnswerKnownKept DEF Cache!Covers

\* Beat by beat, a fill makes its way hold what memory holds, a write-back
\* makes memory hold what its way holds.
LEMMA BeatsKnownKept ==
  ASSUME CInv, TInv, DInv, CInv', NEW i, NEW victim, Cycled(i, victim)
  PROVE  BeatsKnown'
<1>1. watched' = watched /\ watched.byte \in Cache!Bytes /\ watched.addr \in Addr
  BY DEF Cycled, Cache!Clock, CInv, TypeOK
<1>2. b_bus_op_state' \in FillStates \cup WritebackStates => ~StoresWord
  BY DEF CInv, Owned, StoresWord
<1>3. ASSUME b_bus_op_state' \in FillStates, OnBlock', ~ToCome', NEW w \in b_bus_op_way'
      PROVE  dram'[w] = memory'
  <2>1. ~Cache!b_bus_op_complete
    BY <1>3, BeatsBegin, RamsOpBegins DEF FillStates
  <2>2. /\ b_bus_op_state \in {"fill_first", "fill"} /\ w \in b_bus_op_way
        /\ OnBlock /\ b_bus_op_paddr \in Addr
    <3>1. b_bus_op_state' # "fill_first"
      BY <2>1, BusOpGoesOn, RamsOpGoesOn, <1>3 DEF FillStates, WritebackStates
    <3> QED BY <1>1, <1>3, <2>1, <3>1, FillGoesOn DEF FillStates, OnBlock
  <2>3. memory' = memory
    <3>1. b_bus_op_state' = "fill_last" => port' = NoRequest
      BY DEF CInv, OnBus
    <3>2. b_bus_op_state' \in {"fill_first", "fill"} => ~port'.req.write
      BY DEF CInv, OnBus
    <3> QED BY <1>3, <3>1, <3>2, MemoryStays DEF FillStates
  <2>4. w \in Ways
    BY <2>2 DEF CInv, TypeOK
  <2>5. CASE FillsWord
    <3>1. b_bus_op_paddr = watched.addr
      BY <1>1, <2>2, <2>5 DEF FillsWord, OnBlock, Cache!SamePlace, Addr, Cache!Addr
    <3>2. port # NoRequest /\ ~port.req.write /\ port.req.addr = watched.addr /\ Answered
      BY <2>2, <2>5, <3>1 DEF CInv, OnBus, FillsWord, sys_ready, Answered
    <3>3. sys_data = memory
      BY <3>2 DEF DInv, AnswerKnown, sys_data
    <3> QED BY <2>2, <2>3, <2>4, <2>5, <3>3, DramStep
  <2>6. CASE ~FillsWord
    <3>1. ~ToCome
      <4>1. CASE sys_ready
        <5>1. b_bus_op_paddr.offset # watched.addr.offset
          BY <2>2, <2>6, <4>1 DEF FillsWord, OnBlock, Cache!SamePlace
        <5> QED BY <1>3, <2>1, <4>1, <5>1, BeatsGoOn
      <4>2. CASE ~sys_ready
        BY <1>3, <2>1, <4>2, BeatsGoOn
      <4> QED BY <4>1, <4>2
    <3>2. dram[w] = memory
      BY <2>2, <3>1 DEF DInv, BeatsKnown, FillStates
    <3>3. dram'[w] = dram[w]
      BY <1>2, <1>3, <2>4, <2>6, DramStep
    <3> QED BY <2>3, <3>2, <3>3
  <2> QED BY <2>5, <2>6
<1>4. ASSUME b_bus_op_state' \in {"writeback", "writeback_last"}, NEW w \in b_bus_op_way'
      PROVE  /\ port'.req.bytes = Cache!Bytes
             /\ Cache!SamePlace(port'.req.addr) => port'.req.data = dram'[w]
             /\ OnBlock' /\ ~ToCome' => port'.req.addr = watched.addr \/ dram'[w] = memory'
  <2>1. ~Cache!b_bus_op_complete
    BY <1>4, RamsOpBegins DEF FillStates, WritebackStates
  <2>2. /\ b_bus_op_state \in WritebackStates
        /\ b_bus_op_way' = b_bus_op_way
        /\ b_bus_op_paddr \in Addr
        /\ OnBlock' => OnBlock
    BY <1>1, <1>4, <2>1, RamsOpGoesOn DEF FillStates, WritebackStates, OnBlock
  <2>3. w \in Ways
    BY <1>4, <2>2 DEF CInv, TypeOK
  <2>4. dram'[w] = dram[w]
    <3>1. ~FillsWord
      BY <2>2 DEF FillsWord, WritebackStates
    <3> QED BY <1>2, <1>4, <2>3, <3>1, DramStep DEF WritebackStates
  <2>5. port' # NoRequest
    BY <1>4 DEF CInv, OnBus
  <2>6. memory' = memory \/ port'.req.addr = watched.addr
    BY MemoryStays
  <2>7. CASE ~sys_ready
    <3>1. b_bus_op_state \in {"writeback", "writeback_last"} /\ port'.req = port.req
      BY <2>2, <2>7, PortStep, BusReady DEF WritebackStates
    <3>2. ToCome' <=> ToCome
      BY <1>4, <2>1, <2>7, BeatsGoOn DEF WritebackStates
    <3>3. /\ port.req.bytes = Cache!Bytes
          /\ Cache!SamePlace(port.req.addr) => port.req.data = dram[w]
          /\ OnBlock /\ ~ToCome => port.req.addr = watched.addr \/ dram[w] = memory
      BY <1>4, <2>2, <3>1 DEF DInv, BeatsKnown
    <3> QED BY <2>2, <2>4, <2>6, <3>1, <3>2, <3>3
  <2>8. CASE sys_ready
    <3>1. /\ port'.req.addr = b_bus_op_paddr
          /\ port'.req.bytes = Cache!Bytes
          /\ port'.req.data = IF Cache!SamePlace(b_bus_op_paddr)
                              THEN Cache!mux_1hot(dram, b_bus_op_way) ELSE Noise
      BY <1>4, <2>5, <2>8, PortStep, Driven
    <3>2. b_bus_op_way = {w}
      BY <1>4, <2>2 DEF DInv, VictimKnown
    <3>3. Cache!mux_1hot(dram, b_bus_op_way) = dram[w]
      BY <3>2 DEF Cache!mux_1hot
    <3>4. ASSUME OnBlock', ~ToCome', b_bus_op_paddr # watched.addr
          PROVE  dram[w] = memory
      <4>1. b_bus_op_paddr.offset # watched.addr.offset
        BY <1>1, <2>2, <3>4 DEF OnBlock, Addr, Cache!Addr
      <4>2. ~ToCome
        BY <1>4, <2>1, <2>8, <3>4, <4>1, BeatsGoOn DEF WritebackStates
      <4>3. b_bus_op_state = "writeback"
        <5>1. b_bus_op_state # "writeback_last"
          BY <2>1, <2>8, BusReady
        <5>2. ASSUME b_bus_op_state = "writeback_first" PROVE FALSE
          <6>1. b_bus_op_block_word = 0
            BY <5>2 DEF CInv, BusUse
          <6>2. PICK o \in 0 .. BlockWords - 1 : o = b_bus_op_paddr.offset
            BY <2>2 DEF Addr, Cache!Addr, Cache!Offsets
          <6>3. PICK p \in 0 .. BlockWords - 1 : p = watched.addr.offset
            BY <1>1 DEF Addr, Cache!Addr, Cache!Offsets
          <6>4. (p - o) % BlockWords = IF p >= o THEN p - o ELSE p - o + BlockWords
            BY SizeAssumption, GoingRound
          <6> QED BY <4>2, <5>2, <6>1, <6>2, <6>3, <6>4, SizeAssumption DEF ToCome
        <5> QED BY <2>2, <5>1, <5>2 DEF WritebackStates
      <4>4. /\ port.req.bytes = Cache!Bytes
            /\ Cache!SamePlace(port.req.addr) => port.req.data = dram[w]
            /\ port.req.addr = watched.addr \/ dram[w] = memory
        BY <1>4, <2>2, <3>4, <4>2, <4>3 DEF DInv, BeatsKnown
      <4>5. ASSUME port.req.addr = watched.addr PROVE dram[w] = memory
        <5>1. Answered /\ port.req.write
          BY <2>8, <4>3 DEF CInv, OnBus, sys_ready, Answered
        <5>2. memory = port.req.data
          BY <1>1, <4>4, <4>5, <5>1 DEF DInv, AnswerKnown, Cache!Covers
        <5> QED BY <4>4, <4>5, <5>2 DEF Cache!SamePlace
      <4> QED BY <4>4, <4>5
    <3> QED BY <2>4, <2>6, <3>1, <3>3, <3>4
  <2> QED BY <2>7, <2>8
<1>5. \A a : Cache!SamePlace(a)' <=> Cache!SamePlace(a)
  BY <1>1 DEF Cache!SamePlace
<1> QED BY <1>1, <1>3, <1>4 DEF BeatsKnown, Cache!SamePlace

-----------------------------------------------------------------------------
(***************************************************************************)
(* The store buffer and memory.                                            *)
(***************************************************************************)
\* The entry for which a block was filled knows its way.
LEMMA HeadFilled ==
  ASSUME CInv, DInv, NEW i, NEW victim, Cycled(i, victim),
         b_stb_state = "fill", b_bus_op_state = "fill_last"
  PROVE  Cache!b_stb_head'.cache_hit /\ Cache!b_stb_head'.way = b_stb_way
<1>1. b_stb_head_ptr \in Cache!Slots /\ b_stb_array[b_stb_head_ptr] = Cache!b_stb_head
      /\ Cache!b_stb_head \in StbEntry
  BY HeadValid DEF Entry, Cache!b_stb_valid
<1>2. Cache!b_stb_array_block_change(b_stb_head_ptr) /\ b_bus_op_way = b_stb_way
  BY <1>1 DEF Cache!b_stb_array_block_change, Cache!b_block_change, Cache!b_block_change_valid,
              DInv, BusOpKnown
<1>3. ~Pops /\ b_stb_head_ptr' = b_stb_head_ptr
  BY Pointers DEF Pops
<1>4. ~(Cache!b_stb_push /\ b_stb_head_ptr = b_stb_tail_ptr)
  BY <1>1, <1>3, PushBehind, NothingAssumption
<1>5. Cache!b_stb_head' = Cache!b_stb_entry_next(b_stb_head_ptr)
  BY <1>1, <1>3, <1>4, SlotStep, NothingAssumption DEF Cache!b_stb_head
<1> QED BY <1>1, <1>2, <1>5, EntryNext

\* The store buffer writes the cache when it begins to write.
LEMMA WritesHit ==
  ASSUME CInv, DInv, NEW i, NEW victim, Cycled(i, victim),
         b_stb_state' = "write", Cache!b_stb_head'.cache_hit
  PROVE  \/ b_stb_write_cache' /\ b_stb_way' = Cache!b_stb_head'.way
         \/ /\ b_stb_state = "write" /\ ~Pops /\ ~b_stb_write_cache'
            /\ b_stb_way' = b_stb_way
            /\ b_bus_op_state = "store"
<1>1. CASE StbStarts
  BY <1>1, HeadNext DEF StbStarts
<1>2. CASE StbGoesOn(victim)
  <2>1. \/ b_stb_state = "fill" /\ b_bus_op_state = "fill_last"
        \/ b_stb_state = "write" /\ ~Pops
    BY <1>2 DEF StbGoesOn
  <2>2. CASE b_stb_state = "fill" /\ b_bus_op_state = "fill_last"
    <3>1. b_stb_way' = b_stb_way
      BY <1>2, <2>2, WaysStep
    <3>2. b_stb_write_cache'
      BY <1>2, <2>2 DEF StbGoesOn, ReplaceStates, CInv, HeadKnown
    <3> QED BY <2>2, <3>1, <3>2, HeadFilled
  <2>3. CASE b_stb_state = "write" /\ ~Pops
    <3>1. b_bus_op_state = "store"
      BY <2>3, PopsIsPop DEF Pops
    <3>2. ~b_stb_write_cache'
      BY <1>2, <2>3 DEF StbGoesOn, ReplaceStates
    <3> QED BY <1>2, <2>3, <3>1, <3>2, WaysStep
  <2> QED BY <2>1, <2>2, <2>3
<1> QED BY <1>1, <1>2, StbMoves

\* What is written to the cache is in the cache.
LEMMA StoresHit ==
  ASSUME CInv, DInv, NEW i, NEW victim, Cycled(i, victim), StoresWord
  PROVE  Cache!b_stb_head'.cache_hit /\ b_stb_way' = Cache!b_stb_head'.way
<1>1. b_stb_state' = "write" /\ b_stb_write_cache'
  BY DEF StoresWord
<1>2. Cache!b_stb_head'.cache_hit
  <2>1. CASE StbStarts
    BY <1>1, <2>1, HeadNext DEF StbStarts
  <2>2. CASE StbGoesOn(victim)
    <3>1. b_stb_state = "fill" /\ b_bus_op_state = "fill_last"
      BY <1>1, <2>2 DEF StbGoesOn, ReplaceStates
    <3> QED BY <3>1, HeadFilled
  <2> QED BY <2>1, <2>2, StbMoves
<1> QED BY <1>1, <1>2, WritesHit

\* The store buffer has written the entry at its head to the cache.
LEMMA HeadWrittenKept ==
  ASSUME CInv, TInv, DInv, CInv', NEW i, NEW victim, Cycled(i, victim)
  PROVE  HeadWritten'
<1>1. watched' = watched
  BY DEF Cycled, Cache!Clock
<1>2. SUFFICES ASSUME b_stb_state' = "write", Cache!b_stb_head'.cache_hit
               PROVE  /\ b_stb_way' = Cache!b_stb_head'.way
                      /\ Cache!Covers(Cache!b_stb_head'.addr, Cache!b_stb_head'.bytes) =>
                           \A w \in b_stb_way' : dram'[w] = Cache!b_stb_head'.data
  BY <1>1 DEF HeadWritten, Cache!Covers
<1>3. b_stb_way' \subseteq Ways
  BY WaysStep
<1>4. CASE b_stb_write_cache' /\ b_stb_way' = Cache!b_stb_head'.way
  <2>1. Cache!Covers(Cache!b_stb_head'.addr, Cache!b_stb_head'.bytes) => StoresWord
    BY <1>2, <1>4, HeadNext DEF StoresWord, Cache!Covers, Cache!SamePlace
  <2> QED BY <1>3, <1>4, <2>1, DramStep, HeadNext
<1>5. CASE /\ b_stb_state = "write" /\ ~Pops /\ ~b_stb_write_cache'
           /\ b_stb_way' = b_stb_way
           /\ b_bus_op_state = "store"
  <2>1. /\ Cache!b_stb_head'.addr = Cache!b_stb_head.addr
        /\ Cache!b_stb_head'.bytes = Cache!b_stb_head.bytes
        /\ Cache!b_stb_head'.data = Cache!b_stb_head.data
        /\ Cache!b_stb_head'.cache_hit = Cache!b_stb_head.cache_hit
        /\ Cache!b_stb_head'.way = Cache!b_stb_head.way
    BY <1>5, HeadStays
  <2>2. \A w \in Ways : dram'[w] = dram[w]
    BY <1>5, DramStep DEF FillsWord, StoresWord
  <2> QED BY <1>2, <1>3, <1>5, <2>1, <2>2 DEF DInv, HeadWritten
<1> QED BY <1>2, <1>4, <1>5, WritesHit

\* A load that is to fill a block has found no store to answer it.
LEMMA LoadKnownKept ==
  ASSUME CInv, TInv, DInv, CInv', NEW i, NEW victim, Cycled(i, victim)
  PROVE  LoadKnown'
<1> SUFFICES ASSUME b_request_state' \in {"cached_load_writeback", "cached_load_fill"},
                    NEW n \in Cache!b_stb_valid',
                    b_stb_array'[n].addr = b_request'.addr,
                    b_stb_array'[n].bytes = b_request'.bytes,
                    b_stb_array'[n].writethrough = b_request'.writethrough
             PROVE  FALSE
  BY DEF LoadKnown, Cache!b_request_stb_hit, Cache!b_request_stb_array_hit
<1>1. ~Cache!b_request_complete /\ b_request' = b_request
  BY RequestAndBus, RequestStep DEF WantsBus
<1>2. b_request.code = "load" /\ b_request.cacheen
  BY <1>1 DEF CInv, RequestKnown
<1>3. b_request_state \in {"cached_load_l1_access", "cached_load_writeback", "cached_load_fill"}
  BY <1>2 DEF CInv, RequestKnown
<1>4. ~Cache!b_request_stb_hit
  <2>1. b_request_state = "cached_load_l1_access" => ~Cache!b_request_stb_hit
    BY <1>1, BusReady, CompleteByState DEF Cache!b_request_complete_cached_load_l1_access
  <2> QED BY <1>3, <2>1 DEF DInv, LoadKnown
<1>5. ~Cache!b_stb_push
  BY <1>3, PushEntry
<1>6. /\ n \in Cache!Slots /\ n \in Cache!b_stb_valid /\ b_stb_array[n] \in StbEntry
      /\ b_stb_array'[n] = Cache!b_stb_entry_next(n)
  BY <1>5, EntryComes
<1>7. n \in Cache!b_request_stb_array_hit
  BY <1>1, <1>6, EntryNext DEF Cache!b_request_stb_array_hit
<1> QED BY <1>4, <1>7 DEF Cache!b_request_stb_hit

\* Memory changes only by what goes to the bus: a store of the store buffer, a
\* store past the cache, or a block that is written back.
LEMMA MemoryChanges ==
  ASSUME CInv, TInv, DInv, CInv', VictimKnown', BeatsKnown', NEW i, NEW victim, Cycled(i, victim)
  PROVE  \/ memory' = memory
         \/ /\ b_stb_state' = "write"
            /\ Cache!Covers(Cache!b_stb_head'.addr, Cache!b_stb_head'.bytes)
            /\ memory' = Cache!b_stb_head'.data
         \/ /\ b_request_state' = "uncached_store_bus_op"
            /\ Cache!Covers(b_request'.addr, b_request'.bytes)
            /\ memory' = b_request'.data
         \/ /\ b_bus_op_state' \in {"writeback", "writeback_last"}
            /\ OnBlock'
            /\ \E w \in LinesNext(b_bus_op_paddr') : memory' = dram'[w]
<1> SUFFICES ASSUME port' # NoRequest, port'.req.write,
                    port'.req.addr = watched.addr, watched.byte \in port'.req.bytes,
                    memory' = port'.req.data
             PROVE  \/ /\ b_stb_state' = "write"
                       /\ Cache!Covers(Cache!b_stb_head'.addr, Cache!b_stb_head'.bytes)
                       /\ memory' = Cache!b_stb_head'.data
                    \/ /\ b_request_state' = "uncached_store_bus_op"
                       /\ Cache!Covers(b_request'.addr, b_request'.bytes)
                       /\ memory' = b_request'.data
                    \/ /\ b_bus_op_state' \in {"writeback", "writeback_last"}
                       /\ OnBlock'
                       /\ \E w \in LinesNext(b_bus_op_paddr') : memory' = dram'[w]
  BY MemoryStays
<1>1. watched' = watched /\ watched.addr \in Addr
  BY DEF Cycled, Cache!Clock, CInv, TypeOK
<1>2. b_bus_op_state' \in {"store", "writeback", "writeback_last"}
  BY DEF CInv, OnBus, TypeOK, Cache!BusOpStates
<1>3. CASE b_bus_op_state' = "store"
  <2>1. b_bus_op_owner' \in {"request", "stb"}
    BY <1>3 DEF CInv, BusUse, TypeOK, Cache!Owners
  <2>2. CASE b_bus_op_owner' = "stb"
    <3>1. b_stb_state' = "write"
      BY <1>3, <2>2 DEF CInv, BusUse, Owned, ReplaceStates, FillStates, WritebackStates
    <3>2. Carries(port'.req, Cache!b_stb_head')
      BY <1>3, <2>2 DEF CInv, OnBus, Carries
    <3> QED BY <3>1, <3>2 DEF Carries, Cache!Covers
  <2>3. CASE b_bus_op_owner' = "request"
    <3>1. b_request_state' = "uncached_store_bus_op"
      BY <1>3, <2>3 DEF CInv, BusUse, Owned, WantsBus, WritebackStates
    <3>2. Carries(port'.req, b_request')
      BY <1>3, <2>3 DEF CInv, OnBus, Carries
    <3> QED BY <3>1, <3>2 DEF Carries, Cache!Covers
  <2> QED BY <2>1, <2>2, <2>3
<1>4. CASE b_bus_op_state' \in {"writeback", "writeback_last"}
  <2>1. PICK w \in LinesNext(b_bus_op_paddr') : b_bus_op_way' = {w}
    <3>1. Lines(b_bus_op_paddr)' = LinesNext(b_bus_op_paddr')
      BY DEF Lines, LinesNext
    <3> QED BY <1>4, <3>1 DEF VictimKnown, WritebackStates
  <2>2. memory' = dram'[w]
    BY <1>1, <1>4, <2>1 DEF BeatsKnown, Cache!SamePlace
  <2>3. /\ b_bus_op_paddr'.index = watched.addr.index
        /\ b_bus_op_paddr'.tag = watched.addr.tag
    BY <1>1, <1>4, NextInBlock DEF CInv, OnBus
  <2> QED BY <1>1, <1>4, <2>1, <2>2, <2>3 DEF OnBlock
<1> QED BY <1>2, <1>3, <1>4

\* The watched lines are those of the watched block, but for a way that is
\* being filled.
LEMMA WatchedAreLines ==
  /\ WatchedLines \subseteq Lines(watched.addr) \ Refilled(watched.addr.index)
  /\ b_bus_op_state \notin FillStates /\ used[watched.addr.index] # "unknown" =>
       WatchedLines = Lines(watched.addr)
BY DEF WatchedLines, Lines, Refilled, Filling, FillStates

\* So it is in the next cycle.
LEMMA WatchedAreLinesNext ==
  ASSUME watched' = watched
  PROVE  /\ WatchedLines' \subseteq LinesNext(watched.addr) \ RefilledNext(watched.addr.index)
         /\ b_bus_op_state' \notin FillStates /\ used'[watched.addr.index] # "unknown" =>
              WatchedLines' = LinesNext(watched.addr)
         /\ WatchedLines' # {} => used'[watched.addr.index] # "unknown"
BY DEF WatchedLines, LinesNext, RefilledNext, Filling, FillStates

\* The entry at the head, in the next cycle, knows its line.
LEMMA HeadTracksNext ==
  ASSUME CInv', TInv', b_stb_state' # "init", NEW a, a = Cache!b_stb_head'.addr
  PROVE  /\ Cache!b_stb_head'.cache_hit <=> LinesNext(a) \ RefilledNext(a.index) # {}
         /\ Cache!b_stb_head'.cache_hit =>
              Cache!b_stb_head'.way = LinesNext(a) \ RefilledNext(a.index)
         /\ used'[a.index] = "used"
<1>1. b_stb_head_ptr' \in Cache!b_stb_valid' /\ Entry(b_stb_head_ptr)' = Cache!b_stb_head'
  BY HeadValidNext
<1>2. \A n \in Cache!b_stb_valid' :
        /\ b_stb_array'[n].cache_hit <=>
             LinesNext(b_stb_array'[n].addr) \ RefilledNext(b_stb_array'[n].addr.index) # {}
        /\ b_stb_array'[n].cache_hit =>
             b_stb_array'[n].way =
               LinesNext(b_stb_array'[n].addr) \ RefilledNext(b_stb_array'[n].addr.index)
        /\ used'[b_stb_array'[n].addr.index] = "used"
  BY DEF TInv, EntriesTrack, InUse, Entry, Lines, LinesNext, Refilled, RefilledNext
<1>3. Cache!b_stb_head' = b_stb_array'[b_stb_head_ptr']
  BY DEF Cache!b_stb_head
<1> QED BY <1>1, <1>2, <1>3

\* When memory changes, the watched lines hold what it gets.
LEMMA WatchedMemory ==
  ASSUME CInv, TInv, DInv, CInv', TInv', SetsKnown', VictimKnown', BeatsKnown', HeadWritten',
         NEW i, NEW victim, Cycled(i, victim), memory' # memory, NEW w \in WatchedLines'
  PROVE  dram'[w] = memory'
<1>1. watched' = watched /\ watched.addr \in Addr
  BY DEF Cycled, Cache!Clock, CInv, TypeOK
<1>2. /\ w \in LinesNext(watched.addr) \ RefilledNext(watched.addr.index)
      /\ used'[watched.addr.index] # "unknown"
  BY <1>1, WatchedAreLinesNext
<1>3. PICK a \in Addr : a = watched.addr
  BY <1>1
<1>4. a.index \in Indexes
  BY DEF Addr, Cache!Addr
<1>5. CASE /\ b_stb_state' = "write"
           /\ Cache!Covers(Cache!b_stb_head'.addr, Cache!b_stb_head'.bytes)
           /\ memory' = Cache!b_stb_head'.data
  <2>1. Cache!b_stb_head'.addr = a
    BY <1>3, <1>5 DEF Cache!Covers
  <2>2. Cache!b_stb_head'.cache_hit /\ w \in Cache!b_stb_head'.way
    BY <1>2, <1>3, <1>5, <2>1, HeadTracksNext
  <2> QED BY <1>1, <1>5, <2>2 DEF HeadWritten, Cache!Covers
<1>6. CASE b_request_state' = "uncached_store_bus_op"
           /\ Cache!Covers(b_request'.addr, b_request'.bytes)
  <2>1. b_request'.code = "store" /\ ~b_request'.cacheen
    BY <1>6 DEF CInv, RequestKnown
  <2>2. used'[a.index] # "used" /\ vram'[a.index] # {}
    BY <1>2, <1>3, <1>6, <2>1 DEF SetsKnown, Cache!Covers, LinesNext
  <2>3. used'[a.index] \in {"unknown", "invalidated", "used"}
    BY <1>4 DEF CInv, TypeOK
  <2> QED BY <1>2, <1>3, <1>4, <2>2, <2>3 DEF SetsKnown
<1>7. CASE /\ b_bus_op_state' \in {"writeback", "writeback_last"}
           /\ OnBlock'
           /\ \E v \in LinesNext(b_bus_op_paddr') : memory' = dram'[v]
  <2>1. PICK v \in LinesNext(b_bus_op_paddr') : memory' = dram'[v]
    BY <1>7
  <2>2. v \in LinesNext(watched.addr)
    BY <1>1, <1>7 DEF OnBlock, LinesNext
  <2>3. \A x \in {x \in Indexes : used'[x] # "unknown"} : \A u, z \in vram'[x] \ RefilledNext(x) :
          u # z => tram'[x][u] # tram'[x][z]
    BY DEF TInv, LinesDiffer, Refilled, RefilledNext
  <2>4. RefilledNext(a.index) = {}
    BY <1>7 DEF RefilledNext
  <2>5. v = w
    BY <1>2, <1>3, <1>4, <2>2, <2>3, <2>4 DEF LinesNext
  <2> QED BY <2>1, <2>5
<1> QED BY <1>5, <1>6, <1>7, MemoryChanges

\* The last beat of a write-back has come: memory has the line.
LEMMA WrittenBack ==
  ASSUME CInv, TInv, DInv, b_bus_op_state = "writeback_last", sys_ready,
         NEW w \in b_bus_op_way, w \in WatchedLines,
         b_bus_op_paddr.index = watched.addr.index
  PROVE  dram[w] = memory
<1>1. b_bus_op_way = {w} /\ w \in Lines(b_bus_op_paddr)
  BY DEF DInv, VictimKnown, WritebackStates
<1>2. OnBlock /\ ~ToCome
  BY <1>1 DEF OnBlock, ToCome, Lines, WatchedLines
<1>3. /\ port.req.bytes = Cache!Bytes
      /\ Cache!SamePlace(port.req.addr) => port.req.data = dram[w]
      /\ port.req.addr = watched.addr \/ dram[w] = memory
  BY <1>2 DEF DInv, BeatsKnown
<1>4. ASSUME port.req.addr = watched.addr PROVE dram[w] = memory
  <2>1. Answered /\ port.req.write /\ watched.byte \in Cache!Bytes
    BY DEF CInv, OnBus, TypeOK, sys_ready, Answered
  <2>2. memory = port.req.data
    BY <1>3, <1>4, <2>1 DEF DInv, AnswerKnown, Cache!Covers
  <2> QED BY <1>3, <1>4, <2>2 DEF Cache!SamePlace
<1> QED BY <1>3, <1>4

\* A line that is not dirty may be dropped.
LEMMA CleanKnownKept ==
  ASSUME WritebacksAreAlone, CInv, TInv, DInv, CInv', TInv',
         SetsKnown', VictimKnown', BeatsKnown', HeadWritten', NEW i, NEW victim, Cycled(i, victim)
  PROVE  CleanKnown'
<1>1. watched' = watched /\ watched.addr \in Addr
  BY DEF Cycled, Cache!Clock, CInv, TypeOK
<1>2. PICK x \in Indexes : x = watched.addr.index
  BY <1>1 DEF Addr, Cache!Addr
<1>3. SUFFICES ASSUME NEW w \in WatchedLines', w \notin mram'[x], memory' = memory, dram'[w] # memory
               PROVE  /\ b_rmdram_owner' = "stb" /\ b_stb_state' = "write"
                      /\ Cache!b_stb_head'.addr.index = x
                      /\ w \in b_stb_way'
  BY <1>1, <1>2, WatchedMemory DEF CleanKnown
<1>4. WatchedLines \subseteq Ways /\ WatchedLines' \subseteq Ways
  BY <1>2, WatchedLinesStep DEF WatchedLines, CInv, TypeOK
<1>5. CASE StoresWord /\ w \in b_stb_way'
  BY <1>2, <1>5, HeadNext DEF StoresWord, Cache!SamePlace, CInv, Owned
<1>6. CASE ~(StoresWord /\ w \in b_stb_way')
  <2>1. ~(FillsWord /\ w \in b_bus_op_way)
    <3> SUFFICES ASSUME FillsWord, w \in b_bus_op_way PROVE FALSE
      OBVIOUS
    <3>1. b_bus_op_paddr.index = watched.addr.index /\ b_bus_op_state \in {"fill_first", "fill"}
      BY DEF FillsWord, Cache!SamePlace
    <3>2. w \notin WatchedLines
      BY <3>1 DEF WatchedLines, Filling
    <3> QED BY <3>1, <3>2, WatchedLinesStep
  <2>2. dram'[w] = dram[w]
    BY <1>4, <1>6, <2>1, DramStep
  <2>3. CASE w \notin WatchedLines
    <3>1. b_bus_op_state = "fill_last" /\ OnBlock /\ w \in b_bus_op_way
      BY <2>3, WatchedLinesStep
    <3>2. dram[w] = memory
      BY <3>1 DEF DInv, BeatsKnown, FillStates, ToCome
    <3> QED BY <1>3, <2>2, <3>2
  <2>4. CASE w \in WatchedLines
    <3>1. CASE b_stb_state = "write" /\ b_stb_write_cache
      <4>1. w \notin mram[x] /\ ~(Cache!b_stb_head.addr.index = x /\ w \in b_stb_way)
        BY <1>2, <1>3, <3>1, MramStep
      <4> QED BY <1>2, <1>3, <2>2, <2>4, <4>1 DEF DInv, CleanKnown
    <3>2. CASE ~(b_stb_state = "write" /\ b_stb_write_cache)
      <4>1. ~(b_rmdram_owner = "stb" /\ b_stb_state = "write")
        BY <3>2 DEF CInv, Owned
      <4>2. w \in mram[x]
        BY <1>2, <1>3, <2>2, <2>4, <4>1 DEF DInv, CleanKnown
      <4>3. /\ b_bus_op_state = "fill_last" \/ (b_bus_op_state = "writeback_last" /\ sys_ready)
            /\ b_bus_op_paddr.index = x
            /\ w \in b_bus_op_way
        BY <1>2, <1>3, <3>2, <4>2, MramStep
      <4>4. b_bus_op_state # "fill_last"
        BY <1>2, <2>4, <4>3 DEF WatchedLines, Filling
      <4> QED BY <1>2, <1>3, <2>2, <2>4, <4>3, <4>4, WrittenBack
    <3> QED BY <3>1, <3>2
  <2> QED BY <2>3, <2>4
<1> QED BY <1>5, <1>6

-----------------------------------------------------------------------------
(***************************************************************************)
(* The newest store.                                                       *)
(***************************************************************************)
\* How old an entry is.
LEMMA AgeIs ==
  ASSUME CInv, NEW n \in Cache!Slots
  PROVE  Age(n) = Turn(n, b_stb_head_ptr)
BY TurnIsAge DEF Age, CInv, TypeOK

\* So it is in the next cycle.
LEMMA AgeIsNext ==
  ASSUME CInv', NEW n \in Cache!Slots
  PROVE  Age(n)' = Turn(n, b_stb_head_ptr')
<1>1. b_stb_head_ptr' \in Cache!Slots
  BY DEF CInv, TypeOK
<1>2. Age(n)' = (n - b_stb_head_ptr') % StbEntries
  BY DEF Age
<1> QED BY <1>1, <1>2, TurnIsAge

\* The entries keep their order, and a new one is the youngest.
LEMMA AgeStep ==
  ASSUME CInv, CInv', NEW i, NEW victim, Cycled(i, victim),
         NEW n \in Cache!Slots, NEW t \in Cache!Slots, t = b_stb_tail_ptr
  PROVE  /\ Age(n) \in Nat /\ Age(n)' \in Nat
         /\ Age(n) = 0 <=> n = b_stb_head_ptr
         /\ ~(Pops /\ n = b_stb_head_ptr) => Age(n)' = IF Pops THEN Age(n) - 1 ELSE Age(n)
         /\ Cache!b_stb_push /\ n \in Cache!b_stb_valid' => Age(n)' <= Age(t)'
<1>1. /\ b_stb_head_ptr \in Cache!Slots /\ b_stb_tail_ptr \in Cache!Slots
      /\ b_stb_head_ptr' \in Cache!Slots /\ b_stb_tail_ptr' \in Cache!Slots
      /\ b_stb_head_ptr' = IF Pops THEN Cache!next_slot(b_stb_head_ptr) ELSE b_stb_head_ptr
      /\ b_stb_tail_ptr' = IF Cache!b_stb_push THEN Cache!next_slot(b_stb_tail_ptr)
                                               ELSE b_stb_tail_ptr
  BY Pointers
<1>2. PICK h \in Cache!Slots : h = b_stb_head_ptr
  BY <1>1
<1>3. PICK g \in Cache!Slots : g = b_stb_head_ptr'
  BY <1>1
<1>4. PICK u \in Cache!Slots : u = b_stb_tail_ptr'
  BY <1>1
<1>6. /\ Cache!next_slot(h) = IF h = StbEntries - 1 THEN 0 ELSE h + 1
      /\ Cache!next_slot(t) = IF t = StbEntries - 1 THEN 0 ELSE t + 1
  BY NextSlot
<1>7. Age(n) = Turn(n, h) /\ Age(n)' = Turn(n, g)
  BY <1>2, <1>3, AgeIs, AgeIsNext
<1>8. /\ n \in 0 .. StbEntries - 1 /\ h \in 0 .. StbEntries - 1 /\ g \in 0 .. StbEntries - 1
      /\ t \in 0 .. StbEntries - 1 /\ u \in 0 .. StbEntries - 1
  BY DEF Cache!Slots
<1>9. Age(n) \in Nat /\ Age(n)' \in Nat /\ (Age(n) = 0 <=> n = b_stb_head_ptr)
  BY <1>2, <1>7, <1>8, SizeAssumption DEF Turn
<1>10. ~(Pops /\ n = h) => Turn(n, g) = IF Pops THEN Turn(n, h) - 1 ELSE Turn(n, h)
  BY <1>1, <1>2, <1>3, <1>6, <1>8, SizeAssumption DEF Turn
<1>11. ASSUME Cache!b_stb_push, n \in Cache!b_stb_valid' PROVE Turn(n, g) <= Turn(t, g)
  <2>1. \/ Age(n)' < (b_stb_tail_ptr' - b_stb_head_ptr') % StbEntries
        \/ b_stb_tail_ptr' = b_stb_head_ptr'
    BY <1>11 DEF CInv, RingOrder
  <2>2. (u - g) % StbEntries = Turn(u, g)
    BY TurnIsAge
  <2>3. Turn(n, g) < Turn(u, g) \/ u = g
    BY <1>3, <1>4, <1>7, <2>1, <2>2
  <2> QED BY <1>1, <1>4, <1>6, <1>8, <1>11, <2>3, SizeAssumption DEF Turn
<1>12. Age(t)' = Turn(t, g)
  BY <1>3, AgeIsNext
<1> QED BY <1>2, <1>7, <1>9, <1>10, <1>11, <1>12

\* A store to the watched byte that enters the store buffer is the newest; else
\* the newest entry stays so, or was the last one.
LEMMA NewestStep ==
  ASSUME CInv, CInv', NEW i, NEW victim, Cycled(i, victim)
  PROVE  /\ Cache!b_stb_push /\ Cache!Covers(b_request.addr, b_request.bytes) =>
              \A t \in Cache!Slots : t = b_stb_tail_ptr =>
                Newest(t)' /\ Entry(t)'.data = b_request.data
         /\ ~(Cache!b_stb_push /\ Cache!Covers(b_request.addr, b_request.bytes)) =>
              /\ WatchedEntries' \subseteq WatchedEntries
              /\ \A n \in Cache!Slots : Newest(n) =>
                   IF Pops /\ n = b_stb_head_ptr THEN WatchedEntries' = {}
                   ELSE /\ Newest(n)'
                        /\ Entry(n)'.data = IF n \in Cache!b_stb_combine_ptr THEN b_request.data
                                            ELSE Entry(n).data
<1>1. PICK t \in Cache!Slots : t = b_stb_tail_ptr
  BY Pointers
<1>2. WatchedEntries' \subseteq Cache!Slots /\ WatchedEntries' \subseteq Cache!b_stb_valid'
  BY DEF WatchedEntries, Cache!b_stb_valid
<1>3. ASSUME Cache!b_stb_push, Cache!Covers(b_request.addr, b_request.bytes)
      PROVE  Newest(t)' /\ Entry(t)'.data = b_request.data
  <2>1. t \in WatchedEntries' /\ Entry(t)'.data = b_request.data
    BY <1>1, <1>3, WatchedEntriesStep
  <2>2. \A m \in WatchedEntries' : Age(m)' <= Age(t)'
    BY <1>1, <1>2, <1>3, AgeStep
  <2> QED BY <2>1, <2>2 DEF Newest
<1>4. ASSUME ~(Cache!b_stb_push /\ Cache!Covers(b_request.addr, b_request.bytes))
      PROVE  \A m \in WatchedEntries' :
               m \in Cache!Slots /\ m \in WatchedEntries /\ ~(Pops /\ m = b_stb_head_ptr)
  BY <1>2, <1>4, WatchedEntriesStep
<1>5. ASSUME ~(Cache!b_stb_push /\ Cache!Covers(b_request.addr, b_request.bytes)),
             NEW n \in Cache!Slots, Newest(n)
      PROVE  IF Pops /\ n = b_stb_head_ptr THEN WatchedEntries' = {}
             ELSE /\ Newest(n)'
                  /\ Entry(n)'.data = IF n \in Cache!b_stb_combine_ptr THEN b_request.data
                                      ELSE Entry(n).data
  <2>1. n \in WatchedEntries /\ \A m \in WatchedEntries : Age(m) <= Age(n)
    BY <1>5 DEF Newest
  <2>2. CASE Pops /\ n = b_stb_head_ptr
    <3>1. Age(n) = 0
      BY <1>1, <2>2, AgeStep
    <3>2. \A m \in WatchedEntries' : FALSE
      <4> TAKE m \in WatchedEntries'
      <4>1. m \in Cache!Slots /\ m \in WatchedEntries /\ m # b_stb_head_ptr
        BY <1>4, <1>5, <2>2
      <4>2. Age(m) <= 0
        BY <2>1, <3>1, <4>1
      <4>3. Age(m) \in Nat /\ Age(m) # 0
        BY <1>1, <4>1, AgeStep
      <4> QED BY <4>2, <4>3
    <3> QED BY <2>2, <3>2
  <2>3. CASE ~(Pops /\ n = b_stb_head_ptr)
    <3>1. ~(Cache!b_stb_push /\ n = b_stb_tail_ptr)
      <4>1. b_stb_array[n] # NoEntry
        BY <2>1 DEF WatchedEntries, Cache!b_stb_valid
      <4> QED BY <2>3, <4>1, PushBehind
    <3>2. n \in WatchedEntries'
          /\ Entry(n)'.data = IF n \in Cache!b_stb_combine_ptr THEN b_request.data
                              ELSE Entry(n).data
      BY <2>1, <2>3, <3>1, WatchedEntriesStep
    <3>3. \A m \in WatchedEntries' : Age(m)' <= Age(n)'
      <4> TAKE m \in WatchedEntries'
      <4>1. m \in Cache!Slots /\ m \in WatchedEntries /\ ~(Pops /\ m = b_stb_head_ptr)
        BY <1>4, <1>5
      <4>2. Age(m) <= Age(n)
        BY <2>1, <4>1
      <4>3. /\ Age(m) \in Nat /\ Age(n) \in Nat
            /\ Age(m)' = IF Pops THEN Age(m) - 1 ELSE Age(m)
            /\ Age(n)' = IF Pops THEN Age(n) - 1 ELSE Age(n)
        BY <1>1, <2>3, <4>1, AgeStep
      <4> QED BY <4>2, <4>3
    <3> QED BY <2>3, <3>2, <3>3 DEF Newest
  <2> QED BY <2>2, <2>3
<1> QED BY <1>1, <1>3, <1>4, <1>5

\* A line that a fill begins to overwrite is what memory holds.
LEMMA DroppedIsClean ==
  ASSUME CInv, TInv, DInv, CInv', NEW i, NEW victim, Cycled(i, victim),
         b_bus_op_state' = "fill_first", b_bus_op_paddr'.index = watched.addr.index,
         NEW w \in WatchedLines, w \in b_bus_op_way'
  PROVE  dram[w] = memory
<1>1. Cache!b_bus_op_complete
  BY BusOpGoesOn, RamsOpGoesOn DEF FillStates, WritebackStates
<1>2. w \in vram[watched.addr.index]
  BY DEF WatchedLines
<1>3. CASE b_bus_op_owner' = "request"
  <2>1. /\ b_request_state' = "cached_load_fill" /\ b_bus_op_way' = b_request_way'
        /\ b_bus_op_paddr'.index = b_request'.addr.index
    BY <1>1, <1>3, RamsOpBegins DEF FillStates
  <2>2. /\ ~Cache!b_request_complete /\ b_request' = b_request
        /\ b_request_state \in {"cached_load_l1_access", "cached_load_writeback",
                                "cached_load_fill"}
        /\ b_request_state = "cached_load_l1_access" =>
             /\ b_request_granted
             /\ b_request_way' = {victim}
             /\ ~(/\ victim \in vram[b_request.addr.index]
                  /\ victim \in mram[b_request.addr.index])
    BY <2>1, LoadMisses
  <2>3. b_request.addr.index = watched.addr.index /\ w \in b_request_way'
    BY <2>1, <2>2
  <2>4. CASE b_request_state = "cached_load_l1_access"
    <3>1. w \notin mram[watched.addr.index]
      BY <1>2, <2>2, <2>3, <2>4
    <3>2. b_rmdram_owner # "stb"
      BY <2>2, <2>4 DEF CInv, Owned, WantsVtram, WantsRmdram
    <3> QED BY <3>1, <3>2 DEF DInv, CleanKnown
  <2>5. CASE b_request_state = "cached_load_writeback"
    <3>1. b_bus_op_state = "writeback_last" /\ sys_ready
      BY <2>1, <2>2, <2>5, RequestStates
    <3>2. b_bus_op_owner = "request"
      BY <2>5, <3>1 DEF CInv, RequestWaits, Owned, BusUse, WantsBus
    <3>3. b_bus_op_way = b_request_way /\ b_bus_op_paddr.index = b_request.addr.index
      BY <2>5, <3>2 DEF DInv, BusOpKnown
    <3>4. b_request_way' = b_request_way
      BY <2>5, WaysStep
    <3> QED BY <2>3, <3>1, <3>3, <3>4, WrittenBack
  <2>6. CASE b_request_state = "cached_load_fill"
    <3>1. ~b_request_granted
      BY <1>1, <2>6, BusReady DEF CInv, Owned, BusUse, WantsBus
    <3>2. b_rmdram_owner # "stb"
      BY <2>6, <3>1 DEF CInv, RequestWaits, Owned
    <3>3. w \notin mram[watched.addr.index]
      BY <1>2, <2>3, <2>6, <3>1, WaysStep DEF DInv, VictimKnown
    <3> QED BY <3>2, <3>3 DEF DInv, CleanKnown
  <2> QED BY <2>2, <2>4, <2>5, <2>6
<1>4. CASE b_bus_op_owner' = "stb"
  <2>1. /\ b_stb_state' = "fill" /\ b_bus_op_way' = b_stb_way'
        /\ b_bus_op_paddr'.index = Cache!b_stb_head'.addr.index
    BY <1>1, <1>4, RamsOpBegins DEF FillStates
  <2>2. StbGoesOn(victim)
    BY <2>1, StbMoves DEF StbStarts
  <2>3. \/ b_stb_state = "replace_access" /\ ~Cache!b_replace_way_dirty(victim)
        \/ b_stb_state = "writeback" /\ b_bus_op_state = "writeback_last" /\ sys_ready
        \/ b_stb_state = "fill" /\ b_bus_op_state # "fill_last"
    BY <2>1, <2>2 DEF StbGoesOn
  <2>4. ~(b_stb_state = "fill" /\ b_bus_op_state # "fill_last")
    BY <1>1, BusReady DEF CInv, Owned, BusUse, ReplaceStates, FillStates
  <2>5. Cache!b_stb_head.addr.index = watched.addr.index
    BY <2>1, <2>3, <2>4, HeadStays DEF Pops
  <2>6. CASE b_stb_state = "replace_access" /\ ~Cache!b_replace_way_dirty(victim)
    <3>1. b_stb_way' = {victim}
      BY <2>2, <2>6, WaysStep
    <3>2. /\ Cache!b_vram_rdata = vram[watched.addr.index]
          /\ Cache!b_mram_rdata = mram[watched.addr.index]
      BY <2>5, <2>6, LookedUp DEF CInv, Owned, Cache!b_vram_rdata, Cache!b_mram_rdata
    <3>3. w \notin mram[watched.addr.index]
      BY <1>2, <2>1, <2>6, <3>1, <3>2 DEF Cache!b_replace_way_dirty
    <3> QED BY <2>6, <3>3 DEF DInv, CleanKnown
  <2>7. CASE b_stb_state = "writeback" /\ b_bus_op_state = "writeback_last" /\ sys_ready
    <3>1. b_bus_op_way = b_stb_way /\ b_bus_op_paddr.index = Cache!b_stb_head.addr.index
      BY <2>7 DEF DInv, BusOpKnown
    <3>2. b_stb_way' = b_stb_way
      BY <2>2, <2>7, WaysStep
    <3> QED BY <2>1, <2>5, <2>7, <3>1, <3>2, WrittenBack
  <2> QED BY <2>3, <2>4, <2>6, <2>7
<1> QED BY <1>1, <1>3, <1>4, RamsOpBegins DEF FillStates

\* What is where no store is on its way: in the lines, else in memory.
InPlace ==
  /\ \A w \in WatchedLines : dram[w] = expected
  /\ WatchedLines = {} => memory = expected
\* A store that leaves the store buffer has reached its line, and memory if it
\* has none.
LEMMA PoppedIsInPlace ==
  ASSUME CInv, TInv, DInv, Pops, b_stb_head_ptr \in WatchedEntries,
         Entry(b_stb_head_ptr).data = expected
  PROVE  InPlace
<1>1. /\ b_stb_state = "write"
      /\ b_stb_head_ptr \in Cache!b_stb_valid
      /\ Entry(b_stb_head_ptr) = Cache!b_stb_head
  BY HeadValid DEF Pops
<1>2. /\ Cache!Covers(Cache!b_stb_head.addr, Cache!b_stb_head.bytes)
      /\ Cache!b_stb_head.addr = watched.addr
      /\ Cache!b_stb_head.data = expected
  BY <1>1 DEF WatchedEntries, Cache!Covers
<1>3. /\ Cache!b_stb_head.cache_hit <=> Lines(watched.addr) \ Refilled(watched.addr.index) # {}
      /\ Cache!b_stb_head.cache_hit =>
           Cache!b_stb_head.way = Lines(watched.addr) \ Refilled(watched.addr.index)
      /\ used[watched.addr.index] = "used"
  BY <1>1, <1>2 DEF TInv, EntriesTrack, InUse
<1>4. \A w \in WatchedLines : Cache!b_stb_head.cache_hit /\ w \in Cache!b_stb_head.way
  BY <1>3, WatchedAreLines
<1>5. \A w \in WatchedLines : dram[w] = expected
  BY <1>1, <1>2, <1>4 DEF DInv, HeadWritten
<1>6. ASSUME WatchedLines = {} PROVE memory = expected
  <2>1. b_stb_write_bus
    <3>1. ASSUME ~b_stb_write_bus PROVE FALSE
      <4>1. b_stb_write_cache /\ Cache!b_stb_head.cache_hit
        BY <1>1, <3>1 DEF DInv, PoliciesKnown
      <4>2. b_bus_op_state \notin FillStates
        BY <1>1, <4>1 DEF CInv, Owned
      <4> QED BY <1>3, <1>6, <4>1, <4>2, WatchedAreLines
    <3> QED BY <3>1
  <2>2. b_bus_op_owner = "stb" /\ b_bus_op_state = "store" /\ sys_ready
    BY <1>1, <2>1, PopsIsPop DEF Pops
  <2>3. Answered /\ port.req.write /\ Carries(port.req, Cache!b_stb_head)
    BY <2>2 DEF CInv, OnBus, sys_ready, Answered
  <2> QED BY <1>2, <2>3 DEF DInv, AnswerKnown, Carries
<1> QED BY <1>5, <1>6 DEF InPlace

\* What is in place stays there while no store comes.
LEMMA InPlaceKept ==
  ASSUME CInv, TInv, DInv, CInv', TInv', SetsKnown', VictimKnown', BeatsKnown',
         NEW i, NEW victim, Cycled(i, victim),
         InPlace, WatchedEntries' = {}, ~WatchedStored(b_request)',
         ~InvalidatedWatched, expected' = expected
  PROVE  InPlace'
<1>1. watched' = watched /\ watched.addr \in Addr
  BY DEF Cycled, Cache!Clock, CInv, TypeOK
<1>2. WatchedLines \subseteq Ways /\ WatchedLines' \subseteq Ways
  BY <1>1, WatchedLinesStep DEF WatchedLines, CInv, TypeOK, Addr, Cache!Addr
<1>3. b_stb_state' # "init" => ~Cache!Covers(Cache!b_stb_head'.addr, Cache!b_stb_head'.bytes)
  <2> SUFFICES ASSUME b_stb_state' # "init",
                      Cache!Covers(Cache!b_stb_head'.addr, Cache!b_stb_head'.bytes)
               PROVE  b_stb_head_ptr' \in WatchedEntries'
    OBVIOUS
  <2>1. b_stb_head_ptr' \in Cache!b_stb_valid' /\ Cache!b_stb_head' = b_stb_array'[b_stb_head_ptr']
    BY HeadValidNext DEF Cache!b_stb_head
  <2> QED BY <1>1, <2>1 DEF WatchedEntries, Entry, Cache!Covers
<1>4. ASSUME NEW w \in WatchedLines' PROVE ~(StoresWord /\ w \in b_stb_way')
  <2> SUFFICES ASSUME StoresWord, w \in b_stb_way' PROVE FALSE
    OBVIOUS
  <2>1. PICK a \in Addr : a = Cache!b_stb_head'.addr
    BY HeadValidNext DEF StoresWord, StbEntry
  <2>2. w \in LinesNext(a)
    <3>1. Cache!b_stb_head'.cache_hit /\ w \in Cache!b_stb_head'.way
      BY StoresHit
    <3> QED BY <2>1, <3>1, HeadTracksNext DEF StoresWord
  <2>3. w \in LinesNext(watched.addr)
    BY <1>1, WatchedAreLinesNext
  <2>4. a.index = watched.addr.index /\ a.offset = watched.addr.offset
        /\ watched.byte \in Cache!b_stb_head'.bytes
    BY <2>1, HeadNext DEF StoresWord, Cache!SamePlace
  <2>5. a = watched.addr
    BY <1>1, <2>2, <2>3, <2>4 DEF LinesNext, Addr, Cache!Addr
  <2> QED BY <1>3, <2>1, <2>4, <2>5 DEF StoresWord, Cache!Covers
<1>5. ASSUME NEW w \in WatchedLines' PROVE dram'[w] = expected
  <2>1. CASE w \in WatchedLines
    <3>1. ~(FillsWord /\ w \in b_bus_op_way)
      BY <2>1 DEF FillsWord, Cache!SamePlace, WatchedLines, Filling
    <3>2. dram'[w] = dram[w]
      BY <1>2, <1>4, <3>1, DramStep
    <3> QED BY <2>1, <3>2 DEF InPlace
  <2>2. CASE w \notin WatchedLines
    <3>1. b_bus_op_state = "fill_last" /\ OnBlock /\ w \in b_bus_op_way
      BY <2>2, WatchedLinesStep
    <3>2. memory = expected
      BY <3>1, WatchedLinesStep DEF InPlace, FillStates
    <3>3. dram[w] = memory
      BY <3>1 DEF DInv, BeatsKnown, FillStates, ToCome
    <3>4. dram'[w] = dram[w]
      BY <1>2, <1>4, <3>1, DramStep DEF FillsWord
    <3> QED BY <3>2, <3>3, <3>4
  <2> QED BY <2>1, <2>2
<1>6. ASSUME WatchedLines' = {} PROVE memory' = expected
  <2>1. memory' = memory
    <3>1. ~(/\ b_bus_op_state' \in {"writeback", "writeback_last"}
            /\ OnBlock'
            /\ \E w \in LinesNext(b_bus_op_paddr') : memory' = dram'[w])
      <4> SUFFICES ASSUME b_bus_op_state' \in {"writeback", "writeback_last"}, OnBlock',
                          NEW w \in LinesNext(b_bus_op_paddr')
                   PROVE  FALSE
        OBVIOUS
      <4>1. w \in LinesNext(watched.addr) /\ used'[watched.addr.index] = "used"
        BY <1>1 DEF OnBlock, LinesNext, SetsKnown, WritebackStates
      <4> QED BY <1>1, <1>6, <4>1, WatchedAreLinesNext DEF FillStates
    <3>2. ~(/\ b_request_state' = "uncached_store_bus_op"
            /\ Cache!Covers(b_request'.addr, b_request'.bytes))
      BY <1>1 DEF CInv, RequestKnown, WantsBus, WatchedStored, Cache!Covers
    <3> QED BY <1>3, <3>1, <3>2, MemoryChanges
  <2>2. CASE WatchedLines = {}
    BY <2>1, <2>2 DEF InPlace
  <2>3. CASE WatchedLines # {}
    <3>1. PICK w \in WatchedLines : TRUE
      BY <2>3
    <3>2. ~(Invalidating /\ b_request.addr.index = watched.addr.index)
      BY InvalidatedIs DEF InvalidatedWatched
    <3>3. /\ b_bus_op_state' = "fill_first"
          /\ b_bus_op_paddr'.index = watched.addr.index
          /\ w \in b_bus_op_way'
      BY <1>6, <3>1, <3>2, WatchedLinesStep
    <3>4. dram[w] = memory
      BY <3>1, <3>3, DroppedIsClean
    <3> QED BY <2>1, <3>1, <3>4 DEF InPlace
  <2> QED BY <2>2, <2>3
<1> QED BY <1>5, <1>6 DEF InPlace

\* A store past the cache reaches memory, where nothing covers it.
LEMMA PastCacheIsInPlace ==
  ASSUME CInv, TInv, DInv, b_request_state = "uncached_store_bus_op",
         b_request_granted, sys_ready, WatchedStored(b_request)
  PROVE  WatchedEntries = {} /\ InPlace
<1>1. b_request.code = "store" /\ ~b_request.cacheen /\ b_request.addr = watched.addr
  BY DEF CInv, RequestKnown, WatchedStored, Cache!Covers
<1>2. PICK x \in Indexes : x = watched.addr.index
  BY DEF CInv, TypeOK, Addr, Cache!Addr
<1>3. used[x] # "used" /\ used[x] \in {"unknown", "invalidated", "used"}
  BY <1>1, <1>2 DEF DInv, SetsKnown, CInv, TypeOK
<1>4. WatchedLines = {}
  BY <1>2, <1>3 DEF WatchedLines, DInv, SetsKnown
<1>5. WatchedEntries = {}
  BY <1>2, <1>3 DEF WatchedEntries, Cache!Covers, TInv, InUse
<1>6. memory = expected
  <2>1. b_bus_op_owner = "request" /\ b_bus_op_state = "store"
    BY DEF CInv, Owned, BusUse, WantsBus
  <2>2. Answered /\ port.req.write /\ Carries(port.req, b_request)
    BY <2>1 DEF CInv, OnBus, sys_ready, Answered
  <2>3. memory = b_request.data
    BY <2>2 DEF DInv, AnswerKnown, Carries, WatchedStored
  <2> QED BY <2>3 DEF DInv, LatestKnown
<1> QED BY <1>4, <1>5, <1>6 DEF InPlace

\* A store that is complete has reached the bus, a slot of its own, or all
\* entries of the watched byte.
LEMMA StoreEnters ==
  ASSUME CInv, DInv, WatchedStored(b_request), Cache!b_request_complete
  PROVE  \/ b_request_state = "uncached_store_bus_op" /\ b_request_granted /\ sys_ready
         \/ Cache!b_stb_push
         \/ /\ WatchedEntries # {}
            /\ \A n \in WatchedEntries : n \in Cache!b_stb_combine_ptr
                                         /\ ~(Pops /\ n = b_stb_head_ptr)
<1>1. b_request.code = "store" /\ ~b_request.mmuen
      /\ Cache!Covers(b_request.addr, b_request.bytes)
  BY DEF WatchedStored
<1>2. b_request_state \in {"uncached_store_bus_op", "cached_store_l1_access"}
  BY <1>1, Completion DEF CInv, RequestKnown
<1>3. CASE b_request_state = "uncached_store_bus_op"
  BY <1>3, Completion
<1>4. CASE b_request_state = "cached_store_l1_access" /\ ~Cache!b_stb_push
  <2>1. b_request_granted /\ Cache!b_stb_store_accepted
    BY <1>1, <1>4, Completion DEF Cache!b_stb_store_accepted, Cache!b_request_mmu_error
  <2>2. Cache!b_stb_can_push \/ Cache!b_request_stb_can_combine
    <3>1. Cache!b_request_complete_cached_store_l1_access
      BY <1>4, BusReady, CompleteByState
    <3> QED BY <1>1, <3>1
            DEF Cache!b_request_complete_cached_store_l1_access, Cache!b_request_mmu_error
  <2>3. Cache!b_request_stb_can_combine
    BY <1>4, <2>1, <2>2 DEF Cache!b_stb_push
  <2>4. /\ Cache!b_request_stb_array_hit # {}
        /\ ~(b_stb_head_ptr \in Cache!b_request_stb_array_hit /\ b_stb_state # "init")
        /\ Cache!b_request_stb_array_conflict = {}
    BY <2>3 DEF Cache!b_request_stb_can_combine, Cache!b_request_stb_hit,
                Cache!b_request_stb_head_hit, Cache!b_request_stb_conflict
  <2>5. Cache!b_request_stb_array_hit \subseteq WatchedEntries
    BY <1>1 DEF Cache!b_request_stb_array_hit, WatchedEntries, Entry
  <2>6. \A n \in WatchedEntries : n \in Cache!b_request_stb_array_hit
    <3> TAKE n \in WatchedEntries
    <3>1. n \in Cache!b_stb_valid /\ b_stb_array[n].addr = b_request.addr
      BY <1>1 DEF WatchedEntries, Entry, Cache!Covers
    <3>2. b_stb_array[n].bytes = b_request.bytes
      BY <2>4, <3>1 DEF Cache!b_request_stb_array_conflict
    <3>3. b_stb_array[n].writethrough = b_request.writethrough
      BY <1>1, <3>1 DEF DInv, PoliciesKnown, Entry
    <3> QED BY <3>1, <3>2, <3>3 DEF Cache!b_request_stb_array_hit
  <2>7. Cache!b_stb_combine
    BY <2>1, <2>3 DEF Cache!b_stb_combine
  <2> QED BY <2>4, <2>5, <2>6, <2>7 DEF Cache!b_stb_combine_ptr, Pops
<1> QED BY <1>2, <1>3, <1>4

\* The newest value is what was stored last.
LEMMA LatestKnownKept ==
  ASSUME CInv, TInv, DInv, CInv', TInv', SetsKnown', VictimKnown', BeatsKnown',
         NEW i, NEW victim, Cycled(i, victim)
  PROVE  LatestKnown'
<1>1. watched' = watched /\ b_request' = i
  BY RequestStep DEF Cycled, Cache!Clock
<1>2. WatchedStored(b_request)' <=> WatchedStored(i)
  BY <1>1 DEF WatchedStored, Cache!Covers
<1>3. IF Cache!b_request_complete
      THEN expected' = IF WatchedStored(i) THEN i.data
                       ELSE IF InvalidatedWatched THEN memory'
                       ELSE expected
      ELSE expected' = expected /\ i = b_request
  BY DEF Cycled, Input, History
<1>4. InvalidatedWatched =>
        /\ Cache!b_request_complete
        /\ WatchedEntries = {} /\ ~Cache!b_stb_push
        /\ WatchedLines' = {}
  <2> SUFFICES ASSUME InvalidatedWatched
               PROVE  /\ Cache!b_request_complete
                      /\ WatchedEntries = {} /\ ~Cache!b_stb_push
                      /\ WatchedLines' = {}
    OBVIOUS
  <2>1. /\ b_request_state = "invalidate_l1_access" /\ Cache!b_request_complete
        /\ Invalidating /\ b_request.addr.index = watched.addr.index
    BY InvalidatedIs DEF InvalidatedWatched, Invalidated
  <2>2. WatchedEntries = {}
    BY <2>1 DEF TInv, InvalidatesAlone, Cache!b_stb_empty, WatchedEntries
  <2>3. ~Cache!b_stb_push
    BY <2>1, PushEntry
  <2> QED BY <2>1, <2>2, <2>3, WatchedLinesStep
<1>5. Cache!b_stb_push /\ Cache!Covers(b_request.addr, b_request.bytes) => WatchedStored(b_request)
  BY PushEntry DEF CInv, RequestKnown, WatchedStored, Cache!b_stb_push, Cache!b_stb_store_accepted,
                   Cache!b_request_mmu_error
<1>6. WatchedStored(b_request) => b_request.data = expected
  BY DEF DInv, LatestKnown
<1>7. b_stb_tail_ptr \in Cache!Slots
  BY Pointers
<1>8. ~(Cache!b_stb_push /\ Cache!Covers(b_request.addr, b_request.bytes)) /\ WatchedEntries' # {} =>
        \E n \in Cache!Slots :
          /\ Newest(n) /\ ~(Pops /\ n = b_stb_head_ptr)
          /\ Newest(n)'
          /\ WatchedStored(b_request) \/ Entry(n).data = expected
          /\ Entry(n)'.data = IF n \in Cache!b_stb_combine_ptr THEN b_request.data
                              ELSE Entry(n).data
  <2> SUFFICES ASSUME ~(Cache!b_stb_push /\ Cache!Covers(b_request.addr, b_request.bytes)),
                      WatchedEntries' # {}
               PROVE  \E n \in Cache!Slots :
                        /\ Newest(n) /\ ~(Pops /\ n = b_stb_head_ptr)
                        /\ Newest(n)'
                        /\ WatchedStored(b_request) \/ Entry(n).data = expected
                        /\ Entry(n)'.data = IF n \in Cache!b_stb_combine_ptr THEN b_request.data
                                            ELSE Entry(n).data
    OBVIOUS
  <2>1. WatchedEntries # {}
    BY NewestStep
  <2>2. PICK n \in Cache!Slots :
          Newest(n) /\ (WatchedStored(b_request) \/ Entry(n).data = expected)
    BY <2>1 DEF DInv, LatestKnown
  <2> QED BY <2>2, NewestStep
<1>9. WatchedStored(b_request)' => b_request'.data = expected'
  BY <1>1, <1>2, <1>3, <1>6
<1>10. ASSUME WatchedEntries' # {}
       PROVE  \E n \in Cache!Slots : Newest(n)' /\ (WatchedStored(b_request)' \/ Entry(n)'.data = expected')
  <2>1. ~InvalidatedWatched
    BY <1>4, <1>10, NewestStep
  <2>2. ~WatchedStored(b_request)' => expected' = expected
    BY <1>2, <1>3, <2>1
  <2>3. CASE Cache!b_stb_push /\ Cache!Covers(b_request.addr, b_request.bytes)
    <3>1. PICK t \in Cache!Slots : t = b_stb_tail_ptr
      BY <1>7
    <3>2. Newest(t)' /\ Entry(t)'.data = b_request.data
      BY <2>3, <3>1, NewestStep
    <3>3. b_request.data = expected
      BY <1>5, <1>6, <2>3
    <3> QED BY <2>2, <3>2, <3>3
  <2>4. CASE ~(Cache!b_stb_push /\ Cache!Covers(b_request.addr, b_request.bytes))
    <3>1. PICK n \in Cache!Slots :
            /\ Newest(n) /\ ~(Pops /\ n = b_stb_head_ptr)
            /\ Newest(n)'
            /\ WatchedStored(b_request) \/ Entry(n).data = expected
            /\ Entry(n)'.data = IF n \in Cache!b_stb_combine_ptr THEN b_request.data
                                ELSE Entry(n).data
      BY <1>8, <1>10, <2>4
    <3>2. n \in Cache!b_stb_combine_ptr => b_request.data = expected
      <4> SUFFICES ASSUME n \in Cache!b_stb_combine_ptr PROVE WatchedStored(b_request)
        BY <1>6
      <4>1. Cache!b_stb_store_accepted /\ n \in Cache!b_request_stb_array_hit
        BY DEF Cache!b_stb_combine_ptr, Cache!b_stb_combine
      <4>2. Cache!Covers(b_request.addr, b_request.bytes)
        BY <3>1, <4>1 DEF Newest, WatchedEntries, Entry, Cache!b_request_stb_array_hit
      <4> QED BY <4>1, <4>2 DEF CInv, RequestKnown, WatchedStored, Cache!b_stb_store_accepted,
                                Cache!b_request_mmu_error
    <3>3. ASSUME n \notin Cache!b_stb_combine_ptr, WatchedStored(b_request),
                 ~WatchedStored(b_request)'
          PROVE  FALSE
      <4>1. Cache!b_request_complete
        BY <1>2, <1>3, <3>3
      <4>2. n \in WatchedEntries
        BY <3>1 DEF Newest
      <4>3. ~Cache!b_stb_push
        BY <2>4, <3>3 DEF WatchedStored
      <4> QED BY <3>3, <4>1, <4>2, <4>3, StoreEnters, PastCacheIsInPlace
    <3> QED BY <2>2, <3>1, <3>2, <3>3
  <2> QED BY <2>3, <2>4
<1>11. ASSUME WatchedEntries' = {}, ~WatchedStored(b_request)' PROVE InPlace'
  <2>1. CASE InvalidatedWatched
    BY <1>2, <1>3, <1>4, <1>11, <2>1 DEF InPlace
  <2>2. CASE ~InvalidatedWatched
    <3>1. expected' = expected
      BY <1>2, <1>3, <1>11, <2>2
    <3>2. ~(Cache!b_stb_push /\ Cache!Covers(b_request.addr, b_request.bytes))
      BY <1>7, <1>11, NewestStep DEF Newest
    <3>3. \A n \in Cache!Slots : Newest(n) => Pops /\ n = b_stb_head_ptr
      <4>1. \A n \in Cache!Slots : ~Newest(n)'
        BY <1>11 DEF Newest
      <4> QED BY <3>2, <4>1, NewestStep
    <3>4. CASE WatchedStored(b_request)
      <4>1. Cache!b_request_complete
        BY <1>2, <1>3, <1>11, <3>4
      <4>2. ~Cache!b_stb_push
        BY <3>2, <3>4 DEF WatchedStored
      <4>3. ASSUME WatchedEntries # {},
                   \A n \in WatchedEntries : ~(Pops /\ n = b_stb_head_ptr)
            PROVE  FALSE
        <5>1. PICK n \in Cache!Slots : Newest(n)
          BY <4>3 DEF DInv, LatestKnown
        <5> QED BY <3>3, <4>3, <5>1 DEF Newest
      <4>4. InPlace
        BY <3>4, <4>1, <4>2, <4>3, StoreEnters, PastCacheIsInPlace
      <4> QED BY <1>11, <2>2, <3>1, <4>4, InPlaceKept
    <3>5. CASE ~WatchedStored(b_request)
      <4>1. CASE WatchedEntries = {}
        <5>1. InPlace
          BY <3>5, <4>1 DEF DInv, LatestKnown, InPlace
        <5> QED BY <1>11, <2>2, <3>1, <5>1, InPlaceKept
      <4>2. CASE WatchedEntries # {}
        <5>1. PICK n \in Cache!Slots : Newest(n) /\ Entry(n).data = expected
          BY <3>5, <4>2 DEF DInv, LatestKnown
        <5>2. Pops /\ n = b_stb_head_ptr
          BY <3>3, <5>1
        <5>3. InPlace
          BY <5>1, <5>2, PoppedIsInPlace DEF Newest
        <5> QED BY <1>11, <2>2, <3>1, <5>3, InPlaceKept
      <4> QED BY <4>1, <4>2
    <3> QED BY <3>4, <3>5
  <2> QED BY <2>1, <2>2
<1> QED BY <1>9, <1>10, <1>11 DEF LatestKnown, InPlace

-----------------------------------------------------------------------------
(***************************************************************************)
(* The invariant and what follows from it.                                 *)
(***************************************************************************)
\* Out of reset the cache holds nothing.
LEMMA InitValues == Init => DInv
<1> SUFFICES ASSUME Init PROVE DInv
  OBVIOUS
<1>1. /\ b_request = [code |-> "none"] /\ b_request_state = "none" /\ ~b_request_granted
      /\ b_bus_op_owner = "none" /\ b_bus_op_state = "none"
      /\ b_stb_state = "init"
      /\ Cache!b_stb_valid = {}
      /\ port = NoRequest /\ expected = memory
  BY DEF Init, Cache!Init, Cache!b_stb_valid
<1>2. \A x \in Indexes : used[x] = "unknown"
  BY DEF Init
<1>3. watched.addr.index \in Indexes
  BY DEF Init, Cache!Init, Cache!Addr
<1>4. WatchedEntries = {} /\ WatchedLines = {}
  BY <1>1, <1>2, <1>3 DEF WatchedEntries, WatchedLines
<1>5. ~WatchedStored(b_request)
  BY <1>1 DEF WatchedStored
<1>6. PoliciesKnown /\ SetsKnown
  BY <1>1, <1>2 DEF PoliciesKnown, SetsKnown, FillStates, WritebackStates
<1>7. BusOpKnown /\ VictimKnown /\ BeatsKnown
  BY <1>1 DEF BusOpKnown, VictimKnown, BeatsKnown, FillStates, WritebackStates
<1>8. AnswerKnown /\ HeadWritten /\ LoadKnown
  BY <1>1 DEF AnswerKnown, Answered, HeadWritten, LoadKnown
<1>9. CleanKnown
  BY <1>4 DEF CleanKnown
<1>10. LatestKnown
  BY <1>1, <1>4, <1>5 DEF LatestKnown
<1> QED BY <1>6, <1>7, <1>8, <1>9, <1>10 DEF DInv

\* A step keeps the invariant.
LEMMA StepValues ==
  ASSUME WritebacksAreAlone, CInv, TInv, DInv, [Next]_vars
  PROVE  DInv'
<1>1. CASE Next
  <2>1. PICK i, victim : Cycled(i, victim)
    BY <1>1, StepIsCycle
  <2>2. CInv' /\ TInv'
    BY StepControl, StepTags
  <2>3. PoliciesKnown' /\ SetsKnown' /\ BusOpKnown' /\ VictimKnown'
    BY <2>1, <2>2, PoliciesKnownKept, SetsKnownKept, BusOpKnownKept, VictimKnownKept
  <2>4. BeatsKnown' /\ AnswerKnown' /\ HeadWritten' /\ LoadKnown'
    BY <2>1, <2>2, BeatsKnownKept, AnswerKnownKept, HeadWrittenKept, LoadKnownKept
  <2>5. CleanKnown' /\ LatestKnown'
    BY <2>1, <2>2, <2>3, <2>4, CleanKnownKept, LatestKnownKept
  <2> QED BY <2>3, <2>4, <2>5 DEF DInv
<1>2. CASE UNCHANGED vars
  <2> USE <1>2 DEF vars, cache_vars
  <2>1. /\ Cache!b_stb_valid' = Cache!b_stb_valid
        /\ Cache!b_stb_head' = Cache!b_stb_head
        /\ WatchedEntries' = WatchedEntries
        /\ WatchedLines' = WatchedLines
    BY DEF Cache!b_stb_valid, Cache!b_stb_head, WatchedEntries, WatchedLines, Entry,
           Cache!Covers, Filling
  <2>2. PoliciesKnown'
    BY <2>1 DEF DInv, PoliciesKnown, Entry
  <2>3. SetsKnown'
    BY DEF DInv, SetsKnown
  <2>4. BusOpKnown'
    BY <2>1 DEF DInv, BusOpKnown
  <2>5. VictimKnown'
    BY DEF DInv, VictimKnown, Lines
  <2>6. BeatsKnown'
    BY DEF DInv, BeatsKnown, OnBlock, ToCome, Cache!SamePlace
  <2>7. AnswerKnown'
    BY DEF DInv, AnswerKnown, Answered, Cache!Covers
  <2>8. CleanKnown'
    BY <2>1 DEF DInv, CleanKnown
  <2>9. HeadWritten'
    BY <2>1 DEF DInv, HeadWritten, Cache!Covers
  <2>10. LoadKnown'
    BY <2>1 DEF DInv, LoadKnown, Cache!b_request_stb_hit, Cache!b_request_stb_array_hit
  <2>11. LatestKnown'
    BY <2>1 DEF DInv, LatestKnown, Newest, Age, Entry, WatchedStored, Cache!Covers
  <2> QED BY <2>2, <2>3, <2>4, <2>5, <2>6, <2>7, <2>8, <2>9, <2>10, <2>11 DEF DInv
<1> QED BY <1>1, <1>2

\* The data RAM, the store buffer, the bus operations and memory stay in
\* agreement about the watched byte, whatever the pipe, the bus and the
\* replacement policy do, if blocks are written back on request only where no
\* store goes past the cache.
THEOREM ValuesInductive ==
  WritebacksAreAlone => (Spec => [](CInv /\ TInv /\ DInv))
<1> SUFFICES ASSUME WritebacksAreAlone PROVE Spec => [](CInv /\ TInv /\ DInv)
  OBVIOUS
<1>1. Init => CInv /\ TInv /\ DInv
  BY InitControl, InitTags, InitValues
<1>2. CInv /\ TInv /\ DInv /\ [Next]_vars => (CInv /\ TInv /\ DInv)'
  BY StepControl, StepTags, StepValues
<1> QED BY <1>1, <1>2, PTL DEF Spec

-----------------------------------------------------------------------------
(***************************************************************************)
(* What the invariant says of the properties.                              *)
(***************************************************************************)
\* The entries differ in age.
LEMMA AgesDiffer ==
  ASSUME CInv, NEW m \in Cache!Slots, NEW n \in Cache!Slots, Age(m) <= Age(n), Age(n) <= Age(m)
  PROVE  m = n
<1>1. PICK h \in Cache!Slots : h = b_stb_head_ptr
  BY DEF CInv, TypeOK
<1>2. Age(m) = Turn(m, h) /\ Age(n) = Turn(n, h)
  BY <1>1, AgeIs
<1>3. m \in 0 .. StbEntries - 1 /\ n \in 0 .. StbEntries - 1 /\ h \in 0 .. StbEntries - 1
  BY DEF Cache!Slots
<1> QED BY <1>2, <1>3, SizeAssumption DEF Turn

\* No store is lost, and none is overtaken: the newest copy of the watched byte
\* is the value stored last.
THEOREM StoresKept == WritebacksAreAlone => (Spec => []LatestKept)
<1>1. CInv /\ DInv => LatestKept
  <2> SUFFICES ASSUME CInv, DInv, ~Pending PROVE Latest = expected
    BY DEF LatestKept
  <2>1. ~WatchedStored(b_request)
    BY DEF Pending, WatchedStored, CInv, RequestKnown
  <2>2. CASE WatchedEntries # {}
    <3>1. PICK n \in Cache!Slots : Newest(n) /\ Entry(n).data = expected
      BY <2>1, <2>2 DEF DInv, LatestKnown
    <3> DEFINE c == CHOOSE c \in WatchedEntries : \A m \in WatchedEntries : Age(m) <= Age(c)
    <3>2. c \in WatchedEntries /\ \A m \in WatchedEntries : Age(m) <= Age(c)
      BY <3>1 DEF Newest
    <3>3. Latest = Entry(c).data
      BY <2>2 DEF Latest
    <3> HIDE DEF c
    <3>4. c \in Cache!Slots
      BY <3>2 DEF WatchedEntries, Cache!b_stb_valid
    <3>5. c = n
      BY <3>1, <3>2, <3>4, AgesDiffer DEF Newest
    <3> QED BY <3>1, <3>3, <3>5
  <2>3. CASE WatchedEntries = {}
    BY <2>1, <2>3 DEF DInv, LatestKnown, Latest
  <2> QED BY <2>2, <2>3
<1> SUFFICES ASSUME WritebacksAreAlone PROVE Spec => []LatestKept
  OBVIOUS
<1>2. Spec => [](CInv /\ TInv /\ DInv)
  BY ValuesInductive
<1> QED BY <1>1, <1>2, PTL

\* A line that is valid and not dirty is what memory holds: it may be dropped.
THEOREM CleanStored == WritebacksAreAlone => (Spec => []CleanIsStored)
<1>1. DInv => CleanIsStored
  BY DEF DInv, CleanKnown, CleanIsStored
<1> SUFFICES ASSUME WritebacksAreAlone PROVE Spec => []CleanIsStored
  OBVIOUS
<1>2. Spec => [](CInv /\ TInv /\ DInv)
  BY ValuesInductive
<1> QED BY <1>1, <1>2, PTL

\* An entry of the byte that a load wants is hit, or in conflict with the load.
LEMMA WantedAreHit ==
  ASSUME DInv, b_request.code = "load", b_request.addr = watched.addr
  PROVE  WatchedEntries \subseteq
           Cache!b_request_stb_array_hit \cup Cache!b_request_stb_array_conflict
BY DEF DInv, PoliciesKnown, WatchedEntries, Entry, Cache!Covers,
       Cache!b_request_stb_array_hit, Cache!b_request_stb_array_conflict

\* A load that the bus answers gets what memory holds.
LEMMA BusGivesMemory ==
  ASSUME CInv, DInv, b_request_state \in {"uncached_load_bus_op", "cached_load_fill"},
         b_request_granted, sys_ready, b_request.addr = watched.addr
  PROVE  sys_data = memory
<1>1. b_bus_op_owner = "request"
  BY DEF CInv, Owned, WantsBus
<1>2. b_bus_op_state \in {"load", "fill_first", "fill"}
  BY <1>1 DEF CInv, BusUse
<1>3. port # NoRequest /\ ~port.req.write /\ port.req.addr = b_bus_op_paddr
  BY <1>2 DEF CInv, OnBus
<1>4. b_bus_op_paddr = watched.addr
  BY <1>1 DEF DInv, BusOpKnown
<1>5. Answered
  BY <1>3 DEF sys_ready, Answered
<1> QED BY <1>3, <1>4, <1>5 DEF sys_data, DInv, AnswerKnown

\* A load past the cache answers what memory holds, and the watched byte is not
\* in the cache or the store buffer.
LEMMA UncachedLoad ==
  ASSUME CInv, TInv, DInv, b_request_state = "uncached_load_bus_op",
         b_request_granted, sys_ready, b_request.addr = watched.addr
  PROVE  Cache!b_result_data = expected
<1>1. b_request.code = "load" /\ ~b_request.cacheen
  BY DEF CInv, RequestKnown
<1>2. PICK x \in Indexes : x = watched.addr.index
  BY DEF CInv, TypeOK, Addr, Cache!Addr
<1>3. used[x] \in {"unknown", "invalidated"}
  BY <1>1, <1>2 DEF DInv, SetsKnown, CInv, TypeOK
<1>4. WatchedLines = {}
  BY <1>2, <1>3 DEF WatchedLines, DInv, SetsKnown
<1>5. WatchedEntries = {}
  BY <1>2, <1>3 DEF WatchedEntries, TInv, InUse, Cache!Covers
<1>6. memory = expected
  BY <1>1, <1>4, <1>5 DEF DInv, LatestKnown, WatchedStored
<1>7. b_request_state = "uncached_load_bus_op" => Cache!b_result_data = sys_data
  BY Zenon DEF Cache!b_result_data
<1> QED BY <1>6, <1>7, BusGivesMemory

\* A load that fills its block answers what memory holds, and the watched byte
\* is not in the cache or the store buffer.
LEMMA FillingLoad ==
  ASSUME CInv, TInv, DInv, b_request_state = "cached_load_fill",
         b_request_granted, sys_ready, b_request.addr = watched.addr,
         ~Cache!b_request_stb_conflict
  PROVE  Cache!b_result_data = expected
<1>1. b_request.code = "load"
  BY DEF CInv, RequestKnown
<1>2. WatchedEntries = {}
  BY <1>1, WantedAreHit DEF DInv, LoadKnown, Cache!b_request_stb_hit, Cache!b_request_stb_conflict
<1>3. b_bus_op_owner = "request"
  BY DEF CInv, Owned, WantsBus
<1>4. b_bus_op_state \in FillStates /\ b_bus_op_paddr = watched.addr
  BY <1>3 DEF CInv, BusUse, FillStates, DInv, BusOpKnown
<1>5. PICK w \in Ways : b_bus_op_way = {w} /\ Lines(b_bus_op_paddr) \subseteq {w}
  BY <1>4 DEF TInv, FillKnown
<1>6. WatchedLines = {}
  BY <1>4, <1>5 DEF WatchedLines, Filling, FillStates, Lines
<1>7. memory = expected
  BY <1>1, <1>2, <1>6 DEF DInv, LatestKnown, WatchedStored
<1>8. b_request_state = "cached_load_fill" => Cache!b_result_data = sys_data
  BY Zenon DEF Cache!b_result_data
<1> QED BY <1>7, <1>8, BusGivesMemory

\* A load that one entry of the store buffer answers gets the newest store.
LEMMA BufferedLoad ==
  ASSUME CInv, DInv, b_request_state = "cached_load_l1_access",
         Cache!Covers(b_request.addr, b_request.bytes),
         ~Cache!b_request_stb_conflict, Cache!b_request_stb_hit,
         Cardinality(Cache!b_request_stb_array_hit) <= 1
  PROVE  Cache!b_result_data = expected
<1> DEFINE hit == Cache!b_request_stb_array_hit
<1>1. b_request.code = "load" /\ b_request.addr = watched.addr
  BY DEF CInv, RequestKnown, Cache!Covers
<1>2. hit \subseteq Cache!b_stb_valid /\ hit \subseteq Cache!Slots /\ hit # {}
  BY DEF Cache!b_request_stb_array_hit, Cache!b_stb_valid, Cache!b_request_stb_hit
<1>3. IsFiniteSet(Cache!Slots)
  BY FS_Interval, SizeAssumption DEF Cache!Slots
<1>4. IsFiniteSet(hit)
  BY <1>2, <1>3, FS_Subset
<1>5. Cardinality(hit) = 1
  <2> HIDE DEF hit
  <2>1. Cardinality(hit) \in Nat /\ Cardinality(hit) # 0
    BY <1>2, <1>4, FS_CardinalityType, FS_EmptySet
  <2>2. Cardinality(hit) <= 1
    BY DEF hit
  <2> QED BY <2>1, <2>2
<1>6. PICK n : hit = {n}
  BY <1>4, <1>5, FS_Singleton
<1>7. n \in Cache!b_stb_valid
  BY <1>2, <1>6
<1>8. WatchedEntries = {n}
  <2>1. WatchedEntries \subseteq {n}
    BY <1>1, <1>6, WantedAreHit DEF Cache!b_request_stb_conflict
  <2>2. n \in WatchedEntries
    <3>1. n \in Cache!b_request_stb_array_hit
      BY <1>6
    <3> QED BY <1>7, <3>1 DEF WatchedEntries, Entry, Cache!Covers, Cache!b_request_stb_array_hit
  <2> QED BY <2>1, <2>2
<1>9. Entry(n).data = expected
  BY <1>1, <1>8 DEF DInv, LatestKnown, Newest, WatchedStored
<1>10. Cache!mux_1hot(Cache!b_stb_array_data, hit) = Cache!b_stb_array_data[n]
  BY <1>6 DEF Cache!mux_1hot
<1>11. Cache!b_stb_array_data[n] = Entry(n).data
  BY <1>7 DEF Cache!b_stb_array_data, Entry
<1>12. b_request_state = "cached_load_l1_access" /\ Cache!b_request_stb_hit =>
         Cache!b_result_data = Cache!mux_1hot(Cache!b_stb_array_data, hit)
  BY Zenon DEF Cache!b_result_data
<1> QED BY <1>9, <1>10, <1>11, <1>12

\* A load that hits its line, and no store, gets what the line holds.
LEMMA HittingLoad ==
  ASSUME CInv, TInv, DInv, b_request_state = "cached_load_l1_access",
         b_request_granted, Cache!b_request_cache_hit, b_request.addr = watched.addr,
         ~Cache!b_request_stb_conflict, ~Cache!b_request_stb_hit
  PROVE  Cache!b_result_data = expected
<1>1. b_request.code = "load" /\ b_request.cacheen
  BY DEF CInv, RequestKnown
<1>2. PICK a \in Addr : a = watched.addr
  BY DEF CInv, TypeOK
<1>3. WatchedEntries = {}
  BY <1>1, WantedAreHit DEF Cache!b_request_stb_hit, Cache!b_request_stb_conflict
<1>4. b_vtram_owner = "request" /\ b_bus_op_state \notin FillStates
  BY DEF CInv, Owned, WantsVtram
<1>5. used[a.index] = "used"
  BY <1>1, <1>2 DEF TInv, InUse
<1>6. Cache!b_request_cache_way_hit = Lines(a)
  BY <1>2, <1>4, HitIsLine
<1>7. PICK w : w \in Lines(a)
  BY <1>6 DEF Cache!b_request_cache_hit
<1>8. Lines(a) = {w}
  BY <1>4, <1>5, <1>7, LineIsOne
<1>9. WatchedLines = Lines(a)
  BY <1>2, <1>4, <1>5, WatchedAreLines
<1>10. dram[w] = expected
  BY <1>1, <1>3, <1>7, <1>9 DEF DInv, LatestKnown, WatchedStored
<1>11. Cache!b_cache_read_data = Cache!mux_1hot(dram, {w})
  BY <1>6, <1>8 DEF Cache!b_cache_read_data, Cache!SamePlace
<1>12. Cache!mux_1hot(dram, {w}) = dram[w]
  BY DEF Cache!mux_1hot
<1>13. b_request_state = "cached_load_l1_access" /\ ~Cache!b_request_stb_hit =>
         Cache!b_result_data = Cache!b_cache_read_data
  BY Zenon DEF Cache!b_result_data
<1> QED BY <1>10, <1>11, <1>12, <1>13

\* A load answers the value stored last, whether it comes from the bus, the
\* store buffer or the cache, if the store buffer holds at most one entry with
\* the bytes of the load and none with other bytes of its word.
THEOREM LoadsCorrect == WritebacksAreAlone => (Spec => []LoadCorrect)
<1>1. CInv /\ TInv /\ DInv => LoadCorrect
  <2> SUFFICES ASSUME CInv, TInv, DInv, LoadAnswered,
                      Cardinality(Cache!b_request_stb_array_hit) <= 1,
                      ~Cache!b_request_stb_conflict
               PROVE  Cache!b_result_data = expected
    BY DEF LoadCorrect
  <2>1. /\ b_request.code = "load" /\ ~b_request.mmuen /\ Cache!b_request_complete
        /\ Cache!Covers(b_request.addr, b_request.bytes) /\ b_request.addr = watched.addr
    BY DEF LoadAnswered, Cache!Covers
  <2>2. b_request_state \in {"uncached_load_mmu_access", "uncached_load_bus_op",
                             "cached_load_l1_access", "cached_load_writeback",
                             "cached_load_fill"}
    BY <2>1 DEF CInv, RequestKnown, TypeOK, Accepted
  <2>3. b_request_state \notin {"uncached_load_mmu_access", "cached_load_writeback"}
    BY <2>1, Completion
  <2>4. CASE b_request_state = "uncached_load_bus_op"
    BY <2>1, <2>4, Completion, UncachedLoad
  <2>5. CASE b_request_state = "cached_load_fill"
    BY <2>1, <2>5, Completion, FillingLoad
  <2>6. CASE b_request_state = "cached_load_l1_access"
    <3>1. Cache!b_request_stb_hit \/ (b_request_granted /\ Cache!b_request_cache_hit)
      BY <2>1, <2>6, CompleteByState, BusReady
         DEF Cache!b_request_complete_cached_load_l1_access, Cache!b_request_mmu_error
    <3> QED BY <2>1, <2>6, <3>1, BufferedLoad, HittingLoad
  <2> QED BY <2>2, <2>3, <2>4, <2>5, <2>6
<1> SUFFICES ASSUME WritebacksAreAlone PROVE Spec => []LoadCorrect
  OBVIOUS
<1>2. Spec => [](CInv /\ TInv /\ DInv)
  BY ValuesInductive
<1> QED BY <1>1, <1>2, PTL

=============================================================================
