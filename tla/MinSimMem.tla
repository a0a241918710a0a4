----------------------------- MODULE MinSimMem -----------------------------
(***************************************************************************)
(* The memory of the simulated system: the request register and latency    *)
(* shifter of cpu_or1knd_i5_min_sim_top-behav.vhdl around the memory array *)
(* of hdl/sim/mem_1rw-behav.vhdl.  It never answers with an error.         *)
(*                                                                         *)
(* sys is the master side of the bus: a request or NoRequest.  The one-hot *)
(* shift register eta is the number of its position.  An access is one     *)
(* whole word; privilege and the cacheable and burst-shape fields do not   *)
(* influence the memory and are left out.                                  *)
(***************************************************************************)
EXTENDS Integers

CONSTANTS
  Addr, Data,  \* the words of memory and what they hold
  Latency,     \* cpu_or1knd_i5_min_sim_mem_latency
  NoRequest    \* request = '0' on the bus, valid = '0' in the register

VARIABLES
  b_request,  \* r.b_request
  eta,        \* r.b_request.eta: position of the bit that is set
  b_burst,    \* r.b_burst: the last request was not the end of a burst
  memory,     \* mem_1rw: entries
  dout        \* mem_1rw: registered output of the last read

ReadRequest == [write : {FALSE}, burst : BOOLEAN, addr : Addr]
WriteRequest == [write : {TRUE}, burst : BOOLEAN, addr : Addr, data : Data]
Request == ReadRequest \cup WriteRequest

b_request_complete == b_request = NoRequest \/ eta = Latency

a_request(sys) == IF b_request_complete THEN sys ELSE b_request
a_valid(sys) == a_request(sys) # NoRequest

\* Reads are fast inside a burst, writes while the burst goes on.
a_request_fast(sys) ==
  IF a_request(sys).write THEN a_request(sys).burst ELSE b_burst
a_eta(sys) ==
  IF ~b_request_complete THEN eta + 1
  ELSE IF a_request_fast(sys) THEN Latency ELSE 1

\* (mutant) The array is enabled in every cycle of the access.
a_mem_en_every(sys) == a_valid(sys)
a_mem_en(sys) == a_valid(sys) /\ a_eta(sys) = Latency

Init ==
  /\ b_request = NoRequest
  /\ eta = 1
  /\ b_burst = FALSE
  /\ memory \in [Addr -> Data]
  /\ dout \in Data

\* No request in this cycle: eta is a don't care and keeps its value.
Idle(sys) ==
  /\ ~a_valid(sys)
  /\ b_request' = NoRequest
  /\ UNCHANGED <<eta, b_burst, memory, dout>>

\* The register holds a request in the next cycle.
Register(sys) ==
  /\ a_valid(sys)
  /\ b_request' = a_request(sys)
  /\ eta' = a_eta(sys)
  /\ b_burst' = IF b_request_complete THEN a_request(sys).burst ELSE b_burst

Delay(sys) ==
  /\ Register(sys)
  /\ ~a_mem_en(sys)
  /\ UNCHANGED <<memory, dout>>

Read(sys) ==
  /\ Register(sys)
  /\ a_mem_en(sys)
  /\ ~a_request(sys).write
  /\ dout' = memory[a_request(sys).addr]
  /\ UNCHANGED memory

Write(sys) ==
  /\ Register(sys)
  /\ a_mem_en(sys)
  /\ a_request(sys).write
  /\ memory' = [memory EXCEPT ![a_request(sys).addr] = a_request(sys).data]
  /\ UNCHANGED dout

Clock(sys) == Idle(sys) \/ Delay(sys) \/ Read(sys) \/ Write(sys)
=============================================================================
