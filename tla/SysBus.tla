------------------------------- MODULE SysBus -------------------------------
(***************************************************************************)
(* The system bus: the arbiter in front of the memory, as                  *)
(* cpu_or1knd_i5_core-rtl.vhdl and cpu_or1knd_i5_min_sim_top-behav.vhdl    *)
(* connect them, with masters that drive anything the bus protocol lets    *)
(* them drive.  One step is one clock cycle.                               *)
(***************************************************************************)
EXTENDS Integers

CONSTANTS MasterCount, Addr, Data, Latency, NoRequest

VARIABLES
  valid, requested, burst_lock, request_array,  \* the arbiter's registers
  b_request, eta, b_burst, memory, dout         \* the memory's registers

Arb == INSTANCE SysMasterArb
Mem == INSTANCE MinSimMem

Masters == Arb!Masters
Request == Mem!Request

ASSUME MasterCountAssumption == MasterCount \in Nat \ {0}
ASSUME LatencyAssumption == Latency \in Nat \ {0}
\* NoRequest is no request, and no request that waits on a port either.
ASSUME NoRequestAssumption ==
  /\ NoRequest \notin Request
  /\ \A q \in Request : NoRequest # [req |-> q, done |-> FALSE]

arb_vars == <<valid, requested, burst_lock, request_array>>
mem_vars == <<b_request, eta, b_burst, memory, dout>>
vars == <<valid, requested, burst_lock, request_array,
          b_request, eta, b_burst, memory, dout>>

-----------------------------------------------------------------------------
\* The wires between the two: the slave's ready, and the ready of each port.
slave_ready == Mem!b_request_complete
master_ready(n) == Arb!master_ready(n, slave_ready)

\* The last request taken from master n was not the last of its burst.
MidBurst(n) == n \in valid /\ request_array[n].burst

\* What the masters may drive.  Between the beats of a burst a master leaves
\* no gap: it drives the next beat in the cycle in which the last completes.
\* What it drives while its port is not ready is free.
Drives ==
  {m \in [Masters -> Request \cup {NoRequest}] :
     \A n \in Masters : master_ready(n) /\ MidBurst(n) => m[n] # NoRequest}

Init == Arb!Init /\ Mem!Init

Clock(m) ==
  /\ Arb!Clock(m, slave_ready)
  /\ Mem!Clock(Arb!sys_master_out(m, slave_ready))

Next == \E m \in Drives : Clock(m)

\* The clock does not stop.
Spec == Init /\ [][Next]_vars /\ WF_vars(Next)

-----------------------------------------------------------------------------
(***************************************************************************)
(* Safety.                                                                 *)
(***************************************************************************)
\* Types of the registers.  A don't care is NoRequest in request_array.
TypeOK ==
  /\ valid \subseteq Masters
  /\ requested \subseteq Masters
  /\ burst_lock \subseteq Masters
  /\ request_array \in [Masters -> Request \cup {NoRequest}]
  /\ b_request \in Request \cup {NoRequest}
  /\ eta \in 1 .. Latency
  /\ b_burst \in BOOLEAN
  /\ memory \in [Addr -> Data]
  /\ dout \in Data

\* The arbiter and the memory agree, cycle by cycle, on the access under way:
\* the memory works for exactly the master the arbiter has marked requested,
\* on the request the arbiter holds for it, however long the access takes and
\* whatever the other masters drive meanwhile; and while the arbiter holds any
\* request the memory is never left idle.
AccessAgreement ==
  IF requested = {} THEN valid = {} /\ b_request = NoRequest
  ELSE \E n \in valid : requested = {n} /\ b_request = request_array[n]

\* The inductive invariant: besides the above, what the arbiter holds for a
\* valid master is a request and no don't care, and the lock belongs to the
\* access under way when that is a beat of a burst but the last.
HeldRequests == \A n \in valid : request_array[n] \in Request
LockHolder == burst_lock = {n \in requested : request_array[n].burst}
IInv == TypeOK /\ HeldRequests /\ LockHolder /\ AccessAgreement

\* A burst is not broken up: when the memory completes a beat that is not the
\* last of its burst, the next access is the same master's.
BurstStep ==
  \A n \in Masters :
    n \in requested /\ slave_ready /\ MidBurst(n) => requested' = {n}
BurstsUnbroken == [][BurstStep]_vars

\* The ports keep the promise of SysBusSpec: a request that was taken is
\* served once, on the word it names, and its answer is on the bus in the one
\* cycle in which its own port becomes ready.
port ==
  [n \in Masters |->
     IF n \notin valid THEN NoRequest
     ELSE IF ~(n \in requested /\ slave_ready)
          THEN [req |-> request_array[n], done |-> FALSE]
     ELSE IF request_array[n].write
          THEN [req |-> request_array[n], done |-> TRUE]
     ELSE [req |-> request_array[n], done |-> TRUE, data |-> dout]]

Promise == INSTANCE SysBusSpec
PromiseKept == Promise!Spec

(***************************************************************************)
(* Liveness.                                                               *)
(***************************************************************************)
\* The instruction side of the core is master 0 and has priority: unless
\* another master bursts for ever, every request it hands over is answered.
\* (Nothing of the kind holds for the others, which it can starve.)
PriorityServed ==
  []<>(burst_lock \subseteq {0}) => (0 \in valid ~> master_ready(0))
=============================================================================
