---------------------------- MODULE SysBusProofs ----------------------------
(***************************************************************************)
(* The safety of SysBus, proved for every number of masters, every latency *)
(* and every set of words.                                                 *)
(***************************************************************************)
EXTENDS SysBus, WellFoundedInduction, TLAPS

USE DEF Masters, Request

\* The fixed-priority chooser selects one of the bits it is given, if there
\* is one, and never two (logic_pkg.prioritize_none).
LEMMA PrioritizeNone ==
  ASSUME NEW S, S \subseteq Masters
  PROVE  IF S = {} THEN Arb!prioritize_none(S) = {}
         ELSE \E n \in S : Arb!prioritize_none(S) = {n}
<1>1. CASE S = {}
  BY <1>1 DEF Arb!prioritize_none
<1>2. CASE S # {}
  <2>1. S \subseteq Nat
    BY MasterCountAssumption DEF Arb!Masters
  <2> DEFINE lt == {ss \in Nat \X Nat : ss[1] < ss[2]}
  <2>2. IsWellFoundedOn(lt, Nat)
    BY NatLessThanWellFounded, Zenon DEF OpToRel
  <2> HIDE DEF lt
  <2>3. PICK n \in S : \A k \in S : ~ (<<k, n>> \in lt)
    BY <1>2, <2>1, <2>2, WFMin
  <2>4. \A k \in S : n <= k
    <3>1. SUFFICES ASSUME NEW k \in S PROVE n <= k
      OBVIOUS
    <3>2. k \in Nat /\ n \in Nat
      BY <2>1
    <3>3. <<k, n>> \notin lt
      BY <2>3
    <3>4. ~ (k < n)
      BY <3>2, <3>3 DEF lt
    <3> QED
      BY <3>2, <3>4
  <2>5. Arb!prioritize_none(S) = {n}
    <3>1. \A x \in S : (\A k \in S : x <= k) => x = n
      BY <2>1, <2>4
    <3> QED
      BY <2>4, <3>1 DEF Arb!prioritize_none
  <2> QED
    BY <1>2, <2>5
<1> QED
  BY <1>1, <1>2

(***************************************************************************)
(* One clock cycle.                                                        *)
(***************************************************************************)
\* A request is a record with a Boolean field burst, and NoRequest is none.
LEMMA RequestFields ==
  ASSUME NEW q \in Request
  PROVE  q.write \in BOOLEAN /\ q.burst \in BOOLEAN /\ q # NoRequest
BY NoRequestAssumption DEF Mem!Request, Mem!ReadRequest, Mem!WriteRequest

\* Merging the inputs keeps every held request, and gives every master that
\* will be valid a request.
LEMMA Merge ==
  ASSUME IInv, NEW m \in Drives
  PROVE  /\ Arb!request_array_c(m, slave_ready)
              \in [Masters -> Request \cup {NoRequest}]
         /\ Arb!pending(slave_ready) \subseteq valid
         /\ Arb!new_valid(m) \subseteq Masters
         /\ \A n \in Arb!pending(slave_ready) :
              Arb!request_array_c(m, slave_ready)[n] = request_array[n]
         /\ \A n \in Arb!new_valid(m) \cup Arb!pending(slave_ready) :
              Arb!request_array_c(m, slave_ready)[n] \in Request
BY DEF IInv, TypeOK, HeldRequests, Drives, Arb!request_array_c,
       Arb!use_new_request, Arb!pending, Arb!new_valid

\* The selector is one-hot, selects a master that has a request, and is empty
\* only if none has one; the slave sees that master's request.
LEMMA Selection ==
  ASSUME IInv, NEW m \in Drives
  PROVE  LET sel == Arb!request_sel(m, slave_ready)
             asking == Arb!new_valid(m) \cup Arb!pending(slave_ready)
             sys == Arb!sys_master_out(m, slave_ready)
         IN  IF sel = {} THEN asking = {} /\ sys = NoRequest
             ELSE \E n \in asking :
                    sel = {n} /\ sys = Arb!request_array_c(m, slave_ready)[n]
<1> DEFINE sel == Arb!request_sel(m, slave_ready)
           asking == Arb!new_valid(m) \cup Arb!pending(slave_ready)
<1>1. IF sel = {} THEN asking = {} ELSE \E n \in asking : sel = {n}
  <2>1. CASE Arb!any_not_ready(slave_ready)
    <3>1. requested # {} /\ ~slave_ready /\ sel = requested
      BY <2>1 DEF Arb!any_not_ready, Arb!request_sel
    <3>2. PICK n \in valid : requested = {n}
      BY <3>1 DEF IInv, AccessAgreement
    <3>3. n \in Arb!pending(slave_ready)
      BY <3>1, <3>2 DEF Arb!pending
    <3> QED
      BY <3>1, <3>2, <3>3
  <2>2. CASE ~Arb!any_not_ready(slave_ready) /\ Arb!any_burst_lock
    <3>1. requested # {} /\ slave_ready /\ sel = burst_lock /\ burst_lock # {}
      BY <2>2 DEF Arb!any_not_ready, Arb!any_burst_lock, Arb!request_sel,
                  IInv, LockHolder
    <3>2. PICK n \in valid : requested = {n}
      BY <3>1 DEF IInv, AccessAgreement
    <3>3. burst_lock = {n} /\ request_array[n].burst
      BY <3>1, <3>2 DEF IInv, LockHolder
    <3>4. n \in Masters /\ n \notin Arb!pending(slave_ready)
      BY <3>1, <3>2 DEF Arb!pending, IInv, TypeOK
    <3>5. m[n] # NoRequest
      BY <3>2, <3>3, <3>4 DEF Drives, master_ready, Arb!master_ready, MidBurst
    <3>6. n \in Arb!new_valid(m)
      BY <3>4, <3>5 DEF Arb!new_valid
    <3> QED
      BY <3>1, <3>3, <3>6
  <2>3. CASE ~Arb!any_not_ready(slave_ready) /\ ~Arb!any_burst_lock
    <3>1. sel = Arb!prioritize_none(asking)
      BY <2>3 DEF Arb!request_sel
    <3>2. asking \subseteq Masters
      BY Merge DEF IInv, TypeOK
    <3> QED
      BY <3>1, <3>2, PrioritizeNone
  <2> QED
    BY <2>1, <2>2, <2>3
<1>2. IF sel = {} THEN Arb!sys_master_out(m, slave_ready) = NoRequest
      ELSE \A n : sel = {n} =>
             Arb!sys_master_out(m, slave_ready)
               = Arb!request_array_c(m, slave_ready)[n]
  BY DEF Arb!sys_master_out
<1> QED
  BY <1>1, <1>2

\* Whichever way the arbiter steps, its registers take the merged requests,
\* the selection and the burst bits of the selection.
LEMMA ArbiterStep ==
  ASSUME IInv, NEW m \in Drives, Arb!Clock(m, slave_ready)
  PROVE  LET sel == Arb!request_sel(m, slave_ready)
             arr == Arb!request_array_c(m, slave_ready)
         IN  /\ valid' = Arb!new_valid(m) \cup Arb!pending(slave_ready)
             /\ request_array' = arr
             /\ requested' = sel
             /\ burst_lock' = {n \in sel : arr[n].burst}
<1>1. CASE Arb!Hold(m, slave_ready)
  <2>1. /\ requested # {} /\ ~slave_ready
        /\ Arb!request_sel(m, slave_ready) = requested
        /\ requested' = requested /\ burst_lock' = burst_lock
    BY <1>1 DEF Arb!Hold, Arb!any_not_ready, Arb!request_sel
  <2>2. PICK n \in valid : requested = {n}
    BY <2>1 DEF IInv, AccessAgreement
  <2>3. Arb!request_array_c(m, slave_ready)[n] = request_array[n]
    BY <2>1, <2>2, Merge DEF Arb!pending
  <2>4. burst_lock = {k \in requested : request_array[k].burst}
    BY DEF IInv, LockHolder
  <2> QED
    BY <1>1, <2>1, <2>2, <2>3, <2>4 DEF Arb!Hold, Arb!Capture
<1>2. CASE Arb!Grant(m, slave_ready)
  BY <1>2 DEF Arb!Grant, Arb!Capture
<1> QED
  BY <1>1, <1>2 DEF Arb!Clock, Arb!ContinueBurst, Arb!Arbitrate

\* The memory registers the request on its port, whether it takes a new one
\* or still works on the last; and its array is read or written exactly when
\* the access completes.
LEMMA MemoryStep ==
  ASSUME IInv, NEW m \in Drives,
         Mem!Clock(Arb!sys_master_out(m, slave_ready))
  PROVE  LET sys == Arb!sys_master_out(m, slave_ready)
         IN  /\ sys \in Request \cup {NoRequest}
             /\ b_request' = sys
             /\ eta' \in 1 .. Latency
             /\ b_burst' \in BOOLEAN
             /\ IF sys # NoRequest /\ eta' = Latency
                THEN /\ memory' = IF sys.write
                                  THEN [memory EXCEPT ![sys.addr] = sys.data]
                                  ELSE memory
                     /\ dout' = IF sys.write THEN dout ELSE memory[sys.addr]
                ELSE UNCHANGED <<memory, dout>>
<1> DEFINE sys == Arb!sys_master_out(m, slave_ready)
<1>1. sys \in Request \cup {NoRequest}
  BY Selection, Merge
<1>2. Mem!a_request(sys) = sys
  <2>1. CASE slave_ready
    BY <2>1 DEF Mem!a_request, slave_ready
  <2>2. CASE ~slave_ready
    <3>1. b_request # NoRequest
      BY <2>2 DEF slave_ready, Mem!b_request_complete
    <3>2. PICK n \in valid : requested = {n} /\ b_request = request_array[n]
      BY <3>1 DEF IInv, AccessAgreement
    <3>3. Arb!request_sel(m, slave_ready) = {n}
      BY <2>2, <3>2 DEF Arb!request_sel, Arb!any_not_ready
    <3>4. Arb!request_array_c(m, slave_ready)[n] = request_array[n]
      BY <2>2, <3>2, Merge DEF Arb!pending
    <3>5. sys = b_request
      BY <3>2, <3>3, <3>4, Selection
    <3> QED
      BY <2>2, <3>5 DEF Mem!a_request, slave_ready
  <2> QED
    BY <2>1, <2>2
<1> HIDE DEF sys
<1>3. CASE sys = NoRequest
  <2>1. Mem!Idle(sys)
    BY <1>2, <1>3 DEF sys, Mem!Clock, Mem!Delay, Mem!Read, Mem!Write,
                      Mem!Register, Mem!a_valid
  <2> QED
    BY <1>1, <1>3, <2>1 DEF Mem!Idle, IInv, TypeOK, sys
<1>4. CASE sys # NoRequest
  <2>1. sys.write \in BOOLEAN /\ sys.burst \in BOOLEAN
    BY <1>1, <1>4, RequestFields
  <2>2. /\ Mem!Register(sys)
        /\ IF Mem!a_eta(sys) = Latency
           THEN /\ memory' = IF sys.write
                             THEN [memory EXCEPT ![sys.addr] = sys.data]
                             ELSE memory
                /\ dout' = IF sys.write THEN dout ELSE memory[sys.addr]
           ELSE UNCHANGED <<memory, dout>>
    BY <1>2, <1>4, <2>1 DEF sys, Mem!Clock, Mem!Idle, Mem!Delay, Mem!Read,
                            Mem!Write, Mem!a_valid, Mem!a_mem_en, Mem!Register
  <2>3. b_request' = sys /\ eta' = Mem!a_eta(sys) /\ b_burst' \in BOOLEAN
    BY <1>2, <2>1, <2>2 DEF Mem!Register, IInv, TypeOK
  <2>4. Mem!a_eta(sys) \in 1 .. Latency
    <3>1. eta \in 1 .. Latency /\ Latency \in Nat \ {0}
      BY LatencyAssumption DEF IInv, TypeOK
    <3>2. CASE Mem!b_request_complete
      BY <3>1, <3>2 DEF Mem!a_eta
    <3>3. CASE ~Mem!b_request_complete
      BY <3>1, <3>3 DEF Mem!a_eta, Mem!b_request_complete
    <3> QED
      BY <3>2, <3>3
  <2> QED
    BY <1>1, <1>4, <2>2, <2>3, <2>4 DEF sys
<1> QED
  BY <1>3, <1>4

(***************************************************************************)
(* The inductive invariant, and what follows from it.                      *)
(***************************************************************************)
LEMMA InitInvariant == Init => IInv
<1> SUFFICES ASSUME Init PROVE IInv
  OBVIOUS
<1>1. TypeOK
  <2>1. 1 \in 1 .. Latency
    BY LatencyAssumption
  <2> QED
    BY <2>1 DEF Init, Arb!Init, Mem!Init, TypeOK
<1>2. HeldRequests /\ LockHolder /\ AccessAgreement
  BY DEF Init, Arb!Init, Mem!Init, HeldRequests, LockHolder, AccessAgreement
<1> QED
  BY <1>1, <1>2 DEF IInv

LEMMA StepInvariant == IInv /\ [Next]_vars => IInv'
<1> SUFFICES ASSUME IInv, [Next]_vars PROVE IInv'
  OBVIOUS
<1>1. CASE UNCHANGED vars
  BY <1>1 DEF vars, IInv, TypeOK, HeldRequests, LockHolder, AccessAgreement
<1>2. ASSUME NEW m \in Drives, Clock(m) PROVE IInv'
  <2> DEFINE sel == Arb!request_sel(m, slave_ready)
             arr == Arb!request_array_c(m, slave_ready)
             asking == Arb!new_valid(m) \cup Arb!pending(slave_ready)
             sys == Arb!sys_master_out(m, slave_ready)
  <2>1. /\ valid' = asking /\ request_array' = arr /\ requested' = sel
        /\ burst_lock' = {n \in sel : arr[n].burst}
    BY <1>2, ArbiterStep DEF Clock
  <2>2. /\ b_request' = sys /\ sys \in Request \cup {NoRequest}
        /\ eta' \in 1 .. Latency /\ b_burst' \in BOOLEAN
        /\ IF sys # NoRequest /\ eta' = Latency
           THEN /\ memory' = IF sys.write
                             THEN [memory EXCEPT ![sys.addr] = sys.data]
                             ELSE memory
                /\ dout' = IF sys.write THEN dout ELSE memory[sys.addr]
           ELSE UNCHANGED <<memory, dout>>
    BY <1>2, MemoryStep DEF Clock
  <2>3. /\ arr \in [Masters -> Request \cup {NoRequest}]
        /\ asking \subseteq Masters
        /\ \A n \in asking : arr[n] \in Request
    BY Merge DEF IInv, TypeOK
  <2>4. IF sel = {} THEN asking = {} /\ sys = NoRequest
        ELSE \E n \in asking : sel = {n} /\ sys = arr[n]
    BY Selection
  <2> HIDE DEF sel, arr, asking, sys
  <2>5. sel \subseteq Masters
    BY <2>3, <2>4
  <2>6. memory' \in [Addr -> Data] /\ dout' \in Data
    <3>1. sys = NoRequest \/ sys \in Mem!ReadRequest \/ sys \in Mem!WriteRequest
      BY <2>2 DEF Mem!Request
    <3>2. memory \in [Addr -> Data] /\ dout \in Data
      BY DEF IInv, TypeOK
    <3> QED
      BY <2>2, <3>1, <3>2 DEF Mem!ReadRequest, Mem!WriteRequest
  <2>7. TypeOK'
    BY <2>1, <2>2, <2>3, <2>5, <2>6 DEF TypeOK
  <2>8. HeldRequests'
    BY <2>1, <2>3 DEF HeldRequests
  <2>9. LockHolder'
    BY <2>1 DEF LockHolder
  <2>10. AccessAgreement'
    BY <2>1, <2>2, <2>4 DEF AccessAgreement
  <2> QED
    BY <2>7, <2>8, <2>9, <2>10 DEF IInv
<1> QED
  BY <1>1, <1>2 DEF Next

\* The registers keep their types, and the inductive invariant holds, in
\* every reachable state.
THEOREM Invariance == Spec => []IInv
<1> QED
  BY InitInvariant, StepInvariant, PTL DEF Spec

THEOREM TypeCorrect == Spec => []TypeOK
<1>1. IInv => TypeOK
  BY DEF IInv
<1> QED
  BY <1>1, Invariance, PTL

\* Arbiter and memory always agree on the access under way, for any number
\* of masters: the memory never works on a request no master holds, and is
\* never left idle while one does.
THEOREM AccessAgreed == Spec => []AccessAgreement
<1>1. IInv => AccessAgreement
  BY DEF IInv
<1> QED
  BY <1>1, Invariance, PTL

\* No master gets in between two beats of another's burst.
THEOREM BurstAtomicity == Spec => BurstsUnbroken
<1>1. IInv /\ [Next]_vars => [BurstStep]_vars
  <2> SUFFICES ASSUME IInv, NEW m \in Drives, Clock(m),
                      NEW n \in Masters,
                      n \in requested, slave_ready, MidBurst(n)
               PROVE  requested' = {n}
    BY DEF Next, BurstStep
  <2>1. requested = {n}
    BY DEF IInv, AccessAgreement
  <2>2. burst_lock = {n}
    BY <2>1 DEF IInv, LockHolder, MidBurst
  <2>3. Arb!request_sel(m, slave_ready) = {n}
    BY <2>1, <2>2 DEF Arb!request_sel, Arb!any_not_ready, Arb!any_burst_lock
  <2> QED
    BY <2>3, ArbiterStep DEF Clock
<1> QED
  BY <1>1, Invariance, PTL DEF Spec, BurstsUnbroken

(***************************************************************************)
(* The bus keeps the promise of SysBusSpec: every cycle of the arbiter and *)
(* the memory is a cycle of it in which nobody or one master is served.    *)
(***************************************************************************)
\* The ports of the masters that are pending do not become ready and keep
\* their request; all others are ready for a new one.
LEMMA PortReadiness ==
  ASSUME IInv, NEW n \in Masters
  PROVE  IF n \in Arb!pending(slave_ready)
         THEN ~Promise!Ready(n) /\ port[n] = Promise!Waiting(request_array[n])
         ELSE Promise!Ready(n)
<1>1. CASE n \in Arb!pending(slave_ready)
  <2>1. n \in valid /\ ~(n \in requested /\ slave_ready)
    BY <1>1 DEF Arb!pending
  <2>2. port[n] = [req |-> request_array[n], done |-> FALSE]
    BY <2>1 DEF port
  <2>3. request_array[n] \in Request
    BY <2>1 DEF IInv, HeldRequests
  <2> QED
    BY <1>1, <2>2, <2>3, NoRequestAssumption
       DEF Promise!Ready, Promise!Waiting
<1>2. CASE n \notin Arb!pending(slave_ready)
  <2>1. n \notin valid \/ (n \in requested /\ slave_ready)
    BY <1>2 DEF Arb!pending
  <2>2. port[n] = NoRequest \/ port[n].done
    BY <2>1 DEF port
  <2> QED
    BY <1>2, <2>2 DEF Promise!Ready
<1> QED
  BY <1>1, <1>2

\* A cycle in which the memory does not complete an access for master n.
LEMMA PortUnserved ==
  ASSUME IInv, NEW m \in Drives, Clock(m), NEW n \in Masters,
         ~(n \in requested /\ slave_ready)'
  PROVE  Promise!Unserved(n)
<1> DEFINE arr == Arb!request_array_c(m, slave_ready)
<1>1. /\ valid' = Arb!new_valid(m) \cup Arb!pending(slave_ready)
      /\ request_array' = arr
  BY ArbiterStep DEF Clock
<1>2. port'[n] = IF n \notin valid' THEN NoRequest
                 ELSE Promise!Waiting(arr[n])
  BY <1>1 DEF port, Promise!Waiting
<1>3. CASE n \in Arb!pending(slave_ready)
  BY <1>1, <1>2, <1>3, Merge, PortReadiness DEF Promise!Unserved
<1>4. CASE n \notin Arb!pending(slave_ready)
  BY <1>1, <1>2, <1>4, Merge, PortReadiness DEF Promise!Unserved
<1> QED
  BY <1>3, <1>4

\* A cycle in which the memory completes the access of master s.
LEMMA PortServed ==
  ASSUME IInv, NEW m \in Drives, Clock(m), NEW s \in Masters,
         (requested = {s} /\ slave_ready)'
  PROVE  Promise!Served(s)
<1> DEFINE arr == Arb!request_array_c(m, slave_ready)
           sys == Arb!sys_master_out(m, slave_ready)
<1>1. /\ valid' = Arb!new_valid(m) \cup Arb!pending(slave_ready)
      /\ request_array' = arr
      /\ requested' = Arb!request_sel(m, slave_ready)
  BY ArbiterStep DEF Clock
<1>2. s \in valid' /\ sys = arr[s] /\ arr[s] \in Request
  BY <1>1, Selection, Merge
<1>3. sys # NoRequest /\ b_request' = sys
  BY <1>2, MemoryStep, RequestFields DEF Clock
<1>4. eta' = Latency
  BY <1>3 DEF slave_ready, Mem!b_request_complete
<1>5. /\ memory' = IF arr[s].write
                   THEN [memory EXCEPT ![arr[s].addr] = arr[s].data]
                   ELSE memory
      /\ dout' = IF arr[s].write THEN dout ELSE memory[arr[s].addr]
  BY <1>2, <1>3, <1>4, MemoryStep DEF Clock
<1>6. port'[s] = Promise!Done(arr[s], memory[arr[s].addr])
  BY <1>1, <1>2, <1>5 DEF port, Promise!Done
<1>7. arr[s] \in IF Promise!Ready(s) THEN Request ELSE {port[s].req}
  <2>1. CASE s \in Arb!pending(slave_ready)
    <3>1. /\ ~Promise!Ready(s)
          /\ port[s] = Promise!Waiting(request_array[s])
      BY <2>1, PortReadiness
    <3>2. port[s].req = request_array[s]
      BY <3>1 DEF Promise!Waiting
    <3>3. arr[s] = request_array[s]
      BY <2>1, Merge
    <3> QED
      BY <3>1, <3>2, <3>3
  <2>2. CASE s \notin Arb!pending(slave_ready)
    BY <1>2, <2>2, PortReadiness
  <2> QED
    BY <2>1, <2>2
<1> QED
  BY <1>5, <1>6, <1>7 DEF Promise!Served

\* Refinement: what the masters see of the bus is a behaviour of SysBusSpec.
THEOREM Refinement == Spec => PromiseKept
<1>1. Init => Promise!Init
  BY DEF Init, Arb!Init, Mem!Init, Promise!Init, port
<1>2. IInv /\ [Next]_vars => [Promise!Next]_(Promise!vars)
  <2>1. UNCHANGED vars => UNCHANGED Promise!vars
    BY DEF vars, Promise!vars, port, slave_ready, Mem!b_request_complete
  <2>2. ASSUME IInv, NEW m \in Drives, Clock(m) PROVE Promise!Next
    <3>1. DOMAIN port' = Masters
      BY DEF port
    <3>2. IInv'
      BY <2>2, StepInvariant DEF Next
    <3>3. CASE (requested # {} /\ slave_ready)'
      <4>1. PICK s \in Masters : requested' = {s}
        BY <3>2, <3>3 DEF IInv, TypeOK, AccessAgreement
      <4>2. Promise!Served(s)
        BY <2>2, <3>3, <4>1, PortServed
      <4>3. \A n \in Masters \ {s} : Promise!Unserved(n)
        BY <2>2, <4>1, PortUnserved
      <4> QED
        BY <3>1, <4>2, <4>3 DEF Promise!Next, Promise!Serve
    <3>4. CASE ~(requested # {} /\ slave_ready)'
      <4>1. \A n \in Masters : Promise!Unserved(n)
        BY <2>2, <3>4, PortUnserved
      <4>2. UNCHANGED memory
        <5>1. b_request' = NoRequest \/ ~slave_ready'
          BY <3>2, <3>4 DEF IInv, AccessAgreement
        <5>2. b_request' = NoRequest \/ eta' # Latency
          BY <5>1 DEF slave_ready, Mem!b_request_complete
        <5> QED
          BY <2>2, <5>2, MemoryStep DEF Clock
      <4> QED
        BY <3>1, <4>1, <4>2 DEF Promise!Next, Promise!Quiet
    <3> QED
      BY <3>3, <3>4
  <2> QED
    BY <2>1, <2>2 DEF Next
<1> QED
  BY <1>1, <1>2, Invariance, PTL DEF Spec, PromiseKept, Promise!Spec
=============================================================================
