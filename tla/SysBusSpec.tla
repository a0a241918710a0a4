----------------------------- MODULE SysBusSpec -----------------------------
(***************************************************************************)
(* What the system bus promises to its masters.  Every master has a port   *)
(* that carries one request at a time.  A request handed over on a ready   *)
(* port takes effect on memory once, in one indivisible access, at most    *)
(* one master being served in a clock cycle, and the answer comes back on  *)
(* the port it was asked on, in the one cycle in which that port becomes   *)
(* ready again.  In what order the masters are served is left open.        *)
(***************************************************************************)
CONSTANTS
  Masters,       \* the masters of the bus
  Addr, Data,    \* the words of memory and what they hold
  Request,       \* reads and writes of one word
  NoRequest      \* nothing asked

VARIABLES
  memory,  \* the one memory behind the bus
  port     \* port[n]: NoRequest, or a request, waiting or done

vars == <<memory, port>>

Waiting(q) == [req |-> q, done |-> FALSE]
Done(q, d) == IF q.write THEN [req |-> q, done |-> TRUE]
                         ELSE [req |-> q, done |-> TRUE, data |-> d]

Ready(n) == port[n] = NoRequest \/ port[n].done

Init ==
  /\ memory \in [Addr -> Data]
  /\ port = [n \in Masters |-> NoRequest]

\* Master n is not served in this cycle.  On a ready port it may hand over
\* its next request; on one that is not ready the request stays as it is.
Unserved(n) ==
  port'[n] \in IF Ready(n) THEN {NoRequest} \cup {Waiting(q) : q \in Request}
                           ELSE {port[n]}

\* Master n is served, on the request it waits with or hands over now.
Served(n) ==
  \E q \in IF Ready(n) THEN Request ELSE {port[n].req} :
    /\ port'[n] = Done(q, memory[q.addr])
    /\ memory' = IF q.write THEN [memory EXCEPT ![q.addr] = q.data]
                            ELSE memory

Quiet ==
  /\ \A n \in Masters : Unserved(n)
  /\ UNCHANGED memory

Serve(s) ==
  /\ Served(s)
  /\ \A n \in Masters \ {s} : Unserved(n)

Next ==
  /\ DOMAIN port' = Masters
  /\ Quiet \/ \E s \in Masters : Serve(s)

Spec == Init /\ [][Next]_vars
=============================================================================
