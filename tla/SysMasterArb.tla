---------------------------- MODULE SysMasterArb ----------------------------
(***************************************************************************)
(* The bus arbiter (hdl/sys/sys_master_arb-rtl.vhdl): it multiplexes the   *)
(* ports of several bus masters onto one slave.                            *)
(*                                                                         *)
(* A synchronous component: its state is the register record r of the      *)
(* architecture, a signal of the record c is an operator of the same name  *)
(* over the registers and over the input ports it depends on,              *)
(*   m      what each master drives: a request, or NoRequest               *)
(*   ready  the slave's sys_slave_ctrl_out.ready                           *)
(* and Clock(m, ready) is one rising edge of clk with rstn = '1'.  A bit   *)
(* vector indexed by master is the set of the masters whose bit is '1'.    *)
(* The field-by-field copies of a request are one record.                  *)
(***************************************************************************)
EXTENDS Integers

CONSTANTS
  MasterCount,  \* the generic "masters"
  NoRequest     \* request = '0', the other fields 'X'

VARIABLES
  valid,         \* r.valid: masters with a request held here
  requested,     \* r.requested: the master whose request the slave has
  burst_lock,    \* r.burst_lock: the master in the middle of a burst
  request_array  \* r.request_array_*: the request held for each master

Masters == 0 .. MasterCount - 1

(***************************************************************************)
(* Combinational signals.                                                  *)
(***************************************************************************)
new_valid(m) == {n \in Masters : m[n] # NoRequest}
\* (mutant) The bit of the request under way is not held while it is busy.
pending_unheld(ready) == {n \in valid : n \notin requested}
pending(ready) == {n \in valid : ~(n \in requested /\ ready)}
use_new_request(m, ready) == new_valid(m) \ pending(ready)

any_not_ready(ready) == requested # {} /\ ~ready
any_burst_lock == burst_lock # {}

\* The request of each master once this cycle's inputs are merged in.
request_array_c(m, ready) ==
  [n \in Masters |-> IF n \in use_new_request(m, ready) THEN m[n]
                                                        ELSE request_array[n]]

\* (mutant) The highest index wins.
prioritize_highest(S) == {n \in S : \A k \in S : n >= k}
\* logic_pkg.prioritize_none: the lowest index wins; of none, none.
prioritize_none(S) == {n \in S : \A k \in S : n <= k}

\* (mutant) The lock does not take part in the selection.
request_sel_unlocked(m, ready) ==
  IF any_not_ready(ready) THEN requested
  ELSE prioritize_none(pending(ready) \cup new_valid(m))
request_sel(m, ready) ==
  IF any_not_ready(ready) THEN requested
  ELSE IF any_burst_lock THEN burst_lock
  ELSE prioritize_none(pending(ready) \cup new_valid(m))

\* Outputs: the request the slave sees, and the ready each master sees.
\* The selector is one-hot or empty, so the OR-reduction is the one request.
sys_master_out(m, ready) ==
  IF request_sel(m, ready) = {} THEN NoRequest
  ELSE request_array_c(m, ready)[CHOOSE n \in request_sel(m, ready) : TRUE]
master_ready(n, ready) == n \notin pending(ready)

(***************************************************************************)
(* Registers.                                                              *)
(***************************************************************************)
Init ==
  /\ valid = {}
  /\ requested = {}
  /\ burst_lock = {}
  /\ request_array = [n \in Masters |-> NoRequest]

\* Every cycle, a master whose port is free may hand over its next request.
Capture(m, ready) ==
  /\ valid' = new_valid(m) \cup pending(ready)
  /\ request_array' = request_array_c(m, ready)

\* The slave is busy: keep presenting the request it has.
Hold(m, ready) ==
  /\ any_not_ready(ready)
  /\ Capture(m, ready)
  /\ UNCHANGED <<requested, burst_lock>>

\* Present a request, and lock the bus if it is not the last of its burst.
Grant(m, ready) ==
  /\ Capture(m, ready)
  /\ requested' = request_sel(m, ready)
  /\ burst_lock' = {n \in request_sel(m, ready) :
                      request_array_c(m, ready)[n].burst}

\* The master that holds the lock is served whatever the others ask for.
ContinueBurst(m, ready) ==
  /\ ~any_not_ready(ready)
  /\ any_burst_lock
  /\ Grant(m, ready)

\* Fixed priority among the masters that ask; none may ask.
Arbitrate(m, ready) ==
  /\ ~any_not_ready(ready)
  /\ ~any_burst_lock
  /\ Grant(m, ready)

Clock(m, ready) ==
  Hold(m, ready) \/ ContinueBurst(m, ready) \/ Arbitrate(m, ready)
=============================================================================
