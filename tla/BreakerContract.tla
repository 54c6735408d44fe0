-------------------------- MODULE BreakerContract --------------------------
(***************************************************************************)
(* What a circuit breaker promises, whoever calls it: the transition table *)
(* in the documentation of CircuitState (src/src/mev/types.rs), with the   *)
(* time an open circuit has to wait.  Nothing here knows of requests, of   *)
(* outcomes that arrive late or of the failure counter.  GethProxy and     *)
(* MevClient implement it.                                                 *)
(***************************************************************************)
EXTENDS Naturals

CONSTANT RecoveryTimeout

VARIABLES circuit, sinceOpened

vars == <<circuit, sinceOpened>>

Init == circuit = "Closed" /\ sinceOpened = 0

(* Closed{n} --(failure, threshold reached)--> Open{now} *)
Trip == circuit = "Closed" /\ circuit' = "Open" /\ sinceOpened' = 0

(* An open circuit only ages: nothing restarts its clock. *)
Cool ==
  /\ circuit = "Open" /\ sinceOpened < RecoveryTimeout
  /\ sinceOpened' = sinceOpened + 1
  /\ UNCHANGED circuit

(* Open{at} --(elapsed >= recovery_timeout)--> HalfOpen *)
Probe ==
  /\ circuit = "Open" /\ sinceOpened >= RecoveryTimeout
  /\ circuit' = "HalfOpen" /\ sinceOpened' = 0

(* HalfOpen --(success)--> Closed{0}; HalfOpen --(failure)--> Open{now} *)
Verdict ==
  /\ circuit = "HalfOpen"
  /\ circuit' \in {"Closed", "Open"} /\ sinceOpened' = 0

Next == Trip \/ Cool \/ Probe \/ Verdict

Spec == Init /\ [][Next]_vars
=============================================================================
