--------------------------- MODULE CircuitBreaker ---------------------------
(***************************************************************************)
(* The circuit breaker of src/src/mev/retry.rs.  Two of them run in the    *)
(* daemon: one in front of the Ethereum node (module GethProxy), one in    *)
(* front of the MEV relay (module MevClient).  This module is the shared   *)
(* component: its state and its three operations, each of which the code   *)
(* runs under one mutex and which are therefore single steps.              *)
(*                                                                         *)
(* Instants are not modelled.  The code reads only opened_at.elapsed(),    *)
(* compared with the recovery timeout, so the state keeps that age and     *)
(* lets it saturate at the timeout, which keeps the state space finite     *)
(* without a bound on time.                                                *)
(***************************************************************************)
EXTENDS Naturals

CONSTANTS
  FailureThreshold,  \* consecutive failures that open the circuit (5)
  RecoveryTimeout    \* ticks the circuit stays open before a probe (30 s)

ASSUME BreakerAssumption ==
  /\ FailureThreshold \in Nat
  /\ RecoveryTimeout \in Nat

VARIABLES
  circuit,      \* which variant of CircuitState
  failures,     \* consecutive_failures, the payload of Closed (0 elsewhere)
  sinceOpened   \* opened_at.elapsed(), the payload of Open (0 elsewhere)

breakerVars == <<circuit, failures, sinceOpened>>

CircuitStates == {"Closed", "Open", "HalfOpen"}

BreakerTypeOK ==
  /\ circuit \in CircuitStates
  /\ failures \in Nat
  /\ failures = 0 \/ (circuit = "Closed" /\ failures < FailureThreshold)
  /\ sinceOpened \in 0..RecoveryTimeout
  /\ circuit # "Open" => sinceOpened = 0

BreakerInit ==
  /\ circuit = "Closed"
  /\ failures = 0
  /\ sinceOpened = 0

-----------------------------------------------------------------------------
Become(state, count) ==
  /\ circuit' = state
  /\ failures' = count
  /\ sinceOpened' = 0

(***************************************************************************)
(* can_proceed: the answer, and the lazy Open -> HalfOpen flip that a      *)
(* positive answer makes once the recovery timeout has elapsed.            *)
(***************************************************************************)
RecoveryElapsedEarly ==          \* mutant: a tick too soon
  sinceOpened + 1 >= RecoveryTimeout

RecoveryElapsed == sinceOpened >= RecoveryTimeout

CanProceedIgnoringTime == TRUE   \* mutant: the Open branch admits everybody

CanProceed == circuit = "Open" => RecoveryElapsed

FlipIfRecovered ==
  IF circuit = "Open" /\ RecoveryElapsed
  THEN Become("HalfOpen", 0)
  ELSE UNCHANGED breakerVars

(***************************************************************************)
(* record_success: resets Closed, closes HalfOpen, leaves Open alone.      *)
(***************************************************************************)
SuccessClosesOpen ==             \* mutant: a late success closes the circuit
  Become("Closed", 0)

SuccessKeepsCount ==             \* mutant: success does not wipe the slate
  IF circuit = "HalfOpen" THEN Become("Closed", 0) ELSE UNCHANGED breakerVars

RecordSuccess ==
  IF circuit = "Open" THEN UNCHANGED breakerVars ELSE Become("Closed", 0)

(***************************************************************************)
(* record_failure: counts in Closed and opens at the threshold, reopens    *)
(* from HalfOpen, and leaves an open circuit's opening time alone.         *)
(***************************************************************************)
FailureRestartsClock ==          \* mutant: a late failure moves opened_at
  IF circuit = "Closed" /\ failures + 1 < FailureThreshold
  THEN Become("Closed", failures + 1)
  ELSE Become("Open", 0)

FailureOpensLate ==              \* mutant: > instead of >=
  \/ circuit = "Closed" /\ failures + 1 > FailureThreshold /\ Become("Open", 0)
  \/ /\ circuit = "Closed" /\ failures + 1 <= FailureThreshold
     /\ Become("Closed", failures + 1)
  \/ circuit = "HalfOpen" /\ Become("Open", 0)
  \/ circuit = "Open" /\ UNCHANGED breakerVars

RecordFailure ==
  \/ circuit = "Closed" /\ failures + 1 >= FailureThreshold /\ Become("Open", 0)
  \/ /\ circuit = "Closed" /\ failures + 1 < FailureThreshold
     /\ Become("Closed", failures + 1)
  \/ circuit = "HalfOpen" /\ Become("Open", 0)
  \/ circuit = "Open" /\ UNCHANGED breakerVars

(***************************************************************************)
(* One tick of the monotonic clock, as the breaker sees it.                *)
(***************************************************************************)
BreakerTick ==
  /\ sinceOpened' = IF circuit = "Open" /\ ~RecoveryElapsed
                    THEN sinceOpened + 1 ELSE sinceOpened
  /\ UNCHANGED <<circuit, failures>>
=============================================================================
