------------------------ MODULE CircuitBreakerProofs ------------------------
(***************************************************************************)
(* Lemmas about the operations of the circuit breaker, for the proofs      *)
(* about its two users (GethProxyProofs, MevClientProofs).                 *)
(***************************************************************************)
EXTENDS CircuitBreaker, TLAPS

(* The breaker's own operations keep its type. *)

LEMMA RecordSuccessType ==
  ASSUME BreakerTypeOK, RecordSuccess
  PROVE  BreakerTypeOK'
  BY BreakerAssumption
     DEF BreakerTypeOK, RecordSuccess, Become, CircuitStates, breakerVars

LEMMA RecordFailureType ==
  ASSUME BreakerTypeOK, RecordFailure
  PROVE  BreakerTypeOK'
  <1>1. CASE circuit = "Closed" /\ failures + 1 >= FailureThreshold
    BY <1>1, BreakerAssumption
       DEF BreakerTypeOK, RecordFailure, Become, CircuitStates
  <1>2. CASE circuit = "Closed" /\ failures + 1 < FailureThreshold
    BY <1>2, BreakerAssumption
       DEF BreakerTypeOK, RecordFailure, Become, CircuitStates
  <1>3. CASE circuit = "HalfOpen"
    BY <1>3, BreakerAssumption
       DEF BreakerTypeOK, RecordFailure, Become, CircuitStates
  <1>4. CASE circuit = "Open"
    BY <1>4 DEF BreakerTypeOK, RecordFailure, CircuitStates, breakerVars
  <1>5. QED
    BY <1>1, <1>2, <1>3, <1>4, BreakerAssumption DEF BreakerTypeOK, CircuitStates

LEMMA FlipType ==
  ASSUME BreakerTypeOK, FlipIfRecovered
  PROVE  BreakerTypeOK'
  BY BreakerAssumption
     DEF BreakerTypeOK, FlipIfRecovered, Become, CircuitStates, breakerVars

LEMMA BreakerTickType ==
  ASSUME BreakerTypeOK, BreakerTick
  PROVE  BreakerTypeOK'
  BY BreakerAssumption
     DEF BreakerTypeOK, BreakerTick, RecoveryElapsed, CircuitStates

(* What each operation does to the circuit, as the proofs below use it. *)

LEMMA RecordSuccessEffect ==
  ASSUME BreakerTypeOK, RecordSuccess
  PROVE  /\ circuit' = IF circuit = "Open" THEN "Open" ELSE "Closed"
         /\ circuit = "Open" => UNCHANGED breakerVars
         /\ circuit # "Open" => failures' = 0 /\ sinceOpened' = 0
  BY DEF BreakerTypeOK, RecordSuccess, Become, breakerVars

LEMMA RecordFailureEffect ==
  ASSUME BreakerTypeOK, RecordFailure
  PROVE  /\ circuit' \in {"Closed", "Open"}
         /\ circuit = "Open" => UNCHANGED breakerVars
         /\ circuit # "Open" /\ circuit' = "Open" => sinceOpened' = 0
         /\ circuit' = "Closed" =>
              /\ circuit = "Closed"
              /\ failures' = failures + 1
              /\ sinceOpened' = 0
         /\ circuit = "Closed" /\ circuit' = "Open" =>
              failures + 1 >= FailureThreshold
  <1>1. CASE circuit = "Closed" /\ failures + 1 >= FailureThreshold
    BY <1>1, BreakerAssumption DEF BreakerTypeOK, RecordFailure, Become
  <1>2. CASE circuit = "Closed" /\ failures + 1 < FailureThreshold
    BY <1>2, BreakerAssumption DEF BreakerTypeOK, RecordFailure, Become
  <1>3. CASE circuit = "HalfOpen"
    BY <1>3, BreakerAssumption DEF BreakerTypeOK, RecordFailure, Become
  <1>4. CASE circuit = "Open"
    BY <1>4 DEF BreakerTypeOK, RecordFailure, breakerVars
  <1>5. QED
    BY <1>1, <1>2, <1>3, <1>4, BreakerAssumption DEF BreakerTypeOK, CircuitStates

LEMMA FlipEffect ==
  ASSUME BreakerTypeOK, FlipIfRecovered
  PROVE  \/ UNCHANGED breakerVars /\ ~(circuit = "Open" /\ RecoveryElapsed)
         \/ /\ circuit = "Open" /\ RecoveryElapsed
            /\ circuit' = "HalfOpen" /\ sinceOpened' = 0
  BY DEF FlipIfRecovered, Become, breakerVars
=============================================================================
