-------------------------- MODULE GethProxyProofs --------------------------
(***************************************************************************)
(* For every set of requests and every value of the timeouts that satisfies*)
(* the assumptions of GethProxy: the type invariant, that outcomes of old  *)
(* calls reach a half-open circuit only when their timer is due, that an   *)
(* open circuit admits nobody and that a closed one opens only after       *)
(* FailureThreshold misses in a row, that the node's breaker implements    *)
(* the abstract transition table, how many calls are out at once, and when *)
(* a node that keeps calls waiting is sure to open the circuit.            *)
(***************************************************************************)
EXTENDS GethProxy, CircuitBreakerProofs, FiniteSetTheorems

(***************************************************************************)
(* The strengthening.  A call is never older than the request that made    *)
(* it; a stale call has been waiting at least as long as the circuit has   *)
(* been open, hence at least the recovery time once it is half-open; and   *)
(* the breaker's counter never exceeds the misses seen from outside.       *)
(***************************************************************************)
Timers == \A r \in Requests : wait[r] <= age[r]

StaleIsSent == \A r \in Requests : stale[r] => Sent(r)

StaleAge ==
  \A r \in Requests : stale[r] =>
    /\ circuit = "Open" => sinceOpened <= wait[r]
    /\ circuit = "HalfOpen" => RecoveryTimeout <= wait[r]

CountBelowMisses == circuit = "Closed" => failures <= misses

IInv ==
  /\ GethTypeOK
  /\ Timers
  /\ StaleIsSent
  /\ StaleAge
  /\ CountBelowMisses

-----------------------------------------------------------------------------
LEMMA FinishType ==
  ASSUME GethTypeOK, NEW r \in Requests, Finish(r)
  PROVE  /\ stage' \in [Requests -> Stages]
         /\ age' \in [Requests -> 0..RequestTimeout]
         /\ wait' \in [Requests -> 0..ClientTimeout]
  BY GethAssumption DEF GethTypeOK, Finish, Stages

LEMMA TrackStaleType ==
  ASSUME GethTypeOK, TrackStale
  PROVE  stale' \in [Requests -> BOOLEAN]
  <1>1. CASE circuit # "Open" /\ circuit' = "Open"
    BY <1>1 DEF TrackStale
  <1>2. CASE ~(circuit # "Open" /\ circuit' = "Open")
    <2>1. stale' = [r \in Requests |-> stale[r] /\ stage'[r] = "sent"]
      BY <1>2 DEF TrackStale
    <2>2. \A r \in Requests : (stale[r] /\ stage'[r] = "sent") \in BOOLEAN
      OBVIOUS
    <2>3. QED
      BY <2>1, <2>2
  <1>3. QED
    BY <1>1, <1>2

(***************************************************************************)
(* An action that ends a request after an outcome O of the breaker keeps   *)
(* the part of the invariant that speaks of the requests.                  *)
(***************************************************************************)
LEMMA FinishKeepsRequests ==
  ASSUME IInv, NEW r \in Requests, Finish(r), TrackStale,
         circuit = "Open" => UNCHANGED breakerVars,
         circuit # "Open" /\ circuit' = "Open" => sinceOpened' = 0,
         circuit' = "HalfOpen" => circuit = "HalfOpen"
  PROVE  Timers' /\ StaleIsSent' /\ StaleAge'
  <1>1. Timers'
    <2> SUFFICES ASSUME NEW q \in Requests
                 PROVE  wait'[q] <= age'[q]
      BY DEF Timers
    <2>1. wait[q] <= age[q]
      BY DEF IInv, Timers
    <2>2. QED
      BY <2>1 DEF IInv, GethTypeOK, Finish
  <1>2. StaleIsSent'
    BY DEF TrackStale, StaleIsSent, Sent
  <1>3. StaleAge'
    <2> SUFFICES ASSUME NEW q \in Requests, stale'[q]
                 PROVE  /\ circuit' = "Open" => sinceOpened' <= wait'[q]
                        /\ circuit' = "HalfOpen" => RecoveryTimeout <= wait'[q]
      BY DEF StaleAge
    <2>1. stage'[q] = "sent"
      BY DEF TrackStale
    <2>2. q # r
      BY <2>1 DEF Finish, IInv, GethTypeOK
    <2>3. wait'[q] = wait[q] /\ wait[q] \in Nat
      BY <2>2, GethAssumption DEF Finish, IInv, GethTypeOK
    <2>4. CASE circuit # "Open" /\ circuit' = "Open"
      BY <2>4, <2>3
    <2>5. CASE ~(circuit # "Open" /\ circuit' = "Open")
      <3>1. stale[q]
        BY <2>5 DEF TrackStale
      <3>2. QED
        BY <3>1, <2>3, <2>5 DEF IInv, StaleAge, breakerVars
    <2>6. QED
      BY <2>4, <2>5
  <1>4. QED
    BY <1>1, <1>2, <1>3

-----------------------------------------------------------------------------
LEMMA InitIInv == GethInit => IInv
  <1> SUFFICES ASSUME GethInit PROVE IInv
    OBVIOUS
  <1> USE BreakerAssumption, GethAssumption DEF GethInit
  <1>1. GethTypeOK
    BY DEF BreakerInit, GethTypeOK, BreakerTypeOK, CircuitStates, Stages
  <1>2. Timers /\ StaleIsSent /\ StaleAge
    BY DEF Timers, StaleIsSent, StaleAge
  <1>3. CountBelowMisses
    BY DEF BreakerInit, CountBelowMisses
  <1>4. QED
    BY <1>1, <1>2, <1>3 DEF IInv

LEMMA FinishedStep ==
  ASSUME IInv, NEW r \in Requests, Finish(r), TrackStale, BreakerTypeOK',
         circuit = "Open" => UNCHANGED breakerVars,
         circuit # "Open" /\ circuit' = "Open" => sinceOpened' = 0,
         circuit' = "HalfOpen" => circuit = "HalfOpen",
         misses' \in 0..FailureThreshold,
         circuit' = "Closed" => failures' <= misses'
  PROVE  IInv'
  <1>1. GethTypeOK'
    BY FinishType, TrackStaleType DEF IInv, GethTypeOK
  <1>2. Timers' /\ StaleIsSent' /\ StaleAge'
    BY FinishKeepsRequests
  <1>3. CountBelowMisses'
    BY DEF CountBelowMisses
  <1>4. QED
    BY <1>1, <1>2, <1>3 DEF IInv

LEMMA CountMissRange ==
  ASSUME IInv, CountMiss
  PROVE  /\ misses' \in 0..FailureThreshold
         /\ misses <= misses'
         /\ misses' = misses + 1 \/ misses' = FailureThreshold
  BY BreakerAssumption DEF IInv, GethTypeOK, CountMiss

(* A step that ends a request and tells the breaker nothing. *)
LEMMA SilentFinishStep ==
  ASSUME IInv, NEW r \in Requests, Finish(r), TrackStale, UNCHANGED breakerVars,
         UNCHANGED misses \/ CountMiss
  PROVE  IInv'
  <1>1. BreakerTypeOK'
    BY DEF IInv, GethTypeOK, BreakerTypeOK, breakerVars
  <1>2. misses' \in 0..FailureThreshold /\ misses <= misses'
    BY CountMissRange, BreakerAssumption DEF IInv, GethTypeOK
  <1>3. circuit' = "Closed" => failures' <= misses'
    BY <1>2, BreakerAssumption
       DEF IInv, CountBelowMisses, GethTypeOK, BreakerTypeOK, breakerVars
  <1>4. QED
    BY <1>1, <1>2, <1>3, FinishedStep DEF breakerVars

LEMMA FailStep ==
  ASSUME IInv, NEW r \in Requests, Fail(r)
  PROVE  IInv'
  <1>1. BreakerTypeOK /\ RecordFailure /\ CountMiss /\ Finish(r) /\ TrackStale
    BY DEF Fail, IInv, GethTypeOK
  <1>2. BreakerTypeOK'
    BY <1>1, RecordFailureType
  <1>3. /\ circuit' \in {"Closed", "Open"}
        /\ circuit = "Open" => UNCHANGED breakerVars
        /\ circuit # "Open" /\ circuit' = "Open" => sinceOpened' = 0
        /\ circuit' = "Closed" => circuit = "Closed" /\ failures' = failures + 1
    BY <1>1, RecordFailureEffect
  <1>4. misses' \in 0..FailureThreshold
    BY <1>1, CountMissRange
  <1>5. circuit' = "Closed" => failures' <= misses'
    <2> SUFFICES ASSUME circuit' = "Closed" PROVE failures' <= misses'
      OBVIOUS
    <2>1. failures <= misses /\ failures' = failures + 1
      BY <1>3 DEF IInv, CountBelowMisses
    <2>2. failures' = 0 \/ failures' < FailureThreshold
      BY <1>2 DEF BreakerTypeOK
    <2>3. misses' = misses + 1 \/ misses' = FailureThreshold
      BY <1>1, CountMissRange
    <2>4. QED
      BY <2>1, <2>2, <2>3, <1>4, <1>2, BreakerAssumption
         DEF IInv, GethTypeOK, BreakerTypeOK
  <1>6. QED
    BY <1>1, <1>2, <1>3, <1>4, <1>5, FinishedStep

LEMMA SucceedStep ==
  ASSUME IInv, NEW r \in Requests, Succeed(r)
  PROVE  IInv'
  <1>1. BreakerTypeOK /\ RecordSuccess /\ Finish(r) /\ TrackStale /\ misses' = 0
    BY DEF Succeed, IInv, GethTypeOK
  <1>2. BreakerTypeOK'
    BY <1>1, RecordSuccessType
  <1>3. /\ circuit' = IF circuit = "Open" THEN "Open" ELSE "Closed"
        /\ circuit = "Open" => UNCHANGED breakerVars
        /\ circuit # "Open" => failures' = 0
    BY <1>1, RecordSuccessEffect
  <1>4. QED
    BY <1>1, <1>2, <1>3, FinishedStep, BreakerAssumption

(***************************************************************************)
(* A raw transaction goes on to the relay: the invariant sees what it sees *)
(* when the request is over, apart from the request's age.                 *)
(***************************************************************************)
LEMMA BlockKnownStep ==
  ASSUME IInv, NEW r \in Requests, BlockKnown(r)
  PROVE  IInv'
  <1>1. BreakerTypeOK /\ RecordSuccess /\ TrackStale /\ misses' = 0
    BY DEF BlockKnown, IInv, GethTypeOK
  <1>2. BreakerTypeOK'
    BY <1>1, RecordSuccessType
  <1>3. /\ circuit' = IF circuit = "Open" THEN "Open" ELSE "Closed"
        /\ circuit = "Open" => UNCHANGED breakerVars
        /\ circuit # "Open" => failures' = 0
    BY <1>1, RecordSuccessEffect
  <1>4. /\ stage' = [stage EXCEPT ![r] = "relaying"]
        /\ wait' = [wait EXCEPT ![r] = 0]
        /\ age' = age
        /\ \A q \in Requests : stale'[q] = (stale[q] /\ stage'[q] = "sent")
    BY <1>1, <1>3 DEF BlockKnown, Enter, TrackStale
  <1>5. GethTypeOK'
    <2>1. stale' \in [Requests -> BOOLEAN]
      BY <1>1, TrackStaleType DEF IInv
    <2>2. stage' \in [Requests -> Stages] /\ wait' \in [Requests -> 0..ClientTimeout]
      BY <1>4, GethAssumption DEF IInv, GethTypeOK, Stages
    <2>3. QED
      BY <1>1, <1>2, <1>4, <2>1, <2>2, BreakerAssumption DEF IInv, GethTypeOK
  <1>6. Timers'
    BY <1>4, GethAssumption DEF IInv, GethTypeOK, Timers
  <1>7. StaleIsSent'
    BY <1>4 DEF StaleIsSent, Sent
  <1>8. StaleAge'
    <2> SUFFICES ASSUME NEW q \in Requests, stale'[q]
                 PROVE  /\ circuit' = "Open" => sinceOpened' <= wait'[q]
                        /\ circuit' = "HalfOpen" => RecoveryTimeout <= wait'[q]
      BY DEF StaleAge
    <2>1. stale[q] /\ stage'[q] = "sent"
      BY <1>4
    <2>2. wait'[q] = wait[q]
      BY <1>4, <2>1 DEF IInv, GethTypeOK
    <2>3. QED
      BY <1>3, <2>1, <2>2 DEF IInv, StaleAge, breakerVars
  <1>9. CountBelowMisses'
    BY <1>1, <1>3 DEF CountBelowMisses
  <1>10. QED
    BY <1>5, <1>6, <1>7, <1>8, <1>9 DEF IInv

LEMMA SendStep ==
  ASSUME IInv, NEW r \in Requests, Send(r)
  PROVE  IInv'
  <1> USE DEF Send
  <1>1. BreakerTypeOK'
    BY FlipType DEF IInv, GethTypeOK
  <1>2. GethTypeOK'
    BY <1>1 DEF IInv, GethTypeOK, Enter, Stages
  <1>3. Timers' /\ StaleIsSent'
    BY DEF IInv, GethTypeOK, Timers, StaleIsSent, Sent, Enter
  <1>4. StaleAge'
    <2> SUFFICES ASSUME NEW q \in Requests, stale[q]
                 PROVE  /\ circuit' = "Open" => sinceOpened' <= wait[q]
                        /\ circuit' = "HalfOpen" => RecoveryTimeout <= wait[q]
      BY DEF StaleAge
    <2>1. /\ circuit = "Open" => sinceOpened <= wait[q]
          /\ circuit = "HalfOpen" => RecoveryTimeout <= wait[q]
      BY DEF IInv, StaleAge
    <2>2. wait[q] \in Nat /\ sinceOpened \in Nat
      BY GethAssumption, BreakerAssumption DEF IInv, GethTypeOK, BreakerTypeOK
    <2>3. QED
      BY <2>1, <2>2, BreakerAssumption
         DEF FlipIfRecovered, RecoveryElapsed, Become, breakerVars
  <1>5. CountBelowMisses'
    BY DEF IInv, CountBelowMisses, FlipIfRecovered, Become, breakerVars
  <1>6. QED
    BY <1>2, <1>3, <1>4, <1>5 DEF IInv

(* A step that ends a request with no call to the node. *)
LEMMA TurnedAwayStep ==
  ASSUME IInv, NEW r \in Requests, stage[r] \in {"handling", "relaying"}, Finish(r),
         UNCHANGED <<breakerVars, stale, misses>>
  PROVE  IInv'
  <1>1. GethTypeOK'
    BY FinishType DEF IInv, GethTypeOK, BreakerTypeOK, breakerVars
  <1>2. Timers'
    BY GethAssumption DEF IInv, GethTypeOK, Timers, Finish
  <1>3. StaleIsSent'
    BY DEF IInv, GethTypeOK, StaleIsSent, Sent, Finish
  <1>4. StaleAge'
    BY DEF IInv, GethTypeOK, StaleAge, StaleIsSent, Sent, Finish, breakerVars
  <1>5. CountBelowMisses'
    BY DEF IInv, CountBelowMisses, breakerVars
  <1>6. QED
    BY <1>1, <1>2, <1>3, <1>4, <1>5 DEF IInv

(* A step that only moves a request on, and not to the node. *)
LEMMA AdvanceStep ==
  ASSUME IInv, NEW r \in Requests, NEW s \in {"queued", "handling", "relaying"},
         ~Sent(r), Enter(r, s),
         UNCHANGED <<breakerVars, age, wait, stale, misses>>
  PROVE  IInv'
  <1>1. GethTypeOK'
    BY DEF IInv, GethTypeOK, BreakerTypeOK, breakerVars, Enter, Stages
  <1>2. Timers' /\ StaleIsSent' /\ StaleAge' /\ CountBelowMisses'
    BY DEF IInv, GethTypeOK, Timers, StaleIsSent, StaleAge, CountBelowMisses,
           Sent, Enter, breakerVars
  <1>3. QED
    BY <1>1, <1>2 DEF IInv

LEMMA TickStep ==
  ASSUME IInv, Tick
  PROVE  IInv'
  <1> USE BreakerAssumption, GethAssumption DEF Tick
  <1>1. BreakerTypeOK'
    BY BreakerTickType DEF IInv, GethTypeOK
  <1>2. \A r \in Requests :
          /\ wait'[r] = IF Sent(r) THEN wait[r] + 1 ELSE wait[r]
          /\ age'[r] = IF Active(r) THEN age[r] + 1 ELSE age[r]
          /\ wait[r] \in 0..ClientTimeout
          /\ age[r] \in 0..RequestTimeout
          /\ Sent(r) => wait[r] # ClientTimeout
          /\ Active(r) => age[r] # RequestTimeout
          /\ Sent(r) => Active(r)
    BY DEF IInv, GethTypeOK, Due, Sent, Active
  <1>3. \A r \in Requests : wait'[r] \in 0..ClientTimeout /\ age'[r] \in 0..RequestTimeout
    BY <1>2
  <1>4. GethTypeOK'
    BY <1>1, <1>3 DEF IInv, GethTypeOK
  <1>5. Timers'
    <2> SUFFICES ASSUME NEW r \in Requests PROVE wait'[r] <= age'[r]
      BY DEF Timers
    <2>1. wait[r] <= age[r]
      BY DEF IInv, Timers
    <2>2. QED
      BY <2>1, <1>2
  <1>6. StaleIsSent'
    BY DEF IInv, StaleIsSent, Sent
  <1>7. StaleAge'
    <2> SUFFICES ASSUME NEW r \in Requests, stale[r]
                 PROVE  /\ circuit' = "Open" => sinceOpened' <= wait'[r]
                        /\ circuit' = "HalfOpen" => RecoveryTimeout <= wait'[r]
      BY DEF StaleAge
    <2>1. /\ circuit = "Open" => sinceOpened <= wait[r]
          /\ circuit = "HalfOpen" => RecoveryTimeout <= wait[r]
      BY DEF IInv, StaleAge
    <2>2. Sent(r)
      BY DEF IInv, StaleIsSent
    <2>3. wait'[r] = wait[r] + 1 /\ wait[r] \in Nat
      BY <2>2, <1>2
    <2>4. sinceOpened \in Nat
      BY DEF IInv, GethTypeOK, BreakerTypeOK
    <2>5. QED
      BY <2>1, <2>3, <2>4 DEF BreakerTick
  <1>8. CountBelowMisses'
    BY DEF IInv, CountBelowMisses, BreakerTick
  <1>9. QED
    BY <1>4, <1>5, <1>6, <1>7, <1>8 DEF IInv

-----------------------------------------------------------------------------
LEMMA NextIInv ==
  ASSUME IInv, [GethNext]_vars
  PROVE  IInv'
  <1>1. CASE Tick
    BY <1>1, TickStep
  <1>2. ASSUME NEW r \in Requests, Step(r)
        PROVE  IInv'
    <2>1. CASE Arrive(r)
      BY <2>1, AdvanceStep DEF Arrive, Sent
    <2>2. CASE Acquire(r)
      BY <2>2, AdvanceStep DEF Acquire, Sent
    <2>3. CASE Reject(r) \/ FailFast(r)
      BY <2>3, TurnedAwayStep DEF Reject, FailFast
    <2>4. CASE Send(r)
      BY <2>4, SendStep
    <2>5. CASE Succeed(r)
      BY <2>5, SucceedStep
    <2>6. CASE Fail(r) \/ ClientTimesOut(r)
      BY <2>6, FailStep DEF ClientTimesOut
    <2>7. CASE ClientError(r) \/ Disconnect(r)
      BY <2>7, SilentFinishStep DEF ClientError, Disconnect
    <2>8. CASE RequestTimesOut(r)
      BY <2>8, SilentFinishStep DEF RequestTimesOut
    <2>9. CASE BlockKnown(r)
      BY <2>9, BlockKnownStep
    <2>10. CASE SubmitBundle(r)
      BY <2>10, AdvanceStep DEF SubmitBundle, Sent
    <2>11. CASE RelayReturns(r)
      BY <2>11, TurnedAwayStep DEF RelayReturns
    <2>12. QED
      BY <1>2, <2>1, <2>2, <2>3, <2>4, <2>5, <2>6, <2>7, <2>8, <2>9, <2>10, <2>11 DEF Step
  <1>3. CASE UNCHANGED vars
    BY <1>3 DEF IInv, GethTypeOK, BreakerTypeOK, Timers, StaleIsSent, StaleAge,
                CountBelowMisses, Sent, vars
  <1>4. QED
    BY <1>1, <1>2, <1>3 DEF GethNext

LEMMA InductiveInvariant == GethSpec => []IInv
  BY InitIInv, NextIInv, PTL DEF GethSpec

-----------------------------------------------------------------------------
(* Every reachable state is well typed, whatever the requests do. *)
THEOREM TypeCorrect == GethSpec => []GethTypeOK
  <1>1. IInv => GethTypeOK
    BY DEF IInv
  <1>2. QED
    BY <1>1, InductiveInvariant, PTL

LEMMA StaleOutcomesDue == IInv => StaleOnlyWhenDue
  <1> SUFFICES ASSUME IInv, circuit = "HalfOpen",
                      NEW r \in Requests, Sent(r), stale[r]
               PROVE  Due(r)
    BY DEF StaleOnlyWhenDue
  <1>1. RecoveryTimeout <= wait[r] /\ wait[r] <= age[r]
    BY DEF IInv, StaleAge, Timers
  <1>2. wait[r] \in 0..ClientTimeout /\ age[r] \in 0..RequestTimeout /\ Active(r)
    BY DEF IInv, GethTypeOK, Sent, Active
  <1>3. CASE RequestTimeout <= RecoveryTimeout
    BY <1>1, <1>2, <1>3, BreakerAssumption, GethAssumption DEF Due
  <1>4. CASE ClientTimeout <= RecoveryTimeout
    BY <1>1, <1>2, <1>4, BreakerAssumption, GethAssumption DEF Due
  <1>5. QED
    BY <1>3, <1>4, TimeoutAssumption

(***************************************************************************)
(* When the circuit is half-open, a call admitted before it opened is at   *)
(* its deadline: it has waited for the whole recovery time, which is at    *)
(* least the shorter of the two timeouts that bound it.                    *)
(***************************************************************************)
THEOREM StaleOutcomesAreDue == GethSpec => []StaleOnlyWhenDue
  BY StaleOutcomesDue, InductiveInvariant, PTL

-----------------------------------------------------------------------------
(* What one step of the daemon can do to the circuit. *)

LEMMA CircuitSteps ==
  ASSUME IInv, [GethNext]_vars
  PROVE  \/ UNCHANGED <<circuit, sinceOpened>>
         \/ BreakerTick
         \/ RecordSuccess
         \/ RecordFailure /\ CountMiss
         \/ \E r \in Requests : Send(r)
  <1>1. CASE Tick
    BY <1>1 DEF Tick
  <1>2. ASSUME NEW r \in Requests, Step(r)
        PROVE  \/ UNCHANGED <<circuit, sinceOpened>>
               \/ RecordSuccess
               \/ RecordFailure /\ CountMiss
               \/ Send(r)
    BY <1>2 DEF Step, Arrive, Acquire, Reject, FailFast, Succeed, Fail,
                ClientTimesOut, ClientError, BlockKnown, SubmitBundle, RelayReturns,
                RequestTimesOut, Disconnect, breakerVars
  <1>3. CASE UNCHANGED vars
    BY <1>3 DEF vars
  <1>4. QED
    BY <1>1, <1>2, <1>3 DEF GethNext

LEMMA AdmissionStep ==
  ASSUME IInv, [GethNext]_vars, \E r \in Requests : Sent(r)' /\ ~Sent(r)
  PROVE  ~(circuit = "Open" /\ circuit' = "Open")
  <1>1. PICK r \in Requests : stage'[r] = "sent" /\ stage[r] # "sent"
    BY DEF Sent
  <1>2. PICK q \in Requests : Step(q)
    BY <1>1 DEF GethNext, Tick, vars
  <1>3. Send(q)
    BY <1>1, <1>2
       DEF Step, Arrive, Acquire, Reject, FailFast, Succeed, Fail, ClientTimesOut,
           ClientError, BlockKnown, SubmitBundle, RelayReturns, RequestTimesOut,
           Disconnect, Finish, Enter, IInv, GethTypeOK
  <1>4. QED
    BY <1>3, FlipEffect DEF Send, CanProceed, IInv, GethTypeOK

(***************************************************************************)
(* No step makes a new call to the node and leaves the circuit open.       *)
(***************************************************************************)
THEOREM OpenCircuitAdmitsNobody == GethSpec => OpenAdmitsNobody
  <1>1. IInv /\ [GethNext]_vars =>
          [circuit = "Open" /\ circuit' = "Open" =>
             \A r \in Requests : Sent(r)' => Sent(r)]_vars
    BY AdmissionStep
  <1>2. QED
    BY <1>1, InductiveInvariant, PTL DEF GethSpec, OpenAdmitsNobody

LEMMA TripStep ==
  ASSUME IInv, [GethNext]_vars, circuit = "Closed", circuit' # "Closed"
  PROVE  misses' = FailureThreshold
  <1>1. BreakerTypeOK /\ misses \in 0..FailureThreshold /\ failures <= misses
    BY DEF IInv, GethTypeOK, CountBelowMisses
  <1>2. RecordFailure /\ CountMiss
    <2>1. ~RecordSuccess
      BY <1>1, RecordSuccessEffect
    <2>2. ~BreakerTick
      BY DEF BreakerTick
    <2>3. ~(\E r \in Requests : Send(r))
      BY <1>1, FlipEffect DEF Send, breakerVars
    <2>4. QED
      BY <2>1, <2>2, <2>3, CircuitSteps
  <1>3. failures + 1 >= FailureThreshold
    BY <1>1, <1>2, RecordFailureEffect
  <1>4. misses' \in 0..FailureThreshold /\ (misses' = misses + 1 \/ misses' = FailureThreshold)
    BY <1>2, CountMissRange
  <1>5. QED
    BY <1>1, <1>3, <1>4, BreakerAssumption DEF BreakerTypeOK

(***************************************************************************)
(* A closed circuit opens on the FailureThreshold-th miss in a row and on  *)
(* no other step.                                                          *)
(***************************************************************************)
THEOREM TripsOnlyAtThreshold == GethSpec => NoSpuriousTrip
  <1>1. IInv /\ [GethNext]_vars =>
          [circuit = "Closed" /\ circuit' # "Closed" => misses' = FailureThreshold]_vars
    BY TripStep
  <1>2. QED
    BY <1>1, InductiveInvariant, PTL DEF GethSpec, NoSpuriousTrip

LEMMA ContractStep ==
  ASSUME IInv, [GethNext]_vars
  PROVE  [Contract!Next]_(Contract!vars)
  <1> USE DEF Contract!Next, Contract!vars, Contract!Trip, Contract!Cool,
              Contract!Probe, Contract!Verdict
  <1>1. BreakerTypeOK
    BY DEF IInv, GethTypeOK
  <1>2. CASE UNCHANGED <<circuit, sinceOpened>>
    BY <1>2
  <1>3. CASE BreakerTick
    BY <1>1, <1>3, BreakerAssumption DEF BreakerTick, RecoveryElapsed, BreakerTypeOK
  <1>4. CASE RecordSuccess
    BY <1>1, <1>4, RecordSuccessEffect DEF BreakerTypeOK, CircuitStates, breakerVars
  <1>5. CASE RecordFailure /\ CountMiss
    BY <1>1, <1>5, RecordFailureEffect DEF BreakerTypeOK, CircuitStates, breakerVars
  <1>6. ASSUME NEW r \in Requests, Send(r)
        PROVE  [Contract!Next]_(Contract!vars)
    BY <1>1, <1>6, FlipEffect DEF Send, RecoveryElapsed, breakerVars
  <1>7. QED
    BY <1>2, <1>3, <1>4, <1>5, <1>6, CircuitSteps

(***************************************************************************)
(* The breaker of the node refines the abstract transition table: each     *)
(* step of the daemon is a row of the table, one tick of an open circuit's *)
(* age, or changes nothing the table can see.                              *)
(***************************************************************************)
THEOREM RefinesContract == GethSpec => ImplementsContract
  <1>1. GethInit => Contract!Init
    BY DEF GethInit, BreakerInit, Contract!Init
  <1>2. QED
    BY <1>1, ContractStep, InductiveInvariant, PTL
       DEF GethSpec, ImplementsContract, Contract!Spec
-----------------------------------------------------------------------------
(* How many calls the concurrency limit lets out.  The requests need not   *)
(* be finitely many: those that hold a permit are.                         *)

PermitsKept ==
  \A route \in Routes :
    IsFiniteSet(PermitsHeld(route)) /\ Cardinality(PermitsHeld(route)) <= Permits

CallsOut == {r \in Requests : Sent(r)}

(* Permits for each of the four routes, with and without the slash at the  *)
(* end, and so four times as many calls at once: also when they are the    *)
(* probes of a half-open circuit.                                          *)
CallsWithinPermits == IsFiniteSet(CallsOut) /\ Cardinality(CallsOut) <= 4 * Permits

LEMMA FewerWithin ==
  ASSUME NEW S, IsFiniteSet(S), Cardinality(S) <= Permits, NEW T, T \subseteq S
  PROVE  IsFiniteSet(T) /\ Cardinality(T) <= Permits
  <1>1. IsFiniteSet(T) /\ Cardinality(T) <= Cardinality(S)
    BY FS_Subset
  <1>2. Cardinality(T) \in Nat /\ Cardinality(S) \in Nat
    BY <1>1, FS_CardinalityType
  <1>3. QED
    BY <1>1, <1>2, GethAssumption

LEMMA OneMoreWithin ==
  ASSUME NEW S, IsFiniteSet(S), Cardinality(S) < Permits, NEW x
  PROVE  IsFiniteSet(S \cup {x}) /\ Cardinality(S \cup {x}) <= Permits
  <1>1. /\ IsFiniteSet(S \cup {x})
        /\ Cardinality(S \cup {x}) \in {Cardinality(S), Cardinality(S) + 1}
    BY FS_AddElement
  <1>2. Cardinality(S) \in Nat
    BY FS_CardinalityType
  <1>3. QED
    BY <1>1, <1>2, GethAssumption

LEMMA UnionWithin ==
  ASSUME NEW S, IsFiniteSet(S), NEW m \in Nat, Cardinality(S) <= m,
         NEW T, IsFiniteSet(T), NEW n \in Nat, Cardinality(T) <= n
  PROVE  IsFiniteSet(S \cup T) /\ Cardinality(S \cup T) <= m + n
  <1>1. /\ IsFiniteSet(S \cup T)
        /\ Cardinality(S \cup T) = Cardinality(S) + Cardinality(T) - Cardinality(S \cap T)
    BY FS_Union
  <1>2. IsFiniteSet(S \cap T)
    BY FS_Intersection
  <1>3. Cardinality(S) \in Nat /\ Cardinality(T) \in Nat /\ Cardinality(S \cap T) \in Nat
    BY <1>2, FS_CardinalityType
  <1>4. QED
    BY <1>1, <1>3

LEMMA InitPermits == GethInit => PermitsKept
  <1> SUFFICES ASSUME GethInit, NEW route \in Routes
               PROVE  IsFiniteSet(PermitsHeld(route)) /\ Cardinality(PermitsHeld(route)) <= Permits
    BY DEF PermitsKept
  <1>1. PermitsHeld(route) = {}
    BY DEF GethInit, PermitsHeld, Admitted
  <1>2. QED
    BY <1>1, FS_EmptySet, GethAssumption

(* Every step but an admission lets permits go or moves their holders on. *)
LEMMA PermitsStep ==
  ASSUME GethTypeOK, PermitsKept, [GethNext]_vars
  PROVE  PermitsKept'
  <1>1. ASSUME \A route \in Routes : PermitsHeld(route)' \subseteq PermitsHeld(route)
        PROVE  PermitsKept'
    BY <1>1, FewerWithin DEF PermitsKept
  <1>2. CASE Tick \/ UNCHANGED vars
    BY <1>1, <1>2 DEF Tick, vars, PermitsHeld, Admitted
  <1>3. ASSUME NEW r \in Requests, Acquire(r)
        PROVE  PermitsKept'
    <2> DEFINE own == Route[r]
    <2>1. PermitsHeld(own)' = PermitsHeld(own) \cup {r}
      BY <1>3 DEF Acquire, Enter, GethTypeOK, PermitsHeld, Admitted
    <2>2. \A route \in Routes \ {own} : PermitsHeld(route)' = PermitsHeld(route)
      BY <1>3 DEF Acquire, Enter, GethTypeOK, PermitsHeld, Admitted
    <2>3. IsFiniteSet(PermitsHeld(own)) /\ Cardinality(PermitsHeld(own)) < Permits
      <3>1. own \in Routes
        BY GethAssumption
      <3>2. Cardinality(PermitsHeld(own)) < Permits
        BY <1>3 DEF Acquire
      <3>3. QED
        BY <3>1, <3>2 DEF PermitsKept
    <2>4. IsFiniteSet(PermitsHeld(own) \cup {r}) /\ Cardinality(PermitsHeld(own) \cup {r}) <= Permits
      BY <2>3, OneMoreWithin
    <2>5. QED
      BY <2>1, <2>2, <2>4 DEF PermitsKept
  <1>4. ASSUME NEW r \in Requests, Step(r), ~Acquire(r)
        PROVE  PermitsKept'
    <2>1. \/ Enter(r, "queued") /\ stage[r] = "idle"
          \/ Admitted(r)
          \/ Finish(r)
      BY <1>4 DEF Step, Arrive, Reject, FailFast, Send, Succeed, Fail, ClientTimesOut,
                  ClientError, BlockKnown, SubmitBundle, RelayReturns, RequestTimesOut,
                  Disconnect, Sent, Admitted
    <2>2. \A q \in Requests \ {r} : stage'[q] = stage[q]
      BY <1>4 DEF Step, Arrive, Reject, FailFast, Send, Succeed, Fail, ClientTimesOut,
                  ClientError, BlockKnown, SubmitBundle, RelayReturns, RequestTimesOut,
                  Disconnect, Enter, Finish, GethTypeOK
    <2>3. \A q \in Requests : Admitted(q)' => Admitted(q)
      BY <2>1, <2>2 DEF Enter, Finish, GethTypeOK, Admitted
    <2>4. QED
      BY <1>1, <2>3 DEF PermitsHeld
  <1>5. QED
    BY <1>2, <1>3, <1>4 DEF GethNext

LEMMA PermitsBoundCalls == PermitsKept => CallsWithinPermits
  <1> SUFFICES ASSUME PermitsKept PROVE CallsWithinPermits
    OBVIOUS
  <1> DEFINE Pair(p, q) == PermitsHeld(p) \cup PermitsHeld(q)
             A == Pair("rpc", "rpc/")
             B == Pair("rpc/flashbots", "rpc/flashbots/")
  <1>1. \A p, q \in Routes : IsFiniteSet(Pair(p, q)) /\ Cardinality(Pair(p, q)) <= Permits + Permits
    BY UnionWithin, GethAssumption DEF PermitsKept
  <1>2. CallsOut \subseteq A \cup B
    BY GethAssumption DEF CallsOut, Sent, PermitsHeld, Admitted, Routes
  <1> HIDE DEF Pair
  <1>3. /\ IsFiniteSet(A) /\ Cardinality(A) <= Permits + Permits
        /\ IsFiniteSet(B) /\ Cardinality(B) <= Permits + Permits
    BY <1>1 DEF Routes
  <1> HIDE DEF A, B
  <1>4. /\ IsFiniteSet(A \cup B)
        /\ Cardinality(A \cup B) <= (Permits + Permits) + (Permits + Permits)
    <2>1. Permits + Permits \in Nat
      BY GethAssumption
    <2>2. QED
      BY <1>3, <2>1, UnionWithin
  <1>5. /\ IsFiniteSet(CallsOut)
        /\ Cardinality(CallsOut) <= Cardinality(A \cup B)
    BY <1>2, <1>4, FS_Subset
  <1>6. Cardinality(CallsOut) \in Nat /\ Cardinality(A \cup B) \in Nat
    BY <1>4, <1>5, FS_CardinalityType
  <1>7. Cardinality(CallsOut) <= 4 * Permits
    BY <1>4, <1>5, <1>6, GethAssumption
  <1>8. QED
    BY <1>5, <1>7 DEF CallsWithinPermits

(***************************************************************************)
(* No more than four times max_concurrent calls are out at once, over the  *)
(* four routes that reach the node, and max_concurrent on each: however    *)
(* requests arrive, are cut off by a timer or leave, none of them gives    *)
(* back a permit that it never had.                                        *)
(***************************************************************************)
THEOREM CallsAreLimited == GethSpec => [](PermitsKept /\ CallsWithinPermits)
  <1>1. IInv /\ PermitsKept /\ [GethNext]_vars => PermitsKept'
    BY PermitsStep DEF IInv
  <1>2. QED
    BY <1>1, InitPermits, PermitsBoundCalls, InductiveInvariant, PTL DEF GethSpec
-----------------------------------------------------------------------------
(* When a silent node trips the breaker.  With the client's timeout below  *)
(* the request's, the breaker hears of every call it admitted while the    *)
(* node had it for as long as it was given.                                *)

CountsAgree == circuit = "Closed" => failures = misses

LEMMA NobodyKeptWaiting ==
  ASSUME IInv, ClientTimeout < RequestTimeout,
         NEW r \in Requests, age[r] = RequestTimeout
  PROVE  ~KeptWaiting(r)
  BY GethAssumption DEF IInv, GethTypeOK, KeptWaiting

LEMMA CountsAgreeStep ==
  ASSUME IInv, CountsAgree, ClientTimeout < RequestTimeout, FailureThreshold # 0,
         [GethNext]_vars
  PROVE  CountsAgree'
  <1>1. BreakerTypeOK /\ misses \in 0..FailureThreshold
    BY DEF IInv, GethTypeOK
  <1>2. ASSUME UNCHANGED <<circuit, failures, misses>>
        PROVE  CountsAgree'
    BY <1>2 DEF CountsAgree
  <1>3. CASE Tick \/ UNCHANGED vars
    BY <1>2, <1>3 DEF Tick, BreakerTick, vars
  <1>4. ASSUME NEW r \in Requests, Step(r)
        PROVE  CountsAgree'
    <2>1. CASE \/ Arrive(r) \/ Acquire(r) \/ Reject(r) \/ FailFast(r) \/ SubmitBundle(r)
               \/ RelayReturns(r) \/ ClientError(r) \/ Disconnect(r)
      BY <1>2, <2>1 DEF Arrive, Acquire, Reject, FailFast, SubmitBundle, RelayReturns,
                        ClientError, Disconnect, breakerVars
    <2>2. CASE Send(r)
      BY <1>1, <1>2, <2>2, FlipEffect DEF Send, CountsAgree, breakerVars
    <2>3. CASE Succeed(r) \/ BlockKnown(r)
      BY <1>1, <2>3, RecordSuccessEffect DEF Succeed, BlockKnown, CountsAgree
    <2>4. CASE Fail(r) \/ ClientTimesOut(r)
      <3>1. RecordFailure /\ CountMiss
        BY <2>4 DEF Fail, ClientTimesOut
      <3>2. circuit' = "Closed" => circuit = "Closed" /\ failures' = failures + 1
        BY <1>1, <3>1, RecordFailureEffect
      <3>3. circuit = "Closed" => failures = misses /\ misses < FailureThreshold
        BY <1>1, BreakerAssumption DEF CountsAgree, BreakerTypeOK
      <3>4. QED
        BY <3>1, <3>2, <3>3 DEF CountMiss, CountsAgree
    <2>5. CASE RequestTimesOut(r)
      BY <1>2, <2>5, NobodyKeptWaiting DEF RequestTimesOut, breakerVars
    <2>6. QED
      BY <1>4, <2>1, <2>2, <2>3, <2>4, <2>5 DEF Step
  <1>5. QED
    BY <1>3, <1>4 DEF GethNext

(***************************************************************************)
(* What is right about the documentation of ProxyState.geth_circuit, "fast-*)
(* fails after 5 consecutive failures", if slow answers count as failures: *)
(* it is so for every REQUEST_TIMEOUT above the client's 30 s.  At the     *)
(* default of 30 s the middleware may drop the call before the client      *)
(* reports it, and below that it always does.                              *)
(***************************************************************************)
THEOREM LongerRequestTimeoutTrips ==
  ASSUME ClientTimeout < RequestTimeout, FailureThreshold # 0
  PROVE  GethSpec => []SilentNodeTrips
  <1>1. GethInit => CountsAgree
    BY DEF GethInit, BreakerInit, CountsAgree
  <1>2. IInv /\ CountsAgree /\ [GethNext]_vars => CountsAgree'
    BY CountsAgreeStep
  <1>3. IInv /\ CountsAgree => SilentNodeTrips
    BY BreakerAssumption
       DEF IInv, GethTypeOK, BreakerTypeOK, CountsAgree, SilentNodeTrips
  <1>4. QED
    BY <1>1, <1>2, <1>3, InductiveInvariant, PTL DEF GethSpec
=============================================================================
