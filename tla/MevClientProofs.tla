--------------------------- MODULE MevClientProofs ---------------------------
(***************************************************************************)
(* For every set of submissions, number of attempts, timeout and delay     *)
(* that satisfy the assumptions of MevClient: type correctness, how long   *)
(* an older submission whose verdict meets a half-open circuit has been    *)
(* going on, and that there is none if the timeouts are the defaults, that *)
(* an open circuit starts no submission, that only whole submissions trip  *)
(* it, that the relay's breaker implements the abstract transition table,  *)
(* and that no submission goes on for longer than its attempts and sleeps. *)
(***************************************************************************)
EXTENDS TimedSubmissions, CircuitBreakerProofs

(***************************************************************************)
(* The model does not record how long a submission has been going on, but  *)
(* its attempts and the time in the current one bound it: Spent.  A stale  *)
(* submission has been going on for as long as the circuit has been open,  *)
(* hence for the recovery time once it is half-open.                       *)
(***************************************************************************)
Round == RelayTimeout + MaxSleep

Spent(s) ==
  (tries[s] - 1) * Round + wait[s] + (IF Sending(s) THEN 0 ELSE RelayTimeout)

StaleIsActive == \A s \in Submissions : stale[s] => Active(s)

(* Only a submission with an attempt left sleeps. *)
SleepingHasTriesLeft ==
  \A s \in Submissions : stage[s] = "sleeping" => tries[s] < MaxAttempts

StaleSpent ==
  \A s \in Submissions : stale[s] =>
    /\ circuit = "Open" => sinceOpened <= Spent(s)
    /\ circuit = "HalfOpen" => RecoveryTimeout <= Spent(s)

CountBelowMisses == circuit = "Closed" => failures <= misses

MInv ==
  /\ MevTypeOK
  /\ SleepingHasTriesLeft
  /\ StaleIsActive
  /\ StaleSpent
  /\ CountBelowMisses

-----------------------------------------------------------------------------
(* Arithmetic of the rounds. *)

LEMMA RoundFacts ==
  /\ Round \in Nat
  /\ RelayTimeout \in Nat /\ MaxSleep \in Nat
  /\ Round = RelayTimeout + MaxSleep
  BY MevAssumption DEF Round

LEMMA NextRound ==
  ASSUME NEW n \in Nat \ {0}, NEW m, m = n + 1
  PROVE  (m - 1) * Round = (n - 1) * Round + Round
  BY RoundFacts

LEMMA RoundsMonotone ==
  ASSUME NEW n \in Nat \ {0}, n <= MaxAttempts
  PROVE  /\ (n - 1) * Round \in Nat
         /\ (n - 1) * Round <= (MaxAttempts - 1) * Round
  <1>1. PICK d \in Nat : MaxAttempts = n + d
    <2>1. MaxAttempts - n \in Nat /\ MaxAttempts = n + (MaxAttempts - n)
      BY MevAssumption
    <2>2. QED
      BY <2>1
  <1>2. d * Round \in Nat /\ (n - 1) * Round \in Nat
    BY RoundFacts
  <1>3. (MaxAttempts - 1) * Round = (n - 1) * Round + d * Round
    BY <1>1, RoundFacts
  <1>4. QED
    BY <1>2, <1>3

LEMMA LongestIsRounds ==
  LongestSubmission = (MaxAttempts - 1) * Round + RelayTimeout
  BY MevAssumption DEF LongestSubmission, Round

(* What a submission has spent is a number, after a step too. *)
LEMMA SpentIsNat ==
  ASSUME MevTypeOK, NEW s \in Submissions, Active(s)
  PROVE  Spent(s) \in Nat
  <1>1. /\ tries[s] \in Nat \ {0} /\ tries[s] <= MaxAttempts
        /\ wait[s] \in Nat
    BY MevAssumption DEF MevTypeOK, Active
  <1>2. (tries[s] - 1) * Round \in Nat
    BY <1>1, RoundsMonotone
  <1>3. QED
    BY <1>1, <1>2, RoundFacts DEF Spent

LEMMA SpentIsNatAfter ==
  ASSUME MevTypeOK', NEW s \in Submissions, Active(s)'
  PROVE  Spent(s)' \in Nat
  <1>1. /\ tries'[s] \in Nat \ {0} /\ tries'[s] <= MaxAttempts
        /\ wait'[s] \in Nat
    BY MevAssumption DEF MevTypeOK, Active
  <1>2. (tries'[s] - 1) * Round \in Nat
    BY <1>1, RoundsMonotone
  <1>3. Spent(s)' = (tries'[s] - 1) * Round + wait'[s]
                      + (IF Sending(s)' THEN 0 ELSE RelayTimeout)
    BY DEF Spent, Round
  <1>4. QED
    BY <1>1, <1>2, <1>3, RoundFacts

(* No submission has been going on for longer than all its rounds. *)
LEMMA SpentBounded ==
  ASSUME MevTypeOK, SleepingHasTriesLeft, NEW s \in Submissions, Active(s)
  PROVE  Spent(s) \in Nat /\ Spent(s) <= LongestSubmission
  <1> DEFINE before == (tries[s] - 1) * Round
  <1>1. tries[s] \in Nat \ {0} /\ tries[s] <= MaxAttempts
    BY MevAssumption DEF MevTypeOK, Active
  <1>2. /\ wait[s] \in Nat
        /\ Sending(s) => wait[s] <= RelayTimeout
        /\ ~Sending(s) => wait[s] <= MaxSleep
    BY DEF MevTypeOK, Sending
  <1>3. before \in Nat /\ before <= (MaxAttempts - 1) * Round
    BY <1>1, RoundsMonotone
  <1>4. /\ (MaxAttempts - 1) * Round \in Nat
        /\ (MaxAttempts - 1) * Round + RelayTimeout = LongestSubmission
    <2>1. (MaxAttempts - 1) * Round \in Nat
      BY MevAssumption, RoundsMonotone
    <2>2. QED
      BY <2>1, LongestIsRounds
  <1>5. Spent(s) = before + wait[s] + (IF Sending(s) THEN 0 ELSE RelayTimeout)
    BY DEF Spent
  <1>6. CASE Sending(s)
    <2> HIDE DEF before
    <2>1. QED
      BY <1>2, <1>3, <1>4, <1>5, <1>6, RoundFacts
  <1>7. CASE ~Sending(s)
    <2>1. stage[s] = "sleeping"
      BY <1>7 DEF MevTypeOK, Stages, Active, Sending
    <2>2. tries[s] + 1 \in Nat \ {0} /\ tries[s] + 1 <= MaxAttempts
      BY <2>1, <1>1, MevAssumption DEF SleepingHasTriesLeft
    <2>3. before + Round <= (MaxAttempts - 1) * Round
      BY <1>1, <2>2, RoundsMonotone, NextRound
    <2> HIDE DEF before
    <2>4. QED
      BY <2>3, <1>2, <1>3, <1>4, <1>5, <1>7, RoundFacts
  <1>8. QED
    BY <1>6, <1>7

-----------------------------------------------------------------------------
LEMMA InitMInv == MevInit => MInv
  <1> SUFFICES ASSUME MevInit PROVE MInv
    OBVIOUS
  <1> USE BreakerAssumption, MevAssumption DEF MevInit, BreakerInit
  <1>1. MevTypeOK
    BY DEF MevTypeOK, BreakerTypeOK, CircuitStates, Stages
  <1>2. SleepingHasTriesLeft /\ StaleIsActive /\ StaleSpent
    BY DEF SleepingHasTriesLeft, StaleIsActive, StaleSpent
  <1>3. CountBelowMisses
    BY DEF CountBelowMisses
  <1>4. QED
    BY <1>1, <1>2, <1>3 DEF MInv

(* What the end of a submission does to the variables of the submissions. *)
LEMMA FinishType ==
  ASSUME MevTypeOK, NEW s \in Submissions, Finish(s)
  PROVE  /\ stage' \in [Submissions -> Stages]
         /\ tries' \in [Submissions -> 0..MaxAttempts]
         /\ wait' \in [Submissions -> Nat]
         /\ lastError' \in [Submissions -> ErrorKinds \cup {"none"}]
         /\ \A q \in Submissions :
              /\ stage'[q] = "idle" <=> tries'[q] = 0
              /\ wait'[q] <= IF stage'[q] = "sending" THEN RelayTimeout ELSE MaxSleep
         /\ stage'[s] = "idle"
         /\ \A q \in Submissions \ {s} :
              stage'[q] = stage[q] /\ tries'[q] = tries[q] /\ wait'[q] = wait[q]
  <1> USE MevAssumption DEF MevTypeOK, Finish
  <1>1. /\ stage' \in [Submissions -> Stages]
        /\ tries' \in [Submissions -> 0..MaxAttempts]
        /\ wait' \in [Submissions -> Nat]
        /\ lastError' \in [Submissions -> ErrorKinds \cup {"none"}]
    BY DEF Stages
  <1>2. stage'[s] = "idle" /\ tries'[s] = 0 /\ wait'[s] = 0
    OBVIOUS
  <1>3. \A q \in Submissions \ {s} :
          stage'[q] = stage[q] /\ tries'[q] = tries[q] /\ wait'[q] = wait[q]
    OBVIOUS
  <1>4. \A q \in Submissions :
          /\ stage'[q] = "idle" <=> tries'[q] = 0
          /\ wait'[q] <= IF stage'[q] = "sending" THEN RelayTimeout ELSE MaxSleep
    BY <1>2, <1>3
  <1>5. QED
    BY <1>1, <1>2, <1>3, <1>4

LEMMA TrackStaleType ==
  ASSUME TrackStale
  PROVE  /\ stale' \in [Submissions -> BOOLEAN]
         /\ \A q \in Submissions : stale'[q] => stage'[q] # "idle"
         /\ ~(circuit # "Open" /\ circuit' = "Open") =>
              \A q \in Submissions : stale'[q] => stale[q]
  <1>1. CASE circuit # "Open" /\ circuit' = "Open"
    BY <1>1 DEF TrackStale
  <1>2. CASE ~(circuit # "Open" /\ circuit' = "Open")
    <2>1. stale' = [s \in Submissions |-> stale[s] /\ stage'[s] # "idle"]
      BY <1>2 DEF TrackStale
    <2>2. \A s \in Submissions : (stale[s] /\ stage'[s] # "idle") \in BOOLEAN
      OBVIOUS
    <2>3. QED
      BY <2>1, <2>2, <1>2
  <1>3. QED
    BY <1>1, <1>2

(***************************************************************************)
(* A step that ends a submission, whatever the breaker hears of it.        *)
(***************************************************************************)
LEMMA FinishedStep ==
  ASSUME MInv, NEW s \in Submissions, Finish(s), TrackStale, BreakerTypeOK',
         circuit = "Open" => UNCHANGED breakerVars,
         circuit # "Open" /\ circuit' = "Open" => sinceOpened' = 0,
         circuit' = "HalfOpen" => circuit = "HalfOpen",
         misses' \in 0..FailureThreshold,
         circuit' = "Closed" => failures' <= misses'
  PROVE  MInv'
  <1>0. MevTypeOK /\ SleepingHasTriesLeft
    BY DEF MInv
  <1>1. MevTypeOK'
    BY <1>0, FinishType, TrackStaleType DEF MevTypeOK
  <1>2. SleepingHasTriesLeft'
    BY <1>0, FinishType DEF SleepingHasTriesLeft
  <1>3. StaleIsActive'
    BY TrackStaleType DEF StaleIsActive, Active
  <1>4. StaleSpent'
    <2> SUFFICES ASSUME NEW q \in Submissions, stale'[q]
                 PROVE  /\ circuit' = "Open" => sinceOpened' <= Spent(q)'
                        /\ circuit' = "HalfOpen" => RecoveryTimeout <= Spent(q)'
      BY DEF StaleSpent
    <2>1. CASE circuit # "Open" /\ circuit' = "Open"
      <3>1. Active(q)'
        BY <1>3 DEF StaleIsActive
      <3>2. Spent(q)' \in Nat
        BY <1>1, <3>1, SpentIsNatAfter
      <3>3. QED
        BY <2>1, <3>2
    <2>2. CASE ~(circuit # "Open" /\ circuit' = "Open")
      <3>1. stale[q] /\ stage'[q] # "idle"
        BY <2>2, TrackStaleType
      <3>2. q # s /\ stage'[q] = stage[q] /\ tries'[q] = tries[q] /\ wait'[q] = wait[q]
        BY <3>1, <1>0, FinishType
      <3>3. Spent(q)' = Spent(q)
        BY <3>2 DEF Spent, Sending
      <3>4. circuit' = "Open" => sinceOpened' = sinceOpened /\ circuit = "Open"
        BY <2>2 DEF breakerVars
      <3>5. QED
        BY <3>1, <3>3, <3>4 DEF MInv, StaleSpent
    <2>3. QED
      BY <2>1, <2>2
  <1>5. CountBelowMisses'
    BY DEF CountBelowMisses
  <1>6. QED
    BY <1>1, <1>2, <1>3, <1>4, <1>5 DEF MInv

LEMMA CountMissRange ==
  ASSUME MevTypeOK, CountMiss
  PROVE  /\ misses' \in 0..FailureThreshold
         /\ misses <= misses'
         /\ misses' = misses + 1 \/ misses' = FailureThreshold
  BY BreakerAssumption DEF MevTypeOK, CountMiss

LEMMA CancelStep ==
  ASSUME MInv, NEW s \in Submissions, Cancel(s)
  PROVE  MInv'
  <1>1. Finish(s) /\ TrackStale /\ UNCHANGED breakerVars /\ misses' = misses
    BY DEF Cancel
  <1>2. BreakerTypeOK' /\ misses' \in 0..FailureThreshold
    BY <1>1 DEF MInv, MevTypeOK, BreakerTypeOK, breakerVars
  <1>3. circuit' = "Closed" => failures' <= misses'
    BY <1>1 DEF MInv, CountBelowMisses, breakerVars
  <1>4. QED
    BY <1>1, <1>2, <1>3, FinishedStep DEF breakerVars

LEMMA SucceedStep ==
  ASSUME MInv, NEW s \in Submissions, Succeed(s)
  PROVE  MInv'
  <1>1. BreakerTypeOK /\ RecordSuccess /\ Finish(s) /\ TrackStale /\ misses' = 0
    BY DEF Succeed, MInv, MevTypeOK
  <1>2. BreakerTypeOK'
    BY <1>1, RecordSuccessType
  <1>3. /\ circuit' = IF circuit = "Open" THEN "Open" ELSE "Closed"
        /\ circuit = "Open" => UNCHANGED breakerVars
        /\ circuit # "Open" => failures' = 0
    BY <1>1, RecordSuccessEffect
  <1>4. QED
    BY <1>1, <1>2, <1>3, FinishedStep, BreakerAssumption

LEMMA GiveUpStep ==
  ASSUME MInv, NEW s \in Submissions, GiveUp(s)
  PROVE  MInv'
  <1>1. BreakerTypeOK /\ RecordFailure /\ CountMiss /\ Finish(s) /\ TrackStale
    BY DEF GiveUp, MInv, MevTypeOK
  <1>2. BreakerTypeOK'
    BY <1>1, RecordFailureType
  <1>3. /\ circuit' \in {"Closed", "Open"}
        /\ circuit = "Open" => UNCHANGED breakerVars
        /\ circuit # "Open" /\ circuit' = "Open" => sinceOpened' = 0
        /\ circuit' = "Closed" => circuit = "Closed" /\ failures' = failures + 1
    BY <1>1, RecordFailureEffect
  <1>4. misses' \in 0..FailureThreshold /\ (misses' = misses + 1 \/ misses' = FailureThreshold)
    BY <1>1, CountMissRange DEF MInv
  <1>5. circuit' = "Closed" => failures' <= misses'
    <2> SUFFICES ASSUME circuit' = "Closed" PROVE failures' <= misses'
      OBVIOUS
    <2>1. failures <= misses /\ failures' = failures + 1
      BY <1>3 DEF MInv, CountBelowMisses
    <2>2. failures' = 0 \/ failures' < FailureThreshold
      BY <1>2 DEF BreakerTypeOK
    <2>3. QED
      BY <2>1, <2>2, <1>2, <1>4, BreakerAssumption
         DEF MInv, MevTypeOK, BreakerTypeOK
  <1>6. QED
    BY <1>1, <1>2, <1>3, <1>4, <1>5, FinishedStep

(***************************************************************************)
(* A step after which the submissions are the same but for s, which goes   *)
(* on, and the breaker has at most turned half-open.                       *)
(***************************************************************************)
LEMMA GoesOnStep ==
  ASSUME MInv, MevTypeOK', SleepingHasTriesLeft',
         UNCHANGED <<stale, misses>>,
         UNCHANGED breakerVars \/ FlipIfRecovered,
         NEW s \in Submissions,
         stage'[s] # "idle",
         stale[s] => Spent(s) <= Spent(s)',
         \A q \in Submissions \ {s} :
           stage'[q] = stage[q] /\ tries'[q] = tries[q] /\ wait'[q] = wait[q]
  PROVE  MInv'
  <1>0. BreakerTypeOK /\ MevTypeOK /\ SleepingHasTriesLeft
    BY DEF MInv, MevTypeOK
  <1>1. StaleIsActive'
    BY DEF MInv, StaleIsActive, Active
  <1>2. StaleSpent'
    <2> SUFFICES ASSUME NEW q \in Submissions, stale[q]
                 PROVE  /\ circuit' = "Open" => sinceOpened' <= Spent(q)'
                        /\ circuit' = "HalfOpen" => RecoveryTimeout <= Spent(q)'
      BY DEF StaleSpent
    <2>1. /\ circuit = "Open" => sinceOpened <= Spent(q)
          /\ circuit = "HalfOpen" => RecoveryTimeout <= Spent(q)
          /\ Spent(q) \in Nat
      BY <1>0, SpentIsNat DEF MInv, StaleSpent, StaleIsActive
    <2>2. Spent(q)' \in Nat /\ Spent(q) <= Spent(q)'
      <3>1. CASE q = s
        BY <3>1, SpentIsNatAfter DEF Active
      <3>2. CASE q # s
        <4>1. Spent(q)' = Spent(q)
          BY <3>2 DEF Spent, Sending
        <4>2. QED
          BY <2>1, <4>1
      <3>3. QED
        BY <3>1, <3>2
    <2>3. /\ sinceOpened \in Nat
          /\ circuit' = "Open" => circuit = "Open" /\ sinceOpened' = sinceOpened
          /\ circuit' = "HalfOpen" =>
               circuit = "HalfOpen" \/ (circuit = "Open" /\ RecoveryElapsed)
      BY <1>0, FlipEffect DEF breakerVars, BreakerTypeOK
    <2>4. QED
      BY <2>1, <2>2, <2>3, BreakerAssumption DEF RecoveryElapsed
  <1>3. CountBelowMisses'
    BY <1>0, FlipEffect DEF MInv, CountBelowMisses, breakerVars
  <1>4. QED
    BY <1>1, <1>2, <1>3 DEF MInv

LEMMA SubmitStep ==
  ASSUME MInv, NEW s \in Submissions, Submit(s)
  PROVE  MInv'
  <1> USE MevAssumption
  <1>1. BreakerTypeOK'
    BY FlipType DEF Submit, MInv, MevTypeOK
  <1>2. MevTypeOK'
    BY <1>1 DEF Submit, Begin, MInv, MevTypeOK, Stages
  <1>3. SleepingHasTriesLeft'
    BY DEF Submit, Begin, MInv, MevTypeOK, SleepingHasTriesLeft
  <1>4. /\ stage'[s] # "idle" /\ ~stale[s]
        /\ \A q \in Submissions \ {s} :
             stage'[q] = stage[q] /\ tries'[q] = tries[q] /\ wait'[q] = wait[q]
    BY DEF Submit, Begin, MInv, MevTypeOK, StaleIsActive, Active
  <1>5. QED
    BY <1>2, <1>3, <1>4, GoesOnStep DEF Submit

(* An attempt that fails early makes a submission no younger. *)
LEMMA SleepLengthens ==
  ASSUME MInv, NEW s \in Submissions, NEW e \in Errors, Sending(s), Sleep(s, e)
  PROVE  Spent(s) <= Spent(s)'
  <1>1. /\ tries[s] \in Nat \ {0} /\ tries[s] <= MaxAttempts
        /\ wait[s] \in Nat /\ wait[s] <= RelayTimeout
    BY DEF MInv, MevTypeOK, Sending
  <1>2. (tries[s] - 1) * Round \in Nat
    BY <1>1, RoundsMonotone
  <1>3. Spent(s) = (tries[s] - 1) * Round + wait[s] + 0
    BY DEF Spent
  <1>4. tries'[s] = tries[s] /\ wait'[s] = 0 /\ ~Sending(s)'
    BY DEF Sleep, MInv, MevTypeOK, Sending
  <1>5. Spent(s)' = (tries[s] - 1) * Round + 0 + RelayTimeout
    BY <1>4 DEF Spent, Round
  <1>6. QED
    BY <1>1, <1>2, <1>3, <1>5, RoundFacts

LEMMA SleepStep ==
  ASSUME MInv, NEW s \in Submissions, NEW e \in Errors, Sending(s),
         tries[s] < MaxAttempts, UNCHANGED breakerVars, Sleep(s, e)
  PROVE  MInv'
  <1> USE MevAssumption
  <1>1. MevTypeOK'
    BY DEF Sleep, MInv, MevTypeOK, BreakerTypeOK, Stages, Sending, breakerVars, Errors
  <1>2. SleepingHasTriesLeft'
    BY DEF Sleep, MInv, MevTypeOK, SleepingHasTriesLeft
  <1>3. /\ stage'[s] # "idle"
        /\ \A q \in Submissions \ {s} :
             stage'[q] = stage[q] /\ tries'[q] = tries[q] /\ wait'[q] = wait[q]
    BY DEF Sleep, MInv, MevTypeOK
  <1>4. Spent(s) <= Spent(s)'
    BY SleepLengthens
  <1>5. QED
    BY <1>1, <1>2, <1>3, <1>4, GoesOnStep DEF Sleep

(* Nor does a sleep that is shorter than the longest. *)
LEMMA WakeLengthens ==
  ASSUME MInv, NEW s \in Submissions, Wake(s)
  PROVE  Spent(s) <= Spent(s)'
  <1> USE MevAssumption
  <1>0. /\ tries[s] \in Nat \ {0} /\ tries[s] + 1 <= MaxAttempts
        /\ wait[s] \in Nat /\ wait[s] <= MaxSleep
        /\ ~Sending(s)
    BY DEF Wake, MInv, MevTypeOK, SleepingHasTriesLeft, Sending
  <1>1. (tries[s] - 1) * Round \in Nat
    BY <1>0, RoundsMonotone
  <1>2. Spent(s) = (tries[s] - 1) * Round + wait[s] + RelayTimeout
    BY <1>0 DEF Spent
  <1>3. tries'[s] = tries[s] + 1 /\ wait'[s] = 0 /\ Sending(s)'
    BY DEF Wake, Begin, MInv, MevTypeOK, Sending
  <1>4. Spent(s)' = (tries'[s] - 1) * Round + wait'[s]
                      + (IF Sending(s)' THEN 0 ELSE RelayTimeout)
    BY DEF Spent, Round
  <1>5. (tries'[s] - 1) * Round = (tries[s] - 1) * Round + Round
    BY <1>0, <1>3, NextRound
  <1> DEFINE before == (tries[s] - 1) * Round
             now    == (tries'[s] - 1) * Round
  <1>6. now \in Nat /\ now = before + Round /\ before \in Nat
    BY <1>1, <1>5, RoundFacts
  <1>7. Spent(s) = before + wait[s] + RelayTimeout /\ Spent(s)' = now + 0 + 0
    BY <1>2, <1>3, <1>4
  <1> HIDE DEF before, now
  <1>8. QED
    BY <1>0, <1>6, <1>7, RoundFacts

LEMMA WakeStep ==
  ASSUME MInv, NEW s \in Submissions, Wake(s)
  PROVE  MInv'
  <1> USE MevAssumption
  <1>0. /\ tries[s] \in Nat \ {0} /\ tries[s] + 1 <= MaxAttempts
        /\ wait[s] \in Nat /\ wait[s] <= MaxSleep
        /\ ~Sending(s)
    BY DEF Wake, MInv, MevTypeOK, SleepingHasTriesLeft, Sending
  <1>1. MevTypeOK'
    BY <1>0 DEF Wake, Begin, MInv, MevTypeOK, BreakerTypeOK, Stages, breakerVars
  <1>2. SleepingHasTriesLeft'
    BY DEF Wake, Begin, MInv, MevTypeOK, SleepingHasTriesLeft
  <1>3. /\ stage'[s] # "idle"
        /\ \A q \in Submissions \ {s} :
             stage'[q] = stage[q] /\ tries'[q] = tries[q] /\ wait'[q] = wait[q]
    BY DEF Wake, Begin, MInv, MevTypeOK
  <1>4. Spent(s) <= Spent(s)'
    BY WakeLengthens
  <1>5. QED
    BY <1>1, <1>2, <1>3, <1>4, GoesOnStep DEF Wake

(* A tick makes a submission one tick older. *)
LEMMA TickLengthens ==
  ASSUME MInv, Tick, NEW s \in Submissions, Active(s)
  PROVE  Spent(s)' = Spent(s) + 1
  <1> DEFINE before == (tries[s] - 1) * Round
             after  == IF Sending(s) THEN 0 ELSE RelayTimeout
  <1>1. tries[s] \in Nat \ {0} /\ tries[s] <= MaxAttempts
    BY MevAssumption DEF MInv, MevTypeOK, Active
  <1>2. before \in Nat /\ after \in Nat /\ wait[s] \in Nat /\ wait'[s] = wait[s] + 1
    BY <1>1, RoundsMonotone, MevAssumption DEF MInv, MevTypeOK, Tick
  <1>3. Spent(s) = before + wait[s] + after
    BY DEF Spent
  <1>4. Spent(s)' = before + wait'[s] + after
    BY DEF Spent, Sending, Round, Tick
  <1> HIDE DEF before, after
  <1>5. QED
    BY <1>2, <1>3, <1>4

LEMMA TickStep ==
  ASSUME MInv, Tick
  PROVE  MInv'
  <1> USE BreakerAssumption, MevAssumption DEF Tick
  <1>0. BreakerTypeOK /\ MevTypeOK /\ SleepingHasTriesLeft
    BY DEF MInv, MevTypeOK
  <1>1. BreakerTypeOK'
    BY <1>0, BreakerTickType
  <1>2. \A s \in Submissions :
          /\ wait'[s] = IF Active(s) THEN wait[s] + 1 ELSE wait[s]
          /\ wait[s] \in Nat
          /\ Sending(s) => Active(s) /\ wait[s] < RelayTimeout
          /\ stage[s] = "sleeping" => wait[s] < MaxSleep
    BY <1>0 DEF MevTypeOK, Due, Sending, Active
  <1>3. wait' \in [Submissions -> Nat]
    BY <1>2
  <1>4. \A s \in Submissions :
          wait'[s] <= IF stage[s] = "sending" THEN RelayTimeout ELSE MaxSleep
    BY <1>0, <1>2 DEF MevTypeOK, Sending, Active, Stages
  <1>5. MevTypeOK'
    BY <1>0, <1>1, <1>3, <1>4 DEF MevTypeOK
  <1>6. SleepingHasTriesLeft' /\ StaleIsActive'
    BY DEF MInv, SleepingHasTriesLeft, StaleIsActive, Active
  <1>7. StaleSpent'
    <2> SUFFICES ASSUME NEW s \in Submissions, stale[s]
                 PROVE  /\ circuit' = "Open" => sinceOpened' <= Spent(s)'
                        /\ circuit' = "HalfOpen" => RecoveryTimeout <= Spent(s)'
      BY DEF StaleSpent
    <2>1. /\ circuit = "Open" => sinceOpened <= Spent(s)
          /\ circuit = "HalfOpen" => RecoveryTimeout <= Spent(s)
          /\ Active(s)
      BY DEF MInv, StaleSpent, StaleIsActive
    <2>2. Spent(s) \in Nat /\ Spent(s)' = Spent(s) + 1
      BY <1>0, <2>1, SpentIsNat, TickLengthens
    <2>3. circuit' = circuit /\ sinceOpened \in Nat /\ sinceOpened' <= sinceOpened + 1
          /\ sinceOpened' \in Nat
      BY <1>0 DEF BreakerTick, BreakerTypeOK
    <2>4. QED
      BY <2>1, <2>2, <2>3
  <1>8. CountBelowMisses'
    BY DEF MInv, CountBelowMisses, BreakerTick
  <1>9. QED
    BY <1>5, <1>6, <1>7, <1>8 DEF MInv

-----------------------------------------------------------------------------
(* An attempt's failure ends the submission or sends it to sleep. *)
LEMMA FailStep ==
  ASSUME MInv, NEW s \in Submissions, NEW e \in Errors, Fail(s, e)
  PROVE  MInv'
  <1>1. CASE GiveUp(s)
    BY <1>1, GiveUpStep
  <1>2. CASE tries[s] < MaxAttempts /\ UNCHANGED breakerVars /\ Sleep(s, e)
    BY <1>2, SleepStep DEF Fail
  <1>3. QED
    BY <1>1, <1>2 DEF Fail

LEMMA NextMInv ==
  ASSUME MInv, [MevNext]_vars
  PROVE  MInv'
  <1>1. CASE Tick
    BY <1>1, TickStep
  <1>2. ASSUME NEW s \in Submissions, Step(s)
        PROVE  MInv'
    <2>1. CASE Submit(s)
      BY <2>1, SubmitStep
    <2>2. CASE Succeed(s)
      BY <2>2, SucceedStep
    <2>3. CASE \E e \in Errors : Fail(s, e)
      BY <2>3, FailStep
    <2>4. CASE AttemptTimesOut(s)
      <3>1. NetworkError \in Errors
        BY DEF NetworkError, Errors, ErrorKinds
      <3>2. QED
        BY <2>4, <3>1, FailStep DEF AttemptTimesOut
    <2>5. CASE Wake(s)
      BY <2>5, WakeStep
    <2>6. CASE Cancel(s)
      BY <2>6, CancelStep
    <2>7. QED
      BY <1>2, <2>1, <2>2, <2>3, <2>4, <2>5, <2>6 DEF Step
  <1>3. CASE UNCHANGED vars
    BY <1>3 DEF MInv, MevTypeOK, BreakerTypeOK, SleepingHasTriesLeft, StaleIsActive,
                StaleSpent, Spent, Round, CountBelowMisses, Active,
                Sending, vars
  <1>4. QED
    BY <1>1, <1>2, <1>3 DEF MevNext

LEMMA InductiveInvariant == MevSpec => []MInv
  BY InitMInv, NextMInv, PTL DEF MevSpec

-----------------------------------------------------------------------------
(* Every reachable state is well typed: in particular no submission begins *)
(* more than MaxAttempts attempts.                                         *)
THEOREM MevTypeCorrect == MevSpec => []MevTypeOK
  <1>1. MInv => MevTypeOK
    BY DEF MInv
  <1>2. QED
    BY <1>1, InductiveInvariant, PTL

(* Rounds behind it counted in full, a submission from before the circuit  *)
(* opened has used up at least the recovery time once it is half-open.     *)
OldVerdictsAreLong ==
  circuit = "HalfOpen" =>
    \A s \in Submissions : stale[s] => Active(s) /\ RecoveryTimeout <= Spent(s)

(***************************************************************************)
(* Whatever FLASHBOTS_REQUEST_TIMEOUT is set to: a half-open circuit hears *)
(* only of such older submissions as have the whole recovery time's worth  *)
(* of attempts and sleeps behind them.                                     *)
(***************************************************************************)
THEOREM OnlyLongVerdictsAreOld == MevSpec => []OldVerdictsAreLong
  <1>1. MInv => OldVerdictsAreLong
    BY DEF MInv, StaleIsActive, StaleSpent, OldVerdictsAreLong
  <1>2. QED
    BY <1>1, InductiveInvariant, PTL

(***************************************************************************)
(* With timeouts that leave no submission that much time, as the defaults  *)
(* do, it hears of none: the verdict on its probe is the probe's.  The     *)
(* configuration does not enforce the hypothesis.                          *)
(***************************************************************************)
THEOREM VerdictsAreFresh ==
  ASSUME WithinRecovery
  PROVE  MevSpec => []VerdictIsFresh
  <1>1. MInv => VerdictIsFresh
    <2> SUFFICES ASSUME MInv, circuit = "HalfOpen", NEW s \in Submissions, stale[s]
                 PROVE  FALSE
      BY DEF VerdictIsFresh
    <2>1. RecoveryTimeout <= Spent(s) /\ Active(s)
      BY DEF MInv, StaleSpent, StaleIsActive
    <2>2. Spent(s) \in Nat /\ Spent(s) <= LongestSubmission
      BY <2>1, SpentBounded DEF MInv
    <2>3. LongestSubmission \in Nat
      BY LongestIsRounds, RoundsMonotone, MevAssumption
    <2>4. QED
      BY <2>1, <2>2, <2>3, BreakerAssumption DEF WithinRecovery
  <1>2. QED
    BY <1>1, InductiveInvariant, PTL

-----------------------------------------------------------------------------
(* What one step of the daemon can do to the circuit. *)
LEMMA CircuitSteps ==
  ASSUME MInv, [MevNext]_vars
  PROVE  \/ UNCHANGED <<circuit, sinceOpened>>
         \/ BreakerTick
         \/ RecordSuccess
         \/ RecordFailure /\ CountMiss
         \/ \E s \in Submissions : Submit(s)
  <1>1. CASE Tick
    BY <1>1 DEF Tick
  <1>2. ASSUME NEW s \in Submissions, Step(s)
        PROVE  \/ UNCHANGED <<circuit, sinceOpened>>
               \/ RecordSuccess
               \/ RecordFailure /\ CountMiss
               \/ Submit(s)
    BY <1>2 DEF Step, Succeed, Fail, GiveUp, AttemptTimesOut, Wake, Cancel, breakerVars
  <1>3. CASE UNCHANGED vars
    BY <1>3 DEF vars
  <1>4. QED
    BY <1>1, <1>2, <1>3 DEF MevNext

(***************************************************************************)
(* No step begins a submission and leaves the circuit open.                *)
(***************************************************************************)
THEOREM OpenCircuitStartsNothing == MevSpec => OpenAdmitsNobody
  <1> DEFINE New == \E s \in Submissions : Active(s)' /\ ~Active(s)
  <1>1. ASSUME MInv, [MevNext]_vars, New
        PROVE  ~(circuit = "Open" /\ circuit' = "Open")
    <2>1. PICK s \in Submissions : stage'[s] # "idle" /\ stage[s] = "idle"
      BY <1>1 DEF Active
    <2>2. PICK q \in Submissions : Step(q)
      BY <1>1, <2>1 DEF MevNext, Tick, vars
    <2>3. Submit(q)
      BY <2>1, <2>2, <1>1
         DEF Step, Succeed, Fail, GiveUp, Sleep, AttemptTimesOut, Wake, Begin, Cancel,
             Sending, Finish, MInv, MevTypeOK
    <2>4. QED
      BY <2>3, FlipEffect, <1>1 DEF Submit, CanProceed, MInv, MevTypeOK
  <1>2. MInv /\ [MevNext]_vars =>
          [circuit = "Open" /\ circuit' = "Open" =>
             \A s \in Submissions : Active(s)' => Active(s)]_vars
    BY <1>1
  <1>3. QED
    BY <1>2, InductiveInvariant, PTL DEF MevSpec, OpenAdmitsNobody

(***************************************************************************)
(* A closed circuit leaves Closed on the FailureThreshold-th submission in *)
(* a row that failed, never on an attempt that will be retried.            *)
(***************************************************************************)
THEOREM SubmissionsTripOnly == MevSpec => SubmissionsTrip
  <1>1. ASSUME MInv, [MevNext]_vars, circuit = "Closed", circuit' # "Closed"
        PROVE  misses' = FailureThreshold
    <2>1. /\ MevTypeOK /\ BreakerTypeOK
          /\ misses \in 0..FailureThreshold /\ failures <= misses
      BY <1>1 DEF MInv, MevTypeOK, CountBelowMisses
    <2>2. RecordFailure /\ CountMiss
      <3>1. ~RecordSuccess
        BY <1>1, <2>1, RecordSuccessEffect
      <3>2. ~BreakerTick
        BY <1>1 DEF BreakerTick
      <3>3. ~(\E s \in Submissions : Submit(s))
        BY <1>1, <2>1, FlipEffect DEF Submit, breakerVars
      <3>4. QED
        BY <1>1, <3>1, <3>2, <3>3, CircuitSteps
    <2>3. failures + 1 >= FailureThreshold
      BY <1>1, <2>1, <2>2, RecordFailureEffect, RecordFailureType DEF BreakerTypeOK, CircuitStates
    <2>4. misses' \in 0..FailureThreshold /\ (misses' = misses + 1 \/ misses' = FailureThreshold)
      BY <2>1, <2>2, CountMissRange
    <2>5. QED
      BY <2>1, <2>3, <2>4, BreakerAssumption DEF BreakerTypeOK
  <1>2. MInv /\ [MevNext]_vars =>
          [circuit = "Closed" /\ circuit' # "Closed" => misses' = FailureThreshold]_vars
    BY <1>1
  <1>3. QED
    BY <1>2, InductiveInvariant, PTL DEF MevSpec, SubmissionsTrip

(***************************************************************************)
(* The breaker of the relay refines the abstract transition table.         *)
(***************************************************************************)
THEOREM MevRefinesContract == MevSpec => ImplementsContract
  <1>1. MevInit => Contract!Init
    BY DEF MevInit, BreakerInit, Contract!Init
  <1>2. ASSUME MInv, [MevNext]_vars
        PROVE  [Contract!Next]_(Contract!vars)
    <2> USE DEF Contract!Next, Contract!vars, Contract!Trip, Contract!Cool,
                Contract!Probe, Contract!Verdict
    <2>1. BreakerTypeOK
      BY <1>2 DEF MInv, MevTypeOK
    <2>2. CASE UNCHANGED <<circuit, sinceOpened>>
      BY <2>2
    <2>3. CASE BreakerTick
      BY <2>1, <2>3, BreakerAssumption DEF BreakerTick, RecoveryElapsed, BreakerTypeOK
    <2>4. CASE RecordSuccess
      BY <2>1, <2>4, RecordSuccessEffect DEF BreakerTypeOK, CircuitStates, breakerVars
    <2>5. CASE RecordFailure /\ CountMiss
      BY <2>1, <2>5, RecordFailureEffect DEF BreakerTypeOK, CircuitStates, breakerVars
    <2>6. ASSUME NEW s \in Submissions, Submit(s)
          PROVE  [Contract!Next]_(Contract!vars)
      BY <2>1, <2>6, FlipEffect DEF Submit, RecoveryElapsed, breakerVars
    <2>7. QED
      BY <1>2, <2>2, <2>3, <2>4, <2>5, <2>6, CircuitSteps
  <1>3. QED
    BY <1>1, <1>2, InductiveInvariant, PTL
       DEF MevSpec, ImplementsContract, Contract!Spec

-----------------------------------------------------------------------------
(***************************************************************************)
(* The stopwatch.  The program keeps no clock for a submission, so the     *)
(* bound on its length comes from Spent: while it goes on the stopwatch    *)
(* never shows more than its attempts and sleeps account for.              *)
(***************************************************************************)
Accounted ==
  /\ lasted \in 0 .. TooLong
  /\ Active(Watched) => lasted <= Spent(Watched)
  /\ ~Active(Watched) => lasted = 0

(* A submission that a step leaves alone has spent what it had spent. *)
LEMMA OthersUnchanged ==
  ASSUME MInv, NEW s \in Submissions, Step(s), NEW q \in Submissions \ {s}
  PROVE  /\ stage'[q] = stage[q]
         /\ Spent(q)' = Spent(q)
  <1>1. stage'[q] = stage[q] /\ tries'[q] = tries[q] /\ wait'[q] = wait[q]
    <2>1. CASE Finish(s)
      BY <2>1, FinishType DEF MInv
    <2>2. CASE Submit(s) \/ Wake(s)
      BY <2>2 DEF Submit, Wake, Begin, MInv, MevTypeOK
    <2>3. ASSUME NEW e \in Errors, Sleep(s, e)
          PROVE  stage'[q] = stage[q] /\ tries'[q] = tries[q] /\ wait'[q] = wait[q]
      BY <2>3 DEF Sleep, MInv, MevTypeOK
    <2>4. NetworkError \in Errors
      BY DEF NetworkError, Errors, ErrorKinds
    <2>5. QED
      BY <2>1, <2>2, <2>3, <2>4
         DEF Step, Succeed, Fail, GiveUp, AttemptTimesOut, Cancel
  <1>2. QED
    BY <1>1 DEF Spent, Sending, Round

(* A submission that goes on is no younger for its own steps. *)
LEMMA OwnStepLengthens ==
  ASSUME MInv, NEW s \in Submissions, Step(s), Active(s), Active(s)'
  PROVE  Spent(s) <= Spent(s)'
  <1>1. CASE Wake(s)
    BY <1>1, WakeLengthens
  <1>2. ASSUME NEW e \in Errors, Fail(s, e)
        PROVE  Spent(s) <= Spent(s)'
    <2>1. ~Finish(s)
      BY FinishType DEF MInv, Active
    <2>2. QED
      BY <1>2, <2>1, SleepLengthens DEF Fail, GiveUp
  <1>3. NetworkError \in Errors
    BY DEF NetworkError, Errors, ErrorKinds
  <1>4. ~Submit(s) /\ ~Succeed(s) /\ ~Cancel(s)
    BY FinishType DEF Submit, Succeed, Cancel, MInv, Active
  <1>5. QED
    BY <1>1, <1>2, <1>3, <1>4 DEF Step, AttemptTimesOut

LEMMA TooLongIsNat == TooLong \in Nat
  BY LongestIsRounds, RoundsMonotone, MevAssumption DEF TooLong

LEMMA NextAccounted ==
  ASSUME MInv, MInv', Accounted, [TimedNext]_timedVars
  PROVE  Accounted'
  <1> USE WatchedAssumption
  <1>1. CASE TimedTick
    <2>1. Tick /\ Active(Watched)' = Active(Watched)
      BY <1>1 DEF TimedTick, Tick, Active
    <2>2. CASE Active(Watched)
      <3>1. Spent(Watched) \in Nat /\ Spent(Watched)' = Spent(Watched) + 1
        BY <2>1, <2>2, SpentIsNat, TickLengthens DEF MInv
      <3>2. lasted <= Spent(Watched) /\ lasted \in Nat /\ lasted <= TooLong
        BY <2>2, TooLongIsNat DEF Accounted
      <3>3. lasted' = IF lasted < TooLong THEN lasted + 1 ELSE lasted
        BY <1>1, <2>2 DEF TimedTick
      <3>4. lasted' \in 0 .. TooLong' /\ lasted' <= Spent(Watched)'
        <4>1. TooLong' = TooLong
          BY DEF TooLong, LongestSubmission
        <4>2. QED
          BY <4>1, <3>1, <3>2, <3>3, TooLongIsNat
      <3>5. QED
        BY <2>1, <2>2, <3>4 DEF Accounted
    <2>3. CASE ~Active(Watched)
      BY <1>1, <2>1, <2>3 DEF TimedTick, Accounted, TooLong, LongestSubmission
    <2>4. QED
      BY <2>2, <2>3
  <1>2. ASSUME NEW s \in Submissions, TimedStep(s)
        PROVE  Accounted'
    <2>1. Step(s) /\ lasted' = IF Active(Watched)' THEN lasted ELSE 0
      BY <1>2 DEF TimedStep
    <2>2. lasted' \in 0 .. TooLong'
      BY <2>1, TooLongIsNat DEF Accounted, TooLong, LongestSubmission
    <2>3. CASE ~Active(Watched)'
      BY <2>1, <2>2, <2>3 DEF Accounted
    <2>4. CASE Active(Watched)' /\ ~Active(Watched)
      <3>1. lasted' = 0 /\ Spent(Watched)' \in Nat
        <4>1. Spent(Watched)' \in Nat
          BY <2>4, SpentIsNatAfter DEF MInv
        <4>2. QED
          BY <2>1, <2>4, <4>1 DEF Accounted
      <3>2. QED
        BY <2>2, <2>4, <3>1 DEF Accounted
    <2>5. CASE Active(Watched)' /\ Active(Watched)
      <3>1. lasted' = lasted /\ lasted <= Spent(Watched) /\ lasted \in Nat
        BY <2>1, <2>5, TooLongIsNat DEF Accounted
      <3>2. Spent(Watched) <= Spent(Watched)'
        <4>1. Spent(Watched) \in Nat
          BY <2>5, SpentIsNat DEF MInv
        <4>2. CASE Watched = s
          BY <2>1, <2>5, <4>2, OwnStepLengthens
        <4>3. CASE Watched # s
          BY <2>1, <4>1, <4>3, OthersUnchanged
        <4>4. QED
          BY <4>2, <4>3
      <3>3. Spent(Watched) \in Nat /\ Spent(Watched)' \in Nat
        BY <2>5, SpentIsNat, SpentIsNatAfter DEF MInv
      <3>4. QED
        BY <2>2, <2>5, <3>1, <3>2, <3>3 DEF Accounted
    <2>6. QED
      BY <2>3, <2>4, <2>5
  <1>3. CASE UNCHANGED timedVars
    <2>1. UNCHANGED <<stage, tries, wait, lasted>>
      BY <1>3 DEF timedVars, vars
    <2>2. QED
      BY <2>1 DEF Accounted, Active, Spent, Sending, Round, TooLong, LongestSubmission
  <1>4. QED
    BY <1>1, <1>2, <1>3 DEF TimedNext

LEMMA TimedInvariant == TimedSpec => [](MInv /\ Accounted)
  <1>1. TimedInit => MInv /\ Accounted
    <2> SUFFICES ASSUME TimedInit PROVE MInv /\ Accounted
      OBVIOUS
    <2>1. MInv
      BY InitMInv DEF TimedInit
    <2>2. ~Active(Watched)
      BY WatchedAssumption DEF TimedInit, MevInit, Active
    <2>3. QED
      BY <2>1, <2>2, TooLongIsNat DEF TimedInit, Accounted
  <1>2. [TimedNext]_timedVars => [MevNext]_vars
    BY DEF TimedNext, TimedTick, TimedStep, MevNext, timedVars
  <1>3. MInv /\ Accounted /\ [TimedNext]_timedVars => MInv' /\ Accounted'
    BY <1>2, NextMInv, NextAccounted
  <1>4. QED
    BY <1>1, <1>3, PTL DEF TimedSpec

(***************************************************************************)
(* Types, with the stopwatch: for every submission that is watched.        *)
(***************************************************************************)
THEOREM TimedTypeCorrect == TimedSpec => []TimedTypeOK
  <1>1. MInv /\ Accounted => TimedTypeOK
    BY DEF MInv, Accounted, TimedTypeOK
  <1>2. QED
    BY <1>1, TimedInvariant, PTL

(***************************************************************************)
(* No submission goes on for longer than MaxAttempts timeouts and the      *)
(* sleeps between them, however errors, timeouts, early wake-ups and the   *)
(* other submissions interleave: no fairness is needed, as nothing that is *)
(* due lets the clock move.                                                *)
(***************************************************************************)
THEOREM SubmissionOverInTime == TimedSpec => []OverInTime
  <1>1. ASSUME MInv, Accounted
        PROVE  OverInTime
    <2>1. LongestSubmission \in Nat
      BY LongestIsRounds, RoundsMonotone, MevAssumption
    <2>2. lasted \in Nat
      BY TooLongIsNat, <1>1 DEF Accounted
    <2>3. QED
      BY <1>1, <2>1, <2>2, SpentBounded, WatchedAssumption
         DEF MInv, Accounted, OverInTime
  <1>2. QED
    BY <1>1, TimedInvariant, PTL
=============================================================================
