----------------------------- MODULE MevClient -----------------------------
(***************************************************************************)
(* Submissions of bundles to the MEV relay (src/src/mev/client.rs): one    *)
(* admission by the circuit breaker, up to MaxAttempts signed attempts     *)
(* with a sleep between them, one verdict to the breaker at the end.  The  *)
(* retries do not ask the breaker again.  A submission whose future is     *)
(* dropped by the timeout middleware or a client that disconnects ends     *)
(* without a verdict.                                                      *)
(*                                                                         *)
(* Time is discrete, as in GethProxy: what is due happens before the clock *)
(* moves on.                                                               *)
(***************************************************************************)
EXTENDS CircuitBreaker, FiniteSets

CONSTANTS
  Submissions,   \* identities of the submissions that may be in progress
  MaxAttempts,   \* max_attempts of the RetryPolicy (3)
  RelayTimeout,  \* request_timeout of the relay client (5 s)
  MaxSleep       \* longest sleep between two attempts, jitter included

ASSUME MevAssumption ==
  /\ MaxAttempts \in Nat \ {0}
  /\ RelayTimeout \in Nat
  /\ MaxSleep \in Nat

LongestSubmission == MaxAttempts * RelayTimeout + (MaxAttempts - 1) * MaxSleep

(***************************************************************************)
(* With the defaults a submission takes at most 3 * 5 s plus 0.4 s of      *)
(* sleeping, less than the 30 s an open circuit waits.  Nothing enforces   *)
(* it: FLASHBOTS_REQUEST_TIMEOUT may be any number of seconds.             *)
(***************************************************************************)
WithinRecovery == LongestSubmission < RecoveryTimeout

VARIABLES
  stage,      \* where each submission is
  tries,      \* attempts begun
  wait,       \* ticks in the current attempt or sleep
  lastError,  \* kind of the last error of the submission
  stale,      \* history: the circuit has opened since it was admitted
  misses      \* history: submissions in a row that failed, capped

vars == <<circuit, failures, sinceOpened, stage, tries, wait, lastError, stale, misses>>

Stages == {"idle", "sending", "sleeping"}
ErrorKinds == {"network", "authentication", "validation", "other"}

(***************************************************************************)
(* What send_bundle_attempt can fail with: the kind of the failure, and    *)
(* whether the text the relay sent along has one of the lower-case words   *)
(* authentication, unauthorized, invalid or malformed in it.               *)
(***************************************************************************)
Errors == [kind : ErrorKinds, flagged : BOOLEAN]

MevTypeOK ==
  /\ BreakerTypeOK
  /\ stage \in [Submissions -> Stages]
  /\ tries \in [Submissions -> 0..MaxAttempts]
  /\ wait \in [Submissions -> Nat]
  /\ lastError \in [Submissions -> ErrorKinds \cup {"none"}]
  /\ stale \in [Submissions -> BOOLEAN]
  /\ misses \in 0..FailureThreshold
  /\ \A s \in Submissions :
       /\ stage[s] = "idle" <=> tries[s] = 0
       /\ wait[s] <= IF stage[s] = "sending" THEN RelayTimeout ELSE MaxSleep

MevInit ==
  /\ BreakerInit
  /\ stage = [s \in Submissions |-> "idle"]
  /\ tries = [s \in Submissions |-> 0]
  /\ wait = [s \in Submissions |-> 0]
  /\ lastError = [s \in Submissions |-> "none"]
  /\ stale = [s \in Submissions |-> FALSE]
  /\ misses = 0

-----------------------------------------------------------------------------
Active(s) == stage[s] # "idle"
Sending(s) == stage[s] = "sending"

(* should_retry sees only the error's text.  The texts the client writes   *)
(* itself say "authentication" for a 401 and "Invalid", with a capital,    *)
(* for a 400.                                                              *)
ShouldRetry(e) == e.kind # "authentication" /\ ~e.flagged

Begin(s, n) ==
  /\ stage' = [stage EXCEPT ![s] = "sending"]
  /\ tries' = [tries EXCEPT ![s] = n]
  /\ wait' = [wait EXCEPT ![s] = 0]

Finish(s) ==
  /\ stage' = [stage EXCEPT ![s] = "idle"]
  /\ tries' = [tries EXCEPT ![s] = 0]
  /\ wait' = [wait EXCEPT ![s] = 0]
  /\ lastError' = [lastError EXCEPT ![s] = "none"]

TrackStale ==
  stale' = IF circuit # "Open" /\ circuit' = "Open"
           THEN [s \in Submissions |-> stage'[s] # "idle"]
           ELSE [s \in Submissions |-> stale[s] /\ stage'[s] # "idle"]

CountMiss == misses' = IF misses < FailureThreshold THEN misses + 1 ELSE misses

-----------------------------------------------------------------------------
(* send_bundle with a circuit that lets it proceed.  A refused submission  *)
(* changes nothing: it is a stuttering step.                               *)
Submit(s) ==
  /\ stage[s] = "idle"
  /\ CanProceed
  /\ FlipIfRecovered
  /\ Begin(s, 1)
  /\ UNCHANGED <<lastError, stale, misses>>

(* The relay answers with a bundle hash. *)
Succeed(s) ==
  /\ Sending(s)
  /\ RecordSuccess
  /\ Finish(s)
  /\ TrackStale
  /\ misses' = 0

(* Not retryable, or the last attempt: one failure for the submission. *)
GiveUp(s) ==
  /\ RecordFailure
  /\ Finish(s)
  /\ TrackStale
  /\ CountMiss

Sleep(s, e) ==
  /\ stage' = [stage EXCEPT ![s] = "sleeping"]
  /\ wait' = [wait EXCEPT ![s] = 0]
  /\ lastError' = [lastError EXCEPT ![s] = e.kind]
  /\ UNCHANGED <<tries, stale, misses>>

FailCountingAttempts(s, e) ==   \* mutant: every attempt is told to the breaker
  /\ Sending(s)
  /\ IF ShouldRetry(e) /\ tries[s] < MaxAttempts
     THEN /\ RecordFailure
          /\ stage' = [stage EXCEPT ![s] = "sleeping"]
          /\ wait' = [wait EXCEPT ![s] = 0]
          /\ lastError' = [lastError EXCEPT ![s] = e.kind]
          /\ TrackStale
          /\ UNCHANGED <<tries, misses>>
     ELSE GiveUp(s)

FailForever(s, e) ==            \* mutant: retryable errors are always retried
  /\ Sending(s)
  /\ IF ShouldRetry(e)
     THEN /\ stage' = [stage EXCEPT ![s] = "sleeping"]
          /\ wait' = [wait EXCEPT ![s] = 0]
          /\ lastError' = [lastError EXCEPT ![s] = e.kind]
          /\ tries' = [tries EXCEPT ![s] = 1]
          /\ UNCHANGED <<breakerVars, stale, misses>>
     ELSE GiveUp(s)

(* An attempt fails with error e. *)
Fail(s, e) ==
  /\ Sending(s)
  /\ \/ ShouldRetry(e) /\ tries[s] < MaxAttempts /\ UNCHANGED breakerVars /\ Sleep(s, e)
     \/ ~(ShouldRetry(e) /\ tries[s] < MaxAttempts) /\ GiveUp(s)

NetworkError == [kind |-> "network", flagged |-> FALSE]

(* The relay client's timeout surfaces as a network error. *)
AttemptTimesOut(s) == wait[s] = RelayTimeout /\ Fail(s, NetworkError)

(* The jittered delay is over; nobody asks the breaker. *)
Wake(s) ==
  /\ stage[s] = "sleeping"
  /\ Begin(s, tries[s] + 1)
  /\ UNCHANGED <<breakerVars, lastError, stale, misses>>

(* The future is dropped. *)
Cancel(s) ==
  /\ Active(s)
  /\ UNCHANGED <<breakerVars, misses>>
  /\ Finish(s)
  /\ TrackStale

Due(s) ==
  \/ Sending(s) /\ wait[s] = RelayTimeout
  \/ stage[s] = "sleeping" /\ wait[s] = MaxSleep

Tick ==
  /\ \A s \in Submissions : ~Due(s)
  /\ BreakerTick
  /\ wait' = [s \in Submissions |-> IF Active(s) THEN wait[s] + 1 ELSE wait[s]]
  /\ UNCHANGED <<stage, tries, lastError, stale, misses>>

-----------------------------------------------------------------------------
Step(s) ==
  \/ Submit(s) \/ Succeed(s) \/ (\E e \in Errors : Fail(s, e))
  \/ AttemptTimesOut(s) \/ Wake(s) \/ Cancel(s)

MevNext == Tick \/ \E s \in Submissions : Step(s)

MevSpec == MevInit /\ [][MevNext]_vars

(* The runtime's timers fire.  Nothing is assumed of the relay. *)
Fairness ==
  /\ WF_vars(Tick)
  /\ \A s \in Submissions : WF_vars(AttemptTimesOut(s)) /\ WF_vars(Wake(s))

FairMevSpec == MevSpec /\ Fairness

-----------------------------------------------------------------------------
(* Properties *)

(***************************************************************************)
(* When the circuit turns half-open no submission from before it opened is *)
(* still being retried, so the verdict on the probe is never that of an    *)
(* older submission: with the default timeouts (WithinRecovery) all the    *)
(* retries of a submission take less than the recovery time.               *)
(***************************************************************************)
VerdictIsFresh == circuit = "HalfOpen" => \A s \in Submissions : ~stale[s]

(***************************************************************************)
(* While the circuit is open no new submission starts, however admissions, *)
(* retries and late verdicts of concurrent submissions interleave.         *)
(***************************************************************************)
OpenAdmitsNobody ==
  [][circuit = "Open" /\ circuit' = "Open" =>
       \A s \in Submissions : Active(s)' => Active(s)]_vars

(***************************************************************************)
(* The breaker counts submissions, not attempts: the circuit leaves Closed *)
(* only when FailureThreshold whole submissions in a row have failed.      *)
(***************************************************************************)
SubmissionsTrip ==
  [][circuit = "Closed" /\ circuit' # "Closed" => misses' = FailureThreshold]_vars

(***************************************************************************)
(* The relay's breaker implements the documented transition table although *)
(* retries run on while it is open and verdicts arrive late.               *)
(***************************************************************************)
Contract == INSTANCE BreakerContract
ImplementsContract == Contract!Spec

(***************************************************************************)
(* Every submission ends, by itself and without the middleware's timeout,  *)
(* whatever the relay does: neither a silent relay nor one that answers    *)
(* with retryable errors keeps it going.                                   *)
(***************************************************************************)
EverySubmissionEnds == \A s \in Submissions : Active(s) ~> ~Active(s)

(***************************************************************************)
(* should_retry's documentation: "Authentication and validation errors are *)
(* not [retryable]".                                                       *)
(***************************************************************************)
ValidationErrorsAreFinal ==
  \A s \in Submissions :
    stage[s] = "sleeping" => lastError[s] \notin {"authentication", "validation"}
=============================================================================
