-------------------------- MODULE TimedSubmissions --------------------------
(***************************************************************************)
(* The submissions of MevClient with a stopwatch on one of them, any one.  *)
(***************************************************************************)
EXTENDS MevClient

CONSTANT Watched  \* the submission with the stopwatch
ASSUME WatchedAssumption == Watched \in Submissions

VARIABLE lasted   \* history: ticks since the watched submission was admitted,
                  \* or TooLong: what is beyond is beyond for good

timedVars == <<vars, lasted>>

TooLong == LongestSubmission + 1

TimedTypeOK == MevTypeOK /\ lasted \in 0 .. TooLong

TimedInit == MevInit /\ lasted = 0

TimedTick ==
  /\ Tick
  /\ lasted' = IF Active(Watched) /\ lasted < TooLong THEN lasted + 1 ELSE lasted

TimedStep(s) ==
  /\ Step(s)
  /\ lasted' = IF Active(Watched)' THEN lasted ELSE 0

TimedNext == TimedTick \/ \E s \in Submissions : TimedStep(s)

TimedSpec == TimedInit /\ [][TimedNext]_timedVars

FairTimedSpec == TimedSpec /\ Fairness

(***************************************************************************)
(* send_bundle is over after MaxAttempts timeouts and the sleeps between   *)
(* them, whatever the relay answers and whenever the errors come: what the *)
(* middleware's timeout and an open circuit's recovery time are set        *)
(* against (15.4 s with the defaults, against 30 s).                       *)
(***************************************************************************)
OverInTime == Active(Watched) => lasted <= LongestSubmission
=============================================================================
