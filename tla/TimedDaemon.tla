---------------------------- MODULE TimedDaemon ----------------------------
(***************************************************************************)
(* The daemon with a stopwatch on its drain: how long the public server,   *)
(* told to stop, has waited for handlers and for no request head any more. *)
(***************************************************************************)
EXTENDS Daemon

VARIABLE drain  \* history: ticks of that time, capped at TooLong

timedVars == <<daemonVars, drain>>

TooLong == RequestTimeout + 1

(* No handler can begin any more, and some are in flight. *)
Draining ==
  /\ Alive
  /\ server["public"] = "draining"
  /\ reading \cap Requests = {}
  /\ Handled # {}

TimedInit == DaemonInit /\ drain = 0

TimedTick ==
  /\ DaemonTick
  /\ drain' = IF Draining /\ drain < TooLong THEN drain + 1 ELSE drain

TimedStep ==
  /\ ProcessStep
  /\ drain' = IF Draining' THEN drain ELSE 0

TimedNext == TimedTick \/ TimedStep

TimedSpec == TimedInit /\ [][TimedNext]_timedVars

FairTimedSpec == TimedSpec /\ DaemonFairness

(***************************************************************************)
(* A drain that waits for no request head any more has its last answer     *)
(* ready within REQUEST_TIMEOUT, whatever the node and the relay do and    *)
(* however many wait for a permit: the timeout layer of app.rs is outside  *)
(* the concurrency limit, so that the time in the queue counts, and it is  *)
(* around the relay's retries too.  With the default of 30 s this is more  *)
(* than the 15 s the service manager waits (TimeoutStopSec).  How long a   *)
(* client takes to read its answer is not bounded by anything.             *)
(***************************************************************************)
DrainInTime == drain <= RequestTimeout
=============================================================================
