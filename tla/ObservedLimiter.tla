-------------------------- MODULE ObservedLimiter --------------------------
(***************************************************************************)
(* The limiter and an observer who counts what it lets through.  The       *)
(* observer begins at any moment, begins anew at any moment, and goes on   *)
(* for Observed windows, so that every interval of up to that length is    *)
(* judged, wherever it falls across the limiter's own windows.             *)
(*                                                                         *)
(* The limiter's budget comes from the environment, through Settings.      *)
(***************************************************************************)
EXTENDS RateLimiter, Settings

CONSTANTS
  Observed,  \* how many windows an observation lasts
  Texts,     \* the texts the budget may have been written as
  Default    \* the budget of a limiter that is not configured

ASSUME ObservedAssumption == Observed \in Nat \ {0} /\ Default \in Nat

VARIABLES
  seen,   \* history: requests of an identifier admitted in the observation
  whole,  \* whole windows since the observation began
  since   \* ticks since the last of them was complete

observedVars == <<limiterVars, seen, whole, since>>

ObservedTypeOK ==
  /\ LimiterTypeOK
  /\ seen \in [Keys -> Nat]
  /\ whole \in 0 .. Observed - 1
  /\ since \in Nat
  /\ Window > 0 => since < Window

ObservedInit ==
  /\ LimiterInit
  /\ seen = [k \in Keys |-> 0]
  /\ whole = 0
  /\ since = 0

-----------------------------------------------------------------------------
Begin ==
  /\ seen' = [k \in Keys |-> 0]
  /\ whole' = 0
  /\ since' = 0

BeginAnew == Begin /\ UNCHANGED limiterVars

ObservedCheck(k) ==
  /\ CheckRateLimit(k)
  /\ seen' = IF Exhausted(k) THEN seen ELSE [seen EXCEPT ![k] = @ + 1]
  /\ UNCHANGED <<whole, since>>

ObservedCleanup == Cleanup /\ UNCHANGED <<seen, whole, since>>

(* The observation goes on inside a window of time, enters the next one,   *)
(* or is complete and begins anew.                                         *)
GoOn ==
  /\ since + 1 < Window
  /\ since' = since + 1
  /\ UNCHANGED <<seen, whole>>

NextWindow ==
  /\ since + 1 >= Window
  /\ whole + 1 < Observed
  /\ whole' = whole + 1
  /\ since' = 0
  /\ UNCHANGED seen

Complete ==
  /\ since + 1 >= Window
  /\ whole + 1 >= Observed
  /\ Begin

ObservedTick == LimiterTick /\ (GoOn \/ NextWindow \/ Complete)

ObservedNext ==
  \/ ObservedTick
  \/ ObservedCleanup
  \/ BeginAnew
  \/ \E k \in Keys : ObservedCheck(k)

ObservedSpec == ObservedInit /\ [][ObservedNext]_observedVars

-----------------------------------------------------------------------------
(* Properties *)

Budgets(n) == n * Budget

(***************************************************************************)
(* An interval of n windows, wherever it begins, lets at most n + 1        *)
(* budgets of an identifier through (so two in an interval no longer than  *)
(* a window), whatever the moments of its requests and of the cleanup.  A  *)
(* window of length zero limits nothing.                                   *)
(***************************************************************************)
OneBudgetPerWindow ==
  Window > 0 => \A k \in Keys : seen[k] <= Budgets(whole + 2)

(***************************************************************************)
(* No text of RATE_LIMIT_REQUESTS lets more through than it says, one      *)
(* request for each window aside: neither the cast to u32 of a larger      *)
(* number, nor the default for a number that is no u64, nor a zero.        *)
(***************************************************************************)
AtLeastOne(n) == IF n = 0 THEN 1 ELSE n
NoLooserThanWritten ==
  \A text \in Texts \cap Nat :
    Window > 0 /\ RequestLimit(text, Default) = MaxRequests =>
      \A k \in Keys : seen[k] <= (whole + 2) * AtLeastOne(text)
=============================================================================
