---------------------------- MODULE RateLimiter ----------------------------
(***************************************************************************)
(* The fixed-window rate limiter of src/src/rate_limit.rs: a table from    *)
(* identifiers to (count, window_start), check_rate_limit and the periodic *)
(* cleanup, all under one mutex.  Two of them run in the daemon: one keyed *)
(* by (IP, source port) in front of every route and one keyed by write     *)
(* method (module RpcHandlers).                                            *)
(*                                                                         *)
(* As in CircuitBreaker only ages are kept, saturating where the code      *)
(* stops telling them apart: at twice the window, the cleanup's cutoff.    *)
(***************************************************************************)
EXTENDS Naturals

CONSTANTS
  Keys,         \* the identifiers
  MaxRequests,  \* max_requests, a u32; 0 is a legal setting
  Window        \* window_duration, in ticks; 0 is a legal setting

ASSUME LimiterAssumption == MaxRequests \in Nat /\ Window \in Nat

VARIABLES
  count,      \* requests counted in an entry; 0: the table has no entry
  windowAge,  \* now - window_start of the entry, at most 2 * Window
  allowed     \* the last answer of check_rate_limit

limiterVars == <<count, windowAge, allowed>>

(* The first request of a window is admitted before any comparison. *)
Budget == IF MaxRequests = 0 THEN 1 ELSE MaxRequests
Cutoff == 2 * Window

LimiterTypeOK ==
  /\ count \in [Keys -> 0..Budget]
  /\ windowAge \in [Keys -> 0..Cutoff]
  /\ allowed \in [Keys -> BOOLEAN]

LimiterInit ==
  /\ count = [k \in Keys |-> 0]
  /\ windowAge = [k \in Keys |-> 0]
  /\ allowed = [k \in Keys |-> TRUE]

-----------------------------------------------------------------------------
Tracked(k) == count[k] > 0

WindowOfMutantIsInclusive(k) ==   \* mutant: <= instead of <
  Tracked(k) /\ windowAge[k] <= Window

InWindow(k) == Tracked(k) /\ windowAge[k] < Window

ExhaustedOneLate(k) ==            \* mutant: > instead of >=
  InWindow(k) /\ count[k] > MaxRequests

Exhausted(k) == InWindow(k) /\ count[k] >= MaxRequests

Entry(k, c, a) ==
  /\ count' = [count EXCEPT ![k] = c]
  /\ windowAge' = [windowAge EXCEPT ![k] = a]

(***************************************************************************)
(* check_rate_limit: refuse, count, or open a new window -- the last both  *)
(* for an identifier without an entry and for one whose window is over.    *)
(***************************************************************************)
CheckRateLimit(k) ==
  /\ allowed' = [allowed EXCEPT ![k] = ~Exhausted(k)]
  /\ \/ Exhausted(k) /\ UNCHANGED <<count, windowAge>>
     \/ InWindow(k) /\ ~Exhausted(k) /\ Entry(k, count[k] + 1, windowAge[k])
     \/ ~InWindow(k) /\ Entry(k, 1, 0)

(* cleanup: entries older than two windows leave the table. *)
CleanupHalfWindow ==              \* mutant: the cutoff is half a window
  LET old == {k \in Keys : Tracked(k) /\ 2 * windowAge[k] >= Window}
  IN /\ count' = [k \in Keys |-> IF k \in old THEN 0 ELSE count[k]]
     /\ windowAge' = [k \in Keys |-> IF k \in old THEN 0 ELSE windowAge[k]]
     /\ UNCHANGED allowed

Cleanup ==
  LET old == {k \in Keys : Tracked(k) /\ windowAge[k] >= Cutoff}
  IN /\ count' = [k \in Keys |-> IF k \in old THEN 0 ELSE count[k]]
     /\ windowAge' = [k \in Keys |-> IF k \in old THEN 0 ELSE windowAge[k]]
     /\ UNCHANGED allowed

LimiterTick ==
  /\ windowAge' = [k \in Keys |->
       IF Tracked(k) /\ windowAge[k] < Cutoff THEN windowAge[k] + 1 ELSE windowAge[k]]
  /\ UNCHANGED <<count, allowed>>

-----------------------------------------------------------------------------
LimiterNext == LimiterTick \/ Cleanup \/ \E k \in Keys : CheckRateLimit(k)

LimiterSpec == LimiterInit /\ [][LimiterNext]_limiterVars

-----------------------------------------------------------------------------
(* Properties *)

(***************************************************************************)
(* The limiter implements the ideal one of FixedWindow, which forgets a    *)
(* window exactly when it is over: the cleanup of old entries never gives  *)
(* an identifier a budget early, and an identifier is refused only when    *)
(* the budget of a window that is still running is spent.                  *)
(***************************************************************************)
used == [k \in Keys |-> IF InWindow(k) THEN count[k] ELSE 0]
elapsed == [k \in Keys |-> IF InWindow(k) THEN windowAge[k] ELSE 0]

Ideal == INSTANCE FixedWindow
ImplementsFixedWindow == Ideal!Spec
=============================================================================
