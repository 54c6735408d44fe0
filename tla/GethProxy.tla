----------------------------- MODULE GethProxy -----------------------------
(***************************************************************************)
(* The path of POST requests from the public router to the Ethereum node:  *)
(* the timeout middleware (outermost), the concurrency limit inside it,    *)
(* the checks a handler makes, the circuit breaker and the HTTP call of    *)
(* proxy_to_geth with its own client timeout; and what a submission to the *)
(* MEV relay means for them.  The submission itself is MevClient's.        *)
(*                                                                         *)
(* The layers of a Router wrap the service of each route on its own, and   *)
(* ConcurrencyLimitLayer makes a semaphore for each service it wraps       *)
(* (axum and tower, external): every route has permits of its own.  The    *)
(* circuit breaker of the node is one for all routes.                      *)
(*                                                                         *)
(* A request that the middleware times out, or whose client goes away, is  *)
(* a dropped future: it releases its permit and runs no further code, so   *)
(* it reports no outcome to the breaker.                                   *)
(*                                                                         *)
(* Time is discrete.  A timer that is due fires before the clock moves on; *)
(* at one instant two due timers, or a due timer and an answer, may be     *)
(* served in either order.                                                 *)
(***************************************************************************)
EXTENDS CircuitBreaker, FiniteSets

CONSTANTS
  Requests,        \* identities of the requests that may be in flight at once
  Route,           \* the route that each of them is sent to
  Permits,         \* max_concurrent of the ConcurrencyLimitLayer
  RequestTimeout,  \* REQUEST_TIMEOUT of the middleware (30 s by default)
  ClientTimeout    \* reqwest timeout of geth_client (30 s)

(* Each has a semaphore of its own, also the forms with a slash at the end. *)
Routes == {"rpc", "rpc/", "rpc/flashbots", "rpc/flashbots/"}

(* Where a relay client, if there is one, takes private transactions. *)
FlashbotsRoutes == {"rpc/flashbots", "rpc/flashbots/"}

ASSUME GethAssumption ==
  /\ Route \in [Requests -> Routes]
  /\ Permits \in Nat
  /\ RequestTimeout \in Nat
  /\ ClientTimeout \in Nat

(***************************************************************************)
(* The node client's timeout and the breaker's recovery time are both 30 s *)
(* in the code; an operator may lower REQUEST_TIMEOUT further.  No call    *)
(* therefore outlives one recovery period.                                 *)
(***************************************************************************)
ASSUME TimeoutAssumption ==
  RequestTimeout <= RecoveryTimeout \/ ClientTimeout <= RecoveryTimeout

VARIABLES
  stage,   \* where each request is
  age,     \* ticks since the middleware started the request's timer
  wait,    \* ticks since the call to the node was sent
  stale,   \* history: the circuit has opened since the call was admitted
  misses   \* history: calls in a row the node failed or kept waiting, capped

vars == <<circuit, failures, sinceOpened, stage, age, wait, stale, misses>>

Stages == {"idle", "queued", "handling", "sent", "relaying"}

GethTypeOK ==
  /\ BreakerTypeOK
  /\ stage \in [Requests -> Stages]
  /\ age \in [Requests -> 0..RequestTimeout]
  /\ wait \in [Requests -> 0..ClientTimeout]
  /\ stale \in [Requests -> BOOLEAN]
  /\ misses \in 0..FailureThreshold

GethInit ==
  /\ BreakerInit
  /\ stage = [r \in Requests |-> "idle"]
  /\ age = [r \in Requests |-> 0]
  /\ wait = [r \in Requests |-> 0]
  /\ stale = [r \in Requests |-> FALSE]
  /\ misses = 0

-----------------------------------------------------------------------------
Active(r) == stage[r] # "idle"
Sent(r) == stage[r] = "sent"
Admitted(r) == stage[r] \in {"handling", "sent", "relaying"}
PermitsHeld(route) == {r \in Requests : Route[r] = route /\ Admitted(r)}

Enter(r, s) == stage' = [stage EXCEPT ![r] = s]

(***************************************************************************)
(* The handler and the layers around it return, or their future is         *)
(* dropped: with them go the timers and the permit.  Writing the answer is *)
(* the server's, outside every layer (module Daemon).                      *)
(***************************************************************************)
Finish(r) ==
  /\ stage' = [stage EXCEPT ![r] = "idle"]
  /\ age' = [age EXCEPT ![r] = 0]
  /\ wait' = [wait EXCEPT ![r] = 0]

(* Maintains the history variable stale over a step that may open the circuit. *)
TrackStale ==
  stale' = IF circuit # "Open" /\ circuit' = "Open"
           THEN [r \in Requests |-> stage'[r] = "sent"]
           ELSE [r \in Requests |-> stale[r] /\ stage'[r] = "sent"]

CountMiss == misses' = IF misses < FailureThreshold THEN misses + 1 ELSE misses

-----------------------------------------------------------------------------
(* A request reaches the router; the middleware starts its timer. *)
Arrive(r) ==
  /\ stage[r] = "idle"
  /\ Enter(r, "queued")
  /\ UNCHANGED <<breakerVars, age, wait, stale, misses>>

(* The concurrency limit of its route lets it in. *)
AcquireStartsTimer(r) ==    \* mutant: the timer starts behind the limit
  /\ stage[r] = "queued"
  /\ Cardinality(PermitsHeld(Route[r])) < Permits
  /\ Enter(r, "handling")
  /\ age' = [age EXCEPT ![r] = 0]
  /\ UNCHANGED <<breakerVars, wait, stale, misses>>

Acquire(r) ==
  /\ stage[r] = "queued"
  /\ Cardinality(PermitsHeld(Route[r])) < Permits
  /\ Enter(r, "handling")
  /\ UNCHANGED <<breakerVars, age, wait, stale, misses>>

(* A rate limit, the JSON extractor or the allow-list turns it away. *)
Reject(r) ==
  /\ stage[r] = "handling"
  /\ Finish(r)
  /\ UNCHANGED <<breakerVars, stale, misses>>

(* can_proceed answers false: the request fails fast. *)
FailFast(r) ==
  /\ stage[r] = "handling"
  /\ ~CanProceed
  /\ Finish(r)
  /\ UNCHANGED <<breakerVars, stale, misses>>

(* can_proceed answers true: the call to the node goes out. *)
Send(r) ==
  /\ stage[r] = "handling"
  /\ CanProceed
  /\ FlipIfRecovered
  /\ Enter(r, "sent")
  /\ UNCHANGED <<age, wait, stale, misses>>

(* A 2xx answer that parses: the wallet's, or an unusable block number. *)
Succeed(r) ==
  /\ Sent(r)
  /\ RecordSuccess
  /\ Finish(r)
  /\ TrackStale
  /\ misses' = 0

(***************************************************************************)
(* eth_sendRawTransaction with a relay client: the call asked for the      *)
(* block number, and the handler goes on to submit the transaction, with   *)
(* the timer and the permit it has.  Without a relay client the request    *)
(* always succeeds or fails instead.                                       *)
(***************************************************************************)
BlockKnown(r) ==
  /\ Sent(r)
  /\ Route[r] \in FlashbotsRoutes
  /\ RecordSuccess
  /\ Enter(r, "relaying")
  /\ wait' = [wait EXCEPT ![r] = 0]
  /\ UNCHANGED age
  /\ TrackStale
  /\ misses' = 0

(* eth_sendBundle with a relay client does not ask the node at all. *)
SubmitBundle(r) ==
  /\ stage[r] = "handling"
  /\ Route[r] \in FlashbotsRoutes
  /\ Enter(r, "relaying")
  /\ UNCHANGED <<breakerVars, age, wait, stale, misses>>

(* The relay client returns a hash or an error, after whatever retries. *)
RelayReturns(r) ==
  /\ stage[r] = "relaying"
  /\ Finish(r)
  /\ UNCHANGED <<breakerVars, stale, misses>>

(* A connection error, a 5xx status or a body that does not parse. *)
Fail(r) ==
  /\ Sent(r)
  /\ RecordFailure
  /\ Finish(r)
  /\ TrackStale
  /\ CountMiss

(* The node client's own timeout surfaces as a send or body error. *)
ClientTimesOut(r) ==
  /\ wait[r] = ClientTimeout
  /\ Fail(r)

(* Any other status: the caller gets an error, the breaker hears nothing. *)
ClientError(r) ==
  /\ Sent(r)
  /\ UNCHANGED <<breakerVars, misses>>
  /\ Finish(r)
  /\ TrackStale

(* The node had the call for all the time the request was given. *)
KeptWaiting(r) == Sent(r) /\ wait[r] = age[r]

(* The middleware drops the handler and answers 504 in its place. *)
TimeOutAdmittedOnly(r) ==   \* mutant: the timeout layer inside the limit
  /\ Admitted(r)
  /\ age[r] = RequestTimeout
  /\ UNCHANGED breakerVars
  /\ Finish(r)
  /\ TrackStale
  /\ IF KeptWaiting(r) THEN CountMiss ELSE UNCHANGED misses

RequestTimesOut(r) ==
  /\ Active(r)
  /\ age[r] = RequestTimeout
  /\ UNCHANGED breakerVars
  /\ Finish(r)
  /\ TrackStale
  /\ IF KeptWaiting(r) THEN CountMiss ELSE UNCHANGED misses

(* The client closes its connection: the handler is dropped at any await. *)
Disconnect(r) ==
  /\ Active(r)
  /\ UNCHANGED <<breakerVars, misses>>
  /\ Finish(r)
  /\ TrackStale

(* A request some timer of which is due. *)
Due(r) ==
  \/ Active(r) /\ age[r] = RequestTimeout
  \/ Sent(r) /\ wait[r] = ClientTimeout

Tick ==
  /\ \A r \in Requests : ~Due(r)
  /\ BreakerTick
  /\ age' = [r \in Requests |-> IF Active(r) THEN age[r] + 1 ELSE age[r]]
  /\ wait' = [r \in Requests |-> IF Sent(r) THEN wait[r] + 1 ELSE wait[r]]
  /\ UNCHANGED <<stage, stale, misses>>

-----------------------------------------------------------------------------
Step(r) ==
  \/ Arrive(r) \/ Acquire(r) \/ Reject(r) \/ FailFast(r) \/ Send(r)
  \/ Succeed(r) \/ Fail(r) \/ ClientTimesOut(r) \/ ClientError(r)
  \/ BlockKnown(r) \/ SubmitBundle(r) \/ RelayReturns(r)
  \/ RequestTimesOut(r) \/ Disconnect(r)

GethNext == Tick \/ \E r \in Requests : Step(r)

GethSpec == GethInit /\ [][GethNext]_vars

(***************************************************************************)
(* The runtime's clock advances and its timers fire.  Nothing is assumed   *)
(* of the node, of the wallets or of the fairness of the concurrency limit.*)
(***************************************************************************)
Fairness ==
  /\ WF_vars(Tick)
  /\ \A r \in Requests : WF_vars(RequestTimesOut(r)) /\ WF_vars(ClientTimesOut(r))

FairGethSpec == GethSpec /\ Fairness

-----------------------------------------------------------------------------
(* Properties *)

(***************************************************************************)
(* The outcome of a call that was admitted before the circuit opened may   *)
(* not decide the verdict of the half-open circuit: record_success and     *)
(* record_failure do not know which call they are told about.  That they   *)
(* cannot be told about an old one rests on the timeouts alone: when the   *)
(* circuit turns half-open every older call still in flight has a timer    *)
(* that is due at that very instant.                                       *)
(***************************************************************************)
StaleOnlyWhenDue ==
  circuit = "HalfOpen" => \A r \in Requests : Sent(r) /\ stale[r] => Due(r)

(***************************************************************************)
(* While the circuit is open no call goes out to the node, however the     *)
(* admissions, the late outcomes and the clock interleave (proxy_to_geth:  *)
(* "the breaker fail-fasts subsequent requests").                          *)
(***************************************************************************)
OpenAdmitsNobody ==
  [][circuit = "Open" /\ circuit' = "Open" =>
       \A r \in Requests : Sent(r)' => Sent(r)]_vars

(***************************************************************************)
(* The circuit leaves Closed only when FailureThreshold calls in a row got *)
(* no usable answer, counted from outside the breaker over all concurrent  *)
(* requests: a success that arrives between them prevents the trip.        *)
(***************************************************************************)
NoSpuriousTrip ==
  [][circuit = "Closed" /\ circuit' # "Closed" => misses' = FailureThreshold]_vars

(***************************************************************************)
(* The breaker of the node implements the documented transition table: a   *)
(* late outcome never closes an open circuit, never restarts its clock and *)
(* the only way out is a probe after the recovery time.                    *)
(***************************************************************************)
Contract == INSTANCE BreakerContract
ImplementsContract == Contract!Spec

(***************************************************************************)
(* Every request gets an answer, so that again and again there is none:    *)
(* one that waits for a permit, one that reads a slow body and one that    *)
(* waits for a node or a relay that hangs (app.rs places the timeout layer *)
(* outside the concurrency limit).                                         *)
(***************************************************************************)
EveryRequestAnswered == \A r \in Requests : []<>~Active(r)

(***************************************************************************)
(* can_proceed's documentation: the half-open circuit permits "exactly one *)
(* probe request".                                                         *)
(***************************************************************************)
OneProbeAtATime ==
  circuit = "HalfOpen" =>
    Cardinality({r \in Requests : Sent(r) /\ ~stale[r]}) <= 1

(***************************************************************************)
(* ProxyState.geth_circuit's documentation: the breaker "fast-fails after  *)
(* 5 consecutive failures", so that requests do not all wait for a node    *)
(* that does not answer.  After that many calls in a row that failed or    *)
(* that waited for as long as they were given the circuit must no longer   *)
(* be closed.                                                              *)
(***************************************************************************)
SilentNodeTrips == misses = FailureThreshold => circuit # "Closed"
=============================================================================
