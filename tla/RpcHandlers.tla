---------------------------- MODULE RpcHandlers ----------------------------
(***************************************************************************)
(* What the two JSON-RPC routes do with a request, from the extractor to   *)
(* the answer: handle_rpc, handle_flashbots, handle_flashbots_with_mev,    *)
(* proxy_to_flashbots, the write-method limiter they share and the         *)
(* counters of /metrics.  Whether the upstreams answer is left open here:  *)
(* GethProxy and MevClient model them.                                     *)
(*                                                                         *)
(* A step runs from one suspension point to the next, or to a point where  *)
(* another thread may look at what was done; a request whose future is     *)
(* dropped (the timeout middleware, a client that disconnects) is dropped  *)
(* at a suspension point only.                                             *)
(***************************************************************************)
EXTENDS RateLimiter, FiniteSets

CONSTANT Requests

WRITE_METHODS == {"eth_sendRawTransaction", "eth_sendBundle"}

(* One read method stands for the other entries of the allow-list, and one *)
(* name for everything that is not on it.                                  *)
ALLOWED_METHODS == WRITE_METHODS \cup {"eth_blockNumber"}
Methods == ALLOWED_METHODS \cup {"personal_sign"}

(* The write limiter is keyed by method name. *)
ASSUME HandlersAssumption == Keys = WRITE_METHODS /\ IsFiniteSet(Requests)

Inputs == [route : {"rpc", "flashbots"}, method : Methods, valid : BOOLEAN]

VARIABLES
  mev,               \* a relay client exists: its key was set and it was built
  stage,             \* where each request is
  req,               \* what it asks
  answer,            \* what it was told
  charged,           \* history: times the limiter counted it
  sent,              \* history: <<upstream, method>> calls made for it
  rate_limit_hits, invalid_methods, blocked_requests

metrics == <<rate_limit_hits, invalid_methods, blocked_requests>>
vars == <<limiterVars, mev, stage, req, answer, charged, sent, metrics>>

Stages ==
  {"idle", "outer", "validate", "blocking", "inner", "refused", "forward",
   "dispatch", "block", "submit", "upstream", "done"}
Answers ==
  {"none", "result", "error", "invalid", "not_allowed", "rate_limited",
   "unsupported", "dropped"}
Calls == {"geth", "relay"} \X Methods

HandlersTypeOK ==
  /\ LimiterTypeOK
  /\ mev \in BOOLEAN
  /\ stage \in [Requests -> Stages]
  /\ req \in [Requests -> Inputs]
  /\ answer \in [Requests -> Answers]
  /\ charged \in [Requests -> Nat]
  /\ sent \in [Requests -> SUBSET Calls]
  /\ rate_limit_hits \in Nat
  /\ invalid_methods \in Nat
  /\ blocked_requests \in Nat

HandlersInit ==
  /\ LimiterInit
  /\ mev \in BOOLEAN
  /\ stage = [r \in Requests |-> "idle"]
  /\ req \in [Requests -> Inputs]
  /\ answer = [r \in Requests |-> "none"]
  /\ charged = [r \in Requests |-> 0]
  /\ sent = [r \in Requests |-> {}]
  /\ rate_limit_hits = 0
  /\ invalid_methods = 0
  /\ blocked_requests = 0

-----------------------------------------------------------------------------
Method(r) == req[r].method
IsWrite(r) == Method(r) \in WRITE_METHODS
Enter(r, s) == stage' = [stage EXCEPT ![r] = s]

Answer(r, a) ==
  /\ Enter(r, "done")
  /\ answer' = [answer EXCEPT ![r] = a]

Call(r, upstream, method) ==
  sent' = [sent EXCEPT ![r] = @ \cup {<<upstream, method>>}]

(***************************************************************************)
(* check_write_method_rate_limit, on the way to stage next.  The counter   *)
(* of a refusal is a step of its own, after the limiter's lock is gone.    *)
(***************************************************************************)
UncheckedWrite(r, next) ==      \* mutant: bundles are not thought of as writes
  \/ /\ Method(r) # "eth_sendRawTransaction"
     /\ Enter(r, next)
     /\ UNCHANGED <<limiterVars, charged>>
  \/ /\ Method(r) = "eth_sendRawTransaction"
     /\ CheckRateLimit(Method(r))
     /\ IF Exhausted(Method(r))
        THEN Enter(r, "refused") /\ UNCHANGED charged
        ELSE Enter(r, next) /\ charged' = [charged EXCEPT ![r] = @ + 1]

CheckWrite(r, next) ==
  \/ /\ ~IsWrite(r)
     /\ Enter(r, next)
     /\ UNCHANGED <<limiterVars, charged>>
  \/ /\ IsWrite(r)
     /\ CheckRateLimit(Method(r))
     /\ IF Exhausted(Method(r))
        THEN Enter(r, "refused") /\ UNCHANGED charged
        ELSE Enter(r, next) /\ charged' = [charged EXCEPT ![r] = @ + 1]

-----------------------------------------------------------------------------
(* The JSON extractor hands the request to the handler of its route. *)
Receive(r) ==
  /\ stage[r] = "idle"
  /\ Enter(r, IF req[r].route = "rpc" THEN "validate" ELSE "outer")
  /\ UNCHANGED <<limiterVars, mev, req, answer, charged, sent, metrics>>

OuterCheckThenInner(r) ==       \* mutant: the relay's writes meet the limiter twice, too
  /\ stage[r] = "outer"
  /\ CheckWrite(r, "validate")
  /\ UNCHANGED <<mev, req, answer, sent, metrics>>

(* handle_flashbots_with_mev: the limiter before everything else; without  *)
(* a relay client the request goes on to handle_flashbots.                 *)
OuterCheck(r) ==
  /\ stage[r] = "outer"
  /\ CheckWrite(r, IF mev THEN "dispatch" ELSE "validate")
  /\ UNCHANGED <<mev, req, answer, sent, metrics>>

(* handle_rpc and handle_flashbots: validate, then the allow-list. *)
Malformed(r) ==
  /\ stage[r] = "validate"
  /\ ~req[r].valid
  /\ Answer(r, "invalid")
  /\ UNCHANGED <<limiterVars, mev, req, charged, sent, metrics>>

Disallowed(r) ==
  /\ stage[r] = "validate"
  /\ req[r].valid
  /\ Method(r) \notin ALLOWED_METHODS
  /\ invalid_methods' = invalid_methods + 1
  /\ Enter(r, "blocking")
  /\ UNCHANGED <<limiterVars, mev, req, answer, charged, sent, rate_limit_hits, blocked_requests>>

Block(r) ==
  /\ stage[r] = "blocking"
  /\ blocked_requests' = blocked_requests + 1
  /\ Answer(r, "not_allowed")
  /\ UNCHANGED <<limiterVars, mev, req, charged, sent, rate_limit_hits, invalid_methods>>

AllowedExceptAdmin(r) ==        \* mutant: the allow-list is not consulted
  /\ stage[r] = "validate"
  /\ req[r].valid
  /\ Enter(r, "inner")
  /\ UNCHANGED <<limiterVars, mev, req, answer, charged, sent, metrics>>

Allowed(r) ==
  /\ stage[r] = "validate"
  /\ req[r].valid
  /\ Method(r) \in ALLOWED_METHODS
  /\ Enter(r, "inner")
  /\ UNCHANGED <<limiterVars, mev, req, answer, charged, sent, metrics>>

(* The limiter again, for a write on the flashbots route the second time. *)
InnerCheck(r) ==
  /\ stage[r] = "inner"
  /\ CheckWrite(r, "forward")
  /\ UNCHANGED <<mev, req, answer, sent, metrics>>

CountAndForget(r) ==            \* mutant: the refusal is not counted
  /\ stage[r] = "refused"
  /\ Answer(r, "rate_limited")
  /\ UNCHANGED <<limiterVars, mev, req, charged, sent, metrics>>

CountRefusal(r) ==
  /\ stage[r] = "refused"
  /\ rate_limit_hits' = rate_limit_hits + 1
  /\ Answer(r, "rate_limited")
  /\ UNCHANGED <<limiterVars, mev, req, charged, sent, invalid_methods, blocked_requests>>

(* proxy_to_flashbots keeps bundles from the node and answers -32004. *)
IsStrandedBundle(r) ==
  req[r].route = "flashbots" /\ Method(r) = "eth_sendBundle"

Unsupported(r) ==
  /\ stage[r] = "forward"
  /\ IsStrandedBundle(r)
  /\ Answer(r, "unsupported")
  /\ UNCHANGED <<limiterVars, mev, req, charged, sent, metrics>>

Forward(r) ==
  /\ stage[r] = "forward"
  /\ ~IsStrandedBundle(r)
  /\ Call(r, "geth", Method(r))
  /\ Enter(r, "upstream")
  /\ UNCHANGED <<limiterVars, mev, req, answer, charged, metrics>>

(***************************************************************************)
(* handle_flashbots_with_mev with a relay client: a raw transaction needs  *)
(* the current block number first, a bundle goes to the relay, anything    *)
(* else to the node.                                                       *)
(***************************************************************************)
AskBlockNumber(r) ==
  /\ stage[r] = "dispatch"
  /\ Method(r) = "eth_sendRawTransaction"
  /\ Call(r, "geth", "eth_blockNumber")
  /\ Enter(r, "block")
  /\ UNCHANGED <<limiterVars, mev, req, answer, charged, metrics>>

GotBlockNumber(r) ==
  /\ stage[r] = "block"
  /\ Enter(r, "submit")
  /\ UNCHANGED <<limiterVars, mev, req, answer, charged, sent, metrics>>

(* Both ways into send_bundle. *)
Submitting(r) ==
  \/ stage[r] = "submit"
  \/ stage[r] = "dispatch" /\ Method(r) = "eth_sendBundle"

(* Submitting finds no transaction or no usable bundle in the params. *)
BadParams(r) ==
  /\ Submitting(r)
  /\ Answer(r, "invalid")
  /\ UNCHANGED <<limiterVars, mev, req, charged, sent, metrics>>

Submit(r) ==
  /\ Submitting(r)
  /\ Call(r, "relay", "eth_sendBundle")
  /\ Enter(r, "upstream")
  /\ UNCHANGED <<limiterVars, mev, req, answer, charged, metrics>>

PassThroughAll(r) ==            \* mutant: raw transactions go to the node too
  /\ stage[r] = "dispatch"
  /\ Method(r) # "eth_sendBundle"
  /\ Call(r, "geth", Method(r))
  /\ Enter(r, "upstream")
  /\ UNCHANGED <<limiterVars, mev, req, answer, charged, metrics>>

PassThrough(r) ==
  /\ stage[r] = "dispatch"
  /\ ~IsWrite(r)
  /\ Call(r, "geth", Method(r))
  /\ Enter(r, "upstream")
  /\ UNCHANGED <<limiterVars, mev, req, answer, charged, metrics>>

-----------------------------------------------------------------------------
(* What happens to the calls. *)
UpstreamAnswers(r) ==
  /\ stage[r] = "upstream"
  /\ Answer(r, "result")
  /\ UNCHANGED <<limiterVars, mev, req, charged, sent, metrics>>

(* An upstream error, or a block number that cannot be read. *)
UpstreamFails(r) ==
  /\ stage[r] \in {"upstream", "block"}
  /\ Answer(r, "error")
  /\ UNCHANGED <<limiterVars, mev, req, charged, sent, metrics>>

(* About to call the node or the relay. *)
Calling(r) ==
  \/ stage[r] \in {"dispatch", "submit"}
  \/ stage[r] = "forward" /\ ~IsStrandedBundle(r)

(* The circuit breaker of the upstream is open. *)
FailFast(r) ==
  /\ Calling(r)
  /\ Answer(r, "error")
  /\ UNCHANGED <<limiterVars, mev, req, charged, sent, metrics>>

(* The future is dropped while it waits for a lock or for an upstream. *)
Drop(r) ==
  /\ Calling(r) \/ stage[r] \in {"outer", "inner", "block", "upstream"}
  /\ Answer(r, "dropped")
  /\ UNCHANGED <<limiterVars, mev, req, charged, sent, metrics>>

Clock ==
  /\ LimiterTick
  /\ UNCHANGED <<mev, stage, req, answer, charged, sent, metrics>>

-----------------------------------------------------------------------------
Handle(r) ==
  \/ Receive(r) \/ OuterCheck(r) \/ Malformed(r) \/ Disallowed(r) \/ Block(r)
  \/ Allowed(r) \/ InnerCheck(r) \/ CountRefusal(r) \/ Unsupported(r) \/ Forward(r)
  \/ AskBlockNumber(r) \/ GotBlockNumber(r) \/ BadParams(r)
  \/ Submit(r) \/ PassThrough(r) \/ UpstreamAnswers(r) \/ UpstreamFails(r)
  \/ FailFast(r) \/ Drop(r)

HandlersNext == Clock \/ \E r \in Requests : Handle(r)

HandlersSpec == HandlersInit /\ [][HandlersNext]_vars

-----------------------------------------------------------------------------
(* Properties *)

(* What crossed to an upstream, by method name. *)
SentMethods(r) == {call[2] : call \in sent[r]}
SentWrite(r) == SentMethods(r) \cap WRITE_METHODS # {}

(* The handlers a request goes through that charge the write limiter. *)
Charges(r) == IF req[r].route = "flashbots" /\ ~mev THEN 2 ELSE 1

(***************************************************************************)
(* No write reaches an upstream, on either route and in either             *)
(* configuration, that the write limiter has not charged, and none is      *)
(* charged more often than its handlers ask the limiter.                   *)
(***************************************************************************)
WritesAreCharged ==
  \A r \in Requests :
    /\ SentWrite(r) => charged[r] = Charges(r)
    /\ charged[r] <= Charges(r)

(***************************************************************************)
(* A transaction sent to the flashbots route is never shown to the node's  *)
(* public mempool when the relay client exists, whatever fails on the way; *)
(* and a bundle is not shown to it even when there is no relay client.     *)
(***************************************************************************)
PrivateStaysPrivate ==
  \A r \in Requests : req[r].route = "flashbots" =>
    /\ mev => \A m \in WRITE_METHODS : <<"geth", m>> \notin sent[r]
    /\ <<"geth", "eth_sendBundle">> \notin sent[r]

(***************************************************************************)
(* handle_rpc and handle_flashbots let only methods of the allow-list      *)
(* reach the node (README, threat model).                                  *)
(***************************************************************************)
ListedMethodsOnly ==
  \A r \in Requests :
    (req[r].route = "rpc" \/ ~mev) => SentMethods(r) \subseteq ALLOWED_METHODS

(***************************************************************************)
(* The counters of /metrics agree at every moment with what the callers    *)
(* were told: the refusals of both passes through the limiter, and each    *)
(* blocked method, appear once.                                            *)
(***************************************************************************)
Told(a) == Cardinality({r \in Requests : answer[r] = a})
MetricsMatchAnswers ==
  /\ rate_limit_hits = Told("rate_limited")
  /\ blocked_requests = Told("not_allowed")
  /\ invalid_methods =
       blocked_requests + Cardinality({r \in Requests : stage[r] = "blocking"})

(***************************************************************************)
(* README, threat model: "a strict allow-list of JSON-RPC methods", on     *)
(* every route.                                                            *)
(***************************************************************************)
AllowListIsStrict == \A r \in Requests : SentMethods(r) \subseteq ALLOWED_METHODS

(***************************************************************************)
(* The security integration tests: "Per-method write-rate-limiting kicks   *)
(* in after the configured budget".  A write is refused only when as many  *)
(* other writes of its method as the budget allows were let in before it.  *)
(***************************************************************************)
RefusedAfterBudget ==
  \A r \in Requests : answer[r] = "rate_limited" =>
    Budget <= Cardinality({q \in Requests \ {r} :
                             Method(q) = Method(r) /\ charged[q] > 0})

(***************************************************************************)
(* With a relay client that sentence is kept, on both routes and whatever  *)
(* the routes share of the budget: nobody is refused because of a charge   *)
(* of its own, of a read or of a write of the other method.                *)
(***************************************************************************)
WholeBudgetWithRelay == mev => RefusedAfterBudget
=============================================================================
