------------------------- MODULE RpcHandlersProofs -------------------------
(***************************************************************************)
(* For any number of concurrent requests, any budget and any window, and   *)
(* for both configurations: type correctness, the three properties of what *)
(* crosses to the upstreams, that the counters of /metrics agree with the  *)
(* answers, that with a relay client the whole budget is let in, and that  *)
(* the shared limiter implements the ideal one.                            *)
(*                                                                         *)
(* The first invariant follows a request through the handlers: how often   *)
(* it has been charged and which checks it has passed when it is at each   *)
(* stage, and, once something was sent for it, by which of the three       *)
(* paths.  Those of the counters and of the budget stand further down.     *)
(***************************************************************************)
EXTENDS RpcHandlers, RateLimiterProofs, FiniteSetTheorems

Flashbots(r) == req[r].route = "flashbots"

(* The three paths on which calls leave the daemon. *)
SentByStandardHandler(r) ==
  /\ sent[r] = {<<"geth", Method(r)>>}
  /\ ~(Flashbots(r) /\ mev)
  /\ Method(r) \in ALLOWED_METHODS
  /\ ~IsStrandedBundle(r)
  /\ IsWrite(r) => charged[r] = Charges(r)

SentAsPassThrough(r) ==
  /\ sent[r] = {<<"geth", Method(r)>>}
  /\ Flashbots(r) /\ mev
  /\ ~IsWrite(r)

SentToRelay(r) ==
  /\ sent[r] \subseteq {<<"geth", "eth_blockNumber">>, <<"relay", "eth_sendBundle">>}
  /\ Flashbots(r) /\ mev
  /\ IsWrite(r)
  /\ charged[r] = 1

SentSoundly(r) ==
  \/ sent[r] = {}
  \/ SentByStandardHandler(r)
  \/ SentAsPassThrough(r)
  \/ SentToRelay(r)

Paid(r, n) == charged[r] = IF IsWrite(r) THEN n ELSE 0

StageSound(r) ==
  /\ stage[r] \in {"idle", "outer"} => charged[r] = 0
  /\ stage[r] = "outer" => Flashbots(r)
  /\ stage[r] \in {"validate", "blocking", "inner"} =>
       Paid(r, Charges(r) - 1) /\ ~(Flashbots(r) /\ mev)
  /\ stage[r] \in {"inner", "forward"} => Method(r) \in ALLOWED_METHODS
  /\ stage[r] = "forward" => Paid(r, Charges(r)) /\ ~(Flashbots(r) /\ mev)
  /\ stage[r] \in {"dispatch", "block", "submit"} =>
       Paid(r, 1) /\ Flashbots(r) /\ mev
  /\ stage[r] \in {"block", "submit"} => IsWrite(r) /\ SentToRelay(r)
  /\ stage[r] \notin {"block", "submit", "upstream", "done"} => sent[r] = {}

RequestSound(r) == SentSoundly(r) /\ StageSound(r) /\ charged[r] <= Charges(r)

HInv == HandlersTypeOK /\ \A r \in Requests : RequestSound(r)

-----------------------------------------------------------------------------
(* A request is a matter of its own entries. *)
Untouched(q) ==
  /\ stage'[q] = stage[q]
  /\ charged'[q] = charged[q]
  /\ sent'[q] = sent[q]
  /\ req' = req
  /\ mev' = mev

LEMMA UntouchedSound ==
  ASSUME NEW q \in Requests, Untouched(q), RequestSound(q)
  PROVE  RequestSound(q)'
  BY DEF Untouched, RequestSound, SentSoundly, StageSound, SentByStandardHandler,
         SentAsPassThrough, SentToRelay, Paid, Charges, Flashbots, Method, IsWrite,
         IsStrandedBundle

(* What a step of r leaves alone. *)
LEMMA OthersUntouched ==
  ASSUME HandlersTypeOK, NEW r \in Requests, Handle(r),
         NEW q \in Requests, q # r
  PROVE  Untouched(q)
  BY DEF HandlersTypeOK, Handle, Receive, OuterCheck, Malformed, Disallowed, Block,
         Allowed, InnerCheck, CountRefusal, Unsupported, Forward, AskBlockNumber,
         GotBlockNumber, BadParams, Submit, PassThrough, UpstreamAnswers,
         UpstreamFails, FailFast, Drop, CheckWrite, Answer, Call, Enter, Untouched

-----------------------------------------------------------------------------
(* Type correctness. *)

LEMMA KeysAreWrites == Keys = WRITE_METHODS
  BY HandlersAssumption

LEMMA CheckWriteType ==
  ASSUME HandlersTypeOK, NEW r \in Requests, NEW next \in Stages, CheckWrite(r, next)
  PROVE  /\ LimiterTypeOK'
         /\ stage' \in [Requests -> Stages]
         /\ charged' \in [Requests -> Nat]
  <1>1. CASE ~IsWrite(r)
    <2>1. Enter(r, next) /\ UNCHANGED <<limiterVars, charged>>
      BY <1>1 DEF CheckWrite
    <2>2. QED
      BY <2>1 DEF HandlersTypeOK, LimiterTypeOK, limiterVars, Enter
  <1>2. CASE IsWrite(r)
    <2>1. /\ CheckRateLimit(Method(r))
          /\ \/ Enter(r, "refused") /\ UNCHANGED charged
             \/ Enter(r, next) /\ charged' = [charged EXCEPT ![r] = @ + 1]
      BY <1>2 DEF CheckWrite
    <2>2. Method(r) \in Keys
      BY <1>2, KeysAreWrites DEF IsWrite
    <2>3. LimiterTypeOK'
      BY <2>1, <2>2, CheckType DEF HandlersTypeOK
    <2>4. QED
      BY <2>1, <2>3 DEF HandlersTypeOK, Enter, Stages
  <1>3. QED
    BY <1>1, <1>2

LEMMA HandleType ==
  ASSUME HandlersTypeOK, NEW r \in Requests, Handle(r)
  PROVE  HandlersTypeOK'
  <1>a. UNCHANGED limiterVars => LimiterTypeOK'
    BY DEF HandlersTypeOK, LimiterTypeOK, limiterVars
  <1>b. req[r] \in Inputs /\ Method(r) \in Methods
    BY DEF HandlersTypeOK, Inputs, Method
  <1>1. CASE OuterCheck(r)
    <2>1. (IF mev THEN "dispatch" ELSE "validate") \in Stages
      BY DEF Stages
    <2>2. QED
      BY <1>1, <2>1, CheckWriteType DEF OuterCheck, HandlersTypeOK, metrics
  <1>2. CASE InnerCheck(r)
    <2>1. "forward" \in Stages
      BY DEF Stages
    <2>2. QED
      BY <1>2, <2>1, CheckWriteType DEF InnerCheck, HandlersTypeOK, metrics
  <1>3. CASE Receive(r)
    BY <1>3, <1>a DEF Receive, HandlersTypeOK, Enter, Stages, metrics
  <1>4. CASE Malformed(r) \/ Block(r) \/ CountRefusal(r) \/ Unsupported(r)
             \/ BadParams(r) \/ UpstreamAnswers(r) \/ UpstreamFails(r)
             \/ FailFast(r) \/ Drop(r)
    <2>1. \E a \in Answers : Answer(r, a)
      BY <1>4 DEF Malformed, Block, CountRefusal, Unsupported, BadParams,
                  UpstreamAnswers, UpstreamFails, FailFast, Drop, Answers
    <2>2. /\ UNCHANGED <<limiterVars, mev, req, charged, sent>>
          /\ rate_limit_hits' \in Nat
          /\ invalid_methods' \in Nat
          /\ blocked_requests' \in Nat
      BY <1>4 DEF Malformed, Block, CountRefusal, Unsupported, BadParams,
                  UpstreamAnswers, UpstreamFails, FailFast, Drop, metrics, HandlersTypeOK
    <2>3. QED
      BY <2>1, <2>2, <1>a DEF HandlersTypeOK, Answer, Enter, Stages
  <1>5. CASE Disallowed(r) \/ Allowed(r) \/ GotBlockNumber(r)
    BY <1>5, <1>a DEF Disallowed, Allowed, GotBlockNumber, HandlersTypeOK, Enter,
                      Stages, metrics
  <1>6. CASE Forward(r) \/ AskBlockNumber(r) \/ Submit(r) \/ PassThrough(r)
    <2>1. \E u \in {"geth", "relay"}, m \in Methods, s \in Stages :
            Call(r, u, m) /\ Enter(r, s)
      BY <1>6, <1>b DEF Forward, AskBlockNumber, Submit, PassThrough, Stages, Methods,
                        ALLOWED_METHODS, WRITE_METHODS
    <2>2. UNCHANGED <<limiterVars, mev, req, answer, charged, metrics>>
      BY <1>6 DEF Forward, AskBlockNumber, Submit, PassThrough
    <2>3. QED
      BY <2>1, <2>2, <1>a DEF HandlersTypeOK, Call, Calls, Enter, metrics
  <1>7. QED
    BY <1>1, <1>2, <1>3, <1>4, <1>5, <1>6 DEF Handle

LEMMA ClockType ==
  ASSUME HandlersTypeOK, Clock
  PROVE  HandlersTypeOK'
  BY TickType DEF Clock, HandlersTypeOK, metrics

-----------------------------------------------------------------------------
(* One step of a request keeps it sound. *)

LEMMA ChargesFacts ==
  ASSUME NEW r \in Requests
  PROVE  /\ Charges(r) \in {1, 2}
         /\ ~(Flashbots(r) /\ mev) /\ Flashbots(r) => Charges(r) = 2
         /\ Flashbots(r) /\ mev => Charges(r) = 1
         /\ ~Flashbots(r) => Charges(r) = 1
  BY DEF Charges, Flashbots

(* Steps that end the request or move it on without calls or charges. *)
LEMMA QuietStep ==
  ASSUME HInv, NEW r \in Requests, NEW s \in Stages, Enter(r, s),
         UNCHANGED <<mev, req, charged, sent>>,
         s = "done" \/ s = "upstream"
  PROVE  RequestSound(r)'
  <1>1. /\ stage'[r] = s
        /\ charged'[r] = charged[r] /\ sent'[r] = sent[r]
        /\ req' = req /\ mev' = mev
    BY DEF HInv, HandlersTypeOK, Enter
  <1>2. QED
    BY <1>1 DEF HInv, RequestSound, SentSoundly, StageSound, SentByStandardHandler,
                SentAsPassThrough, SentToRelay, Paid, Charges, Flashbots, Method,
                IsWrite, IsStrandedBundle

LEMMA CheckWriteSound ==
  ASSUME HInv, NEW r \in Requests, NEW next \in Stages, CheckWrite(r, next)
  PROVE  \/ stage'[r] = "refused" /\ charged'[r] = charged[r]
         \/ /\ stage'[r] = next
            /\ charged'[r] = IF IsWrite(r) THEN charged[r] + 1 ELSE charged[r]
  BY DEF HInv, HandlersTypeOK, CheckWrite, Enter

LEMMA HandleSound ==
  ASSUME HInv, NEW r \in Requests, Handle(r)
  PROVE  RequestSound(r)'
  <1> USE DEF HInv
  <1>t. /\ HandlersTypeOK /\ RequestSound(r)
        /\ charged[r] \in Nat
        /\ req[r] \in Inputs
    BY DEF HandlersTypeOK
  <1> DEFINE Same == /\ req' = req /\ mev' = mev
  <1>1. CASE OuterCheck(r)
    <2>1. stage[r] = "outer" /\ Same /\ sent' = sent
      BY <1>1 DEF OuterCheck
    <2>2. \/ stage'[r] = "refused" /\ charged'[r] = charged[r]
          \/ /\ stage'[r] = IF mev THEN "dispatch" ELSE "validate"
             /\ charged'[r] = IF IsWrite(r) THEN charged[r] + 1 ELSE charged[r]
      <3>1. (IF mev THEN "dispatch" ELSE "validate") \in Stages
        BY DEF Stages
      <3>2. QED
        BY <1>1, <3>1, CheckWriteSound DEF OuterCheck
    <2>3. charged[r] = 0 /\ sent[r] = {} /\ Flashbots(r)
      BY <1>t, <2>1 DEF RequestSound, StageSound
    <2>4. Charges(r) = IF mev THEN 1 ELSE 2
      BY <2>3 DEF Charges, Flashbots
    <2>5. QED
      BY <2>1, <2>2, <2>3, <2>4
         DEF RequestSound, SentSoundly, StageSound, Paid, Charges, Flashbots, Method, IsWrite
  <1>2. CASE InnerCheck(r)
    <2>1. stage[r] = "inner" /\ Same /\ sent' = sent
      BY <1>2 DEF InnerCheck
    <2>2. \/ stage'[r] = "refused" /\ charged'[r] = charged[r]
          \/ /\ stage'[r] = "forward"
             /\ charged'[r] = IF IsWrite(r) THEN charged[r] + 1 ELSE charged[r]
      <3>1. "forward" \in Stages
        BY DEF Stages
      <3>2. QED
        BY <1>2, <3>1, CheckWriteSound DEF InnerCheck
    <2>3. /\ Paid(r, Charges(r) - 1) /\ ~(Flashbots(r) /\ mev)
          /\ sent[r] = {} /\ Method(r) \in ALLOWED_METHODS
      BY <1>t, <2>1 DEF RequestSound, StageSound
    <2>4. Charges(r) \in {1, 2} /\ Charges(r)' = Charges(r)
      BY <2>1 DEF Charges
    <2>5. QED
      BY <2>1, <2>2, <2>3, <2>4
         DEF RequestSound, SentSoundly, StageSound, Paid, Flashbots, Method, IsWrite
  <1>3. CASE Receive(r)
    <2>1. /\ stage[r] = "idle" /\ Same /\ sent' = sent /\ charged' = charged
          /\ stage'[r] = IF req[r].route = "rpc" THEN "validate" ELSE "outer"
      BY <1>3, <1>t DEF Receive, HandlersTypeOK, Enter
    <2>2. charged[r] = 0 /\ sent[r] = {} /\ req[r].route \in {"rpc", "flashbots"}
      BY <1>t, <2>1 DEF RequestSound, StageSound, Inputs
    <2>3. QED
      BY <2>1, <2>2
         DEF RequestSound, SentSoundly, StageSound, Paid, Charges, Flashbots, Method, IsWrite
  <1>4. CASE Malformed(r) \/ Block(r) \/ CountRefusal(r) \/ Unsupported(r)
             \/ BadParams(r) \/ UpstreamAnswers(r) \/ UpstreamFails(r)
             \/ FailFast(r) \/ Drop(r)
    <2>1. Enter(r, "done") /\ UNCHANGED <<mev, req, charged, sent>>
      BY <1>4 DEF Malformed, Block, CountRefusal, Unsupported, BadParams,
                  UpstreamAnswers, UpstreamFails, FailFast, Drop, Answer
    <2>2. QED
      BY <2>1, QuietStep DEF Stages
  <1>5. CASE Disallowed(r) \/ Allowed(r)
    <2>1. /\ stage[r] = "validate" /\ Same /\ sent' = sent /\ charged' = charged
          /\ \/ stage'[r] = "blocking"
             \/ stage'[r] = "inner" /\ Method(r) \in ALLOWED_METHODS
      BY <1>5, <1>t DEF Disallowed, Allowed, HandlersTypeOK, Enter
    <2>2. QED
      BY <1>t, <2>1
         DEF RequestSound, SentSoundly, StageSound, Paid, Charges, Flashbots, Method, IsWrite
  <1>6. CASE Forward(r)
    <2>1. /\ stage[r] = "forward" /\ ~IsStrandedBundle(r) /\ Same /\ charged' = charged
          /\ sent'[r] = sent[r] \cup {<<"geth", Method(r)>>}
          /\ stage'[r] = "upstream"
      BY <1>6, <1>t DEF Forward, Call, HandlersTypeOK, Enter
    <2>2. /\ Paid(r, Charges(r)) /\ ~(Flashbots(r) /\ mev)
          /\ sent[r] = {} /\ Method(r) \in ALLOWED_METHODS
          /\ charged[r] <= Charges(r)
      BY <1>t, <2>1 DEF RequestSound, StageSound
    <2>3. SentByStandardHandler(r)'
      BY <2>1, <2>2
         DEF SentByStandardHandler, Paid, Charges, Flashbots, Method, IsWrite, IsStrandedBundle
    <2>4. QED
      BY <2>1, <2>2, <2>3 DEF RequestSound, SentSoundly, StageSound, Charges
  <1>7. CASE PassThrough(r)
    <2>1. /\ stage[r] = "dispatch" /\ ~IsWrite(r) /\ Same /\ charged' = charged
          /\ sent'[r] = sent[r] \cup {<<"geth", Method(r)>>}
          /\ stage'[r] = "upstream"
      BY <1>7, <1>t DEF PassThrough, Call, HandlersTypeOK, Enter
    <2>2. Flashbots(r) /\ mev /\ sent[r] = {} /\ charged[r] <= Charges(r)
      BY <1>t, <2>1 DEF RequestSound, StageSound
    <2>3. SentAsPassThrough(r)'
      BY <2>1, <2>2 DEF SentAsPassThrough, Flashbots, Method, IsWrite
    <2>4. QED
      BY <2>1, <2>2, <2>3 DEF RequestSound, SentSoundly, StageSound, Charges
  <1>8. CASE AskBlockNumber(r) \/ GotBlockNumber(r) \/ Submit(r)
    <2>1. /\ Same /\ charged' = charged
          /\ sent'[r] \subseteq
               sent[r] \cup {<<"geth", "eth_blockNumber">>, <<"relay", "eth_sendBundle">>}
          /\ stage'[r] \in {"block", "submit", "upstream"}
          /\ stage[r] \in {"dispatch", "block", "submit"}
          /\ stage[r] = "dispatch" => IsWrite(r)
      BY <1>8, <1>t DEF AskBlockNumber, GotBlockNumber, Submit, Submitting, Call,
                        HandlersTypeOK, Enter, IsWrite, WRITE_METHODS
    <2>2. /\ Flashbots(r) /\ mev /\ IsWrite(r) /\ charged[r] = 1
          /\ charged[r] <= Charges(r)
          /\ sent[r] \subseteq {<<"geth", "eth_blockNumber">>, <<"relay", "eth_sendBundle">>}
      BY <1>t, <2>1 DEF RequestSound, StageSound, Paid, SentToRelay
    <2>3. SentToRelay(r)'
      BY <2>1, <2>2 DEF SentToRelay, Flashbots, Method, IsWrite
    <2>4. QED
      BY <2>1, <2>2, <2>3
         DEF RequestSound, SentSoundly, StageSound, Charges, Paid, Flashbots, Method, IsWrite
  <1>9. QED
    BY <1>1, <1>2, <1>3, <1>4, <1>5, <1>6, <1>7, <1>8 DEF Handle

-----------------------------------------------------------------------------
LEMMA HInvInit == HandlersInit => HInv
  <1> SUFFICES ASSUME HandlersInit PROVE HInv
    OBVIOUS
  <1>1. HandlersTypeOK
    BY InitType DEF HandlersInit, HandlersTypeOK, Stages, Answers
  <1>2. ASSUME NEW r \in Requests PROVE RequestSound(r)
    <2>1. stage[r] = "idle" /\ charged[r] = 0 /\ sent[r] = {}
      BY DEF HandlersInit
    <2>2. QED
      BY <2>1 DEF RequestSound, SentSoundly, StageSound, Charges
  <1>3. QED
    BY <1>1, <1>2 DEF HInv

LEMMA HInvStep == HInv /\ [HandlersNext]_vars => HInv'
  <1> SUFFICES ASSUME HInv, [HandlersNext]_vars PROVE HInv'
    OBVIOUS
  <1>1. ASSUME NEW r \in Requests, Handle(r) PROVE HInv'
    <2>1. HandlersTypeOK'
      BY <1>1, HandleType DEF HInv
    <2>2. ASSUME NEW q \in Requests PROVE RequestSound(q)'
      <3>1. CASE q = r
        BY <1>1, <3>1, HandleSound
      <3>2. CASE q # r
        BY <1>1, <3>2, OthersUntouched, UntouchedSound DEF HInv
      <3>3. QED
        BY <3>1, <3>2
    <2>3. QED
      BY <2>1, <2>2 DEF HInv
  <1>2. CASE Clock
    <2>1. HandlersTypeOK'
      BY <1>2, ClockType DEF HInv
    <2>2. \A q \in Requests : Untouched(q)
      BY <1>2 DEF Clock, Untouched
    <2>3. QED
      BY <2>1, <2>2, UntouchedSound DEF HInv
  <1>3. CASE UNCHANGED vars
    <2>1. HandlersTypeOK'
      BY <1>3 DEF HInv, HandlersTypeOK, LimiterTypeOK, vars, limiterVars, metrics
    <2>2. \A q \in Requests : Untouched(q)
      BY <1>3 DEF vars, Untouched
    <2>3. QED
      BY <2>1, <2>2, UntouchedSound DEF HInv
  <1>4. QED
    BY <1>1, <1>2, <1>3 DEF HandlersNext

LEMMA HInvHolds == HandlersSpec => []HInv
  BY HInvInit, HInvStep, PTL DEF HandlersSpec

-----------------------------------------------------------------------------
(* The variables of the handlers and of the write limiter keep their types *)
(* for every number of requests.                                           *)
THEOREM HandlersTypeCorrect == HandlersSpec => []HandlersTypeOK
  <1>1. HInv => HandlersTypeOK
    BY DEF HInv
  <1>2. QED
    BY <1>1, HInvHolds, PTL

(* No write reaches an upstream uncharged, and none is charged more often  *)
(* than the handlers it goes through ask (check_write_method_rate_limit).  *)
THEOREM WritesCharged == HandlersSpec => []WritesAreCharged
  <1>1. HInv => WritesAreCharged
    <2> SUFFICES ASSUME HInv, NEW r \in Requests
                 PROVE  /\ SentWrite(r) => charged[r] = Charges(r)
                        /\ charged[r] <= Charges(r)
      BY DEF WritesAreCharged
    <2>1. RequestSound(r)
      BY DEF HInv
    <2>2. CASE sent[r] = {}
      BY <2>1, <2>2 DEF RequestSound, SentWrite, SentMethods
    <2>3. CASE SentByStandardHandler(r)
      BY <2>1, <2>3 DEF RequestSound, SentByStandardHandler, SentWrite, SentMethods, IsWrite
    <2>4. CASE SentAsPassThrough(r)
      BY <2>1, <2>4 DEF RequestSound, SentAsPassThrough, SentWrite, SentMethods, IsWrite
    <2>5. CASE SentToRelay(r)
      BY <2>1, <2>5 DEF RequestSound, SentToRelay, Charges, Flashbots
    <2>6. QED
      BY <2>1, <2>2, <2>3, <2>4, <2>5 DEF RequestSound, SentSoundly
  <1>2. QED
    BY <1>1, HInvHolds, PTL

(* Transactions of the flashbots route stay off the node's public mempool  *)
(* (handle_flashbots_with_mev, proxy_to_flashbots).                        *)
THEOREM PrivateTransactions == HandlersSpec => []PrivateStaysPrivate
  <1>1. HInv => PrivateStaysPrivate
    <2> SUFFICES ASSUME HInv, NEW r \in Requests, req[r].route = "flashbots"
                 PROVE  /\ mev => \A m \in WRITE_METHODS : <<"geth", m>> \notin sent[r]
                        /\ <<"geth", "eth_sendBundle">> \notin sent[r]
      BY DEF PrivateStaysPrivate
    <2>1. SentSoundly(r)
      BY DEF HInv, RequestSound
    <2>2. CASE sent[r] = {}
      BY <2>2
    <2>3. CASE SentByStandardHandler(r)
      BY <2>3 DEF SentByStandardHandler, IsStrandedBundle, Flashbots
    <2>4. CASE SentAsPassThrough(r)
      BY <2>4 DEF SentAsPassThrough, IsWrite, WRITE_METHODS
    <2>5. CASE SentToRelay(r)
      BY <2>5 DEF SentToRelay, WRITE_METHODS
    <2>6. QED
      BY <2>1, <2>2, <2>3, <2>4, <2>5 DEF SentSoundly
  <1>2. QED
    BY <1>1, HInvHolds, PTL

(* The standard handlers let only methods of the allow-list through        *)
(* (handle_rpc, handle_flashbots).                                         *)
THEOREM StandardAllowList == HandlersSpec => []ListedMethodsOnly
  <1>1. HInv => ListedMethodsOnly
    <2> SUFFICES ASSUME HInv, NEW r \in Requests, req[r].route = "rpc" \/ ~mev
                 PROVE  SentMethods(r) \subseteq ALLOWED_METHODS
      BY DEF ListedMethodsOnly
    <2>1. SentSoundly(r) /\ ~(Flashbots(r) /\ mev)
      BY DEF HInv, RequestSound, Flashbots
    <2>2. CASE sent[r] = {}
      BY <2>2 DEF SentMethods
    <2>3. CASE SentByStandardHandler(r)
      BY <2>3 DEF SentByStandardHandler, SentMethods
    <2>4. QED
      BY <2>1, <2>2, <2>3 DEF SentSoundly, SentAsPassThrough, SentToRelay
  <1>2. QED
    BY <1>1, HInvHolds, PTL

-----------------------------------------------------------------------------
(* The counters of /metrics.  Requests whose entry in f is b: *)
Among(f, b) == {r \in Requests : f[r] = b}

LEMMA AmongFinite ==
  ASSUME NEW f, NEW b
  PROVE  IsFiniteSet(Among(f, b)) /\ Cardinality(Among(f, b)) \in Nat
  <1>1. Among(f, b) \in SUBSET Requests
    BY DEF Among
  <1>2. QED
    BY <1>1, HandlersAssumption, FS_Subset, FS_CardinalityType

LEMMA SameCount ==
  ASSUME NEW f, NEW g, NEW b, \A r \in Requests : f[r] = b <=> g[r] = b
  PROVE  Cardinality(Among(g, b)) = Cardinality(Among(f, b))
  <1>1. Among(g, b) = Among(f, b)
    BY DEF Among
  <1>2. QED
    BY <1>1

(* A new element makes a finite set one larger. *)
LEMMA AddOne ==
  ASSUME NEW S, IsFiniteSet(S), NEW x, x \notin S
  PROVE  Cardinality(S \cup {x}) = Cardinality(S) + 1
  BY FS_AddElement

LEMMA OneMore ==
  ASSUME NEW f, NEW g, NEW b, NEW r \in Requests, f[r] # b, g[r] = b,
         \A q \in Requests \ {r} : f[q] = g[q]
  PROVE  Cardinality(Among(g, b)) = Cardinality(Among(f, b)) + 1
  <1>1. Among(g, b) = Among(f, b) \cup {r} /\ r \notin Among(f, b)
    BY DEF Among
  <1>2. IsFiniteSet(Among(f, b))
    BY AmongFinite
  <1>3. Cardinality(Among(f, b) \cup {r}) = Cardinality(Among(f, b)) + 1
    BY <1>1, <1>2, AddOne
  <1>4. QED
    BY <1>1, <1>3

(* The property, and that only a request that is done has been told. *)
Counted ==
  /\ rate_limit_hits = Cardinality(Among(answer, "rate_limited"))
  /\ blocked_requests = Cardinality(Among(answer, "not_allowed"))
  /\ invalid_methods = blocked_requests + Cardinality(Among(stage, "blocking"))
  /\ \A r \in Requests : stage[r] = "done" <=> answer[r] # "none"

(* A request moves on and nobody is told anything. *)
LEMMA MoveOn ==
  ASSUME HandlersTypeOK, Counted, NEW r \in Requests, NEW s \in Stages \ {"blocking", "done"},
         stage[r] \notin {"blocking", "done"}, Enter(r, s), UNCHANGED <<answer, metrics>>
  PROVE  Counted'
  <1>1. \A q \in Requests : stage[q] = "blocking" <=> stage'[q] = "blocking"
    BY DEF HandlersTypeOK, Enter
  <1>2. Cardinality(Among(stage', "blocking")) = Cardinality(Among(stage, "blocking"))
    BY <1>1, SameCount
  <1>3. Counted' = Counted
    <2>1. \A q \in Requests : stage[q] = "done" <=> stage'[q] = "done"
      BY DEF HandlersTypeOK, Enter
    <2>2. QED
      BY <1>2, <2>1 DEF Counted, metrics, Among
  <1>4. QED
    BY <1>3

(* What an answer changes in the sets of those that were told. *)
LEMMA AnswerCounts ==
  ASSUME HandlersTypeOK, Counted, NEW r \in Requests, NEW a \in Answers \ {"none"},
         stage[r] # "done", Answer(r, a)
  PROVE  /\ \A q \in Requests : stage'[q] = "done" <=> answer'[q] # "none"
         /\ Cardinality(Among(answer', a)) = Cardinality(Among(answer, a)) + 1
         /\ \A b \in Answers \ {"none", a} :
              Cardinality(Among(answer', b)) = Cardinality(Among(answer, b))
  <1>1. answer[r] = "none" /\ answer'[r] = a /\ stage'[r] = "done"
    BY DEF HandlersTypeOK, Counted, Answer, Enter
  <1>2. \A q \in Requests \ {r} : answer[q] = answer'[q] /\ stage[q] = stage'[q]
    BY DEF HandlersTypeOK, Answer, Enter
  <1>3. \A q \in Requests : stage'[q] = "done" <=> answer'[q] # "none"
    BY <1>1, <1>2 DEF Counted
  <1>4. Cardinality(Among(answer', a)) = Cardinality(Among(answer, a)) + 1
    <2>1. answer[r] # a /\ answer'[r] = a /\ \A q \in Requests \ {r} : answer[q] = answer'[q]
      BY <1>1, <1>2
    <2>2. QED
      BY <2>1, OneMore
  <1>5. ASSUME NEW b \in Answers \ {"none", a}
        PROVE  Cardinality(Among(answer', b)) = Cardinality(Among(answer, b))
    <2>1. \A q \in Requests : answer[q] = b <=> answer'[q] = b
      BY <1>1, <1>2
    <2>2. QED
      BY <2>1, SameCount
  <1>6. QED
    BY <1>3, <1>4, <1>5

(* Answers that no counter is kept of. *)
LEMMA TellUncounted ==
  ASSUME HandlersTypeOK, Counted, NEW r \in Requests,
         NEW a \in Answers \ {"none", "rate_limited", "not_allowed"},
         stage[r] \notin {"blocking", "done"}, Answer(r, a), UNCHANGED metrics
  PROVE  Counted'
  <1>1. \A q \in Requests : stage[q] = "blocking" <=> stage'[q] = "blocking"
    BY DEF HandlersTypeOK, Answer, Enter
  <1>2. Cardinality(Among(stage', "blocking")) = Cardinality(Among(stage, "blocking"))
    BY <1>1, SameCount
  <1>3. {"rate_limited", "not_allowed"} \subseteq Answers \ {"none", a}
    BY DEF Answers
  <1>4. /\ \A q \in Requests : stage'[q] = "done" <=> answer'[q] # "none"
        /\ Cardinality(Among(answer', "rate_limited")) = Cardinality(Among(answer, "rate_limited"))
        /\ Cardinality(Among(answer', "not_allowed")) = Cardinality(Among(answer, "not_allowed"))
    BY <1>3, AnswerCounts
  <1>5. QED
    BY <1>2, <1>4 DEF Counted, metrics, Among

LEMMA DisallowedCounted ==
  ASSUME HandlersTypeOK, Counted, NEW r \in Requests, Disallowed(r)
  PROVE  Counted'
  <1>1. stage[r] = "validate" /\ stage'[r] = "blocking"
        /\ \A q \in Requests \ {r} : stage[q] = stage'[q]
    BY DEF Disallowed, Enter, HandlersTypeOK
  <1>2. Cardinality(Among(stage', "blocking")) = Cardinality(Among(stage, "blocking")) + 1
    BY <1>1, OneMore
  <1>3. answer' = answer /\ rate_limit_hits' = rate_limit_hits
        /\ blocked_requests' = blocked_requests /\ invalid_methods' = invalid_methods + 1
    BY DEF Disallowed
  <1>4. \A q \in Requests : stage'[q] = "done" <=> answer'[q] # "none"
    BY <1>1, <1>3 DEF Counted
  <1>5. Cardinality(Among(stage, "blocking")) \in Nat /\ blocked_requests \in Nat
    BY AmongFinite DEF HandlersTypeOK
  <1>6. QED
    BY <1>2, <1>3, <1>4, <1>5 DEF Counted, Among

LEMMA BlockCounted ==
  ASSUME HandlersTypeOK, Counted, NEW r \in Requests, Block(r)
  PROVE  Counted'
  <1>1. stage[r] = "blocking" /\ stage'[r] = "done"
        /\ \A q \in Requests \ {r} : stage[q] = stage'[q]
    BY DEF Block, Answer, Enter, HandlersTypeOK
  <1>2. Cardinality(Among(stage, "blocking")) = Cardinality(Among(stage', "blocking")) + 1
    BY <1>1, OneMore
  <1>3. "not_allowed" \in Answers \ {"none"} /\ "rate_limited" \in Answers \ {"none", "not_allowed"}
    BY DEF Answers
  <1>4. /\ \A q \in Requests : stage'[q] = "done" <=> answer'[q] # "none"
        /\ Cardinality(Among(answer', "not_allowed")) = Cardinality(Among(answer, "not_allowed")) + 1
        /\ Cardinality(Among(answer', "rate_limited")) = Cardinality(Among(answer, "rate_limited"))
    BY <1>1, <1>3, AnswerCounts DEF Block
  <1>5. rate_limit_hits' = rate_limit_hits /\ invalid_methods' = invalid_methods
        /\ blocked_requests' = blocked_requests + 1
    BY DEF Block
  <1>6. Cardinality(Among(stage', "blocking")) \in Nat /\ blocked_requests \in Nat
    BY AmongFinite DEF HandlersTypeOK
  <1>7. QED
    BY <1>2, <1>4, <1>5, <1>6 DEF Counted, Among

LEMMA RefusalCounted ==
  ASSUME HandlersTypeOK, Counted, NEW r \in Requests, CountRefusal(r)
  PROVE  Counted'
  <1>1. \A q \in Requests : stage[q] = "blocking" <=> stage'[q] = "blocking"
    BY DEF HandlersTypeOK, CountRefusal, Answer, Enter
  <1>2. Cardinality(Among(stage', "blocking")) = Cardinality(Among(stage, "blocking"))
    BY <1>1, SameCount
  <1>3. "rate_limited" \in Answers \ {"none"} /\ "not_allowed" \in Answers \ {"none", "rate_limited"}
    BY DEF Answers
  <1>4. /\ \A q \in Requests : stage'[q] = "done" <=> answer'[q] # "none"
        /\ Cardinality(Among(answer', "rate_limited")) = Cardinality(Among(answer, "rate_limited")) + 1
        /\ Cardinality(Among(answer', "not_allowed")) = Cardinality(Among(answer, "not_allowed"))
    BY <1>3, AnswerCounts DEF CountRefusal
  <1>5. rate_limit_hits' = rate_limit_hits + 1 /\ invalid_methods' = invalid_methods
        /\ blocked_requests' = blocked_requests
    BY DEF CountRefusal
  <1>6. QED
    BY <1>2, <1>4, <1>5 DEF Counted, Among

LEMMA HandleCounted ==
  ASSUME HandlersTypeOK, Counted, NEW r \in Requests, Handle(r)
  PROVE  Counted'
  <1>1. CASE Disallowed(r) \/ Block(r) \/ CountRefusal(r)
    BY <1>1, DisallowedCounted, BlockCounted, RefusalCounted
  <1>2. CASE OuterCheck(r) \/ InnerCheck(r)
    <2>1. \E s \in Stages \ {"blocking", "done"} : Enter(r, s)
      BY <1>2 DEF OuterCheck, InnerCheck, CheckWrite, Stages
    <2>2. stage[r] \notin {"blocking", "done"} /\ UNCHANGED <<answer, metrics>>
      BY <1>2 DEF OuterCheck, InnerCheck
    <2>3. QED
      BY <2>1, <2>2, MoveOn
  <1>3. CASE Receive(r) \/ Allowed(r) \/ Forward(r) \/ AskBlockNumber(r)
             \/ GotBlockNumber(r) \/ Submit(r) \/ PassThrough(r)
    <2>1. \E s \in Stages \ {"blocking", "done"} : Enter(r, s)
      BY <1>3 DEF Receive, Allowed, Forward, AskBlockNumber, GotBlockNumber, Submit,
                  PassThrough, Stages
    <2>2. stage[r] \notin {"blocking", "done"} /\ UNCHANGED <<answer, metrics>>
      BY <1>3 DEF Receive, Allowed, Forward, AskBlockNumber, GotBlockNumber, Submit,
                  Submitting, PassThrough
    <2>3. QED
      BY <2>1, <2>2, MoveOn
  <1>4. CASE Malformed(r) \/ Unsupported(r) \/ BadParams(r) \/ UpstreamAnswers(r)
             \/ UpstreamFails(r) \/ FailFast(r) \/ Drop(r)
    <2>1. \E a \in Answers \ {"none", "rate_limited", "not_allowed"} : Answer(r, a)
      BY <1>4 DEF Malformed, Unsupported, BadParams, UpstreamAnswers, UpstreamFails,
                  FailFast, Drop, Answers
    <2>2. stage[r] \notin {"blocking", "done"} /\ UNCHANGED metrics
      BY <1>4 DEF Malformed, Unsupported, BadParams, Submitting, UpstreamAnswers,
                  UpstreamFails, FailFast, Drop, Calling
    <2>3. QED
      BY <2>1, <2>2, TellUncounted
  <1>5. QED
    BY <1>1, <1>2, <1>3, <1>4 DEF Handle

LEMMA InitCounted == HandlersInit => Counted
  <1> SUFFICES ASSUME HandlersInit PROVE Counted
    OBVIOUS
  <1>1. /\ Among(answer, "rate_limited") = {}
        /\ Among(answer, "not_allowed") = {}
        /\ Among(stage, "blocking") = {}
    BY DEF HandlersInit, Among
  <1>2. QED
    BY <1>1, FS_EmptySet DEF HandlersInit, Counted

LEMMA CountedHolds == HandlersSpec => []Counted
  <1>1. ASSUME HInv, Counted, [HandlersNext]_vars
        PROVE  Counted'
    <2>1. CASE Clock \/ UNCHANGED vars
      BY <1>1, <2>1 DEF Counted, Clock, vars, metrics, Among
    <2>2. QED
      BY <1>1, <2>1, HandleCounted DEF HInv, HandlersNext
  <1>2. QED
    BY <1>1, InitCounted, HInvHolds, PTL DEF HandlersSpec

(***************************************************************************)
(* The counters of SecurityMetrics count every refusal and every blocked   *)
(* method once, whatever requests are in progress.                         *)
(***************************************************************************)
THEOREM MetricsCountAnswers == HandlersSpec => []MetricsMatchAnswers
  <1>1. Counted => MetricsMatchAnswers
    BY DEF Counted, MetricsMatchAnswers, Told, Among
  <1>2. QED
    BY <1>1, CountedHolds, PTL

-----------------------------------------------------------------------------
(***************************************************************************)
(* The budget of the write limiter when there is a relay client.  The      *)
(* count of a method's entry never exceeds the writes of that method that  *)
(* were let in, because none is charged twice; and who is refused has not  *)
(* been charged at all.                                                    *)
(***************************************************************************)
LetIn(k) == {q \in Requests : Method(q) = k /\ charged[q] > 0}
Refused(r) == stage[r] = "refused" \/ answer[r] = "rate_limited"

CountBelowLetIn == \A k \in Keys : count[k] <= Cardinality(LetIn(k))
RefusedInFull ==
  \A r \in Requests : Refused(r) =>
    charged[r] = 0 /\ Budget <= Cardinality(LetIn(Method(r)))

Within == mev => CountBelowLetIn /\ RefusedInFull

LEMMA LetInFinite ==
  ASSUME NEW k
  PROVE  IsFiniteSet(LetIn(k)) /\ Cardinality(LetIn(k)) \in Nat
  <1>1. LetIn(k) \in SUBSET Requests
    BY DEF LetIn
  <1>2. QED
    BY <1>1, HandlersAssumption, FS_Subset, FS_CardinalityType

(* Steps that charge nobody and refuse nobody. *)
LEMMA NobodyCharged ==
  ASSUME Within, UNCHANGED <<count, charged, req, mev>>,
         \A q \in Requests : Refused(q)' => Refused(q)
  PROVE  Within'
  <1>1. \A k : LetIn(k)' = LetIn(k)
    BY DEF LetIn, Method
  <1>2. QED
    BY <1>1 DEF Within, CountBelowLetIn, RefusedInFull, Method

(* The refusal of a write: its entry holds a whole budget. *)
LEMMA RefuseWithin ==
  ASSUME HandlersTypeOK, Within, mev, NEW r \in Requests, charged[r] = 0,
         Method(r) \in Keys, Exhausted(Method(r)),
         UNCHANGED <<count, charged, req, mev, answer>>, Enter(r, "refused")
  PROVE  Within'
  <1>1. \A k : LetIn(k)' = LetIn(k)
    BY DEF LetIn, Method
  <1>2. Budget <= count[Method(r)]
    BY BudgetFacts, LimiterAssumption
       DEF HandlersTypeOK, LimiterTypeOK, Exhausted, InWindow, Tracked, Budget
  <1>3. /\ count[Method(r)] <= Cardinality(LetIn(Method(r)))
        /\ CountBelowLetIn /\ RefusedInFull
    BY DEF Within, CountBelowLetIn
  <1>4. Budget <= Cardinality(LetIn(Method(r)))
    BY <1>2, <1>3, BudgetFacts, LetInFinite DEF HandlersTypeOK, LimiterTypeOK
  <1>5. \A q \in Requests : Refused(q)' => Refused(q) \/ q = r
    BY DEF Refused, Enter, HandlersTypeOK
  <1>6. QED
    BY <1>1, <1>3, <1>4, <1>5 DEF Within, CountBelowLetIn, RefusedInFull, Method

(* A write that is let in for the first time: one more on both sides, or a *)
(* new window whose only request it is.                                    *)
LEMMA ChargeWithin ==
  ASSUME HandlersTypeOK, Within, mev, NEW r \in Requests, charged[r] = 0,
         NEW k \in Keys, k = Method(r), CheckRateLimit(k), ~Exhausted(k),
         charged' = [charged EXCEPT ![r] = @ + 1], UNCHANGED <<req, mev, answer>>,
         NEW s \in Stages \ {"refused"}, Enter(r, s), ~Refused(r)
  PROVE  Within'
  <1>1. /\ LetIn(k)' = LetIn(k) \cup {r} /\ r \notin LetIn(k)
        /\ \A j \in Keys \ {k} : LetIn(j)' = LetIn(j)
    BY DEF LetIn, Method, HandlersTypeOK
  <1>2. Cardinality(LetIn(k)') = Cardinality(LetIn(k)) + 1
    <2>1. IsFiniteSet(LetIn(k))
      BY LetInFinite
    <2>2. Cardinality(LetIn(k) \cup {r}) = Cardinality(LetIn(k)) + 1
      BY <1>1, <2>1, AddOne
    <2>3. QED
      BY <1>1, <2>2
  <1>3. Cardinality(LetIn(k)) \in Nat
    BY LetInFinite
  <1>4. /\ \/ count'[k] = count[k] + 1
           \/ count'[k] = 1
        /\ \A j \in Keys \ {k} : count'[j] = count[j]
        /\ count[k] \in Nat
    BY BudgetFacts DEF HandlersTypeOK, LimiterTypeOK, CheckRateLimit, Entry
  <1>5. CountBelowLetIn /\ RefusedInFull
    BY DEF Within
  <1>6. CountBelowLetIn'
    <2>1. count'[k] <= Cardinality(LetIn(k)')
      BY <1>2, <1>3, <1>4, <1>5 DEF CountBelowLetIn
    <2>2. \A j \in Keys \ {k} : count'[j] <= Cardinality(LetIn(j)')
      BY <1>1, <1>4, <1>5 DEF CountBelowLetIn
    <2>3. QED
      BY <2>1, <2>2 DEF CountBelowLetIn
  <1>7. RefusedInFull'
    <2> SUFFICES ASSUME NEW q \in Requests, Refused(q)'
                 PROVE  charged'[q] = 0 /\ Budget <= Cardinality(LetIn(Method(q))')
      BY DEF RefusedInFull, Method
    <2>1. q # r /\ Refused(q)
      BY DEF Refused, Enter, HandlersTypeOK
    <2>2. charged'[q] = 0 /\ Budget <= Cardinality(LetIn(Method(q)))
      BY <2>1, <1>5 DEF RefusedInFull, HandlersTypeOK
    <2>3. CASE Method(q) = k
      <3>1. LetIn(Method(q))' = LetIn(k)'
        BY <2>3 DEF LetIn, Method
      <3>2. QED
        BY <1>2, <1>3, <2>2, <2>3, <3>1, BudgetFacts
    <2>4. CASE Method(q) # k
      <3>1. LetIn(Method(q))' = LetIn(Method(q))
        BY <2>4 DEF LetIn, Method, HandlersTypeOK
      <3>2. QED
        BY <2>2, <3>1
    <2>5. QED
      BY <2>3, <2>4
  <1>8. QED
    BY <1>6, <1>7 DEF Within

(* check_write_method_rate_limit, on either of its two calls. *)
LEMMA CheckWithin ==
  ASSUME HInv, Within, NEW r \in Requests, NEW next \in Stages \ {"refused"},
         CheckWrite(r, next), UNCHANGED <<mev, req, answer>>,
         mev /\ IsWrite(r) => charged[r] = 0, ~Refused(r)
  PROVE  Within'
  <1>1. CASE ~mev
    BY <1>1 DEF Within
  <1>2. CASE ~IsWrite(r)
    <2>1. Enter(r, next) /\ UNCHANGED <<limiterVars, charged>>
      BY <1>2 DEF CheckWrite
    <2>2. \A q \in Requests : Refused(q)' => Refused(q)
      BY <2>1 DEF Refused, Enter, HInv, HandlersTypeOK
    <2>3. QED
      BY <2>1, <2>2, NobodyCharged DEF limiterVars
  <1>3. CASE mev /\ IsWrite(r)
    <2>1. /\ CheckRateLimit(Method(r))
          /\ IF Exhausted(Method(r))
             THEN Enter(r, "refused") /\ UNCHANGED charged
             ELSE Enter(r, next) /\ charged' = [charged EXCEPT ![r] = @ + 1]
      BY <1>3 DEF CheckWrite
    <2>2. Method(r) \in Keys
      BY <1>3, KeysAreWrites DEF IsWrite
    <2>3. CASE Exhausted(Method(r))
      <3>1. UNCHANGED count /\ Enter(r, "refused") /\ UNCHANGED charged
        BY <2>1, <2>3 DEF CheckRateLimit, Exhausted
      <3>2. QED
        BY <1>3, <2>2, <2>3, <3>1, RefuseWithin DEF HInv
    <2>4. CASE ~Exhausted(Method(r))
      <3>1. Enter(r, next) /\ charged' = [charged EXCEPT ![r] = @ + 1]
        BY <2>1, <2>4
      <3>2. QED
        BY <1>3, <2>1, <2>2, <2>4, <3>1, ChargeWithin DEF HInv
    <2>5. QED
      BY <2>3, <2>4
  <1>4. QED
    BY <1>1, <1>2, <1>3

LEMMA HandleWithin ==
  ASSUME HInv, Counted, Within, NEW r \in Requests, Handle(r)
  PROVE  Within'
  <1>1. CASE OuterCheck(r)
    <2>1. /\ stage[r] = "outer" /\ UNCHANGED <<mev, req, answer>>
          /\ CheckWrite(r, IF mev THEN "dispatch" ELSE "validate")
      BY <1>1 DEF OuterCheck
    <2>2. charged[r] = 0 /\ ~Refused(r)
      BY <2>1 DEF HInv, RequestSound, StageSound, Counted, Refused
    <2>3. (IF mev THEN "dispatch" ELSE "validate") \in Stages \ {"refused"}
      BY DEF Stages
    <2>4. QED
      BY <2>1, <2>2, <2>3, CheckWithin
  <1>2. CASE InnerCheck(r)
    <2>1. /\ stage[r] = "inner" /\ UNCHANGED <<mev, req, answer>>
          /\ CheckWrite(r, "forward")
      BY <1>2 DEF InnerCheck
    <2>2. ~Refused(r)
      BY <2>1 DEF Counted, Refused
    <2>3. mev /\ IsWrite(r) => charged[r] = 0
      BY <2>1, ChargesFacts DEF HInv, RequestSound, StageSound, Paid
    <2>4. "forward" \in Stages \ {"refused"}
      BY DEF Stages
    <2>5. QED
      BY <2>1, <2>2, <2>3, <2>4, CheckWithin
  <1>3. CASE ~OuterCheck(r) /\ ~InnerCheck(r)
    <2>1. UNCHANGED <<count, charged, req, mev>>
      BY <1>3 DEF Handle, Receive, Malformed, Disallowed, Block, Allowed, CountRefusal,
                  Unsupported, Forward, AskBlockNumber, GotBlockNumber, BadParams, Submit,
                  PassThrough, UpstreamAnswers, UpstreamFails, FailFast, Drop, limiterVars
    <2>2. \A q \in Requests : Refused(q)' => Refused(q)
      BY <1>3 DEF Handle, Receive, Malformed, Disallowed, Block, Allowed, CountRefusal,
                  Unsupported, Forward, AskBlockNumber, GotBlockNumber, BadParams, Submit,
                  PassThrough, UpstreamAnswers, UpstreamFails, FailFast, Drop, Answer,
                  Enter, Refused, HInv, HandlersTypeOK
    <2>3. QED
      BY <2>1, <2>2, NobodyCharged
  <1>4. QED
    BY <1>1, <1>2, <1>3

LEMMA WithinHolds == HandlersSpec => []Within
  <1>1. HandlersInit => Within
    <2> SUFFICES ASSUME HandlersInit PROVE CountBelowLetIn /\ RefusedInFull
      BY DEF Within
    <2>1. \A k \in Keys : count[k] = 0 /\ Cardinality(LetIn(k)) \in Nat
      BY LetInFinite DEF HandlersInit, LimiterInit
    <2>2. QED
      BY <2>1 DEF HandlersInit, CountBelowLetIn, RefusedInFull, Refused
  <1>2. ASSUME HInv, Counted, Within, [HandlersNext]_vars
        PROVE  Within'
    <2>1. CASE Clock \/ UNCHANGED vars
      <3>1. UNCHANGED <<count, charged, req, mev, stage, answer>>
        BY <2>1 DEF Clock, LimiterTick, vars, limiterVars
      <3>2. QED
        BY <1>2, <3>1, NobodyCharged DEF Refused
    <2>2. QED
      BY <1>2, <2>1, HandleWithin DEF HandlersNext
  <1>3. QED
    BY <1>1, <1>2, HInvHolds, CountedHolds, PTL DEF HandlersSpec

(***************************************************************************)
(* With a relay client a write is refused only after as many other writes  *)
(* of its method as the budget allows, for any number of requests on both  *)
(* routes, any budget and any window.                                      *)
(***************************************************************************)
THEOREM BudgetKeptWithRelay == HandlersSpec => []WholeBudgetWithRelay
  <1>1. Within => WholeBudgetWithRelay
    <2> SUFFICES ASSUME Within, mev, NEW r \in Requests, answer[r] = "rate_limited"
                 PROVE  Budget <= Cardinality({q \in Requests \ {r} :
                                     Method(q) = Method(r) /\ charged[q] > 0})
      BY DEF WholeBudgetWithRelay, RefusedAfterBudget
    <2>1. charged[r] = 0 /\ Budget <= Cardinality(LetIn(Method(r)))
      BY DEF Within, RefusedInFull, Refused
    <2>2. LetIn(Method(r)) = {q \in Requests \ {r} : Method(q) = Method(r) /\ charged[q] > 0}
      BY <2>1 DEF LetIn
    <2>3. QED
      BY <2>1, <2>2
  <1>2. QED
    BY <1>1, WithinHolds, PTL

-----------------------------------------------------------------------------
(***************************************************************************)
(* The limiter that the two routes share still implements the ideal one:   *)
(* whatever the requests do, each of their steps is a check of the limiter *)
(* or none of its business.                                                *)
(***************************************************************************)
THEOREM SharedLimiterIsIdeal == HandlersSpec => ImplementsFixedWindow
  <1>1. HandlersInit => LimiterInit
    BY DEF HandlersInit
  <1>2. ASSUME [HandlersNext]_vars
        PROVE  [LimiterNext]_limiterVars
    <2>1. CASE Clock
      BY <2>1 DEF Clock, LimiterNext
    <2>2. ASSUME NEW r \in Requests, NEW next, CheckWrite(r, next)
          PROVE  [LimiterNext]_limiterVars
      BY <2>2, KeysAreWrites DEF CheckWrite, IsWrite, LimiterNext
    <2>3. ASSUME NEW r \in Requests, Handle(r)
          PROVE  [LimiterNext]_limiterVars
      <3>1. CASE OuterCheck(r)
        BY <3>1, <2>2 DEF OuterCheck
      <3>2. CASE InnerCheck(r)
        BY <3>2, <2>2 DEF InnerCheck
      <3>3. CASE ~OuterCheck(r) /\ ~InnerCheck(r)
        BY <2>3, <3>3
           DEF Handle, Receive, Malformed, Disallowed, Block, Allowed, CountRefusal,
               Unsupported, Forward, AskBlockNumber, GotBlockNumber, BadParams, Submit,
               PassThrough, UpstreamAnswers, UpstreamFails, FailFast, Drop
      <3>4. QED
        BY <3>1, <3>2, <3>3
    <2>4. CASE UNCHANGED vars
      BY <2>4 DEF vars
    <2>5. QED
      BY <1>2, <2>1, <2>3, <2>4 DEF HandlersNext
  <1>3. HandlersSpec => LimiterSpec
    BY <1>1, <1>2, PTL DEF HandlersSpec, LimiterSpec
  <1>4. QED
    BY <1>3, LimiterRefinesFixedWindow
=============================================================================
