# torpc: specifications, model checking and proofs

TLA+ models of the concurrent core of torpc, the TLC runs that check them on small
instances, and TLAPS proofs about them for every value of their constants. Paths below
are relative to the repository, which is `src/` here (`src/src/proxy.rs` is the daemon's
`proxy.rs`).

## The system

torpc lets a wallet talk to an Ethereum node through Tor. A **daemon** (`src/src`) runs next
to the node behind a Tor onion service: it checks JSON-RPC requests against an allow-list and
rate limits, forwards them to the node, and submits private transactions as bundles to an MEV
relay. A **wallet proxy** (`src/torpc-proxy`) runs on the user's machine, listens on localhost
and forwards every request over Tor's SOCKS port to the onion address; it exists as a command
line program and as a desktop application. Both are Tokio programs: everything below runs as
tasks on a multi-threaded runtime, and every `await` is a point where the task may be suspended
for any time or dropped for good.

| Component | State | Operations | Interacts with |
|---|---|---|---|
| Circuit breaker (`mev/retry.rs`, `mev/types.rs`) | one `CircuitState` under a mutex | `can_proceed`, `record_success`, `record_failure` | called by the node path and by the relay client |
| Node path (`proxy.rs`, `security.rs`, `app.rs`) | permits of the concurrency limit, one breaker | a POST request: timer, permit, checks, breaker, HTTP call, outcome | wallets, the node |
| Rate limiter (`rate_limit.rs`) | table identifier -> (count, window start) under a mutex | `check_rate_limit`, `cleanup` (a periodic task) | middleware on every route; the write limiter of the handlers |
| JSON-RPC handlers (`proxy.rs`, `mev/mev_handler.rs`) | three metric counters; whether there is a relay client | `handle_rpc`, `handle_flashbots`, `handle_flashbots_with_mev`, `proxy_to_flashbots` | limiter, node path, relay client |
| MEV relay client (`mev/client.rs`, `mev/auth.rs`) | one breaker; per submission: attempt and delay | `send_bundle` and its retry loop | handlers, relay |
| Wallet proxy controller (`torpc-proxy-core/src/lib.rs`) | `status`, `handle`, `config` behind their own locks | `start`, `stop`, `update_config`, the run task | GUI commands and tray items, through the mutex of `AppState` |
| Wallet proxy data path and discovery server (`torpc-proxy-core/src/proxy.rs`) | listeners, detached tasks, token file | accept, connect over SOCKS, forward with limits | wallet, Tor, daemon |
| GUI (`torpc-proxy-gui`) | configuration file, window and tray | commands, verify-then-start in the window | controller |
| Daemon process (`main.rs`, `app.rs`, `tor.rs`) | phase of `main`, two servers, broadcast channel | checks, listeners, signal, drain, exit | all of the daemon, service manager |
| Configuration (`app.rs`, `security.rs`, `config.rs`, CLI) | none | environment, TOML and arguments to values | all |
| Pages and scripts (`static`, `scripts`, `Makefile`, `deploy`) | none the daemon depends on | | |

### What is hard here, and what has to be right

* **Breaker.** Callers and outcomes of many requests interleave at one shared state that
  does not know which call an outcome belongs to. It must open only after the threshold of
  failures in a row, admit nobody while open, and not take an old outcome for the verdict on
  its probe. Outcomes may also never arrive, because the request was dropped.
* **Node path.** Three timers (middleware, node client, recovery time) are 30 s each by
  default and race at one instant. Every request must be answered although permits are
  limited and the node may hang, or the relay that a private transaction goes on to.
* **Rate limiter.** Lazy reset, cleanup and window boundary must together not hand out a
  budget early; two windows side by side bound what a burst can get through.
* **Daemon process.** A signal may come before a server task was first polled, while requests queue for a
  permit and while the node hangs. The broadcast has to reach both servers, the process has to end,
  and its end must not cut off a request it has accepted. Both servers wait for every connection in the middle of a
  request, and no timer covers the sending of a head or the reading of an answer.
* **Handlers.** Which checks a request has passed depends on its route and on whether the relay
  client could be built. Private transactions must not reach the public mempool, writes must
  be charged, and `/metrics` must agree with the answers.
* **Relay client.** Retries run outside the breaker's control and report once, late. The loop
  must end whatever the relay does, and the errors that are final must be.
* **Controller.** Three locks, two orders of taking them, an aborted task that may still write
  the status, and a configuration that may change between a read and a restart, or while the window
  spends up to 45 s verifying the one it wants to start.
* **Wallet proxy.** Connections and the discovery server are detached tasks that outlive the run
  that spawned them, while `stop` and `update_config` believe that run is over. Two request timeouts,
  the proxy's and the daemon's, are nested across Tor: each has to end its own side whatever the other does.
* **Desktop application.** An update changes the controller, then the file; the process may end
  anywhere in between, and the file may be left empty.

Every hazard, with its line and the properties that watch it, is in `PROJECT.json`.

## Modules

| Module | Models | Extends / uses |
|---|---|---|
| `CircuitBreaker` | the breaker's state and three operations | |
| `BreakerContract` | abstract: the transition table documented at `CircuitState` | |
| `GethProxy` | POST requests from router to node and relay, one cap per route | `CircuitBreaker`, implements `BreakerContract` |
| `Daemon` | the process around them: start-up, two servers and their clients, shutdown, kill | `GethProxy` |
| `TimedDaemon` | a stopwatch on its drain | `Daemon` |
| `MevClient` | bundle submissions with retries | `CircuitBreaker`, implements `BreakerContract` |
| `TimedSubmissions` | a stopwatch on any one of them | `MevClient` |
| `RateLimiter` | the table, `check_rate_limit`, `cleanup` | implements `FixedWindow` |
| `ObservedLimiter` | an observer who counts what it lets through | `RateLimiter`, `Settings` |
| `Settings` | numbers of the environment and their cast to `u32` | |
| `FixedWindow` | abstract: an ideal window per identifier, no table | |
| `RpcHandlers` | the two JSON-RPC routes, write limiter, metrics | `RateLimiter` |
| `ProxyController` | `start`, `stop`, `update_config`, run task, GUI mutex, the window's Start | implements `ProxyLifecycle` |
| `ProxyLifecycle` | abstract: down, or up with one configuration | |
| `WalletProxy` | a run of the wallet proxy: discovery server and token file, listener, connections, requests through Tor | `ProxyLifecycle` for the controller |
| `WalletApp` | the desktop application: commands, configuration file, relaunch | `WalletProxy` |
| `MC*` | instances for TLC, symmetry, the texts of a limit | |
| `GethProxyProofs`, `DaemonProofs`, `MevClientProofs`, `RateLimiterProofs`, `RpcHandlersProofs`, `ProxyControllerProofs`, `WalletAppProofs` | theorems | the module they are named after, with its observer |
| `CircuitBreakerProofs` | lemmas on the breaker's operations, for the proofs of its two users | `CircuitBreaker` |

Five compositions: the breaker inside the node path and inside the relay client, the node path inside the
daemon process, the limiter inside the handlers, the settings in front of the limiter, and the controller
around the wallet proxy. The last goes through the abstract `ProxyLifecycle`:
`ProxyController` shows that the controller with all its locks implements it, and `WalletProxy` takes its
`Launch`, `Quit` and `Configure` from there instead of repeating the locks.

Definitions marked `mutant` are deliberate errors. Nothing in the specifications uses them; each is
what a plausible bug would make of the definition that follows it, and each property is known
to fail with one of them in its place.

### How state and steps correspond to the code

**Time.** The code uses monotonic instants only through `elapsed()` and timers. The models keep
ages, in ticks, that saturate where the code stops distinguishing them: no bound on time is
needed. A due timer fires before the clock moves on (in the code: soon after), and what is due
at the same instant happens in any order, answers included.

**Breaker.** Each operation runs under one mutex from start to end, hence is one step:
`CanProceed`/`FlipIfRecovered`, `RecordSuccess`, `RecordFailure`. `circuit` is the variant,
`failures` and `sinceOpened` are the payloads.

**Node path.** `stage[r]` goes `idle -> queued` (timer started by the timeout middleware)
`-> handling` (permit acquired) `-> sent` (breaker asked, call out) and back. `age` and `wait`
are the two timers. `Reject`, `FailFast`, `Succeed`, `Fail`, `ClientError`, `ClientTimesOut` are
the ways `proxy_to_geth` ends; `RequestTimesOut` and `Disconnect` drop the future, so that no
outcome is reported. `relaying` is the rest of a private transaction or bundle, with its permit and its timer: a bundle goes
there from `handling` (`SubmitBundle`), a raw transaction when the node has told the block number (`BlockKnown`), which is the
end of its call for the breaker but not of the request; `RelayReturns` is whatever `MevClient` makes of it. How often the relay
is tried is not visible here. A call counts as `sent` from its admission on: another thread may open the circuit
before the first byte leaves, and the call is then one of those in flight across the trip.
A rejection may come at any time in `handling`; the handlers have their own module. `stale`
and `misses` are history variables. `Route` says where each request is sent: axum's `Router::layer` wraps each route, and
tower's `ConcurrencyLimitLayer` gives each service it wraps a semaphore of its own, so `PermitsHeld` counts per
route. There are four, since the two paths are registered with and without a slash at the end.

**Daemon process.** `phase` is where `main` is. A check of the start-up that fails is `Exit("error")`. `server` is
a task of `axum::serve`: `spawned` until it is first polled, which is when `Subscribers` matters: the
receivers are made before the spawn, so a message sent earlier is not lost. `told` are the servers whose
receiver has the message; `Notices`, `Drained` are the server's own steps, and the same for both servers, which are
served with the same graceful shutdown. A draining server accepts nobody and ends when none of its clients is in the middle of a
request (`InUse`). `reading` are clients whose head has begun to arrive, before the timeout middleware has started; `writing` are
those whose answer is not written out, after it has ended. Between them the requests of the public server are those of
`GethProxy`, and those of the admin server, whose handlers never wait, one step (`AdminAnswers`). Only clients in `Slow` send or
read in pieces: one not in it sends its head at once and the connection takes its answer at once. A client may leave at any of
these points (`HeadAbandoned`, `Disconnect`, `AnswerEnds`). `Killed` is the service
manager's SIGKILL, possible at any moment. In `TimedDaemon`
each step is one of `Daemon` and `drain` counts the ticks that the public server has waited for handlers, no head
being left to wait for.

**Limiter.** `count[k] = 0` is an absent entry, `windowAge` is `now - window_start`. The first
request of a window is counted without a comparison, hence `Budget`. `ObservedLimiter` adds nothing to the
limiter's steps: its observer may begin anew at any moment and goes on for `Observed` windows, with `seen` per
identifier, `whole` windows behind it and `since` ticks in the present one.

**Handlers.** A step runs from one suspension point, or lock, to the next. `mev` is chosen at
start-up. Stage `outer` is the check of `handle_flashbots_with_mev`, `validate`, `blocking` and
`inner` are `handle_rpc`/`handle_flashbots`, `refused` lies between the limiter's lock and the
counter, `dispatch`, `block`, `submit` are the relay path, `upstream` waits. `charged` and `sent`
are history variables. Five methods of the allow-list behave alike; one stands for them.

**Relay client.** `stage` is `sending` or `sleeping`; an error is its kind and whether its text
has one of the words `should_retry` looks for, because that, not the kind, decides. A cancelled
submission gives no verdict. `WithinRecovery` says that a submission is shorter than the recovery time; the defaults
(15.4 s against 30 s) and the instance satisfy it, the configuration does not enforce it. In `TimedSubmissions` each step is one of `MevClient` and `lasted` counts the ticks since
`Watched` was admitted, one more than is allowed being the most it tells apart.

**Controller.** `pc` is where a caller is, split where the code takes or releases a lock or waits for
the task. `outer` is the `AppState` mutex, `statusLock` and `handleLock` the write locks that
are held across an `await`; locks taken and released with no suspension between are part of one step.
Run tasks have identities, reused after they ended; one more than can be alive is enough to see
a second one. `Dropped` is the runtime completing an abort: until then an aborted task may go on.

The window's Start (`startProxy` in `app.js`) is `ReadConfig`, then `VerifyFails` or `Verified` after a probe without
the mutex, then `start_proxy` under it, which asks for the endpoint once more (`FirstStep`). The tray starts without
either. `changed` and `overlooked` are history variables: Starts an update has overtaken, and tasks that were
Starting when `update_config` looked.

**Settings.** A text is a number, absent, or something that does not parse. The number of values of a
`u64` and a `u32` are parameters: in the run they are eight and four, so that texts beyond either are met.

**Wallet proxy.** `run` is where the run task is: `spawned`, `binding` (the discovery task exists, the
listener does not) and `up`; `EndRun` is `stop`'s abort and the task's own errors. `pending` and
`discovery` are the discovery tasks before and after they hold the port, each known by its token: nothing
in the code ever ends the one that holds it. `tokenFile` is the file, `persisted` and `ended` are history variables.
A connection's `stage` follows `handle_connection`, `proxy_request` and `do_proxy`: `connecting` over
SOCKS, `reading` the wallet's body, `awaiting` the head of the answer, `collecting` its body. `via` is the
configuration it was accepted with. `age` is the proxy's timeout, which is around the whole of
`do_proxy`; `daemon` and `reach` are the other side, `reach` being the age at which the request arrived
there.

**Desktop application.** `UpdateConfig`, `StopForUpdate`, `Store`, `StartAfterUpdate`, `OpenFile` and
`WriteFile` are the command `update_config` in order; a run may end by itself between any two. `OpenFile`
and `WriteFile` are the two halves of `fs::write`: `Torn` stands for a file that is missing, empty or does
not parse, which `load_config` all answers with the defaults. `Relaunch` is the end of the process at any
moment and the next start. The window only calls commands; a user may call them in any order.

## Runs

Every run takes less than three minutes.

| Run | Instance | Shows |
|---|---|---|
| `geth_proxy` | the daemon with 3 requests on 2 routes, 1 permit each, threshold 2, all timeouts 2 ticks (1 tick = 15 s), 1 admin client, 2 slow clients, one for each server | contract of the breaker, no late verdict, no early trip, nobody admitted while open, every request answered; only clients keep a shutdown from completing, its last answer is ready in time, and a return cuts nobody off |
| `rate_limiter` | 2 identifiers, budget 2, window 3, observations of up to 2 windows, every text of 4 bits | ideal fixed window; at most n + 1 budgets in any interval of n windows, and no more than was written |
| `rpc_handlers` | 3 requests, every method, route, form and configuration, budget 2 | charging, privacy, allow-list of the standard handlers, metrics; with a relay client nobody is refused early |
| `mev_client` | 3 submissions, 3 attempts, threshold 2, recovery 6 | contract of the breaker, verdicts fresh with these proportions, submissions (not attempts) trip, every submission ends, after 5 ticks at most |
| `proxy_controller` | 2 callers, 3 configurations of which one without endpoint, 2 task identities | honest status that settles, no lost task, lifecycle, no deadlock and no lock disputed inside the mutex; the one way to an outdated run, and the one to an unverified run of the window |
| `wallet_app` | 1 connection, 2 configurations, 2 tokens, 3 ticks here against 2 in the daemon (1 tick = 15 s) | the file agrees with the configuration in force, the token of a first run is accepted, every request ends |

**Why the bounds are enough.** A breaker needs one request whose failure trips it, one in flight
across the trip and one admitted afterwards: three, and a threshold of two so that a count between zero
and the threshold exists and a success can fall in between. One permit and two requests of a route make one of
them queue, while the third has the permit of its own route, where a relay is, and a client that sends and reads in
pieces (a fast client is a slow one that skips those states, so making the others slow too only multiplies them). One admin
client is enough, as they share nothing but the server; `geth_one_probe` has two permits for one route.
The equal timeouts are the default configuration and its worst instant. A limiter's identifiers
do not interact; the second shows that they do not. A window of three ticks has an inside, an
end and a cleanup cutoff that is further away. Three writes exceed a budget of two. Two callers
are all a lock can be disputed between, and the controller's deadlocks need two. One configuration to verify, one
to be overtaken by and one without endpoint are three.
Connections of the wallet proxy share nothing, so one shows what any of them does; two configurations
are the default, to which a torn file falls back, and another; two tokens are the one that holds the discovery port
and a fresh one.
The callers of `GethProxy`, `MevClient` and `ProxyController` act any number of times; the requests
of `RpcHandlers` are served once, which bounds the counters.

**Fairness.** `GethProxy`: the clock advances and its timers fire (weak fairness of `Tick`,
`RequestTimesOut`, `ClientTimesOut`): Tokio's timer wheel. Nothing is assumed of the node, of
wallets, or of the order in which permits are handed out. `Daemon`: the same for its clock and timers, and what is
ready among `main` and the server tasks is polled (`Progress`); nobody has to send a signal, no client has to finish
a request head or to read an answer, hence the exception in `ShutdownCompletes`. `MevClient`: the same for the attempt's
timeout and for the end of a sleep. `ProxyController`: what is ready is polled; the task completes its
abort; strong fairness for the steps that wait for the mutex (`Enter`, `ReadConfig`) and for those of the task that wait
for the status lock (`Settle`), because Tokio's mutex and lock serve their waiters in order and calls may come
again and again; a bind succeeds or fails. No call has to be
made, no proxy has to fail. `WalletApp`: the clock, the proxy's timeout and the daemon's timeout; nothing is
assumed of Tor, of the wallet or of the user. `RateLimiter` and `RpcHandlers` have safety properties only.

**Deadlock** is checked in every run.

### Where the code and its documentation disagree

Six runs end in a counterexample. Each checks one sentence of the repository:

| Run | The sentence | What happens |
|---|---|---|
| `geth_one_probe` | `retry.rs:187-189`: "exactly one probe request" | every request is admitted in the half-open circuit until the first outcome |
| `geth_silent_node` | `proxy.rs:49-52`: "fast-fails after 5 consecutive failures" | with a hanging node the middleware's 30 s end the handler before the client's 30 s are reported: the circuit stays closed. (With `REQUEST_TIMEOUT` longer than 30 s the failures are counted: `LongerRequestTimeoutTrips`.) |
| `write_budget` | `security_integration_tests.rs:9`: "after the configured budget" | without relay client a flashbots write is charged twice, so half the budget gets in (with one the sentence is kept: `WholeBudgetWithRelay`) |
| `allow_list` | `README.md:228-230`: "a strict allow-list of JSON-RPC methods" | with a relay client, methods that are not writes are forwarded unchecked on `/rpc/flashbots` |
| `discovery_token` | `torpc-proxy-core/src/proxy.rs:139-143`: a per-launch token, persisted "so trusted local clients (the GUI) can read it" | the first run's discovery server keeps the port and its own token; a later run replaces the token in the file, which that server refuses (it takes a second run: `FirstTokenIsAccepted`) |
| `validation_retry` | `retry.rs:91-92`: validation errors are not retryable | the texts for HTTP 400 start with a capital `Invalid`; `should_retry` looks for `invalid` |

Three more disagreements are in the models but have no run of their own:

* `README.md:212` ("Router-wide in-flight cap") and `.env.example:72` ("across the entire router"): the cap is per
  route, see `Routes` in `GethProxy`.
* `app.js:304-306` says that the listener only comes up if the probe passes. Between the probe and `start_proxy` an
  update may store another configuration, which is then started unverified: `changed` in `WindowStartsVerified`.
  The probe itself posts to `/` (`torpc-proxy-gui/src/main.rs:217`), for which the daemon has only a GET route
  (`app.rs:301`), so against a daemon of this repository it ends in a 405 and Start never gets past it. The model lets
  a probe succeed or fail, as it would against another server.
* A limit above 2^32 - 1 is cut to its low bits without a word (`app.rs:128`). `NoLooserThanWritten` shows that
  the result is never more permissive than the text, one request for each window aside.

## Proofs

All theorems are for every set of requests or identifiers and every value of the numbers, under
the named assumptions of the modules and the hypotheses a theorem states itself. They say nothing of `MC*` instances.

**Node path** (`GethProxyProofs`). Assumptions: the numbers are naturals, and one of the two timeouts
does not exceed the recovery time (`TimeoutAssumption`; the node client's 30 s are constant and equal to it).
`TypeCorrect`, `StaleOutcomesAreDue`, `OpenCircuitAdmitsNobody`, `TripsOnlyAtThreshold`,
`RefinesContract`. The property about late outcomes is not inductive; the invariant `IInv` adds that
a call's timer is not ahead of its request's (`Timers`), that only calls in flight are marked old (`StaleIsSent`),
that an old call has waited at least as long as the circuit has been open, and that in a half-open circuit
it has waited the whole recovery time (`StaleAge`), and that the
breaker's count never exceeds the misses counted from outside (`CountBelowMisses`). When the
circuit turns half-open an old call has waited a whole recovery time, so one of its timers is
due, and the clock cannot pass it.

**Daemon process** (`DaemonProofs`). The same five properties over `DaemonSpec` (`DaemonTypeCorrect`,
`DaemonStaleOutcomesAreDue`, `DaemonAdmitsNobodyWhenOpen`, `DaemonTripsOnlyAtThreshold`, `DaemonRefinesContract`): by `DaemonSteps`
a step of the process is a step of `GethProxy`, invisible to it, or ends it with all requests, and `IInv` survives
each. `ReturnsIdle`: the invariant adds that a server has clients in the middle of a request only while it serves or drains
(`OnlyServed`), and that neither server does so during the start-up (`NotYetServing`). A failed check or the end of both servers
therefore finds nobody sending a head, in a handler, at the relay or reading an answer (`Busy`).

`DrainEndsInTime` is about `TimedSpec`: while the stopwatch runs, whoever is in flight, at the relay included, has been so for at least as long
(`DrainInv`), because no handler begins without a head (`DrainBeginsNothing`) and only a tick or its end changes a
request's age (`AgesOnlyByTicks`). The timer starts before the queue for a permit; a timer behind it, which is the
mutant, breaks the bound. `ShutdownNeverStuck` is the part of `ShutdownCompletes` that needs no fairness: the invariant
follows the servers through the start-up (`StartOrder`) and says that the message and only the message stops them
(`OnlyTheSignalTells`), so in `join!` a server can move, both are done, or one of them, public or admin, has clients to wait for.

**Permits** (`GethProxyProofs`, `DaemonProofs`). `CallsAreLimited`, `DaemonCallsAreLimited`: the requests that hold a permit
of a route are finitely many and at most `Permits`, however many requests there are, because only `Acquire` adds one
(`PermitsStep`); the calls to the node are among the holders of four routes. This is what is right about the sentence on
half-open circuits that `geth_one_probe` refutes: there is no more than one probe for each permit.

**A silent node** (`GethProxyProofs`). `LongerRequestTimeoutTrips` is what is right about the sentence that `geth_silent_node`
refutes. Its hypothesis is `ClientTimeout < RequestTimeout`, which an operator can set and the default does not. The invariant
is that the breaker's count equals the misses seen from outside while the circuit is closed (`CountsAgree`); the one
step that could part them, the middleware dropping a call the node has sat on since the request came (`NobodyKeptWaiting`),
needs a call older than its own timeout.

**Limiter** (`RateLimiterProofs`). `LimiterTypeCorrect` and `LimiterRefinesFixedWindow`: table, lazy
reset and cleanup implement the ideal limiter. The mapping forgets entries whose window is over,
so that the cleanup is a stutter: the entries it removes are invisible already.

`ObservedTypeCorrect`, `LongRunRate` and `WrittenLimitKept` are about `ObservedSpec`, for any window and any length of the
observation. `OneBudgetPerWindow` is not inductive, because it does not say whose window the present budget belongs to.
The invariant `Paced` does: when the limiter's window opened inside the observer's present one, what is in it comes on
top of a budget for each window behind and one for the window the observation began in; when it opened
earlier it takes the place of one of those. A window that runs past the observer's boundary moves from the first case
to the second, at the moment when there is one more window behind. `WrittenLimitKept` adds that the cast never
makes a number larger (`NeverMoreThanWritten`), for any widths.

**Handlers** (`RpcHandlersProofs`). `HandlersTypeCorrect`, `WritesCharged`, `PrivateTransactions`,
`StandardAllowList`, `MetricsCountAnswers`, the first four from one invariant that follows a request: at each stage how often it has been
charged and which checks lie behind it, and once something was sent, by which of the three paths.
The other requests are out of the picture by `UntouchedSound`; the type part reuses the
limiter's lemmas. `MetricsCountAnswers` counts finite sets: an answer adds one element to the set of those that were told
the same (`OneMore`) and leaves the others alone (`SameCount`), which needs that only a request that is done has been
told anything; the number of requests is finite by `HandlersAssumption`. `BudgetKeptWithRelay` is what is right about the
sentence that `write_budget` refutes: with a relay client no request meets the limiter twice, so the count of a method is at
most the number of writes it let in (`CountBelowLetIn`), and a refusal found the whole budget among them, the refused
one, never charged, not included (`RefusedInFull`). `SharedLimiterIsIdeal` is the composition: every step of the
handlers is a check of the limiter or leaves it alone, so what the limiter implements it implements here.

**Relay client** (`MevClientProofs`). `MevTypeCorrect`, `OnlyLongVerdictsAreOld`, `VerdictsAreFresh`, `OpenCircuitStartsNothing`,
`SubmissionsTripOnly`, `MevRefinesContract`. The only assumption is that the numbers are naturals. No
variable says how long a submission has been going on, so the invariant `MInv` bounds it by `Spent`: full
rounds of one attempt and one sleep for the attempts behind it, plus the time in the present one. A
submission from before the circuit opened has spent at least as long as the circuit has been open, and a recovery time once it
is half-open (`StaleSpent`): that is `OnlyLongVerdictsAreOld`, for every setting of the timeouts. No submission spends more than
`LongestSubmission` (which needs that only one with an attempt left sleeps, `SleepingHasTriesLeft`), so under `WithinRecovery`,
the hypothesis of `VerdictsAreFresh`, none is left when the circuit turns half-open. With a `FLASHBOTS_REQUEST_TIMEOUT`
of 10 s or more the hypothesis fails; what then still keeps old verdicts away is the middleware, which drops the handler with
its submission, as long as `REQUEST_TIMEOUT` (not part of `MevClient`, where a submission may be cancelled or not) is below 30 s, and
at 30 s but for a tie at that instant.
`TimedTypeCorrect` and `SubmissionOverInTime` are about `TimedSpec`, for any submission with the stopwatch: it never shows
more than `Spent` (`Accounted`), which a tick raises by one and no step of the submission's own lowers, an early error
or a short sleep included. This is the part of `EverySubmissionEnds` that needs no fairness: time cannot pass a
submission that should be over.

**Controller** (`ProxyControllerProofs`). `ControllerTypeCorrect`, `StatusHonest`, `LiveTaskHeld`, `NoCircleOfWaiting`, `StaleRunsWereStarting`,
`WindowStartsWhatItVerified`, `ControllerRefinesLifecycle`, for any callers, tasks and configurations;
`ControllerAssumption` only says that `None` is none of them. The type has a part, `LockPoints`, that ties each lock to the
places of its holder. The invariant `LifeInv` then says what handle and status mean, depending on who holds the lock of
handle: nobody (`HandleFree`: a live task is the held one, the status fits its stage, and no abort is pending), a start
(`Spawning`: nobody lives), a stop (`Joining`: whoever lives is the victim). Outside a call nobody holds that lock, which gives
the first three theorems. `Current` adds that an update that reaches its store has stopped the run or found it
Starting, and that a Start whose configuration is not the current one any more was overtaken. For the refinement, at
most one task lives (`OneLives`), so `serving` is that task's configuration. `NoCircleOfWaiting` is the part of
`EveryCallReturns` that needs no fairness: by `LockPoints` a lock is held only by a caller at a certain place, and only
one caller is inside the mutex, so nobody asks for a lock that is taken; by `Doomed` a stop waits only for
tasks that were aborted. `NoDeadlock` puts this together with those outside the mutex, and needs an identity for a task
to start (`Tasks` not empty). `CallsTakeFewSteps`: the points of a call are numbered so that each of its steps goes down
(`StepsLeft`), so no call retries or loops. What `EveryCallReturns` adds is that the scheduler lets it take them.

**Wallet application** (`WalletAppProofs`). `AppTypeCorrect`, `FileAgrees`, `FirstTokenAccepted`, for any
configurations, tokens, connections and any timeouts of which the daemon's is not the longer
(`WalletProxyAssumption`). `SavedIsCurrent` speaks of the moments between commands; the invariant adds that
from `Store` on the configuration in force is the wanted one (`InForce`), whatever the run does. `FirstTokenAccepted`
needs that until a run has ended there is at most one discovery task, none before the run starts it (`FirstServer`).

**Only model-checked.** Liveness (`EveryRequestAnswered`, `ShutdownCompletes`, `EverySubmissionEnds`, `EveryCallReturns`,
`RunningSettles`, `EveryExchangeEnds`): the prover has no support for fairness. Every other property of the passing
runs, invariant, action property or refinement, is a theorem.

## What is not modelled

Tor, TLS, HTTP framing and JSON are outside. The public page and the static files share nothing with the requests but the
server's drain, on which their heads and answers have the effect of an admin client's. `auth.rs` is stateless cryptography; a failure to sign
is one of an attempt's errors. Headers, the wording of errors and the rendering of
`/health` and `/metrics` are pure functions of what is modelled. `FailureTracker` in `retry.rs` is unused.
Block heights are not modelled: the block number is an opaque answer. How long after its
admission a late attempt can come, and so how old its target block, is `OverInTime`; a bundle submitted again after its
reply was lost is a known hazard without a property, as what the relay makes of it is outside the repository. Of the configuration only the numbers of the
environment are modelled; addresses, flags and TOML are pure parsing. The command line has one task and no state
beyond it. The pages, scripts and deployment files have no concurrent state; of the
systemd template only `TimeoutStopSec` matters, as the `Killed` of `Daemon`: its 15 s are less than the 30 s that
`DrainInTime` allows a drain with the defaults, and a run reaches that bound.

## Plan

Done, in this order: the breaker and its two users, the limiter, the handlers, the controller, the wallet proxy and the
desktop application, the daemon process, the window's Start, the settings; with the abstract specifications
`BreakerContract`, `FixedWindow` and `ProxyLifecycle`, and theorems about every one of them.

Left, should the code grow that way: a composition of `RpcHandlers` and `MevClient` with a head that
advances, to ask whether the target block of an attempt is in the future; submissions as the relay sees them, with
duplicates, once the repository says what it expects of them; reloading of settings, which the code reads once.
