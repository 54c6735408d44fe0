----------------------------- MODULE WalletProxy -----------------------------
(***************************************************************************)
(* What a run of the wallet-side proxy does, in torpc-proxy-core's         *)
(* proxy.rs: the discovery server and its token, the listener, the         *)
(* connections of wallets and the requests on them that go through Tor to  *)
(* the daemon.                                                             *)
(*                                                                         *)
(* The discovery server and every connection are detached tasks: they      *)
(* outlive the run that spawned them.  The controller around the run is    *)
(* taken from ProxyLifecycle, which module ProxyController implements.     *)
(*                                                                         *)
(* Time is discrete, as in GethProxy: what is due happens before the clock *)
(* moves on.                                                               *)
(***************************************************************************)
EXTENDS Naturals

CONSTANTS
  Configs,        \* values of ProxyConfig
  Tokens,         \* discovery tokens; a bound: one that no discovery task has is fresh
  Connections,    \* connections of wallets that may be open at once
  None,           \* no configuration, no token
  ProxyTimeout,   \* REQUEST_TIMEOUT of this proxy (45 s)
  DaemonTimeout   \* REQUEST_TIMEOUT of the daemon's middleware (30 s by default)

ASSUME WalletProxyAssumption ==
  /\ None \notin Configs \cup Tokens
  /\ ProxyTimeout \in Nat
  /\ DaemonTimeout \in Nat
  /\ DaemonTimeout <= ProxyTimeout

VARIABLES
  config, serving,  \* of ProxyLifecycle
  run,              \* where the run task is
  tokenFile,        \* torpc-discovery.token
  persisted,        \* history: the token in it is the one of the run in progress
  pending,          \* tokens of discovery tasks that have not tried to bind yet
  discovery,        \* token of the discovery task that holds the port
  ended,            \* history: a run of this process has ended
  stage,            \* where each connection is
  via,              \* the configuration it was accepted with
  age,              \* ticks since its current request arrived
  daemon,           \* what the daemon does about that request
  reach             \* its age when it reached the daemon that works on it

discoveryVars == <<tokenFile, persisted, pending, discovery, ended>>
connectionVars == <<stage, via, age, daemon, reach>>
proxyVars == <<config, serving, run, discoveryVars, connectionVars>>

Controller == INSTANCE ProxyLifecycle WITH Down <- None

RunStages == {"none", "spawned", "binding", "up"}
Exchanging == {"connecting", "reading", "awaiting", "collecting"}

ProxyTypeOK ==
  /\ config \in Configs
  /\ serving \in Configs \cup {None}
  /\ run \in RunStages
  /\ run = "none" <=> serving = None
  /\ {tokenFile, discovery} \subseteq Tokens \cup {None}
  /\ persisted \in BOOLEAN
  /\ pending \subseteq Tokens
  /\ ended \in BOOLEAN
  /\ stage \in [Connections -> {"closed", "idle"} \cup Exchanging]
  /\ via \in [Connections -> Configs \cup {None}]
  /\ age \in [Connections -> 0..ProxyTimeout]
  /\ daemon \in [Connections -> {"none", "working", "answered"}]
  /\ reach \in [Connections -> 0..ProxyTimeout]
  /\ \A c \in Connections : daemon[c] = "working" =>
       /\ stage[c] = "awaiting"
       /\ age[c] - reach[c] \in 0..DaemonTimeout

ProxyInit ==
  /\ Controller!Init
  /\ run = "none"
  /\ tokenFile = None /\ persisted = FALSE
  /\ pending = {} /\ discovery = None /\ ended = FALSE
  /\ stage = [c \in Connections |-> "closed"]
  /\ via = [c \in Connections |-> None]
  /\ age = [c \in Connections |-> 0]
  /\ daemon = [c \in Connections |-> "none"]
  /\ reach = [c \in Connections |-> 0]

-----------------------------------------------------------------------------
(* The run task. *)

Launch ==
  /\ Controller!Launch
  /\ run' = "spawned"
  /\ UNCHANGED <<discoveryVars, connectionVars>>

(* It ends where it waits: aborted by stop, or on an error of bind or accept. *)
EndRun ==
  /\ Controller!Quit
  /\ run' = "none"
  /\ persisted' = FALSE /\ ended' = TRUE
  /\ UNCHANGED <<tokenFile, pending, discovery, connectionVars>>

RunFails == run \in {"binding", "up"} /\ EndRun

StartDiscoveryWithTwo ==        \* mutant: the file gets a token of its own
  /\ run = "spawned"
  /\ \E fresh, other \in Tokens \ (pending \cup {discovery}) :
       /\ \/ tokenFile' = other /\ persisted' = TRUE
          \/ tokenFile' \in {tokenFile, None} /\ UNCHANGED persisted
       /\ pending' = pending \cup {fresh}
  /\ run' = "binding"
  /\ UNCHANGED <<config, serving, discovery, ended, connectionVars>>

(***************************************************************************)
(* start_discovery_server: a token for this run, which replaces the one in *)
(* the file -- the write may fail, before or after the file was emptied -- *)
(* and a detached task that will try to bind the discovery port.           *)
(***************************************************************************)
StartDiscovery ==
  /\ run = "spawned"
  /\ \E fresh \in Tokens \ (pending \cup {discovery}) :
       /\ \/ tokenFile' = fresh /\ persisted' = TRUE
          \/ tokenFile' \in {tokenFile, None} /\ UNCHANGED persisted
       /\ pending' = pending \cup {fresh}
  /\ run' = "binding"
  /\ UNCHANGED <<config, serving, discovery, ended, connectionVars>>

(* The port goes to the first; the others log the error and end. *)
DiscoveryBinds(token) ==
  /\ token \in pending
  /\ pending' = pending \ {token}
  /\ \/ discovery = None /\ discovery' = token
     \/ UNCHANGED discovery
  /\ UNCHANGED <<config, serving, run, tokenFile, persisted, ended, connectionVars>>

Listen ==
  /\ run = "binding"
  /\ run' = "up"
  /\ UNCHANGED <<config, serving, discoveryVars, connectionVars>>

-----------------------------------------------------------------------------
(* Connections and the requests on them. *)

Busy(c) == stage[c] \in Exchanging

MoveOn(c, from, to) ==
  /\ stage[c] = from
  /\ stage' = [stage EXCEPT ![c] = to]
  /\ UNCHANGED <<config, serving, run, discoveryVars>>

(* The request is over; its connection through Tor goes with it. *)
EndExchange(c, to) ==
  /\ stage' = [stage EXCEPT ![c] = to]
  /\ via' = [via EXCEPT ![c] = IF to = "closed" THEN None ELSE @]
  /\ age' = [age EXCEPT ![c] = 0]
  /\ daemon' = [daemon EXCEPT ![c] = "none"]
  /\ reach' = [reach EXCEPT ![c] = 0]
  /\ UNCHANGED <<config, serving, run, discoveryVars>>

Accept(c) ==
  /\ run = "up"
  /\ MoveOn(c, "closed", "idle")
  /\ via' = [via EXCEPT ![c] = serving]
  /\ UNCHANGED <<age, daemon, reach>>

HangUp(c) == stage[c] # "closed" /\ EndExchange(c, "closed")

(* The wallet sends a request: first the connection through Tor. *)
Request(c) ==
  /\ MoveOn(c, "idle", "connecting")
  /\ UNCHANGED <<via, age, daemon, reach>>

Connected(c) ==
  /\ MoveOn(c, "connecting", "reading")
  /\ UNCHANGED <<via, age, daemon, reach>>

(* The body is complete and goes out. *)
SendRequest(c) ==
  /\ MoveOn(c, "reading", "awaiting")
  /\ UNCHANGED <<via, age, daemon, reach>>

(* 502 without Tor or onion service, 413 for a body over the cap, and the  *)
(* daemon's answer or 502 when its body is over the cap.                   *)
Reply(c) ==
  /\ stage[c] \in {"connecting", "reading", "collecting"}
  /\ EndExchange(c, "idle")

(* The handshake or send_request fails: the error closes the connection. *)
Break(c) ==
  /\ stage[c] \in {"reading", "awaiting"}
  /\ EndExchange(c, "closed")

GiveUpConnecting(c) ==       \* mutant: the timeout is around the connect only
  /\ stage[c] = "connecting"
  /\ age[c] = ProxyTimeout
  /\ EndExchange(c, "idle")

(* 504 from this proxy, whatever do_proxy is waiting for. *)
GiveUp(c) ==
  /\ Busy(c)
  /\ age[c] = ProxyTimeout
  /\ EndExchange(c, "idle")

-----------------------------------------------------------------------------
(* The daemon, behind Tor: the timer of its middleware runs from the       *)
(* arrival, and it answers when the timer fires if not before.             *)

DaemonReceives(c) ==
  /\ stage[c] = "awaiting"
  /\ daemon[c] = "none"
  /\ daemon' = [daemon EXCEPT ![c] = "working"]
  /\ reach' = [reach EXCEPT ![c] = age[c]]
  /\ UNCHANGED <<config, serving, run, discoveryVars, stage, via, age>>

DaemonAnswers(c) ==
  /\ daemon[c] = "working"
  /\ daemon' = [daemon EXCEPT ![c] = "answered"]
  /\ reach' = [reach EXCEPT ![c] = 0]
  /\ UNCHANGED <<config, serving, run, discoveryVars, stage, via, age>>

(* The head of the answer has come back. *)
AnswerArrives(c) ==
  /\ daemon[c] = "answered"
  /\ MoveOn(c, "awaiting", "collecting")
  /\ UNCHANGED <<via, age, daemon, reach>>

DaemonNeverDue(c) == FALSE   \* mutant: a daemon without the timeout layer

DaemonDue(c) == daemon[c] = "working" /\ age[c] - reach[c] >= DaemonTimeout

Due(c) == DaemonDue(c) \/ (Busy(c) /\ age[c] = ProxyTimeout)

ProxyTick ==
  /\ \A c \in Connections : ~Due(c)
  /\ age' = [c \in Connections |-> IF Busy(c) THEN age[c] + 1 ELSE age[c]]
  /\ UNCHANGED <<config, serving, run, discoveryVars, stage, via, daemon, reach>>

-----------------------------------------------------------------------------
ConnectionStep(c) ==
  \/ Accept(c) \/ HangUp(c) \/ Request(c) \/ Connected(c) \/ SendRequest(c)
  \/ Reply(c) \/ Break(c) \/ GiveUp(c)
  \/ DaemonReceives(c) \/ DaemonAnswers(c) \/ AnswerArrives(c)

RunStep ==
  \/ RunFails \/ StartDiscovery \/ Listen
  \/ \E token \in Tokens : DiscoveryBinds(token)
=============================================================================
