------------------------------- MODULE Daemon -------------------------------
(***************************************************************************)
(* The life of the daemon process around the requests of GethProxy: the    *)
(* start-up of main.rs with its checks and its two listeners, the public   *)
(* and the admin server, and a shutdown that waits for both.               *)
(*                                                                         *)
(* The servers are axum's (external), both with the same graceful shutdown.*)
(* A server that has been told to stop notices at some later moment: it    *)
(* accepts no connection any more, closes those without a request and each *)
(* other one once its answer is written, and ends when none is left.       *)
(* Nothing limits how long a client takes over the head of a request, or   *)
(* to read an answer that the connection cannot hold: on both servers the  *)
(* drain waits for it.  The handlers of the admin server wait for nothing. *)
(***************************************************************************)
EXTENDS GethProxy

CONSTANTS
  AdminClients, \* connections to the admin server, one request each at a time
  Slow          \* clients whose heads arrive, and whose answers leave, in pieces

ASSUME AdminAssumption == AdminClients \cap Requests = {}

VARIABLES
  phase,   \* where main is
  server,  \* where each server task is
  told,    \* servers whose receiver has got the shutdown message
  reading, \* clients, the head of whose request has begun to arrive
  writing, \* clients whose answer is not written out yet
  exit     \* how the process ended

processVars == <<phase, server, told, exit>>
links == <<reading, writing>>
daemonVars == <<vars, processVars, links>>

Servers == {"public", "admin"}
ClientsOf(s) == IF s = "public" THEN Requests ELSE AdminClients
Clients == Requests \cup AdminClients
StartUp == {"build", "tor", "hostname", "addresses", "bind_public", "bind_admin"}
Phases == StartUp \cup {"spawn_public", "spawn_admin", "waiting", "joining",
                        "exited"}

DaemonTypeOK ==
  /\ GethTypeOK
  /\ phase \in Phases
  /\ server \in [Servers ->
       {"none", "bound", "spawned", "serving", "draining", "ended"}]
  /\ told \subseteq Servers
  /\ reading \cup writing \subseteq Clients
  /\ reading \cap writing = {}
  /\ \A r \in Requests : Active(r) => r \notin reading \cup writing
  /\ exit \in {"none", "ok", "error", "killed"}
  /\ exit # "none" <=> phase = "exited"

DaemonInit ==
  /\ GethInit
  /\ phase = "build"
  /\ server = [s \in Servers |-> "none"]
  /\ told = {}
  /\ reading = {}
  /\ writing = {}
  /\ exit = "none"

-----------------------------------------------------------------------------
Alive == phase # "exited"
From(p, q) == phase = p /\ phase' = q
Turn(s, from, to) == server[s] = from /\ server' = [server EXCEPT ![s] = to]

(* Clients in the middle of a request: the server has something to wait for. *)
Handled == {r \in Requests : Active(r)}
Busy == reading \cup writing \cup Handled
InUse(s) == Busy \cap ClientsOf(s) # {}

(* The process is gone, and with it whatever it was serving. *)
Exit(how) ==
  /\ phase' = "exited"
  /\ exit' = how
  /\ stage' = [r \in Requests |-> "idle"]
  /\ age' = [r \in Requests |-> 0]
  /\ wait' = [r \in Requests |-> 0]
  /\ stale' = [r \in Requests |-> FALSE]
  /\ reading' = {}
  /\ writing' = {}
  /\ UNCHANGED <<breakerVars, misses, server, told>>

-----------------------------------------------------------------------------
(* Start-up: every check that fails ends main with an error. *)
Proceed(p, q) == From(p, q) /\ UNCHANGED <<vars, server, told, links, exit>>
Check(p, q, passes) ==
  \/ passes /\ Proceed(p, q)
  \/ ~passes /\ phase = p /\ Exit("error")

(* build_app; from_env before it has a default for whatever does not parse. *)
BuildApp == \E built \in BOOLEAN : Check("build", "tor", built)

Keys == {"HiddenServiceSingleHopMode", "HiddenServiceNonAnonymousMode", "HiddenServicePort"}
Torrcs == SUBSET [key : Keys, value : {"0", "1"}]
Anonymous(torrc) ==
  \A line \in torrc :
    line.key \in {"HiddenServiceSingleHopMode", "HiddenServiceNonAnonymousMode"} =>
      line.value # "1"

(* check_configuration; a missing torrc skips the checks. *)
CheckTor ==
  phase = "tor" /\ \E torrc \in Torrcs, missing, readable, allowed, tightened \in BOOLEAN :
    Check("tor", "hostname",
          missing \/ (readable /\ (allowed \/ Anonymous(torrc)) /\ tightened))

(* get_hostname: no answer of it keeps the daemon from starting. *)
ReadHostname == Proceed("hostname", "addresses")

CheckAddresses ==
  \E public, admin \in {"loopback", "other", "invalid"} :
    Check("addresses", "bind_public", public # "invalid" /\ admin = "loopback")

BindCarriesOn(s, p, q) ==   \* mutant: the error is kept and main goes on
  \/ From(p, q) /\ Turn(s, "none", "bound") /\ UNCHANGED <<vars, told, links, exit>>
  \/ From(p, q) /\ exit' = "error" /\ UNCHANGED <<vars, server, told, links>>

Bind(s, p, q) ==
  \/ From(p, q) /\ Turn(s, "none", "bound") /\ UNCHANGED <<vars, told, links, exit>>
  \/ phase = p /\ Exit("error")

BindPublic == Bind("public", "bind_public", "bind_admin")
BindAdmin == Bind("admin", "bind_admin", "spawn_public")

Spawn(s, p, q) ==
  /\ From(p, q)
  /\ Turn(s, "bound", "spawned")
  /\ UNCHANGED <<vars, told, links, exit>>

SpawnPublic == Spawn("public", "spawn_public", "spawn_admin")

(* Then main waits: a signal no longer ends the process by itself. *)
SpawnAdmin == Spawn("admin", "spawn_admin", "waiting")

Main ==
  \/ BuildApp \/ CheckTor \/ ReadHostname \/ CheckAddresses \/ BindPublic
  \/ BindAdmin \/ SpawnPublic \/ SpawnAdmin

-----------------------------------------------------------------------------
(* Shutdown *)

SubscribersPolled ==        \* mutant: a server subscribes when it is first polled
  {s \in Servers : server[s] \notin {"none", "bound", "spawned"}}

(* main subscribes for a server before it spawns it. *)
Subscribers == {s \in Servers : server[s] \notin {"none", "bound"}}

(* SIGINT or SIGTERM: one broadcast to the receivers there are. *)
Signal ==
  /\ From("waiting", "joining")
  /\ told' = Subscribers
  /\ UNCHANGED <<vars, server, links, exit>>

Finished(s) == server[s] = "ended"

JoinEither ==               \* mutant: select! in the place of join!
  /\ phase = "joining"
  /\ \E s \in Servers : Finished(s)
  /\ Exit("ok")

(* join! waits for both servers; axum's serve has no error to return. *)
Join ==
  /\ phase = "joining"
  /\ \A s \in Servers : Finished(s)
  /\ Exit("ok")

(* SIGKILL, a crash, or a signal before main waits for one. *)
Killed == Alive /\ Exit("killed")

-----------------------------------------------------------------------------
(* The servers and their clients *)
Polled(s) == Turn(s, "spawned", "serving")
Notices(s) == s \in told /\ Turn(s, "serving", "draining")
Drained(s) == ~InUse(s) /\ Turn(s, "draining", "ended")

ServerStep(s) ==
  /\ Alive
  /\ Polled(s) \/ Notices(s) \/ Drained(s)
  /\ UNCHANGED <<vars, phase, told, links, exit>>

Accepts(c) ==
  /\ Alive
  /\ \E s \in Servers : server[s] = "serving" /\ c \in ClientsOf(s)
  /\ c \notin Busy

(* The head of a request begins to arrive, on a connection old or new. *)
HeadBegins(c) ==
  /\ c \in Slow
  /\ Accepts(c)
  /\ reading' = reading \cup {c}
  /\ UNCHANGED <<vars, processVars, writing>>

(* It is complete: after a while, or all of it came at once. *)
HeadEnds(c) ==
  \/ c \in reading /\ reading' = reading \ {c}
  \/ c \notin Slow /\ Accepts(c) /\ UNCHANGED reading

(* The connection takes the whole answer at once, unless the client is slow. *)
AnswerBegins(c) == writing' = writing \cup ({c} \cap Slow)

(* The client leaves before the head is complete. *)
HeadAbandoned(c) ==
  /\ c \in reading
  /\ reading' = reading \ {c}
  /\ UNCHANGED <<vars, processVars, writing>>

(* health_check and security_metrics: no await, and no layer with a timer. *)
AdminAnswers(c) ==
  /\ c \in AdminClients
  /\ HeadEnds(c)
  /\ AnswerBegins(c)
  /\ UNCHANGED <<vars, processVars>>

(* The last byte of the answer is handed to the connection, or it is gone. *)
AnswerEnds(c) ==
  /\ c \in writing
  /\ writing' = writing \ {c}
  /\ UNCHANGED <<vars, processVars, reading>>

Answered(r) ==
  \/ Reject(r) \/ FailFast(r) \/ Succeed(r) \/ Fail(r) \/ ClientTimesOut(r)
  \/ ClientError(r) \/ RelayReturns(r) \/ RequestTimesOut(r)

Continues(r) == Acquire(r) \/ Send(r) \/ BlockKnown(r) \/ SubmitBundle(r)

RequestStep(r) ==
  /\ \/ Arrive(r) /\ HeadEnds(r) /\ UNCHANGED writing
     \/ (Continues(r) \/ Disconnect(r)) /\ UNCHANGED links
     \/ Answered(r) /\ AnswerBegins(r) /\ UNCHANGED reading
  /\ UNCHANGED processVars

DaemonTick == Alive /\ Tick /\ UNCHANGED <<processVars, links>>

Ended == ~Alive /\ UNCHANGED daemonVars

-----------------------------------------------------------------------------
(* What happens at one instant of the clock. *)
ProcessStep ==
  \/ Main \/ Signal \/ Join \/ Killed \/ Ended
  \/ \E s \in Servers : ServerStep(s)
  \/ \E c \in Clients : HeadBegins(c) \/ HeadAbandoned(c) \/ AdminAnswers(c) \/ AnswerEnds(c)
  \/ \E r \in Requests : RequestStep(r)

DaemonNext == DaemonTick \/ ProcessStep

DaemonSpec == DaemonInit /\ [][DaemonNext]_daemonVars

(***************************************************************************)
(* What is ready is polled: main and the server tasks; the clock advances  *)
(* and its timers fire.  Nothing is assumed of the node or of any client,  *)
(* and nobody has to send a signal.                                        *)
(***************************************************************************)
Progress == Main \/ Join \/ \E s \in Servers : ServerStep(s)

TimerFires ==
  \E r \in Requests :
    /\ RequestTimesOut(r) \/ ClientTimesOut(r)
    /\ AnswerBegins(r)
    /\ UNCHANGED <<processVars, reading>>

DaemonFairness ==
  WF_daemonVars(Progress) /\ WF_daemonVars(DaemonTick) /\ WF_daemonVars(TimerFires)

FairDaemonSpec == DaemonSpec /\ DaemonFairness

-----------------------------------------------------------------------------
(* Properties *)

(***************************************************************************)
(* When main ends the process by returning -- after a signal, or because a *)
(* step of the start-up failed -- nobody is cut off: no request is being   *)
(* handled, its submission to the relay included, and no client of either  *)
(* server is sending one or reading its answer (main.rs: both loops        *)
(* "complete their graceful shutdown").                                    *)
(***************************************************************************)
ReturnCutsNobodyOff ==
  [][Alive /\ exit' \in {"ok", "error"} => Busy = {}]_daemonVars

(***************************************************************************)
(* After a signal the daemon exits: whatever the node and the relay do,    *)
(* whoever waits for a permit and however the message and the servers'     *)
(* first steps interleave.  Only clients, of either server, can keep it    *)
(* from that: one that has begun a request head and neither finishes it    *)
(* nor leaves, or one that does not read its answer.  (main leaves the     *)
(* phase only to exit, so that to stay in it is not to exit.)              *)
(***************************************************************************)
ShutdownCompletes ==
  <>[](phase = "joining") => <>[](reading \cup writing # {})
=============================================================================
