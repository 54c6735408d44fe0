---------------------------- MODULE DaemonProofs ----------------------------
(***************************************************************************)
(* What GethProxyProofs shows of the requests holds in the whole daemon:   *)
(* each step of the process is a step of GethProxy, changes nothing it can *)
(* see, or ends the process and all its requests with it.  And whoever     *)
(* makes main return -- a failed check, a failed bind, the end of both     *)
(* servers -- finds no client of either in the middle of a request.        *)
(***************************************************************************)
EXTENDS TimedDaemon, GethProxyProofs

(***************************************************************************)
(* The strengthening: a client is in the middle of a request only while    *)
(* its server serves or drains, and neither server does so before the      *)
(* start-up is through.                                                    *)
(***************************************************************************)
OnlyServed == \A s \in Servers : InUse(s) => server[s] \in {"serving", "draining"}
NotYetServing == phase \in StartUp => \A s \in Servers : server[s] \in {"none", "bound"}

DaemonInv ==
  /\ DaemonTypeOK
  /\ IInv
  /\ OnlyServed
  /\ NotYetServing

-----------------------------------------------------------------------------
(* The process as GethProxy sees it *)

LEMMA ExitStep ==
  ASSUME IInv, NEW how, Exit(how)
  PROVE  IInv'
  <1>1. GethTypeOK'
    BY GethAssumption DEF IInv, GethTypeOK, BreakerTypeOK, breakerVars, Exit, Stages
  <1>2. Timers' /\ StaleIsSent' /\ StaleAge'
    BY DEF Timers, StaleIsSent, StaleAge, Sent, Exit
  <1>3. CountBelowMisses'
    BY DEF IInv, CountBelowMisses, Exit, breakerVars
  <1>4. QED
    BY <1>1, <1>2, <1>3 DEF IInv

LEMMA CheckStep ==
  ASSUME NEW p, NEW q, NEW passes, Check(p, q, passes)
  PROVE  \/ UNCHANGED vars /\ Proceed(p, q)
         \/ phase = p /\ Exit("error")
  BY DEF Check, Proceed

LEMMA BindStep ==
  ASSUME NEW s, NEW p, NEW q, Bind(s, p, q)
  PROVE  \/ UNCHANGED <<vars, told, links, exit>> /\ From(p, q) /\ Turn(s, "none", "bound")
         \/ phase = p /\ Exit("error")
  BY DEF Bind

(* Every step of the process: of the requests, of main, or its end. *)
LEMMA DaemonSteps ==
  ASSUME DaemonNext
  PROVE  \/ GethNext /\ UNCHANGED processVars
         \/ UNCHANGED vars /\ UNCHANGED processVars
         \/ UNCHANGED <<vars, links, exit>>
         \/ phase \in StartUp /\ Exit("error")
         \/ Join
         \/ Killed
  <1>1. CASE BuildApp \/ CheckTor \/ CheckAddresses
    BY <1>1, CheckStep DEF BuildApp, CheckTor, CheckAddresses, Proceed, StartUp
  <1>2. CASE BindPublic \/ BindAdmin
    BY <1>2, BindStep DEF BindPublic, BindAdmin, StartUp
  <1>3. CASE ReadHostname \/ SpawnPublic \/ SpawnAdmin
    BY <1>3 DEF ReadHostname, Proceed, SpawnPublic, SpawnAdmin, Spawn
  <1>4. CASE Signal \/ \E s \in Servers : ServerStep(s)
    BY <1>4 DEF Signal, ServerStep
  <1>5. CASE DaemonTick
    BY <1>5 DEF DaemonTick, GethNext
  <1>6. CASE Ended
    BY <1>6 DEF Ended, daemonVars
  <1>7. CASE \E c \in Clients : \/ HeadBegins(c) \/ HeadAbandoned(c)
                              \/ AdminAnswers(c) \/ AnswerEnds(c)
    BY <1>7 DEF HeadBegins, HeadAbandoned, AdminAnswers, AnswerEnds
  <1>8. CASE \E r \in Requests : RequestStep(r)
    BY <1>8 DEF RequestStep, Answered, Continues, GethNext, Step
  <1>9. QED
    BY <1>1, <1>2, <1>3, <1>4, <1>5, <1>6, <1>7, <1>8 DEF DaemonNext, ProcessStep, Main

LEMMA GethStepOrExit ==
  ASSUME [DaemonNext]_daemonVars
  PROVE  [GethNext]_vars \/ \E how \in {"ok", "error", "killed"} : Exit(how)
  BY DaemonSteps DEF daemonVars, Join, Killed

LEMMA DaemonKeepsIInv ==
  ASSUME IInv, [DaemonNext]_daemonVars
  PROVE  IInv'
  BY GethStepOrExit, NextIInv, ExitStep

-----------------------------------------------------------------------------
(* The type invariant and the two parts of the strengthening *)

LEMMA InitDaemonInv == DaemonInit => DaemonInv
  <1> SUFFICES ASSUME DaemonInit PROVE DaemonInv
    OBVIOUS
  <1>1. IInv
    BY InitIInv DEF DaemonInit
  <1>2. (\A r \in Requests : ~Active(r)) /\ Busy = {}
    BY DEF DaemonInit, GethInit, Active, Busy, Handled
  <1>3. DaemonTypeOK
    BY <1>1, <1>2 DEF DaemonInit, DaemonTypeOK, IInv, Phases, StartUp, Servers
  <1>4. QED
    BY <1>1, <1>2, <1>3
       DEF DaemonInv, DaemonInit, OnlyServed, InUse, NotYetServing, Servers

LEMMA ExitKeepsDaemonInv ==
  ASSUME DaemonInv, NEW how \in {"ok", "error", "killed"}, Exit(how)
  PROVE  DaemonInv'
  <1>1. IInv'
    BY ExitStep DEF DaemonInv
  <1>2. Busy' = {}
    BY DEF Exit, Busy, Handled, Active
  <1>3. DaemonTypeOK'
    BY <1>1 DEF DaemonInv, DaemonTypeOK, IInv, Exit, Phases
  <1>4. QED
    BY <1>1, <1>2, <1>3 DEF DaemonInv, OnlyServed, InUse, NotYetServing, Exit, StartUp

(* main moves on, and a server with it or by itself. *)
LEMMA TurnKeepsDaemonInv ==
  ASSUME DaemonInv, UNCHANGED <<vars, links, exit>>,
         NEW s \in Servers,
         NEW from \in {"none", "bound", "spawned", "serving", "draining"},
         NEW to \in {"bound", "spawned", "serving", "draining", "ended"},
         Turn(s, from, to) \/ UNCHANGED server,
         phase' \in Phases \ {"exited"}, phase # "exited",
         told' \subseteq Servers,
         phase' \in StartUp => phase \in StartUp /\ (to = "bound" \/ UNCHANGED server),
         from \in {"serving", "draining"} /\ to \notin {"serving", "draining"} =>
           ~InUse(s) \/ UNCHANGED server
  PROVE  DaemonInv'
  <1>1. IInv' /\ Busy' = Busy
    BY NextIInv DEF DaemonInv, Busy, Handled, Active, vars, links
  <1>2. server' \in [Servers ->
          {"none", "bound", "spawned", "serving", "draining", "ended"}]
    BY DEF DaemonInv, DaemonTypeOK, Turn
  <1>3. DaemonTypeOK'
    BY <1>1, <1>2 DEF DaemonInv, DaemonTypeOK, IInv, Active, vars, links
  <1>4. OnlyServed'
    BY <1>1 DEF DaemonInv, DaemonTypeOK, OnlyServed, InUse, Turn
  <1>5. NotYetServing'
    BY DEF DaemonInv, DaemonTypeOK, NotYetServing, Turn
  <1>6. QED
    BY <1>1, <1>3, <1>4, <1>5 DEF DaemonInv

LEMMA MainKeepsDaemonInv ==
  ASSUME DaemonInv, Main
  PROVE  DaemonInv'
  <1> USE DEF Servers, Phases, StartUp, From
  <1>1. told \subseteq Servers
    BY DEF DaemonInv, DaemonTypeOK
  <1>2. ASSUME NEW p \in StartUp, NEW q \in StartUp, Proceed(p, q)
        PROVE  DaemonInv'
    BY <1>1, <1>2, TurnKeepsDaemonInv DEF Proceed
  <1>3. CASE BuildApp \/ CheckTor \/ CheckAddresses
    BY <1>2, <1>3, CheckStep, ExitKeepsDaemonInv DEF BuildApp, CheckTor, CheckAddresses
  <1>4. CASE ReadHostname
    BY <1>2, <1>4 DEF ReadHostname
  <1>5. CASE BindPublic \/ BindAdmin
    <2>1. ASSUME NEW s \in Servers, NEW p \in StartUp, NEW q \in StartUp \cup {"spawn_public"},
                 From(p, q), Turn(s, "none", "bound"), UNCHANGED <<vars, told, links, exit>>
          PROVE  DaemonInv'
      BY <1>1, <2>1, TurnKeepsDaemonInv
    <2>2. QED
      BY <1>5, <2>1, BindStep, ExitKeepsDaemonInv DEF BindPublic, BindAdmin
  <1>6. CASE SpawnPublic
    BY <1>1, <1>6, TurnKeepsDaemonInv DEF SpawnPublic, Spawn
  <1>7. CASE SpawnAdmin
    BY <1>1, <1>7, TurnKeepsDaemonInv DEF SpawnAdmin, Spawn
  <1>8. QED
    BY <1>3, <1>4, <1>5, <1>6, <1>7 DEF Main

LEMMA ServerKeepsDaemonInv ==
  ASSUME DaemonInv, NEW s \in Servers, ServerStep(s)
  PROVE  DaemonInv'
  <1>1. /\ phase \in Phases \ {"exited"} /\ told \subseteq Servers
        /\ UNCHANGED <<vars, phase, told, links, exit>>
    BY DEF DaemonInv, DaemonTypeOK, ServerStep, Alive
  <1>2. phase \notin StartUp
    BY DEF DaemonInv, NotYetServing, ServerStep, Polled, Notices, Drained, Turn
  <1>3. CASE Polled(s) \/ Notices(s)
    BY <1>1, <1>2, <1>3, TurnKeepsDaemonInv DEF Polled, Notices
  <1>4. CASE Drained(s)
    BY <1>1, <1>2, <1>4, TurnKeepsDaemonInv DEF Drained
  <1>5. QED
    BY <1>3, <1>4 DEF ServerStep

(* Who begins a request does so at a server that serves. *)

LEMMA AcceptedAtServer ==
  ASSUME NEW c, Accepts(c), NEW s \in Servers, c \in ClientsOf(s)
  PROVE  server[s] = "serving"
  BY AdminAssumption DEF Accepts, ClientsOf, Servers

(* How a step of a request changes who is being handled. *)
LEMMA RequestSteps ==
  ASSUME NEW r \in Requests
  PROVE  /\ Arrive(r) => ~Active(r) /\ Enter(r, "queued")
         /\ Continues(r) => Active(r) /\ \E s \in Stages : Enter(r, s)
         /\ Answered(r) \/ Disconnect(r) => Active(r) /\ Finish(r)
  <1>1. Arrive(r) => ~Active(r) /\ Enter(r, "queued")
    BY DEF Arrive, Active
  <1>2. Continues(r) => Active(r) /\ \E s \in Stages : Enter(r, s)
    BY DEF Continues, Acquire, Send, BlockKnown, SubmitBundle, Active, Sent, Stages
  <1>3. Answered(r) \/ Disconnect(r) => Active(r) /\ Finish(r)
    BY DEF Answered, Reject, FailFast, Succeed, Fail, ClientTimesOut, ClientError,
           RelayReturns, RequestTimesOut, Disconnect, Active, Sent
  <1>4. QED
    BY <1>1, <1>2, <1>3

(* A step of one client, or of its request. *)
LEMMA ClientsKeepDaemonInv ==
  ASSUME DaemonInv, IInv', UNCHANGED processVars,
         reading' \cup writing' \subseteq Clients,
         reading' \cap writing' = {},
         Handled' \cap (reading' \cup writing') = {},
         \A c \in Busy' : c \in Busy \/ Accepts(c)
  PROVE  DaemonInv'
  <1>1. DaemonTypeOK'
    BY DEF DaemonInv, DaemonTypeOK, IInv, processVars, Handled
  <1>2. OnlyServed'
    BY AcceptedAtServer DEF DaemonInv, OnlyServed, InUse, processVars
  <1>3. QED
    BY <1>1, <1>2 DEF DaemonInv, NotYetServing, processVars

LEMMA ClientStepKeepsDaemonInv ==
  ASSUME DaemonInv, NEW c \in Clients,
         HeadBegins(c) \/ HeadAbandoned(c) \/ AdminAnswers(c) \/ AnswerEnds(c)
  PROVE  DaemonInv'
  <1>1. /\ reading \cup writing \subseteq Clients
        /\ reading \cap writing = {}
        /\ Handled \cap (reading \cup writing) = {}
    BY DEF DaemonInv, DaemonTypeOK, Handled
  <1>2. UNCHANGED vars /\ UNCHANGED processVars
    BY DEF HeadBegins, HeadAbandoned, AdminAnswers, AnswerEnds
  <1>3. IInv' /\ Handled' = Handled
    BY <1>2, NextIInv DEF DaemonInv, Handled, Active, vars
  <1>4. CASE HeadBegins(c)
    BY <1>1, <1>2, <1>3, <1>4, ClientsKeepDaemonInv DEF HeadBegins, Accepts, Busy
  <1>5. CASE HeadAbandoned(c)
    BY <1>1, <1>2, <1>3, <1>5, ClientsKeepDaemonInv DEF HeadAbandoned, Busy
  <1>6. CASE AdminAnswers(c)
    <2>1. c \notin Handled
      BY <1>6, AdminAssumption DEF AdminAnswers, Handled
    <2>2. CASE c \in reading /\ reading' = reading \ {c}
      BY <1>1, <1>2, <1>3, <1>6, <2>1, <2>2, ClientsKeepDaemonInv
         DEF AdminAnswers, AnswerBegins, Busy
    <2>3. CASE c \notin Slow /\ UNCHANGED reading
      BY <1>1, <1>2, <1>3, <1>6, <2>3, ClientsKeepDaemonInv
         DEF AdminAnswers, AnswerBegins, Busy
    <2>4. QED
      BY <1>6, <2>2, <2>3 DEF AdminAnswers, HeadEnds
  <1>7. CASE AnswerEnds(c)
    BY <1>1, <1>2, <1>3, <1>7, ClientsKeepDaemonInv DEF AnswerEnds, Busy
  <1>8. QED
    BY <1>4, <1>5, <1>6, <1>7

LEMMA RequestStepKeepsDaemonInv ==
  ASSUME DaemonInv, NEW r \in Requests, RequestStep(r)
  PROVE  DaemonInv'
  <1>1. /\ GethTypeOK
        /\ reading \cup writing \subseteq Clients
        /\ reading \cap writing = {}
        /\ Handled \cap (reading \cup writing) = {}
        /\ r \in Clients
    BY DEF DaemonInv, DaemonTypeOK, Handled, Clients
  <1>2. IInv' /\ UNCHANGED processVars
    BY NextIInv DEF DaemonInv, RequestStep, Answered, Continues, GethNext, Step
  <1>3. CASE Arrive(r) /\ HeadEnds(r) /\ UNCHANGED writing
    <2>1. Handled' = Handled \cup {r}
      BY <1>1, <1>3, RequestSteps DEF Enter, Handled, Active, GethTypeOK
    <2>2. CASE r \in reading /\ reading' = reading \ {r}
      BY <1>1, <1>2, <1>3, <2>1, <2>2, ClientsKeepDaemonInv DEF Busy
    <2>3. CASE Accepts(r) /\ UNCHANGED reading
      BY <1>1, <1>2, <1>3, <2>1, <2>3, ClientsKeepDaemonInv DEF Accepts, Busy
    <2>4. QED
      BY <1>3, <2>2, <2>3 DEF HeadEnds
  <1>4. CASE Continues(r) /\ UNCHANGED links
    <2>1. Handled' \subseteq Handled
      BY <1>1, <1>4, RequestSteps DEF Enter, Handled, Active, GethTypeOK
    <2>2. QED
      BY <1>1, <1>2, <1>4, <2>1, ClientsKeepDaemonInv DEF links, Busy
  <1>5. CASE (Answered(r) \/ Disconnect(r)) /\ UNCHANGED reading
    <2>1. r \in Handled /\ Handled' = Handled \ {r}
      BY <1>1, <1>5, RequestSteps DEF Finish, Handled, Active, GethTypeOK
    <2>2. UNCHANGED writing \/ AnswerBegins(r)
      BY <1>1, <1>5, <2>1, RequestSteps DEF RequestStep, links, Handled
    <2>3. QED
      BY <1>1, <1>2, <1>5, <2>1, <2>2, ClientsKeepDaemonInv DEF AnswerBegins, Busy
  <1>6. QED
    BY <1>3, <1>4, <1>5 DEF RequestStep, links

LEMMA NextDaemonInv ==
  ASSUME DaemonInv, [DaemonNext]_daemonVars
  PROVE  DaemonInv'
  <1>1. /\ IInv'
        /\ reading \cup writing \subseteq Clients
        /\ reading \cap writing = {}
        /\ Handled \cap (reading \cup writing) = {}
    BY DaemonKeepsIInv DEF DaemonInv, DaemonTypeOK, Handled
  <1>2. CASE Main
    BY <1>2, MainKeepsDaemonInv
  <1>3. CASE Signal
    <2>1. told' \subseteq Servers /\ UNCHANGED <<vars, server, links, exit>>
          /\ phase = "waiting" /\ phase' = "joining"
      BY <1>3 DEF Signal, Subscribers, From
    <2>2. QED
      BY <2>1, TurnKeepsDaemonInv DEF Phases, StartUp, Servers
  <1>4. CASE Join \/ Killed
    BY <1>4, ExitKeepsDaemonInv DEF Join, Killed
  <1>5. CASE DaemonTick
    <2>1. UNCHANGED <<stage, processVars, links>>
      BY <1>5 DEF DaemonTick, Tick
    <2>2. QED
      BY <1>1, <2>1, ClientsKeepDaemonInv DEF Handled, Busy, Active, links
  <1>6. ASSUME NEW s \in Servers, ServerStep(s)
        PROVE  DaemonInv'
    BY <1>6, ServerKeepsDaemonInv
  <1>7. ASSUME NEW c \in Clients,
               HeadBegins(c) \/ HeadAbandoned(c) \/ AdminAnswers(c) \/ AnswerEnds(c)
        PROVE  DaemonInv'
    BY <1>7, ClientStepKeepsDaemonInv
  <1>8. ASSUME NEW r \in Requests, RequestStep(r)
        PROVE  DaemonInv'
    BY <1>8, RequestStepKeepsDaemonInv
  <1>9. CASE UNCHANGED daemonVars
    BY <1>1, <1>9, ClientsKeepDaemonInv DEF daemonVars, vars, Handled, Busy, Active, links
  <1>10. QED
    BY <1>2, <1>3, <1>4, <1>5, <1>6, <1>7, <1>8, <1>9 DEF DaemonNext, ProcessStep, Ended

LEMMA DaemonInvariant == DaemonSpec => []DaemonInv
  BY InitDaemonInv, NextDaemonInv, PTL DEF DaemonSpec

-----------------------------------------------------------------------------
(* Type correctness of the whole process, for any number of requests. *)
THEOREM DaemonTypeCorrect == DaemonSpec => []DaemonTypeOK
  <1>1. DaemonInv => DaemonTypeOK
    BY DEF DaemonInv
  <1>2. QED
    BY <1>1, DaemonInvariant, PTL

(***************************************************************************)
(* The half-open circuit of the daemon hears of an old call only when its  *)
(* timer is due, across its start-up, its shutdown and its death.          *)
(***************************************************************************)
THEOREM DaemonStaleOutcomesAreDue == DaemonSpec => []StaleOnlyWhenDue
  <1>1. DaemonInv => StaleOnlyWhenDue
    BY StaleOutcomesDue DEF DaemonInv
  <1>2. QED
    BY <1>1, DaemonInvariant, PTL

(***************************************************************************)
(* main returns, for an error of the start-up or after a signal, only when *)
(* no client of either server is in the middle of a request: none sends a  *)
(* head, waits for a handler or the relay behind it, or reads an answer.   *)
(***************************************************************************)
THEOREM ReturnsIdle == DaemonSpec => ReturnCutsNobodyOff
  <1>1. ASSUME DaemonInv, DaemonNext, Alive, exit' \in {"ok", "error"}
        PROVE  Busy = {}
    <2>1. exit = "none" /\ Busy \subseteq Clients
      BY <1>1 DEF DaemonInv, DaemonTypeOK, Alive, Busy, Handled, Clients
    <2>2. Join \/ phase \in StartUp
      BY <1>1, <2>1, DaemonSteps DEF Killed, Exit, processVars
    <2>3. \A s \in Servers : ~InUse(s)
      BY <1>1, <2>2 DEF Join, Finished, DaemonInv, OnlyServed, NotYetServing
    <2>4. QED
      BY <2>1, <2>3 DEF InUse, Servers, ClientsOf, Clients
  <1>2. QED
    BY <1>1, DaemonInvariant, PTL DEF DaemonSpec, ReturnCutsNobodyOff

-----------------------------------------------------------------------------
(* The promises about the circuit carry over to the daemon: the end of the *)
(* process tells the breaker nothing and sends nothing.                    *)

LEMMA ExitIsSilent ==
  ASSUME NEW how, Exit(how)
  PROVE  UNCHANGED <<circuit, sinceOpened>> /\ \A r \in Requests : ~Sent(r)'
  BY DEF Exit, breakerVars, Sent

(* No step of the process makes a new call and leaves the circuit open. *)
THEOREM DaemonAdmitsNobodyWhenOpen == DaemonSpec => OpenAdmitsNobody
  <1>1. DaemonInv /\ [DaemonNext]_daemonVars =>
          [circuit = "Open" /\ circuit' = "Open" =>
             \A r \in Requests : Sent(r)' => Sent(r)]_vars
    BY GethStepOrExit, AdmissionStep, ExitIsSilent DEF DaemonInv
  <1>2. QED
    BY <1>1, DaemonInvariant, PTL DEF DaemonSpec, OpenAdmitsNobody

(* The daemon's circuit opens on the threshold-th miss in a row only. *)
THEOREM DaemonTripsOnlyAtThreshold == DaemonSpec => NoSpuriousTrip
  <1>1. DaemonInv /\ [DaemonNext]_daemonVars =>
          [circuit = "Closed" /\ circuit' # "Closed" => misses' = FailureThreshold]_vars
    BY GethStepOrExit, TripStep, ExitIsSilent DEF DaemonInv
  <1>2. QED
    BY <1>1, DaemonInvariant, PTL DEF DaemonSpec, NoSpuriousTrip

(* The daemon, from start-up to exit, implements the transition table. *)
THEOREM DaemonRefinesContract == DaemonSpec => ImplementsContract
  <1>1. DaemonInit => Contract!Init
    BY DEF DaemonInit, GethInit, BreakerInit, Contract!Init
  <1>2. DaemonInv /\ [DaemonNext]_daemonVars => [Contract!Next]_(Contract!vars)
    BY GethStepOrExit, ContractStep, ExitIsSilent DEF DaemonInv, Contract!vars
  <1>3. QED
    BY <1>1, <1>2, DaemonInvariant, PTL DEF DaemonSpec, ImplementsContract, Contract!Spec
-----------------------------------------------------------------------------
(* How long a drain lasts: what is in flight has been so since before the  *)
(* stopwatch started, and a drain begins nothing new.                      *)

DrainInv ==
  /\ drain \in Nat
  /\ ~Draining => drain = 0
  /\ Draining => \A r \in Requests : Active(r) => drain <= age[r]

(* Only a tick makes a request older, and only its end makes it younger. *)
LEMMA AgesOnlyByTicks ==
  ASSUME GethTypeOK, NEW r \in Requests, Step(r)
  PROVE  \A q \in Requests : Active(q)' => age'[q] = age[q]
  BY DEF GethTypeOK, Step, Arrive, Acquire, Reject, FailFast, Send, Succeed, Fail,
         ClientTimesOut, ClientError, BlockKnown, SubmitBundle, RelayReturns,
         RequestTimesOut, Disconnect, Enter, Finish, Active

LEMMA ProcessSteps ==
  ASSUME ProcessStep
  PROVE  \/ UNCHANGED vars
         \/ phase' = "exited"
         \/ \E r \in Requests : RequestStep(r)
  <1>1. CASE BuildApp \/ CheckTor \/ CheckAddresses
    BY <1>1, CheckStep DEF BuildApp, CheckTor, CheckAddresses, Proceed, Exit
  <1>2. CASE BindPublic \/ BindAdmin
    BY <1>2, BindStep DEF BindPublic, BindAdmin, Exit
  <1>3. CASE ReadHostname \/ SpawnPublic \/ SpawnAdmin
    BY <1>3 DEF ReadHostname, Proceed, SpawnPublic, SpawnAdmin, Spawn
  <1>4. CASE Signal \/ Join \/ Killed \/ Ended \/ \E s \in Servers : ServerStep(s)
    BY <1>4 DEF Signal, Join, Killed, Exit, Ended, daemonVars, ServerStep
  <1>5. CASE \E c \in Clients : \/ HeadBegins(c) \/ HeadAbandoned(c)
                              \/ AdminAnswers(c) \/ AnswerEnds(c)
    BY <1>5 DEF HeadBegins, HeadAbandoned, AdminAnswers, AnswerEnds
  <1>6. QED
    BY <1>1, <1>2, <1>3, <1>4, <1>5 DEF ProcessStep, Main

(* In a drain without a head to wait for nothing arrives. *)
LEMMA DrainBeginsNothing ==
  ASSUME GethTypeOK, ProcessStep, Draining, phase' # "exited",
         NEW q \in Requests, Active(q)'
  PROVE  Active(q) /\ age'[q] = age[q]
  <1>1. CASE UNCHANGED vars
    BY <1>1 DEF vars, Active
  <1>2. ASSUME NEW r \in Requests, RequestStep(r)
        PROVE  Active(q) /\ age'[q] = age[q]
    <2>1. ~Accepts(r)
      BY AcceptedAtServer DEF Draining, ClientsOf, Servers
    <2>2. ~HeadEnds(r)
      BY <2>1 DEF HeadEnds, Draining
    <2>3. Continues(r) \/ Disconnect(r) \/ Answered(r)
      BY <1>2, <2>2 DEF RequestStep
    <2>4. Active(r) /\ (Finish(r) \/ \E s \in Stages : Enter(r, s))
      BY <2>3, RequestSteps
    <2>5. Active(q)
      BY <2>4 DEF Enter, Finish, Active, GethTypeOK
    <2>6. Step(r)
      BY <2>3 DEF Continues, Answered, Step
    <2>7. QED
      BY <2>5, <2>6, AgesOnlyByTicks
  <1>3. QED
    BY <1>1, <1>2, ProcessSteps

LEMMA TickKeepsDrainInv ==
  ASSUME DaemonInv, DrainInv, TimedTick
  PROVE  DrainInv'
  <1>1. GethTypeOK /\ drain \in Nat
    BY DEF DaemonInv, DaemonTypeOK, DrainInv
  <1>2. Draining' <=> Draining
    BY DEF TimedTick, DaemonTick, Tick, processVars, links, Draining, Handled, Alive, Active
  <1>3. \A r \in Requests : Active(r)' => Active(r) /\ age'[r] = age[r] + 1
    BY <1>1 DEF TimedTick, DaemonTick, Tick, Active, GethTypeOK
  <1>4. drain' \in Nat /\ drain' <= drain + 1 /\ (~Draining => drain' = drain)
    BY <1>1, GethAssumption DEF TimedTick, TooLong
  <1>5. \A r \in Requests : age[r] \in Nat
    BY <1>1, GethAssumption DEF GethTypeOK
  <1>6. QED
    BY <1>1, <1>2, <1>3, <1>4, <1>5 DEF DrainInv

LEMMA StepKeepsDrainInv ==
  ASSUME DaemonInv, DaemonInv', DrainInv, TimedStep
  PROVE  DrainInv'
  <1>1. GethTypeOK /\ drain \in Nat
    BY DEF DaemonInv, DaemonTypeOK, DrainInv
  <1>2. \A r \in Requests : age'[r] \in Nat /\ 0 <= age'[r]
    BY GethAssumption DEF DaemonInv, DaemonTypeOK, GethTypeOK
  <1>3. CASE ~Draining'
    BY <1>3 DEF TimedStep, DrainInv
  <1>4. CASE Draining' /\ drain = 0
    BY <1>2, <1>4 DEF TimedStep, DrainInv
  <1>5. CASE Draining' /\ Draining
    <2>1. \A q \in Requests : Active(q)' => Active(q) /\ age'[q] = age[q]
      <3>1. ProcessStep /\ phase' # "exited"
        BY <1>5 DEF TimedStep, Draining, Alive
      <3>2. QED
        BY <1>1, <1>5, <3>1, DrainBeginsNothing
    <2>2. QED
      BY <1>5, <2>1 DEF TimedStep, DrainInv
  <1>6. QED
    BY <1>3, <1>4, <1>5 DEF DrainInv

(* The stopwatch changes nothing of the daemon: all of the above holds. *)
LEMMA TimedIsDaemon == TimedSpec => DaemonSpec
  <1>1. TimedInit => DaemonInit
    BY DEF TimedInit
  <1>2. [TimedNext]_timedVars => [DaemonNext]_daemonVars
    BY DEF TimedNext, TimedTick, TimedStep, DaemonNext, timedVars
  <1>3. QED
    BY <1>1, <1>2, PTL DEF TimedSpec, DaemonSpec

(***************************************************************************)
(* From the moment no head is left to wait for, a shutdown waits at most   *)
(* REQUEST_TIMEOUT for the handlers in flight, for any number of them and  *)
(* of permits, and without any assumption on the node or the relay.        *)
(***************************************************************************)
THEOREM DrainEndsInTime == TimedSpec => []DrainInTime
  <1>1. TimedInit => DrainInv
    BY DEF TimedInit, DaemonInit, DrainInv, Draining, Servers
  <1>2. DaemonInv /\ DaemonInv' /\ DrainInv /\ [TimedNext]_timedVars => DrainInv'
    <2>1. ASSUME DrainInv, UNCHANGED timedVars PROVE DrainInv'
      BY <2>1 DEF DrainInv, timedVars, daemonVars, processVars, links, vars, Draining,
                  Handled, Alive, Active
    <2>2. QED
      BY <2>1, TickKeepsDrainInv, StepKeepsDrainInv DEF TimedNext
  <1>3. DaemonInv /\ DrainInv => DrainInTime
    <2> SUFFICES ASSUME DaemonInv, DrainInv PROVE DrainInTime
      OBVIOUS
    <2>1. \A r \in Requests : age[r] \in Nat /\ age[r] <= RequestTimeout
      BY GethAssumption DEF DaemonInv, DaemonTypeOK, GethTypeOK
    <2>2. CASE Draining
      <3>1. PICK r \in Requests : Active(r)
        BY <2>2 DEF Draining, Handled
      <3>2. QED
        BY <2>1, <2>2, <3>1, GethAssumption DEF DrainInv, DrainInTime
    <2>3. CASE ~Draining
      BY <2>3, GethAssumption DEF DrainInv, DrainInTime
    <2>4. QED
      BY <2>2, <2>3
  <1>4. QED
    BY <1>1, <1>2, <1>3, TimedIsDaemon, DaemonInvariant, PTL DEF TimedSpec
-----------------------------------------------------------------------------
(* What of ShutdownCompletes needs no fairness: after the signal there is  *)
(* always something that can move on, or a client to wait for.             *)

StartOrder ==
  /\ phase \in {"spawn_admin", "waiting", "joining"} => server["public"] \notin {"none", "bound"}
  /\ phase \in {"waiting", "joining"} => server["admin"] \notin {"none", "bound"}

OnlyTheSignalTells ==
  /\ Alive => told = IF phase = "joining" THEN Servers ELSE {}
  /\ \A s \in Servers : server[s] \in {"draining", "ended"} => s \in told

(* A server whose first step, notice or end is due. *)
CanMove(s) ==
  \/ server[s] = "spawned"
  \/ server[s] = "serving" /\ s \in told
  \/ server[s] = "draining" /\ ~InUse(s)

(* While main waits in join!, it can return, or a server can go on, or one *)
(* waits for its clients: no receiver has missed the message.              *)
JoinWaitsForClients ==
  phase = "joining" =>
    \/ \A s \in Servers : Finished(s)
    \/ \E s \in Servers : CanMove(s)
    \/ \E s \in Servers : server[s] = "draining" /\ InUse(s)

(* No server refuses connections while main still waits for a signal. *)
ServesUntilSignal ==
  phase = "waiting" => \A s \in Servers : server[s] \in {"spawned", "serving"}

LEMMA InitProcess == DaemonInit => StartOrder /\ OnlyTheSignalTells
  BY DEF DaemonInit, StartOrder, OnlyTheSignalTells, Alive, Servers

LEMMA MainKeepsProcess ==
  ASSUME DaemonTypeOK, StartOrder, OnlyTheSignalTells, Main
  PROVE  StartOrder' /\ OnlyTheSignalTells'
  <1> USE DEF StartOrder, OnlyTheSignalTells, Servers, Alive, From
  <1>1. ASSUME NEW p, phase = p, phase # "exited", Exit("error")
        PROVE  StartOrder' /\ OnlyTheSignalTells'
    BY <1>1 DEF Exit
  <1>2. ASSUME NEW p, NEW q, Proceed(p, q), p \in StartUp,
               q \in {"tor", "hostname", "addresses", "bind_public"}
        PROVE  StartOrder' /\ OnlyTheSignalTells'
    BY <1>2 DEF Proceed, StartUp
  <1>3. CASE BuildApp \/ CheckTor \/ CheckAddresses
    BY <1>1, <1>2, <1>3, CheckStep DEF BuildApp, CheckTor, CheckAddresses, Proceed, StartUp
  <1>4. CASE ReadHostname
    BY <1>2, <1>4 DEF ReadHostname, StartUp
  <1>5. CASE BindPublic
    <2>1. CASE phase = "bind_public" /\ Exit("error")
      BY <1>1, <2>1
    <2>2. CASE phase = "bind_public" /\ phase' = "bind_admin" /\ UNCHANGED told
               /\ Turn("public", "none", "bound")
      BY <2>2 DEF Turn, DaemonTypeOK
    <2>3. QED
      BY <1>5, <2>1, <2>2, BindStep DEF BindPublic
  <1>6. CASE BindAdmin
    <2>1. CASE phase = "bind_admin" /\ Exit("error")
      BY <1>1, <2>1
    <2>2. CASE phase = "bind_admin" /\ phase' = "spawn_public" /\ UNCHANGED told
               /\ Turn("admin", "none", "bound")
      BY <2>2 DEF Turn, DaemonTypeOK
    <2>3. QED
      BY <1>6, <2>1, <2>2, BindStep DEF BindAdmin
  <1>7. CASE SpawnPublic
    BY <1>7 DEF SpawnPublic, Spawn, Turn, DaemonTypeOK
  <1>8. CASE SpawnAdmin
    BY <1>8 DEF SpawnAdmin, Spawn, Turn, DaemonTypeOK
  <1>9. QED
    BY <1>3, <1>4, <1>5, <1>6, <1>7, <1>8 DEF Main

LEMMA NextProcess ==
  ASSUME DaemonTypeOK, StartOrder, OnlyTheSignalTells, [DaemonNext]_daemonVars
  PROVE  StartOrder' /\ OnlyTheSignalTells'
  <1> USE DEF StartOrder, OnlyTheSignalTells, Servers, Alive
  <1>1. CASE Main
    BY <1>1, MainKeepsProcess
  <1>2. CASE Signal
    BY <1>2 DEF Signal, From, Subscribers
  <1>3. CASE Join \/ Killed
    BY <1>3 DEF Join, Killed, Exit
  <1>4. ASSUME NEW s \in Servers, ServerStep(s)
        PROVE  StartOrder' /\ OnlyTheSignalTells'
    <2>1. CASE Polled(s)
      BY <1>4, <2>1 DEF ServerStep, Polled, Turn, DaemonTypeOK
    <2>2. CASE Notices(s)
      BY <1>4, <2>2 DEF ServerStep, Notices, Turn, DaemonTypeOK
    <2>3. CASE Drained(s)
      BY <1>4, <2>3 DEF ServerStep, Drained, Turn, DaemonTypeOK
    <2>4. QED
      BY <1>4, <2>1, <2>2, <2>3 DEF ServerStep
  <1>5. CASE UNCHANGED processVars
    BY <1>5 DEF processVars
  <1>6. QED
    BY <1>1, <1>2, <1>3, <1>4, <1>5
       DEF DaemonNext, ProcessStep, DaemonTick, Ended, HeadBegins, HeadAbandoned,
           AdminAnswers, AnswerEnds, RequestStep, daemonVars, processVars

(***************************************************************************)
(* A shutdown is never stuck, and none begins without a signal: whenever   *)
(* main waits in join!, both servers have the message, whether or not they *)
(* had been polled before it came, and only a client in the middle of a    *)
(* request, of either server, can keep one of them from its next step.     *)
(***************************************************************************)
THEOREM ShutdownNeverStuck == DaemonSpec => [](JoinWaitsForClients /\ ServesUntilSignal)
  <1>1. DaemonInv => DaemonTypeOK
    BY DEF DaemonInv
  <1>2. DaemonTypeOK /\ StartOrder /\ OnlyTheSignalTells => JoinWaitsForClients
    BY DEF DaemonTypeOK, StartOrder, OnlyTheSignalTells, JoinWaitsForClients, CanMove,
           Finished, Servers, Alive
  <1>3. DaemonTypeOK /\ StartOrder /\ OnlyTheSignalTells => ServesUntilSignal
    BY DEF DaemonTypeOK, StartOrder, OnlyTheSignalTells, ServesUntilSignal, Servers, Alive
  <1>4. QED
    BY <1>1, <1>2, <1>3, InitProcess, NextProcess, DaemonInvariant, PTL DEF DaemonSpec
-----------------------------------------------------------------------------
(* The permits in the whole daemon: its end takes their holders with it. *)

LEMMA ExitFreesPermits ==
  ASSUME NEW how, Exit(how)
  PROVE  PermitsKept'
  <1>1. \A route : PermitsHeld(route)' = {}
    BY DEF Exit, PermitsHeld, Admitted
  <1>2. QED
    BY <1>1, FS_EmptySet, GethAssumption DEF PermitsKept

(***************************************************************************)
(* Over the whole life of the daemon, its drain included, each route has   *)
(* at most max_concurrent requests in hand and the node at most four times *)
(* as many calls.                                                          *)
(***************************************************************************)
THEOREM DaemonCallsAreLimited == DaemonSpec => [](PermitsKept /\ CallsWithinPermits)
  <1>1. DaemonInit => PermitsKept
    BY InitPermits DEF DaemonInit
  <1>2. DaemonInv /\ PermitsKept /\ [DaemonNext]_daemonVars => PermitsKept'
    BY GethStepOrExit, PermitsStep, ExitFreesPermits DEF DaemonInv, IInv
  <1>3. QED
    BY <1>1, <1>2, PermitsBoundCalls, DaemonInvariant, PTL DEF DaemonSpec
=============================================================================
