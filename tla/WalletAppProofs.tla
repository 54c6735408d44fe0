--------------------------- MODULE WalletAppProofs ---------------------------
(***************************************************************************)
(* For every set of configurations, tokens and connections and all         *)
(* timeouts that satisfy the assumptions: the types of the wallet          *)
(* application, that the file agrees with the configuration in force       *)
(* between commands, and that the token of a first run is accepted.        *)
(***************************************************************************)
EXTENDS WalletApp, TLAPS

(***************************************************************************)
(* The strengthening for the file: once the new configuration is in force  *)
(* it stays the wanted one until the write is over.                        *)
(***************************************************************************)
InForce == command \in {"start", "save", "writing"} => config = wanted

AInv ==
  /\ AppTypeOK
  /\ InForce
  /\ SavedIsCurrent

ConnectionTypeOK ==
  /\ stage \in [Connections -> {"closed", "idle"} \cup Exchanging]
  /\ via \in [Connections -> Configs \cup {None}]
  /\ age \in [Connections -> 0..ProxyTimeout]
  /\ daemon \in [Connections -> {"none", "working", "answered"}]
  /\ reach \in [Connections -> 0..ProxyTimeout]
  /\ \A c \in Connections : daemon[c] = "working" =>
       /\ stage[c] = "awaiting"
       /\ age[c] - reach[c] \in 0..DaemonTimeout

RunTypeOK ==
  /\ config \in Configs
  /\ serving \in Configs \cup {None}
  /\ run \in RunStages
  /\ run = "none" <=> serving = None
  /\ {tokenFile, discovery} \subseteq Tokens \cup {None}
  /\ persisted \in BOOLEAN
  /\ pending \subseteq Tokens
  /\ ended \in BOOLEAN

LEMMA TypeParts == ProxyTypeOK <=> RunTypeOK /\ ConnectionTypeOK
  BY DEF ProxyTypeOK, RunTypeOK, ConnectionTypeOK

LEMMA NextTypeParts == ASSUME RunTypeOK', ConnectionTypeOK' PROVE ProxyTypeOK'
  BY DEF ProxyTypeOK, RunTypeOK, ConnectionTypeOK

-----------------------------------------------------------------------------
(* What the steps of the proxy do to its own variables. *)

LEMMA LaunchStep ==
  ASSUME ProxyTypeOK, Launch
  PROVE  ProxyTypeOK' /\ config' = config
  BY WalletProxyAssumption
     DEF ProxyTypeOK, Launch, Controller!Launch, RunStages, discoveryVars, connectionVars

LEMMA EndRunStep ==
  ASSUME ProxyTypeOK, EndRun
  PROVE  ProxyTypeOK' /\ config' = config
  BY DEF ProxyTypeOK, EndRun, Controller!Quit, RunStages, connectionVars

LEMMA RunStepType ==
  ASSUME ProxyTypeOK, RunStep
  PROVE  ProxyTypeOK' /\ config' = config
  <1>1. CASE RunFails
    BY <1>1, EndRunStep DEF RunFails
  <1>2. CASE StartDiscovery
    BY <1>2 DEF ProxyTypeOK, StartDiscovery, RunStages, connectionVars
  <1>3. CASE Listen
    BY <1>3 DEF ProxyTypeOK, Listen, RunStages, discoveryVars, connectionVars
  <1>4. ASSUME NEW token \in Tokens, DiscoveryBinds(token)
        PROVE  ProxyTypeOK' /\ config' = config
    BY <1>4 DEF ProxyTypeOK, DiscoveryBinds, connectionVars
  <1>5. QED
    BY <1>1, <1>2, <1>3, <1>4 DEF RunStep

LEMMA EndExchangeType ==
  ASSUME ConnectionTypeOK, NEW c \in Connections, NEW to \in {"idle", "closed"},
         EndExchange(c, to)
  PROVE  ConnectionTypeOK'
  <1> USE WalletProxyAssumption DEF ConnectionTypeOK, EndExchange
  <1>1. /\ stage' \in [Connections -> {"closed", "idle"} \cup Exchanging]
        /\ age' \in [Connections -> 0..ProxyTimeout]
        /\ daemon' \in [Connections -> {"none", "working", "answered"}]
        /\ reach' \in [Connections -> 0..ProxyTimeout]
    OBVIOUS
  <1>2. via' \in [Connections -> Configs \cup {None}]
    OBVIOUS
  <1>3. ASSUME NEW d \in Connections, daemon'[d] = "working"
        PROVE  stage'[d] = "awaiting" /\ age'[d] - reach'[d] \in 0..DaemonTimeout
    <2>1. d # c
      BY <1>3
    <2>2. QED
      BY <2>1, <1>3
  <1>4. QED
    BY <1>1, <1>2, <1>3

LEMMA ConnectionStepType ==
  ASSUME ProxyTypeOK, NEW c \in Connections, ConnectionStep(c)
  PROVE  ProxyTypeOK' /\ config' = config
  <1>0. RunTypeOK /\ ConnectionTypeOK
    BY TypeParts
  <1>1. UNCHANGED <<config, serving, run, discoveryVars>>
    BY DEF ConnectionStep, Accept, HangUp, Request, Connected, SendRequest, Reply,
           Break, GiveUp, DaemonReceives, DaemonAnswers, AnswerArrives, MoveOn,
           EndExchange
  <1>2. RunTypeOK'
    BY <1>0, <1>1 DEF RunTypeOK, discoveryVars
  <1>3. ConnectionTypeOK'
    <2> USE <1>0, WalletProxyAssumption
    <2>1. CASE Accept(c)
      BY <2>1 DEF Accept, MoveOn, ConnectionTypeOK, RunTypeOK
    <2>2. CASE HangUp(c) \/ Reply(c) \/ Break(c) \/ GiveUp(c)
      BY <2>2, EndExchangeType DEF HangUp, Reply, Break, GiveUp
    <2>3. CASE Request(c) \/ Connected(c) \/ SendRequest(c)
      BY <2>3 DEF Request, Connected, SendRequest, MoveOn, ConnectionTypeOK, Exchanging
    <2>4. CASE DaemonReceives(c)
      <3>1. age[c] - age[c] \in 0..DaemonTimeout
        BY DEF ConnectionTypeOK
      <3>2. QED
        BY <2>4, <3>1 DEF DaemonReceives, ConnectionTypeOK
    <2>5. CASE DaemonAnswers(c)
      BY <2>5 DEF DaemonAnswers, ConnectionTypeOK
    <2>6. CASE AnswerArrives(c)
      BY <2>6 DEF AnswerArrives, MoveOn, ConnectionTypeOK, Exchanging
    <2>7. QED
      BY <2>1, <2>2, <2>3, <2>4, <2>5, <2>6 DEF ConnectionStep
  <1>4. QED
    BY <1>1, <1>2, <1>3, NextTypeParts

LEMMA ProxyTickType ==
  ASSUME ProxyTypeOK, ProxyTick
  PROVE  ProxyTypeOK' /\ config' = config
  <1> USE WalletProxyAssumption
  <1>1. \A c \in Connections :
          /\ age'[c] = IF Busy(c) THEN age[c] + 1 ELSE age[c]
          /\ age[c] \in 0..ProxyTimeout
          /\ reach[c] \in 0..ProxyTimeout
          /\ Busy(c) => age[c] # ProxyTimeout
          /\ daemon[c] = "working" =>
               age[c] - reach[c] \in 0..DaemonTimeout /\ ~(age[c] - reach[c] >= DaemonTimeout)
    BY DEF ProxyTypeOK, ProxyTick, Due, DaemonDue
  <1>2. \A c \in Connections :
          /\ age'[c] \in 0..ProxyTimeout
          /\ daemon[c] = "working" => age'[c] - reach[c] \in 0..DaemonTimeout
    BY <1>1
  <1>3. age' \in [Connections -> 0..ProxyTimeout]
    BY <1>2 DEF ProxyTick
  <1>4. ConnectionTypeOK'
    BY <1>2, <1>3 DEF ProxyTypeOK, ConnectionTypeOK, ProxyTick
  <1>5. RunTypeOK'
    BY DEF ProxyTypeOK, RunTypeOK, ProxyTick, discoveryVars
  <1>6. QED
    BY <1>4, <1>5, NextTypeParts DEF ProxyTick

(* Connections that are all closed: at the start and after a relaunch. *)
AllClosed ==
  /\ stage = [c \in Connections |-> "closed"]
  /\ via = [c \in Connections |-> None]
  /\ age = [c \in Connections |-> 0]
  /\ daemon = [c \in Connections |-> "none"]
  /\ reach = [c \in Connections |-> 0]

LEMMA AllClosedType == AllClosed => ConnectionTypeOK
  <1> SUFFICES ASSUME AllClosed PROVE ConnectionTypeOK
    OBVIOUS
  <1> USE WalletProxyAssumption DEF AllClosed
  <1>1. 0 \in 0..ProxyTimeout
    OBVIOUS
  <1>2. /\ stage \in [Connections -> {"closed", "idle"} \cup Exchanging]
        /\ via \in [Connections -> Configs \cup {None}]
    OBVIOUS
  <1>3. /\ age \in [Connections -> 0..ProxyTimeout]
        /\ reach \in [Connections -> 0..ProxyTimeout]
        /\ daemon \in [Connections -> {"none", "working", "answered"}]
    BY <1>1
  <1>4. \A c \in Connections : daemon[c] # "working"
    OBVIOUS
  <1>5. QED
    BY <1>2, <1>3, <1>4 DEF ConnectionTypeOK

-----------------------------------------------------------------------------
LEMMA InitAInv == AppInit => AInv
  <1> SUFFICES ASSUME AppInit PROVE AInv
    OBVIOUS
  <1> USE WalletProxyAssumption, WalletAppAssumption DEF AppInit
  <1>1. config \in Configs
    BY DEF Loaded
  <1>2. ProxyTypeOK
    <2>1. ConnectionTypeOK
      BY AllClosedType DEF ProxyInit, AllClosed
    <2>2. RunTypeOK
      BY <1>1 DEF ProxyInit, Controller!Init, RunTypeOK, RunStages
    <2>3. QED
      BY <2>1, <2>2, TypeParts
  <1>3. AppTypeOK
    BY <1>1, <1>2 DEF AppTypeOK
  <1>4. InForce /\ SavedIsCurrent
    BY DEF InForce, SavedIsCurrent
  <1>5. QED
    BY <1>3, <1>4 DEF AInv

(* A step that leaves the configuration and the application alone. *)
LEMMA QuietStep ==
  ASSUME AInv, ProxyTypeOK', config' = config, UNCHANGED appVars
  PROVE  AInv'
  BY DEF AInv, AppTypeOK, InForce, SavedIsCurrent, Loaded, appVars

LEMMA BackgroundStep ==
  ASSUME AInv, Background, UNCHANGED appVars
  PROVE  AInv'
  <1>1. ProxyTypeOK' /\ config' = config
    BY RunStepType, ConnectionStepType, ProxyTickType DEF Background, AInv, AppTypeOK
  <1>2. QED
    BY <1>1, QuietStep

LEMMA CommandStep ==
  ASSUME AInv, Command
  PROVE  AInv'
  <1> USE DEF AInv, AppTypeOK
  <1>1. CASE StartProxy
    BY <1>1, LaunchStep, QuietStep DEF StartProxy
  <1>2. CASE StopProxy
    BY <1>2, EndRunStep, QuietStep DEF StopProxy
  <1>3. CASE UpdateConfig
    <2>1. ProxyTypeOK'
      BY <1>3 DEF UpdateConfig, proxyVars, ProxyTypeOK, discoveryVars, connectionVars
    <2>2. QED
      BY <1>3, <2>1 DEF UpdateConfig, InForce, SavedIsCurrent
  <1>4. CASE StopForUpdate
    <2>1. ProxyTypeOK'
      <3>1. CASE EndRun
        BY <3>1, EndRunStep
      <3>2. CASE UNCHANGED proxyVars
        BY <3>2 DEF proxyVars, ProxyTypeOK, discoveryVars, connectionVars
      <3>3. QED
        BY <1>4, <3>1, <3>2 DEF StopForUpdate
    <2>2. QED
      BY <1>4, <2>1 DEF StopForUpdate, InForce, SavedIsCurrent
  <1>5. CASE Store
    <2>1. ProxyTypeOK'
      BY <1>5 DEF Store, Controller!Configure, ProxyTypeOK, discoveryVars, connectionVars
    <2>2. QED
      BY <1>5, <2>1 DEF Store, InForce, SavedIsCurrent
  <1>6. CASE StartAfterUpdate
    <2>1. ProxyTypeOK' /\ config' = config
      BY <1>6, LaunchStep DEF StartAfterUpdate
    <2>2. QED
      BY <1>6, <2>1 DEF StartAfterUpdate, InForce, SavedIsCurrent
  <1>7. CASE OpenFile \/ WriteFile
    <2>1. ProxyTypeOK' /\ config' = config
      BY <1>7 DEF OpenFile, WriteFile, proxyVars, ProxyTypeOK, discoveryVars, connectionVars
    <2>2. QED
      BY <1>7, <2>1, WalletAppAssumption
         DEF OpenFile, WriteFile, InForce, SavedIsCurrent, Loaded
  <1>8. QED
    BY <1>1, <1>2, <1>3, <1>4, <1>5, <1>6, <1>7 DEF Command

LEMMA RelaunchStep ==
  ASSUME AInv, Relaunch
  PROVE  AInv'
  <1> USE WalletProxyAssumption, WalletAppAssumption DEF AInv, AppTypeOK, Relaunch
  <1>1. Loaded \in Configs
    BY DEF Loaded
  <1>2. ProxyTypeOK'
    <2>1. AllClosed'
      BY DEF AllClosed
    <2>2. ConnectionTypeOK'
      BY <2>1, AllClosedType, PTL
    <2>3. RunTypeOK'
      BY <1>1 DEF ProxyTypeOK, RunTypeOK, RunStages
    <2>4. QED
      BY <2>2, <2>3, NextTypeParts
  <1>3. InForce' /\ SavedIsCurrent'
    BY DEF InForce, SavedIsCurrent, Loaded
  <1>4. QED
    BY <1>1, <1>2, <1>3

LEMMA InductiveInvariant == AppSpec => []AInv
  <1>1. ASSUME AInv, [AppNext]_vars
        PROVE  AInv'
    <2>1. CASE Command
      BY <1>1, <2>1, CommandStep
    <2>2. CASE Background /\ UNCHANGED appVars
      BY <1>1, <2>2, BackgroundStep
    <2>3. CASE Relaunch
      BY <1>1, <2>3, RelaunchStep
    <2>4. CASE UNCHANGED vars
      <3>1. ProxyTypeOK' /\ config' = config /\ UNCHANGED appVars
        BY <1>1, <2>4 DEF vars, proxyVars, discoveryVars, connectionVars,
                          AInv, AppTypeOK, ProxyTypeOK
      <3>2. QED
        BY <1>1, <3>1, QuietStep
    <2>5. QED
      BY <1>1, <2>1, <2>2, <2>3, <2>4 DEF AppNext
  <1>2. QED
    BY <1>1, InitAInv, PTL DEF AppSpec

-----------------------------------------------------------------------------
(* Every reachable state of the wallet application is well typed; a daemon *)
(* works on a request for no longer than its own timeout.                  *)
THEOREM AppTypeCorrect == AppSpec => []AppTypeOK
  <1>1. AInv => AppTypeOK
    BY DEF AInv
  <1>2. QED
    BY <1>1, InductiveInvariant, PTL

(***************************************************************************)
(* What the last command left in force is what a relaunch would load,      *)
(* unless its save failed, however runs end and processes die on the way.  *)
(***************************************************************************)
THEOREM FileAgrees == AppSpec => []SavedIsCurrent
  <1>1. AInv => SavedIsCurrent
    BY DEF AInv
  <1>2. QED
    BY <1>1, InductiveInvariant, PTL

-----------------------------------------------------------------------------
(***************************************************************************)
(* Until a run of the process has ended there is one discovery task at     *)
(* most: none before the run has started it, and then one with the token   *)
(* that this run has put into the file, if it could.                       *)
(***************************************************************************)
FirstServer ==
  ~ended =>
    /\ run \in {"none", "spawned"} => pending = {} /\ discovery = None /\ ~persisted
    /\ persisted => pending \cup {discovery} \subseteq {tokenFile, None}

LEMMA RunStepFirst ==
  ASSUME ProxyTypeOK, FirstServer, RunStep
  PROVE  FirstServer'
  <1> USE DEF FirstServer, ProxyTypeOK, RunStages
  <1>1. CASE RunFails
    BY <1>1 DEF RunFails, EndRun
  <1>2. CASE StartDiscovery
    <2>1. run = "spawned" /\ run' = "binding" /\ ended' = ended /\ discovery' = discovery
      BY <1>2 DEF StartDiscovery
    <2>2. ASSUME ~ended
          PROVE  persisted' => pending' \cup {discovery'} \subseteq {tokenFile', None}
      BY <1>2, <2>1, <2>2 DEF StartDiscovery
    <2>3. QED
      BY <2>1, <2>2
  <1>3. CASE Listen
    BY <1>3 DEF Listen, discoveryVars
  <1>4. ASSUME NEW token \in Tokens, DiscoveryBinds(token)
        PROVE  FirstServer'
    BY <1>4 DEF DiscoveryBinds
  <1>5. QED
    BY <1>1, <1>2, <1>3, <1>4 DEF RunStep

(* A step that is none of the discovery's business, or starts a run. *)
LEMMA ElsewhereFirst ==
  ASSUME ProxyTypeOK, FirstServer, UNCHANGED discoveryVars,
         run' = run \/ (run = "none" /\ run' = "spawned")
  PROVE  FirstServer'
  BY DEF FirstServer, discoveryVars

LEMMA NextFirst ==
  ASSUME AInv, FirstServer, [AppNext]_vars
  PROVE  FirstServer'
  <1>0. ProxyTypeOK
    BY DEF AInv, AppTypeOK
  <1>1. CASE EndRun
    BY <1>1 DEF EndRun, FirstServer
  <1>2. CASE Launch
    <2>1. run = "none" /\ run' = "spawned" /\ UNCHANGED discoveryVars
      BY <1>0, <1>2 DEF Launch, Controller!Launch, ProxyTypeOK
    <2>2. QED
      BY <1>0, <2>1, ElsewhereFirst
  <1>3. CASE Relaunch
    BY <1>3 DEF Relaunch, FirstServer
  <1>4. CASE RunStep
    BY <1>0, <1>4, RunStepFirst
  <1>5. CASE ProxyTick \/ \E c \in Connections : ConnectionStep(c)
    <2>1. run' = run /\ UNCHANGED discoveryVars
      BY <1>5
         DEF ProxyTick, ConnectionStep, Accept, HangUp, Request, Connected, SendRequest,
             Reply, Break, GiveUp, DaemonReceives, DaemonAnswers, AnswerArrives, MoveOn,
             EndExchange
    <2>2. QED
      BY <1>0, <2>1, ElsewhereFirst
  <1>6. CASE UpdateConfig \/ Store \/ OpenFile \/ WriteFile \/ UNCHANGED proxyVars
    <2>1. run' = run /\ UNCHANGED discoveryVars
      BY <1>6 DEF UpdateConfig, Store, OpenFile, WriteFile, proxyVars
    <2>2. QED
      BY <1>0, <2>1, ElsewhereFirst
  <1>7. QED
    BY <1>1, <1>2, <1>3, <1>4, <1>5, <1>6
       DEF AppNext, Command, Background, StartProxy, StopProxy, StopForUpdate,
           StartAfterUpdate, vars

(***************************************************************************)
(* Whoever reads the token of a process's first run from the file is let   *)
(* in by its discovery server, whatever earlier processes left behind: the *)
(* counterexample to TokenFileIsAccepted needs a second run.               *)
(***************************************************************************)
THEOREM FirstTokenAccepted == AppSpec => []FirstTokenIsAccepted
  <1>1. AppInit => FirstServer
    BY DEF AppInit, ProxyInit, FirstServer
  <1>2. FirstServer => FirstTokenIsAccepted
    BY DEF FirstServer, FirstTokenIsAccepted
  <1>3. QED
    BY <1>1, <1>2, NextFirst, InductiveInvariant, PTL DEF AppSpec
=============================================================================
