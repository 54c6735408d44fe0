------------------------------ MODULE WalletApp ------------------------------
(***************************************************************************)
(* The desktop application around the wallet-side proxy: its commands,     *)
(* which the mutex of AppState runs one at a time, the configuration file, *)
(* and a process that may end at any moment and be started again.          *)
(*                                                                         *)
(* An update of the configuration is split into stop, store, start and the *)
(* two halves of fs::write, which empties the file before it fills it; the *)
(* other commands are one step here (module ProxyController has theirs).   *)
(***************************************************************************)
EXTENDS WalletProxy

CONSTANTS
  Default,  \* default_config()
  Torn      \* a file that does not parse, or none

ASSUME WalletAppAssumption == Default \in Configs /\ Torn \notin Configs

VARIABLES
  command,    \* where an update is, "none" between commands
  wanted,     \* the configuration it was given
  file,       \* the configuration file
  saveFailed  \* the last save of this process failed

appVars == <<command, wanted, file, saveFailed>>
vars == <<proxyVars, appVars>>

AppTypeOK ==
  /\ ProxyTypeOK
  /\ command \in {"none", "stop", "store", "restore", "start", "save", "writing"}
  /\ wanted \in Configs
  /\ file \in Configs \cup {Torn}
  /\ saveFailed \in BOOLEAN

(* load_config, or the defaults when there is no file or it does not parse. *)
Loaded == IF file \in Configs THEN file ELSE Default

AppInit ==
  /\ ProxyInit
  /\ command = "none"
  /\ file \in Configs \cup {Torn}
  /\ config = Loaded
  /\ wanted = config
  /\ saveFailed = FALSE

-----------------------------------------------------------------------------
StartProxy ==
  /\ command = "none"
  /\ Launch
  /\ UNCHANGED appVars

StopProxy ==
  /\ command = "none"
  /\ EndRun
  /\ UNCHANGED appVars

(* update_config: is_running decides whether it stops and starts. *)
UpdateConfig ==
  /\ command = "none"
  /\ wanted' \in Configs
  /\ command' = IF run \in {"binding", "up"} THEN "stop" ELSE "store"
  /\ UNCHANGED <<proxyVars, file, saveFailed>>

(* The run may have ended by itself since. *)
StopForUpdate ==
  /\ command = "stop"
  /\ EndRun \/ (run = "none" /\ UNCHANGED proxyVars)
  /\ command' = "restore"
  /\ UNCHANGED <<wanted, file, saveFailed>>

Store ==
  /\ command \in {"store", "restore"}
  /\ Controller!Configure
  /\ config' = wanted
  /\ command' = IF command = "store" THEN "save" ELSE "start"
  /\ UNCHANGED <<run, discoveryVars, connectionVars, wanted, file, saveFailed>>

StartAfterUpdate ==
  /\ command = "start"
  /\ Launch
  /\ command' = "save"
  /\ UNCHANGED <<wanted, file, saveFailed>>

(* save_config: opening empties the file, or fails and leaves it. *)
SaveWhenRestarted ==         \* mutant: only a restart is followed by a save
  /\ command = "save"
  /\ IF run = "none"
     THEN command' = "none" /\ UNCHANGED <<file, saveFailed>>
     ELSE \/ command' = "writing" /\ file' = Torn /\ UNCHANGED saveFailed
          \/ command' = "none" /\ saveFailed' = TRUE /\ UNCHANGED file
  /\ UNCHANGED <<proxyVars, wanted>>

OpenFile ==
  /\ command = "save"
  /\ \/ command' = "writing" /\ file' = Torn /\ UNCHANGED saveFailed
     \/ command' = "none" /\ saveFailed' = TRUE /\ UNCHANGED file
  /\ UNCHANGED <<proxyVars, wanted>>

WriteFile ==
  /\ command = "writing"
  /\ command' = "none"
  /\ \/ file' = wanted /\ saveFailed' = FALSE
     \/ saveFailed' = TRUE /\ UNCHANGED file
  /\ UNCHANGED <<proxyVars, wanted>>

(* The process ends -- Quit in the tray, a crash, a logout -- and is started *)
(* again.  Only the two files are left.                                      *)
Relaunch ==
  /\ config' = Loaded /\ wanted' = Loaded
  /\ serving' = None /\ run' = "none"
  /\ persisted' = FALSE /\ pending' = {} /\ discovery' = None /\ ended' = FALSE
  /\ stage' = [c \in Connections |-> "closed"]
  /\ via' = [c \in Connections |-> None]
  /\ age' = [c \in Connections |-> 0]
  /\ daemon' = [c \in Connections |-> "none"]
  /\ reach' = [c \in Connections |-> 0]
  /\ command' = "none" /\ saveFailed' = FALSE
  /\ UNCHANGED <<tokenFile, file>>

-----------------------------------------------------------------------------
Command ==
  \/ StartProxy \/ StopProxy \/ UpdateConfig \/ StopForUpdate \/ Store
  \/ StartAfterUpdate \/ OpenFile \/ WriteFile

Background ==
  \/ RunStep \/ ProxyTick
  \/ \E c \in Connections : ConnectionStep(c)

AppNext == Command \/ (Background /\ UNCHANGED appVars) \/ Relaunch

AppSpec == AppInit /\ [][AppNext]_vars

(***************************************************************************)
(* The runtime's clock advances and its timers fire, in the daemon too.    *)
(* Nothing is assumed of Tor, of wallets or of the user.                   *)
(***************************************************************************)
Fairness ==
  /\ WF_vars(ProxyTick /\ UNCHANGED appVars)
  /\ \A c \in Connections :
       /\ WF_vars(GiveUp(c) /\ UNCHANGED appVars)
       /\ WF_vars(DaemonDue(c) /\ DaemonAnswers(c) /\ UNCHANGED appVars)

FairAppSpec == AppSpec /\ Fairness

-----------------------------------------------------------------------------
(* Properties *)

(***************************************************************************)
(* Between commands the configuration in force is the one a relaunch would *)
(* load, unless the last save failed: through updates of a running and a   *)
(* stopped proxy, runs that end by themselves in the middle of an update,  *)
(* and a process that ends between the two halves of the write.            *)
(***************************************************************************)
SavedIsCurrent == command = "none" /\ ~saveFailed => config = Loaded

(***************************************************************************)
(* A wallet's request is over within the timeout, whatever Tor, the daemon *)
(* and the wallet's own body do, and also on a connection that has         *)
(* outlived the run that accepted it.                                      *)
(***************************************************************************)
EveryExchangeEnds == \A c \in Connections : Busy(c) ~> ~Busy(c)

(***************************************************************************)
(* The first run of a process keeps the promise of the token file: whoever *)
(* finds its token there is let in by the server that holds the port, also *)
(* when an earlier process left another token in the file, when a write    *)
(* fails, and before the port is bound.  What breaks the promise later     *)
(* (TokenFileIsAccepted) is a second run of the same process.              *)
(***************************************************************************)
FirstTokenIsAccepted ==
  ~ended /\ persisted /\ discovery # None => discovery = tokenFile

(***************************************************************************)
(* start_discovery_server's documentation: the token is "per-launch" and   *)
(* "persisted to torpc-discovery.token so trusted local clients (the GUI)  *)
(* can read it".  While a run is up whose token is in the file, the        *)
(* discovery server that answers takes the token in the file.              *)
(***************************************************************************)
TokenFileIsAccepted ==
  run = "up" /\ persisted /\ pending = {} /\ discovery # None =>
    discovery = tokenFile
=============================================================================
