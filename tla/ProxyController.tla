-------------------------- MODULE ProxyController --------------------------
(***************************************************************************)
(* The lifecycle of the wallet-side proxy: ProxyController of              *)
(* torpc-proxy-core/src/lib.rs, the task it runs the proxy in, and the     *)
(* mutex of the GUI's AppState that every command and tray item takes      *)
(* around a call of the controller.                                        *)
(*                                                                         *)
(* start, stop and update_config are split at each lock they take or give  *)
(* back and at the point where stop waits for the task; between those      *)
(* points the task, and with it the status, may move.  A lock that is      *)
(* taken and given back with no suspension in between is one step.         *)
(*                                                                         *)
(* The window's Start button (ui/app.js) reads the configuration, probes   *)
(* the onion endpoint through Tor and then calls start_proxy; it holds the *)
(* mutex in the first and the last of these steps only.                    *)
(***************************************************************************)
EXTENDS Naturals, FiniteSets

CONSTANTS
  Callers,  \* commands and tray items that may be in progress
  Tasks,    \* identities of run tasks, reused once a task has ended
  Configs,  \* values of ProxyConfig
  Unset,    \* those without an onion endpoint
  None      \* no caller, no task, no configuration

(* What a caller is there for; an update of a running proxy is a restart. *)
Ops == {"start", "stop", "update", "restart", "window"}

ASSUME ControllerAssumption ==
  /\ None \notin Callers \cup Ops
  /\ None \notin Tasks
  /\ None \notin Configs
  /\ Unset \subseteq Configs

VARIABLES
  outer,       \* who holds the mutex of AppState
  statusLock,  \* who holds the write lock of status across a suspension
  handleLock,  \* who holds the write lock of handle
  status,      \* ProxyStatus
  handle,      \* the JoinHandle in the controller, None for None
  config,      \* the controller's ProxyConfig
  pc,          \* where each caller is
  op,          \* what it was called for
  wanted,      \* the configuration update_config was given or Start has read
  victim,      \* the task stop took out of handle
  task,        \* where each run task is
  cfg,         \* the configuration it was built with
  aborted,     \* tasks whose abort was requested
  changed,     \* history: Starts that were overtaken by an update
  overlooked   \* history: tasks an update_config found Starting

locks == <<outer, statusLock, handleLock>>
calls == <<op, wanted>>
tasks == <<task, cfg, aborted, overlooked>>
vars == <<locks, status, handle, config, pc, calls, victim, tasks, changed>>

Statuses == {"Stopped", "Starting", "Running", "Stopping", "Error"}
Points ==
  {"idle", "read", "verify", "enter", "update", "start", "start_handle", "spawn", "stop",
   "stop_handle", "abort", "join", "stopped", "store", "leave"}
TaskStages == {"ended", "spawned", "binding", "serving", "failing"}

(* Who holds a lock is where a holder is, and the other way round. *)
HeldAt(lock, points) == \A c \in Callers : lock = c <=> pc[c] \in points
LockPoints ==
  /\ HeldAt(outer, Points \ {"idle", "read", "verify", "enter"})
  /\ HeldAt(statusLock, {"start_handle", "stop_handle"})
  /\ HeldAt(handleLock, {"spawn", "abort", "join", "stopped"})

ControllerTypeOK ==
  /\ LockPoints
  /\ {outer, statusLock, handleLock} \subseteq Callers \cup {None}
  /\ status \in Statuses
  /\ handle \in Tasks \cup {None}
  /\ config \in Configs
  /\ pc \in [Callers -> Points]
  /\ op \in [Callers -> Ops \cup {None}]
  /\ wanted \in [Callers -> Configs \cup {None}]
  /\ victim \in [Callers -> Tasks \cup {None}]
  /\ task \in [Tasks -> TaskStages]
  /\ cfg \in [Tasks -> Configs \cup {None}]
  /\ \A t \in Tasks : cfg[t] = None <=> task[t] = "ended"
  /\ aborted \subseteq {t \in Tasks : task[t] # "ended"}
  /\ changed \subseteq Callers
  /\ overlooked \subseteq Tasks

ControllerInit ==
  /\ outer = None /\ statusLock = None /\ handleLock = None
  /\ status = "Stopped"
  /\ handle = None
  /\ config \in Configs
  /\ pc = [c \in Callers |-> "idle"]
  /\ op = [c \in Callers |-> None]
  /\ wanted = [c \in Callers |-> None]
  /\ victim = [c \in Callers |-> None]
  /\ task = [t \in Tasks |-> "ended"]
  /\ cfg = [t \in Tasks |-> None]
  /\ aborted = {}
  /\ changed = {}
  /\ overlooked = {}

-----------------------------------------------------------------------------
Live(t) == task[t] # "ended"
At(c, point) == pc[c] = point
Go(c, point) == pc' = [pc EXCEPT ![c] = point]
MoveTo(t, s) == task' = [task EXCEPT ![t] = s]

(* Where a caller goes when its stop is done. *)
AfterStop(c) == IF op[c] = "restart" THEN "store" ELSE "leave"

(* The call is over. *)
Return(c) ==
  /\ Go(c, "idle")
  /\ op' = [op EXCEPT ![c] = None]
  /\ wanted' = [wanted EXCEPT ![c] = None]
  /\ changed' = changed \ {c}

(* The task is over, and its handle will answer at once. *)
End(t) ==
  /\ MoveTo(t, "ended")
  /\ cfg' = [cfg EXCEPT ![t] = None]
  /\ aborted' = aborted \ {t}
  /\ overlooked' = overlooked \ {t}

-----------------------------------------------------------------------------
(* A command of the window or an item of the tray menu. *)
Invoke(c) ==
  /\ At(c, "idle")
  /\ \E o \in Ops \ {"restart"} :
       /\ op' = [op EXCEPT ![c] = o]
       /\ Go(c, IF o = "window" THEN "read" ELSE "enter")
       /\ IF o = "update"
          THEN \E new \in Configs : wanted' = [wanted EXCEPT ![c] = new]
          ELSE UNCHANGED wanted
  /\ UNCHANGED <<locks, status, handle, config, victim, tasks, changed>>

ReadForm(c) ==                \* mutant: the window verifies what its form says
  /\ At(c, "read")
  /\ outer = None
  /\ \E form \in Configs \ Unset : wanted' = [wanted EXCEPT ![c] = form]
  /\ Go(c, "verify")
  /\ UNCHANGED <<locks, status, handle, config, op, victim, tasks, changed>>

(* The window asks for the configuration and looks for its endpoint. *)
ReadConfig(c) ==
  /\ At(c, "read")
  /\ outer = None
  /\ \/ /\ config \in Unset
        /\ Return(c)
     \/ /\ config \notin Unset
        /\ wanted' = [wanted EXCEPT ![c] = config]
        /\ Go(c, "verify")
        /\ UNCHANGED <<op, changed>>
  /\ UNCHANGED <<locks, status, handle, config, victim, tasks>>

(* test_connection: each of its stages has 15 s and may fail. *)
VerifyFails(c) ==
  /\ At(c, "verify")
  /\ Return(c)
  /\ UNCHANGED <<locks, status, handle, config, victim, tasks>>

Verified(c) ==
  /\ At(c, "verify")
  /\ Go(c, "enter")
  /\ UNCHANGED <<locks, status, handle, config, calls, victim, tasks, changed>>

(* The first step under the mutex: start_proxy, unlike the tray item, asks *)
(* for the endpoint of the configuration before it starts anything.        *)
FirstStep(c) ==
  IF op[c] # "window" THEN op[c] ELSE IF config \in Unset THEN "leave" ELSE "start"

EnterSharing(c) ==            \* mutant: a controller shared without the mutex
  /\ At(c, "enter")
  /\ Go(c, FirstStep(c))
  /\ UNCHANGED <<locks, status, handle, config, calls, victim, tasks, changed>>

Enter(c) ==
  /\ At(c, "enter")
  /\ outer = None
  /\ outer' = c
  /\ Go(c, FirstStep(c))
  /\ UNCHANGED <<statusLock, handleLock, status, handle, config, calls, victim, tasks, changed>>

Leave(c) ==
  /\ At(c, "leave")
  /\ outer' = None
  /\ Return(c)
  /\ UNCHANGED <<statusLock, handleLock, status, handle, config, victim, tasks>>

-----------------------------------------------------------------------------
(* start *)
StartLocksStatus(c) ==
  /\ At(c, "start")
  /\ statusLock = None
  /\ statusLock' = c
  /\ Go(c, "start_handle")
  /\ UNCHANGED <<outer, handleLock, status, handle, config, calls, victim, tasks, changed>>

AlreadyStarted(c) ==
  /\ At(c, "start_handle")
  /\ handleLock = None
  /\ status \in {"Running", "Starting"}
  /\ statusLock' = None
  /\ Go(c, "leave")
  /\ UNCHANGED <<outer, handleLock, status, handle, config, calls, victim, tasks, changed>>

StartUnlessRunning(c) ==      \* mutant: Starting does not count as started
  /\ At(c, "start_handle")
  /\ handleLock = None
  /\ status # "Running"
  /\ status' = "Starting"
  /\ handleLock' = c
  /\ statusLock' = None
  /\ Go(c, "spawn")
  /\ UNCHANGED <<outer, handle, config, calls, victim, tasks, changed>>

BeginStart(c) ==
  /\ At(c, "start_handle")
  /\ handleLock = None
  /\ status \notin {"Running", "Starting"}
  /\ status' = "Starting"
  /\ handleLock' = c
  /\ statusLock' = None
  /\ Go(c, "spawn")
  /\ UNCHANGED <<outer, handle, config, calls, victim, tasks, changed>>

(* The task is built with a copy of the configuration of this moment. *)
Spawn(c) ==
  /\ At(c, "spawn")
  /\ \E t \in Tasks :
       /\ ~Live(t)
       /\ MoveTo(t, "spawned")
       /\ cfg' = [cfg EXCEPT ![t] = config]
       /\ handle' = t
  /\ handleLock' = None
  /\ Go(c, "leave")
  /\ UNCHANGED <<outer, statusLock, status, config, calls, victim, aborted, overlooked, changed>>

-----------------------------------------------------------------------------
(* stop *)
StopLocksStatus(c) ==
  /\ At(c, "stop")
  /\ statusLock = None
  /\ statusLock' = c
  /\ Go(c, "stop_handle")
  /\ UNCHANGED <<outer, handleLock, status, handle, config, calls, victim, tasks, changed>>

NothingToStop(c) ==
  /\ At(c, "stop_handle")
  /\ handleLock = None
  /\ handle = None
  /\ statusLock' = None
  /\ Go(c, AfterStop(c))
  /\ UNCHANGED <<outer, handleLock, status, handle, config, calls, victim, tasks, changed>>

TakeHandle(c) ==
  /\ At(c, "stop_handle")
  /\ handleLock = None
  /\ handle # None
  /\ victim' = [victim EXCEPT ![c] = handle]
  /\ handle' = None
  /\ status' = "Stopping"
  /\ handleLock' = c
  /\ statusLock' = None
  /\ Go(c, "abort")
  /\ UNCHANGED <<outer, config, calls, tasks, changed>>

Abort(c) ==
  /\ At(c, "abort")
  /\ aborted' = aborted \cup {t \in {victim[c]} : Live(t)}
  /\ Go(c, "join")
  /\ UNCHANGED <<locks, status, handle, config, calls, victim, task, cfg, overlooked, changed>>

JoinNobody(c) ==              \* mutant: stop does not wait for the task
  /\ At(c, "join")
  /\ Go(c, "stopped")
  /\ UNCHANGED <<locks, status, handle, config, calls, victim, tasks, changed>>

Join(c) ==
  /\ At(c, "join")
  /\ ~Live(victim[c])
  /\ Go(c, "stopped")
  /\ UNCHANGED <<locks, status, handle, config, calls, victim, tasks, changed>>

Stopped(c) ==
  /\ At(c, "stopped")
  /\ statusLock = None
  /\ status' = "Stopped"
  /\ victim' = [victim EXCEPT ![c] = None]
  /\ handleLock' = None
  /\ Go(c, AfterStop(c))
  /\ UNCHANGED <<outer, statusLock, handle, config, calls, tasks, changed>>

-----------------------------------------------------------------------------
(* update_config: is_running decides whether it stops and starts. *)
UpdateInPlace(c) ==           \* mutant: update_config only stores
  /\ At(c, "update")
  /\ statusLock = None
  /\ Go(c, "store")
  /\ UNCHANGED <<locks, status, handle, config, calls, victim, tasks, changed>>

IsRunning(c) ==
  /\ At(c, "update")
  /\ statusLock = None
  /\ IF status = "Running"
     THEN op' = [op EXCEPT ![c] = "restart"] /\ Go(c, "stop")
     ELSE UNCHANGED op /\ Go(c, "store")
  /\ overlooked' = IF status = "Starting" THEN {t \in Tasks : Live(t)} ELSE overlooked
  /\ UNCHANGED <<locks, status, handle, config, wanted, victim, task, cfg, aborted, changed>>

Store(c) ==
  /\ At(c, "store")
  /\ config' = wanted[c]
  /\ Go(c, IF op[c] = "restart" THEN "start" ELSE "leave")
  /\ changed' = changed \cup {d \in Callers : op[d] = "window" /\ ~At(d, "read")}
  /\ UNCHANGED <<locks, status, handle, calls, victim, tasks>>

-----------------------------------------------------------------------------
(* The run task: Running is set before the port is bound. *)
Begin(t) ==
  /\ task[t] = "spawned"
  /\ statusLock = None
  /\ status' = "Running"
  /\ MoveTo(t, "binding")
  /\ UNCHANGED <<locks, handle, config, pc, calls, victim, cfg, aborted, overlooked, changed>>

Bind(t) ==
  /\ task[t] = "binding"
  /\ MoveTo(t, "serving")
  /\ UNCHANGED <<locks, status, handle, config, pc, calls, victim, cfg, aborted, overlooked, changed>>

(* The port is taken, or accept returns an error. *)
RunFails(t) ==
  /\ task[t] \in {"binding", "serving"}
  /\ MoveTo(t, "failing")
  /\ UNCHANGED <<locks, status, handle, config, pc, calls, victim, cfg, aborted, overlooked, changed>>

EndSilently(t) ==             \* mutant: the error is logged and dropped
  /\ task[t] = "failing"
  /\ statusLock = None
  /\ End(t)
  /\ UNCHANGED <<locks, status, handle, config, pc, calls, victim, changed>>

ReportError(t) ==
  /\ task[t] = "failing"
  /\ statusLock = None
  /\ status' = "Error"
  /\ End(t)
  /\ UNCHANGED <<locks, handle, config, pc, calls, victim, changed>>

(* An aborted task is dropped where it waits; one that is being polled on  *)
(* another thread at that moment may still take the steps above.           *)
Dropped(t) ==
  /\ Live(t)
  /\ t \in aborted
  /\ End(t)
  /\ UNCHANGED <<locks, status, handle, config, pc, calls, victim, changed>>

-----------------------------------------------------------------------------
CallerStep(c) ==
  \/ ReadConfig(c) \/ VerifyFails(c) \/ Verified(c) \/ Enter(c) \/ Leave(c)
  \/ StartLocksStatus(c) \/ AlreadyStarted(c) \/ BeginStart(c) \/ Spawn(c)
  \/ StopLocksStatus(c) \/ NothingToStop(c) \/ TakeHandle(c) \/ Abort(c)
  \/ Join(c) \/ Stopped(c) \/ IsRunning(c) \/ Store(c)

TaskStep(t) == Begin(t) \/ Bind(t) \/ RunFails(t) \/ ReportError(t) \/ Dropped(t)

ControllerNext ==
  \/ \E c \in Callers : Invoke(c) \/ CallerStep(c)
  \/ \E t \in Tasks : TaskStep(t)

ControllerSpec == ControllerInit /\ [][ControllerNext]_vars

Settle(t) ==
  \/ Begin(t) \/ Bind(t) \/ (task[t] = "binding" /\ RunFails(t)) \/ ReportError(t) \/ Dropped(t)

(***************************************************************************)
(* The runtime polls what is ready and completes an abort.  The mutex of   *)
(* AppState and the lock of status are tokio's, which serve their waiters  *)
(* in order, hence SF for the steps that wait for one against calls that   *)
(* come again and again.  A bind succeeds or fails at once, a probe ends   *)
(* by its timeouts.  Nobody has to call, and a proxy that serves need not  *)
(* fail.                                                                   *)
(***************************************************************************)
Fairness ==
  /\ \A c \in Callers : WF_vars(CallerStep(c)) /\ SF_vars(Enter(c) \/ ReadConfig(c))
  /\ \A t \in Tasks : SF_vars(Settle(t))

FairControllerSpec == ControllerSpec /\ Fairness

-----------------------------------------------------------------------------
(* Properties *)

(***************************************************************************)
(* Seen from outside a call, the status says whether a run task is alive:  *)
(* Starting and Running are never a leftover of a task that is gone, and   *)
(* Stopped and Error never hide one that still serves -- whatever the task *)
(* did while stop was waiting for it.                                      *)
(***************************************************************************)
StatusIsHonest ==
  outer = None =>
    /\ status # "Stopping"
    /\ status \in {"Starting", "Running"} <=> \E t \in Tasks : Live(t)

(***************************************************************************)
(* Seen from outside a call, a run task that is alive is the one whose     *)
(* handle the controller holds: there is no task left that stop cannot     *)
(* reach.                                                                  *)
(***************************************************************************)
LiveTaskIsHeld == outer = None => \A t \in Tasks : Live(t) => handle = t

(***************************************************************************)
(* Whoever is inside start, stop or update_config finds every lock it asks *)
(* for free, and waits for a task only after its abort: so no circle of    *)
(* waiting can close, although stop asks for status while it holds handle  *)
(* and both start and stop ask for handle while they hold status.          *)
(***************************************************************************)
InsideNobodyWaits ==
  \A c \in Callers :
    /\ pc[c] \in {"start", "stop", "update", "stopped"} => statusLock = None
    /\ pc[c] \in {"start_handle", "stop_handle"} => handleLock = None
    /\ At(c, "join") /\ Live(victim[c]) => victim[c] \in aborted

(***************************************************************************)
(* A run serves another configuration than the current one only if an      *)
(* update_config came while it was starting (is_running is false then, and *)
(* update_config stores and leaves it): every later run, and every run an  *)
(* update finds Running, has the configuration the user saved last.        *)
(***************************************************************************)
StaleRunWasStarting ==
  outer = None =>
    \A t \in Tasks : Live(t) /\ cfg[t] # config => t \in overlooked

(***************************************************************************)
(* What the window's Start brings up is what it has verified over Tor, for *)
(* up to 45 s without the mutex, unless an update has come in between      *)
(* (app.js: "The listener only comes up if both pass").                    *)
(***************************************************************************)
WindowStartsVerified ==
  [][\A c \in Callers :
       At(c, "spawn") /\ op[c] = "window" /\ pc'[c] # "spawn" =>
         cfg'[handle'] = wanted[c] \/ c \in changed]_vars

(***************************************************************************)
(* The controller implements the abstract lifecycle: one configuration at  *)
(* a time is served, a restart goes through down, and what comes up has    *)
(* the configuration that is current at that moment.                       *)
(***************************************************************************)
serving ==
  IF \E t \in Tasks : Live(t) THEN cfg[CHOOSE t \in Tasks : Live(t)] ELSE None

Lifecycle == INSTANCE ProxyLifecycle WITH Down <- None
ImplementsLifecycle == Lifecycle!Spec

(***************************************************************************)
(* Every command and tray item returns: start and stop take the locks of   *)
(* status and handle in an order that only the mutex around them keeps     *)
(* from a deadlock (stop asks for status while it holds handle, start and  *)
(* stop for handle while they hold status).                                *)
(***************************************************************************)
EveryCallReturns == \A c \in Callers : ~At(c, "idle") ~> At(c, "idle")

(***************************************************************************)
(* Running is written before the port is bound: it does not stay so for a  *)
(* proxy that does not listen.                                             *)
(***************************************************************************)
RunningSettles ==
  status = "Running" ~> (status # "Running" \/ \E t \in Tasks : task[t] = "serving")
=============================================================================
