----------------------- MODULE ProxyControllerProofs -----------------------
(***************************************************************************)
(* The lifecycle of the wallet proxy for any number of callers, tasks and  *)
(* configurations: its type and who holds which lock, that the status is   *)
(* honest and the live task held, which runs may be outdated, what the     *)
(* window starts, and that it implements ProxyLifecycle.                   *)
(***************************************************************************)
EXTENDS ProxyController, TLAPS

NobodyLives == \A t \in Tasks : ~Live(t)

(* What a caller was called for fits where it is. *)
OpPoints ==
  \A c \in Callers :
    /\ At(c, "read") \/ At(c, "verify") => op[c] = "window"
    /\ At(c, "enter") => op[c] \in {"start", "stop", "update", "window"}
    /\ At(c, "update") => op[c] = "update"
    /\ At(c, "store") => op[c] \in {"update", "restart"}
    /\ op[c] \in {"update", "restart"} => wanted[c] \in Configs

(***************************************************************************)
(* The heart of the invariant: who holds the lock of handle decides what   *)
(* handle and status say of the tasks that are alive.                      *)
(***************************************************************************)
HandleFree ==
  handleLock = None =>
    /\ \A t \in Tasks : Live(t) =>
         /\ handle = t
         /\ status = IF task[t] = "spawned" THEN "Starting" ELSE "Running"
    /\ status \in {"Stopped", "Error"} \/ \E t \in Tasks : Live(t)
    /\ aborted = {}

Spawning ==
  \A c \in Callers : At(c, "spawn") => status = "Starting" /\ NobodyLives

Joining ==
  \A c \in Callers :
    /\ At(c, "abort") \/ At(c, "join") =>
         /\ handle = None
         /\ victim[c] \in Tasks
         /\ \A t \in Tasks : Live(t) => t = victim[c]
    /\ At(c, "stopped") => handle = None /\ NobodyLives

LifeInv ==
  /\ ControllerTypeOK
  /\ OpPoints
  /\ HandleFree
  /\ Spawning
  /\ Joining

-----------------------------------------------------------------------------
LEMMA InitLife == ControllerInit => LifeInv
  <1> SUFFICES ASSUME ControllerInit PROVE LifeInv
    OBVIOUS
  <1> USE ControllerAssumption DEF ControllerInit, Ops
  <1>1. LockPoints
    BY DEF LockPoints, HeldAt, Points
  <1>2. ControllerTypeOK
    BY <1>1 DEF ControllerTypeOK, Points, Statuses, TaskStages
  <1>3. OpPoints
    BY DEF OpPoints, At
  <1>4. HandleFree /\ Spawning /\ Joining
    BY DEF HandleFree, Spawning, Joining, Live, At
  <1>5. QED
    BY <1>2, <1>3, <1>4 DEF LifeInv

(* The type, and with it the holders of the locks, one operation at a time. *)
LEMMA CallerType ==
  ASSUME LifeInv, NEW c \in Callers, Invoke(c) \/ CallerStep(c)
  PROVE  ControllerTypeOK'
  <1> USE ControllerAssumption
      DEF LifeInv, ControllerTypeOK, LockPoints, HeldAt, Points, Statuses, Ops, TaskStages,
          OpPoints, Live, At, Go, MoveTo, locks, calls, tasks
  <1>1. CASE Invoke(c)
    BY <1>1 DEF Invoke
  <1>2. CASE ReadConfig(c) \/ VerifyFails(c) \/ Verified(c)
    BY <1>2 DEF ReadConfig, VerifyFails, Verified, Return
  <1>3. CASE Enter(c)
    BY <1>3 DEF Enter, FirstStep
  <1>4. CASE Leave(c)
    BY <1>4 DEF Leave, Return
  <1>5. CASE StartLocksStatus(c) \/ AlreadyStarted(c) \/ BeginStart(c)
    BY <1>5 DEF StartLocksStatus, AlreadyStarted, BeginStart
  <1>6. CASE Spawn(c)
    BY <1>6 DEF Spawn
  <1>7. CASE StopLocksStatus(c) \/ NothingToStop(c) \/ TakeHandle(c)
    BY <1>7 DEF StopLocksStatus, NothingToStop, TakeHandle, AfterStop
  <1>8. CASE Abort(c) \/ Join(c) \/ Stopped(c)
    BY <1>8 DEF Abort, Join, Stopped, AfterStop, Joining
  <1>9. CASE IsRunning(c) \/ Store(c)
    BY <1>9 DEF IsRunning, Store
  <1>10. QED
    BY <1>1, <1>2, <1>3, <1>4, <1>5, <1>6, <1>7, <1>8, <1>9 DEF CallerStep

LEMMA TaskType ==
  ASSUME LifeInv, NEW t \in Tasks, TaskStep(t)
  PROVE  ControllerTypeOK'
  BY ControllerAssumption
     DEF LifeInv, ControllerTypeOK, LockPoints, HeldAt, Points, Statuses, TaskStages,
         TaskStep, Begin, Bind, RunFails, ReportError, Dropped, End, MoveTo, Live,
         locks, calls

LEMMA CallerOpPoints ==
  ASSUME LifeInv, NEW c \in Callers, Invoke(c) \/ CallerStep(c)
  PROVE  OpPoints'
  <1> USE ControllerAssumption DEF LifeInv, ControllerTypeOK, OpPoints, At, Go, calls, Ops
  <1>1. CASE Invoke(c)
    BY <1>1 DEF Invoke, Ops
  <1>2. CASE ReadConfig(c) \/ VerifyFails(c) \/ Verified(c) \/ Leave(c)
    BY <1>2 DEF ReadConfig, VerifyFails, Verified, Leave, Return
  <1>3. CASE Enter(c)
    BY <1>3 DEF Enter, FirstStep
  <1>4. CASE StartLocksStatus(c) \/ AlreadyStarted(c) \/ BeginStart(c) \/ Spawn(c)
    BY <1>4 DEF StartLocksStatus, AlreadyStarted, BeginStart, Spawn
  <1>5. CASE StopLocksStatus(c) \/ NothingToStop(c) \/ TakeHandle(c)
    BY <1>5 DEF StopLocksStatus, NothingToStop, TakeHandle, AfterStop
  <1>6. CASE Abort(c) \/ Join(c) \/ Stopped(c)
    BY <1>6 DEF Abort, Join, Stopped, AfterStop
  <1>7. CASE IsRunning(c) \/ Store(c)
    BY <1>7 DEF IsRunning, Store
  <1>8. QED
    BY <1>1, <1>2, <1>3, <1>4, <1>5, <1>6, <1>7 DEF CallerStep

(* Steps that leave the tasks, the handle and the status alone. *)
LEMMA AsideStep ==
  ASSUME LifeInv, NEW c \in Callers,
         UNCHANGED <<handleLock, status, handle, victim, task, aborted>>,
         \E q \in Points \ {"spawn", "abort", "join", "stopped"} : Go(c, q)
  PROVE  HandleFree' /\ Spawning' /\ Joining'
  BY DEF LifeInv, ControllerTypeOK, HandleFree, Spawning, Joining, NobodyLives, Live, At, Go

LEMMA StartStopLife ==
  ASSUME LifeInv, NEW c \in Callers,
         BeginStart(c) \/ Spawn(c) \/ TakeHandle(c) \/ Abort(c) \/ Join(c) \/ Stopped(c)
  PROVE  HandleFree' /\ Spawning' /\ Joining'
  <1> USE ControllerAssumption
      DEF LifeInv, ControllerTypeOK, HandleFree, Spawning, Joining, NobodyLives, Live, At, Go
  <1>1. handleLock \notin {c, None} => ~At(c, "spawn") /\ ~At(c, "abort") /\ ~At(c, "join")
                                        /\ ~At(c, "stopped")
    BY DEF LockPoints, HeldAt
  <1>2. \A d \in Callers \ {c} : handleLock \in {c, None} =>
          pc[d] \notin {"spawn", "abort", "join", "stopped"}
    BY DEF LockPoints, HeldAt
  <1>3. CASE BeginStart(c)
    BY <1>2, <1>3 DEF BeginStart, tasks
  <1>4. CASE Spawn(c)
    BY <1>1, <1>2, <1>4 DEF Spawn, MoveTo, LockPoints, HeldAt
  <1>5. CASE TakeHandle(c)
    BY <1>2, <1>5 DEF TakeHandle, tasks
  <1>6. CASE Abort(c)
    BY <1>1, <1>2, <1>6 DEF Abort, locks, LockPoints, HeldAt
  <1>7. CASE Join(c)
    BY <1>1, <1>2, <1>7 DEF Join, locks, tasks, LockPoints, HeldAt
  <1>8. CASE Stopped(c)
    BY <1>1, <1>2, <1>8 DEF Stopped, tasks, LockPoints, HeldAt, AfterStop
  <1>9. QED
    BY <1>3, <1>4, <1>5, <1>6, <1>7, <1>8

LEMMA CallerLife ==
  ASSUME LifeInv, NEW c \in Callers, Invoke(c) \/ CallerStep(c)
  PROVE  LifeInv'
  <1>1. ControllerTypeOK' /\ OpPoints'
    BY CallerType, CallerOpPoints
  <1>2. CASE BeginStart(c) \/ Spawn(c) \/ TakeHandle(c) \/ Abort(c) \/ Join(c) \/ Stopped(c)
    BY <1>1, <1>2, StartStopLife DEF LifeInv
  <1>3. CASE ~(BeginStart(c) \/ Spawn(c) \/ TakeHandle(c) \/ Abort(c) \/ Join(c) \/ Stopped(c))
    <2>1. UNCHANGED <<handleLock, status, handle, victim, task, aborted>>
      BY <1>3 DEF CallerStep, Invoke, ReadConfig, VerifyFails, Verified, Enter, Leave,
                  StartLocksStatus, AlreadyStarted, StopLocksStatus, NothingToStop,
                  IsRunning, Store, locks, tasks
    <2>2. \E q \in Points \ {"spawn", "abort", "join", "stopped"} : Go(c, q)
      BY <1>3 DEF CallerStep, Invoke, ReadConfig, VerifyFails, Verified, Enter, Leave,
                  StartLocksStatus, AlreadyStarted, StopLocksStatus, NothingToStop,
                  IsRunning, Store, Return, FirstStep, AfterStop, Points, LifeInv,
                  OpPoints, At
    <2>3. QED
      BY <1>1, <2>1, <2>2, AsideStep DEF LifeInv
  <1>4. QED
    BY <1>2, <1>3

LEMMA TaskLife ==
  ASSUME LifeInv, NEW t \in Tasks, TaskStep(t)
  PROVE  LifeInv'
  <1>1. ControllerTypeOK'
    BY TaskType
  <1>2. OpPoints'
    BY DEF LifeInv, OpPoints, At, TaskStep, Begin, Bind, RunFails, ReportError, Dropped, calls
  <1>3. HandleFree'
    <2> USE DEF LifeInv, ControllerTypeOK, HandleFree, MoveTo, Live, locks
    <2>1. CASE Begin(t)
      BY <2>1 DEF Begin
    <2>2. CASE Bind(t)
      BY <2>2 DEF Bind
    <2>3. CASE RunFails(t)
      BY <2>3 DEF RunFails
    <2>4. CASE ReportError(t)
      BY <2>4 DEF ReportError, End
    <2>5. CASE Dropped(t)
      BY <2>5 DEF Dropped, End
    <2>6. QED
      BY <2>1, <2>2, <2>3, <2>4, <2>5 DEF TaskStep
  <1>4. Spawning' /\ Joining'
    BY DEF LifeInv, ControllerTypeOK, Spawning, Joining, NobodyLives, At, TaskStep, Begin,
           Bind, RunFails, ReportError, Dropped, End, MoveTo, Live
  <1>5. QED
    BY <1>1, <1>2, <1>3, <1>4 DEF LifeInv

LEMMA NextLife ==
  ASSUME LifeInv, [ControllerNext]_vars
  PROVE  LifeInv'
  <1>1. CASE UNCHANGED vars
    BY <1>1 DEF vars, locks, calls, tasks, LifeInv, ControllerTypeOK, LockPoints, HeldAt,
                OpPoints, HandleFree, Spawning, Joining, NobodyLives, Live, At
  <1>2. QED
    BY <1>1, CallerLife, TaskLife DEF ControllerNext

LEMMA LifeInvariant == ControllerSpec => []LifeInv
  BY InitLife, NextLife, PTL DEF ControllerSpec

-----------------------------------------------------------------------------
(***************************************************************************)
(* The type of the controller's state, and that each of its three locks is *)
(* held by exactly the caller that stands where the code holds it.         *)
(***************************************************************************)
THEOREM ControllerTypeCorrect == ControllerSpec => []ControllerTypeOK
  <1>1. LifeInv => ControllerTypeOK
    BY DEF LifeInv
  <1>2. QED
    BY <1>1, LifeInvariant, PTL

LEMMA OutsideACall ==
  ASSUME LifeInv, outer = None
  PROVE  handleLock = None
  BY ControllerAssumption DEF LifeInv, ControllerTypeOK, LockPoints, HeldAt, Points

(***************************************************************************)
(* Seen from outside a call, Starting and Running mean that a run task is  *)
(* alive and Stopped and Error that none is, in whatever order start, stop *)
(* and the task write the status.                                          *)
(***************************************************************************)
THEOREM StatusHonest == ControllerSpec => []StatusIsHonest
  <1>1. LifeInv => StatusIsHonest
    BY OutsideACall DEF LifeInv, HandleFree, StatusIsHonest, Live
  <1>2. QED
    BY <1>1, LifeInvariant, PTL

(***************************************************************************)
(* A live run task is the one whose handle the controller holds: stop      *)
(* reaches every proxy that start has spawned.                             *)
(***************************************************************************)
THEOREM LiveTaskHeld == ControllerSpec => []LiveTaskIsHeld
  <1>1. LifeInv => LiveTaskIsHeld
    BY OutsideACall DEF LifeInv, HandleFree, LiveTaskIsHeld, Live
  <1>2. QED
    BY <1>1, LifeInvariant, PTL

-----------------------------------------------------------------------------
(* The task a stop waits for has been told to end. *)
Doomed == \A c \in Callers : At(c, "join") => \A t \in Tasks : Live(t) => t \in aborted

LEMMA CallerDoomed ==
  ASSUME LifeInv, Doomed, NEW c \in Callers, Invoke(c) \/ CallerStep(c)
  PROVE  Doomed'
  <1> USE DEF LifeInv, ControllerTypeOK, Doomed, Live, At, Go
  <1>1. CASE Abort(c)
    <2>1. \A t \in Tasks : Live(t) => t = victim[c]
      BY <1>1 DEF Abort, Joining
    <2>2. \A t \in Tasks : Live(t)' => t \in aborted'
      BY <1>1, <2>1 DEF Abort
    <2>3. QED
      BY <2>2
  <1>2. CASE Spawn(c)
    <2>1. \A d \in Callers : ~At(d, "join") /\ ~At(d, "join")'
      BY <1>2 DEF Spawn, LockPoints, HeldAt
    <2>2. QED
      BY <2>1
  <1>3. CASE ~Abort(c) /\ ~Spawn(c)
    <2>1. UNCHANGED <<task, aborted>>
      BY <1>3 DEF CallerStep, Invoke, ReadConfig, VerifyFails, Verified, Enter, Leave,
                  StartLocksStatus, AlreadyStarted, BeginStart, StopLocksStatus,
                  NothingToStop, TakeHandle, Join, Stopped, IsRunning, Store, tasks
    <2>2. \A d \in Callers : At(d, "join")' => At(d, "join")
      BY <1>3, ControllerAssumption
         DEF CallerStep, Invoke, ReadConfig, VerifyFails, Verified, Enter, Leave,
             StartLocksStatus, AlreadyStarted, BeginStart, StopLocksStatus, NothingToStop,
             TakeHandle, Join, Stopped, IsRunning, Store, Return, FirstStep, AfterStop,
             OpPoints
    <2>3. QED
      BY <2>1, <2>2
  <1>4. QED
    BY <1>1, <1>2, <1>3

LEMMA TaskDoomed ==
  ASSUME LifeInv, Doomed, NEW t \in Tasks, TaskStep(t)
  PROVE  Doomed'
  BY DEF LifeInv, ControllerTypeOK, Doomed, Live, At, TaskStep, Begin, Bind, RunFails,
         ReportError, Dropped, End, MoveTo

LEMMA DoomedInvariant == ControllerSpec => []Doomed
  <1>1. ControllerInit => Doomed
    BY DEF ControllerInit, Doomed, At
  <1>2. ASSUME LifeInv, Doomed, [ControllerNext]_vars
        PROVE  Doomed'
    <2>1. CASE UNCHANGED vars
      BY <1>2, <2>1 DEF vars, tasks, Doomed, Live, At
    <2>2. QED
      BY <1>2, <2>1, CallerDoomed, TaskDoomed DEF ControllerNext
  <1>3. QED
    BY <1>1, <1>2, LifeInvariant, PTL DEF ControllerSpec

(***************************************************************************)
(* start, stop and update_config never wait for a lock while they hold the *)
(* mutex of AppState, for any number of callers: the two orders in which   *)
(* they take status and handle cannot end in a deadlock.                   *)
(***************************************************************************)
THEOREM NoCircleOfWaiting == ControllerSpec => []InsideNobodyWaits
  <1>1. LifeInv /\ Doomed => InsideNobodyWaits
    <2> SUFFICES ASSUME LifeInv, Doomed, NEW c \in Callers
                 PROVE  /\ pc[c] \in {"start", "stop", "update", "stopped"} => statusLock = None
                        /\ pc[c] \in {"start_handle", "stop_handle"} => handleLock = None
                        /\ At(c, "join") /\ Live(victim[c]) => victim[c] \in aborted
      BY DEF InsideNobodyWaits
    <2>1. /\ pc[c] \in {"start", "stop", "update", "stopped"} => statusLock = None
          /\ pc[c] \in {"start_handle", "stop_handle"} => handleLock = None
      BY DEF LifeInv, ControllerTypeOK, LockPoints, HeldAt, Points
    <2>2. At(c, "join") /\ Live(victim[c]) => victim[c] \in aborted
      BY DEF LifeInv, Joining, Doomed
    <2>3. QED
      BY <2>1, <2>2
  <1>2. QED
    BY <1>1, LifeInvariant, DoomedInvariant, PTL

-----------------------------------------------------------------------------
(* What of EveryCallReturns needs no fairness.                             *)

(* How many steps a call has left at most, whatever it was called for. *)
StepsLeft ==
  [idle |-> 0, leave |-> 1, spawn |-> 2, start_handle |-> 3, start |-> 4, store |-> 5,
   stopped |-> 6, join |-> 7, abort |-> 8, stop_handle |-> 9, stop |-> 10, update |-> 11,
   enter |-> 12, verify |-> 13, read |-> 14]

(* Each of its own steps brings a call nearer to its end, and nobody else's *)
(* moves it: no command of the GUI retries or goes round in a loop.         *)
CallsAdvance ==
  [][\A c \in Callers :
       /\ CallerStep(c) => StepsLeft[pc'[c]] < StepsLeft[pc[c]]
       /\ pc'[c] # pc[c] => Invoke(c) \/ CallerStep(c)]_vars

(* What each call waits for where it is: a lock, or the end of a task. *)
NeedsNobody(c) ==
  /\ pc[c] \in {"read", "enter"} => outer = None
  /\ pc[c] \in {"start", "stop", "update", "stopped"} => statusLock = None
  /\ pc[c] \in {"start_handle", "stop_handle"} => handleLock = None
  /\ At(c, "spawn") => \E t \in Tasks : ~Live(t)
  /\ At(c, "join") => ~Live(victim[c])

(* While a call is in progress, some call waits for nobody, or for a task  *)
(* that has been aborted.                                                  *)
SomebodyCanGo ==
  (\E c \in Callers : ~At(c, "idle")) =>
    \E d \in Callers :
      /\ ~At(d, "idle")
      /\ NeedsNobody(d) \/ (At(d, "join") /\ victim[d] \in aborted)

LEMMA StepAdvances ==
  ASSUME LifeInv, NEW c \in Callers, CallerStep(c)
  PROVE  /\ StepsLeft[pc'[c]] < StepsLeft[pc[c]]
         /\ \A d \in Callers \ {c} : pc'[d] = pc[d]
  <1> USE DEF LifeInv, ControllerTypeOK, At, Go, StepsLeft
  <1>1. CASE ReadConfig(c) \/ VerifyFails(c) \/ Verified(c) \/ Leave(c)
    BY <1>1 DEF ReadConfig, VerifyFails, Verified, Leave, Return
  <1>2. CASE Enter(c)
    <2>1. FirstStep(c) \in {"start", "stop", "update", "leave"}
      BY <1>2 DEF Enter, FirstStep, OpPoints
    <2>2. QED
      BY <1>2, <2>1 DEF Enter
  <1>3. CASE StartLocksStatus(c) \/ AlreadyStarted(c) \/ BeginStart(c) \/ Spawn(c)
    BY <1>3 DEF StartLocksStatus, AlreadyStarted, BeginStart, Spawn
  <1>4. CASE StopLocksStatus(c) \/ NothingToStop(c) \/ TakeHandle(c)
    BY <1>4 DEF StopLocksStatus, NothingToStop, TakeHandle, AfterStop
  <1>5. CASE Abort(c) \/ Join(c) \/ Stopped(c)
    BY <1>5 DEF Abort, Join, Stopped, AfterStop
  <1>6. CASE IsRunning(c) \/ Store(c)
    BY <1>6 DEF IsRunning, Store
  <1>7. QED
    BY <1>1, <1>2, <1>3, <1>4, <1>5, <1>6 DEF CallerStep

(* From its invocation a call takes 14 steps of its own at most, and 12    *)
(* from the moment it has the mutex, whatever the others and the task do.  *)
THEOREM CallsTakeFewSteps == ControllerSpec => CallsAdvance
  <1>1. ASSUME LifeInv, ControllerNext, NEW c \in Callers
        PROVE  /\ CallerStep(c) => StepsLeft[pc'[c]] < StepsLeft[pc[c]]
               /\ pc'[c] # pc[c] => Invoke(c) \/ CallerStep(c)
    <2>1. CallerStep(c) => StepsLeft[pc'[c]] < StepsLeft[pc[c]]
      BY <1>1, StepAdvances
    <2>2. ASSUME NEW d \in Callers, d # c, Invoke(d) \/ CallerStep(d)
          PROVE  pc'[c] = pc[c]
      BY <1>1, <2>2, StepAdvances DEF Invoke, Go, LifeInv, ControllerTypeOK
    <2>3. ASSUME NEW t \in Tasks, TaskStep(t)
          PROVE  pc'[c] = pc[c]
      BY <2>3 DEF TaskStep, Begin, Bind, RunFails, ReportError, Dropped
    <2>4. QED
      BY <1>1, <2>1, <2>2, <2>3 DEF ControllerNext
  <1>2. LifeInv /\ ControllerNext =>
          \A c \in Callers :
            /\ CallerStep(c) => StepsLeft[pc'[c]] < StepsLeft[pc[c]]
            /\ pc'[c] # pc[c] => Invoke(c) \/ CallerStep(c)
    BY <1>1
  <1>3. QED
    BY <1>2, LifeInvariant, PTL DEF ControllerSpec, CallsAdvance

(* The controller and the mutex around it cannot deadlock, for any number  *)
(* of callers: whoever has the mutex can go on or waits for an aborted     *)
(* task, and when nobody has it every call can go on.                      *)
THEOREM NoDeadlock ==
  ASSUME Tasks # {}
  PROVE  ControllerSpec => []SomebodyCanGo
  <1>1. LifeInv /\ InsideNobodyWaits => SomebodyCanGo
    <2> SUFFICES ASSUME LifeInv, InsideNobodyWaits, NEW c \in Callers, ~At(c, "idle")
                 PROVE  \E d \in Callers :
                          /\ ~At(d, "idle")
                          /\ NeedsNobody(d) \/ (At(d, "join") /\ victim[d] \in aborted)
      BY DEF SomebodyCanGo
    <2>1. ASSUME NEW d \in Callers, pc[d] \in {"read", "enter"} => outer = None
          PROVE  NeedsNobody(d) \/ (At(d, "join") /\ victim[d] \in aborted)
      BY <2>1 DEF LifeInv, InsideNobodyWaits, NeedsNobody, Spawning, NobodyLives, At
    <2>2. CASE outer = None
      BY <2>1, <2>2
    <2>3. CASE outer # None
      <3>1. outer \in Callers /\ pc[outer] \in Points \ {"idle", "read", "verify", "enter"}
        BY <2>3 DEF LifeInv, ControllerTypeOK, LockPoints, HeldAt
      <3>2. QED
        BY <2>1, <3>1 DEF At
    <2>4. QED
      BY <2>2, <2>3
  <1>2. QED
    BY <1>1, LifeInvariant, NoCircleOfWaiting, PTL

-----------------------------------------------------------------------------
(***************************************************************************)
(* Which configuration a run and a Start of the window have: an update     *)
(* that reaches its store has stopped the run or seen it Starting.         *)
(***************************************************************************)
Current ==
  /\ \A t \in Tasks : Live(t) /\ cfg[t] # config => t \in overlooked
  /\ \A c \in Callers : At(c, "store") => \A t \in Tasks : Live(t) => t \in overlooked
  /\ \A c \in Callers : op[c] = "window" /\ ~At(c, "read") => wanted[c] = config \/ c \in changed

LEMMA InitCurrent == ControllerInit => Current
  BY ControllerAssumption DEF ControllerInit, Current, Live, At, Ops

LEMMA CallerCurrent ==
  ASSUME LifeInv, Current, NEW c \in Callers, Invoke(c) \/ CallerStep(c)
  PROVE  Current'
  <1> USE ControllerAssumption
      DEF Current, LifeInv, ControllerTypeOK, OpPoints, Live, At, Go, MoveTo, Ops, locks, calls, tasks
  <1>1. CASE Invoke(c)
    BY <1>1 DEF Invoke
  <1>2. CASE ReadConfig(c) \/ VerifyFails(c) \/ Verified(c) \/ Leave(c)
    BY <1>2 DEF ReadConfig, VerifyFails, Verified, Leave, Return
  <1>3. CASE Enter(c)
    BY <1>3 DEF Enter, FirstStep
  <1>4. CASE StartLocksStatus(c) \/ AlreadyStarted(c) \/ BeginStart(c)
    BY <1>4 DEF StartLocksStatus, AlreadyStarted, BeginStart
  <1>5. CASE Spawn(c)
    <2>1. \A d \in Callers : ~At(d, "store")
      BY <1>5 DEF Spawn, LockPoints, HeldAt, Points
    <2>2. QED
      BY <1>5, <2>1 DEF Spawn
  <1>6. CASE StopLocksStatus(c) \/ TakeHandle(c) \/ Abort(c) \/ Join(c)
    BY <1>6 DEF StopLocksStatus, TakeHandle, Abort, Join
  <1>7. CASE NothingToStop(c)
    <2>1. \A t \in Tasks : ~Live(t)
      BY <1>7 DEF NothingToStop, HandleFree
    <2>2. QED
      BY <1>7, <2>1 DEF NothingToStop, AfterStop
  <1>8. CASE Stopped(c)
    BY <1>8 DEF Stopped, AfterStop, Joining, NobodyLives
  <1>9. CASE IsRunning(c)
    <2>1. handleLock = None
      BY <1>9 DEF IsRunning, LockPoints, HeldAt, Points
    <2>2. status \notin {"Running", "Starting"} => \A t \in Tasks : ~Live(t)
      BY <2>1 DEF HandleFree
    <2>3. \A t \in Tasks : Live(t) /\ t \in overlooked => t \in overlooked'
      BY <1>9 DEF IsRunning
    <2>4. op'[c] # "window" /\ (At(c, "store")' => \A t \in Tasks : Live(t) => t \in overlooked')
      BY <1>9, <2>2 DEF IsRunning
    <2>5. QED
      BY <1>9, <2>3, <2>4 DEF IsRunning
  <1>10. CASE Store(c)
    BY <1>10 DEF Store
  <1>11. QED
    BY <1>1, <1>2, <1>3, <1>4, <1>5, <1>6, <1>7, <1>8, <1>9, <1>10 DEF CallerStep

LEMMA TaskCurrent ==
  ASSUME LifeInv, Current, NEW t \in Tasks, TaskStep(t)
  PROVE  Current'
  BY DEF Current, LifeInv, ControllerTypeOK, TaskStep, Begin, Bind, RunFails, ReportError,
         Dropped, End, MoveTo, Live, At, calls

LEMMA CurrentInvariant == ControllerSpec => []Current
  <1>1. ASSUME LifeInv, Current, [ControllerNext]_vars
        PROVE  Current'
    <2>1. CASE UNCHANGED vars
      BY <1>1, <2>1 DEF vars, calls, tasks, Current, Live, At
    <2>2. QED
      BY <1>1, <2>1, CallerCurrent, TaskCurrent DEF ControllerNext
  <1>2. QED
    BY <1>1, InitCurrent, LifeInvariant, PTL DEF ControllerSpec

(***************************************************************************)
(* A run that serves another configuration than the current one was        *)
(* Starting when update_config asked is_running.                           *)
(***************************************************************************)
THEOREM StaleRunsWereStarting == ControllerSpec => []StaleRunWasStarting
  <1>1. Current => StaleRunWasStarting
    BY DEF Current, StaleRunWasStarting
  <1>2. QED
    BY <1>1, CurrentInvariant, PTL

(***************************************************************************)
(* The window's Start spawns a task with the configuration it has read and *)
(* verified, or an update has been stored since it read.                   *)
(***************************************************************************)
THEOREM WindowStartsWhatItVerified == ControllerSpec => WindowStartsVerified
  <1>1. ASSUME LifeInv, Current, [ControllerNext]_vars, NEW c \in Callers,
               At(c, "spawn"), op[c] = "window", pc'[c] # "spawn"
        PROVE  cfg'[handle'] = wanted[c] \/ c \in changed
    <2>1. PICK d \in Callers : Invoke(d) \/ CallerStep(d)
      BY <1>1 DEF ControllerNext, TaskStep, Begin, Bind, RunFails, ReportError, Dropped, At, vars
    <2>2. Spawn(c)
      <3>1. d = c
        BY <1>1, <2>1 DEF LifeInv, ControllerTypeOK, At, Go, Return, CallerStep, Invoke,
              ReadConfig, VerifyFails, Verified, Enter, Leave, StartLocksStatus, AlreadyStarted,
              BeginStart, Spawn, StopLocksStatus, NothingToStop, TakeHandle, Abort, Join,
              Stopped, IsRunning, Store
      <3>2. QED
        BY <1>1, <2>1, <3>1 DEF At, CallerStep, Invoke, ReadConfig, VerifyFails, Verified,
              Enter, Leave, StartLocksStatus, AlreadyStarted, BeginStart, StopLocksStatus,
              NothingToStop, TakeHandle, Abort, Join, Stopped, IsRunning, Store
    <2>3. PICK t \in Tasks : cfg' = [cfg EXCEPT ![t] = config] /\ handle' = t
      BY <2>2 DEF Spawn
    <2>4. cfg'[handle'] = config
      BY <1>1, <2>3 DEF LifeInv, ControllerTypeOK
    <2>5. wanted[c] = config \/ c \in changed
      BY <1>1 DEF Current, At
    <2>6. QED
      BY <2>4, <2>5
  <1>2. ASSUME LifeInv, Current, [ControllerNext]_vars
        PROVE  \A c \in Callers :
                 At(c, "spawn") /\ op[c] = "window" /\ pc'[c] # "spawn" =>
                   cfg'[handle'] = wanted[c] \/ c \in changed
    BY <1>1, <1>2
  <1>3. QED
    BY <1>2, LifeInvariant, CurrentInvariant, PTL DEF ControllerSpec, WindowStartsVerified

-----------------------------------------------------------------------------
(* What a set of tasks serves, as a function of their stages. *)
ServedBy(stage, conf) ==
  IF \E t \in Tasks : stage[t] # "ended"
  THEN conf[CHOOSE t \in Tasks : stage[t] # "ended"]
  ELSE None

LEMMA OnlyOneServes ==
  ASSUME NEW stage, NEW conf, NEW t \in Tasks, stage[t] # "ended",
         \A u \in Tasks : stage[u] # "ended" => u = t
  PROVE  ServedBy(stage, conf) = conf[t]
  BY DEF ServedBy

LEMMA ServedNow == serving = ServedBy(task, cfg)
  BY DEF serving, ServedBy, Live

LEMMA ServedNext == serving' = ServedBy(task', cfg')
  BY DEF serving, ServedBy, Live

(* At most one task is alive, whoever holds which lock. *)
LEMMA OneLives ==
  ASSUME LifeInv, NEW t \in Tasks, NEW u \in Tasks, Live(t), Live(u)
  PROVE  t = u
  <1>1. CASE handleLock = None
    BY <1>1 DEF LifeInv, HandleFree
  <1>2. CASE handleLock # None
    <2>1. PICK c \in Callers : pc[c] \in {"spawn", "abort", "join", "stopped"}
      BY <1>2 DEF LifeInv, ControllerTypeOK, LockPoints, HeldAt
    <2>2. QED
      BY <2>1 DEF LifeInv, Spawning, Joining, NobodyLives, At
  <1>3. QED
    BY <1>1, <1>2

LEMMA CallerRefines ==
  ASSUME LifeInv, LifeInv', NEW c \in Callers, Invoke(c) \/ CallerStep(c)
  PROVE  [Lifecycle!Next]_Lifecycle!vars
  <1> USE DEF Lifecycle!Next, Lifecycle!vars
  <1>1. CASE Spawn(c)
    <2>1. PICK t \in Tasks : ~Live(t) /\ MoveTo(t, "spawned") /\ cfg' = [cfg EXCEPT ![t] = config]
      BY <1>1 DEF Spawn
    <2>2. \A u \in Tasks : ~Live(u)
      BY <1>1 DEF Spawn, LifeInv, Spawning, NobodyLives
    <2>3. serving = None
      BY <2>2, ServedNow DEF ServedBy, Live
    <2>4. task'[t] # "ended" /\ \A u \in Tasks : task'[u] # "ended" => u = t
      BY <2>1, <2>2 DEF MoveTo, Live, LifeInv, ControllerTypeOK
    <2>5. serving' = cfg'[t]
      BY <2>4, ServedNext, OnlyOneServes
    <2>6. cfg'[t] = config /\ config' = config
      BY <1>1, <2>1 DEF Spawn, LifeInv, ControllerTypeOK
    <2>7. QED
      BY <2>3, <2>5, <2>6 DEF Lifecycle!Launch
  <1>2. CASE Store(c)
    <2>1. serving' = serving
      BY <1>2 DEF Store, tasks, serving, Live
    <2>2. QED
      BY <2>1 DEF Lifecycle!Configure, LifeInv, ControllerTypeOK
  <1>3. CASE ~Spawn(c) /\ ~Store(c)
    <2>1. UNCHANGED <<config, task, cfg>>
      BY <1>3 DEF CallerStep, Invoke, ReadConfig, VerifyFails, Verified, Enter, Leave,
                  StartLocksStatus, AlreadyStarted, BeginStart, StopLocksStatus, NothingToStop,
                  TakeHandle, Abort, Join, Stopped, IsRunning, tasks
    <2>2. QED
      BY <2>1 DEF serving, Live
  <1>4. QED
    BY <1>1, <1>2, <1>3

LEMMA TaskRefines ==
  ASSUME LifeInv, NEW t \in Tasks, TaskStep(t)
  PROVE  [Lifecycle!Next]_Lifecycle!vars
  <1> USE DEF Lifecycle!Next, Lifecycle!vars
  <1>1. Live(t) /\ config' = config
    BY DEF TaskStep, Begin, Bind, RunFails, ReportError, Dropped, Live
  <1>2. \A u \in Tasks : task[u] # "ended" => u = t
    BY <1>1, OneLives DEF Live
  <1>3. serving = cfg[t]
    BY <1>1, <1>2, ServedNow, OnlyOneServes DEF Live
  <1>4. CASE Begin(t) \/ Bind(t) \/ RunFails(t)
    <2>1. cfg' = cfg /\ task'[t] # "ended" /\ \A u \in Tasks : task'[u] # "ended" => u = t
      BY <1>2, <1>4 DEF Begin, Bind, RunFails, MoveTo, LifeInv, ControllerTypeOK
    <2>2. serving' = cfg'[t]
      BY <2>1, ServedNext, OnlyOneServes
    <2>3. QED
      BY <1>1, <1>3, <2>1, <2>2
  <1>5. CASE ReportError(t) \/ Dropped(t)
    <2>1. \A u \in Tasks : task'[u] = "ended"
      BY <1>2, <1>5 DEF ReportError, Dropped, End, MoveTo, LifeInv, ControllerTypeOK
    <2>2. serving' = None
      BY <2>1, ServedNext DEF ServedBy
    <2>3. serving # None
      BY <1>1, <1>3 DEF LifeInv, ControllerTypeOK, Live
    <2>4. QED
      BY <1>1, <2>2, <2>3 DEF Lifecycle!Quit
  <1>6. QED
    BY <1>4, <1>5 DEF TaskStep

(***************************************************************************)
(* The controller implements the abstract lifecycle: Spawn launches, the   *)
(* store of update_config configures, the end of a task quits, and every   *)
(* other step of a caller or of the task is invisible.                     *)
(***************************************************************************)
THEOREM ControllerRefinesLifecycle == ControllerSpec => ImplementsLifecycle
  <1>1. ControllerInit => Lifecycle!Init
    BY DEF ControllerInit, Lifecycle!Init, serving, Live
  <1>2. ASSUME LifeInv, LifeInv', [ControllerNext]_vars
        PROVE  [Lifecycle!Next]_Lifecycle!vars
    <2>1. CASE UNCHANGED vars
      BY <2>1 DEF vars, tasks, Lifecycle!vars, serving, Live
    <2>2. QED
      BY <1>2, <2>1, CallerRefines, TaskRefines DEF ControllerNext
  <1>3. QED
    BY <1>1, <1>2, LifeInvariant, PTL DEF ControllerSpec, ImplementsLifecycle, Lifecycle!Spec
=============================================================================
