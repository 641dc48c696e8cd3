------------------------- MODULE TaskScheduler_proofs -------------------------
(***************************************************************************)
(* For any number of tasks, checkpoints, loops and threads: typing of the  *)
(* scheduler, and that neither a task nor a checkpoint is run by two       *)
(* threads at once when runs fit their lease, that a task shown as RUNNING *)
(* is run, and that one loop fires a task once a minute.                   *)
(***************************************************************************)
EXTENDS TaskScheduler, TLAPS

USE TaskSchedulerAssumption

LEMMA LocksType ==
  ASSUME TypeOK, NEW w \in Worker
  PROVE  TaskLock(w) \in LockId /\ EngineLock(w) \in LockId /\ TaskLock(w) # EngineLock(w)
  BY DEF TypeOK, TaskLock, EngineLock, CheckpointOf, LockId

------------------------------------------------------------------------------
(* Typing                                                                  *)

TableType ==
    /\ status \in [Task -> {"UNBORN", "DELETED", "ACTIVE", "PAUSED", "RUNNING", "FAILED"}]
    /\ enabled \in [Task -> BOOLEAN]
    /\ schedule \in [Task -> 0..Time-1]
LoopType ==
    /\ minute \in 0..MaxMinute
    /\ lastChecked \in -1..MaxMinute
    /\ lpc \in [Loop -> {"off", "wake", "compare", "mark", "snapshot", "fire"}]
    /\ seen \in [Loop -> 0..MaxMinute]
    /\ due \in [Loop -> SUBSET Task]
WorkType ==
    /\ wpc \in [Worker -> {"idle", "get", "lock", "mark", "call", "engine",
                           "succeed", "fail", "release"}]
    /\ wtask \in [Worker -> Task]
    /\ wmode \in [Worker -> Mode]
    /\ slot \in [Worker -> -1..MaxMinute]
    /\ executed \subseteq Task \X (0..MaxMinute) \X (0..MaxRestarts)
    /\ restarts \in 0..MaxRestarts

LEMMA InitType == Init => TypeOK
<1> SUFFICES ASSUME Init PROVE TypeOK
  OBVIOUS
<1>1. TableType
  BY DEF Init, TableType
<1>2. LoopType
  BY DEF Init, LoopType
<1>3. WorkType
  BY DEF Init, WorkType
<1>4. LL!TypeOK
  BY DEF Init, LL!Init, LL!TypeOK
<1>5. on \in BOOLEAN
  BY DEF Init
<1>6. QED
  BY <1>1, <1>2, <1>3, <1>4, <1>5 DEF TypeOK, TableType, LoopType, WorkType

LEMMA TableStep == TypeOK /\ [Next]_vars => TableType'
<1> SUFFICES ASSUME TypeOK, [Next]_vars PROVE TableType'
  OBVIOUS
<1> USE DEF TypeOK, TableType
<1>1. ASSUME NEW t \in Task, CreateTask(t) \/ DeleteTask(t) PROVE TableType'
  BY <1>1 DEF CreateTask, DeleteTask
<1>2. ASSUME NEW t \in Task, UpdateTask(t) PROVE TableType'
  BY <1>2 DEF UpdateTask
<1>3. ASSUME NEW w \in Worker, MarkRunning(w) \/ RecordSuccess(w) \/ RecordFailure(w)
      PROVE  TableType'
  BY <1>3 DEF MarkRunning, RecordSuccess, RecordFailure, SetStatus, NotWork
<1>4. CASE UNCHANGED taskVars
  BY <1>4 DEF taskVars
<1>5. QED
  BY <1>1, <1>2, <1>3, <1>4
     DEF Next, vars, taskVars, NotLoops, NotWork, LoopStep, WorkerStep, StartLoop,
         StopLoops, Wake, Compare, Mark, Snapshot, Fire, Sleep, RunNow, GetTask,
         LockTask, CallEngine, EngineReturns, ReleaseTask, Tick, LeaseEnds, Restart

LEMMA OnStep == TypeOK /\ [Next]_vars => (on \in BOOLEAN)'
<1> SUFFICES ASSUME on \in BOOLEAN, [Next]_vars PROVE on' \in BOOLEAN
  BY DEF TypeOK
<1> QED
  BY DEF Next, vars, loopVars, LoopStep, WorkerStep, CreateTask, UpdateTask,
         DeleteTask, NotWork, StartLoop, StopLoops, Wake, Compare, Mark, Snapshot,
         Fire, Sleep, RunNow, GetTask, LockTask, MarkRunning, CallEngine,
         EngineReturns, RecordSuccess, RecordFailure, ReleaseTask, Tick,
         LeaseEnds, Restart

LEMMA LoopTypeStep == TypeOK /\ [Next]_vars => LoopType'
<1> SUFFICES ASSUME TypeOK, [Next]_vars PROVE LoopType'
  OBVIOUS
<1> USE DEF TypeOK, LoopType, LoopGoto, LoopSleeps
<1>1. ASSUME NEW i \in Loop, StartLoop(i) \/ Wake(i) \/ Compare(i) \/ Mark(i)
      PROVE  LoopType'
  BY <1>1 DEF StartLoop, Wake, Compare, Mark, NotLoops
<1>2. ASSUME NEW i \in Loop, Snapshot(i) \/ Sleep(i) PROVE LoopType'
  BY <1>2 DEF Snapshot, Sleep, NotLoops
<1>3. ASSUME NEW i \in Loop, NEW w \in Worker, Fire(i, w) PROVE LoopType'
  BY <1>3 DEF Fire
<1>4. CASE StopLoops \/ Tick
  BY <1>4 DEF StopLoops, Tick, NotLoops, loopVars
<1>5. CASE UNCHANGED <<minute, loopVars>>
  BY <1>5 DEF loopVars
<1>6. CASE Restart
  BY <1>6 DEF Restart
<1>7. QED
  BY <1>1, <1>2, <1>3, <1>4, <1>5, <1>6
     DEF Next, vars, LoopStep, WorkerStep, CreateTask, UpdateTask, DeleteTask,
         NotWork, RunNow, GetTask, LockTask, MarkRunning, CallEngine,
         EngineReturns, RecordSuccess, RecordFailure, ReleaseTask, LeaseEnds

LEMMA WorkTypeStep == TypeOK /\ [Next]_vars => WorkType'
<1> SUFFICES ASSUME TypeOK, [Next]_vars PROVE WorkType'
  OBVIOUS
<1> USE DEF TypeOK, WorkType, WorkGoto, WorkDone
<1>1. ASSUME NEW i \in Loop, NEW w \in Worker, Fire(i, w) PROVE WorkType'
  BY <1>1 DEF Fire
<1>2. ASSUME NEW w \in Worker, LockTask(w) PROVE WorkType'
  BY <1>2 DEF LockTask, NotWork
<1>3. ASSUME NEW w \in Worker, GetTask(w) \/ MarkRunning(w) \/ CallEngine(w)
                               \/ EngineReturns(w) \/ RecordSuccess(w)
                               \/ RecordFailure(w) \/ ReleaseTask(w)
      PROVE WorkType'
  BY <1>3 DEF GetTask, MarkRunning, CallEngine, EngineReturns, RecordSuccess,
              RecordFailure, ReleaseTask, NotWork
<1>4. ASSUME NEW w \in Worker, NEW t \in Task, RunNow(w, t) PROVE WorkType'
  BY <1>4 DEF RunNow
<1>5. CASE Restart
  BY <1>5 DEF Restart
<1>6. CASE UNCHANGED <<workVars, executed, restarts>>
  BY <1>6 DEF workVars
<1>7. QED
  BY <1>1, <1>2, <1>3, <1>4, <1>5, <1>6
     DEF Next, vars, LoopStep, WorkerStep, CreateTask, UpdateTask, DeleteTask,
         NotLoops, StartLoop, StopLoops, Wake, Compare, Mark, Snapshot, Sleep,
         Tick, LeaseEnds

LEMMA LockStep == TypeOK /\ [Next]_vars => LL!TypeOK'
<1> SUFFICES ASSUME TypeOK, [Next]_vars PROVE LL!TypeOK'
  OBVIOUS
<1> USE DEF TypeOK, LL!TypeOK
<1>1. ASSUME NEW w \in Worker, LockTask(w) \/ ReleaseTask(w) PROVE LL!TypeOK'
  BY <1>1, LocksType DEF LockTask, ReleaseTask, LL!Acquire, LL!Release, LL!Leave,
                         lockVars
<1>2. ASSUME NEW w \in Worker, CallEngine(w) \/ EngineReturns(w) PROVE LL!TypeOK'
  BY <1>2, LocksType DEF CallEngine, EngineReturns, LL!Acquire, LL!Release,
                         LL!Leave, lockVars
<1>3. CASE LeaseEnds
  BY <1>3 DEF LeaseEnds, LL!Lapse, LL!Purge
<1>4. CASE Restart
  BY <1>4 DEF Restart, LL!Leave
<1>5. CASE UNCHANGED lockVars
  BY <1>5 DEF lockVars
<1>6. QED
  BY <1>1, <1>2, <1>3, <1>4, <1>5
     DEF Next, vars, LoopStep, WorkerStep, CreateTask, UpdateTask, DeleteTask,
         NotLoops, StartLoop, StopLoops, Wake, Compare, Mark, Snapshot, Fire,
         Sleep, RunNow, GetTask, MarkRunning, RecordSuccess, RecordFailure, Tick

\* Every variable keeps its type: in particular status takes no value that the
\* loop's test does not know, whoever updates, deletes and runs a task meanwhile.
THEOREM TypeCorrect == Spec => []TypeOK
<1>1. TypeOK /\ [Next]_vars => TypeOK'
  BY TableStep, OnStep, LoopTypeStep, WorkTypeStep, LockStep
     DEF TypeOK, TableType, LoopType, WorkType
<1>2. QED
  BY <1>1, InitType, PTL DEF Spec

------------------------------------------------------------------------------
(* The durable locks                                                       *)

\* The locks a thread is inside of: its task's, and the engine's as well while
\* it is in the engine.
Uses(w, l) ==
    \/ Inside(w) /\ l = TaskLock(w)
    \/ wpc[w] = "engine" /\ l = EngineLock(w)

\* Nobody else is inside a lock; when runs fit their lease the entry of a lock
\* in use is live, so that nobody can join its user.
HoldsLocks ==
    /\ \A l \in LockId : inside[l] = {w \in Worker : Uses(w, l)}
    /\ RunsFitLease => \A w \in Worker, l \in LockId : Uses(w, l) => row[l] = "live"
    /\ RunsFitLease => \A v, w \in Worker, l \in LockId : Uses(v, l) /\ Uses(w, l) => v = w

\* A thread joins a lock and stays in those it uses.
LEMMA JoinLock ==
  ASSUME TypeOK, HoldsLocks, NEW w \in Worker, NEW k \in LockId, LL!Acquire(w, k),
         \A v \in Worker, l \in LockId :
           Uses(v, l)' <=> Uses(v, l) \/ (v = w /\ l = k)
  PROVE  HoldsLocks'
<1> USE DEF TypeOK, LL!TypeOK, HoldsLocks, LL!Acquire
<1>1. \A l \in LockId : inside'[l] = {v \in Worker : Uses(v, l)'}
  OBVIOUS
<1>2. ASSUME RunsFitLease, NEW v \in Worker, NEW l \in LockId, Uses(v, l)'
      PROVE  row'[l] = "live"
  BY <1>2
<1>3. ASSUME RunsFitLease, NEW v \in Worker PROVE ~Uses(v, k)
  BY <1>3
<1>4. RunsFitLease => \A u, v \in Worker, l \in LockId : (Uses(u, l) /\ Uses(v, l))' => u = v
  BY <1>3
<1>5. QED
  BY <1>1, <1>2, <1>4

\* With one user per lock, a release takes away no other user's entry; where
\* the release failed the entry stays, and stays live.
LEMMA QuitLock ==
  ASSUME TypeOK, HoldsLocks, NEW w \in Worker, NEW k \in LockId,
         LL!Release(w, k) \/ LL!Leave({w}, {k}), Uses(w, k),
         \A v \in Worker, l \in LockId :
           Uses(v, l)' <=> Uses(v, l) /\ ~(v = w /\ l = k)
  PROVE  HoldsLocks'
<1> USE DEF TypeOK, LL!TypeOK, HoldsLocks, LL!Release, LL!Leave
<1>1. \A l \in LockId : inside'[l] = {v \in Worker : Uses(v, l)'}
  OBVIOUS
<1>2. ASSUME RunsFitLease, NEW v \in Worker, NEW l \in LockId, Uses(v, l)'
      PROVE  row'[l] = "live"
  <2>1. l # k
    BY <1>2
  <2>2. QED
    BY <1>2, <2>1
<1>3. RunsFitLease => \A u, v \in Worker, l \in LockId : (Uses(u, l) /\ Uses(v, l))' => u = v
  OBVIOUS
<1>4. QED
  BY <1>1, <1>2, <1>3

LEMMA KeepLocks ==
  ASSUME HoldsLocks, UNCHANGED lockVars,
         \A v \in Worker, l \in LockId : Uses(v, l)' <=> Uses(v, l)
  PROVE  HoldsLocks'
  BY DEF HoldsLocks, lockVars

LEMMA HoldsLocksStep == TypeOK /\ HoldsLocks /\ [Next]_vars => HoldsLocks'
<1> SUFFICES ASSUME TypeOK, HoldsLocks, [Next]_vars PROVE HoldsLocks'
  OBVIOUS
<1> USE DEF WorkGoto, WorkDone
<1>1. ASSUME NEW w \in Worker, LockTask(w) PROVE HoldsLocks'
  <2>1. CASE LL!Acquire(w, TaskLock(w)) /\ WorkGoto(w, "mark")
    <3>1. \A v \in Worker, l \in LockId :
            Uses(v, l)' <=> Uses(v, l) \/ (v = w /\ l = TaskLock(w))
      BY <1>1, <2>1 DEF LockTask, Uses, Inside, TaskLock, EngineLock, TypeOK
    <3>2. QED
      BY <2>1, <3>1, LocksType, JoinLock
  <2>2. CASE WorkDone(w) /\ UNCHANGED lockVars
    <3>1. \A v \in Worker, l \in LockId : Uses(v, l)' <=> Uses(v, l)
      BY <1>1, <2>2 DEF LockTask, Uses, Inside, TaskLock, EngineLock, TypeOK
    <3>2. QED
      BY <2>2, <3>1, KeepLocks
  <2>3. QED
    BY <1>1, <2>1, <2>2 DEF LockTask, lockVars
<1>2. ASSUME NEW w \in Worker, CallEngine(w) PROVE HoldsLocks'
  <2>1. CASE LL!Acquire(w, EngineLock(w)) /\ WorkGoto(w, "engine")
    <3>1. \A v \in Worker, l \in LockId :
            Uses(v, l)' <=> Uses(v, l) \/ (v = w /\ l = EngineLock(w))
      BY <1>2, <2>1 DEF CallEngine, Uses, Inside, TaskLock, EngineLock, TypeOK
    <3>2. QED
      BY <2>1, <3>1, LocksType, JoinLock
  <2>2. CASE UNCHANGED lockVars /\ (WorkGoto(w, "succeed") \/ WorkGoto(w, "fail"))
    <3>1. \A v \in Worker, l \in LockId : Uses(v, l)' <=> Uses(v, l)
      BY <1>2, <2>2 DEF CallEngine, Uses, Inside, TaskLock, EngineLock, TypeOK
    <3>2. QED
      BY <2>2, <3>1, KeepLocks
  <2>3. QED
    BY <1>2, <2>1, <2>2 DEF CallEngine
<1>3. ASSUME NEW w \in Worker, EngineReturns(w) PROVE HoldsLocks'
  <2>1. Uses(w, EngineLock(w))
    BY <1>3 DEF EngineReturns, Uses
  <2>2. /\ LL!Release(w, EngineLock(w)) \/ LL!Leave({w}, {EngineLock(w)})
        /\ WorkGoto(w, "succeed") \/ WorkGoto(w, "fail")
    BY <1>3 DEF EngineReturns
  <2>3. \A v \in Worker, l \in LockId :
          Uses(v, l)' <=> Uses(v, l) /\ ~(v = w /\ l = EngineLock(w))
    <3>1. EngineLock(w) # TaskLock(w)
      BY LocksType
    <3>2. QED
      BY <1>3, <2>2, <3>1 DEF EngineReturns, Uses, Inside, TaskLock, EngineLock, TypeOK
  <2>4. QED
    BY <2>1, <2>2, <2>3, LocksType, QuitLock
<1>4. ASSUME NEW w \in Worker, ReleaseTask(w) PROVE HoldsLocks'
  <2>1. Uses(w, TaskLock(w))
    BY <1>4 DEF ReleaseTask, Uses, Inside
  <2>2. LL!Release(w, TaskLock(w)) \/ LL!Leave({w}, {TaskLock(w)})
    BY <1>4 DEF ReleaseTask
  <2>3. \A v \in Worker, l \in LockId :
          Uses(v, l)' <=> Uses(v, l) /\ ~(v = w /\ l = TaskLock(w))
    BY <1>4 DEF ReleaseTask, Uses, Inside, TaskLock, EngineLock, TypeOK
  <2>4. QED
    BY <2>1, <2>2, <2>3, LocksType, QuitLock
<1>5. ASSUME UNCHANGED lockVars,
             \A v \in Worker : /\ Inside(v)' <=> Inside(v)
                               /\ wpc'[v] = "engine" <=> wpc[v] = "engine"
                               /\ Inside(v) => wtask'[v] = wtask[v] /\ wmode'[v] = wmode[v]
      PROVE  HoldsLocks'
  <2>1. \A v \in Worker, l \in LockId : Uses(v, l)' <=> Uses(v, l)
    BY <1>5 DEF Uses, TaskLock, EngineLock, Inside
  <2>2. QED
    BY <1>5, <2>1, KeepLocks
<1>6. ASSUME NEW w \in Worker, MarkRunning(w) \/ RecordSuccess(w) \/ RecordFailure(w)
                               \/ GetTask(w)
      PROVE HoldsLocks'
  BY <1>5, <1>6 DEF MarkRunning, RecordSuccess, RecordFailure, GetTask, Inside, TypeOK
<1>7. ASSUME NEW w \in Worker, NEW t \in Task, RunNow(w, t) PROVE HoldsLocks'
  BY <1>5, <1>7 DEF RunNow, Inside, TypeOK
<1>8. ASSUME NEW i \in Loop, NEW w \in Worker, Fire(i, w) PROVE HoldsLocks'
  BY <1>5, <1>8 DEF Fire, Inside, TypeOK
<1>9. CASE LeaseEnds
  <2>1. PICK S \in SUBSET LockId : LL!Lapse(S) \/ LL!Purge(S)
    BY <1>9 DEF LeaseEnds
  <2>2. inside' = inside /\ UNCHANGED workVars
    BY <1>9, <2>1 DEF LeaseEnds, LL!Lapse, LL!Purge
  <2>3. \A v \in Worker, l \in LockId : Uses(v, l)' <=> Uses(v, l)
    BY <2>2 DEF workVars, Uses, Inside, TaskLock, EngineLock
  <2>4. RunsFitLease => \A w \in Worker, l \in LockId : Uses(w, l) => row'[l] = "live"
    <3> SUFFICES ASSUME RunsFitLease, NEW w \in Worker, NEW l \in LockId, Uses(w, l)
                 PROVE  row'[l] = "live"
      OBVIOUS
    <3>1. row[l] = "live" /\ w \in inside[l]
      BY DEF HoldsLocks
    <3>2. l \notin S
      BY <2>1, <3>1 DEF LL!Lapse, LL!Purge
    <3>3. QED
      BY <2>1, <3>1, <3>2 DEF LL!Lapse, LL!Purge
  <2>5. QED
    BY <2>2, <2>3, <2>4 DEF HoldsLocks
<1>10. CASE Restart
  <2>1. \A v \in Worker, l \in LockId : ~Uses(v, l)'
    BY <1>10 DEF Restart, Uses, Inside
  <2>2. \A l \in LockId : inside'[l] = {}
    BY <1>10 DEF Restart, LL!Leave, TypeOK, LL!TypeOK
  <2>3. QED
    BY <2>1, <2>2 DEF HoldsLocks
<1>11. CASE UNCHANGED <<workVars, lockVars>>
  BY <1>5, <1>11 DEF workVars, Inside
<1>12. QED
  BY <1>1, <1>2, <1>3, <1>4, <1>6, <1>7, <1>8, <1>9, <1>10, <1>11
     DEF Next, vars, LoopStep, WorkerStep, CreateTask, UpdateTask, DeleteTask,
         NotLoops, StartLoop, StopLoops, Wake, Compare, Mark, Snapshot, Sleep, Tick

LEMMA LocksHeld == Spec => []HoldsLocks
<1>1. Init => HoldsLocks
  BY DEF Init, LL!Init, HoldsLocks, Uses, Inside
<1>2. QED
  BY <1>1, HoldsLocksStep, TypeCorrect, PTL DEF Spec

\* As long as runs fit their lease, no two threads run one task, scheduled,
\* manual or both, whatever statements fail and however often loops stop and
\* start and the backend restarts.
THEOREM OneRunPerTask == ASSUME RunsFitLease PROVE Spec => []SingleRunPerTask
<1>1. TypeOK /\ HoldsLocks => SingleRunPerTask
  BY LocksType DEF HoldsLocks, Uses, SingleRunPerTask, TaskLock
<1>2. QED
  BY <1>1, LocksHeld, TypeCorrect, PTL

\* Nor do two threads run one checkpoint, although many tasks share the opening
\* scan.
THEOREM OneRunPerCheckpoint == ASSUME RunsFitLease PROVE Spec => []SingleRunPerCheckpoint
<1>1. TypeOK /\ HoldsLocks => SingleRunPerCheckpoint
  BY LocksType DEF HoldsLocks, Uses, SingleRunPerCheckpoint, EngineLock
<1>2. QED
  BY <1>1, LocksHeld, TypeCorrect, PTL
------------------------------------------------------------------------------
(* Who sets RUNNING back                                                   *)

Runs(w, t) == wtask[w] = t /\ wpc[w] \in {"call", "engine", "succeed", "fail"}

LEMMA RunnerStep ==
  ASSUME ~DbMayFail, MaxRestarts = 0
  PROVE  TypeOK /\ RunningHasRunner /\ [Next]_vars => RunningHasRunner'
<1> SUFFICES ASSUME TypeOK, RunningHasRunner, [Next]_vars,
                    NEW t \in Task, status'[t] = "RUNNING"
             PROVE  \E w \in Worker : Runs(w, t)'
  BY DEF RunningHasRunner, Runs
<1> USE DEF TypeOK, WorkGoto, WorkDone, SetStatus, Exists
<1>1. status[t] = "RUNNING" => \E w \in Worker : Runs(w, t)
  BY DEF RunningHasRunner, Runs
<1>2. ASSUME status[t] = "RUNNING", \A v \in Worker : Runs(v, t) => Runs(v, t)'
      PROVE  \E w \in Worker : Runs(w, t)'
  BY <1>1, <1>2
<1>3. ASSUME NEW w \in Worker, MarkRunning(w) PROVE \E v \in Worker : Runs(v, t)'
  <2>1. CASE wtask[w] = t
    BY <1>3, <2>1 DEF MarkRunning, Runs
  <2>2. CASE wtask[w] # t
    BY <1>2, <1>3, <2>2 DEF MarkRunning, Runs
  <2>3. QED
    BY <2>1, <2>2
<1>4. ASSUME NEW w \in Worker, RecordSuccess(w) \/ RecordFailure(w)
      PROVE  \E v \in Worker : Runs(v, t)'
  <2>1. status[t] = "RUNNING" /\ wtask[w] # t
    BY <1>4 DEF RecordSuccess, RecordFailure
  <2>2. QED
    BY <1>2, <1>4, <2>1 DEF RecordSuccess, RecordFailure, Runs
<1>5. ASSUME NEW w \in Worker,
             GetTask(w) \/ LockTask(w) \/ CallEngine(w) \/ EngineReturns(w) \/ ReleaseTask(w)
      PROVE  \E v \in Worker : Runs(v, t)'
  BY <1>2, <1>5 DEF GetTask, LockTask, CallEngine, EngineReturns, ReleaseTask, Runs
<1>6. ASSUME NEW w \in Worker, NEW u \in Task, RunNow(w, u)
      PROVE  \E v \in Worker : Runs(v, t)'
  BY <1>2, <1>6 DEF RunNow, taskVars, Runs
<1>7. ASSUME NEW i \in Loop, NEW w \in Worker, Fire(i, w)
      PROVE  \E v \in Worker : Runs(v, t)'
  BY <1>2, <1>7 DEF Fire, taskVars, Runs
<1>8. ASSUME NEW u \in Task, CreateTask(u) \/ UpdateTask(u) \/ DeleteTask(u)
      PROVE  \E v \in Worker : Runs(v, t)'
  <2>1. status[t] = "RUNNING" /\ UNCHANGED workVars
    BY <1>8 DEF CreateTask, UpdateTask, DeleteTask
  <2>2. QED
    BY <1>2, <2>1 DEF workVars, Runs
<1>9. ~Restart
  BY DEF Restart
<1>10. CASE UNCHANGED <<taskVars, workVars>>
  BY <1>2, <1>10 DEF taskVars, workVars, Runs
<1>11. QED
  BY <1>3, <1>4, <1>5, <1>6, <1>7, <1>8, <1>9, <1>10
     DEF Next, vars, LoopStep, WorkerStep, NotLoops, StartLoop, StopLoops, Wake,
         Compare, Mark, Snapshot, Sleep, Tick, LeaseEnds

\* As long as no statement raises and the backend does not restart, a task that
\* is shown as RUNNING is being run by a thread that will set its status again,
\* even when it is paused, deleted or run twice meanwhile.
THEOREM RunningIsRun ==
  ASSUME ~DbMayFail, MaxRestarts = 0
  PROVE  Spec => []RunningHasRunner
<1>1. Init => RunningHasRunner
  BY DEF Init, RunningHasRunner
<1>2. QED
  BY <1>1, RunnerStep, TypeCorrect, PTL DEF Spec
------------------------------------------------------------------------------
(* One loop fires a task once per minute                                   *)

\* `_last_checked_minute` is never ahead of the clock, and the loop goes past
\* its test only with a minute that is.
LoopMinute(i) ==
    /\ seen[i] <= minute
    /\ lpc[i] = "compare" => lastChecked <= seen[i]
    /\ lpc[i] = "mark" => lastChecked < seen[i]
    /\ lpc[i] \in {"snapshot", "fire"} => lastChecked = seen[i]
    /\ lpc[i] # "fire" => due[i] = {}

\* Runs of this start of the backend are for minutes that were marked.
MarkedBefore ==
    /\ lastChecked <= minute
    /\ \A w \in Worker : slot[w] <= lastChecked /\ (wpc[w] = "idle" => slot[w] = -1)
    /\ \A t \in Task, m \in 0..MaxMinute, k \in 0..MaxRestarts :
         <<t, m, k>> \in executed => k <= restarts /\ (k = restarts => m <= lastChecked)

\* Nothing runs or ran yet for a minute that is marked and not read out.
FreshMinute(i) ==
    lpc[i] = "snapshot" =>
      /\ \A w \in Worker : slot[w] < lastChecked
      /\ \A t \in Task, m \in 0..MaxMinute :
           <<t, m, restarts>> \in executed => m < lastChecked

\* Nor for a task that is still to be fired.
DueUnfired(i) ==
    \A t \in due[i] :
      /\ <<t, seen[i], restarts>> \notin executed
      /\ \A w \in Worker : ~(wtask[w] = t /\ slot[w] = seen[i])

FiredOnce ==
    \A v, w \in Worker :
      slot[v] # -1 /\ slot[v] = slot[w] /\ wtask[v] = wtask[w] => v = w

PendingNotRun ==
    \A w \in Worker :
      slot[w] # -1 /\ wpc[w] \in {"get", "lock"} =>
        <<wtask[w], slot[w], restarts>> \notin executed

MinuteInv ==
    /\ MarkedBefore /\ FiredOnce /\ PendingNotRun
    /\ \A i \in Loop : LoopMinute(i) /\ FreshMinute(i) /\ DueUnfired(i)

LEMMA MinuteInvStep ==
  ASSUME \A i, j \in Loop : i = j
  PROVE  TypeOK /\ MinuteInv /\ [Next]_vars => MinuteInv'
<1> SUFFICES ASSUME TypeOK, MinuteInv, [Next]_vars PROVE MinuteInv'
  OBVIOUS
<1> USE DEF TypeOK, MinuteInv, LoopMinute, MarkedBefore, FreshMinute, DueUnfired,
            FiredOnce, PendingNotRun
<1>1. ASSUME NEW i \in Loop, StartLoop(i) \/ Wake(i) \/ Compare(i) \/ Sleep(i)
      PROVE  MinuteInv'
  <2>1. CASE StartLoop(i)
    BY <2>1 DEF StartLoop, LoopGoto, NotLoops, workVars
  <2>2. CASE Wake(i)
    BY <2>2 DEF Wake, LoopGoto, NotLoops, workVars
  <2>3. CASE Compare(i)
    <3>1. CASE lastChecked # seen[i] /\ LoopGoto(i, "mark") /\ UNCHANGED seen
      <4>1. /\ lpc[i] = "compare" /\ lpc' = [lpc EXCEPT ![i] = "mark"]
            /\ UNCHANGED <<minute, lastChecked, seen, due, wpc, wtask, slot, executed, restarts>>
        BY <2>3, <3>1 DEF Compare, LoopGoto, NotLoops, workVars
      <4>2. lastChecked < seen[i] /\ due[i] = {}
        <5>1. LoopMinute(i) /\ lastChecked \in Int /\ seen[i] \in Int
          OBVIOUS
        <5>2. lastChecked <= seen[i] /\ due[i] = {}
          BY <4>1, <5>1
        <5> HIDE DEF LoopMinute, MarkedBefore, FreshMinute, DueUnfired, FiredOnce,
                     PendingNotRun, TypeOK, MinuteInv
        <5>3. QED
          BY <3>1, <5>1, <5>2
      <4>3. QED
        BY <4>1, <4>2
    <3>2. CASE LoopSleeps(i)
      BY <2>3, <3>2 DEF Compare, LoopGoto, LoopSleeps, NotLoops, workVars
    <3>3. QED
      BY <2>3, <3>1, <3>2 DEF Compare
  <2>4. CASE Sleep(i)
    BY <2>4 DEF Sleep, LoopGoto, LoopSleeps, NotLoops, workVars
  <2>5. QED
    BY <1>1, <2>1, <2>2, <2>3, <2>4
<1>2. ASSUME NEW i \in Loop, Mark(i) PROVE MinuteInv'
  BY <1>2 DEF Mark, LoopGoto, NotLoops, workVars
<1>3. ASSUME NEW i \in Loop, Snapshot(i) PROVE MinuteInv'
  BY <1>3 DEF Snapshot, LoopGoto, LoopSleeps, NotLoops, workVars
<1>4. ASSUME NEW i \in Loop, NEW w \in Worker, Fire(i, w) PROVE MinuteInv'
  <2>1. PICK t \in due[i] : /\ due' = [due EXCEPT ![i] = @ \ {t}]
                            /\ wtask' = [wtask EXCEPT ![w] = t]
    BY <1>4 DEF Fire
  <2>2. /\ lpc[i] = "fire" /\ wpc[w] = "idle"
        /\ wpc' = [wpc EXCEPT ![w] = "get"]
        /\ slot' = [slot EXCEPT ![w] = seen[i]]
        /\ UNCHANGED <<minute, lastChecked, lpc, seen, executed, restarts>>
    BY <1>4 DEF Fire
  <2>3. /\ <<t, seen[i], restarts>> \notin executed
        /\ \A v \in Worker : ~(wtask[v] = t /\ slot[v] = seen[i])
    OBVIOUS
  <2>4. MarkedBefore' /\ PendingNotRun'
    BY <2>1, <2>2, <2>3
  <2>5. FiredOnce'
    BY <2>1, <2>2, <2>3
  <2>6. LoopMinute(i)' /\ FreshMinute(i)'
    BY <2>1, <2>2
  <2>7. DueUnfired(i)'
    BY <2>1, <2>2, <2>3
  <2>8. QED
    BY <2>4, <2>5, <2>6, <2>7
<1>5. ASSUME NEW w \in Worker, NEW t \in Task, RunNow(w, t) PROVE MinuteInv'
  BY <1>5 DEF RunNow, loopVars
<1>6. ASSUME NEW w \in Worker, wpc[w] # "idle", WorkDone(w),
             UNCHANGED <<minute, loopVars, executed, restarts>>
      PROVE  MinuteInv'
  BY <1>6 DEF WorkDone, loopVars
<1>7. ASSUME NEW w \in Worker, wpc[w] # "idle",
             \E step \in {"mark", "call", "engine", "succeed", "fail", "release"} :
               WorkGoto(w, step),
             UNCHANGED <<minute, loopVars, executed, restarts>>
      PROVE  MinuteInv'
  BY <1>7 DEF WorkGoto, loopVars
<1>8. ASSUME NEW w \in Worker, GetTask(w) PROVE MinuteInv'
  BY <1>6, <1>8 DEF GetTask, WorkGoto, NotWork, loopVars
<1>9. ASSUME NEW w \in Worker, LockTask(w) PROVE MinuteInv'
  BY <1>6, <1>7, <1>9 DEF LockTask, WorkGoto, NotWork, loopVars
<1>10. ASSUME NEW w \in Worker, MarkRunning(w) \/ CallEngine(w) \/ EngineReturns(w)
                                \/ RecordSuccess(w) \/ RecordFailure(w)
       PROVE  MinuteInv'
  BY <1>7, <1>10 DEF MarkRunning, CallEngine, EngineReturns, RecordSuccess,
                     RecordFailure, NotWork
<1>11. ASSUME NEW w \in Worker, ReleaseTask(w) PROVE MinuteInv'
  BY <1>6, <1>11 DEF ReleaseTask, NotWork
<1>12. CASE StopLoops \/ Tick
  BY <1>12 DEF StopLoops, Tick, NotLoops, loopVars, workVars
<1>13. CASE Restart
  BY <1>13 DEF Restart
<1>14. CASE UNCHANGED <<minute, loopVars, workVars, executed, restarts>>
  BY <1>14 DEF loopVars, workVars
<1>15. QED
  BY <1>1, <1>2, <1>3, <1>4, <1>5, <1>8, <1>9, <1>10, <1>11, <1>12, <1>13, <1>14
     DEF Next, vars, LoopStep, WorkerStep, CreateTask, UpdateTask, DeleteTask, LeaseEnds

\* With one loop, a run that the loop fired and that gets its lock is the first
\* of its task for its minute since the backend started, however late the thread
\* comes and whatever happens to the table in between.  The assumption is needed:
\* start() after stop() may leave two loops.
THEOREM FiredOncePerMinute ==
  ASSUME \A i, j \in Loop : i = j
  PROVE  Spec => OncePerMinute
<1>1. Init => MinuteInv
  BY DEF Init, MinuteInv, LoopMinute, MarkedBefore, FreshMinute, DueUnfired,
         FiredOnce, PendingNotRun
<1>2. MinuteInv =>
        [\A w \in Worker : Fires(w) => <<wtask[w], slot[w], restarts>> \notin executed]_vars
  BY DEF MinuteInv, PendingNotRun, Fires
<1>3. QED
  BY <1>1, <1>2, MinuteInvStep, TypeCorrect, PTL DEF Spec, OncePerMinute

------------------------------------------------------------------------------
(* The lock's clients                                                      *)

LEMMA SchedulerLockStep == TypeOK /\ [Next]_vars => [LL!Next]_(LL!vars)
<1> SUFFICES ASSUME TypeOK, [Next]_vars PROVE [LL!Next]_(LL!vars)
  OBVIOUS
<1>1. ASSUME NEW w \in Worker, NEW l \in LockId,
             LL!Acquire(w, l) \/ LL!Release(w, l) \/ LL!Leave({w}, {l}) \/ UNCHANGED lockVars
      PROVE  [LL!Next]_(LL!vars)
  <2>1. {w} \in SUBSET Worker /\ {l} \in SUBSET LockId
    OBVIOUS
  <2>2. QED
    BY <1>1, <2>1 DEF LL!Next, LL!vars, lockVars
<1>2. ASSUME NEW w \in Worker, LockTask(w) \/ ReleaseTask(w) PROVE [LL!Next]_(LL!vars)
  <2>1. TaskLock(w) \in LockId
    BY LocksType
  <2>2. \/ LL!Acquire(w, TaskLock(w)) \/ LL!Release(w, TaskLock(w))
        \/ LL!Leave({w}, {TaskLock(w)}) \/ UNCHANGED lockVars
    BY <1>2 DEF LockTask, ReleaseTask
  <2>3. QED
    BY <1>1, <2>1, <2>2
<1>3. ASSUME NEW w \in Worker, CallEngine(w) \/ EngineReturns(w) PROVE [LL!Next]_(LL!vars)
  <2>1. EngineLock(w) \in LockId
    BY LocksType
  <2>2. \/ LL!Acquire(w, EngineLock(w)) \/ LL!Release(w, EngineLock(w))
        \/ LL!Leave({w}, {EngineLock(w)}) \/ UNCHANGED lockVars
    BY <1>3 DEF CallEngine, EngineReturns
  <2>3. QED
    BY <1>1, <2>1, <2>2
<1>4. CASE LeaseEnds
  BY <1>4 DEF LeaseEnds, LL!Next
<1>5. CASE Restart
  <2>1. LL!Leave(Worker, LockId) /\ LockId \in SUBSET LockId /\ Worker \in SUBSET Worker
    BY <1>5 DEF Restart
  <2>2. QED
    BY <2>1 DEF LL!Next
<1>6. CASE UNCHANGED lockVars
  BY <1>6 DEF lockVars, LL!vars
<1>7. QED
  BY <1>2, <1>3, <1>4, <1>5, <1>6
     DEF Next, vars, LoopStep, WorkerStep, CreateTask, UpdateTask, DeleteTask,
         NotLoops, StartLoop, StopLoops, Wake, Compare, Mark, Snapshot, Fire,
         Sleep, RunNow, GetTask, MarkRunning, RecordSuccess, RecordFailure, Tick

\* run_task_now, with the engine's call inside, asks no more of its two locks
\* than LeaseLock lets a client do, whoever restarts the backend.
THEOREM SchedulerUsesLease == Spec => LL!Spec
<1>1. Init => LL!Init
  BY DEF Init
<1>2. TypeOK /\ [Next]_vars => [LL!Next]_(LL!vars)
  BY SchedulerLockStep
<1>3. QED
  BY <1>1, <1>2, TypeCorrect, PTL DEF Spec, LL!Spec

\* What LeaseLock_proofs proves of every lease lock, of this one
LLP == INSTANCE LeaseLock_proofs WITH Client <- Worker

\* The lease lock and the mutex have the same actions through either instance.
LEMMA SameLock ==
  /\ LL!Init => LLP!Init
  /\ [LL!Next]_(LL!vars) => [LLP!Next]_(LLP!vars)
  /\ LLP!MX!Init => LL!MX!Init
  /\ [LLP!MX!Next]_(LLP!MX!vars) => [LL!MX!Next]_(LL!MX!vars)
<1>1. LL!Init => LLP!Init
  BY DEF LL!Init, LLP!Init
<1>2. [LL!Next]_(LL!vars) => [LLP!Next]_(LLP!vars)
  BY DEF LL!Next, LLP!Next, LL!vars, LLP!vars, LL!Acquire, LLP!Acquire, LL!Release,
         LLP!Release, LL!Leave, LLP!Leave, LL!Lapse, LLP!Lapse, LL!Purge, LLP!Purge
<1>3. LLP!MX!Init => LL!MX!Init
  BY DEF LLP!MX!Init, LL!MX!Init
<1>4. [LLP!MX!Next]_(LLP!MX!vars) => [LL!MX!Next]_(LL!MX!vars)
  BY DEF LLP!MX!Next, LL!MX!Next, LLP!MX!vars, LL!MX!vars, LLP!MX!Acquire,
         LL!MX!Acquire, LLP!MX!Leave, LL!MX!Leave
<1>5. QED
  BY <1>1, <1>2, <1>3, <1>4

\* When runs fit their lease the two locks of run_task_now are mutexes, by the
\* lock's own theorem.
THEOREM TaskLocksAreMutexes == ASSUME RunsFitLease PROVE Spec => LL!ImplementsMutex
<1>1. Spec => LL!Spec
  BY SchedulerUsesLease
<1>2. LLP!Spec => LLP!ImplementsMutex
  BY LLP!LeaseIsMutex
<1>3. QED
  BY <1>1, <1>2, SameLock, PTL
     DEF LL!Spec, LLP!Spec, LL!ImplementsMutex, LLP!ImplementsMutex, LL!MX!Spec, LLP!MX!Spec
==============================================================================
