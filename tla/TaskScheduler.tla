---------------------------- MODULE TaskScheduler ----------------------------
(***************************************************************************)
(* trading_orchestrator/scheduler/scheduler.py: the table scheduled_tasks, *)
(* the loop that looks once a second whether a new minute has begun and    *)
(* fires the tasks due in it, and run_task_now, which runs a task in a     *)
(* thread under a durable lock.  stop() only lowers `_is_running`, which a *)
(* loop reads when it next wakes up: a start() before that leaves two      *)
(* loops, which share `_last_checked_minute`.                              *)
(*                                                                         *)
(* Definitions whose comment begins with "Slip" are no part of the model:  *)
(* each is the definition after it with a plausible error, which the runs  *)
(* refute.                                                                 *)
(***************************************************************************)
EXTENDS Integers

CONSTANTS
    Task,          \* ids of scheduled_tasks
    Checkpoint,    \* those that are default checkpoints
    OpeningScan,   \* the checkpoint behind every other task
    Mode,          \* execution modes
    LoopMode,      \* the one the loop runs tasks in, PAPER
    Time,          \* times of day: minutes 0 .. Time - 1 of a day
    Loop,          \* threads that may run _scheduler_loop
    Worker,        \* threads that may run run_task_now
    RunsFitLease,  \* TRUE: a run is over before its lease ends
    DbMayFail,     \* TRUE: a statement may raise
    MaxMinute,     \* bound on the time
    MaxRestarts    \* bound on restarts of the backend

ASSUME TaskSchedulerAssumption ==
    /\ OpeningScan \in Checkpoint /\ Checkpoint \subseteq Task
    /\ LoopMode \in Mode
    /\ Time \in Nat \ {0}
    /\ {RunsFitLease, DbMayFail} \subseteq BOOLEAN
    /\ MaxMinute \in Nat /\ MaxRestarts \in Nat

VARIABLES
    minute,        \* minutes since the beginning
    status, enabled, schedule,  \* columns of scheduled_tasks
    on,            \* _is_running
    lastChecked,   \* _last_checked_minute, -1 for None
    lpc,           \* how far each loop is
    seen,          \* its minute_key
    due,           \* tasks of its snapshot that it has still to fire
    wpc,           \* how far each run_task_now is
    wtask,         \* its task_id
    wmode,         \* its execution_mode
    slot,          \* the minute it was fired for, -1 for a manual call
    row, inside,   \* the durable locks (LeaseLock)
    executed,      \* <<task, minute, restarts>> of the runs fired so far (history)
    restarts       \* restarts of the backend so far

taskVars == <<status, enabled, schedule>>
loopVars == <<on, lastChecked, lpc, seen, due>>
workVars == <<wpc, wtask, wmode, slot>>
lockVars == <<row, inside>>
vars == <<minute, taskVars, loopVars, workVars, lockVars, executed, restarts>>

\* run_task_now locks TASK_<id>, the engine it calls locks the checkpoint, each
\* in the mode of the run: the mode is hashed into the lock's id.
LockId == ({"task"} \X Task \X Mode) \cup ({"checkpoint"} \X Checkpoint \X Mode)
TaskLock(w) == <<"task", wtask[w], wmode[w]>>
CheckpointOf(t) == IF t \in Checkpoint THEN t ELSE OpeningScan
EngineLock(w) == <<"checkpoint", CheckpointOf(wtask[w]), wmode[w]>>

LL == INSTANCE LeaseLock WITH Client <- Worker

Exists(t) == status[t] \notin {"UNBORN", "DELETED"}

TypeOK ==
    /\ minute \in 0..MaxMinute
    /\ status \in [Task -> {"UNBORN", "DELETED", "ACTIVE", "PAUSED", "RUNNING", "FAILED"}]
    /\ enabled \in [Task -> BOOLEAN]
    /\ schedule \in [Task -> 0..Time-1]
    /\ on \in BOOLEAN
    /\ lastChecked \in -1..MaxMinute
    /\ lpc \in [Loop -> {"off", "wake", "compare", "mark", "snapshot", "fire"}]
    /\ seen \in [Loop -> 0..MaxMinute]
    /\ due \in [Loop -> SUBSET Task]
    /\ wpc \in [Worker -> {"idle", "get", "lock", "mark", "call", "engine",
                           "succeed", "fail", "release"}]
    /\ wtask \in [Worker -> Task]
    /\ wmode \in [Worker -> Mode]
    /\ slot \in [Worker -> -1..MaxMinute]
    /\ LL!TypeOK
    /\ executed \subseteq Task \X (0..MaxMinute) \X (0..MaxRestarts)
    /\ restarts \in 0..MaxRestarts

\* The checkpoints are in the table, the tasks users will create are not.
Init ==
    /\ minute = 0
    /\ status = [t \in Task |-> IF t \in Checkpoint THEN "ACTIVE" ELSE "UNBORN"]
    /\ enabled = [t \in Task |-> TRUE]
    /\ schedule = [t \in Task |-> 0]
    /\ on = FALSE /\ lastChecked = -1
    /\ lpc = [i \in Loop |-> "off"]
    /\ seen = [i \in Loop |-> 0]
    /\ due = [i \in Loop |-> {}]
    /\ wpc = [w \in Worker |-> "idle"]
    /\ wtask = [w \in Worker |-> OpeningScan]
    /\ wmode = [w \in Worker |-> LoopMode]
    /\ slot = [w \in Worker |-> -1]
    /\ LL!Init
    /\ executed = {}
    /\ restarts = 0

------------------------------------------------------------------------------
(* The table's operations, each under the scheduler's lock.                *)

\* create_task, when no task has its fingerprint or idempotency key
CreateTask(t) ==
    /\ status[t] = "UNBORN"
    /\ status' = [status EXCEPT ![t] = "ACTIVE"]
    /\ \E m \in 0..Time-1 : schedule' = [schedule EXCEPT ![t] = m]
    /\ UNCHANGED <<minute, enabled, loopVars, workVars, lockVars, executed, restarts>>

\* update_task, pause_task, resume_task and update_checkpoint_config.  The status
\* need not agree with `enabled`; for a checkpoint the nested
\* update_checkpoint_config, unless it raises, makes it agree.
UpdateTask(t) ==
    /\ Exists(t)
    /\ \E e \in BOOLEAN, m \in 0..Time-1, s \in {"ACTIVE", "PAUSED"} :
         /\ t \in Checkpoint => (s = "ACTIVE") = e \/ DbMayFail
         /\ enabled' = [enabled EXCEPT ![t] = e]
         /\ schedule' = [schedule EXCEPT ![t] = m]
         /\ status' = [status EXCEPT ![t] = s]
    /\ UNCHANGED <<minute, loopVars, workVars, lockVars, executed, restarts>>

\* delete_task: checkpoints are only paused, which UpdateTask covers.
DeleteTask(t) ==
    /\ Exists(t) /\ t \notin Checkpoint
    /\ status' = [status EXCEPT ![t] = "DELETED"]
    /\ UNCHANGED <<minute, enabled, schedule, loopVars, workVars, lockVars, executed, restarts>>

------------------------------------------------------------------------------
(* start, stop and _scheduler_loop                                         *)

LoopGoto(i, step) == lpc' = [lpc EXCEPT ![i] = step]

\* time.sleep(1.0), then the next iteration, which computes minute_key anew
LoopSleeps(i) == LoopGoto(i, "wake") /\ seen' = [seen EXCEPT ![i] = 0]

NotLoops == <<minute, taskVars, workVars, lockVars, executed, restarts>>

\* While `_is_running` is TRUE the thread of the last start() is alive, and a
\* further start() does nothing.
StartLoop(i) ==
    /\ ~on /\ lpc[i] = "off"
    /\ on' = TRUE
    /\ LoopGoto(i, "wake")
    /\ UNCHANGED <<lastChecked, seen, due, NotLoops>>

StopLoops ==
    /\ on
    /\ on' = FALSE
    /\ UNCHANGED <<lastChecked, lpc, seen, due, NotLoops>>

Wake(i) ==
    /\ lpc[i] = "wake"
    /\ \/ /\ on
          /\ seen' = [seen EXCEPT ![i] = minute]
          /\ LoopGoto(i, "compare")
       \/ /\ ~on
          /\ LoopGoto(i, "off")
          /\ UNCHANGED seen
    /\ UNCHANGED <<on, lastChecked, due, NotLoops>>

Compare(i) ==
    /\ lpc[i] = "compare"
    /\ \/ lastChecked # seen[i] /\ LoopGoto(i, "mark") /\ UNCHANGED seen
       \/ lastChecked = seen[i] /\ LoopSleeps(i)
    /\ UNCHANGED <<on, lastChecked, due, NotLoops>>

\* Slip: the minute is not kept.
MarkNothing(i) ==
    /\ lpc[i] = "mark"
    /\ LoopGoto(i, "snapshot")
    /\ UNCHANGED <<on, lastChecked, seen, due, NotLoops>>

Mark(i) ==
    /\ lpc[i] = "mark"
    /\ lastChecked' = seen[i]
    /\ LoopGoto(i, "snapshot")
    /\ UNCHANGED <<on, seen, due, NotLoops>>

\* get_tasks and the test of each task's row as it was then.  If the query
\* raises, the minute stays marked and its tasks are not fired.
Snapshot(i) ==
    /\ lpc[i] = "snapshot"
    /\ \/ /\ due' = [due EXCEPT ![i] =
               {t \in Task : /\ status[t] = "ACTIVE" /\ enabled[t]
                             /\ schedule[t] = seen[i] % Time}]
          /\ LoopGoto(i, "fire")
          /\ UNCHANGED seen
       \/ /\ DbMayFail
          /\ LoopSleeps(i)
          /\ UNCHANGED due
    /\ UNCHANGED <<on, lastChecked, NotLoops>>

\* One thread per task; nobody looks at the row again before it runs.
Fire(i, w) ==
    /\ lpc[i] = "fire" /\ wpc[w] = "idle"
    /\ \E t \in due[i] :
         /\ due' = [due EXCEPT ![i] = @ \ {t}]
         /\ wtask' = [wtask EXCEPT ![w] = t]
    /\ wpc' = [wpc EXCEPT ![w] = "get"]
    /\ wmode' = [wmode EXCEPT ![w] = LoopMode]
    /\ slot' = [slot EXCEPT ![w] = seen[i]]
    /\ UNCHANGED <<minute, taskVars, on, lastChecked, lpc, seen, lockVars, executed, restarts>>

Sleep(i) ==
    /\ lpc[i] = "fire" /\ due[i] = {}
    /\ LoopSleeps(i)
    /\ UNCHANGED <<on, lastChecked, due, NotLoops>>

------------------------------------------------------------------------------
(* run_task_now                                                            *)

WorkGoto(w, step) ==
    wpc' = [wpc EXCEPT ![w] = step] /\ UNCHANGED <<wtask, wmode, slot>>

\* The thread is over, and its locals with it.
WorkDone(w) ==
    /\ wpc' = [wpc EXCEPT ![w] = "idle"]
    /\ wtask' = [wtask EXCEPT ![w] = OpeningScan]
    /\ wmode' = [wmode EXCEPT ![w] = LoopMode]
    /\ slot' = [slot EXCEPT ![w] = -1]

\* UPDATE scheduled_tasks SET status = s WHERE id = task_id
SetStatus(w, s) ==
    status' = IF Exists(wtask[w]) THEN [status EXCEPT ![wtask[w]] = s] ELSE status
NotWork == <<minute, enabled, schedule, loopVars, restarts>>

\* A manual call names its mode, or it is config.TRADING_MODE.
RunNow(w, t) ==
    /\ wpc[w] = "idle"
    /\ wpc' = [wpc EXCEPT ![w] = "get"]
    /\ wtask' = [wtask EXCEPT ![w] = t]
    /\ \E m \in Mode : wmode' = [wmode EXCEPT ![w] = m]
    /\ UNCHANGED <<minute, taskVars, loopVars, slot, lockVars, executed, restarts>>

GetTask(w) ==
    /\ wpc[w] = "get"
    /\ \/ Exists(wtask[w]) /\ WorkGoto(w, "lock")
       \/ ~Exists(wtask[w]) /\ WorkDone(w)
    /\ UNCHANGED <<status, lockVars, executed, NotWork>>

\* Slip: whether acquire_lock returned an id is not looked at.
LockIgnored(w) ==
    /\ wpc[w] = "lock"
    /\ \/ LL!Acquire(w, TaskLock(w))
       \/ row[TaskLock(w)] = "live" /\ UNCHANGED lockVars
    /\ WorkGoto(w, "mark")
    /\ UNCHANGED <<status, executed, NotWork>>

LockTask(w) ==
    /\ wpc[w] = "lock"
    /\ \/ /\ LL!Acquire(w, TaskLock(w))
          /\ WorkGoto(w, "mark")
          /\ executed' = IF slot[w] = -1 THEN executed
                         ELSE executed \cup {<<wtask[w], slot[w], restarts>>}
       \/ /\ row[TaskLock(w)] = "live" \/ DbMayFail
          /\ WorkDone(w)
          /\ UNCHANGED <<lockVars, executed>>
    /\ UNCHANGED <<status, NotWork>>

MarkRunning(w) ==
    /\ wpc[w] = "mark"
    /\ \/ SetStatus(w, "RUNNING") /\ WorkGoto(w, "call")
       \/ DbMayFail /\ UNCHANGED status /\ WorkGoto(w, "fail")
    /\ UNCHANGED <<lockVars, executed, NotWork>>

\* Slip: the engine goes on when its lock is taken.
CallUnlocked(w) ==
    /\ wpc[w] = "call"
    /\ \/ LL!Acquire(w, EngineLock(w))
       \/ row[EngineLock(w)] = "live" /\ UNCHANGED lockVars
    /\ WorkGoto(w, "engine")
    /\ UNCHANGED <<status, executed, NotWork>>

\* trigger_checkpoint_execution: runs under the engine's own lock, or returns
\* BLOCKED because it is taken, or raises because the engine is killed.
CallEngine(w) ==
    /\ wpc[w] = "call"
    /\ \/ LL!Acquire(w, EngineLock(w)) /\ WorkGoto(w, "engine")
       \/ row[EngineLock(w)] = "live" /\ UNCHANGED lockVars /\ WorkGoto(w, "succeed")
       \/ UNCHANGED lockVars /\ WorkGoto(w, "fail")
    /\ UNCHANGED <<status, executed, NotWork>>

\* It returns a result, SUCCESS, SKIPPED or FAILED, or raises.
EngineReturns(w) ==
    /\ wpc[w] = "engine"
    /\ \/ /\ LL!Release(w, EngineLock(w))
          /\ \E step \in {"succeed", "fail"} : WorkGoto(w, step)
       \/ DbMayFail /\ LL!Leave({w}, {EngineLock(w)}) /\ WorkGoto(w, "fail")
    /\ UNCHANGED <<status, executed, NotWork>>

\* Slip: only last_run_status is written.
RecordResultOnly(w) ==
    /\ wpc[w] = "succeed"
    /\ WorkGoto(w, "release")
    /\ UNCHANGED <<status, lockVars, executed, NotWork>>

\* Whatever the result said: status ACTIVE, last_run_status SUCCESS.
RecordSuccess(w) ==
    /\ wpc[w] = "succeed"
    /\ \/ SetStatus(w, "ACTIVE") /\ WorkGoto(w, "release")
       \/ DbMayFail /\ UNCHANGED status /\ WorkGoto(w, "fail")
    /\ UNCHANGED <<lockVars, executed, NotWork>>

\* Slip: an error leaves the status alone.
FailureUnrecorded(w) ==
    /\ wpc[w] = "fail"
    /\ WorkGoto(w, "release")
    /\ UNCHANGED <<status, lockVars, executed, NotWork>>

RecordFailure(w) ==
    /\ wpc[w] = "fail"
    /\ \/ SetStatus(w, "FAILED")
       \/ DbMayFail /\ UNCHANGED status
    /\ WorkGoto(w, "release")
    /\ UNCHANGED <<lockVars, executed, NotWork>>

ReleaseTask(w) ==
    /\ wpc[w] = "release"
    /\ \/ LL!Release(w, TaskLock(w))
       \/ DbMayFail /\ LL!Leave({w}, {TaskLock(w)})
    /\ WorkDone(w)
    /\ UNCHANGED <<status, executed, NotWork>>

------------------------------------------------------------------------------
Tick ==
    /\ minute < MaxMinute
    /\ minute' = minute + 1
    /\ UNCHANGED <<taskVars, loopVars, workVars, lockVars, executed, restarts>>

LeaseEnds ==
    /\ \E S \in SUBSET LockId \ {{}} : LL!Lapse(S) \/ LL!Purge(S)
    /\ UNCHANGED <<minute, taskVars, loopVars, workVars, executed, restarts>>

\* The table outlives the process; _sync_default_tasks changes no row that is
\* there already.
Restart ==
    /\ restarts < MaxRestarts
    /\ restarts' = restarts + 1
    /\ on' = FALSE /\ lastChecked' = -1
    /\ lpc' = [i \in Loop |-> "off"]
    /\ due' = [i \in Loop |-> {}]
    /\ seen' = [i \in Loop |-> 0]
    /\ wpc' = [w \in Worker |-> "idle"]
    /\ wtask' = [w \in Worker |-> OpeningScan]
    /\ wmode' = [w \in Worker |-> LoopMode]
    /\ slot' = [w \in Worker |-> -1]
    /\ LL!Leave(Worker, LockId)
    /\ UNCHANGED <<minute, taskVars, executed>>

WorkerStep(w) ==
    \/ GetTask(w) \/ LockTask(w) \/ MarkRunning(w) \/ CallEngine(w)
    \/ EngineReturns(w) \/ RecordSuccess(w) \/ RecordFailure(w) \/ ReleaseTask(w)

LoopStep(i) ==
    \/ Wake(i) \/ Compare(i) \/ Mark(i) \/ Snapshot(i) \/ Sleep(i)
    \/ \E w \in Worker : Fire(i, w)

Next ==
    \/ \E t \in Task : CreateTask(t) \/ UpdateTask(t) \/ DeleteTask(t)
    \/ \E i \in Loop : StartLoop(i) \/ LoopStep(i)
    \/ StopLoops
    \/ \E w \in Worker : WorkerStep(w) \/ \E t \in Task : RunNow(w, t)
    \/ Tick \/ LeaseEnds \/ Restart

Spec == Init /\ [][Next]_vars

\* Threads that were started go on; nothing obliges a user to do anything.
Fairness == \A w \in Worker : WF_vars(WorkerStep(w))

FairSpec == Spec /\ Fairness

------------------------------------------------------------------------------
Inside(w) == wpc[w] \notin {"idle", "get", "lock"}

\* "Prevents overlapping runs for the same (routine, strategy, broker, account,
\* mode)" (durable_lock.py:4): of one task, scheduled and manual runs in one mode
\* never overlap.
SingleRunPerTask ==
    \A v, w \in Worker :
      Inside(v) /\ Inside(w) /\ wtask[v] = wtask[w] /\ wmode[v] = wmode[w] => v = w

\* Tasks that users create all run the opening scan: whatever is fired with it,
\* no two threads are in the engine for one checkpoint and in one mode.
SingleRunPerCheckpoint ==
    \A v, w \in Worker :
      /\ wpc[v] = "engine" /\ wpc[w] = "engine" /\ wmode[v] = wmode[w]
      /\ CheckpointOf(wtask[v]) = CheckpointOf(wtask[w])
      => v = w

\* A task shown as RUNNING, which the loop does not fire, is being run by
\* somebody, who will set its status again.
RunningHasRunner ==
    \A t \in Task : status[t] = "RUNNING" =>
      \E w \in Worker : wtask[w] = t /\ wpc[w] \in {"call", "engine", "succeed", "fail"}

\* The run of a task that the loop has fired gets its lock.
Fires(w) == wpc[w] = "lock" /\ wpc'[w] = "mark" /\ slot[w] # -1

\* However late a thread starts, whatever raises and however tasks are changed
\* meanwhile, one loop runs a task at most once for each minute it was due in.
OncePerMinute ==
    [][\A w \in Worker : Fires(w) => <<wtask[w], slot[w], restarts>> \notin executed]_vars

\* A task does not stay RUNNING for ever.
RunningEnds == \A t \in Task : status[t] = "RUNNING" ~> status[t] # "RUNNING"

\* What the comments promise and the code does not do.  "Acquire lock to prevent
\* overlapping runs" (scheduler.py:502): the loop's PAPER run and a manual run in
\* another mode of the same task do overlap.
NoOverlappingRuns ==
    \A v, w \in Worker : Inside(v) /\ Inside(w) /\ wtask[v] = wtask[w] => v = w

\* "durable locking with zero duplicate execution" (scheduler.py:7): a restart within the minute.
NoDuplicateExecution ==
    [][\A w \in Worker : Fires(w) =>
         \A k \in 0..MaxRestarts : <<wtask[w], slot[w], k>> \notin executed]_vars
==============================================================================
