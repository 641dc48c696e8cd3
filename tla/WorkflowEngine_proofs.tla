------------------------ MODULE WorkflowEngine_proofs ------------------------
(***************************************************************************)
(* For any number of threads, locks, setups and runs: typing of the        *)
(* engine, one run per lock and whose the current context is when runs fit *)
(* their lease, what the kill switch guarantees whatever fails, and that   *)
(* runs come to rest and are reported as what they were.                   *)
(***************************************************************************)
EXTENDS WorkflowEngine, FiniteSetTheorems, TLAPS

USE WorkflowEngineAssumption

\* Every step of a run moves it to a state of the machine and goes on inside
\* the lock.
LEMMA MovesType ==
  ASSUME NEW p \in DOMAIN Moves
  PROVE  /\ Moves[p].to \in State
         /\ Moves[p].next \in DOMAIN Moves \cup {"formulate", "record"}
<1>1. p \in {"analyze", "ready", "risk", "approve", "execute", "monitor", "complete"}
  BY DEF Moves
<1>2. QED
  BY <1>1 DEF Moves, State

LEMMA MovesDomain ==
  DOMAIN Moves = {"analyze", "ready", "risk", "approve", "execute", "monitor", "complete"}
  BY DEF Moves

\* transition_to keeps the context and its table well-formed.
LEMMA TransitionType ==
  ASSUME TypeOK, NEW s \in State, AttemptTransition(s)
  PROVE  /\ current' \in 0..MaxRuns
         /\ curState' \in State
         /\ nRuns' \in 0..MaxRuns
         /\ rows' \in [RunId -> State \cup {"ABSENT"}]
<1> USE DEF TypeOK, RunId
<1>1. CASE Move(s) /\ (Saved \/ Unsaved)
  <2>1. current' \in 0..MaxRuns /\ curState' \in State /\ nRuns' \in 0..MaxRuns
    BY <1>1 DEF Move, NewContext
  <2>2. rows' \in [RunId -> State \cup {"ABSENT"}]
    BY <1>1, <2>1 DEF Saved, Unsaved
  <2>3. QED
    BY <2>1, <2>2
<1>2. CASE UNCHANGED ctxVars
  BY <1>2 DEF ctxVars
<1>3. QED
  BY <1>1, <1>2 DEF AttemptTransition, TransitionTo, TransitionRaises

\* A restart writes no row but for COMPLETED, and of those that it takes for
\* dangling only.
LEMMA RestartWrites ==
  ASSUME TypeOK, Restart
  PROVE  /\ rows' \in [RunId -> State \cup {"ABSENT"}]
         /\ \A r \in RunId : rows'[r] # rows[r] => rows[r] \in Recovered /\ rows'[r] = "COMPLETED"
<1>1. PICK S \in SUBSET Dangling :
        rows' = [r \in RunId |-> IF r \in S THEN "COMPLETED" ELSE rows[r]]
  BY DEF Restart
<1>2. QED
  BY <1>1 DEF Dangling, TypeOK, State

------------------------------------------------------------------------------
(* Typing                                                                  *)

SwitchType ==
    /\ {killed, paused, running, halt} \subseteq BOOLEAN
    /\ guard \in {"free", "stopping", "pausing", "killing", "halting", "unpausing",
                  "unhalting", "idling", "starting"}
CtxType ==
    /\ current \in 0..MaxRuns
    /\ curState \in State
    /\ rows \in [RunId -> State \cup {"ABSENT"}]
    /\ nRuns \in 0..MaxRuns
JobType ==
    /\ todo \in [Thread -> SUBSET Setup]
    /\ unsent \in [Thread -> SUBSET Setup]
    /\ orders \in [RunId -> SUBSET Setup]
    /\ submitted \in [RunId -> SUBSET Setup]
    /\ late \in [Thread -> SUBSET Setup]
ThreadType ==
    /\ pc \in [Thread -> Step]
    /\ run \in [Thread -> 0..MaxRuns]
    /\ lastSuccess \in [LockId -> 0..MaxRuns]
    /\ restarts \in 0..MaxRestarts

LEMMA TypeParts ==
  TypeOK <=> SwitchType /\ CtxType /\ LL!TypeOK /\ JobType /\ ThreadType
  BY DEF TypeOK, SwitchType, CtxType, JobType, ThreadType

LEMMA SwitchStep == TypeOK /\ [Next]_vars => SwitchType'
  BY DEF TypeOK, Operator, SwitchType, Next, vars, switchVars, ThreadStep, OperatorStep,
         OperatorGoesOn, Enter, AcquireLock, BeginRun, BeginRefused, Advance,
         Formulate, PassGates, BlockIntent, ApproveIntent, HandleExecution,
         SubmitOrder, FinishJob, JobRaises, Record, Fail, Release, Kill,
         KillRunning, KillPause, KillTransition, KillHalt, Reset, ResetPause,
         ResetHalt, IdleTransition, Start, StartUnpauses, Stop, Pause, Resume,
         OtherSwitch, LeaseEnds, Restart

\* What each step does to the context: nothing, a transition, a new run, or
\* the reload of a restart.
LEMMA CtxStep == TypeOK /\ [Next]_vars => CtxType'
<1> SUFFICES ASSUME TypeOK, [Next]_vars PROVE CtxType'
  OBVIOUS
<1> USE DEF CtxType
<1>1. ASSUME NEW s \in State, AttemptTransition(s) PROVE CtxType'
  BY <1>1, TransitionType
<1>2. ASSUME NEW t \in Thread, BeginRun(t) PROVE CtxType'
  <2>1. current' \in RunId /\ nRuns' \in 0..MaxRuns /\ curState' = "RUNNING"
    BY <1>2 DEF BeginRun, NewContext, TypeOK, RunId
  <2>2. Saved \/ Unsaved
    BY <1>2 DEF BeginRun
  <2>3. rows' \in [RunId -> State \cup {"ABSENT"}]
    BY <2>1, <2>2 DEF Saved, Unsaved, TypeOK, State
  <2>4. QED
    BY <2>1, <2>3 DEF RunId, State
<1>3. ASSUME NEW t \in Thread, Advance(t) PROVE CtxType'
  BY <1>1, <1>3, MovesType DEF Advance, AttemptTransition
<1>4. CASE Restart
  <2>1. current' \in 0..MaxRuns /\ (current' # 0 => rows[current'] \in State)
    BY <1>4 DEF Restart, Latest, Unfinished, TypeOK, RunId
  <2>2. rows' \in [RunId -> State \cup {"ABSENT"}] /\ UNCHANGED nRuns
    BY <1>4, RestartWrites DEF Restart
  <2>3. QED
    BY <1>4, <2>1, <2>2 DEF Restart, TypeOK, State
<1>5. ASSUME NEW t \in Thread, Fail(t) PROVE CtxType'
  BY <1>1, <1>5 DEF Fail, State
<1>6. CASE KillTransition \/ IdleTransition
  BY <1>1, <1>6 DEF KillTransition, IdleTransition, State
<1>7. CASE UNCHANGED ctxVars
  BY <1>7 DEF ctxVars, TypeOK
<1>8. QED
  BY <1>2, <1>3, <1>4, <1>5, <1>6, <1>7
     DEF Next, vars, ThreadStep, OperatorStep, OperatorGoesOn, NotSwitches, Enter,
         AcquireLock, BeginRefused, Formulate, PassGates, BlockIntent,
         ApproveIntent, HandleExecution, SubmitOrder, FinishJob, JobRaises, Record,
         Release, Kill, KillRunning, KillPause, KillHalt, Reset, ResetPause,
         ResetHalt, Start, StartUnpauses, Stop, Pause, Resume, OtherSwitch,
         LeaseEnds

LEMMA LockStep == TypeOK /\ [Next]_vars => LL!TypeOK'
<1> SUFFICES ASSUME TypeOK, [Next]_vars PROVE LL!TypeOK'
  OBVIOUS
<1> USE DEF TypeOK, LL!TypeOK
<1>1. ASSUME NEW t \in Thread, AcquireLock(t) \/ Release(t) PROVE LL!TypeOK'
  BY <1>1 DEF AcquireLock, Release, LL!Acquire, LL!Release, LL!Leave, lockVars
<1>2. CASE LeaseEnds
  BY <1>2 DEF LeaseEnds, LL!Lapse, LL!Purge
<1>3. CASE Restart
  BY <1>3 DEF Restart, LL!Leave
<1>4. CASE UNCHANGED lockVars
  BY <1>4 DEF lockVars
<1>5. QED
  BY <1>1, <1>2, <1>3, <1>4
     DEF Next, vars, ThreadStep, OperatorStep, OperatorGoesOn, NotSwitches,
         NotContext, Enter, BeginRun, BeginRefused, Advance, Formulate, PassGates,
         BlockIntent, ApproveIntent, HandleExecution, SubmitOrder, FinishJob,
         JobRaises, Record, Fail, Kill, KillRunning, KillPause, KillTransition,
         KillHalt, Reset, ResetPause, ResetHalt, IdleTransition, Start,
         StartUnpauses, Stop, Pause, Resume, OtherSwitch

\* From the moment a run begins until its thread reaches the handler or the
\* release, the thread's run_id is bound.
RunBound ==
    \A t \in Thread :
      pc[t] \in DOMAIN Moves \cup JobStep \cup {"record"} => run[t] # 0

LEMMA RunBoundStep == TypeOK /\ RunBound /\ [Next]_vars => RunBound'
<1> SUFFICES ASSUME TypeOK, RunBound, [Next]_vars,
                    NEW u \in Thread,
                    pc'[u] \in DOMAIN Moves \cup JobStep \cup {"record"}
             PROVE  run'[u] # 0
  BY DEF RunBound
<1> USE MovesDomain DEF TypeOK, RunBound, Goto, JobStep
<1>1. ASSUME NEW t \in Thread, Enter(t) \/ AcquireLock(t) \/ BeginRefused(t)
                               \/ Record(t) \/ Fail(t) \/ JobRaises(t)
      PROVE  run'[u] # 0
  BY <1>1 DEF Enter, AcquireLock, BeginRefused, Record, Fail, JobRaises
<1>2. ASSUME NEW t \in Thread, BeginRun(t) PROVE run'[u] # 0
  BY <1>2 DEF BeginRun, NewContext
<1>3. ASSUME NEW t \in Thread, Advance(t) PROVE run'[u] # 0
  BY <1>3 DEF Advance
<1>4. ASSUME NEW t \in Thread, Formulate(t) \/ PassGates(t) \/ BlockIntent(t)
                               \/ ApproveIntent(t) \/ HandleExecution(t)
                               \/ SubmitOrder(t) \/ FinishJob(t)
      PROVE  run'[u] # 0
  BY <1>4 DEF Formulate, PassGates, BlockIntent, ApproveIntent, HandleExecution,
              SubmitOrder, FinishJob
<1>5. ASSUME NEW t \in Thread, Release(t) PROVE run'[u] # 0
  BY <1>5 DEF Release
<1>6. CASE Restart
  BY <1>6 DEF Restart
<1>7. CASE UNCHANGED <<pc, run>>
  BY <1>7
<1>8. QED
  BY <1>1, <1>2, <1>3, <1>4, <1>5, <1>6, <1>7
     DEF Next, vars, ThreadStep, OperatorStep, OperatorGoesOn, NotSwitches,
         NotContext, Kill, KillRunning, KillPause, KillTransition, KillHalt, Reset,
         ResetPause, ResetHalt, IdleTransition, Start, StartUnpauses, Stop, Pause,
         Resume, OtherSwitch, LeaseEnds

LEMMA JobStepType == TypeOK /\ RunBound /\ [Next]_vars => JobType'
<1> SUFFICES ASSUME TypeOK, RunBound, [Next]_vars PROVE JobType'
  OBVIOUS
<1> USE DEF TypeOK, JobType
<1>1. ASSUME NEW t \in Thread, Formulate(t) \/ BlockIntent(t) PROVE JobType'
  BY <1>1 DEF Formulate, BlockIntent
<1>2. ASSUME NEW t \in Thread, ApproveIntent(t) PROVE JobType'
  <2>1. PICK x \in todo[t] :
          /\ todo' = [todo EXCEPT ![t] = @ \ {x}]
          /\ orders' = [orders EXCEPT ![run[t]] = @ \cup {x}]
          /\ late' = IF halt THEN [late EXCEPT ![t] = @ \cup {x}] ELSE late
    BY <1>2 DEF ApproveIntent
  <2>2. run[t] \in RunId /\ x \in Setup
    BY <1>2 DEF ApproveIntent, RunBound, JobStep, RunId
  <2>3. late' \in [Thread -> SUBSET Setup]
    BY <2>1, <2>2
  <2>4. todo' \in [Thread -> SUBSET Setup] /\ orders' \in [RunId -> SUBSET Setup]
    BY <2>1, <2>2
  <2>5. QED
    BY <1>2, <2>3, <2>4 DEF ApproveIntent
<1>3. ASSUME NEW t \in Thread, HandleExecution(t) PROVE JobType'
  <2>1. run[t] \in RunId
    BY <1>3 DEF HandleExecution, RunBound, JobStep, RunId
  <2>2. QED
    BY <1>3, <2>1 DEF HandleExecution
<1>4. ASSUME NEW t \in Thread, SubmitOrder(t) PROVE JobType'
  BY <1>4 DEF SubmitOrder
<1>5. ASSUME NEW t \in Thread, Release(t) PROVE JobType'
  BY <1>5 DEF Release
<1>6. CASE ResetHalt \/ OtherSwitch \/ Restart
  BY <1>6 DEF ResetHalt, OtherSwitch, Restart, NothingLate
<1>7. CASE UNCHANGED jobVars
  BY <1>7 DEF jobVars
<1>8. QED
  BY <1>1, <1>2, <1>3, <1>4, <1>5, <1>6, <1>7
     DEF Next, vars, ThreadStep, OperatorStep, OperatorGoesOn, NotSwitches,
         NotContext, Enter, AcquireLock, BeginRun, BeginRefused, Advance,
         PassGates, FinishJob, JobRaises, Record, Fail, Kill, KillRunning,
         KillPause, KillTransition, KillHalt, Reset, ResetPause, IdleTransition, Start,
         StartUnpauses, Stop, Pause, Resume, LeaseEnds

\* A thread goes from step to step, or stays where it is.
LEMMA ThreadStepType == TypeOK /\ [Next]_vars => ThreadType'
<1> SUFFICES ASSUME TypeOK, [Next]_vars PROVE ThreadType'
  OBVIOUS
<1> USE DEF TypeOK, ThreadType, Goto, Step, JobStep
<1>1. ASSUME NEW t \in Thread, Enter(t) PROVE ThreadType'
  BY <1>1 DEF Enter
<1>2. ASSUME NEW t \in Thread, AcquireLock(t) \/ BeginRefused(t) PROVE ThreadType'
  BY <1>2 DEF AcquireLock, BeginRefused
<1>3. ASSUME NEW t \in Thread, BeginRun(t) PROVE ThreadType'
  BY <1>3, MovesDomain DEF BeginRun, NewContext
<1>4. ASSUME NEW t \in Thread, Advance(t) PROVE ThreadType'
  BY <1>4, MovesType DEF Advance
<1>5. ASSUME NEW t \in Thread, Formulate(t) \/ PassGates(t) \/ BlockIntent(t)
                               \/ ApproveIntent(t) \/ HandleExecution(t) \/ SubmitOrder(t)
      PROVE ThreadType'
  BY <1>5 DEF Formulate, PassGates, BlockIntent, ApproveIntent, HandleExecution,
              SubmitOrder
<1>6. ASSUME NEW t \in Thread, FinishJob(t) \/ JobRaises(t) PROVE ThreadType'
  BY <1>6, MovesDomain DEF FinishJob, JobRaises
<1>7. ASSUME NEW t \in Thread, Record(t) \/ Fail(t) PROVE ThreadType'
  BY <1>7 DEF Record, Fail
<1>8. ASSUME NEW t \in Thread, Release(t) PROVE ThreadType'
  BY <1>8 DEF Release
<1>9. CASE Restart
  BY <1>9 DEF Restart
<1>10. CASE UNCHANGED <<pc, run, lastSuccess, restarts>>
  BY <1>10
<1>11. QED
  BY <1>1, <1>2, <1>3, <1>4, <1>5, <1>6, <1>7, <1>8, <1>9, <1>10
     DEF Next, vars, ThreadStep, OperatorStep, OperatorGoesOn, NotSwitches,
         NotContext, Kill, KillRunning, KillPause, KillTransition, KillHalt, Reset,
         ResetPause, ResetHalt, IdleTransition, Start, StartUnpauses, Stop, Pause,
         Resume, OtherSwitch, LeaseEnds

LEMMA InitType == Init => TypeOK
<1> SUFFICES ASSUME Init PROVE TypeOK
  OBVIOUS
<1>1. SwitchType
  BY DEF Init, SwitchType
<1>2. CtxType
  BY DEF Init, CtxType, State, RunId
<1>3. LL!TypeOK
  BY DEF Init, LL!Init, LL!TypeOK
<1>4. JobType
  BY DEF Init, JobType
<1>5. ThreadType
  BY DEF Init, ThreadType, Step
<1>6. QED
  BY <1>1, <1>2, <1>3, <1>4, <1>5, TypeParts

LEMMA NextType == TypeOK /\ RunBound /\ [Next]_vars => TypeOK'
<1>1. (SwitchType /\ CtxType /\ LL!TypeOK /\ JobType /\ ThreadType)' => TypeOK'
  BY DEF TypeOK, SwitchType, CtxType, JobType, ThreadType
<1>2. QED
  BY <1>1, SwitchStep, CtxStep, LockStep, JobStepType, ThreadStepType

LEMMA Typed == Spec => [](TypeOK /\ RunBound)
<1>1. Init => RunBound
  BY MovesDomain DEF Init, RunBound, JobStep
<1>2. QED
  BY <1>1, InitType, NextType, RunBoundStep, PTL DEF Spec

\* Every variable keeps its type: above all, what a restart loads from the
\* table is a run of the table with a state of the machine.
THEOREM TypeCorrect == Spec => []TypeOK
  BY Typed, PTL

------------------------------------------------------------------------------
(* The durable lock                                                        *)

\* A thread past acquire_lock is inside its lock and nobody else is inside any
\* other way; when runs fit their lease its entry is live, so that nobody can
\* join it.
HoldsLock ==
    /\ \A l \in LockId : inside[l] = {t \in Thread : InRun(t) /\ LockOf[t] = l}
    /\ RunsFitLease => \A t \in Thread : InRun(t) => row[LockOf[t]] = "live"
    /\ RunsFitLease => SingleRunPerLock

LEMMA HoldsLockAcquire ==
  ASSUME TypeOK, HoldsLock, NEW t \in Thread, AcquireLock(t)
  PROVE  HoldsLock'
<1> USE DEF TypeOK, LL!TypeOK, HoldsLock, SingleRunPerLock, InRun, Goto
<1>1. CASE UNCHANGED lockVars /\ pc' = [pc EXCEPT ![t] = "idle"]
  BY <1>1 DEF AcquireLock, lockVars
<1>2. CASE LL!Acquire(t, LockOf[t]) /\ pc' = [pc EXCEPT ![t] = "begin"]
  <2>1. \A l \in LockId : inside'[l] = {u \in Thread : InRun(u) /\ LockOf[u] = l}'
    BY <1>2 DEF AcquireLock, LL!Acquire
  <2>2. ASSUME RunsFitLease, NEW u \in Thread, InRun(u)' PROVE row'[LockOf[u]] = "live"
    BY <1>2, <2>2 DEF LL!Acquire
  <2>3. ASSUME RunsFitLease, NEW u \in Thread, InRun(u) PROVE LockOf[u] # LockOf[t]
    BY <1>2, <2>3 DEF LL!Acquire
  <2>4. RunsFitLease => SingleRunPerLock'
    BY <1>2, <2>3
  <2>5. QED
    BY <2>1, <2>2, <2>4
<1>3. QED
  BY <1>1, <1>2 DEF AcquireLock

\* With one thread inside, a release takes away no other thread's entry.
LEMMA HoldsLockRelease ==
  ASSUME TypeOK, HoldsLock, NEW t \in Thread, Release(t)
  PROVE  HoldsLock'
<1> USE DEF TypeOK, LL!TypeOK, HoldsLock, SingleRunPerLock, InRun, Goto
<1>1. pc[t] = "release" /\ pc' = [pc EXCEPT ![t] = "idle"]
  BY DEF Release
<1>2. \A l \in LockId : inside'[l] = {u \in Thread : InRun(u) /\ LockOf[u] = l}'
  BY <1>1 DEF Release, LL!Release, LL!Leave
<1>3. ASSUME RunsFitLease, NEW u \in Thread, InRun(u)' PROVE row'[LockOf[u]] = "live"
  <2>1. u # t /\ InRun(u) /\ LockOf[u] # LockOf[t]
    BY <1>1, <1>3
  <2>2. QED
    BY <2>1, <1>3 DEF Release, LL!Release, LL!Leave
<1>4. RunsFitLease => SingleRunPerLock'
  BY <1>1
<1>5. QED
  BY <1>2, <1>3, <1>4

\* A step of a thread that is inside before and after it.
LEMMA HoldsLockInside ==
  ASSUME TypeOK, HoldsLock, UNCHANGED lockVars,
         \A u \in Thread : InRun(u)' <=> InRun(u)
  PROVE  HoldsLock'
  BY DEF HoldsLock, SingleRunPerLock, lockVars

LEMMA HoldsLockStep == TypeOK /\ HoldsLock /\ [Next]_vars => HoldsLock'
<1> SUFFICES ASSUME TypeOK, HoldsLock, [Next]_vars PROVE HoldsLock'
  OBVIOUS
<1>1. ASSUME NEW t \in Thread, AcquireLock(t) \/ Release(t) PROVE HoldsLock'
  BY <1>1, HoldsLockAcquire, HoldsLockRelease
<1>2. ASSUME NEW t \in Thread,
             Enter(t) \/ BeginRun(t) \/ BeginRefused(t) \/ Advance(t) \/ Formulate(t)
             \/ PassGates(t) \/ BlockIntent(t) \/ ApproveIntent(t) \/ HandleExecution(t)
             \/ SubmitOrder(t) \/ FinishJob(t) \/ JobRaises(t) \/ Record(t) \/ Fail(t)
      PROVE  HoldsLock'
  <2>1. UNCHANGED lockVars
    BY <1>2 DEF Enter, BeginRun, BeginRefused, Advance, Formulate, PassGates,
                BlockIntent, ApproveIntent, HandleExecution, SubmitOrder, FinishJob,
                JobRaises, Record, Fail
  <2>2. \A u \in Thread : InRun(u)' <=> InRun(u)
    BY <1>2, MovesDomain, MovesType
       DEF TypeOK, InRun, Goto, JobStep, Enter, BeginRun, BeginRefused, Advance,
           Formulate, PassGates, BlockIntent, ApproveIntent, HandleExecution,
           SubmitOrder, FinishJob, JobRaises, Record, Fail
  <2>3. QED
    BY <2>1, <2>2, HoldsLockInside
<1>3. CASE LeaseEnds
  BY <1>3 DEF LeaseEnds, LL!Lapse, LL!Purge, HoldsLock, SingleRunPerLock, InRun,
              TypeOK, LL!TypeOK
<1>4. CASE Restart
  BY <1>4 DEF Restart, LL!Leave, HoldsLock, SingleRunPerLock, InRun, TypeOK, LL!TypeOK
<1>5. CASE UNCHANGED <<lockVars, pc>>
  BY <1>5, HoldsLockInside DEF InRun
<1>6. QED
  BY <1>1, <1>2, <1>3, <1>4, <1>5
     DEF Next, vars, ThreadStep, OperatorStep, OperatorGoesOn, NotSwitches,
         NotContext, Kill, KillRunning, KillPause, KillTransition, KillHalt, Reset,
         ResetPause, ResetHalt, IdleTransition, Start, StartUnpauses, Stop, Pause,
         Resume, OtherSwitch

LEMMA LocksHeld == Spec => []HoldsLock
<1>1. Init => HoldsLock
  BY DEF Init, LL!Init, HoldsLock, SingleRunPerLock, InRun
<1>2. QED
  BY <1>1, HoldsLockStep, Typed, PTL DEF Spec

\* The durable lock does its work for the engine: as long as runs fit their
\* lease, no two threads run with one lock, whatever statements fail and
\* whenever the backend restarts.
THEOREM MutualExclusion == ASSUME RunsFitLease PROVE Spec => []SingleRunPerLock
<1>1. HoldsLock => SingleRunPerLock
  BY DEF HoldsLock
<1>2. QED
  BY <1>1, LocksHeld, PTL

------------------------------------------------------------------------------
(* The current context                                                     *)

\* transition_to takes the current run to another state and replaces it by no
\* other run.
LEMMA TransitionKeepsRun ==
  ASSUME NEW s, AttemptTransition(s), current # 0
  PROVE  current' = current
  BY DEF AttemptTransition, TransitionTo, TransitionRaises, Move, ctxVars

\* A thread that has a run is inside its lock, and its run is the current one.
RunnerIsCurrent == \A t \in Thread : Bound(t) => InRun(t) /\ current = run[t]

LEMMA RunnerStep ==
  ASSUME \A t, u \in Thread : LockOf[t] = LockOf[u],
         TypeOK, SingleRunPerLock, RunnerIsCurrent, [Next]_vars
  PROVE  RunnerIsCurrent'
<1> SUFFICES ASSUME NEW u \in Thread, Bound(u)'
             PROVE  InRun(u)' /\ current' = run'[u]
  BY DEF RunnerIsCurrent
<1> USE DEF TypeOK, RunnerIsCurrent, Bound, InRun, Goto
<1>1. ASSUME NEW t \in Thread, BeginRun(t) PROVE InRun(u)' /\ current' = run'[u]
  <2>1. pc[t] = "begin" /\ current' = nRuns + 1
        /\ run' = [run EXCEPT ![t] = nRuns + 1]
        /\ pc' \in {[pc EXCEPT ![t] = "analyze"], [pc EXCEPT ![t] = "fail"]}
    BY <1>1 DEF BeginRun, NewContext
  <2>2. CASE u = t
    BY <2>1, <2>2
  <2>3. CASE u # t
    BY <2>1, <2>3 DEF SingleRunPerLock
  <2>4. QED
    BY <2>2, <2>3
<1>2. ASSUME NEW t \in Thread, Advance(t) \/ Fail(t)
      PROVE  InRun(u)' /\ current' = run'[u]
  <2>1. run' = run /\ current' = current
    BY <1>2, TransitionKeepsRun DEF Advance, Fail, AttemptTransition
  <2>2. InRun(u)'
    BY <1>2, <2>1, MovesType, MovesDomain DEF Advance, Fail
  <2>3. QED
    BY <2>1, <2>2
<1>3. ASSUME NEW t \in Thread, AcquireLock(t) \/ BeginRefused(t) \/ Enter(t)
                               \/ JobRaises(t) \/ Record(t)
      PROVE  InRun(u)' /\ current' = run'[u]
  BY <1>3 DEF AcquireLock, BeginRefused, Enter, JobRaises, Record, JobStep,
              ctxVars
<1>4. ASSUME NEW t \in Thread, Formulate(t) \/ PassGates(t) \/ BlockIntent(t)
                               \/ ApproveIntent(t) \/ HandleExecution(t)
                               \/ SubmitOrder(t) \/ FinishJob(t)
      PROVE  InRun(u)' /\ current' = run'[u]
  BY <1>4 DEF Formulate, PassGates, BlockIntent, ApproveIntent, HandleExecution,
              SubmitOrder, FinishJob, ctxVars
<1>5. ASSUME NEW t \in Thread, Release(t) PROVE InRun(u)' /\ current' = run'[u]
  BY <1>5 DEF Release, ctxVars
<1>6. CASE KillTransition \/ IdleTransition
  BY <1>6, TransitionKeepsRun DEF KillTransition, IdleTransition, NotContext
<1>7. CASE Restart
  BY <1>7 DEF Restart
<1>8. CASE UNCHANGED <<pc, run, current>>
  BY <1>8
<1>9. QED
  BY <1>1, <1>2, <1>3, <1>4, <1>5, <1>6, <1>7, <1>8
     DEF Next, vars, ctxVars, ThreadStep, OperatorStep, OperatorGoesOn,
         NotSwitches, Kill, KillRunning, KillPause, KillHalt, Reset, ResetPause,
         ResetHalt, Start, StartUnpauses, Stop, Pause, Resume, OtherSwitch,
         LeaseEnds

\* As long as every thread uses one lock, that of one checkpoint and one mode, and
\* runs fit its lease, the state
\* that a thread's transition_to moves is the state of its own run, however
\* operators kill, reset and stop in between, statements fail and the backend
\* restarts.
THEOREM ContextOwned ==
  ASSUME RunsFitLease, \A t, u \in Thread : LockOf[t] = LockOf[u]
  PROVE  Spec => []ContextBelongsToRunner
<1>1. Init => RunnerIsCurrent
  BY DEF Init, RunnerIsCurrent, Bound
<1>2. TypeOK /\ SingleRunPerLock /\ RunnerIsCurrent /\ [Next]_vars => RunnerIsCurrent'
  BY RunnerStep
<1>3. Spec => []SingleRunPerLock
  BY MutualExclusion
<1>4. RunnerIsCurrent => ContextBelongsToRunner
  BY DEF RunnerIsCurrent, ContextBelongsToRunner
<1>5. QED
  BY <1>1, <1>2, <1>3, <1>4, TypeCorrect, PTL DEF Spec

------------------------------------------------------------------------------
(* The kill switch                                                         *)

\* A thread about to hear the risk engine's verdict passed gate 1 before the
\* halt, so nothing of its run has been approved since; every approval takes
\* it back to gate 1.
LateInv ==
    \A t \in Thread :
      /\ ~halt \/ pc[t] = "verdict" => late[t] = {}
      /\ late[t] = {} \/ \E x \in Setup : late[t] = {x}

LEMMA LateStep == TypeOK /\ LateInv /\ [Next]_vars => LateInv'
<1> SUFFICES ASSUME TypeOK, LateInv, [Next]_vars, NEW u \in Thread
             PROVE  /\ ~halt' \/ pc'[u] = "verdict" => late'[u] = {}
                    /\ late'[u] = {} \/ \E x \in Setup : late'[u] = {x}
  BY DEF LateInv
<1> DEFINE Goal == /\ ~halt' \/ pc'[u] = "verdict" => late'[u] = {}
                   /\ late'[u] = {} \/ \E x \in Setup : late'[u] = {x}
<1> USE DEF TypeOK, LateInv, Goto
<1>1. ASSUME NEW t \in Thread, ApproveIntent(t) PROVE Goal
  <2>1. PICK x \in todo[t] :
          late' = IF halt THEN [late EXCEPT ![t] = @ \cup {x}] ELSE late
    BY <1>1 DEF ApproveIntent
  <2>2. /\ pc[t] = "verdict" /\ pc' = [pc EXCEPT ![t] = "gate"]
        /\ halt' = halt /\ x \in Setup
    BY <1>1 DEF ApproveIntent, switchVars
  <2>3. CASE u = t
    BY <2>1, <2>2, <2>3
  <2>4. CASE u # t
    BY <2>1, <2>2, <2>4
  <2>5. QED
    BY <2>3, <2>4
<1>2. ASSUME NEW t \in Thread, PassGates(t) PROVE Goal
  BY <1>2 DEF PassGates, switchVars, jobVars
<1>3. ASSUME NEW t \in Thread, Release(t) PROVE Goal
  BY <1>3 DEF Release, switchVars
<1>4. ASSUME NEW t \in Thread, Enter(t) \/ AcquireLock(t) \/ BeginRun(t)
                               \/ BeginRefused(t) \/ Formulate(t) \/ BlockIntent(t)
                               \/ HandleExecution(t) \/ SubmitOrder(t)
                               \/ FinishJob(t) \/ JobRaises(t) \/ Record(t) \/ Fail(t)
      PROVE Goal
  BY <1>4 DEF Enter, AcquireLock, BeginRun, BeginRefused, Formulate, BlockIntent,
              HandleExecution, SubmitOrder, FinishJob, JobRaises, Record, Fail,
              switchVars, jobVars
<1>5. ASSUME NEW t \in Thread, Advance(t) PROVE Goal
  <2>1. pc'[u] = "verdict" => pc[u] = "verdict"
    BY <1>5, MovesType, MovesDomain DEF Advance
  <2>2. QED
    BY <1>5, <2>1 DEF Advance, switchVars, jobVars
<1>6. CASE ResetHalt \/ OtherSwitch \/ Restart
  BY <1>6 DEF ResetHalt, OtherSwitch, Restart, NothingLate
<1>7. CASE KillHalt
  BY <1>7 DEF KillHalt, NotSwitches, jobVars
<1>8. CASE UNCHANGED <<halt, pc, late>>
  BY <1>8
<1>9. QED
  BY <1>1, <1>2, <1>3, <1>4, <1>5, <1>6, <1>7, <1>8
     DEF Next, vars, switchVars, jobVars, ThreadStep, OperatorStep, OperatorGoesOn,
         NotSwitches, NotContext, Kill, KillRunning, KillPause, KillTransition,
         Reset, ResetPause, IdleTransition, Start, StartUnpauses, Stop, Pause,
         Resume, LeaseEnds

\* However many intents a run has and however the switch goes up and down, at
\* most one of them per run is approved after the switch went up.
THEOREM HaltStopsApprovals == Spec => []OneVerdictAfterHalt
<1>1. Init => LateInv
  BY DEF Init, LateInv
<1>2. LateInv => OneVerdictAfterHalt
  <2> SUFFICES ASSUME LateInv, NEW t \in Thread PROVE Cardinality(late[t]) <= 1
    BY DEF OneVerdictAfterHalt
  <2>1. CASE late[t] = {}
    BY <2>1, FS_EmptySet
  <2>2. ASSUME NEW x, late[t] = {x} PROVE Cardinality(late[t]) = 1
    BY <2>2, FS_Singleton
  <2>3. QED
    BY <2>1, <2>2 DEF LateInv
<1>3. QED
  BY <1>1, <1>2, LateStep, TypeCorrect, PTL DEF Spec

------------------------------------------------------------------------------
(* Orders                                                                  *)

\* A thread has no run before its run begins, run ids are never given out twice,
\* and a new run has no orders.
RunIds ==
    /\ \A t \in Thread : pc[t] \in {"idle", "acquire", "begin"} => run[t] = 0
    /\ \A t \in Thread : run[t] <= nRuns
    /\ \A t, u \in Thread : run[t] # 0 /\ run[t] = run[u] => t = u
    /\ \A r \in RunId : r > nRuns => submitted[r] = {}

LEMMA RunIdsStep == TypeOK /\ RunBound /\ RunIds /\ [Next]_vars => RunIds'
<1> SUFFICES ASSUME TypeOK, RunBound, RunIds, [Next]_vars, TypeOK' PROVE RunIds'
  BY NextType
<1> USE DEF RunIds, Goto
<1>1. ASSUME NEW s, AttemptTransition(s) PROVE nRuns' >= nRuns
  BY <1>1 DEF AttemptTransition, TransitionTo, TransitionRaises, Move, NewContext,
              ctxVars, TypeOK
<1>2. ASSUME UNCHANGED <<run, submitted>>, nRuns' >= nRuns,
             \A t \in Thread : pc'[t] \in {"idle", "acquire", "begin"} => run[t] = 0
      PROVE  RunIds'
  BY <1>2 DEF TypeOK, RunId
<1>3. ASSUME NEW t \in Thread, BeginRun(t) PROVE RunIds'
  <2>1. /\ run' = [run EXCEPT ![t] = nRuns + 1] /\ nRuns' = nRuns + 1
        /\ pc' \in {[pc EXCEPT ![t] = "analyze"], [pc EXCEPT ![t] = "fail"]}
        /\ submitted' = submitted
    BY <1>3 DEF BeginRun, NewContext, jobVars
  <2>2. QED
    BY <2>1 DEF TypeOK, RunId
<1>4. ASSUME NEW t \in Thread, Advance(t) \/ Fail(t) PROVE RunIds'
  <2>1. nRuns' >= nRuns /\ UNCHANGED <<run, submitted>>
    BY <1>1, <1>4 DEF Advance, Fail, AttemptTransition, jobVars
  <2>2. \A u \in Thread : pc'[u] \in {"idle", "acquire", "begin"} => run[u] = 0
    BY <1>4, MovesType, MovesDomain DEF Advance, Fail, TypeOK
  <2>3. QED
    BY <1>2, <2>1, <2>2
<1>5. ASSUME NEW t \in Thread, Enter(t) \/ AcquireLock(t) \/ BeginRefused(t)
                               \/ JobRaises(t) \/ Record(t)
      PROVE  RunIds'
  BY <1>5 DEF Enter, AcquireLock, BeginRefused, JobRaises, Record, jobVars, ctxVars,
              TypeOK
<1>6. ASSUME NEW t \in Thread, Formulate(t) \/ PassGates(t) \/ BlockIntent(t)
                               \/ ApproveIntent(t) \/ HandleExecution(t) \/ FinishJob(t)
      PROVE  RunIds'
  BY <1>6 DEF Formulate, PassGates, BlockIntent, ApproveIntent, HandleExecution,
              FinishJob, jobVars, ctxVars, TypeOK
<1>7. ASSUME NEW t \in Thread, SubmitOrder(t) PROVE RunIds'
  <2>1. run[t] \in RunId /\ UNCHANGED <<run, pc, nRuns>>
    BY <1>7 DEF SubmitOrder, RunBound, JobStep, ctxVars, TypeOK, RunId
  <2>2. \A r \in RunId : r > nRuns => submitted'[r] = submitted[r]
    BY <1>7, <2>1 DEF SubmitOrder, TypeOK, RunId
  <2>3. QED
    BY <2>1, <2>2
<1>8. ASSUME NEW t \in Thread, Release(t) PROVE RunIds'
  BY <1>8 DEF Release, ctxVars, TypeOK
<1>9. CASE KillTransition \/ IdleTransition
  <2>1. nRuns' >= nRuns
    BY <1>1, <1>9 DEF KillTransition, IdleTransition
  <2>2. QED
    BY <1>2, <1>9, <2>1 DEF KillTransition, IdleTransition, NotContext, jobVars
<1>10. CASE Restart
  BY <1>10 DEF Restart, TypeOK
<1>11. CASE UNCHANGED <<run, submitted, pc, nRuns>>
  BY <1>11
<1>12. QED
  BY <1>3, <1>4, <1>5, <1>6, <1>7, <1>8, <1>9, <1>10, <1>11
     DEF Next, vars, ctxVars, jobVars, ThreadStep, OperatorStep, OperatorGoesOn,
         NotSwitches, Kill, KillRunning, KillPause, KillHalt, Reset, ResetPause,
         ResetHalt, Start, StartUnpauses, Stop, Pause, Resume, OtherSwitch,
         LeaseEnds

\* What a thread has still to send was approved in its own run, and a thread
\* with a LIVE run has nothing to send.
OrdersInv ==
    /\ \A r \in RunId : submitted[r] \subseteq orders[r]
    /\ \A t \in Thread : unsent[t] # {} => run[t] # 0 /\ unsent[t] \subseteq orders[run[t]]
    /\ \A t \in Thread \ PaperThread : unsent[t] = {}
    /\ \A t \in Thread \ PaperThread : run[t] # 0 => submitted[run[t]] = {}

LEMMA OrdersStep ==
  TypeOK /\ RunBound /\ RunIds /\ OrdersInv /\ [Next]_vars => OrdersInv'
<1> SUFFICES ASSUME TypeOK, RunBound, RunIds, OrdersInv, [Next]_vars, TypeOK'
             PROVE  OrdersInv'
  BY NextType
<1> USE DEF OrdersInv
<1>1. ASSUME UNCHANGED <<run, submitted, unsent, orders>> PROVE OrdersInv'
  BY <1>1
<1>2. ASSUME NEW t \in Thread, BeginRun(t) PROVE OrdersInv'
  <2>1. /\ run' = [run EXCEPT ![t] = nRuns + 1] /\ nRuns + 1 \in RunId
        /\ UNCHANGED <<submitted, orders, unsent>>
        /\ run[t] = 0
    BY <1>2 DEF BeginRun, NewContext, jobVars, RunIds, TypeOK, RunId
  <2>2. submitted[nRuns + 1] = {} /\ unsent[t] = {}
    BY <2>1 DEF RunIds, TypeOK, RunId
  <2>3. QED
    BY <2>1, <2>2 DEF TypeOK
<1>3. ASSUME NEW t \in Thread, ApproveIntent(t) PROVE OrdersInv'
  <2>1. PICK x : orders' = [orders EXCEPT ![run[t]] = @ \cup {x}]
    BY <1>3 DEF ApproveIntent
  <2>2. run[t] \in RunId /\ UNCHANGED <<run, submitted, unsent>>
    BY <1>3 DEF ApproveIntent, RunBound, JobStep, TypeOK, RunId
  <2>3. \A r \in RunId : orders[r] \subseteq orders'[r]
    BY <2>1, <2>2 DEF TypeOK
  <2>4. \A u \in Thread : run[u] # 0 => run[u] \in RunId
    BY DEF TypeOK, RunId
  <2>5. QED
    BY <2>2, <2>3, <2>4
<1>4. ASSUME NEW t \in Thread, HandleExecution(t) PROVE OrdersInv'
  BY <1>4 DEF HandleExecution, RunBound, JobStep, TypeOK
<1>5. ASSUME NEW t \in Thread, SubmitOrder(t) PROVE OrdersInv'
  <2>1. PICK x \in unsent[t] :
          /\ unsent' = [unsent EXCEPT ![t] = @ \ {x}]
          /\ submitted' \in {submitted, [submitted EXCEPT ![run[t]] = @ \cup {x}]}
    BY <1>5 DEF SubmitOrder
  <2>2. run[t] \in RunId /\ UNCHANGED <<run, orders>>
    BY <1>5 DEF SubmitOrder, RunBound, JobStep, TypeOK, RunId
  <2>3. t \in PaperThread /\ x \in orders[run[t]]
    BY <2>1
  <2>4. /\ \A r \in RunId : r # run[t] => submitted'[r] = submitted[r]
        /\ submitted'[run[t]] \subseteq submitted[run[t]] \cup {x}
    BY <2>1, <2>2 DEF TypeOK
  <2>5. \A u \in Thread : unsent'[u] \subseteq unsent[u]
    BY <2>1 DEF TypeOK
  <2>6. \A r \in RunId : submitted'[r] \subseteq orders'[r]
    <3>1. submitted'[run[t]] \subseteq orders[run[t]]
      BY <2>2, <2>3, <2>4
    <3>2. QED
      BY <2>2, <2>4, <3>1
  <2>7. \A u \in Thread \ PaperThread : run[u] # 0 => submitted'[run[u]] = {}
    BY <2>2, <2>3, <2>4 DEF RunIds, TypeOK, RunId
  <2>8. QED
    BY <2>2, <2>5, <2>6, <2>7
<1>6. ASSUME NEW t \in Thread, Release(t) PROVE OrdersInv'
  BY <1>6 DEF Release, TypeOK
<1>7. CASE Restart
  BY <1>7 DEF Restart, TypeOK
<1>8. QED
  BY <1>1, <1>2, <1>3, <1>4, <1>5, <1>6, <1>7
     DEF Next, vars, jobVars, ThreadStep, OperatorStep, OperatorGoesOn,
         NotSwitches, NotContext, Enter, AcquireLock, BeginRefused, Advance,
         Formulate, PassGates, BlockIntent, FinishJob, JobRaises, Record, Fail,
         Kill, KillRunning, KillPause, KillTransition, KillHalt, Reset, ResetPause,
         ResetHalt, IdleTransition, Start, StartUnpauses, Stop, Pause, Resume,
         OtherSwitch, LeaseEnds

\* Nothing is sent to the paper adapter that the risk engine did not approve in
\* the same run, and nothing at all in a LIVE run, whatever fails.
THEOREM RiskEngineNotBypassed == Spec => []OnlyApprovedSubmitted
<1>1. Init => RunIds /\ OrdersInv
  BY DEF Init, RunIds, OrdersInv
<1>2. OrdersInv => OnlyApprovedSubmitted
  BY DEF OrdersInv, OnlyApprovedSubmitted, Bound
<1>3. QED
  BY <1>1, <1>2, RunIdsStep, OrdersStep, Typed, PTL DEF Spec
------------------------------------------------------------------------------
(* The context and its row                                                 *)

\* No run id is used before it is given out.
CtxInv == current <= nRuns /\ \A r \in RunId : r > nRuns => rows[r] = "ABSENT"

\* The steps that change the context or its table
LEMMA ContextChange ==
  ASSUME [Next]_vars
  PROVE  \/ UNCHANGED ctxVars
         \/ \E t \in Thread : BeginRun(t) \/ Advance(t) \/ Fail(t)
         \/ KillTransition \/ IdleTransition
         \/ Restart
  BY DEF Next, vars, ThreadStep, OperatorStep, OperatorGoesOn, NotSwitches, Enter,
         AcquireLock, BeginRefused, Formulate, PassGates, BlockIntent,
         ApproveIntent, HandleExecution, SubmitOrder, FinishJob, JobRaises, Record,
         Release, Kill, KillRunning, KillPause, KillHalt, Reset, ResetPause,
         ResetHalt, Start, StartUnpauses, Stop, Pause, Resume, OtherSwitch,
         LeaseEnds

\* transition_to leaves everything alone, or moves the current run, or a new one
\* where there is none, to the state, and writes the row unless that raises.
LEMMA TransitionWrites ==
  ASSUME TypeOK, CtxInv, NEW s, AttemptTransition(s)
  PROVE  \/ UNCHANGED ctxVars
         \/ /\ current' \in RunId /\ current' <= nRuns' /\ curState' = s
            /\ \/ current = 0 /\ current' = nRuns + 1 /\ nRuns' = nRuns + 1
               \/ current # 0 /\ current' = current /\ nRuns' = nRuns /\ Valid(curState, s)
            /\ \/ rows' = [rows EXCEPT ![current'] = s]
               \/ rows' = rows /\ DbMayFail
  BY DEF AttemptTransition, TransitionTo, TransitionRaises, Move, NewContext, Saved,
         Unsaved, CtxInv, TypeOK, RunId

LEMMA BeginWrites ==
  ASSUME TypeOK, NEW t \in Thread, BeginRun(t)
  PROVE  /\ pc[t] = "begin"
         /\ current' = nRuns + 1 /\ nRuns' = nRuns + 1 /\ current' \in RunId
         /\ curState' = "RUNNING"
         /\ run' = [run EXCEPT ![t] = nRuns + 1]
         /\ \/ /\ rows' = [rows EXCEPT ![current'] = "RUNNING"]
               /\ pc' = [pc EXCEPT ![t] = "analyze"]
            \/ DbMayFail /\ rows' = rows /\ pc' = [pc EXCEPT ![t] = "fail"]
         /\ UNCHANGED lastSuccess
  BY DEF BeginRun, NewContext, Saved, Unsaved, Goto, TypeOK, RunId

LEMMA CtxInvStep == TypeOK /\ CtxInv /\ [Next]_vars => CtxInv'
<1> SUFFICES ASSUME TypeOK, CtxInv, [Next]_vars PROVE CtxInv'
  OBVIOUS
<1>0. CtxType
  BY TypeParts
<1> USE DEF CtxInv, RunId
<1>1. ASSUME NEW s, AttemptTransition(s) PROVE CtxInv'
  BY <1>0, <1>1, TransitionWrites DEF CtxType, ctxVars
<1>2. ASSUME NEW t \in Thread, BeginRun(t) PROVE CtxInv'
  BY <1>0, <1>2, BeginWrites DEF CtxType
<1>3. ASSUME NEW t \in Thread, Advance(t) \/ Fail(t) PROVE CtxInv'
  BY <1>1, <1>3 DEF Advance, Fail, AttemptTransition
<1>4. CASE KillTransition \/ IdleTransition
  BY <1>1, <1>4 DEF KillTransition, IdleTransition
<1>5. CASE Restart
  <2>1. current' \in 0..MaxRuns /\ (current' # 0 => rows[current'] # "ABSENT")
    BY <1>5 DEF Restart, Latest, Unfinished
  <2>2. current' <= nRuns
    BY <2>1 DEF TypeOK
  <2>3. nRuns' = nRuns /\ \A r \in RunId : rows[r] = "ABSENT" => rows'[r] = "ABSENT"
    BY <1>5, RestartWrites DEF Restart, Recovered
  <2>4. QED
    BY <2>2, <2>3
<1>6. CASE UNCHANGED ctxVars
  BY <1>6 DEF ctxVars
<1>7. QED
  BY <1>2, <1>3, <1>4, <1>5, <1>6, ContextChange

LEMMA Contexts == Spec => []CtxInv
<1>1. Init => CtxInv
  BY DEF Init, CtxInv
<1>2. QED
  BY <1>1, CtxInvStep, TypeCorrect, PTL DEF Spec

LEMMA CourseDomain ==
  /\ DOMAIN Course = {"analyze", "ready", "risk", "formulate", "gate", "verdict", "submit",
                      "approve", "execute", "monitor", "complete", "record"}
  /\ \A p \in DOMAIN Moves : Moves[p].to \in Course[Moves[p].next]
<1>1. \A p \in DOMAIN Moves : p \in {"analyze", "ready", "risk", "approve", "execute", "monitor", "complete"}
  BY MovesDomain
<1>2. QED
  BY <1>1 DEF Course, Moves

LEMMA CourseStep ==
  ASSUME \A t, u \in Thread : LockOf[t] = LockOf[u],
         TypeOK, RunBound, CtxInv, SingleRunPerLock, RunnerIsCurrent, RunKeepsCourse,
         [Next]_vars
  PROVE  RunKeepsCourse'
<1> DEFINE OnCourse(p, s) == p \in DOMAIN Course => s \in Course[p] \cup {"KILLED", "IDLE"}
<1> SUFFICES ASSUME NEW u \in Thread, Bound(u)'
             PROVE  OnCourse(pc'[u], curState')
  BY DEF RunKeepsCourse
<1> USE DEF TypeOK, Goto
\* The threads inside are one: a step of another thread that is inside is none
\* of this run's.
<1>1. ASSUME NEW t \in Thread, InRun(t), run'[u] = run[u] PROVE u = t
  BY <1>1 DEF SingleRunPerLock, RunnerIsCurrent, Bound
<1>2. Bound(u) => OnCourse(pc[u], curState)
  BY DEF RunKeepsCourse
<1>3. ASSUME NEW t \in Thread, BeginRun(t) PROVE OnCourse(pc'[u], curState')
  <2>1. /\ pc[t] = "begin" /\ run' = [run EXCEPT ![t] = nRuns + 1] /\ curState' = "RUNNING"
        /\ pc' \in {[pc EXCEPT ![t] = "analyze"], [pc EXCEPT ![t] = "fail"]}
    BY <1>3, BeginWrites
  <2>2. u = t
    BY <1>1, <2>1 DEF InRun
  <2>3. QED
    BY <2>1, <2>2, CourseDomain DEF Course
<1>4. ASSUME NEW t \in Thread, Advance(t) PROVE OnCourse(pc'[u], curState')
  <2>1. run' = run /\ pc[t] \in DOMAIN Moves
    BY <1>4 DEF Advance
  <2>2. u = t
    BY <1>1, <2>1, MovesDomain DEF InRun
  <2>3. CASE pc' = [pc EXCEPT ![t] = "fail"]
    BY <2>2, <2>3, CourseDomain
  <2>4. CASE TransitionTo(Moves[pc[t]].to) /\ pc' = [pc EXCEPT ![t] = Moves[pc[t]].next]
    <3>1. curState' = Moves[pc[t]].to
      BY <2>4 DEF TransitionTo, Move, NewContext
    <3>2. QED
      BY <2>1, <2>2, <2>4, <3>1, CourseDomain
  <2>5. QED
    BY <1>4, <2>3, <2>4 DEF Advance
<1>5. ASSUME NEW t \in Thread, Fail(t) PROVE OnCourse(pc'[u], curState')
  <2>1. pc[t] = "fail" /\ run' = run /\ pc' = [pc EXCEPT ![t] = "release"]
    BY <1>5 DEF Fail
  <2>2. u = t
    BY <1>1, <2>1 DEF InRun
  <2>3. QED
    BY <2>1, <2>2, CourseDomain
<1>6. ASSUME NEW s \in {"KILLED", "IDLE"}, AttemptTransition(s), UNCHANGED <<run, pc>>
      PROVE  OnCourse(pc'[u], curState')
  <2>1. curState' = s \/ curState' = curState
    BY <1>6, TransitionWrites DEF ctxVars
  <2>2. QED
    BY <1>2, <1>6, <2>1 DEF Bound
\* A step that leaves the context alone and takes a thread to a step of the same
\* course, or off it.
<1>7. ASSUME NEW t \in Thread, UNCHANGED curState,
             \A v \in Thread : v # t => run'[v] = run[v] /\ pc'[v] = pc[v],
             run'[t] # 0 =>
               /\ run'[t] = run[t]
               /\ \/ pc'[t] \notin DOMAIN Course
                  \/ pc[t] \in DOMAIN Course /\ Course[pc[t]] \subseteq Course[pc'[t]]
      PROVE  OnCourse(pc'[u], curState')
  BY <1>2, <1>7 DEF Bound
<1>8. ASSUME NEW t \in Thread, Enter(t) \/ AcquireLock(t) PROVE OnCourse(pc'[u], curState')
  <2>1. run' = run /\ curState' = curState
        /\ \E p \in {"acquire", "begin", "idle"} : pc' = [pc EXCEPT ![t] = p]
    BY <1>8 DEF Enter, AcquireLock, ctxVars
  <2>2. QED
    BY <1>7, <2>1, CourseDomain
<1>9. ASSUME NEW t \in Thread, BeginRefused(t) \/ Record(t) \/ JobRaises(t)
      PROVE  OnCourse(pc'[u], curState')
  <2>1. run' = run /\ curState' = curState
        /\ \E p \in {"fail", "release"} : pc' = [pc EXCEPT ![t] = p]
    BY <1>9 DEF BeginRefused, Record, JobRaises, ctxVars
  <2>2. QED
    BY <1>7, <2>1, CourseDomain
<1>10. ASSUME NEW t \in Thread, Formulate(t) \/ PassGates(t) \/ BlockIntent(t)
                                \/ ApproveIntent(t) \/ HandleExecution(t)
                                \/ SubmitOrder(t) \/ FinishJob(t)
       PROVE  OnCourse(pc'[u], curState')
  <2>1. /\ run' = run /\ curState' = curState
        /\ pc[t] \in {"formulate", "gate", "verdict", "submit"}
        /\ \E p \in {"gate", "verdict", "submit", "approve", "complete"} :
             pc' = [pc EXCEPT ![t] = p]
    BY <1>10 DEF Formulate, PassGates, BlockIntent, ApproveIntent, HandleExecution,
                 SubmitOrder, FinishJob, ctxVars
  <2>2. \A v \in Thread : v # t => run'[v] = run[v] /\ pc'[v] = pc[v]
    BY <2>1
  <2>3. pc[t] \in DOMAIN Course /\ Course[pc[t]] \subseteq Course[pc'[t]]
    BY <2>1, CourseDomain DEF Course
  <2>4. QED
    BY <1>7, <2>1, <2>2, <2>3
<1>11. ASSUME NEW t \in Thread, Release(t) PROVE OnCourse(pc'[u], curState')
  BY <1>7, <1>11 DEF Release, ctxVars
<1>12. CASE KillTransition \/ IdleTransition
  BY <1>6, <1>12 DEF KillTransition, IdleTransition, NotContext
<1>13. CASE Restart
  BY <1>13 DEF Restart, Bound
<1>14. CASE UNCHANGED <<pc, run, ctxVars>>
  BY <1>2, <1>14 DEF ctxVars, Bound
<1>15. QED
  BY <1>3, <1>4, <1>5, <1>8, <1>9, <1>10, <1>11, <1>12, <1>13, <1>14
     DEF Next, vars, ThreadStep, OperatorStep, OperatorGoesOn, NotSwitches, Kill,
         KillRunning, KillPause, KillHalt, Reset, ResetPause, ResetHalt, Start,
         StartUnpauses, Stop, Pause, Resume, OtherSwitch, LeaseEnds

\* As long as all threads use one lock and runs fit its lease, a thread finds its
\* run in the state it left it in, or where an operator's kill, reset or stop has
\* put it: no other run, no handler of a failed call and no restart takes it
\* elsewhere, whatever statements fail.
THEOREM RunsKeepCourse ==
  ASSUME RunsFitLease, \A t, u \in Thread : LockOf[t] = LockOf[u]
  PROVE  Spec => []RunKeepsCourse
<1>1. Init => RunnerIsCurrent /\ RunKeepsCourse
  BY DEF Init, RunnerIsCurrent, RunKeepsCourse, Bound
<1>2. TypeOK /\ RunBound /\ CtxInv /\ SingleRunPerLock /\ RunnerIsCurrent
        /\ RunKeepsCourse /\ [Next]_vars => RunKeepsCourse'
  BY CourseStep
<1>3. TypeOK /\ SingleRunPerLock /\ RunnerIsCurrent /\ [Next]_vars => RunnerIsCurrent'
  BY RunnerStep
<1>4. Spec => []SingleRunPerLock
  BY MutualExclusion
<1>5. QED
  BY <1>1, <1>2, <1>3, <1>4, Contexts, Typed, PTL DEF Spec

LEMMA RowStep ==
  ASSUME ~DbMayFail, MaxRestarts = 0
  PROVE  TypeOK /\ CtxInv /\ ContextMatchesRow /\ [Next]_vars => ContextMatchesRow'
<1> SUFFICES ASSUME TypeOK, CtxInv, ContextMatchesRow, [Next]_vars
             PROVE  ContextMatchesRow'
  OBVIOUS
<1> USE DEF ContextMatchesRow
<1>1. ASSUME NEW s, AttemptTransition(s) PROVE ContextMatchesRow'
  BY <1>1, TransitionWrites DEF TypeOK, ctxVars
<1>2. ASSUME NEW t \in Thread, BeginRun(t) PROVE ContextMatchesRow'
  BY <1>2, BeginWrites DEF TypeOK
<1>3. ASSUME NEW t \in Thread, Advance(t) \/ Fail(t) PROVE ContextMatchesRow'
  BY <1>1, <1>3 DEF Advance, Fail, AttemptTransition
<1>4. CASE KillTransition \/ IdleTransition
  BY <1>1, <1>4 DEF KillTransition, IdleTransition
<1>5. ~Restart
  BY DEF Restart, TypeOK
<1>6. CASE UNCHANGED ctxVars
  BY <1>6 DEF ctxVars
<1>7. QED
  BY <1>2, <1>3, <1>4, <1>5, <1>6, ContextChange

\* As long as no statement raises and the backend does not restart, memory and
\* the table tell the same state of the current run, whoever moves it.
THEOREM ContextIsSaved ==
  ASSUME ~DbMayFail, MaxRestarts = 0
  PROVE  Spec => []ContextMatchesRow
<1>1. Init => ContextMatchesRow
  BY DEF Init, ContextMatchesRow
<1>2. QED
  BY <1>1, RowStep, Contexts, TypeCorrect, PTL DEF Spec

\* When no statement raises, a kill that is in memory is in the table too.
KillIsSaved == current # 0 /\ curState = "KILLED" => rows[current] = "KILLED"

LEMMA KillIsSavedStep ==
  ASSUME ~DbMayFail
  PROVE  TypeOK /\ CtxInv /\ KillIsSaved /\ [Next]_vars => KillIsSaved'
<1> SUFFICES ASSUME TypeOK, CtxInv, KillIsSaved, [Next]_vars PROVE KillIsSaved'
  OBVIOUS
<1> USE DEF KillIsSaved
<1>1. ASSUME NEW s, AttemptTransition(s) PROVE KillIsSaved'
  BY <1>1, TransitionWrites DEF TypeOK, ctxVars
<1>2. ASSUME NEW t \in Thread, BeginRun(t) PROVE KillIsSaved'
  BY <1>2, BeginWrites DEF TypeOK
<1>3. ASSUME NEW t \in Thread, Advance(t) \/ Fail(t) PROVE KillIsSaved'
  BY <1>1, <1>3 DEF Advance, Fail, AttemptTransition
<1>4. CASE KillTransition \/ IdleTransition
  BY <1>1, <1>4 DEF KillTransition, IdleTransition
<1>5. CASE Restart
  BY <1>5 DEF Restart, Latest, Unfinished, Finished
<1>6. CASE UNCHANGED ctxVars
  BY <1>6 DEF ctxVars
<1>7. QED
  BY <1>2, <1>3, <1>4, <1>5, <1>6, ContextChange

LEMMA KilledStep ==
  ASSUME MaxRestarts = 0 \/ KillIsSaved, TypeOK, CtxInv, [Next]_vars,
         curState = "KILLED", curState' # "KILLED", current # 0,
         current' = current \/ (killed /\ killed')
  PROVE  curState' = "IDLE" /\ pc' = pc
<1>1. ASSUME NEW s, AttemptTransition(s) PROVE s = "IDLE" /\ curState' = "IDLE"
  <2>1. curState' = s /\ Valid("KILLED", s)
    BY <1>1, TransitionWrites DEF ctxVars
  <2>2. Successors["KILLED"] = {"IDLE"}
    BY DEF Successors, State, Working
  <2>3. QED
    BY <2>1, <2>2 DEF Valid
\* A new run is not the old one, and begins on no killed engine.
<1>2. ASSUME NEW t \in Thread, BeginRun(t) PROVE FALSE
  <2>1. current' # current
    BY <1>2, BeginWrites DEF CtxInv, TypeOK
  <2>2. QED
    BY <1>2, <2>1 DEF BeginRun
<1>3. ASSUME NEW t \in Thread, Advance(t) \/ Fail(t) PROVE FALSE
  BY <1>1, <1>3, MovesDomain DEF Advance, Fail, AttemptTransition, Moves
<1>4. CASE KillTransition \/ IdleTransition
  BY <1>1, <1>4 DEF KillTransition, IdleTransition, NotContext
\* A restart loads no run that is killed in the table, and the engine it starts
\* is not killed.
<1>5. ~Restart
  <2>1. CASE MaxRestarts = 0
    BY <2>1 DEF Restart, TypeOK
  <2>2. CASE KillIsSaved /\ current' = current
    BY <2>2 DEF Restart, Latest, Unfinished, Finished, KillIsSaved
  <2>3. CASE killed'
    BY <2>3 DEF Restart
  <2>4. QED
    BY <2>1, <2>2, <2>3
<1>6. curState' # curState
  OBVIOUS
<1>7. QED
  BY <1>2, <1>3, <1>4, <1>5, <1>6, ContextChange DEF ctxVars

\* A run that was killed is not finished or failed by the thread that was running
\* it, and replaced by no other run while the engine stays killed: it leaves KILLED
\* when an operator resets the switch or stops the workflow, and in no other way, as
\* long as the backend does not restart or the table can be written.  (It needs one
\* of the two: a kill that was not saved is forgotten by a restart.)
THEOREM KilledUntilReset ==
  ASSUME MaxRestarts = 0 \/ ~DbMayFail
  PROVE  Spec => KilledLeftByOperator
<1> DEFINE Step1 == /\ curState = "KILLED" /\ curState' # "KILLED" /\ current # 0
                    /\ current' = current \/ (killed /\ killed')
                    => curState' = "IDLE" /\ pc' = pc
<1>1. CASE MaxRestarts = 0
  <2>1. TypeOK /\ CtxInv /\ [Next]_vars => [Step1]_vars
    BY <1>1, KilledStep
  <2>2. QED
    BY <2>1, Contexts, TypeCorrect, PTL DEF Spec, KilledLeftByOperator
<1>2. CASE ~DbMayFail
  <2>1. Init => KillIsSaved
    BY DEF Init, KillIsSaved
  <2>2. TypeOK /\ CtxInv /\ KillIsSaved /\ [Next]_vars => KillIsSaved'
    BY <1>2, KillIsSavedStep
  <2>3. TypeOK /\ CtxInv /\ KillIsSaved /\ [Next]_vars => [Step1]_vars
    BY KilledStep
  <2>4. QED
    BY <2>1, <2>2, <2>3, Contexts, TypeCorrect, PTL DEF Spec, KilledLeftByOperator
<1>3. QED
  BY <1>1, <1>2
------------------------------------------------------------------------------
(* Runs come to rest                                                       *)

\* The steps at which a thread is still to move its run
Active == DOMAIN Moves \cup JobStep \cup {"fail"}
HasMover == \E t \in Thread : run[t] # 0 /\ pc[t] \in Active

\* A current run that is not at rest has a thread that will move it.
RestInv ==
    /\ NoAbandonedRow
    /\ curState \in Settled \cup Working
    /\ current # 0 /\ curState \notin Settled => HasMover

\* Every state in which a run may be stuck has FAILED among its successors.
LEMMA WorkingFails ==
  /\ \A s \in Working : Valid(s, "FAILED")
  /\ Working \cap Settled = {}
  /\ {"COMPLETED", "FAILED", "KILLED", "IDLE"} = Settled
<1>1. Working \subseteq State
  BY DEF Working, State
<1>2. \A s \in Working : "FAILED" \in Successors[s]
  BY <1>1 DEF Successors
<1>3. QED
  BY <1>2 DEF Valid, Working, Settled, Finished

LEMMA MovesWorking ==
  ASSUME NEW p \in DOMAIN Moves
  PROVE  /\ Moves[p].to \in Working \cup {"COMPLETED"}
         /\ Moves[p].next \in Active \/ (Moves[p].next = "record" /\ Moves[p].to = "COMPLETED")
<1>1. p \in {"analyze", "ready", "risk", "approve", "execute", "monitor", "complete"}
  BY DEF Moves
<1>2. QED
  BY <1>1 DEF Moves, Working, Active, JobStep

LEMMA RestStep ==
  ASSUME ~DbMayFail, MaxRestarts = 0, \A t, u \in Thread : LockOf[t] = LockOf[u],
         TypeOK, RunBound, CtxInv, ContextMatchesRow, SingleRunPerLock,
         RunnerIsCurrent, RestInv, [Next]_vars
  PROVE  RestInv'
<1> USE DEF TypeOK, RunId, CtxInv, ContextMatchesRow, RestInv, NoAbandonedRow
\* transition_to to a state s writes no row but the current one's.
<1>1. ASSUME NEW s, AttemptTransition(s) PROVE NoAbandonedRow'
  <2>1. ASSUME NEW r \in 1..nRuns', r # current' PROVE rows'[r] \in Settled
    <3>1. CASE UNCHANGED ctxVars
      BY <2>1, <3>1 DEF ctxVars
    <3>2. CASE /\ current' \in RunId /\ current' <= nRuns'
               /\ \/ current = 0 /\ current' = nRuns + 1 /\ nRuns' = nRuns + 1
                  \/ current # 0 /\ current' = current /\ nRuns' = nRuns
               /\ rows' = [rows EXCEPT ![current'] = s] \/ rows' = rows
      <4>1. r \in 1..nRuns /\ r # current
        BY <2>1, <3>2
      <4>2. rows[r] \in Settled /\ rows'[r] = rows[r]
        BY <2>1, <3>2, <4>1
      <4>3. QED
        BY <4>2
    <3>3. QED
      BY <1>1, <3>1, <3>2, TransitionWrites
  <2>2. QED
    BY <2>1
<1>2. ASSUME NEW s \in {"KILLED", "IDLE"}, AttemptTransition(s), UNCHANGED <<pc, run>>
      PROVE  RestInv'
  <2>1. HasMover => HasMover'
    BY <1>2 DEF HasMover
  <2>2. QED
    BY <1>1, <1>2, <2>1, TransitionWrites, WorkingFails DEF ctxVars
<1>3. ASSUME NEW t \in Thread, Advance(t) PROVE RestInv'
  <2>1. /\ pc[t] \in DOMAIN Moves /\ run[t] # 0 /\ current = run[t] /\ run' = run
        /\ AttemptTransition(Moves[pc[t]].to)
    BY <1>3 DEF Advance, RunBound, RunnerIsCurrent, Bound, AttemptTransition
  <2>2. CASE pc' = [pc EXCEPT ![t] = "fail"]
    <3>1. HasMover'
      BY <2>1, <2>2 DEF HasMover, Active
    <3>2. curState' \in {curState, Moves[pc[t]].to}
      BY <2>1, TransitionWrites DEF ctxVars
    <3>3. QED
      BY <1>1, <2>1, <3>1, <3>2, MovesWorking, WorkingFails
  <2>3. CASE TransitionTo(Moves[pc[t]].to) /\ pc' = [pc EXCEPT ![t] = Moves[pc[t]].next]
    <3>1. curState' = Moves[pc[t]].to
      BY <2>1, <2>3 DEF TransitionTo, Move
    <3>2. Moves[pc[t]].next \in Active => HasMover'
      BY <2>1, <2>3 DEF HasMover
    <3>3. QED
      BY <1>1, <2>1, <3>1, <3>2, MovesWorking, WorkingFails
  <2>4. QED
    BY <1>3, <2>2, <2>3 DEF Advance, Goto
<1>4. ASSUME NEW t \in Thread, Fail(t) PROVE RestInv'
  <2>1. AttemptTransition("FAILED")
    BY <1>4 DEF Fail
  <2>2. curState' \in Settled \/ (current' = 0 /\ curState' = curState)
    BY <2>1, WorkingFails DEF AttemptTransition, TransitionTo, TransitionRaises, Move,
                              NewContext, Unsaved, ctxVars
  <2>3. QED
    BY <1>1, <2>1, <2>2
<1>5. ASSUME NEW t \in Thread, BeginRun(t) PROVE RestInv'
  <2>1. current # 0 => curState \in Settled
    <3>1. ~HasMover
      <4> SUFFICES ASSUME NEW u \in Thread, run[u] # 0, pc[u] \in Active PROVE FALSE
        BY DEF HasMover
      <4>1. u # t /\ InRun(u) /\ InRun(t)
        BY <1>5, BeginWrites, MovesDomain DEF InRun, Active, JobStep
      <4>2. QED
        BY <4>1 DEF SingleRunPerLock
    <3>2. QED
      BY <3>1
  <2>2. /\ current' = nRuns + 1 /\ nRuns' = nRuns + 1 /\ curState' = "RUNNING"
        /\ run' = [run EXCEPT ![t] = nRuns + 1]
        /\ rows' = [rows EXCEPT ![nRuns + 1] = "RUNNING"]
        /\ pc' = [pc EXCEPT ![t] = "analyze"]
    BY <1>5, BeginWrites
  <2>3. NoAbandonedRow'
    BY <2>1, <2>2
  <2>4. HasMover'
    BY <2>2, MovesDomain DEF HasMover, Active
  <2>5. QED
    BY <2>2, <2>3, <2>4 DEF Working
<1>6. ASSUME NEW t \in Thread, UNCHANGED ctxVars,
             \A u \in Thread : u # t => run'[u] = run[u] /\ pc'[u] = pc[u],
             run[t] # 0 /\ pc[t] \in Active => run'[t] # 0 /\ pc'[t] \in Active
      PROVE  RestInv'
  <2>1. HasMover => HasMover'
    BY <1>6 DEF HasMover
  <2>2. QED
    BY <1>6, <2>1 DEF ctxVars
<1>7. ASSUME NEW t \in Thread, Enter(t) \/ AcquireLock(t) \/ BeginRefused(t)
                               \/ Record(t) \/ Release(t)
      PROVE  RestInv'
  BY <1>6, <1>7, MovesDomain
     DEF Enter, AcquireLock, BeginRefused, Record, Release, Goto, Active, JobStep
<1>8. ASSUME NEW t \in Thread, Formulate(t) \/ PassGates(t) \/ BlockIntent(t)
                               \/ ApproveIntent(t) \/ HandleExecution(t)
                               \/ SubmitOrder(t) \/ FinishJob(t) \/ JobRaises(t)
      PROVE  RestInv'
  BY <1>6, <1>8, MovesDomain
     DEF Formulate, PassGates, BlockIntent, ApproveIntent, HandleExecution,
         SubmitOrder, FinishJob, JobRaises, Goto, Active, JobStep
<1>9. CASE KillTransition \/ IdleTransition
  BY <1>2, <1>9 DEF KillTransition, IdleTransition, NotContext
<1>10. ~Restart
  BY DEF Restart
<1>11. CASE UNCHANGED <<pc, run, ctxVars>>
  <2>1. HasMover => HasMover'
    BY <1>11 DEF HasMover
  <2>2. QED
    BY <1>11, <2>1 DEF ctxVars
<1>12. QED
  BY <1>3, <1>4, <1>5, <1>7, <1>8, <1>9, <1>10, <1>11
     DEF Next, vars, ThreadStep, OperatorStep, OperatorGoesOn, NotSwitches, Kill,
         KillRunning, KillPause, KillHalt, Reset, ResetPause, ResetHalt, Start,
         StartUnpauses, Stop, Pause, Resume, OtherSwitch, LeaseEnds

\* As long as all threads use one lock, runs fit its lease, no statement raises
\* and the backend does not restart, no run is left behind in a working state:
\* when a new run becomes the current one, the old one is at rest.
THEOREM NothingAbandoned ==
  ASSUME RunsFitLease, ~DbMayFail, MaxRestarts = 0,
         \A t, u \in Thread : LockOf[t] = LockOf[u]
  PROVE  Spec => []NoAbandonedRow
<1>1. Init => RestInv /\ RunnerIsCurrent
  BY WorkingFails DEF Init, RestInv, NoAbandonedRow, RunnerIsCurrent, Bound
<1>2. TypeOK /\ RunBound /\ CtxInv /\ ContextMatchesRow /\ SingleRunPerLock
        /\ RunnerIsCurrent /\ RestInv /\ [Next]_vars => RestInv'
  BY RestStep
<1>3. TypeOK /\ SingleRunPerLock /\ RunnerIsCurrent /\ [Next]_vars => RunnerIsCurrent'
  BY RunnerStep
<1>4. Spec => []SingleRunPerLock
  BY MutualExclusion
<1>5. Spec => []ContextMatchesRow
  BY ContextIsSaved
<1>6. RestInv => NoAbandonedRow
  BY DEF RestInv
<1>7. QED
  BY <1>1, <1>2, <1>3, <1>4, <1>5, <1>6, Contexts, Typed, PTL DEF Spec
------------------------------------------------------------------------------
(* The table that others read                                              *)

\* Without a restart, which may load an older run, the current run is the one
\* created last.
CurrentIsYoungest == current = nRuns

LEMMA YoungestStep ==
  ASSUME MaxRestarts = 0
  PROVE  TypeOK /\ CtxInv /\ CurrentIsYoungest /\ [Next]_vars => CurrentIsYoungest'
<1> SUFFICES ASSUME TypeOK, CtxInv, CurrentIsYoungest, [Next]_vars
             PROVE  CurrentIsYoungest'
  OBVIOUS
<1> USE DEF CurrentIsYoungest
<1>1. ASSUME NEW s, AttemptTransition(s) PROVE CurrentIsYoungest'
  BY <1>1, TransitionWrites DEF ctxVars
<1>2. ASSUME NEW t \in Thread, BeginRun(t) PROVE CurrentIsYoungest'
  BY <1>2, BeginWrites
<1>3. ASSUME NEW t \in Thread, Advance(t) \/ Fail(t) PROVE CurrentIsYoungest'
  BY <1>1, <1>3 DEF Advance, Fail, AttemptTransition
<1>4. CASE KillTransition \/ IdleTransition
  BY <1>1, <1>4 DEF KillTransition, IdleTransition
<1>5. ~Restart
  BY DEF Restart, TypeOK
<1>6. CASE UNCHANGED ctxVars
  BY <1>6 DEF ctxVars
<1>7. QED
  BY <1>2, <1>3, <1>4, <1>5, <1>6, ContextChange

\* The engine and the table's specification speak of one machine.
LEMMA OneMachine ==
  /\ RT!Successors = Successors
  /\ \A from, to : RT!Valid(from, to) <=> Valid(from, to)
<1>1. RT!Successors = Successors
  BY DEF RT!Successors, Successors, RT!State, State, RT!Working, Working
<1>2. QED
  BY <1>1 DEF RT!Valid, Valid

\* From a run that ended, the machine has no transition that a thread asks for.
LEMMA EndedIsLeftAlone ==
  /\ \A s \in RT!Ended : ~Valid(s, "FAILED")
  /\ \A s \in RT!Ended, p \in DOMAIN Moves : ~Valid(s, Moves[p].to)
  /\ \A p \in DOMAIN Moves : Moves[p].to \notin {"SCHEDULED", "RUNNING", "IDLE", "KILLED"}
  /\ RT!AtRest = Settled
<1>1. \A s \in RT!Ended : Successors[s] \subseteq {"IDLE", "SCHEDULED", "RUNNING"}
  BY DEF RT!Ended, Successors, State, Working
<1>2. \A p \in DOMAIN Moves : Moves[p].to \notin {"SCHEDULED", "RUNNING", "IDLE", "KILLED"}
  BY MovesDomain DEF Moves
<1>3. \A s \in RT!Ended : ~Valid(s, "FAILED")
  BY <1>1 DEF Valid
<1>4. \A s \in RT!Ended, p \in DOMAIN Moves : ~Valid(s, Moves[p].to)
  BY <1>1, <1>2 DEF Valid
<1>5. RT!AtRest = Settled
  BY DEF RT!AtRest, RT!Ended, Settled, Finished
<1>6. QED
  BY <1>2, <1>3, <1>4, <1>5

LEMMA TableStep ==
  ASSUME ~DbMayFail, MaxRestarts = 0, \A t, u \in Thread : LockOf[t] = LockOf[u],
         TypeOK, RunBound, CtxInv, ContextMatchesRow, SingleRunPerLock,
         RunnerIsCurrent, RestInv, CurrentIsYoungest, [Next]_vars
  PROVE  [RT!Next]_(RT!vars)
<1> USE DEF CurrentIsYoungest, ContextMatchesRow
<1>1. CASE UNCHANGED ctxVars
  BY <1>1 DEF ctxVars, RT!vars
\* What transition_to writes, and where: the orphan's row or the youngest's
<1>2. ASSUME NEW s, AttemptTransition(s), ~UNCHANGED ctxVars
      PROVE  /\ nRuns = 0 => RT!Create(s)
             /\ nRuns # 0 => Valid(rows[nRuns], s) /\ RT!Write(s)
  <2>1. /\ current' \in RunId /\ current' <= nRuns'
        /\ \/ current = 0 /\ current' = nRuns + 1 /\ nRuns' = nRuns + 1
           \/ current # 0 /\ current' = current /\ nRuns' = nRuns /\ Valid(curState, s)
        /\ rows' = [rows EXCEPT ![current'] = s]
    BY <1>2, TransitionWrites
  <2>2. CASE nRuns = 0
    <3>1. nRuns < MaxRuns
      BY <2>1, <2>2 DEF RunId
    <3>2. QED
      BY <2>1, <2>2, <3>1 DEF RT!Create
  <2>3. CASE nRuns # 0
    BY <2>1, <2>3 DEF RT!Write
  <2>4. QED
    BY <2>2, <2>3
<1>3. ASSUME NEW t \in Thread, BeginRun(t) PROVE RT!Begin
  <2>1. /\ pc[t] = "begin" /\ current' = nRuns + 1 /\ nRuns' = nRuns + 1 /\ current' \in RunId
        /\ rows' = [rows EXCEPT ![current'] = "RUNNING"]
    BY <1>3, BeginWrites
  <2>2. ~HasMover
    <3> SUFFICES ASSUME NEW u \in Thread, run[u] # 0, pc[u] \in Active PROVE FALSE
      BY DEF HasMover
    <3>1. u # t /\ InRun(u) /\ InRun(t)
      BY <2>1, MovesDomain DEF InRun, Active, JobStep
    <3>2. QED
      BY <3>1 DEF SingleRunPerLock
  <2>3. \A r \in 1..nRuns : rows[r] \in Settled
    BY <2>2 DEF RestInv, NoAbandonedRow
  <2>4. RT!Create("RUNNING")
    <3>1. nRuns < MaxRuns
      BY <2>1 DEF RunId, TypeOK
    <3>2. QED
      BY <2>1, <3>1 DEF RT!Create
  <2>5. QED
    BY <2>3, <2>4, EndedIsLeftAlone DEF RT!Begin
<1>4. ASSUME NEW t \in Thread, Advance(t), ~UNCHANGED ctxVars PROVE RT!Continue
  <2> DEFINE to == Moves[pc[t]].to
  <2>1. AttemptTransition(to) /\ pc[t] \in DOMAIN Moves
    BY <1>4 DEF Advance, AttemptTransition
  <2>2. nRuns # 0
    BY <2>1 DEF RunBound, RunnerIsCurrent, Bound
  <2>3. Valid(rows[nRuns], to) /\ RT!Write(to)
    BY <1>2, <1>4, <2>1, <2>2
  <2>4. to \notin {"SCHEDULED", "RUNNING", "IDLE", "KILLED"} /\ rows[nRuns] \notin RT!Ended
    BY <2>1, <2>3, EndedIsLeftAlone
  <2>5. to \in RT!Successors[rows[nRuns]] \ {"SCHEDULED", "RUNNING", "IDLE"}
    BY <2>3, <2>4, OneMachine DEF Valid
  <2> HIDE DEF to
  <2>6. QED
    BY <2>2, <2>3, <2>4, <2>5 DEF RT!Continue
<1>5. ASSUME NEW t \in Thread, Fail(t), ~UNCHANGED ctxVars
      PROVE  RT!LeaveTrace \/ RT!Continue
  <2>1. AttemptTransition("FAILED")
    BY <1>5 DEF Fail
  <2>2. CASE nRuns = 0
    BY <1>2, <1>5, <2>1, <2>2 DEF RT!LeaveTrace
  <2>3. CASE nRuns # 0
    <3>1. Valid(rows[nRuns], "FAILED") /\ RT!Write("FAILED")
      BY <1>2, <1>5, <2>1, <2>3
    <3>2. rows[nRuns] \notin RT!Ended
      BY <3>1, EndedIsLeftAlone
    <3>3. "FAILED" \in RT!Successors[rows[nRuns]] \ {"SCHEDULED", "RUNNING", "IDLE"}
      BY <3>1, OneMachine DEF Valid
    <3>4. QED
      BY <2>3, <3>1, <3>2, <3>3 DEF RT!Continue
  <2>4. QED
    BY <2>2, <2>3
<1>6. ASSUME NEW s \in {"KILLED", "IDLE"}, AttemptTransition(s), ~UNCHANGED ctxVars
      PROVE  RT!LeaveTrace \/ RT!Operate
  BY <1>2, <1>6, OneMachine DEF RT!LeaveTrace, RT!Operate
<1>7. CASE KillTransition \/ IdleTransition
  BY <1>1, <1>6, <1>7 DEF KillTransition, IdleTransition, RT!Next
<1>8. ~Restart
  BY DEF Restart, TypeOK
<1>9. QED
  BY <1>1, <1>3, <1>4, <1>5, <1>7, <1>8, ContextChange DEF RT!Next

\* As long as all threads use one lock, runs fit its lease, no statement raises
\* and the backend does not restart, the engine implements the table that its
\* readers count on: one run after the other, along the machine, the ended ones
\* left alone, whatever threads and operators do.
THEOREM TableRefinement ==
  ASSUME RunsFitLease, ~DbMayFail, MaxRestarts = 0,
         \A t, u \in Thread : LockOf[t] = LockOf[u]
  PROVE  Spec => ImplementsRunTable
<1>1. Init => RT!Init
  BY DEF Init, RT!Init, RunId, RT!RunId
<1>2. Init => RestInv /\ RunnerIsCurrent /\ CurrentIsYoungest
  BY WorkingFails DEF Init, RestInv, NoAbandonedRow, RunnerIsCurrent, Bound, CurrentIsYoungest
<1>3. TypeOK /\ RunBound /\ CtxInv /\ ContextMatchesRow /\ SingleRunPerLock
        /\ RunnerIsCurrent /\ RestInv /\ [Next]_vars => RestInv'
  BY RestStep
<1>4. TypeOK /\ SingleRunPerLock /\ RunnerIsCurrent /\ [Next]_vars => RunnerIsCurrent'
  BY RunnerStep
<1>5. TypeOK /\ CtxInv /\ CurrentIsYoungest /\ [Next]_vars => CurrentIsYoungest'
  BY YoungestStep
<1>6. TypeOK /\ RunBound /\ CtxInv /\ ContextMatchesRow /\ SingleRunPerLock
        /\ RunnerIsCurrent /\ RestInv /\ CurrentIsYoungest /\ [Next]_vars
        => [RT!Next]_(RT!vars)
  BY TableStep
<1>7. Spec => []SingleRunPerLock
  BY MutualExclusion
<1>8. Spec => []ContextMatchesRow
  BY ContextIsSaved
<1>9. QED
  BY <1>1, <1>2, <1>3, <1>4, <1>5, <1>6, <1>7, <1>8, Contexts, Typed, PTL
     DEF Spec, ImplementsRunTable, RT!Spec

------------------------------------------------------------------------------
(* What a checkpoint reports                                               *)

WellEnded == {"COMPLETED", "KILLED", "IDLE"}

\* A run that was reported stays well ended in memory too, so that a stray call
\* of the handler cannot turn it into FAILED, and its thread moves it no more.
SuccessInv ==
    /\ \A l \in LockId : lastSuccess[l] <= nRuns
    /\ \A l \in LockId : lastSuccess[l] # 0 =>
         /\ rows[lastSuccess[l]] \in WellEnded
         /\ current = lastSuccess[l] => curState \in WellEnded
    /\ \A t \in Thread : pc[t] = "record" =>
         curState \in WellEnded /\ rows[run[t]] \in WellEnded
    /\ \A t \in Thread, l \in LockId :
         run[t] # 0 /\ lastSuccess[l] = run[t] => pc[t] = "release"

LEMMA WellEndedFailsNot == \A s \in WellEnded : ~Valid(s, "FAILED")
<1>1. \A s \in WellEnded : "FAILED" \notin Successors[s]
  BY DEF WellEnded, Successors, State, Working
<1>2. QED
  BY <1>1 DEF Valid

LEMMA SuccessStep ==
  ASSUME \A t, u \in Thread : LockOf[t] = LockOf[u],
         TypeOK, RunBound, CtxInv, RunIds, SingleRunPerLock, RunnerIsCurrent,
         SuccessInv, [Next]_vars
  PROVE  SuccessInv'
<1> USE DEF TypeOK, CtxInv, SuccessInv
<1>1. ASSUME NEW t \in Thread, NEW u \in Thread, InRun(t), pc[u] = "record" PROVE u = t
  BY <1>1 DEF SingleRunPerLock, InRun
<1>2. \A t \in Thread : pc[t] = "record" => run[t] # 0 /\ current = run[t]
  BY DEF RunBound, RunnerIsCurrent, Bound
\* The run that is written is no reported one.
<1>3. ASSUME NEW r \in RunId, \A l \in LockId : lastSuccess[l] # r,
             current' = r, rows' \in {rows, [rows EXCEPT ![r] = curState']}
      PROVE  \A l \in LockId : lastSuccess[l] # 0 =>
               rows'[lastSuccess[l]] \in WellEnded /\ current' # lastSuccess[l]
  BY <1>3 DEF RunId
<1>4. ASSUME NEW t \in Thread, BeginRun(t) PROVE SuccessInv'
  <2>1. /\ pc[t] = "begin" /\ run' = [run EXCEPT ![t] = nRuns + 1]
        /\ current' = nRuns + 1 /\ nRuns' = nRuns + 1 /\ nRuns + 1 \in RunId
        /\ rows' \in {rows, [rows EXCEPT ![nRuns + 1] = curState']}
        /\ pc' \in {[pc EXCEPT ![t] = "analyze"], [pc EXCEPT ![t] = "fail"]}
        /\ lastSuccess' = lastSuccess
    BY <1>4, BeginWrites
  <2>2. \A l \in LockId : lastSuccess[l] # nRuns + 1
    OBVIOUS
  <2>3. \A l \in LockId : lastSuccess[l] # 0 =>
          rows'[lastSuccess[l]] \in WellEnded /\ current' # lastSuccess[l]
    BY <1>3, <2>1, <2>2
  <2>4. \A u \in Thread : pc'[u] # "record"
    BY <1>1, <2>1 DEF InRun
  <2>5. \A u \in Thread, l \in LockId :
          run'[u] # 0 /\ lastSuccess[l] = run'[u] => pc'[u] = "release"
    BY <2>1, <2>2
  <2>6. QED
    BY <2>1, <2>3, <2>4, <2>5
<1>5. ASSUME NEW t \in Thread, Advance(t) PROVE SuccessInv'
  <2>1. /\ pc[t] \in DOMAIN Moves /\ run[t] # 0 /\ run[t] \in RunId /\ current = run[t]
        /\ AttemptTransition(Moves[pc[t]].to)
        /\ UNCHANGED <<run, lastSuccess>>
    BY <1>5 DEF Advance, RunBound, RunnerIsCurrent, Bound, AttemptTransition, RunId
  <2>2. \A l \in LockId : lastSuccess[l] # run[t]
    BY <2>1, MovesDomain
  <2>3. /\ current' = run[t] /\ nRuns' = nRuns
        /\ rows' \in {rows, [rows EXCEPT ![run[t]] = curState']}
    BY <2>1, TransitionWrites DEF ctxVars
  <2>4. \A l \in LockId : lastSuccess[l] # 0 =>
          rows'[lastSuccess[l]] \in WellEnded /\ current' # lastSuccess[l]
    BY <1>3, <2>1, <2>2, <2>3
  <2>5. \E p \in {"fail", Moves[pc[t]].next} : pc' = [pc EXCEPT ![t] = p]
    BY <1>5 DEF Advance, Goto
  <2>6. ASSUME NEW u \in Thread, pc'[u] = "record"
        PROVE  curState' \in WellEnded /\ rows'[run'[u]] \in WellEnded
    <3>1. u = t
      BY <1>1, <2>1, <2>5, <2>6, MovesDomain DEF InRun
    <3>2. Moves[pc[t]].next = "record" /\ pc' # [pc EXCEPT ![t] = "fail"]
      BY <2>5, <2>6, <3>1
    <3>3. Moves[pc[t]].to = "COMPLETED"
      BY <2>1, <3>2, MovesWorking, MovesDomain DEF Active, JobStep
    <3>4. TransitionTo("COMPLETED")
      BY <1>5, <3>2, <3>3 DEF Advance, Goto
    <3>5. curState' = "COMPLETED" /\ rows' = [rows EXCEPT ![run[t]] = "COMPLETED"]
      BY <2>1, <2>3, <3>4 DEF TransitionTo, Move, Saved
    <3>6. QED
      BY <2>1, <3>1, <3>5 DEF WellEnded
  <2>7. \A u \in Thread, l \in LockId :
          run'[u] # 0 /\ lastSuccess[l] = run'[u] => pc'[u] = "release"
    BY <2>1, <2>2, <2>5
  <2>8. QED
    BY <2>1, <2>3, <2>4, <2>6, <2>7
<1>6. ASSUME NEW s \in {"KILLED", "IDLE"}, AttemptTransition(s),
             UNCHANGED <<run, pc, lastSuccess>>
      PROVE  SuccessInv'
  <2>1. CASE UNCHANGED ctxVars
    BY <1>6, <2>1 DEF ctxVars
  <2>2. CASE /\ current' \in RunId /\ nRuns' \in {nRuns, nRuns + 1} /\ curState' = s
             /\ current = 0 \/ current' = current
             /\ rows' \in {rows, [rows EXCEPT ![current'] = s]}
    <3>1. \A r \in RunId : rows[r] \in WellEnded => rows'[r] \in WellEnded
      BY <2>2 DEF WellEnded
    <3>2. curState' \in WellEnded
      BY <2>2 DEF WellEnded
    <3>3. \A t \in Thread : pc[t] = "record" => rows'[run[t]] \in WellEnded
      BY <1>2, <3>1 DEF RunId
    <3>4. \A l \in LockId : lastSuccess[l] # 0 => rows'[lastSuccess[l]] \in WellEnded
      BY <3>1 DEF RunId
    <3>5. QED
      BY <1>6, <2>2, <3>2, <3>3, <3>4
  <2>3. QED
    BY <1>6, <2>1, <2>2, TransitionWrites
<1>7. ASSUME NEW t \in Thread, Fail(t) PROVE SuccessInv'
  <2>1. /\ pc[t] = "fail" /\ pc' = [pc EXCEPT ![t] = "release"]
        /\ AttemptTransition("FAILED") /\ UNCHANGED <<run, lastSuccess>>
    BY <1>7 DEF Fail, Goto
  <2>2. \A u \in Thread : pc'[u] # "record"
    BY <1>1, <2>1 DEF InRun
  <2>3. CASE UNCHANGED ctxVars
    BY <2>1, <2>2, <2>3 DEF ctxVars
  <2>4. CASE /\ current' \in RunId /\ nRuns' \in {nRuns, nRuns + 1} /\ curState' = "FAILED"
             /\ \/ current' = nRuns + 1
                \/ current # 0 /\ current' = current /\ Valid(curState, "FAILED")
             /\ rows' \in {rows, [rows EXCEPT ![current'] = "FAILED"]}
    <3>1. \A l \in LockId : lastSuccess[l] # current'
      BY <2>4, WellEndedFailsNot
    <3>2. \A l \in LockId : lastSuccess[l] # 0 =>
            rows'[lastSuccess[l]] \in WellEnded /\ current' # lastSuccess[l]
      BY <1>3, <2>4, <3>1
    <3>3. QED
      BY <2>1, <2>2, <2>4, <3>2
  <2>5. QED
    BY <2>1, <2>3, <2>4, TransitionWrites
<1>8. ASSUME NEW t \in Thread, Record(t) PROVE SuccessInv'
  <2>1. CASE lastSuccess' = lastSuccess
    BY <1>8, <2>1 DEF Record, Goto, ctxVars
  <2>2. CASE /\ lastSuccess' = [lastSuccess EXCEPT ![LockOf[t]] = run[t]]
             /\ pc' = [pc EXCEPT ![t] = "release"]
    <3>1. /\ pc[t] = "record" /\ UNCHANGED <<ctxVars, run>>
          /\ run[t] <= nRuns /\ run[t] # 0 /\ current = run[t]
      BY <1>2, <1>8 DEF Record, RunIds
    <3>2. \A u \in Thread : run[u] # 0 /\ run[u] = run[t] => u = t
      BY DEF RunIds
    <3>3. \A u \in Thread : pc'[u] # "record"
      BY <1>1, <2>2, <3>1 DEF InRun
    <3>4. QED
      BY <2>2, <3>1, <3>2, <3>3 DEF ctxVars
  <2>3. QED
    BY <1>8, <2>1, <2>2 DEF Record, Goto
<1>9. ASSUME NEW t \in Thread, UNCHANGED <<ctxVars, lastSuccess>>,
             \A u \in Thread : u # t => run'[u] = run[u] /\ pc'[u] = pc[u],
             pc'[t] # "record",
             run'[t] = 0 \/ (run'[t] = run[t] /\ pc[t] # "release")
      PROVE  SuccessInv'
  BY <1>9 DEF ctxVars
<1>10. ASSUME NEW t \in Thread, Enter(t) \/ AcquireLock(t) \/ BeginRefused(t) \/ Release(t)
       PROVE  SuccessInv'
  BY <1>9, <1>10 DEF Enter, AcquireLock, BeginRefused, Release, Goto
<1>11. ASSUME NEW t \in Thread, Formulate(t) \/ PassGates(t) \/ BlockIntent(t)
                                \/ ApproveIntent(t) \/ HandleExecution(t)
                                \/ SubmitOrder(t) \/ FinishJob(t) \/ JobRaises(t)
       PROVE  SuccessInv'
  BY <1>9, <1>11 DEF Formulate, PassGates, BlockIntent, ApproveIntent,
                     HandleExecution, SubmitOrder, FinishJob, JobRaises, JobStep, Goto
<1>12. CASE KillTransition \/ IdleTransition
  BY <1>6, <1>12 DEF KillTransition, IdleTransition, NotContext
<1>13. CASE Restart
  <2>1. /\ UNCHANGED <<nRuns, lastSuccess>>
        /\ \A t \in Thread : pc'[t] = "idle" /\ run'[t] = 0
        /\ curState' = IF current' = 0 THEN "IDLE" ELSE rows[current']
    BY <1>13 DEF Restart
  <2>2. \A r \in RunId : rows[r] \in WellEnded => rows'[r] \in WellEnded
    BY <1>13, RestartWrites DEF WellEnded, Recovered
  <2>3. \A l \in LockId : lastSuccess[l] # 0 => lastSuccess[l] \in RunId
    BY DEF RunId
  <2>4. QED
    BY <2>1, <2>2, <2>3
<1>14. CASE UNCHANGED <<pc, run, lastSuccess, ctxVars>>
  BY <1>14 DEF ctxVars
<1>15. QED
  BY <1>4, <1>5, <1>7, <1>8, <1>10, <1>11, <1>12, <1>13, <1>14
     DEF Next, vars, ThreadStep, OperatorStep, OperatorGoesOn, NotSwitches, Kill,
         KillRunning, KillPause, KillHalt, Reset, ResetPause, ResetHalt, Start,
         StartUnpauses, Stop, Pause, Resume, OtherSwitch, LeaseEnds

\* As long as all threads use one lock and runs fit its lease, the run behind a
\* checkpoint's SUCCESS ran to its end, and nothing but a kill or a reset changed
\* its row afterwards, whatever statements fail and whenever the backend restarts.
THEOREM SuccessIsReal ==
  ASSUME RunsFitLease, \A t, u \in Thread : LockOf[t] = LockOf[u]
  PROVE  Spec => []SuccessWasCompleted
<1>1. Init => SuccessInv /\ RunnerIsCurrent /\ RunIds
  BY DEF Init, SuccessInv, RunnerIsCurrent, RunIds, Bound
<1>2. TypeOK /\ RunBound /\ CtxInv /\ RunIds /\ SingleRunPerLock /\ RunnerIsCurrent
        /\ SuccessInv /\ [Next]_vars => SuccessInv'
  BY SuccessStep
<1>3. TypeOK /\ SingleRunPerLock /\ RunnerIsCurrent /\ [Next]_vars => RunnerIsCurrent'
  BY RunnerStep
<1>4. Spec => []SingleRunPerLock
  BY MutualExclusion
<1>5. SuccessInv => SuccessWasCompleted
  BY DEF SuccessInv, SuccessWasCompleted, WellEnded
<1>6. QED
  BY <1>1, <1>2, <1>3, <1>4, <1>5, RunIdsStep, Contexts, Typed, PTL DEF Spec

------------------------------------------------------------------------------
(* The lock's clients                                                      *)

LEMMA EngineLockStep == TypeOK /\ [Next]_vars => [LL!Next]_(LL!vars)
<1> SUFFICES ASSUME TypeOK, [Next]_vars PROVE [LL!Next]_(LL!vars)
  OBVIOUS
<1>1. ASSUME NEW t \in Thread, AcquireLock(t) PROVE [LL!Next]_(LL!vars)
  <2>1. LockOf[t] \in LockId
    OBVIOUS
  <2>2. LL!Acquire(t, LockOf[t]) \/ UNCHANGED lockVars
    BY <1>1 DEF AcquireLock
  <2>3. QED
    BY <2>1, <2>2 DEF LL!Next, LL!vars, lockVars
<1>2. ASSUME NEW t \in Thread, Release(t) PROVE [LL!Next]_(LL!vars)
  <2>1. LockOf[t] \in LockId /\ LockId \in SUBSET LockId /\ {t} \in SUBSET Thread
    OBVIOUS
  <2>2. LL!Release(t, LockOf[t]) \/ LL!Leave({t}, LockId)
    BY <1>2 DEF Release
  <2>3. QED
    BY <2>1, <2>2 DEF LL!Next
<1>3. CASE LeaseEnds
  BY <1>3 DEF LeaseEnds, LL!Next
<1>4. CASE Restart
  <2>1. LL!Leave(Thread, LockId) /\ LockId \in SUBSET LockId /\ Thread \in SUBSET Thread
    BY <1>4 DEF Restart
  <2>2. QED
    BY <2>1 DEF LL!Next
<1>5. CASE UNCHANGED lockVars
  BY <1>5 DEF lockVars, LL!vars
<1>6. QED
  BY <1>1, <1>2, <1>3, <1>4, <1>5
     DEF Next, vars, ThreadStep, OperatorStep, OperatorGoesOn, NotSwitches,
         NotContext, Enter, BeginRun, BeginRefused, Advance, Formulate, PassGates,
         BlockIntent, ApproveIntent, HandleExecution, SubmitOrder, FinishJob,
         JobRaises, Record, Fail, Kill, KillRunning, KillPause, KillTransition,
         KillHalt, Reset, ResetPause, ResetHalt, IdleTransition, Start,
         StartUnpauses, Stop, Pause, Resume, OtherSwitch

\* The engine asks no more of its locks than LeaseLock lets a client do: every
\* step of it, a restart included, is one of the lock's or leaves it alone, so
\* that what DurableLock is shown to implement is all that the engine relies on.
THEOREM EngineUsesLease == Spec => LL!Spec
<1>1. Init => LL!Init
  BY DEF Init
<1>2. TypeOK /\ [Next]_vars => [LL!Next]_(LL!vars)
  BY EngineLockStep
<1>3. QED
  BY <1>1, <1>2, TypeCorrect, PTL DEF Spec, LL!Spec

\* What LeaseLock_proofs proves of every lease lock, of this one
LLP == INSTANCE LeaseLock_proofs WITH Client <- Thread

\* The lease lock and the mutex have the same actions through either instance.
LEMMA SameLock ==
  /\ LL!Init => LLP!Init
  /\ [LL!Next]_(LL!vars) => [LLP!Next]_(LLP!vars)
  /\ LLP!MX!Init => LL!MX!Init
  /\ [LLP!MX!Next]_(LLP!MX!vars) => [LL!MX!Next]_(LL!MX!vars)
<1>1. LL!Init => LLP!Init
  BY DEF LL!Init, LLP!Init
<1>2. [LL!Next]_(LL!vars) => [LLP!Next]_(LLP!vars)
  BY DEF LL!Next, LLP!Next, LL!vars, LLP!vars, LL!Acquire, LLP!Acquire, LL!Release,
         LLP!Release, LL!Leave, LLP!Leave, LL!Lapse, LLP!Lapse, LL!Purge, LLP!Purge
<1>3. LLP!MX!Init => LL!MX!Init
  BY DEF LLP!MX!Init, LL!MX!Init
<1>4. [LLP!MX!Next]_(LLP!MX!vars) => [LL!MX!Next]_(LL!MX!vars)
  BY DEF LLP!MX!Next, LL!MX!Next, LLP!MX!vars, LL!MX!vars, LLP!MX!Acquire,
         LL!MX!Acquire, LLP!MX!Leave, LL!MX!Leave
<1>5. QED
  BY <1>1, <1>2, <1>3, <1>4

\* When runs fit their lease the engine's threads have mutexes, by the lock's own
\* theorem: this half of the argument knows nothing of the engine.
THEOREM EngineLocksAreMutexes == ASSUME RunsFitLease PROVE Spec => LL!ImplementsMutex
<1>1. Spec => LL!Spec
  BY EngineUsesLease
<1>2. LLP!Spec => LLP!ImplementsMutex
  BY LLP!LeaseIsMutex
<1>3. QED
  BY <1>1, <1>2, SameLock, PTL
     DEF LL!Spec, LLP!Spec, LL!ImplementsMutex, LLP!ImplementsMutex, LL!MX!Spec, LLP!MX!Spec
==============================================================================
