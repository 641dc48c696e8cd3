--------------------------- MODULE WorkflowEngine ---------------------------
(***************************************************************************)
(* trading_orchestrator/workflow/workflow_engine.py with the parts it      *)
(* drives: the WorkflowStateManager and its table                          *)
(* orchestrator_workflow_runs, the CheckpointJobRunner and the             *)
(* DecisionEngine.  Threads call trigger_checkpoint_execution while        *)
(* operators start, stop, pause, resume, kill and reset the engine.  The   *)
(* engine's lock covers the operators' calls and the beginning of a run,   *)
(* and nothing after it; the flags `_is_killed` and GLOBAL_KILL_SWITCH are *)
(* also read without it.  broadcast_event, which holds that lock for the   *)
(* moment it copies the listeners, is left out: the code has fewer         *)
(* interleavings than the model, and no others.                            *)
(*                                                                         *)
(* Definitions whose comment begins with "Slip" are no part of the model:  *)
(* each is the definition after it with a plausible error, which the runs  *)
(* refute.                                                                 *)
(***************************************************************************)
EXTENDS Integers, FiniteSets, WorkflowStates

CONSTANTS
    Thread,        \* callers of trigger_checkpoint_execution
    PaperThread,   \* those whose execution_mode is PAPER
    LockId,        \* lock ids: one for each checkpoint, strategy, broker, account and mode
    LockOf,        \* the lock each thread asks for
    Setup,         \* what an intent may propose: symbol, side, account
    RunsFitLease,  \* TRUE: a run is over before its lease ends
    DbMayFail,     \* TRUE: a statement may raise
    SharedSwitch,  \* TRUE: others write GLOBAL_KILL_SWITCH too
    MaxRuns,       \* bound on the rows of orchestrator_workflow_runs
    MaxRestarts    \* bound on restarts of the backend

ASSUME WorkflowEngineAssumption ==
    /\ PaperThread \subseteq Thread
    /\ LockOf \in [Thread -> LockId]
    /\ IsFiniteSet(Thread)
    /\ IsFiniteSet(Setup)
    /\ {RunsFitLease, DbMayFail, SharedSwitch} \subseteq BOOLEAN
    /\ MaxRuns \in Nat
    /\ MaxRestarts \in Nat

\* The execution mode is hashed into the lock's id.
ASSUME LockModeAssumption ==
    \A t, u \in Thread : LockOf[t] = LockOf[u] => (t \in PaperThread <=> u \in PaperThread)

VARIABLES
    killed, paused, running,   \* _is_killed, _is_paused, _is_running
    halt,          \* config.GLOBAL_KILL_SWITCH
    guard,         \* the next step of the operator's call that holds the engine's lock
    current,       \* run_id of WorkflowStateManager._current, 0 for None
    curState,      \* its current_state
    rows,          \* status of each row of orchestrator_workflow_runs
    nRuns,         \* run ids given out so far
    row, inside,   \* the durable locks (LeaseLock)
    pc,            \* how far each thread is
    run,           \* its local run_id, 0 while unbound
    todo,          \* intents it has not evaluated yet
    unsent,        \* approved intents it has not sent to the paper adapter
    orders,        \* setups with a row in orchestrator_orders, by run
    submitted,     \* setups sent to the paper adapter, by run
    lastSuccess,   \* run last reported by last_status = 'SUCCESS', by lock, 0 for none
    late,          \* intents approved since the halt, by thread (history)
    restarts       \* restarts of the backend so far

switchVars == <<killed, paused, running, halt, guard>>
ctxVars    == <<current, curState, rows, nRuns>>
lockVars   == <<row, inside>>
jobVars    == <<todo, unsent, orders, submitted, late>>
vars == <<switchVars, ctxVars, lockVars, jobVars, pc, run, lastSuccess, restarts>>

LL == INSTANCE LeaseLock WITH Client <- Thread

RunId == 1..MaxRuns

\* The steps of trigger_checkpoint_execution that move the run to a state,
\* the state and the step that follows.
Moves ==
    [analyze  |-> [to |-> "ANALYZING",      next |-> "ready"],
     ready    |-> [to |-> "DECISION_READY", next |-> "risk"],
     risk     |-> [to |-> "RISK_CHECK",     next |-> "formulate"],
     approve  |-> [to |-> "APPROVED",       next |-> "execute"],
     execute  |-> [to |-> "EXECUTING",      next |-> "monitor"],
     monitor  |-> [to |-> "MONITORING",     next |-> "complete"],
     complete |-> [to |-> "COMPLETED",      next |-> "record"]]

\* The steps of CheckpointJobRunner.execute_checkpoint
JobStep == {"formulate", "gate", "verdict", "submit"}

Step == DOMAIN Moves \cup JobStep \cup
        {"idle", "acquire", "begin", "record", "fail", "release"}

TypeOK ==
    /\ {killed, paused, running, halt} \subseteq BOOLEAN
    /\ guard \in {"free", "stopping", "pausing", "killing", "halting", "unpausing",
                  "unhalting", "idling", "starting"}
    /\ current \in 0..MaxRuns
    /\ curState \in State
    /\ rows \in [RunId -> State \cup {"ABSENT"}]
    /\ nRuns \in 0..MaxRuns
    /\ LL!TypeOK
    /\ pc \in [Thread -> Step]
    /\ run \in [Thread -> 0..MaxRuns]
    /\ todo \in [Thread -> SUBSET Setup]
    /\ unsent \in [Thread -> SUBSET Setup]
    /\ orders \in [RunId -> SUBSET Setup]
    /\ submitted \in [RunId -> SUBSET Setup]
    /\ lastSuccess \in [LockId -> 0..MaxRuns]
    /\ late \in [Thread -> SUBSET Setup]
    /\ restarts \in 0..MaxRestarts

Init ==
    /\ killed = FALSE /\ paused = FALSE /\ running = FALSE /\ halt = FALSE
    /\ guard = "free"
    /\ current = 0 /\ curState = "IDLE" /\ nRuns = 0
    /\ rows = [r \in RunId |-> "ABSENT"]
    /\ LL!Init
    /\ pc = [t \in Thread |-> "idle"]
    /\ run = [t \in Thread |-> 0]
    /\ todo = [t \in Thread |-> {}]
    /\ unsent = [t \in Thread |-> {}]
    /\ orders = [r \in RunId |-> {}]
    /\ submitted = [r \in RunId |-> {}]
    /\ lastSuccess = [l \in LockId |-> 0]
    /\ late = [t \in Thread |-> {}]
    /\ restarts = 0

------------------------------------------------------------------------------
(* WorkflowStateManager.transition_to: memory first, then the row.         *)

\* Slip: the row is written before the state is set.
SavedStale == rows' = [rows EXCEPT ![current'] = curState]

Saved == rows' = [rows EXCEPT ![current'] = curState']
Unsaved == DbMayFail /\ UNCHANGED rows

\* A run, a thread's or the orphan that stands for an operator's call,
\* becomes the current one.
NewContext(s) ==
    /\ nRuns < MaxRuns
    /\ nRuns' = nRuns + 1
    /\ current' = nRuns + 1
    /\ curState' = s

\* Slip: transition_to does not validate.
MoveUnvalidated(s) ==
    \/ current = 0 /\ NewContext(s)
    \/ current # 0 /\ curState' = s /\ UNCHANGED <<current, nRuns>>

Move(s) ==
    \/ /\ current = 0
       /\ NewContext(s)
    \/ /\ current # 0 /\ Valid(curState, s)
       /\ curState' = s
       /\ UNCHANGED <<current, nRuns>>

TransitionTo(s) == Move(s) /\ Saved

TransitionRaises(s) ==
    \/ Move(s) /\ Unsaved
    \/ current # 0 /\ ~Valid(curState, s) /\ UNCHANGED ctxVars

\* try: transition_to(...) except Exception: pass
AttemptTransition(s) == TransitionTo(s) \/ TransitionRaises(s)

------------------------------------------------------------------------------
(* trigger_checkpoint_execution                                            *)

Goto(t, step) == pc' = [pc EXCEPT ![t] = step]

\* Bound: a run id is left for every call under way that may need one.
RunIdLeft ==
    nRuns + Cardinality({t \in Thread : pc[t] \in {"acquire", "begin"}})
          + (IF guard \in {"free", "starting"} THEN 0 ELSE 1) < MaxRuns

\* The first test of _is_killed takes no lock.
Enter(t) ==
    /\ pc[t] = "idle" /\ ~killed /\ RunIdLeft
    /\ Goto(t, "acquire")
    /\ UNCHANGED <<switchVars, ctxVars, lockVars, jobVars, run, lastSuccess, restarts>>

\* Slip: what acquire_lock answers is not looked at.
AcquireUnchecked(t) ==
    /\ pc[t] = "acquire"
    /\ LL!Acquire(t, LockOf[t]) \/ (row[LockOf[t]] = "live" /\ UNCHANGED lockVars)
    /\ Goto(t, "begin")
    /\ UNCHANGED <<switchVars, ctxVars, jobVars, run, lastSuccess, restarts>>

\* BLOCKED, or an exception of acquire_lock, ends the call.
AcquireLock(t) ==
    /\ pc[t] = "acquire"
    /\ \/ LL!Acquire(t, LockOf[t]) /\ Goto(t, "begin")
       \/ /\ row[LockOf[t]] = "live" \/ DbMayFail
          /\ Goto(t, "idle")
          /\ UNCHANGED lockVars
    /\ UNCHANGED <<switchVars, ctxVars, jobVars, run, lastSuccess, restarts>>

BeginRun(t) ==
    /\ pc[t] = "begin" /\ guard = "free" /\ ~killed /\ ~paused
    /\ NewContext("RUNNING")
    /\ run' = [run EXCEPT ![t] = nRuns + 1]
    /\ \/ Saved /\ Goto(t, "analyze")
       \/ Unsaved /\ Goto(t, "fail")
    /\ UNCHANGED <<switchVars, lockVars, jobVars, lastSuccess, restarts>>

\* The second test of _is_killed, under the lock, raises; a pause is SKIPPED.
BeginRefused(t) ==
    /\ pc[t] = "begin" /\ guard = "free"
    /\ \/ killed /\ Goto(t, "fail")
       \/ ~killed /\ paused /\ Goto(t, "release")
    /\ UNCHANGED <<switchVars, ctxVars, lockVars, jobVars, run, lastSuccess, restarts>>

Advance(t) ==
    /\ pc[t] \in DOMAIN Moves
    /\ LET m == Moves[pc[t]] IN
         \/ TransitionTo(m.to) /\ Goto(t, m.next)
         \/ TransitionRaises(m.to) /\ Goto(t, "fail")
    /\ UNCHANGED <<switchVars, lockVars, jobVars, run, lastSuccess, restarts>>

Formulate(t) ==
    /\ pc[t] = "formulate"
    /\ \E S \in SUBSET Setup : todo' = [todo EXCEPT ![t] = S]
    /\ Goto(t, "gate")
    /\ UNCHANGED <<switchVars, ctxVars, lockVars, unsent, orders, submitted, late,
                   run, lastSuccess, restarts>>

\* Slip: gate 1 is left out.
PassUngated(t) ==
    /\ pc[t] = "gate" /\ todo[t] # {}
    /\ Goto(t, "verdict")
    /\ UNCHANGED <<switchVars, ctxVars, lockVars, jobVars, run, lastSuccess, restarts>>

\* Gate 1 of evaluate_intent reads GLOBAL_KILL_SWITCH.  The other gates may
\* block any intent; gate 4 (DUPLICATE_ORDER_PREVENTED) never does, because the
\* idempotency key it looks up holds the intent's own fresh decisionId.
PassGates(t) ==
    /\ pc[t] = "gate" /\ todo[t] # {} /\ ~halt
    /\ Goto(t, "verdict")
    /\ UNCHANGED <<switchVars, ctxVars, lockVars, jobVars, run, lastSuccess, restarts>>

\* An intent that a gate, the risk engine or an error of the risk engine blocks
BlockIntent(t) ==
    /\ pc[t] \in {"gate", "verdict"}
    /\ \E x \in todo[t] : todo' = [todo EXCEPT ![t] = @ \ {x}]
    /\ Goto(t, "gate")
    /\ UNCHANGED <<switchVars, ctxVars, lockVars, unsent, orders, submitted, late,
                   run, lastSuccess, restarts>>

\* The risk engine approves it: a row RISK_APPROVED in orchestrator_orders.
ApproveIntent(t) ==
    /\ pc[t] = "verdict"
    /\ \E x \in todo[t] :
         /\ todo' = [todo EXCEPT ![t] = @ \ {x}]
         /\ orders' = [orders EXCEPT ![run[t]] = @ \cup {x}]
         /\ late' = IF halt THEN [late EXCEPT ![t] = @ \cup {x}] ELSE late
    /\ Goto(t, "gate")
    /\ UNCHANGED <<switchVars, ctxVars, lockVars, unsent, submitted, run,
                   lastSuccess, restarts>>

\* Slip: what any run had approved is handled again.
HandleAllOrders(t) ==
    /\ pc[t] = "gate" /\ todo[t] = {}
    /\ unsent' = [unsent EXCEPT ![t] = UNION {orders[r] : r \in RunId}]
    /\ Goto(t, "submit")
    /\ UNCHANGED <<switchVars, ctxVars, lockVars, todo, orders, submitted, late,
                   run, lastSuccess, restarts>>

\* Slip: the execution mode is not asked for.
HandleAnyMode(t) ==
    /\ pc[t] = "gate" /\ todo[t] = {}
    /\ unsent' = [unsent EXCEPT ![t] = orders[run[t]]]
    /\ Goto(t, "submit")
    /\ UNCHANGED <<switchVars, ctxVars, lockVars, todo, orders, submitted, late,
                   run, lastSuccess, restarts>>

\* Intents of a LIVE run only await a human's approval.
HandleExecution(t) ==
    /\ pc[t] = "gate" /\ todo[t] = {}
    /\ unsent' = [unsent EXCEPT ![t] = IF t \in PaperThread THEN orders[run[t]] ELSE {}]
    /\ Goto(t, "submit")
    /\ UNCHANGED <<switchVars, ctxVars, lockVars, todo, orders, submitted, late,
                   run, lastSuccess, restarts>>

\* SQUARE_OFF intents are passed over; nothing is asked of the kill switch.
SubmitOrder(t) ==
    /\ pc[t] = "submit"
    /\ \E x \in unsent[t] :
         /\ unsent' = [unsent EXCEPT ![t] = @ \ {x}]
         /\ submitted' \in {submitted, [submitted EXCEPT ![run[t]] = @ \cup {x}]}
    /\ UNCHANGED <<switchVars, ctxVars, lockVars, todo, orders, late, pc, run,
                   lastSuccess, restarts>>

\* Slip: a run without orders is reported without being completed.
FinishUncompleted(t) ==
    /\ pc[t] = "submit" /\ unsent[t] = {}
    /\ Goto(t, IF orders[run[t]] # {} THEN "approve" ELSE "record")
    /\ UNCHANGED <<switchVars, ctxVars, lockVars, jobVars, run, lastSuccess, restarts>>

FinishJob(t) ==
    /\ pc[t] = "submit" /\ unsent[t] = {}
    /\ Goto(t, IF orders[run[t]] # {} THEN "approve" ELSE "complete")
    /\ UNCHANGED <<switchVars, ctxVars, lockVars, jobVars, run, lastSuccess, restarts>>

\* Market context, agent, decision record or journal: all of them can raise.
JobRaises(t) ==
    /\ pc[t] \in JobStep
    /\ Goto(t, "fail")
    /\ UNCHANGED <<switchVars, ctxVars, lockVars, jobVars, run, lastSuccess, restarts>>

Record(t) ==
    /\ pc[t] = "record"
    /\ \/ lastSuccess' = [lastSuccess EXCEPT ![LockOf[t]] = run[t]] /\ Goto(t, "release")
       \/ DbMayFail /\ UNCHANGED lastSuccess /\ Goto(t, "fail")
    /\ UNCHANGED <<switchVars, ctxVars, lockVars, jobVars, run, restarts>>

\* Slip: the handler only reports the error.
FailSilently(t) ==
    /\ pc[t] = "fail"
    /\ Goto(t, "release")
    /\ UNCHANGED <<switchVars, ctxVars, lockVars, jobVars, run, lastSuccess, restarts>>

\* Slip: the handler returns and there is no finally.
FailAndReturn(t) ==
    /\ pc[t] = "fail"
    /\ AttemptTransition("FAILED")
    /\ Goto(t, "idle")
    /\ UNCHANGED <<switchVars, lockVars, jobVars, run, lastSuccess, restarts>>

\* The handler moves whatever run is current to FAILED; with run_id unbound it
\* then raises UnboundLocalError, and the lock is released all the same.
Fail(t) ==
    /\ pc[t] = "fail"
    /\ AttemptTransition("FAILED")
    /\ Goto(t, "release")
    /\ UNCHANGED <<switchVars, lockVars, jobVars, run, lastSuccess, restarts>>

Release(t) ==
    /\ pc[t] = "release"
    /\ \/ LL!Release(t, LockOf[t])
       \/ DbMayFail /\ LL!Leave({t}, LockId)
    /\ Goto(t, "idle")
    /\ run' = [run EXCEPT ![t] = 0]
    /\ todo' = [todo EXCEPT ![t] = {}]
    /\ unsent' = [unsent EXCEPT ![t] = {}]
    /\ late' = [late EXCEPT ![t] = {}]
    /\ UNCHANGED <<switchVars, ctxVars, orders, submitted, lastSuccess, restarts>>

------------------------------------------------------------------------------
(* Operators.  Each call holds the engine's lock from its first step to    *)
(* its last.                                                               *)

NotSwitches == <<ctxVars, lockVars, jobVars, pc, run, lastSuccess, restarts>>
NotContext == <<lockVars, jobVars, pc, run, lastSuccess, restarts>>

Operator(step, next) == guard = step /\ guard' = next

\* Bound: transition_to may need a run id.
MayTransition == current # 0 \/ RunIdLeft

\* trigger_kill_switch: one flag after the other, which is_killed, is_running and
\* the other readers see without the lock, the workflow state, the global switch.
Kill ==
    /\ Operator("free", "stopping") /\ MayTransition
    /\ killed' = TRUE
    /\ UNCHANGED <<paused, running, halt, NotSwitches>>

KillRunning ==
    /\ Operator("stopping", "pausing")
    /\ running' = FALSE
    /\ UNCHANGED <<killed, paused, halt, NotSwitches>>

KillPause ==
    /\ Operator("pausing", "killing")
    /\ paused' = TRUE
    /\ UNCHANGED <<killed, running, halt, NotSwitches>>

KillTransition ==
    /\ Operator("killing", "halting")
    /\ AttemptTransition("KILLED")
    /\ UNCHANGED <<killed, paused, running, halt, NotContext>>

KillHalt ==
    /\ Operator("halting", "free")
    /\ halt' = TRUE
    /\ UNCHANGED <<killed, paused, running, NotSwitches>>

\* Approvals count as late from the moment the switch is up.
NothingLate == late' = [t \in Thread |-> {}]

\* reset_kill_switch: the flags, the global switch, the state.
Reset ==
    /\ Operator("free", "unpausing") /\ MayTransition
    /\ killed' = FALSE
    /\ UNCHANGED <<paused, running, halt, NotSwitches>>

ResetPause ==
    /\ Operator("unpausing", "unhalting")
    /\ paused' = FALSE
    /\ UNCHANGED <<killed, running, halt, NotSwitches>>

ResetHalt ==
    /\ Operator("unhalting", "idling")
    /\ halt' = FALSE
    /\ NothingLate
    /\ UNCHANGED <<killed, paused, running, todo, unsent, orders, submitted, ctxVars,
                   lockVars, pc, run, lastSuccess, restarts>>

\* Slip: a reset forgets the current run.
IdleForgets ==
    /\ Operator("idling", "free")
    /\ current' = 0 /\ curState' = "IDLE"
    /\ UNCHANGED <<killed, paused, running, halt, rows, nRuns, NotContext>>

\* Slip: a state the machine does not have
IdleUnknown ==
    /\ Operator("idling", "free")
    /\ AttemptTransition("STOPPED")
    /\ UNCHANGED <<killed, paused, running, halt, NotContext>>

\* The end of a reset and of a stop
IdleTransition ==
    /\ Operator("idling", "free")
    /\ AttemptTransition("IDLE")
    /\ UNCHANGED <<killed, paused, running, halt, NotContext>>

\* stop_workflow does not ask for _is_killed and leaves it as it is.
Stop ==
    /\ Operator("free", "idling") /\ MayTransition
    /\ running' = FALSE
    /\ UNCHANGED <<killed, paused, halt, NotSwitches>>

Start ==
    /\ Operator("free", "starting") /\ ~killed
    /\ running' = TRUE
    /\ UNCHANGED <<killed, paused, halt, NotSwitches>>

StartUnpauses ==
    /\ Operator("starting", "free")
    /\ paused' = FALSE
    /\ UNCHANGED <<killed, running, halt, NotSwitches>>

\* pause_orchestrator and resume_orchestrator: resume does not ask for _is_killed.
Pause ==
    /\ guard = "free"
    /\ paused' = TRUE
    /\ UNCHANGED <<killed, running, halt, guard, NotSwitches>>

Resume ==
    /\ guard = "free"
    /\ paused' = FALSE
    /\ UNCHANGED <<killed, running, halt, guard, NotSwitches>>

\* The command bus sets and clears GLOBAL_KILL_SWITCH without the engine.
OtherSwitch ==
    /\ SharedSwitch
    /\ halt' = ~halt
    /\ NothingLate
    /\ UNCHANGED <<killed, paused, running, guard, todo, unsent, orders, submitted,
                   ctxVars, lockVars, pc, run, lastSuccess, restarts>>

------------------------------------------------------------------------------
(* Time passes, and the backend restarts.                                  *)

LeaseEnds ==
    /\ \E S \in SUBSET LockId \ {{}} : LL!Lapse(S) \/ LL!Purge(S)
    /\ UNCHANGED <<switchVars, ctxVars, jobVars, pc, run, lastSuccess, restarts>>

Finished == {"COMPLETED", "FAILED", "KILLED"}

\* _load_active_run_from_db: the youngest row that is not finished
Unfinished == {r \in RunId : rows[r] \notin Finished \cup {"ABSENT"}}
Latest(r) ==
    \/ Unfinished = {} /\ r = 0
    \/ r \in Unfinished /\ \A q \in Unfinished : q <= r

Recovered == {"RUNNING", "ANALYZING", "RISK_CHECK", "EXECUTING"}

Dangling == {r \in RunId : rows[r] \in Recovered}

\* The process dies and a new one starts.  WorkflowStateManager loads its
\* context first; then the engine completes the rows it takes for dangling, all
\* of them unless a statement raises, which it only logs.
Restart ==
    /\ restarts < MaxRestarts
    /\ restarts' = restarts + 1
    /\ killed' = FALSE /\ paused' = FALSE /\ running' = FALSE /\ halt' = FALSE
    /\ guard' = "free"
    /\ current' \in {r \in 0..MaxRuns : Latest(r)}
    /\ curState' = IF current' = 0 THEN "IDLE" ELSE rows[current']
    /\ \E S \in SUBSET Dangling :
         /\ S = Dangling \/ DbMayFail
         /\ rows' = [r \in RunId |-> IF r \in S THEN "COMPLETED" ELSE rows[r]]
    /\ LL!Leave(Thread, LockId)
    /\ pc' = [t \in Thread |-> "idle"]
    /\ run' = [t \in Thread |-> 0]
    /\ todo' = [t \in Thread |-> {}]
    /\ unsent' = [t \in Thread |-> {}]
    /\ NothingLate
    /\ UNCHANGED <<nRuns, orders, submitted, lastSuccess>>

ThreadStep(t) ==
    \/ AcquireLock(t) \/ BeginRun(t) \/ BeginRefused(t) \/ Advance(t)
    \/ Formulate(t) \/ PassGates(t) \/ BlockIntent(t) \/ ApproveIntent(t)
    \/ HandleExecution(t) \/ SubmitOrder(t) \/ FinishJob(t) \/ JobRaises(t)
    \/ Record(t) \/ Fail(t) \/ Release(t)

OperatorGoesOn ==
    \/ KillRunning \/ KillPause \/ KillTransition \/ KillHalt
    \/ ResetPause \/ ResetHalt \/ IdleTransition \/ StartUnpauses

OperatorStep ==
    \/ Kill \/ Reset \/ Start \/ Stop \/ OperatorGoesOn
    \/ Pause \/ Resume \/ OtherSwitch

Next ==
    \/ \E t \in Thread : Enter(t) \/ ThreadStep(t)
    \/ OperatorStep
    \/ LeaseEnds
    \/ Restart

Spec == Init /\ [][Next]_vars

\* Calls under way go on; nobody has to make a new one.  A thread that waits
\* for the engine's lock gets it sooner or later although others come and go.
Fairness ==
    /\ \A t \in Thread : WF_vars(ThreadStep(t)) /\ SF_vars(BeginRun(t) \/ BeginRefused(t))
    /\ WF_vars(OperatorGoesOn)

FairSpec == Spec /\ Fairness

------------------------------------------------------------------------------
InRun(t) == pc[t] \notin {"idle", "acquire"}
Bound(t) == run[t] # 0

\* "Acquire durable lock to prevent overlapping runs" (workflow_engine.py:155):
\* no two threads are past acquire_lock with one lock.
SingleRunPerLock ==
    \A t, u \in Thread : InRun(t) /\ InRun(u) /\ LockOf[t] = LockOf[u] => t = u

\* Where all runs use one lock, and so one mode, the context that transition_to moves is always
\* the run of the thread that calls it.
ContextBelongsToRunner == \A t \in Thread : Bound(t) => current = run[t]

\* The states a run may have reached when its thread is at a step
Course ==
    [analyze   |-> {"RUNNING"},
     ready     |-> {"ANALYZING"},
     risk      |-> {"DECISION_READY"},
     formulate |-> {"RISK_CHECK"},
     gate      |-> {"RISK_CHECK"},
     verdict   |-> {"RISK_CHECK"},
     submit    |-> {"RISK_CHECK"},
     approve   |-> {"RISK_CHECK"},
     execute   |-> {"APPROVED"},
     monitor   |-> {"EXECUTING"},
     complete  |-> {"MONITORING", "RISK_CHECK"},
     record    |-> {"COMPLETED"}]

\* Where all runs use one lock, a thread and the context it moves agree on how
\* far the run is; only operators take it off its course, a kill to KILLED and a
\* reset or stop_workflow from there to IDLE.  No other thread's run and no
\* handler does.
RunKeepsCourse ==
    \A t \in Thread : Bound(t) /\ pc[t] \in DOMAIN Course =>
      curState \in Course[pc[t]] \cup {"KILLED", "IDLE"}

\* The context in memory and its row tell the same state ("single source of
\* truth for the active orchestrator workflow run", workflow_state.py:4).
ContextMatchesRow == current # 0 => rows[current] = curState

\* A run that is no longer current came to an end: no interleaving of failures,
\* kills, resets and new runs leaves a row that looks active for ever.
Settled == Finished \cup {"IDLE"}
NoAbandonedRow == \A r \in 1..nRuns : r # current => rows[r] \in Settled

\* A checkpoint reports SUCCESS only for a run that ran to its end, and that
\* was at most killed or reset afterwards.
SuccessWasCompleted ==
    \A l \in LockId : lastSuccess[l] # 0 => rows[lastSuccess[l]] \in {"COMPLETED", "KILLED", "IDLE"}

\* A context that was killed leaves KILLED by an operator's call only, a reset or
\* stop_workflow, and for IDLE: the thread whose run it was does not turn it into
\* FAILED or COMPLETED.  Nor is it replaced while the engine is killed: a run that
\* passed the test without the lock (workflow_engine.py:150) before the kill does
\* not begin after it.
KilledLeftByOperator ==
    [][/\ curState = "KILLED" /\ curState' # "KILLED" /\ current # 0
       /\ current' = current \/ (killed /\ killed')
       => curState' = "IDLE" /\ pc' = pc]_vars

\* Once GLOBAL_KILL_SWITCH is up, a run approves at most the one intent that
\* had passed gate 1 before.
OneVerdictAfterHalt == \A t \in Thread : Cardinality(late[t]) <= 1

\* The paper adapter is sent nothing the risk engine did not approve in the
\* same run, and a LIVE run sends it nothing ("Never bypasses Risk Engine",
\* decision_engine.py:7).
OnlyApprovedSubmitted ==
    /\ \A r \in RunId : submitted[r] \subseteq orders[r]
    /\ \A t \in Thread \ PaperThread : Bound(t) => submitted[run[t]] = {}

\* Whatever fails or is killed, every row comes to rest in a finished state or
\* in IDLE.
EveryRunSettles ==
    \A r \in RunId : rows[r] # "ABSENT" ~> rows[r] \in Settled

\* Every call ends and gives its lock back.
EveryCallEnds ==
    \A t \in Thread : pc[t] = "acquire" ~> pc[t] = "idle" /\ t \notin inside[LockOf[t]]

\* Whatever threads and operators do to the one context that all of them share,
\* who reads the table sees runs that follow one another, each by the machine's
\* transitions: a new one only when the others are at rest, an ended one touched
\* by operators only, no step skipped ("the active orchestrator workflow run",
\* workflow_state.py:4).
RT == INSTANCE RunTable WITH youngest <- nRuns

ImplementsRunTable == RT!Spec

------------------------------------------------------------------------------
(* What comments, messages and docstrings of the code say, and the code    *)
(* does not do.                                                            *)

\* "Immediately stops new orders" (workflow_engine.py:263)
NoOrderAfterKill == [][killed /\ halt => submitted' = submitted]_vars

\* "Trading Orchestrator is KILLED by Emergency Kill Switch. Resume/Reset
\* required." (workflow_engine.py:151): stop_workflow, too, takes the state from
\* KILLED to IDLE, and from there a run killed at its first step goes on.
NothingMovesKilled ==
    [][killed /\ killed' /\ guard = "free" /\ current' = current
         => curState' \in {curState, "KILLED", "IDLE", "FAILED"}]_vars

\* "no duplicates" (decision_engine.py:6): no setup is approved again while an
\* order for it is active.
NoDuplicateOrder == \A r, q \in RunId : r # q => orders[r] \cap orders[q] = {}
==============================================================================
