------------------------------- MODULE RunTable -------------------------------
(***************************************************************************)
(* What the table orchestrator_workflow_runs promises to those who read    *)
(* it, without the threads, locks, flags and calls behind it: runs follow  *)
(* one another, each begins when all before it are at rest, only the       *)
(* youngest is ever written, by the machine of WorkflowStates, and one     *)
(* that ended is touched again by an operator only.  WorkflowEngine        *)
(* implements this module as long as no statement raises and the backend   *)
(* does not restart.                                                       *)
(***************************************************************************)
EXTENDS Naturals, WorkflowStates

CONSTANT MaxRuns   \* bound on the rows

VARIABLES
    rows,          \* the status of each run, "ABSENT" without a row
    youngest       \* the run whose row was inserted last, 0 for none

vars == <<rows, youngest>>

RunId == 1..MaxRuns

Ended  == {"COMPLETED", "FAILED", "KILLED"}
AtRest == Ended \cup {"IDLE"}

Init ==
    /\ rows = [r \in RunId |-> "ABSENT"]
    /\ youngest = 0

Create(s) ==
    /\ youngest < MaxRuns
    /\ youngest' = youngest + 1
    /\ rows' = [rows EXCEPT ![youngest + 1] = s]

\* initialize_run: the runs before it are at rest.
Begin ==
    /\ \A r \in 1..youngest : rows[r] \in AtRest
    /\ Create("RUNNING")

\* The orphan that transition_to makes up in an empty table, for an operator's
\* call or for a call that failed before its run began
LeaveTrace ==
    /\ youngest = 0
    /\ \E s \in {"KILLED", "IDLE", "FAILED"} : Create(s)

Write(s) == rows' = [rows EXCEPT ![youngest] = s] /\ UNCHANGED youngest

\* The run's own thread: it neither resumes a run that ended nor begins one anew.
Continue ==
    /\ youngest # 0 /\ rows[youngest] \notin Ended
    /\ \E s \in Successors[rows[youngest]] \ {"SCHEDULED", "RUNNING", "IDLE"} : Write(s)

\* kill, reset and stop
Operate ==
    /\ youngest # 0
    /\ \E s \in {"KILLED", "IDLE"} : Valid(rows[youngest], s) /\ Write(s)

Next == Begin \/ LeaveTrace \/ Continue \/ Operate

Spec == Init /\ [][Next]_vars
===============================================================================
