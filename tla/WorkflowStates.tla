--------------------------- MODULE WorkflowStates ---------------------------
(***************************************************************************)
(* trading_orchestrator/workflow/state_machine.py: the states of a         *)
(* workflow run and which of them may follow which.                        *)
(***************************************************************************)

State ==
    {"IDLE", "SCHEDULED", "RUNNING", "ANALYZING", "DECISION_READY",
     "RISK_CHECK", "APPROVED", "EXECUTING", "MONITORING", "EXITING",
     "COMPLETED", "FAILED", "DEGRADED", "BLOCKED", "RECONCILIATION_REQUIRED",
     "KILLED"}

\* The states from which a run goes on by itself, or may fail.
Working ==
    {"SCHEDULED", "RUNNING", "ANALYZING", "DECISION_READY", "RISK_CHECK",
     "APPROVED", "EXECUTING", "MONITORING", "EXITING"}

\* VALID_TRANSITIONS, without its entries for KILLED
Successors ==
    [s \in State |->
       (IF s \in Working THEN {"FAILED"} ELSE {}) \cup
       CASE s = "IDLE" -> {"SCHEDULED", "RUNNING", "ANALYZING"}
         [] s = "SCHEDULED" -> {"RUNNING", "IDLE"}
         [] s = "RUNNING" -> {"ANALYZING", "DEGRADED", "COMPLETED"}
         [] s = "ANALYZING" -> {"DECISION_READY", "COMPLETED", "BLOCKED"}
         [] s = "DECISION_READY" -> {"RISK_CHECK", "BLOCKED", "COMPLETED"}
         [] s = "RISK_CHECK" -> {"APPROVED", "BLOCKED", "COMPLETED"}
         [] s = "APPROVED" -> {"EXECUTING", "BLOCKED", "COMPLETED"}
         [] s = "EXECUTING" ->
              {"MONITORING", "RECONCILIATION_REQUIRED", "COMPLETED"}
         [] s = "MONITORING" ->
              {"EXITING", "COMPLETED", "RECONCILIATION_REQUIRED", "DEGRADED"}
         [] s = "EXITING" -> {"COMPLETED", "RECONCILIATION_REQUIRED"}
         [] s = "COMPLETED" -> {"IDLE", "SCHEDULED", "RUNNING"}
         [] s = "DEGRADED" -> {"RUNNING", "IDLE"}
         [] s = "BLOCKED" -> {"IDLE", "SCHEDULED"}
         [] OTHER -> {"IDLE"}]

\* Slip: FAILED may follow any state, like KILLED.  (The runs refute it; it is no
\* part of the model.)
ValidOrFails(from, to) == to \in {"KILLED", "FAILED"} \/ to \in Successors[from]

\* validate_transition
Valid(from, to) == to = "KILLED" \/ to \in Successors[from]
==============================================================================
