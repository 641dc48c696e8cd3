-------------------------- MODULE MCWorkflowEngine --------------------------
\* Two threads: with one lock, a scheduled and a manual run of a checkpoint in one
\* mode; with a lock each, two checkpoints or a paper and a LIVE run of one.
EXTENDS WorkflowEngine

CONSTANTS t1, t2, scan, flatten, s1, s2

MCThread == {t1, t2}
MCOneLockId == {scan}
MCOneLock == [t \in MCThread |-> scan]
MCTwoLockIds == {scan, flatten}
MCTwoLocks == [t \in MCThread |-> IF t = t1 THEN scan ELSE flatten]
MCOneSetup == {s1}
MCTwoSetups == {s1, s2}
MCNoThread == {}
=============================================================================
