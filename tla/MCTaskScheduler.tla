--------------------------- MODULE MCTaskScheduler ---------------------------
\* The opening scan, and a task that a user creates and deletes, run in
\* PAPER and in LIVE mode.
EXTENDS TaskScheduler, TLC

CONSTANTS scan, custom, paper, live, i1, i2, w1, w2

MCTask == {scan, custom}
MCCheckpoint == {scan}
MCMode == {paper, live}
MCOnlyScan == {scan}
MCNoLoop == {}
MCLoop == {i1}
MCTwoLoops == {i1, i2}
MCWorker == {w1, w2}
\* A lapsed lease keeps nobody out, no more than none at all.
MCView ==
    <<[l \in LockId |-> row[l] = "live"], inside, minute, taskVars, loopVars, workVars,
      executed, restarts>>
MCWorkersAlike == Permutations(MCWorker)
==============================================================================
