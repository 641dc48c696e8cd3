---------------------------- MODULE MCDurableLock ----------------------------
\* Three runs, two of one routine and one of another.
EXTENDS DurableLock

CONSTANTS r1, r2, r3, opening, flatten

MCRun == {r1, r2, r3}
MCLockId == {opening, flatten}
MCLockOf == [r \in MCRun |-> IF r = r3 THEN flatten ELSE opening]
\* All three compete for one lock.
MCOneLock == [r \in MCRun |-> opening]
==============================================================================
