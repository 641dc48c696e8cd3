------------------------------ MODULE LeaseLock ------------------------------
(***************************************************************************)
(* What the orchestrator's durable lock promises to the code that uses it, *)
(* without its table, its clock or its SQL statements.  A lock is an entry *)
(* that is absent, live (inside its lease) or lapsed (past its lease, the  *)
(* row still there).  Any number of clients may be inside a lock: that at  *)
(* most one is, follows only when RunsFitLease, because a release removes  *)
(* the entry whoever made it.  DurableLock implements this module;         *)
(* WorkflowEngine and TaskScheduler use it.                                *)
(***************************************************************************)
EXTENDS Naturals

CONSTANTS
    LockId,        \* the keys of the lock table
    Client,        \* whoever acquires locks
    RunsFitLease   \* TRUE: nobody is still inside when its lease ends

VARIABLES
    row,           \* the entry of each lock
    inside         \* the clients that acquired it and have not left

vars == <<row, inside>>

TypeOK ==
    /\ row \in [LockId -> {"none", "live", "lapsed"}]
    /\ inside \in [LockId -> SUBSET Client]

Init ==
    /\ row = [l \in LockId |-> "none"]
    /\ inside = [l \in LockId |-> {}]

\* A lease that outlasts the call that makes it is live; one made by a call
\* that stalled longer than the lease is born lapsed.
Acquire(c, l) ==
    /\ row[l] # "live"
    /\ \E entry \in {"live"} \cup (IF RunsFitLease THEN {} ELSE {"lapsed"}) :
         row' = [row EXCEPT ![l] = entry]
    /\ inside' = [inside EXCEPT ![l] = @ \cup {c}]

Release(c, l) ==
    /\ c \in inside[l]
    /\ row' = [row EXCEPT ![l] = "none"]
    /\ inside' = [inside EXCEPT ![l] = @ \ {c}]

\* Clients that crash, or whose release failed, are gone; their rows are not.
Leave(C, S) ==
    /\ inside' = [l \in LockId |-> IF l \in S THEN inside[l] \ C ELSE inside[l]]
    /\ UNCHANGED row

Lapse(S) ==
    /\ \A l \in S : row[l] = "live" /\ (RunsFitLease => inside[l] = {})
    /\ row' = [l \in LockId |-> IF l \in S THEN "lapsed" ELSE row[l]]
    /\ UNCHANGED inside

Purge(S) ==
    /\ \A l \in S : row[l] = "lapsed"
    /\ row' = [l \in LockId |-> IF l \in S THEN "none" ELSE row[l]]
    /\ UNCHANGED inside

Next ==
    \/ \E c \in Client, l \in LockId : Acquire(c, l) \/ Release(c, l)
    \/ \E S \in SUBSET LockId :
         \/ Lapse(S) \/ Purge(S)
         \/ \E C \in SUBSET Client : Leave(C, S)

Spec == Init /\ [][Next]_vars

------------------------------------------------------------------------------
\* With runs that fit their lease the entry is as good as a mutex: it is live as
\* long as anybody is inside, so that nobody joins.
MX == INSTANCE Mutex

ImplementsMutex == MX!Spec

\* Why: whoever is inside is alone, and the entry is live.
InsideIsLive == \A l \in LockId : inside[l] # {} => row[l] = "live"
==============================================================================
