-------------------------------- MODULE Mutex --------------------------------
(***************************************************************************)
(* The lock that the callers of durable_lock.py think they have            *)
(* ("Prevents overlapping runs", durable_lock.py:4): who is in is alone.   *)
(* LeaseLock implements this module if nobody stays longer than its lease. *)
(***************************************************************************)
CONSTANTS
    LockId,
    Client

VARIABLE inside    \* the clients that acquired each lock and have not left

vars == inside

Init == inside = [l \in LockId |-> {}]

Acquire(c, l) ==
    /\ inside[l] = {}
    /\ inside' = [inside EXCEPT ![l] = {c}]

\* A release, or a crash of any number of clients
Leave(C, S) ==
    inside' = [l \in LockId |-> IF l \in S THEN inside[l] \ C ELSE inside[l]]

Next ==
    \/ \E c \in Client, l \in LockId : Acquire(c, l)
    \/ \E C \in SUBSET Client, S \in SUBSET LockId : Leave(C, S)

Spec == Init /\ [][Next]_vars

\* No two clients are ever inside one lock.
Exclusive == \A l \in LockId : \A c, d \in inside[l] : c = d
==============================================================================
