----------------------------- MODULE DurableLock -----------------------------
(***************************************************************************)
(* trading_orchestrator/scheduler/durable_lock.py: a lease lock kept in    *)
(* the table orchestrator_locks.  acquire_lock is not one transaction but  *)
(* three statements (DELETE of expired rows, SELECT of a live row, INSERT) *)
(* that compare with a `now` computed before the first of them, so calls   *)
(* of several threads and processes interleave between them.  The rows are *)
(* a set; that lock_id is the table's primary key is the guard of Insert.  *)
(* Definitions whose comment begins with "Slip" are no part of the model:  *)
(* each is the definition after it with a plausible error, which the runs  *)
(* refute.                                                                 *)
(***************************************************************************)
EXTENDS Integers

CONSTANTS
    Run,           \* calls that acquire a lock, do their work and release it
    LockId,        \* values of compute_lock_id
    LockOf,        \* the lock each run asks for
    Timeout,       \* timeout_seconds
    MaxClock,      \* bound of the clock
    RunsFitLease   \* TRUE: a run is over before its lease ends

ASSUME DurableLockAssumption ==
    /\ LockOf \in [Run -> LockId]
    /\ Timeout \in Nat
    /\ MaxClock \in Nat
    /\ RunsFitLease \in BOOLEAN

VARIABLES
    clock,         \* datetime.now(timezone.utc)
    rows,          \* the table orchestrator_locks
    stamp,         \* the `now` of each run's acquire_lock
    pc             \* how far each run is

vars == <<clock, rows, stamp, pc>>

\* `owner` tells which call inserted the row.  The table's holder_pid says only
\* which process did, and no statement reads it.
Row == [lock : LockId, owner : Run, expires : Int]

Step == {"idle", "clean", "check", "insert", "held"}

TypeOK ==
    /\ clock \in 0..MaxClock
    /\ rows \subseteq Row
    /\ stamp \in [Run -> 0..MaxClock]
    /\ pc \in [Run -> Step]

Init ==
    /\ clock = 0
    /\ rows = {}
    /\ stamp = [r \in Run |-> 0]
    /\ pc = [r \in Run |-> "idle"]

Lease(r) == stamp[r] + Timeout

RowOf(r) == [lock |-> LockOf[r], owner |-> r, expires |-> Lease(r)]

\* is_locked, for a caller whose `now` is the given time
ActiveAt(l, now) == \E x \in rows : x.lock = l /\ x.expires >= now

Goto(r, step) == pc' = [pc EXCEPT ![r] = step]

Begin(r) ==
    /\ pc[r] = "idle"
    /\ stamp' = [stamp EXCEPT ![r] = clock]
    /\ Goto(r, "clean")
    /\ UNCHANGED <<clock, rows>>

\* Slip: expires_at <= now in place of expires_at < now
CleanEarly(r) ==
    /\ pc[r] = "clean"
    /\ rows' \in {rows, {x \in rows : x.expires > stamp[r]}}
    /\ Goto(r, "check")
    /\ UNCHANGED <<clock, stamp>>

\* The DELETE's exceptions are swallowed: the call goes on without it.
CleanExpired(r) ==
    /\ pc[r] = "clean"
    /\ rows' \in {rows, {x \in rows : x.expires >= stamp[r]}}
    /\ Goto(r, "check")
    /\ UNCHANGED <<clock, stamp>>

CheckActive(r) ==
    /\ pc[r] = "check"
    /\ Goto(r, IF ActiveAt(LockOf[r], stamp[r]) THEN "idle" ELSE "insert")
    /\ UNCHANGED <<clock, rows, stamp>>

\* Slip: a table without its primary key
InsertUnkeyed(r) ==
    /\ pc[r] = "insert"
    /\ rows' = rows \cup {RowOf(r)}
    /\ Goto(r, "held")
    /\ UNCHANGED <<clock, stamp>>

\* Slip: INSERT OR REPLACE
InsertOrReplace(r) ==
    /\ pc[r] = "insert"
    /\ rows' = {x \in rows : x.lock # LockOf[r]} \cup {RowOf(r)}
    /\ Goto(r, "held")
    /\ UNCHANGED <<clock, stamp>>

Insert(r) ==
    /\ pc[r] = "insert"
    /\ \A x \in rows : x.lock # LockOf[r]
    /\ rows' = rows \cup {RowOf(r)}
    /\ Goto(r, "held")
    /\ UNCHANGED <<clock, stamp>>

\* A key conflict and any other error of a statement both end the call without
\* the lock: acquire_lock returns None or raises.
Refuse(r) ==
    /\ pc[r] \in {"check", "insert"}
    /\ Goto(r, "idle")
    /\ UNCHANGED <<clock, rows, stamp>>

\* Slip: DELETE ... WHERE holder_pid = ?
ReleaseAll(r) ==
    /\ pc[r] = "held"
    /\ rows' = {}
    /\ Goto(r, "idle")
    /\ UNCHANGED <<clock, stamp>>

\* DELETE ... WHERE lock_id = ?: whoever inserted the row.
Release(r) ==
    /\ pc[r] = "held"
    /\ rows' = {x \in rows : x.lock # LockOf[r]}
    /\ Goto(r, "idle")
    /\ UNCHANGED <<clock, stamp>>

\* The process dies, or the DELETE of release_lock raises.
Vanish(r) ==
    /\ pc[r] # "idle"
    /\ Goto(r, "idle")
    /\ UNCHANGED <<clock, rows, stamp>>

Tick ==
    /\ clock < MaxClock
    /\ RunsFitLease => \A r \in Run : pc[r] # "idle" => clock < Lease(r)
    /\ clock' = clock + 1
    /\ UNCHANGED <<rows, stamp, pc>>

Next ==
    \/ Tick
    \/ \E r \in Run :
         \/ Begin(r) \/ CleanExpired(r) \/ CheckActive(r)
         \/ Insert(r) \/ Refuse(r) \/ Release(r) \/ Vanish(r)

Spec == Init /\ [][Next]_vars

------------------------------------------------------------------------------
\* "Prevents overlapping runs for the same (routine, strategy, broker, account,
\* mode)" (durable_lock.py:4): two runs of one lock never hold it together,
\* however their DELETE, SELECT and INSERT interleave.
NoOverlap ==
    \A r, s \in Run :
      pc[r] = "held" /\ pc[s] = "held" /\ LockOf[r] = LockOf[s] => r = s

\* The weaker promise a lease makes even to runs that may be slow: two runs
\* that are both still inside their leases never hold one lock together.
NoOverlapWithinLease ==
    \A r, s \in Run :
      /\ pc[r] = "held" /\ clock <= Lease(r)
      /\ pc[s] = "held" /\ clock <= Lease(s)
      /\ LockOf[r] = LockOf[s]
      => r = s

\* A row that has not expired is deleted by the run that inserted it and by
\* nobody else: neither another call's DELETE of expired rows (whose `now` is
\* older) nor another run's release.
LiveRowOutlastsOthers ==
    [][\A x \in rows : x \notin rows' /\ x.expires >= clock
         => pc[x.owner] = "held" /\ pc'[x.owner] = "idle"]_vars

\* The primary key: one row per lock.
OneRowPerLock == \A x, y \in rows : x.lock = y.lock => x = y

\* Whoever holds the lock still has its own row in the table.
HolderHasRow == \A r \in Run : pc[r] = "held" => RowOf(r) \in rows

\* The sampled `now` lags behind the clock and, when runs fit their lease, by
\* no more than the lease.
StampIsRecent ==
    \A r \in Run : /\ stamp[r] <= clock
                   /\ RunsFitLease /\ pc[r] # "idle" => clock <= Lease(r)

\* The inductive invariant behind NoOverlap.
LockInv ==
    /\ OneRowPerLock
    /\ StampIsRecent
    /\ RunsFitLease => HolderHasRow

------------------------------------------------------------------------------
\* The refinement: an entry is live until the clock passes its expiry.
rowBar ==
    [l \in LockId |-> IF \A x \in rows : x.lock # l THEN "none"
                      ELSE IF ActiveAt(l, clock) THEN "live" ELSE "lapsed"]

insideBar == [l \in LockId |-> {r \in Run : pc[r] = "held" /\ LockOf[r] = l}]

LL == INSTANCE LeaseLock WITH Client <- Run, row <- rowBar, inside <- insideBar

\* The three statements together behave as one atomic acquisition of a lease
\* lock, and a stale `now` never deletes or overlooks a live entry.
ImplementsLeaseLock == LL!Spec
==============================================================================
