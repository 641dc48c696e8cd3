-------------------------- MODULE DurableLock_proofs --------------------------
(***************************************************************************)
(* For any number of runs and locks, any lease length and any clock:       *)
(* typing, mutual exclusion of runs that fit their lease, who deletes a    *)
(* live row, and that the three SQL statements of acquire_lock implement   *)
(* the atomic LeaseLock.                                                   *)
(***************************************************************************)
EXTENDS DurableLock, TLAPS

USE DurableLockAssumption

LEMMA InitType == Init => TypeOK
  BY DEF Init, TypeOK, Step

LEMMA NextType == TypeOK /\ [Next]_vars => TypeOK'
<1> SUFFICES ASSUME TypeOK, [Next]_vars PROVE TypeOK'
  OBVIOUS
<1> USE DEF TypeOK, Step, Goto
<1>1. CASE Tick
  BY <1>1 DEF Tick
<1>2. ASSUME NEW r \in Run, Begin(r) PROVE TypeOK'
  BY <1>2 DEF Begin
<1>3. ASSUME NEW r \in Run, CleanExpired(r) PROVE TypeOK'
  BY <1>3 DEF CleanExpired
<1>4. ASSUME NEW r \in Run, CheckActive(r) PROVE TypeOK'
  BY <1>4 DEF CheckActive
<1>5. ASSUME NEW r \in Run, Insert(r) PROVE TypeOK'
  <2>1. RowOf(r) \in Row
    BY DEF RowOf, Row, Lease
  <2>2. QED
    BY <1>5, <2>1 DEF Insert
<1>6. ASSUME NEW r \in Run, Refuse(r) \/ Vanish(r) PROVE TypeOK'
  BY <1>6 DEF Refuse, Vanish
<1>7. ASSUME NEW r \in Run, Release(r) PROVE TypeOK'
  BY <1>7 DEF Release
<1>8. CASE UNCHANGED vars
  BY <1>8 DEF vars
<1>9. QED
  BY <1>1, <1>2, <1>3, <1>4, <1>5, <1>6, <1>7, <1>8 DEF Next

\* Every variable keeps its type: in particular a sampled `now` is a time the
\* clock has shown, and rows are well-formed.
THEOREM TypeCorrect == Spec => []TypeOK
  BY InitType, NextType, PTL DEF Spec

------------------------------------------------------------------------------
LEMMA InitLock == Init => LockInv
  BY DEF Init, LockInv, OneRowPerLock, StampIsRecent, HolderHasRow

\* DELETEs keep the key unique; the INSERT's guard is the key.
LEMMA KeyStep == TypeOK /\ OneRowPerLock /\ [Next]_vars => OneRowPerLock'
<1> SUFFICES ASSUME TypeOK, OneRowPerLock, [Next]_vars PROVE OneRowPerLock'
  OBVIOUS
<1>1. CASE rows' \subseteq rows
  BY <1>1 DEF OneRowPerLock
<1>2. ASSUME NEW r \in Run, Insert(r) PROVE OneRowPerLock'
  BY <1>2 DEF Insert, OneRowPerLock, RowOf
<1>3. QED
  BY <1>1, <1>2 DEF Next, vars, Tick, Begin, CleanExpired, CheckActive,
                    Refuse, Release, Vanish

\* Only Tick ages a sample, and only Begin takes one.
LEMMA StampStep == TypeOK /\ StampIsRecent /\ [Next]_vars => StampIsRecent'
<1> SUFFICES ASSUME TypeOK, StampIsRecent, [Next]_vars PROVE StampIsRecent'
  OBVIOUS
<1> USE DEF TypeOK, StampIsRecent, Lease, Goto
<1>1. CASE Tick
  BY <1>1 DEF Tick
<1>2. ASSUME NEW r \in Run, Begin(r) PROVE StampIsRecent'
  BY <1>2 DEF Begin
<1>3. ASSUME NEW r \in Run,
             \/ CleanExpired(r) \/ CheckActive(r) \/ Insert(r)
             \/ Refuse(r) \/ Release(r) \/ Vanish(r)
      PROVE  StampIsRecent'
  BY <1>3 DEF CleanExpired, CheckActive, Insert, Refuse, Release, Vanish, Step
<1>4. CASE UNCHANGED vars
  BY <1>4 DEF vars
<1>5. QED
  BY <1>1, <1>2, <1>3, <1>4 DEF Next

\* Two holders of one lock would have two rows under one key.
LEMMA RowsExclude == TypeOK /\ OneRowPerLock /\ HolderHasRow => NoOverlap
  BY DEF OneRowPerLock, HolderHasRow, NoOverlap, RowOf

\* A holder's row survives every step of the other runs: expiry deletes it only
\* past the holder's lease, and a release deletes rows of the releaser's lock,
\* which the holder would then share.
LEMMA HolderStep ==
  ASSUME RunsFitLease, TypeOK, OneRowPerLock, StampIsRecent, HolderHasRow,
         [Next]_vars
  PROVE  HolderHasRow'
<1> SUFFICES ASSUME NEW h \in Run, pc'[h] = "held" PROVE (RowOf(h) \in rows)'
  BY DEF HolderHasRow
<1> USE DEF TypeOK, HolderHasRow, RowOf, Lease, Goto
<1>1. CASE Tick \/ UNCHANGED vars
  BY <1>1 DEF Tick, vars
<1>2. ASSUME NEW r \in Run, Begin(r) PROVE (RowOf(h) \in rows)'
  BY <1>2 DEF Begin
<1>3. ASSUME NEW r \in Run, CleanExpired(r) PROVE (RowOf(h) \in rows)'
  <2>1. h # r /\ pc[h] = "held" /\ stamp' = stamp
    BY <1>3 DEF CleanExpired
  <2>2. RowOf(h) \in rows /\ RowOf(h).expires >= stamp[r]
    BY <2>1, RunsFitLease DEF StampIsRecent
  <2>3. QED
    BY <1>3, <2>1, <2>2 DEF CleanExpired
<1>4. ASSUME NEW r \in Run, CheckActive(r) \/ Refuse(r) \/ Vanish(r)
      PROVE  (RowOf(h) \in rows)'
  BY <1>4 DEF CheckActive, Refuse, Vanish
<1>5. ASSUME NEW r \in Run, Insert(r) PROVE (RowOf(h) \in rows)'
  BY <1>5 DEF Insert
<1>6. ASSUME NEW r \in Run, Release(r) PROVE (RowOf(h) \in rows)'
  <2>1. h # r /\ pc[h] = "held" /\ pc[r] = "held" /\ stamp' = stamp
    BY <1>6 DEF Release
  <2>2. LockOf[h] # LockOf[r]
    BY <2>1, RowsExclude DEF NoOverlap
  <2>3. QED
    BY <1>6, <2>1, <2>2 DEF Release
<1>7. QED
  BY <1>1, <1>2, <1>3, <1>4, <1>5, <1>6 DEF Next

\* The key is unique, samples are recent, and a run that fits its lease keeps
\* its row for as long as it holds the lock.
THEOREM LockInvariant == Spec => []LockInv
<1>1. TypeOK /\ LockInv /\ [Next]_vars => LockInv'
  BY KeyStep, StampStep, HolderStep DEF LockInv
<1>2. QED
  BY InitLock, <1>1, TypeCorrect, PTL DEF Spec

\* Runs that fit their lease never overlap, however the statements of their
\* acquire_lock calls interleave and whoever crashes.
THEOREM MutualExclusion == ASSUME RunsFitLease PROVE Spec => []NoOverlap
<1>1. TypeOK /\ LockInv => NoOverlap
  BY RunsFitLease, RowsExclude DEF LockInv
<1>2. QED
  BY <1>1, TypeCorrect, LockInvariant, PTL
LEMMA RowOutlasts ==
  ASSUME RunsFitLease, TypeOK, LockInv, [Next]_vars,
         NEW x \in rows, x \notin rows', x.expires >= clock
  PROVE  pc[x.owner] = "held" /\ pc'[x.owner] = "idle"
<1>1. ASSUME NEW r \in Run, CleanExpired(r) PROVE FALSE
  <2>1. x.expires < stamp[r] /\ stamp[r] <= clock
    BY <1>1 DEF CleanExpired, LockInv, StampIsRecent, TypeOK, Row
  <2>2. QED
    BY <2>1 DEF TypeOK, Row
<1>2. ASSUME NEW r \in Run, Insert(r) PROVE FALSE
  BY <1>2 DEF Insert
<1>3. ASSUME NEW r \in Run, Release(r)
      PROVE  pc[x.owner] = "held" /\ pc'[x.owner] = "idle"
  <2>1. pc[r] = "held" /\ x.lock = LockOf[r] /\ pc' = [pc EXCEPT ![r] = "idle"]
    BY <1>3 DEF Release, Goto
  <2>2. RowOf(r) \in rows /\ RowOf(r).lock = LockOf[r] /\ RowOf(r).owner = r
    BY <2>1 DEF LockInv, HolderHasRow, RowOf
  <2>3. x = RowOf(r)
    BY <2>1, <2>2 DEF LockInv, OneRowPerLock
  <2>4. QED
    BY <2>1, <2>2, <2>3 DEF TypeOK
<1>4. CASE UNCHANGED rows
  BY <1>4
<1>5. QED
  BY <1>1, <1>2, <1>3, <1>4 DEF Next, vars, Tick, Begin, CheckActive, Refuse, Vanish

\* When runs fit their lease, nobody deletes a row that has not expired but the
\* run that inserted it, when it is done.
THEOREM RowsOutlastOthers == ASSUME RunsFitLease PROVE Spec => LiveRowOutlastsOthers
<1>1. TypeOK /\ LockInv /\ [Next]_vars =>
        [\A x \in rows : x \notin rows' /\ x.expires >= clock
           => pc[x.owner] = "held" /\ pc'[x.owner] = "idle"]_vars
  BY RowOutlasts
<1>2. QED
  BY <1>1, LockInvariant, TypeCorrect, PTL DEF Spec, LiveRowOutlastsOthers

------------------------------------------------------------------------------
\* The refinement.  S is the set of locks whose entry a step changes.
Changed == {l \in LockId : rowBar'[l] # rowBar[l]}

LEMMA RefineInit == Init => LL!Init
  BY DEF Init, LL!Init, rowBar, insideBar

LEMMA BarIsFunction ==
  /\ rowBar = [l \in LockId |-> rowBar[l]]
  /\ rowBar' = [l \in LockId |-> rowBar'[l]]
  BY DEF rowBar, ActiveAt

LEMMA RefineQuiet ==
  ASSUME TypeOK, NEW r \in Run,
         Begin(r) \/ CheckActive(r) \/ Refuse(r) \/ UNCHANGED vars
  PROVE  UNCHANGED LL!vars
<1>1. UNCHANGED <<rows, clock>>
  BY DEF Begin, CheckActive, Refuse, vars
<1>2. \A s \in Run : pc'[s] = "held" <=> pc[s] = "held"
  BY DEF Begin, CheckActive, Refuse, vars, Goto, TypeOK
<1>3. rowBar' = rowBar
  BY <1>1 DEF rowBar, ActiveAt
<1>4. insideBar' = insideBar
  BY <1>2 DEF insideBar
<1>5. QED
  BY <1>3, <1>4 DEF LL!vars

\* A sampled `now` never runs ahead of the clock, so only lapsed entries go.
LEMMA RefineClean ==
  ASSUME TypeOK, LockInv, NEW r \in Run, CleanExpired(r)
  PROVE  LL!Purge(Changed)
<1> USE DEF LockInv, OneRowPerLock, StampIsRecent, TypeOK, Row
<1>1. /\ clock' = clock
      /\ rows' \subseteq rows
      /\ \A x \in rows : x \notin rows' => x.expires < clock
  BY DEF CleanExpired
<1>2. insideBar' = insideBar
  BY DEF CleanExpired, Goto, insideBar
<1>3. ASSUME NEW l \in LockId, l \in Changed
      PROVE  rowBar[l] = "lapsed" /\ rowBar'[l] = "none"
  <2>1. PICK x \in rows : x.lock = l /\ x \notin rows'
    BY <1>1, <1>3 DEF Changed, rowBar, ActiveAt
  <2>2. \A y \in rows : y.lock = l => y = x
    BY <2>1
  <2>3. QED
    BY <1>1, <2>1, <2>2 DEF rowBar, ActiveAt
<1>4. rowBar' = [l \in LockId |-> IF l \in Changed THEN "none" ELSE rowBar[l]]
  BY <1>3 DEF Changed, rowBar, ActiveAt
<1>5. QED
  BY <1>2, <1>3, <1>4 DEF LL!Purge, Changed

LEMMA RefineInsert ==
  ASSUME TypeOK, LockInv, NEW r \in Run, Insert(r)
  PROVE  LL!Acquire(r, LockOf[r])
<1> USE DEF TypeOK, Row
<1>1. rowBar[LockOf[r]] = "none"
  BY DEF Insert, rowBar
<1>2. ASSUME NEW l \in LockId, l # LockOf[r] PROVE rowBar'[l] = rowBar[l]
  <2>1. RowOf(r).lock # l /\ rows' = rows \cup {RowOf(r)} /\ clock' = clock
    BY <1>2 DEF Insert, RowOf
  <2>2. /\ (\A x \in rows' : x.lock # l) <=> (\A x \in rows : x.lock # l)
        /\ ActiveAt(l, clock)' <=> ActiveAt(l, clock)
    BY <2>1 DEF ActiveAt
  <2>3. QED
    BY <2>2 DEF rowBar
<1>3. rowBar'[LockOf[r]] = IF Lease(r) >= clock THEN "live" ELSE "lapsed"
  <2>1. /\ RowOf(r).lock = LockOf[r] /\ RowOf(r).expires = Lease(r)
        /\ rows' = rows \cup {RowOf(r)} /\ clock' = clock
        /\ \A x \in rows : x.lock # LockOf[r]
    BY DEF Insert, RowOf
  <2>2. /\ ~ \A x \in rows' : x.lock # LockOf[r]
        /\ \A now \in {clock} :
             (\E x \in rows' : x.lock = LockOf[r] /\ x.expires >= now)
             <=> Lease(r) >= now
    BY <2>1
  <2>3. QED
    BY <2>1, <2>2 DEF rowBar, ActiveAt
<1>4. RunsFitLease => Lease(r) >= clock
  BY DEF Insert, LockInv, StampIsRecent, Lease
<1>5. \E entry \in {"live"} \cup (IF RunsFitLease THEN {} ELSE {"lapsed"}) :
        rowBar' = [rowBar EXCEPT ![LockOf[r]] = entry]
  <2>1. rowBar' = [rowBar EXCEPT ![LockOf[r]] = rowBar'[LockOf[r]]]
    BY <1>2, BarIsFunction
  <2>2. QED
    BY <1>3, <1>4, <2>1
<1>6. insideBar' = [insideBar EXCEPT ![LockOf[r]] = @ \cup {r}]
  BY DEF Insert, Goto, insideBar
<1>7. QED
  BY <1>1, <1>5, <1>6 DEF LL!Acquire

LEMMA RefineRelease ==
  ASSUME TypeOK, NEW r \in Run, Release(r)
  PROVE  LL!Release(r, LockOf[r])
<1> USE DEF TypeOK, Row
<1>1. r \in insideBar[LockOf[r]]
  BY DEF Release, insideBar
<1>2. rowBar' = [rowBar EXCEPT ![LockOf[r]] = "none"]
  BY DEF Release, rowBar, ActiveAt
<1>3. insideBar' = [insideBar EXCEPT ![LockOf[r]] = @ \ {r}]
  BY DEF Release, Goto, insideBar
<1>4. QED
  BY <1>1, <1>2, <1>3 DEF LL!Release

LEMMA RefineVanish ==
  ASSUME TypeOK, NEW r \in Run, Vanish(r)
  PROVE  LL!Leave({r}, LockId)
<1>1. rowBar' = rowBar
  BY DEF Vanish, rowBar, ActiveAt
<1>2. insideBar' =
        [l \in LockId |-> IF l \in LockId THEN insideBar[l] \ {r} ELSE insideBar[l]]
  BY DEF Vanish, Goto, insideBar, TypeOK
<1>3. QED
  BY <1>1, <1>2 DEF LL!Leave

\* The clock may only pass the lease of a lock nobody holds.
LEMMA RefineTick ==
  ASSUME TypeOK, LockInv, Tick
  PROVE  LL!Lapse(Changed)
<1> USE DEF TypeOK, Row, LockInv, OneRowPerLock
<1>1. insideBar' = insideBar
  BY DEF Tick, insideBar
<1>2. ASSUME NEW l \in LockId, l \in Changed
      PROVE  rowBar[l] = "live" /\ rowBar'[l] = "lapsed"
  BY <1>2 DEF Changed, Tick, rowBar, ActiveAt
<1>3. ASSUME NEW l \in LockId, l \in Changed, RunsFitLease
      PROVE  insideBar[l] = {}
  <2> SUFFICES ASSUME NEW h \in Run, pc[h] = "held", LockOf[h] = l
               PROVE  FALSE
    BY DEF insideBar
  <2>1. RowOf(h) \in rows' /\ RowOf(h).expires >= clock' /\ RowOf(h).lock = l
    BY <1>3 DEF HolderHasRow, RowOf, Lease, Tick
  <2>2. rowBar'[l] = "live"
    BY <2>1 DEF rowBar, ActiveAt
  <2>3. QED
    BY <1>2, <1>3, <2>2
<1>4. rowBar' = [l \in LockId |-> IF l \in Changed THEN "lapsed" ELSE rowBar[l]]
  BY <1>2 DEF Changed, rowBar, ActiveAt
<1>5. QED
  BY <1>1, <1>2, <1>3, <1>4 DEF LL!Lapse, Changed

LEMMA RefineStep ==
  ASSUME TypeOK, LockInv, [Next]_vars
  PROVE  [LL!Next]_(LL!vars)
<1>1. CASE Tick
  BY <1>1, RefineTick DEF LL!Next, Changed
<1>2. ASSUME NEW r \in Run,
             Begin(r) \/ CheckActive(r) \/ Refuse(r)
      PROVE  [LL!Next]_(LL!vars)
  BY <1>2, RefineQuiet
<1>3. ASSUME NEW r \in Run, CleanExpired(r) PROVE [LL!Next]_(LL!vars)
  BY <1>3, RefineClean DEF LL!Next, Changed
<1>4. ASSUME NEW r \in Run, Insert(r) PROVE [LL!Next]_(LL!vars)
  BY <1>4, RefineInsert DEF LL!Next
<1>5. ASSUME NEW r \in Run, Release(r) PROVE [LL!Next]_(LL!vars)
  BY <1>5, RefineRelease DEF LL!Next
<1>6. ASSUME NEW r \in Run, Vanish(r) PROVE [LL!Next]_(LL!vars)
  BY <1>6, RefineVanish DEF LL!Next
<1>7. CASE UNCHANGED vars
  BY <1>7 DEF vars, rowBar, insideBar, ActiveAt, LL!vars
<1>8. QED
  BY <1>1, <1>2, <1>3, <1>4, <1>5, <1>6, <1>7 DEF Next

\* acquire_lock and release_lock implement the atomic lease lock, whether or
\* not runs fit their lease.
THEOREM Refinement == Spec => ImplementsLeaseLock
  BY RefineInit, RefineStep, TypeCorrect, LockInvariant, PTL
     DEF Spec, LL!Spec, ImplementsLeaseLock

------------------------------------------------------------------------------
\* What LeaseLock_proofs proves of every lease lock, of this one
LLP == INSTANCE LeaseLock_proofs
         WITH Client <- Run, row <- rowBar, inside <- insideBar

\* The lease lock and the mutex have the same actions through either instance.
LEMMA SameLock ==
  /\ LL!Init => LLP!Init
  /\ [LL!Next]_(LL!vars) => [LLP!Next]_(LLP!vars)
  /\ LLP!MX!Init => LL!MX!Init
  /\ [LLP!MX!Next]_(LLP!MX!vars) => [LL!MX!Next]_(LL!MX!vars)
<1>1. LL!Init => LLP!Init
  BY DEF LL!Init, LLP!Init
<1>2. [LL!Next]_(LL!vars) => [LLP!Next]_(LLP!vars)
  BY DEF LL!Next, LLP!Next, LL!vars, LLP!vars, LL!Acquire, LLP!Acquire, LL!Release,
         LLP!Release, LL!Leave, LLP!Leave, LL!Lapse, LLP!Lapse, LL!Purge, LLP!Purge
<1>3. LLP!MX!Init => LL!MX!Init
  BY DEF LLP!MX!Init, LL!MX!Init
<1>4. [LLP!MX!Next]_(LLP!MX!vars) => [LL!MX!Next]_(LL!MX!vars)
  BY DEF LLP!MX!Next, LL!MX!Next, LLP!MX!vars, LL!MX!vars, LLP!MX!Acquire,
         LL!MX!Acquire, LLP!MX!Leave, LL!MX!Leave
<1>5. QED
  BY <1>1, <1>2, <1>3, <1>4

\* When runs fit their lease, the three statements of acquire_lock and the
\* DELETE of release_lock are a mutex to the runs that call them, however they
\* interleave and whoever dies.
THEOREM MutexRefinement == ASSUME RunsFitLease PROVE Spec => LL!ImplementsMutex
<1>1. Spec => LL!Spec
  BY Refinement DEF ImplementsLeaseLock
<1>2. LLP!Spec => LLP!ImplementsMutex
  BY LLP!LeaseIsMutex
<1>3. QED
  BY <1>1, <1>2, SameLock, PTL
     DEF LL!Spec, LLP!Spec, LL!ImplementsMutex, LLP!ImplementsMutex, LL!MX!Spec, LLP!MX!Spec
==============================================================================
