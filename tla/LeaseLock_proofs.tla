--------------------------- MODULE LeaseLock_proofs ---------------------------
(***************************************************************************)
(* For any number of locks and clients: a lease lock whose runs fit their  *)
(* lease is a mutex.  DurableLock_proofs cites it through its refinement   *)
(* mapping, WorkflowEngine_proofs and TaskScheduler_proofs of their locks. *)
(***************************************************************************)
EXTENDS LeaseLock, TLAPS

LEMMA InitType == Init => TypeOK
  BY DEF Init, TypeOK

LEMMA NextType == TypeOK /\ [Next]_vars => TypeOK'
<1> SUFFICES ASSUME TypeOK, [Next]_vars PROVE TypeOK'
  OBVIOUS
<1> USE DEF TypeOK
<1>1. ASSUME NEW c \in Client, NEW l \in LockId, Acquire(c, l) \/ Release(c, l)
      PROVE  TypeOK'
  BY <1>1 DEF Acquire, Release
<1>2. ASSUME NEW S \in SUBSET LockId, NEW C \in SUBSET Client, Leave(C, S) PROVE TypeOK'
  BY <1>2 DEF Leave
<1>3. ASSUME NEW S \in SUBSET LockId, Lapse(S) \/ Purge(S) PROVE TypeOK'
  BY <1>3 DEF Lapse, Purge
<1>4. CASE UNCHANGED vars
  BY <1>4 DEF vars
<1>5. QED
  BY <1>1, <1>2, <1>3, <1>4 DEF Next

\* The inductive invariant: alone, and with a live entry.
ExclusionInv == MX!Exclusive /\ InsideIsLive

\* Every step of the lease lock is one of the mutex, and keeps the invariant.
LEMMA MutexStep ==
  ASSUME RunsFitLease, TypeOK, ExclusionInv, [Next]_vars
  PROVE  ExclusionInv' /\ [MX!Next]_(MX!vars)
<1> USE DEF TypeOK, ExclusionInv, MX!Exclusive, InsideIsLive
<1>1. ASSUME NEW c \in Client, NEW l \in LockId, Acquire(c, l)
      PROVE  ExclusionInv' /\ MX!Next
  <2>1. inside[l] = {} /\ inside' = [inside EXCEPT ![l] = {c}] /\ row' = [row EXCEPT ![l] = "live"]
    BY <1>1 DEF Acquire
  <2>2. MX!Acquire(c, l)
    BY <2>1 DEF MX!Acquire
  <2>3. ExclusionInv'
    BY <2>1
  <2>4. QED
    BY <2>2, <2>3 DEF MX!Next
<1>2. ASSUME NEW c \in Client, NEW l \in LockId, Release(c, l)
      PROVE  ExclusionInv' /\ MX!Next
  <2>1. /\ inside' = [inside EXCEPT ![l] = @ \ {c}] /\ c \in inside[l]
        /\ row' = [row EXCEPT ![l] = "none"]
    BY <1>2 DEF Release
  <2>2. inside'[l] = {}
    BY <2>1
  <2>3. MX!Leave({c}, {l})
    BY <2>1 DEF MX!Leave
  <2>4. ExclusionInv'
    BY <2>1, <2>2
  <2>5. {c} \in SUBSET Client /\ {l} \in SUBSET LockId
    OBVIOUS
  <2>6. QED
    BY <2>3, <2>4, <2>5 DEF MX!Next
<1>3. ASSUME NEW S \in SUBSET LockId, NEW C \in SUBSET Client, Leave(C, S)
      PROVE  ExclusionInv' /\ MX!Next
  <2>1. \A l \in LockId : inside'[l] \subseteq inside[l]
    BY <1>3 DEF Leave
  <2>2. ExclusionInv'
    BY <1>3, <2>1 DEF Leave
  <2>3. MX!Leave(C, S)
    BY <1>3 DEF Leave, MX!Leave
  <2>4. QED
    BY <2>2, <2>3 DEF MX!Next
<1>4. ASSUME NEW S \in SUBSET LockId, Lapse(S) \/ Purge(S)
      PROVE  ExclusionInv' /\ UNCHANGED inside
  BY <1>4 DEF Lapse, Purge
<1>5. CASE UNCHANGED vars
  BY <1>5 DEF vars, MX!vars
<1>6. QED
  BY <1>1, <1>2, <1>3, <1>4, <1>5 DEF Next, MX!vars

\* A lease lock whose runs fit their lease lets one client in at a time.
THEOREM LeasesExclude == ASSUME RunsFitLease PROVE Spec => []MX!Exclusive
<1>1. Init => ExclusionInv
  BY DEF Init, ExclusionInv, MX!Exclusive, InsideIsLive
<1>2. TypeOK /\ ExclusionInv /\ [Next]_vars => ExclusionInv'
  BY MutexStep
<1>3. ExclusionInv => MX!Exclusive
  BY DEF ExclusionInv
<1>4. QED
  BY <1>1, <1>2, <1>3, InitType, NextType, PTL DEF Spec

\* It is a mutex: whoever is inside had found it empty.
THEOREM LeaseIsMutex == ASSUME RunsFitLease PROVE Spec => ImplementsMutex
<1>1. Init => ExclusionInv /\ MX!Init
  BY DEF Init, ExclusionInv, MX!Exclusive, InsideIsLive, MX!Init
<1>2. TypeOK /\ ExclusionInv /\ [Next]_vars => ExclusionInv' /\ [MX!Next]_(MX!vars)
  BY MutexStep
<1>3. QED
  BY <1>1, <1>2, InitType, NextType, PTL DEF Spec, ImplementsMutex, MX!Spec
===============================================================================
