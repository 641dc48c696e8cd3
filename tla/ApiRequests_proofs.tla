------------------------- MODULE ApiRequests_proofs -------------------------
(***************************************************************************)
(* Proofs about the requests of the API client for one URL, for any number *)
(* of requests, retries and counted failures.                              *)
(***************************************************************************)
EXTENDS ApiRequests, TLAPS

\* A request has an attempt left for each resend: one that is under way has
\* been sent once for each attempt before the present one, and once more if
\* the present one is out.
AttemptInv ==
    \A c \in Call : UnderWay(c) =>
        /\ attempt[c] <= Retries(c)
        /\ sends[c] <= attempt[c] + (IF pc[c] = "ready" THEN 0 ELSE 1)

LEMMA Constants ==
    /\ 0 \in 0..MaxFailures
    /\ MaxFailures \in 0..MaxFailures
    /\ 0 \in 0..MaxRetries+1
    /\ \A c \in Call : Retries(c) \in Nat /\ Retries(c) <= MaxRetries
    /\ \A c \in Call : Key(c) \in {"read", "write"}
    /\ ClosedBreaker \in Breaker
<1>1. 0 \in 0..MaxFailures /\ MaxFailures \in 0..MaxFailures
  BY ApiRequestsAssumption
<1> QED
  BY <1>1, ApiRequestsAssumption DEF Retries, Key, ClosedBreaker, Breaker

\* What the circuit breaker's operations return, and the count they keep.
LEMMA BreakerOps ==
    ASSUME TypeOK, NEW k \in {"read", "write"}
    PROVE  /\ Admitted(k) \in [{"read", "write"} -> Breaker]
           /\ RecordSuccess(k) \in [{"read", "write"} -> Breaker]
           /\ RecordFailure(k) \in [{"read", "write"} -> Breaker]
<1> USE Constants DEF TypeOK
<1>1. breaker[k] \in Breaker
  OBVIOUS
<1>2. Admitted(k) \in [{"read", "write"} -> Breaker]
  BY <1>1 DEF Admitted, Breaker
<1>3. RecordSuccess(k) \in [{"read", "write"} -> Breaker]
  BY DEF RecordSuccess
<1>4. RecordFailure(k) \in [{"read", "write"} -> Breaker]
  <2> DEFINE n == IF breaker[k].failures < MaxFailures
                    THEN breaker[k].failures + 1 ELSE MaxFailures
             b == IF n = MaxFailures \/ breaker[k].state = "HALF_OPEN"
                    THEN [state |-> "OPEN", failures |-> n, cooled |-> FALSE]
                    ELSE [breaker[k] EXCEPT !.failures = n]
  <2>1. n \in 0..MaxFailures
    BY <1>1, ApiRequestsAssumption DEF Breaker
  <2>2. b \in Breaker
    BY <1>1, <2>1 DEF Breaker
  <2>3. RecordFailure(k) = [breaker EXCEPT ![k] = b]
    BY DEF RecordFailure
  <2> QED
    BY <2>2, <2>3
<1> QED
  BY <1>2, <1>3, <1>4

\* Every step keeps the types and the count of attempts.
LEMMA RequestStep ==
    TypeOK /\ AttemptInv /\ [Next]_vars => TypeOK' /\ AttemptInv'
<1> SUFFICES ASSUME TypeOK, AttemptInv, [Next]_vars PROVE TypeOK' /\ AttemptInv'
  OBVIOUS
<1> USE ApiRequestsAssumption, Constants DEF TypeOK, Age, Outcome
<1>0. \A c \in Call : attempt[c] \in Nat /\ sends[c] \in Nat
  OBVIOUS
<1>1. ASSUME NEW c \in Reads, ReadCall(c) PROVE TypeOK' /\ AttemptInv'
  <2>1. c \in Call
    OBVIOUS
  <2>2. breaker' \in [{"read", "write"} -> Breaker]
    BY <1>1, BreakerOps DEF ReadCall
  <2>3. CASE cache # "none"
    BY <1>1, <2>2, <2>3 DEF ReadCall, AttemptInv, UnderWay
  <2>4. CASE cache = "none" /\ leader # NoCall
    BY <1>1, <2>1, <2>2, <2>4 DEF ReadCall, AttemptInv, UnderWay
  <2>5. CASE cache = "none" /\ leader = NoCall
    <3>1. /\ pc' = [pc EXCEPT ![c] = "ready"]
          /\ attempt' = [attempt EXCEPT ![c] = 0]
          /\ sends' = [sends EXCEPT ![c] = 0]
      BY <1>1, <2>5 DEF ReadCall
    <3>2. AttemptInv'
      BY <2>1, <3>1 DEF AttemptInv, UnderWay
    <3>3. TypeOK'
      BY <1>1, <2>1, <2>2, <2>5, <3>1 DEF ReadCall
    <3> QED
      BY <3>2, <3>3
  <2> QED
    BY <2>3, <2>4, <2>5
<1>2. ASSUME NEW c \in Writes, WriteCall(c) PROVE TypeOK' /\ AttemptInv'
  <2>1. c \in Call
    BY DEF Writes
  <2>2. breaker' \in [{"read", "write"} -> Breaker]
    BY <1>2, BreakerOps DEF WriteCall
  <2>3. CASE Refuses("write")
    BY <1>2, <2>2, <2>3 DEF WriteCall, InvalidateCache, AttemptInv, UnderWay
  <2>4. CASE ~Refuses("write")
    <3>1. /\ pc' = [pc EXCEPT ![c] = "sent"]
          /\ attempt' = [attempt EXCEPT ![c] = 0]
          /\ sends' = [sends EXCEPT ![c] = 1]
      BY <1>2, <2>4 DEF WriteCall
    <3>2. AttemptInv'
      BY <2>1, <3>1 DEF AttemptInv, UnderWay
    <3>3. TypeOK'
      BY <1>2, <2>1, <2>2, <2>4, <3>1 DEF WriteCall, InvalidateCache
    <3> QED
      BY <3>2, <3>3
  <2> QED
    BY <2>3, <2>4
<1>3. ASSUME NEW c \in Call, Send(c) PROVE TypeOK' /\ AttemptInv'
  BY <1>0, <1>3 DEF Send, AttemptInv, UnderWay
<1>4. ASSUME NEW c \in Call, End(c)
      PROVE  /\ pc' \in [Call -> {"idle", "ready", "sent", "body", "auth", "joined"}]
             /\ leader' \in Reads \cup {NoCall}
             /\ \A d \in Call : pc'[d] = pc[d] \/ pc'[d] = "idle"
  BY <1>4 DEF End, Settled, LeaderAfter
<1>5. ASSUME NEW c \in Call, pc[c] \in {"sent", "body"}, sends' = sends,
             NEW told \in [{"read", "write"} -> Breaker], FailRetryable(c, told)
      PROVE  /\ pc' \in [Call -> {"idle", "ready", "sent", "body", "auth", "joined"}]
             /\ leader' \in Reads \cup {NoCall}
             /\ breaker' \in [{"read", "write"} -> Breaker]
             /\ attempt' \in [Call -> 0..MaxRetries+1]
             /\ AttemptInv'
  <2>1. CASE End(c) /\ breaker' = told /\ UNCHANGED attempt
    BY <1>4, <1>5, <2>1 DEF AttemptInv, UnderWay
  <2>2. CASE /\ attempt[c] < Retries(c)
             /\ pc' = [pc EXCEPT ![c] = "ready"]
             /\ attempt' = [attempt EXCEPT ![c] = @ + 1]
             /\ UNCHANGED <<leader, breaker>>
    <3>1. attempt[c] + 1 \in 0..MaxRetries+1 /\ attempt[c] + 1 <= Retries(c)
      BY <1>0, <2>2
    <3>2. sends[c] <= attempt[c] + 1
      BY <1>0, <1>5 DEF AttemptInv, UnderWay
    <3>3. AttemptInv'
      BY <1>0, <1>5, <2>2, <3>1, <3>2 DEF AttemptInv, UnderWay
    <3> QED
      BY <1>5, <2>2, <3>1, <3>3
  <2> QED
    BY <1>5, <2>1, <2>2 DEF FailRetryable
<1>6. ASSUME NEW c \in Call, Drop(c) PROVE TypeOK' /\ AttemptInv'
  <2>1. RecordFailure(Key(c)) \in [{"read", "write"} -> Breaker]
    BY BreakerOps
  <2> QED
    BY <1>5, <1>6, <2>1 DEF Drop
<1>7. AgeAnswers \in [Call -> Outcome \cup Age \cup {"none"}]
  BY DEF AgeAnswers, Aged
<1>8. ASSUME NEW c \in Call, NEW o \in Outcome, Headers(c, o)
      PROVE  TypeOK' /\ AttemptInv'
  BY <1>0, <1>7, <1>8 DEF Headers, Aged, AttemptInv, UnderWay
<1>9. ASSUME NEW c \in Call, Answered(c) PROVE TypeOK' /\ AttemptInv'
  <2>1. breaker' \in [{"read", "write"} -> Breaker]
    BY <1>9, BreakerOps DEF Answered
  <2>2. cache' \in Age \cup {"none"}
    BY <1>9 DEF Answered
  <2>3. keptSuspect' \in BOOLEAN
    <3>1. CASE c \in Reads /\ c \in suspect
      BY <1>9, <3>1 DEF Answered
    <3>2. CASE c \in Reads /\ c \notin suspect
      BY <1>9, <3>2 DEF Answered
    <3>3. CASE c \notin Reads
      BY <1>9, <3>3 DEF Answered
    <3> QED
      BY <3>1, <3>2, <3>3
  <2>4. AttemptInv'
    BY <1>4, <1>9 DEF Answered, AttemptInv, UnderWay
  <2>5. answer' \in [Call -> Outcome \cup Age \cup {"none"}]
    BY <1>9 DEF Answered
  <2> QED
    BY <1>4, <1>9, <2>1, <2>2, <2>3, <2>4, <2>5 DEF Answered
<1>10. ASSUME NEW c \in Call, FailedBody(c) PROVE TypeOK' /\ AttemptInv'
  <2>1. RecordFailure(Key(c)) \in [{"read", "write"} -> Breaker]
    BY BreakerOps
  <2> QED
    BY <1>5, <1>10, <2>1 DEF FailedBody
<1>11. ASSUME NEW c \in Call, Refused(c) PROVE TypeOK' /\ AttemptInv'
  BY <1>4, <1>11 DEF Refused, AttemptInv, UnderWay
<1>12. ASSUME NEW c \in Call, Denied(c) PROVE TypeOK' /\ AttemptInv'
  BY <1>12 DEF Denied, AttemptInv, UnderWay
<1>13. CASE SessionRestored
  <2> DEFINE gone == {c \in Waiting : attempt[c] + 1 > Retries(c)}
  <2>1. attempt' \in [Call -> 0..MaxRetries+1]
    BY <1>0, <1>13 DEF SessionRestored, Waiting, AttemptInv, UnderWay
  <2>2. ASSUME NEW d \in Call, UnderWay(d)'
        PROVE  /\ attempt'[d] <= Retries(d)
               /\ sends'[d] <= attempt'[d] + (IF pc'[d] = "ready" THEN 0 ELSE 1)
    <3>1. CASE d \in Waiting
      <4>1. d \notin gone /\ pc'[d] = "ready" /\ attempt'[d] = attempt[d] + 1
        BY <1>13, <2>2, <3>1 DEF SessionRestored, UnderWay, SettledAll
      <4> QED
        BY <1>0, <1>13, <3>1, <4>1 DEF Waiting, AttemptInv, UnderWay, SessionRestored
    <3>2. CASE d \notin Waiting
      BY <1>0, <1>13, <2>2, <3>2 DEF SessionRestored, AttemptInv, UnderWay
    <3> QED
      BY <3>1, <3>2
  <2> QED
    BY <1>13, <2>1, <2>2 DEF SessionRestored, AttemptInv
<1>14. CASE SessionGone
  BY <1>14 DEF SessionGone, AttemptInv, UnderWay
<1>15. CASE CacheExpires
  BY <1>15 DEF CacheExpires, InvalidateCache, AttemptInv, UnderWay
<1>16. ASSUME NEW k \in {"read", "write"}, CooledDown(k) PROVE TypeOK' /\ AttemptInv'
  BY <1>16 DEF CooledDown, Breaker, AttemptInv, UnderWay
<1>17. CASE BreakersCleared
  BY <1>17 DEF BreakersCleared, AttemptInv, UnderWay
<1>18. CASE LateWrite
  BY <1>7, <1>18 DEF LateWrite, Aged, AttemptInv, UnderWay
<1>19. CASE UNCHANGED vars
  BY <1>19 DEF vars, AttemptInv, UnderWay
<1> HIDE DEF TypeOK, Age, Outcome
<1> QED
  BY <1>1, <1>2, <1>3, <1>6, <1>8, <1>9, <1>10, <1>11, <1>12, <1>13, <1>14, <1>15,
     <1>16, <1>17, <1>18, <1>19 DEF Next

LEMMA RequestsWellFormed == Spec => [](TypeOK /\ AttemptInv)
<1>1. Init => TypeOK
  <2> SUFFICES ASSUME Init PROVE TypeOK
    OBVIOUS
  <2>1. breaker \in [{"read", "write"} -> Breaker]
    BY Constants DEF Init
  <2>2. attempt \in [Call -> 0..MaxRetries+1]
    BY Constants DEF Init
  <2> QED
    BY <2>1, <2>2 DEF Init, TypeOK
<1>2. Init => AttemptInv
  BY DEF Init, AttemptInv, UnderWay
<1> QED
  BY <1>1, <1>2, RequestStep, PTL DEF Spec

\* Type correctness.
THEOREM RequestsTypeCorrect == Spec => []TypeOK
  BY RequestsWellFormed, PTL

\* Retries and session recoveries together never send a request more often than
\* its retries allow; a write is sent once.
THEOREM SendsAreBounded == Spec => []SendsBounded
<1>1. TypeOK /\ AttemptInv => SendsBounded
  <2> SUFFICES ASSUME TypeOK, AttemptInv, NEW c \in Call, UnderWay(c)
               PROVE  sends[c] <= Retries(c) + 1
    BY DEF SendsBounded
  <2>1. attempt[c] \in Nat /\ sends[c] \in Nat /\ Retries(c) \in Nat
    BY Constants DEF TypeOK
  <2> QED
    BY <2>1 DEF AttemptInv
<1> QED
  BY <1>1, RequestsWellFormed, PTL
-----------------------------------------------------------------------------

\* Ending a request idles it and, if it leads, all who joined it.
LEMMA EndKeeps ==
    ASSUME TypeOK, OneInFlight, NEW c \in Call, UnderWay(c), End(c)
    PROVE  OneInFlight'
<1> USE ApiRequestsAssumption DEF TypeOK, OneInFlight, End, Settled, LeaderAfter, UnderWay
<1>1. CASE leader = c
  BY <1>1
<1>2. CASE leader # c
  BY <1>2
<1> QED
  BY <1>1, <1>2

\* A retry leaves a request under way; giving up is its end.
LEMMA RetryKeeps ==
    ASSUME TypeOK, OneInFlight, NEW c \in Call, UnderWay(c),
           NEW told, FailRetryable(c, told)
    PROVE  OneInFlight'
<1>1. CASE pc' = [pc EXCEPT ![c] = "ready"] /\ UNCHANGED leader
  BY <1>1 DEF TypeOK, OneInFlight, UnderWay
<1> QED
  BY <1>1, EndKeeps DEF FailRetryable

\* The requests waiting for the session check that end when it does take those
\* who joined them with them.
LEMMA GoneKeeps ==
    ASSUME TypeOK, OneInFlight, NEW gone \in SUBSET Waiting,
           pc' = [d \in Call |-> IF d \in SettledAll(gone) THEN "idle"
                                 ELSE IF d \in Waiting THEN "ready" ELSE pc[d]],
           leader' = IF leader \in gone THEN NoCall ELSE leader
    PROVE  OneInFlight'
<1> USE ApiRequestsAssumption DEF TypeOK, OneInFlight, SettledAll, UnderWay, Waiting
<1>1. CASE leader \in gone
  BY <1>1
<1>2. CASE leader \notin gone
  <2>1. \A c \in Reads : UnderWay(c)' <=> leader' = c
    BY <1>2
  <2>2. \A c \in Call : pc'[c] = "joined" => leader' # NoCall
    BY <1>2
  <2> QED
    BY <2>1, <2>2
<1> QED
  BY <1>1, <1>2

\* Deduplication: reads of one URL are never under way side by side, and the
\* entry in inFlightRequests is neither lost early nor left behind.
THEOREM ReadsAreDeduplicated == Spec => []OneInFlight
<1>1. Init => OneInFlight
  BY ApiRequestsAssumption DEF Init, OneInFlight, UnderWay
<1>2. TypeOK /\ OneInFlight /\ [Next]_vars => OneInFlight'
  <2> SUFFICES ASSUME TypeOK, OneInFlight, [Next]_vars PROVE OneInFlight'
    OBVIOUS
  <2> USE ApiRequestsAssumption
  <2>1. ASSUME NEW c \in Reads, ReadCall(c) PROVE OneInFlight'
    BY <2>1 DEF ReadCall, TypeOK, OneInFlight, UnderWay
  <2>2. ASSUME NEW c \in Writes, WriteCall(c) PROVE OneInFlight'
    BY <2>2 DEF WriteCall, Writes, TypeOK, OneInFlight, UnderWay
  <2>3. ASSUME NEW c \in Call, Send(c) PROVE OneInFlight'
    BY <2>3 DEF Send, TypeOK, OneInFlight, UnderWay
  <2>4. ASSUME NEW c \in Call, Drop(c) PROVE OneInFlight'
    <3>1. UnderWay(c) /\ FailRetryable(c, RecordFailure(Key(c)))
      BY <2>4 DEF Drop, UnderWay
    <3> QED
      BY <3>1, RetryKeeps
  <2>5. ASSUME NEW c \in Call, NEW o \in Outcome, Headers(c, o) PROVE OneInFlight'
    BY <2>5 DEF Headers, TypeOK, OneInFlight, UnderWay
  <2>6. ASSUME NEW c \in Call, Answered(c) \/ Refused(c) PROVE OneInFlight'
    <3>1. UnderWay(c) /\ End(c)
      BY <2>6 DEF Answered, Refused, UnderWay
    <3> QED
      BY <3>1, EndKeeps
  <2>7. ASSUME NEW c \in Call, FailedBody(c) PROVE OneInFlight'
    <3>1. UnderWay(c) /\ \E told : FailRetryable(c, told)
      BY <2>7 DEF FailedBody, UnderWay
    <3> QED
      BY <3>1, RetryKeeps
  <2>8. ASSUME NEW c \in Call, Denied(c) PROVE OneInFlight'
    BY <2>8 DEF Denied, TypeOK, OneInFlight, UnderWay
  <2>9. CASE SessionRestored
    <3> DEFINE gone == {c \in Waiting : attempt[c] + 1 > Retries(c)}
    <3>1. gone \in SUBSET Waiting
      OBVIOUS
    <3> QED
      BY <2>9, <3>1, GoneKeeps DEF SessionRestored
  <2>10. CASE SessionGone
    <3>1. pc' = [d \in Call |-> IF d \in SettledAll(Waiting) THEN "idle"
                                 ELSE IF d \in Waiting THEN "ready" ELSE pc[d]]
      BY <2>10 DEF SessionGone, SettledAll, Waiting
    <3> QED
      BY <2>10, <3>1, GoneKeeps DEF SessionGone
  <2>11. ASSUME NEW k \in {"read", "write"}, CooledDown(k) PROVE OneInFlight'
    BY <2>11 DEF CooledDown, OneInFlight, UnderWay
  <2>12. CASE CacheExpires \/ BreakersCleared \/ LateWrite \/ UNCHANGED vars
    BY <2>12 DEF CacheExpires, BreakersCleared, LateWrite, vars, OneInFlight, UnderWay
  <2> QED
    BY <2>1, <2>2, <2>3, <2>4, <2>5, <2>6, <2>7, <2>8, <2>9, <2>10, <2>11, <2>12
       DEF Next
<1> QED
  BY <1>1, <1>2, RequestsTypeCorrect, PTL DEF Spec

-----------------------------------------------------------------------------

\* Each operation of the breaker keeps its state and its count together.
LEMMA BreakerOpsCount ==
    ASSUME TypeOK, BreakerCounts, NEW k \in {"read", "write"},
           breaker' \in {breaker, Admitted(k), RecordSuccess(k), RecordFailure(k)}
    PROVE  BreakerCounts'
<1> USE ApiRequestsAssumption
<1>1. breaker[k] \in Breaker /\ MaxFailures \in Nat \ {0}
  BY DEF TypeOK
<1>2. breaker'[k].state # "CLOSED" <=> breaker'[k].failures = MaxFailures
  <2>1. CASE breaker' = Admitted(k)
    BY <1>1, <2>1 DEF TypeOK, BreakerCounts, Admitted, Breaker
  <2>2. CASE breaker' = RecordSuccess(k)
    BY <1>1, <2>2 DEF TypeOK, RecordSuccess, ClosedBreaker
  <2>3. CASE breaker' = RecordFailure(k)
    <3> DEFINE n == IF breaker[k].failures < MaxFailures
                      THEN breaker[k].failures + 1 ELSE MaxFailures
    <3>1. breaker'[k] = IF n = MaxFailures \/ breaker[k].state = "HALF_OPEN"
                          THEN [state |-> "OPEN", failures |-> n, cooled |-> FALSE]
                          ELSE [breaker[k] EXCEPT !.failures = n]
      BY <2>3 DEF TypeOK, RecordFailure
    <3>2. breaker[k].state # "CLOSED" <=> breaker[k].failures = MaxFailures
      BY DEF BreakerCounts
    <3>3. breaker[k].state # "CLOSED" => n = MaxFailures
      BY <1>1, <3>2
    <3>4. CASE n = MaxFailures
      BY <3>1, <3>4
    <3>5. CASE n # MaxFailures
      BY <1>1, <3>1, <3>3, <3>5 DEF Breaker
    <3> QED
      BY <3>4, <3>5
  <2> QED
    BY <2>1, <2>2, <2>3 DEF BreakerCounts
<1>3. \A j \in {"read", "write"} : j # k => breaker'[j] = breaker[j]
  BY DEF TypeOK, Admitted, RecordSuccess, RecordFailure
<1> QED
  BY <1>2, <1>3 DEF BreakerCounts

\* The breaker's state and its count of failures never come apart, whatever
\* answers arrive after it has opened.
THEOREM BreakersCount == Spec => []BreakerCounts
<1>1. Init => BreakerCounts
  BY ApiRequestsAssumption DEF Init, BreakerCounts, ClosedBreaker
<1>2. TypeOK /\ BreakerCounts /\ [Next]_vars => BreakerCounts'
  <2> SUFFICES ASSUME TypeOK, BreakerCounts, [Next]_vars PROVE BreakerCounts'
    OBVIOUS
  <2>1. ASSUME NEW c \in Reads, ReadCall(c) PROVE BreakerCounts'
    BY <2>1, BreakerOpsCount DEF ReadCall
  <2>2. ASSUME NEW c \in Writes, WriteCall(c) PROVE BreakerCounts'
    BY <2>2, BreakerOpsCount DEF WriteCall
  <2>3. ASSUME NEW c \in Call, Drop(c) \/ Answered(c) \/ FailedBody(c)
        PROVE  BreakerCounts'
    <3>1. breaker' \in {breaker, RecordSuccess(Key(c)), RecordFailure(Key(c))}
      BY <2>3 DEF Drop, Answered, FailedBody, FailRetryable
    <3>2. Key(c) \in {"read", "write"}
      BY Constants
    <3> QED
      BY <3>1, <3>2, BreakerOpsCount
  <2>4. ASSUME NEW k \in {"read", "write"}, CooledDown(k) PROVE BreakerCounts'
    BY <2>4 DEF CooledDown, TypeOK, Breaker, BreakerCounts
  <2>5. CASE BreakersCleared
    BY <2>5, ApiRequestsAssumption DEF BreakersCleared, ClosedBreaker, BreakerCounts
  <2>6. CASE UNCHANGED breaker
    BY <2>6 DEF BreakerCounts
  <2>7. ASSUME NEW c \in Call,
               Send(c) \/ (\E o \in Outcome : Headers(c, o)) \/ Refused(c) \/ Denied(c)
        PROVE  UNCHANGED breaker
    BY <2>7 DEF Send, Headers, Refused, Denied
  <2>8. CASE SessionRestored \/ SessionGone \/ CacheExpires \/ LateWrite \/ UNCHANGED vars
    BY <2>6, <2>8 DEF SessionRestored, SessionGone, CacheExpires, LateWrite, vars
  <2> QED
    BY <2>1, <2>2, <2>3, <2>4, <2>5, <2>6, <2>7, <2>8 DEF Next
<1> QED
  BY <1>1, <1>2, RequestsTypeCorrect, PTL DEF Spec

-----------------------------------------------------------------------------

\* A response is on its way only between its headers and its end.
AnswerInv == \A c \in Call : pc[c] # "body" => answer[c] = "none"

\* While a write may yet be applied, the answer kept since the cache was
\* invalidated is marked, and every read under way; so is all that is old.
KeptMarked == (cache # "none" /\ (cache = "old" \/ WriteOpen)) => keptSuspect

ReadsMarked ==
    \A c \in Reads : (UnderWay(c) /\ (WriteOpen \/ answer[c] = "old")) => c \in suspect

SuspectInv == KeptMarked /\ ReadsMarked

\* No step ages an answer behind the marks' back.
LEMMA SuspectStep ==
    TypeOK /\ AnswerInv /\ SuspectInv /\ [Next]_vars => AnswerInv' /\ SuspectInv'
<1> SUFFICES ASSUME TypeOK, AnswerInv, SuspectInv, [Next]_vars
             PROVE  AnswerInv' /\ SuspectInv'
  OBVIOUS
<1> USE ApiRequestsAssumption
<1>1. ASSUME adrift' = adrift, cache' = cache, keptSuspect' = keptSuspect,
             suspect' = suspect,
             \A d \in Call : UnderWay(d)' => UnderWay(d),
             \A d \in Call : answer'[d] \in {answer[d], "none"}
      PROVE  SuspectInv'
  BY <1>1 DEF SuspectInv, KeptMarked, ReadsMarked, WriteOpen, Writes
<1>2. ASSUME NEW c \in Call, End(c)
      PROVE  \A d \in Call : \/ pc'[d] = pc[d]
                             \/ (pc'[d] = "idle" /\ (d = c \/ pc[d] = "joined"))
  BY <1>2 DEF End, Settled
<1>3. ASSUME NEW c \in Call, NEW told, FailRetryable(c, told)
      PROVE  \A d \in Call : \/ pc'[d] = pc[d]
                             \/ (pc'[d] = "idle" /\ (d = c \/ pc[d] = "joined"))
                             \/ (d = c /\ pc'[d] = "ready")
  BY <1>2, <1>3 DEF FailRetryable, TypeOK
<1>4. ASSUME NEW c \in Reads, ReadCall(c) PROVE AnswerInv' /\ SuspectInv'
  <2>1. AnswerInv'
    BY <1>4 DEF ReadCall, TypeOK, AnswerInv
  <2>2. WriteOpen' <=> WriteOpen
    BY <1>4 DEF ReadCall, TypeOK, WriteOpen, Writes, UnderWay
  <2>3. answer[c] = "none"
    BY <1>4 DEF ReadCall, AnswerInv
  <2>4. SuspectInv'
    BY <1>4, <2>2, <2>3 DEF ReadCall, TypeOK, SuspectInv, KeptMarked, ReadsMarked, UnderWay
  <2> QED
    BY <2>1, <2>4
<1>5. ASSUME NEW c \in Writes, WriteCall(c) PROVE AnswerInv' /\ SuspectInv'
  <2>1. c \in Call /\ c \notin Reads
    BY DEF Writes
  <2>2. AnswerInv'
    BY <1>5, <2>1 DEF WriteCall, TypeOK, AnswerInv
  <2>3. cache' = "none"
    BY <1>5 DEF WriteCall, InvalidateCache
  <2>4. KeptMarked'
    BY <2>3, Zenon DEF KeptMarked
  <2>5. CASE Refuses("write")
    <3>1. UNCHANGED <<pc, answer, adrift, suspect>>
      BY <1>5, <2>5 DEF WriteCall
    <3> QED
      BY <2>2, <2>4, <3>1 DEF SuspectInv, ReadsMarked, WriteOpen, UnderWay
  <2>6. CASE ~Refuses("write")
    <3>1. /\ pc' = [pc EXCEPT ![c] = "sent"]
          /\ suspect' = suspect \cup {r \in Reads : UnderWay(r)}
      BY <1>5, <2>6 DEF WriteCall
    <3>2. \A r \in Reads : UnderWay(r)' => UnderWay(r)
      BY <2>1, <3>1 DEF TypeOK, UnderWay
    <3> QED
      BY <2>2, <2>4, <3>1, <3>2 DEF SuspectInv, ReadsMarked
  <2> QED
    BY <2>2, <2>4, <2>5, <2>6 DEF SuspectInv
<1>6. ASSUME NEW c \in Call, Send(c) PROVE AnswerInv' /\ SuspectInv'
  <2>1. \A d \in Call : UnderWay(d)' => UnderWay(d)
    BY <1>6 DEF Send, TypeOK, UnderWay
  <2> QED
    BY <1>1, <1>6, <2>1 DEF Send, TypeOK, AnswerInv
<1>7. ASSUME NEW c \in Call, Drop(c) PROVE AnswerInv' /\ SuspectInv'
  <2>1. \A d \in Call : UnderWay(d)' => UnderWay(d)
    BY <1>3, <1>7 DEF Drop, UnderWay
  <2>2. WriteOpen' => WriteOpen
    BY <1>7, <2>1 DEF Drop, WriteOpen, Writes, UnderWay
  <2>3. SuspectInv'
    BY <1>7, <2>1, <2>2 DEF Drop, SuspectInv, KeptMarked, ReadsMarked
  <2>4. AnswerInv'
    BY <1>3, <1>7 DEF Drop, AnswerInv
  <2> QED
    BY <2>3, <2>4
<1>8. \A d \in Call : AgeAnswers[d] = "none" <=> answer[d] = "none"
  BY DEF AgeAnswers, Aged
<1>9. \A d \in Reads : AgeAnswers[d] = "old" => answer[d] # "none"
  BY DEF AgeAnswers, Aged
<1>10. ASSUME NEW c \in Call, NEW o \in Outcome, Headers(c, o)
       PROVE  AnswerInv' /\ SuspectInv'
  <2>1. AnswerInv'
    <3>1. pc' = [pc EXCEPT ![c] = "body"]
      BY <1>10 DEF Headers
    <3>2. \A d \in Call : d # c => (answer'[d] = "none" <=> answer[d] = "none")
      <4>1. AgeAnswers \in [Call -> {AgeAnswers[d] : d \in Call}]
        BY DEF AgeAnswers
      <4> QED
        BY <1>8, <1>10, <4>1 DEF Headers, TypeOK
    <3> QED
      BY <3>1, <3>2 DEF TypeOK, AnswerInv
  <2>2. \A d \in Call : UnderWay(d)' <=> UnderWay(d)
    BY <1>10 DEF Headers, TypeOK, UnderWay
  <2>3. WriteOpen' => WriteOpen
    BY <1>10, <2>2 DEF Headers, WriteOpen, Writes, UnderWay
  <2>4. CASE c \in Reads
    <3>1. o # "old" /\ answer' = [answer EXCEPT ![c] = o] /\ cache' = cache
      BY <1>10, <2>4 DEF Headers, Writes, Outcome
    <3> QED
      BY <1>10, <2>1, <2>2, <2>3, <3>1 DEF Headers, TypeOK, SuspectInv, KeptMarked, ReadsMarked
  <2>5. CASE c \in Writes
    <3>1. WriteOpen
      BY <1>10, <2>5 DEF Headers, WriteOpen, UnderWay
    <3>2. cache' # "none" => cache # "none"
      BY <1>10 DEF Headers, Aged
    <3> QED
      BY <1>10, <2>1, <2>2, <3>1, <3>2 DEF Headers, SuspectInv, KeptMarked, ReadsMarked
  <2> QED
    BY <2>4, <2>5 DEF Writes
<1>11. ASSUME NEW c \in Call, Answered(c) PROVE AnswerInv' /\ SuspectInv'
  <2>1. \A d \in Call : UnderWay(d)' => UnderWay(d)
    BY <1>2, <1>11 DEF Answered, UnderWay
  <2>2. WriteOpen' => WriteOpen
    BY <1>11, <2>1 DEF Answered, WriteOpen, Writes
  <2>3. AnswerInv'
    BY <1>2, <1>11 DEF Answered, TypeOK, AnswerInv
  <2>4. \A d \in Call : answer'[d] \in {answer[d], "none"}
    BY <1>11 DEF Answered, TypeOK
  <2>5. CASE c \in Reads
    <3>1. cache' = answer[c] /\ (c \in suspect => keptSuspect')
      BY <1>11, <2>5 DEF Answered
    <3>2. UnderWay(c)
      BY <1>11 DEF Answered, UnderWay
    <3>3. cache' = "old" \/ WriteOpen' => keptSuspect'
      BY <2>2, <2>5, <3>1, <3>2 DEF SuspectInv, KeptMarked, ReadsMarked
    <3>4. suspect' = suspect
      BY <1>11 DEF Answered
    <3> QED
      BY <2>1, <2>2, <2>3, <2>4, <3>3, <3>4 DEF SuspectInv, KeptMarked, ReadsMarked
  <2>6. CASE c \notin Reads
    BY <1>1, <1>11, <2>1, <2>3, <2>4, <2>6 DEF Answered
  <2> QED
    BY <2>5, <2>6
<1>12. ASSUME NEW c \in Call, FailedBody(c) \/ Refused(c) \/ Denied(c)
       PROVE  AnswerInv' /\ SuspectInv'
  <2>1. /\ answer' = [answer EXCEPT ![c] = "none"]
        /\ pc[c] = "body"
        /\ UNCHANGED <<adrift, cache, keptSuspect, suspect>>
    BY <1>12 DEF FailedBody, Refused, Denied
  <2>5. \A d \in Call : \/ pc'[d] = pc[d]
                      \/ (pc'[d] = "idle" /\ (d = c \/ pc[d] = "joined"))
                      \/ (d = c /\ pc'[d] \in {"ready", "auth"})
    <3>1. CASE FailedBody(c)
      BY <1>3, <3>1, Zenon DEF FailedBody
    <3>2. CASE Refused(c)
      BY <1>2, <3>2, Zenon DEF Refused
    <3>3. CASE Denied(c)
      <4>1. pc' = [pc EXCEPT ![c] = "auth"]
        BY <3>3, Zenon DEF Denied
      <4> QED
        BY <4>1 DEF TypeOK
    <3> QED
      BY <1>12, <3>1, <3>2, <3>3
  <2>2. \A d \in Call : UnderWay(d)' => UnderWay(d)
    BY <2>1, <2>5 DEF UnderWay
  <2>3. \A d \in Call : answer'[d] \in {answer[d], "none"}
    BY <2>1 DEF TypeOK
  <2>4. AnswerInv'
    BY <2>1, <2>5 DEF TypeOK, AnswerInv
  <2> QED
    BY <1>1, <2>1, <2>2, <2>3, <2>4
<1>13. CASE SessionRestored \/ SessionGone
  <2>1. /\ \A d \in Call : pc'[d] = pc[d] \/ pc'[d] = "idle"
                            \/ (pc[d] = "auth" /\ pc'[d] = "ready")
        /\ UNCHANGED <<answer, adrift, cache, keptSuspect, suspect>>
    <3>1. CASE SessionRestored
      <4>1. \A d \in Call :
              pc'[d] = pc[d] \/ pc'[d] = "idle" \/ (d \in Waiting /\ pc'[d] = "ready")
        BY <3>1 DEF SessionRestored
      <4>2. UNCHANGED <<answer, adrift, cache, keptSuspect, suspect>>
        BY <3>1, Zenon DEF SessionRestored
      <4> QED
        BY <4>1, <4>2, Zenon DEF Waiting
    <3>2. CASE SessionGone
      <4>1. \A d \in Call : pc'[d] = pc[d] \/ pc'[d] = "idle"
        BY <3>2 DEF SessionGone
      <4>2. UNCHANGED <<answer, adrift, cache, keptSuspect, suspect>>
        BY <3>2, Zenon DEF SessionGone
      <4> QED
        BY <4>1, <4>2, Zenon
    <3> QED
      BY <1>13, <3>1, <3>2
  <2>2. \A d \in Call : UnderWay(d)' => UnderWay(d)
    BY <2>1 DEF UnderWay
  <2>3. AnswerInv'
    BY <1>13, <2>1 DEF AnswerInv, SessionRestored, SessionGone, SettledAll, Waiting
  <2> QED
    BY <1>1, <2>1, <2>2, <2>3
<1>14. CASE CacheExpires
  BY <1>14 DEF CacheExpires, InvalidateCache, AnswerInv, SuspectInv, KeptMarked, ReadsMarked, WriteOpen, UnderWay
<1>15. CASE LateWrite
  <2>1. \A d \in Call : UnderWay(d)' <=> UnderWay(d)
    BY <1>15 DEF LateWrite, UnderWay
  <2>2. WriteOpen
    BY <1>15 DEF LateWrite, WriteOpen
  <2>3. cache' # "none" => cache # "none"
    BY <1>15 DEF LateWrite, Aged
  <2>4. AnswerInv'
    BY <1>8, <1>15 DEF LateWrite, AnswerInv
  <2> QED
    BY <1>15, <2>1, <2>2, <2>3, <2>4 DEF LateWrite, SuspectInv, KeptMarked, ReadsMarked
<1>16. CASE (\E k \in {"read", "write"} : CooledDown(k)) \/ BreakersCleared \/ UNCHANGED vars
  BY <1>16 DEF CooledDown, BreakersCleared, vars, AnswerInv, SuspectInv, KeptMarked, ReadsMarked, WriteOpen, UnderWay
<1> QED
  BY <1>4, <1>5, <1>6, <1>7, <1>10, <1>11, <1>12, <1>13, <1>14, <1>15, <1>16 DEF Next

\* The cache serves an answer older than an applied write only if its request
\* overlapped the write (or one that was given up and came late).
THEOREM StaleAnswersOverlap == Spec => []StaleOnlyByOverlap
<1>1. Init => AnswerInv /\ ReadsMarked
  BY ApiRequestsAssumption DEF Init, AnswerInv, ReadsMarked, UnderWay
<1>3. Init => KeptMarked
  BY Zenon DEF Init, KeptMarked
<1>2. SuspectInv => StaleOnlyByOverlap
  BY DEF SuspectInv, KeptMarked, ReadsMarked, StaleOnlyByOverlap
<1> QED
  BY <1>1, <1>2, <1>3, SuspectStep, RequestsTypeCorrect, PTL DEF Spec, SuspectInv
=============================================================================
