----------------------------- MODULE ApiRequests -----------------------------
(***************************************************************************)
(* ResilientApiClient.request of frontend/lib/apiClient.ts for one URL:    *)
(* its reads (GET, whose cached answer lives 12 s) and its writes (POST,   *)
(* PUT, PATCH, DELETE of the path), with the two circuit breakers of the   *)
(* endpoint, the in-flight table, the cache, the retries and the session   *)
(* check that all requests share.  No caller passes skipCache,             *)
(* skipCircuitBreaker, skipAuthRefresh or deduplicate, so the defaults are *)
(* what is modelled, and /api/auth/ routes, which recover nothing, are     *)
(* left out.                                                               *)
(* One handler runs at a time.  A request waits at its fetch (sent), for   *)
(* the body (body), before an attempt (ready: the 200 ms of a hidden tab   *)
(* or the back-off), for the session check (auth) or for another read's    *)
(* promise (joined); whoever awaits a promise goes on in the step that     *)
(* settles it.  Of a read's answer only its age matters: it is "current"   *)
(* until the backend applies a write, and "old" from then on.              *)
(***************************************************************************)
EXTENDS Integers, FiniteSets

CONSTANTS
    Call,          \* the requests that may be under way at once
    Reads,         \* those that are GETs
    MaxRetries,    \* the retries of a GET (1 by default)
    MaxFailures,   \* maxConsecutiveFailures
    BodiesArrive,  \* TRUE: no response stalls between its headers and its end
    NoCall

ASSUME ApiRequestsAssumption ==
    /\ Reads \subseteq Call
    /\ MaxRetries \in Nat
    /\ MaxFailures \in Nat \ {0}
    /\ BodiesArrive \in BOOLEAN
    /\ NoCall \notin Call

VARIABLES
    pc,            \* where each request is
    attempt,       \* its attempt
    recovered,     \* its hasAttemptedAuthRecovery
    answer,        \* the response on its way, once the headers have come
    leader,        \* the read in inFlightRequests
    cache,         \* fastGetCache: the answer kept
    breaker,       \* circuitBreakers, of the reads and of the writes
    checking,      \* activeAuthRefreshPromise is pending
    adrift,        \* a write that was given up may still reach the backend
    sends,         \* how often each request has been sent
    suspect,       \* the reads that were under way together with a write
    keptSuspect    \* the cached answer came from one of them

vars == <<pc, attempt, recovered, answer, leader, cache, breaker, checking,
          adrift, sends, suspect, keptSuspect>>

Writes == Call \ Reads
Age == {"current", "old"}
Outcome == {"current", "denied", "refused", "failed"}
Key(c) == IF c \in Reads THEN "read" ELSE "write"
Retries(c) == IF c \in Reads THEN MaxRetries ELSE 0

Breaker == [state : {"CLOSED", "OPEN", "HALF_OPEN"}, failures : 0..MaxFailures,
            cooled : BOOLEAN]

TypeOK ==
    /\ pc \in [Call -> {"idle", "ready", "sent", "body", "auth", "joined"}]
    /\ attempt \in [Call -> 0..MaxRetries+1]
    /\ recovered \in [Call -> BOOLEAN]
    /\ answer \in [Call -> Outcome \cup Age \cup {"none"}]
    /\ leader \in Reads \cup {NoCall}
    /\ cache \in Age \cup {"none"}
    /\ breaker \in [{"read", "write"} -> Breaker]
    /\ checking \in BOOLEAN
    /\ adrift \in BOOLEAN
    /\ sends \in [Call -> Nat]
    /\ suspect \subseteq Reads
    /\ keptSuspect \in BOOLEAN

ClosedBreaker == [state |-> "CLOSED", failures |-> 0, cooled |-> FALSE]

Init ==
    /\ pc = [c \in Call |-> "idle"]
    /\ attempt = [c \in Call |-> 0]
    /\ recovered = [c \in Call |-> FALSE]
    /\ answer = [c \in Call |-> "none"]
    /\ leader = NoCall
    /\ cache = "none"
    /\ breaker = [k \in {"read", "write"} |-> ClosedBreaker]
    /\ checking = FALSE
    /\ adrift = FALSE
    /\ sends = [c \in Call |-> 0]
    /\ suspect = {}
    /\ keptSuspect = FALSE

UnderWay(c) == pc[c] \in {"ready", "sent", "body", "auth"}
WriteOpen == adrift \/ \E w \in Writes : UnderWay(w)

-----------------------------------------------------------------------------
(* The circuit breaker *)

\* checkCircuitBreaker
Refuses(k) == breaker[k].state = "OPEN" /\ ~breaker[k].cooled

Admitted(k) ==
    IF breaker[k].state = "OPEN"
      THEN [breaker EXCEPT ![k].state = "HALF_OPEN"]
      ELSE breaker

\* Slip: an answered request closes the breaker and keeps its count.
CloseKeepingCount(k) == [breaker EXCEPT ![k].state = "CLOSED"]

\* recordCircuitResult(key, true)
RecordSuccess(k) == [breaker EXCEPT ![k] = ClosedBreaker]

\* recordCircuitResult(key, false) for anything but a 4xx, which it ignores
RecordFailure(k) ==
    LET b == breaker[k]
        n == IF b.failures < MaxFailures THEN b.failures + 1 ELSE MaxFailures
    IN  [breaker EXCEPT ![k] =
            IF n = MaxFailures \/ b.state = "HALF_OPEN"
              THEN [state |-> "OPEN", failures |-> n, cooled |-> FALSE]
              ELSE [b EXCEPT !.failures = n]]

-----------------------------------------------------------------------------
(* Beginning a request *)

\* A read that is neither refused, nor answered from the cache, nor joined to
\* the read already in flight (the last three leave it idle or joined).
ReadCall(c) ==
    /\ pc[c] = "idle"
    /\ ~Refuses("read")
    /\ breaker' = Admitted("read")
    /\ \/ cache # "none" /\ UNCHANGED <<pc, leader, attempt, recovered, sends, suspect>>
       \/ /\ cache = "none"
          /\ leader # NoCall
          /\ pc' = [pc EXCEPT ![c] = "joined"]
          /\ UNCHANGED <<leader, attempt, recovered, sends, suspect>>
       \/ /\ cache = "none"
          /\ leader = NoCall
          /\ pc' = [pc EXCEPT ![c] = "ready"]
          /\ leader' = c
          /\ attempt' = [attempt EXCEPT ![c] = 0]
          /\ recovered' = [recovered EXCEPT ![c] = FALSE]
          /\ sends' = [sends EXCEPT ![c] = 0]
          /\ suspect' = IF WriteOpen THEN suspect \cup {c} ELSE suspect \ {c}
    /\ UNCHANGED <<answer, cache, checking, adrift, keptSuspect>>

\* Slip: nothing is invalidated.
KeepCache == UNCHANGED <<cache, keptSuspect>>

\* invalidateCache(path), for a path that the read's URL contains
InvalidateCache == cache' = "none" /\ keptSuspect' = FALSE

\* post, put, patch, delete: the cache is invalidated even if the breaker then
\* refuses; a request that is not idempotent is sent at once.
WriteCall(c) ==
    /\ pc[c] = "idle"
    /\ InvalidateCache
    /\ IF Refuses("write")
         THEN UNCHANGED <<pc, attempt, recovered, sends, suspect, breaker>>
         ELSE /\ breaker' = Admitted("write")
              /\ pc' = [pc EXCEPT ![c] = "sent"]
              /\ attempt' = [attempt EXCEPT ![c] = 0]
              /\ recovered' = [recovered EXCEPT ![c] = FALSE]
              /\ sends' = [sends EXCEPT ![c] = 1]
              /\ suspect' = suspect \cup {r \in Reads : UnderWay(r)}
    /\ UNCHANGED <<answer, leader, checking, adrift>>

Send(c) ==
    /\ pc[c] = "ready"
    /\ pc' = [pc EXCEPT ![c] = "sent"]
    /\ sends' = [sends EXCEPT ![c] = @ + 1]
    /\ UNCHANGED <<attempt, recovered, answer, leader, cache, breaker, checking,
                   adrift, suspect, keptSuspect>>

-----------------------------------------------------------------------------
(* Ending a request *)

\* The promise of c settles: so does the request of everyone who joined it.
Settled(c) ==
    [d \in Call |-> IF d = c \/ (leader = c /\ pc[d] = "joined") THEN "idle" ELSE pc[d]]

LeaderAfter(c) == IF leader = c THEN NoCall ELSE leader

\* Slip: the entry of inFlightRequests is removed in the branch for an answer.
EndLeavingEntry(c) ==
    /\ pc' = [pc EXCEPT ![c] = "idle"]
    /\ leader' = leader

\* The last failure is returned, and the breaker told.
End(c) ==
    /\ pc' = Settled(c)
    /\ leader' = LeaderAfter(c)

\* A failure that may be retried: retried while there are attempts left, unless
\* the backend counts as offline (the second disjunct is then open as well).
FailRetryable(c, told) ==
    \/ /\ attempt[c] < Retries(c)
       /\ pc' = [pc EXCEPT ![c] = "ready"]
       /\ attempt' = [attempt EXCEPT ![c] = @ + 1]
       /\ UNCHANGED <<leader, breaker>>
    \/ /\ End(c)
       /\ breaker' = told
       /\ UNCHANGED attempt

\* No headers: the connection fails or timeoutMs aborts the fetch.  A write that
\* is aborted may have reached the backend.
Drop(c) ==
    /\ pc[c] = "sent"
    /\ FailRetryable(c, RecordFailure(Key(c)))
    /\ adrift' \in IF c \in Writes THEN {adrift, TRUE} ELSE {adrift}
    /\ UNCHANGED <<recovered, answer, cache, checking, sends, suspect, keptSuspect>>

\* What the backend's applying a write does to the answers given before
Aged(a) == IF a = "current" THEN "old" ELSE a
AgeAnswers == [c \in Call |-> IF c \in Reads THEN Aged(answer[c]) ELSE answer[c]]

\* The headers come, and the timer of timeoutMs is cleared.  A write that is
\* answered well has been applied; one that failed has, has not, or will be.
Headers(c, o) ==
    /\ pc[c] = "sent"
    /\ pc' = [pc EXCEPT ![c] = "body"]
    /\ \/ /\ o = "current" => c \in Reads
          /\ answer' = [answer EXCEPT ![c] = o]
          /\ adrift' \in IF c \in Writes /\ o = "failed" THEN {adrift, TRUE} ELSE {adrift}
          /\ UNCHANGED cache
       \/ /\ c \in Writes
          /\ o \in {"current", "failed"}
          /\ answer' = [AgeAnswers EXCEPT ![c] = o]
          /\ cache' = Aged(cache)
          /\ UNCHANGED adrift
    /\ UNCHANGED <<attempt, recovered, leader, breaker, checking, sends, suspect,
                   keptSuspect>>

\* response.text() ends, and the answer is good.
Answered(c) ==
    /\ pc[c] = "body"
    /\ answer[c] \in Age
    /\ End(c)
    /\ breaker' = RecordSuccess(Key(c))
    /\ IF c \in Reads
         THEN cache' = answer[c] /\ keptSuspect' = (c \in suspect)
         ELSE UNCHANGED <<cache, keptSuspect>>
    /\ answer' = [answer EXCEPT ![c] = "none"]
    /\ UNCHANGED <<attempt, recovered, checking, adrift, sends, suspect>>

\* A 5xx, or the connection breaks in the body: a failure of the transport.  A
\* 429 is retried too, but the breaker ignores it.
FailedBody(c) ==
    /\ pc[c] = "body"
    /\ \/ FailRetryable(c, RecordFailure(Key(c)))
       \/ answer[c] = "failed" /\ FailRetryable(c, breaker)
    /\ answer' = [answer EXCEPT ![c] = "none"]
    /\ UNCHANGED <<recovered, cache, checking, adrift, sends, suspect, keptSuspect>>

\* Any other 4xx, and a 401 after the session was checked once: the end.
Refused(c) ==
    /\ pc[c] = "body"
    /\ answer[c] = "refused" \/ (answer[c] = "denied" /\ recovered[c])
    /\ End(c)
    /\ answer' = [answer EXCEPT ![c] = "none"]
    /\ UNCHANGED <<attempt, recovered, cache, breaker, checking, adrift, sends,
                   suspect, keptSuspect>>

\* The first 401: handleSingleFlightAuthRefresh, begun or joined
Denied(c) ==
    /\ pc[c] = "body"
    /\ answer[c] = "denied" /\ ~recovered[c]
    /\ pc' = [pc EXCEPT ![c] = "auth"]
    /\ recovered' = [recovered EXCEPT ![c] = TRUE]
    /\ checking' = TRUE
    /\ answer' = [answer EXCEPT ![c] = "none"]
    /\ UNCHANGED <<attempt, leader, cache, breaker, adrift, sends, suspect, keptSuspect>>

BodyEnds(c) == Answered(c) \/ FailedBody(c) \/ Refused(c) \/ Denied(c)

-----------------------------------------------------------------------------
(* The session check ends (its fetch is aborted after 16 s) *)

Waiting == {c \in Call : pc[c] = "auth"}

\* Those whose promise settles when the requests of gone end
SettledAll(gone) ==
    {d \in Call : d \in gone \/ (pc[d] = "joined" /\ leader \in gone)}

\* Slip: the recovery's resend is an attempt that does not count.
ResendUncounted ==
    /\ checking
    /\ checking' = FALSE
    /\ pc' = [d \in Call |-> IF d \in Waiting THEN "ready" ELSE pc[d]]
    /\ UNCHANGED <<attempt, leader, recovered, answer, cache, breaker, adrift,
                   sends, suspect, keptSuspect>>

\* The session is there: each waiting request takes its next attempt, if it has
\* one; a write has none, and ends with its 401.
SessionRestored ==
    LET gone == {c \in Waiting : attempt[c] + 1 > Retries(c)}
    IN  /\ checking
        /\ checking' = FALSE
        /\ attempt' = [c \in Call |-> IF c \in Waiting THEN attempt[c] + 1 ELSE attempt[c]]
        /\ pc' = [d \in Call |-> IF d \in SettledAll(gone) THEN "idle"
                                 ELSE IF d \in Waiting THEN "ready" ELSE pc[d]]
        /\ leader' = IF leader \in gone THEN NoCall ELSE leader
        /\ UNCHANGED <<recovered, answer, cache, breaker, adrift, sends, suspect,
                       keptSuspect>>

\* Slip: only one of the waiting requests hears that the session is gone.
SessionGoneForOne ==
    LET gone == {CHOOSE c \in Waiting : TRUE}
    IN  /\ checking
        /\ checking' = FALSE
        /\ pc' = [d \in Call |-> IF d \in SettledAll(gone) THEN "idle" ELSE pc[d]]
        /\ leader' = IF leader \in gone THEN NoCall ELSE leader
        /\ UNCHANGED <<attempt, recovered, answer, cache, breaker, adrift, sends,
                       suspect, keptSuspect>>

SessionGone ==
    /\ checking
    /\ checking' = FALSE
    /\ pc' = [d \in Call |-> IF d \in SettledAll(Waiting) THEN "idle" ELSE pc[d]]
    /\ leader' = IF leader \in Waiting THEN NoCall ELSE leader
    /\ UNCHANGED <<attempt, recovered, answer, cache, breaker, adrift, sends,
                   suspect, keptSuspect>>

-----------------------------------------------------------------------------
(* Time, the health probe and the network *)

CacheExpires ==
    /\ cache # "none"
    /\ InvalidateCache
    /\ UNCHANGED <<pc, attempt, recovered, answer, leader, breaker, checking,
                   adrift, sends, suspect>>

\* circuitCooldownMs is over.
CooledDown(k) ==
    /\ breaker[k].state = "OPEN"
    /\ breaker' = [breaker EXCEPT ![k].cooled = TRUE]
    /\ UNCHANGED <<pc, attempt, recovered, answer, leader, cache, checking, adrift,
                   sends, suspect, keptSuspect>>

\* circuitBreakers.clear() of a successful probe and of resetCircuit
BreakersCleared ==
    /\ breaker' = [k \in {"read", "write"} |-> ClosedBreaker]
    /\ UNCHANGED <<pc, attempt, recovered, answer, leader, cache, checking, adrift,
                   sends, suspect, keptSuspect>>

\* The backend applies, or never sees, a write that the client has given up; it
\* may not be the only one.
LateWrite ==
    /\ adrift
    /\ adrift' \in BOOLEAN
    /\ \/ answer' = AgeAnswers /\ cache' = Aged(cache)
       \/ UNCHANGED <<answer, cache>>
    /\ UNCHANGED <<pc, attempt, recovered, leader, breaker, checking, sends,
                   suspect, keptSuspect>>

Next ==
    \/ \E c \in Reads : ReadCall(c)
    \/ \E c \in Writes : WriteCall(c)
    \/ \E c \in Call : Send(c)
    \/ \E c \in Call : Drop(c)
    \/ \E c \in Call, o \in Outcome : Headers(c, o)
    \/ \E c \in Call : Answered(c)
    \/ \E c \in Call : FailedBody(c)
    \/ \E c \in Call : Refused(c)
    \/ \E c \in Call : Denied(c)
    \/ SessionRestored
    \/ SessionGone
    \/ CacheExpires
    \/ \E k \in {"read", "write"} : CooledDown(k)
    \/ BreakersCleared
    \/ LateWrite

\* Timers fire; timeoutMs ends a fetch without headers, and the 16 s signal the
\* session check.  Nothing ends a body but the body.
Fairness ==
    /\ \A c \in Call : WF_vars(Send(c))
    /\ \A c \in Call : WF_vars(Drop(c) \/ \E o \in Outcome : Headers(c, o))
    /\ \A c \in IF BodiesArrive THEN Call ELSE {} : WF_vars(BodyEnds(c))
    /\ WF_vars(SessionRestored \/ SessionGone)

Spec == Init /\ [][Next]_vars /\ Fairness

-----------------------------------------------------------------------------
(* Properties *)

\* No mix of retries and session recoveries sends a write twice, or a read more
\* often than its retries allow.
SendsBounded == \A c \in Call : UnderWay(c) => sends[c] <= Retries(c) + 1

\* Deduplication: of the reads of a URL one at most is under way, it is the one
\* in inFlightRequests, and the others can only be joined to it.
OneInFlight ==
    /\ \A c \in Reads : UnderWay(c) <=> leader = c
    /\ \A c \in Call : pc[c] = "joined" => leader # NoCall

\* A breaker is open or half-open exactly while it has counted MaxFailures
\* failures since the last answered request: late answers and failures of
\* requests sent before it opened do not separate the two.
BreakerCounts ==
    \A k \in {"read", "write"} :
        breaker[k].state # "CLOSED" <=> breaker[k].failures = MaxFailures

\* Only an answer whose request was under way together with a write of the path
\* can be served from the cache after the write has been applied.
StaleOnlyByOverlap == cache = "old" => keptSuspect

\* Every request returns ("Safe fetch with timeout", apiClient.ts:644).  It does
\* if bodies do not stall: the timer is cleared before response.text().
EveryCallSettles == \A c \in Call : pc[c] # "idle" ~> pc[c] = "idle"
=============================================================================
