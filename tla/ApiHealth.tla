------------------------------ MODULE ApiHealth ------------------------------
(***************************************************************************)
(* The liveness state machine of the frontend's API client                 *)
(* (frontend/lib/apiClient.ts) together with the banner that shows an      *)
(* outage and probes on its own account                                    *)
(* (frontend/components/common/BackendAvailabilityBanner.tsx).  Probes of  *)
(* GET /api/health/live are started by the polling timer, by the browser's *)
(* "online" event and by the banner; they overlap, and each aborts the one *)
(* in activeProbeController.                                               *)
(* A page runs one handler at a time, up to its next await, and the        *)
(* handlers that follow at once from a promise settled in it (the catch of *)
(* an aborted fetch) run before any other event: they belong to the step.  *)
(* What only sets the delay of a timer (backoffIndex) and what only        *)
(* displays (lastConnectedTimestamp) is left out; startHealthPolling and   *)
(* stopHealthPolling have no caller but the constructor, which is Init.    *)
(***************************************************************************)
EXTENDS Integers, FiniteSets

CONSTANTS
    Probe,         \* the probes that may be in flight at once
    MaxFailures,   \* maxConsecutiveFailures
    NoProbe        \* activeProbeController = null

ASSUME ApiHealthAssumption ==
    /\ MaxFailures \in Nat \ {0}
    /\ NoProbe \notin Probe

VARIABLES
    conn,          \* connectionState
    offline,       \* isBackendOffline
    failures,      \* consecutiveLivenessFailures, counted up to MaxFailures
    since,         \* firstFailureTimestamp: null, within the grace period, past it
    early,         \* the probes in flight when firstFailureTimestamp was set
    timer,         \* healthPollingTimer is armed
    probe,         \* who awaits each probe
    active,        \* activeProbeController
    banner,        \* isOffline of the banner
    genuine,       \* since firstFailureTimestamp, a probe failed that nobody aborted
    up             \* the backend answers a probe within its 6 s

vars == <<conn, offline, failures, since, early, timer, probe, active, banner,
          genuine, up>>

Awaiter == {"poll", "online", "banner"}

InFlight == {p \in Probe : probe[p] # "idle"}

TypeOK ==
    /\ conn \in {"CONNECTED", "TEMPORARILY_UNAVAILABLE", "RECONNECTING",
                 "CRITICAL_ENGINE_ERROR"}
    /\ offline \in BOOLEAN
    /\ failures \in 0..MaxFailures
    /\ since \in {"null", "recent", "past"}
    /\ early \subseteq Probe
    /\ timer \in BOOLEAN
    /\ probe \in [Probe -> Awaiter \cup {"idle"}]
    /\ active \in Probe \cup {NoProbe}
    /\ banner \in BOOLEAN
    /\ genuine \in BOOLEAN
    /\ up \in BOOLEAN

Init ==
    /\ conn = "CONNECTED"
    /\ offline = FALSE
    /\ failures = 0
    /\ since = "null"
    /\ early = {}
    /\ timer = TRUE
    /\ probe = [p \in Probe |-> "idle"]
    /\ active = NoProbe
    /\ banner = FALSE
    /\ genuine = FALSE
    /\ up = TRUE

-----------------------------------------------------------------------------
(* probeHealth after its fetch *)

NextFailures == IF failures < MaxFailures THEN failures + 1 ELSE MaxFailures

\* Slip: the count alone decides.
ConfirmedAtOnce == NextFailures = MaxFailures

\* Both thresholds: the count, and the time since the first failure.
Confirmed == NextFailures = MaxFailures /\ since = "past"

\* Slip: "was online" is read off connectionState, which is RECONNECTING by then.
TellBannerEarly ==
    banner' = IF Confirmed /\ conn = "CONNECTED" THEN TRUE ELSE banner

\* notifyOffline, which the banner listens to
TellBanner == banner' = IF Confirmed /\ ~offline THEN TRUE ELSE banner

\* The branch for a failed probe, while the given probes stay in flight.
RecordFailure(left) ==
    /\ failures' = NextFailures
    /\ IF since = "null"
         THEN since' = "recent" /\ early' = left
         ELSE since' = since /\ early' = early \cap left
    /\ conn' = IF Confirmed THEN "CRITICAL_ENGINE_ERROR" ELSE "RECONNECTING"
    /\ offline' = IF Confirmed THEN TRUE ELSE offline
    /\ TellBanner

\* Everything recovered: the fields that resetCircuit, a successful probe and
\* recordCircuitResult assign.
Restore ==
    /\ conn' = "CONNECTED"
    /\ offline' = FALSE
    /\ failures' = 0
    /\ since' = "null"
    /\ early' = {}
    /\ genuine' = FALSE

\* Slip: the catch of an aborted probe leaves another probe's controller alone.
KeepController(p) == p

\* A probe clears activeProbeController when its fetch settles, whosever it is;
\* so the catch of the aborted probe forgets the one that aborted it.
ControllerAfterAbort(p) == NoProbe

-----------------------------------------------------------------------------
(* Handlers *)

\* probeHealth up to its fetch.  An older probe that is still the active one is
\* aborted, and fails before anything else happens; if the polling timer's
\* callback was awaiting it, that callback re-arms the timer.
StartProbe(p, who) ==
    /\ probe[p] = "idle"
    /\ IF active = NoProbe
         THEN /\ probe' = [probe EXCEPT ![p] = who]
              /\ active' = p
              /\ UNCHANGED <<conn, offline, failures, since, early, banner, genuine>>
         ELSE /\ probe' = [probe EXCEPT ![p] = who, ![active] = "idle"]
              /\ active' = ControllerAfterAbort(p)
              /\ RecordFailure((InFlight \cup {p}) \ {active})
              /\ genuine' = genuine
    /\ UNCHANGED up

PollAborted == active # NoProbe /\ probe[active] = "poll"

TimerFires(p) ==
    /\ timer
    /\ StartProbe(p, "poll")
    /\ timer' = PollAborted

BrowserOnline(p) ==
    /\ StartProbe(p, "online")
    /\ timer' = (timer \/ PollAborted)

\* The banner's interval of 2 s and its retry button, both there while it shows.
BannerProbes(p) ==
    /\ banner
    /\ StartProbe(p, "banner")
    /\ timer' = (timer \/ PollAborted)

\* Slip: the callback re-arms the timer inside the branch for an answer.
SettleAndRearmIfUp(p) ==
    /\ probe' = [probe EXCEPT ![p] = "idle"]
    /\ active' = NoProbe
    /\ timer' = (timer \/ (probe[p] = "poll" /\ up))

Settle(p) ==
    /\ probe' = [probe EXCEPT ![p] = "idle"]
    /\ active' = NoProbe
    /\ timer' = (timer \/ probe[p] = "poll")

\* Slip: the banner waits for the event and does not reset the circuit itself.
AnswerUnheeded(p) ==
    /\ probe[p] # "idle"
    /\ up
    /\ Settle(p)
    /\ Restore
    /\ banner' = IF offline \/ conn # "CONNECTED" THEN FALSE ELSE banner
    /\ UNCHANGED up

\* A 200.  notifyOnline is dispatched only by a probe that finds the client
\* offline; the banner's own probe goes on to resetCircuit, which always does.
ProbeSucceeds(p) ==
    /\ probe[p] # "idle"
    /\ up
    /\ Settle(p)
    /\ Restore
    /\ banner' = IF offline \/ conn # "CONNECTED" \/ probe[p] = "banner"
                   THEN FALSE ELSE banner
    /\ UNCHANGED up

\* Any other answer, a refused connection, or the probe's own timeout of 6 s
ProbeFails(p) ==
    /\ probe[p] # "idle"
    /\ ~up
    /\ Settle(p)
    /\ RecordFailure(InFlight \ {p})
    /\ genuine' = TRUE
    /\ UNCHANGED up

\* recordCircuitResult(key, true): any answered request restores the state, and
\* tells nobody.
RequestSucceeds ==
    /\ conn # "CONNECTED"
    /\ Restore
    /\ UNCHANGED <<timer, probe, active, banner, up>>

\* The browser's "offline" event re-arms the timer.
BrowserOffline ==
    /\ conn' = "TEMPORARILY_UNAVAILABLE"
    /\ timer' = TRUE
    /\ UNCHANGED <<offline, failures, since, early, probe, active, banner, genuine, up>>

-----------------------------------------------------------------------------
(* Time and the backend *)

\* failureGracePeriodMs (30 s) passes.  A probe lasts at most 6 s, so those in
\* flight at the first failure have ended by then.
GracePasses ==
    /\ since = "recent"
    /\ early = {}
    /\ since' = "past"
    /\ UNCHANGED <<conn, offline, failures, early, timer, probe, active, banner,
                   genuine, up>>

BackendChanges ==
    /\ up' = ~up
    /\ UNCHANGED <<conn, offline, failures, since, early, timer, probe, active,
                   banner, genuine>>

Next ==
    \/ \E p \in Probe : TimerFires(p)
    \/ \E p \in Probe : BrowserOnline(p)
    \/ \E p \in Probe : BannerProbes(p)
    \/ \E p \in Probe : ProbeSucceeds(p)
    \/ \E p \in Probe : ProbeFails(p)
    \/ RequestSucceeds
    \/ BrowserOffline
    \/ GracePasses
    \/ BackendChanges

\* Timers fire, whatever is in flight (strong fairness, because the model has
\* no more than the probes of Probe), and a probe ends within 6 s.  The poll
\* comes every 5 s or less often and the banner's probe every 2 s, so the poll
\* cannot abort each of the banner's probes, nor can the browser's rare "online"
\* events: one of them is answered at last.  Nothing is assumed of the backend.
Fairness ==
    /\ SF_vars(\E p \in Probe : TimerFires(p))
    /\ SF_vars(\E p \in Probe : BannerProbes(p))
    /\ \A p \in Probe : WF_vars(ProbeSucceeds(p) \/ ProbeFails(p))
    /\ SF_vars(\E p \in Probe : probe[p] = "banner" /\ ProbeSucceeds(p))

Spec == Init /\ [][Next]_vars /\ Fairness

-----------------------------------------------------------------------------
(* Properties *)

\* The client calls the backend offline only on MaxFailures failures in a row
\* and a grace period since the first of them, none of which an answered
\* request or probe has wiped out since ("Confirmed persistent failure",
\* apiClient.ts:528).
OutageConfirmed ==
    offline => failures = MaxFailures /\ since = "past"

\* The emergency is never raised by probes that only aborted one another: at
\* least one probe of the episode was refused or timed out.
AbortsAreNoOutage == offline => genuine

\* An outage is always on display: no order of events clears the banner and
\* leaves the client offline.
OutageIsShown == offline => banner

\* The background loop never ends: the timer is armed, or the callback that will
\* re-arm it awaits a probe.
PollingGoesOn == timer \/ \E p \in Probe : probe[p] = "poll"

\* Once the backend stays up, the banner goes away and stays away, although an
\* answered request resets the client's state without any event.
BannerRecovers == <>[]up => <>[]~banner
=============================================================================
