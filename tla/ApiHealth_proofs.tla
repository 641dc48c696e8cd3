-------------------------- MODULE ApiHealth_proofs --------------------------
(***************************************************************************)
(* Proofs about the liveness state machine of the API client, for any      *)
(* number of overlapping probes and any threshold.                         *)
(***************************************************************************)
EXTENDS ApiHealth, TLAPS

\* Type correctness.
THEOREM HealthTypeCorrect == Spec => []TypeOK
<1> 0 \in 0..MaxFailures
  BY ApiHealthAssumption
<1>1. Init => TypeOK
  BY DEF Init, TypeOK, Awaiter
<1>2. TypeOK /\ [Next]_vars => TypeOK'
  <2> SUFFICES ASSUME TypeOK, [Next]_vars PROVE TypeOK'
    OBVIOUS
  <2> USE ApiHealthAssumption DEF TypeOK, Awaiter
  <2>1. NextFailures \in 0..MaxFailures
    BY DEF NextFailures
  <2>2. ASSUME NEW left \in SUBSET Probe, RecordFailure(left)
        PROVE  /\ failures' \in 0..MaxFailures
               /\ since' \in {"null", "recent", "past"}
               /\ early' \subseteq Probe
               /\ conn' \in {"CRITICAL_ENGINE_ERROR", "RECONNECTING"}
               /\ offline' \in BOOLEAN
               /\ banner' \in BOOLEAN
    BY <2>1, <2>2 DEF RecordFailure, TellBanner
  <2>3. ASSUME Restore
        PROVE  /\ failures' \in 0..MaxFailures
               /\ since' \in {"null", "recent", "past"}
               /\ early' \subseteq Probe
               /\ conn' = "CONNECTED"
               /\ offline' \in BOOLEAN
               /\ genuine' \in BOOLEAN
    BY <2>3 DEF Restore
  <2>4. ASSUME NEW p \in Probe, NEW who \in Awaiter, StartProbe(p, who),
               timer' \in BOOLEAN
        PROVE  TypeOK'
    <3>1. CASE active = NoProbe
      BY <2>4, <3>1 DEF StartProbe
    <3>2. CASE active # NoProbe
      <4>1. (InFlight \cup {p}) \ {active} \in SUBSET Probe
        BY DEF InFlight
      <4>2. RecordFailure((InFlight \cup {p}) \ {active})
        BY <2>4, <3>2 DEF StartProbe
      <4> QED
        BY <2>2, <2>4, <3>2, <4>1, <4>2 DEF StartProbe, ControllerAfterAbort
    <3> QED
      BY <3>1, <3>2
  <2>5. ASSUME NEW p \in Probe, TimerFires(p) PROVE TypeOK'
    BY <2>4, <2>5 DEF TimerFires, PollAborted
  <2>6. ASSUME NEW p \in Probe, BrowserOnline(p) PROVE TypeOK'
    BY <2>4, <2>6 DEF BrowserOnline, PollAborted
  <2>7. ASSUME NEW p \in Probe, BannerProbes(p) PROVE TypeOK'
    BY <2>4, <2>7 DEF BannerProbes, PollAborted
  <2>8. ASSUME NEW p \in Probe, ProbeSucceeds(p) PROVE TypeOK'
    BY <2>3, <2>8 DEF ProbeSucceeds, Settle
  <2>9. ASSUME NEW p \in Probe, ProbeFails(p) PROVE TypeOK'
    <3>1. InFlight \ {p} \in SUBSET Probe
      BY DEF InFlight
    <3> QED
      BY <2>2, <2>9, <3>1 DEF ProbeFails, Settle
  <2>10. CASE RequestSucceeds
    BY <2>3, <2>10 DEF RequestSucceeds
  <2>11. CASE BrowserOffline
    BY <2>11 DEF BrowserOffline
  <2>12. CASE GracePasses
    BY <2>12 DEF GracePasses
  <2>13. CASE BackendChanges
    BY <2>13 DEF BackendChanges
  <2>14. CASE UNCHANGED vars
    BY <2>14 DEF vars
  <2> QED
    BY <2>5, <2>6, <2>7, <2>8, <2>9, <2>10, <2>11, <2>12, <2>13, <2>14 DEF Next
<1> QED
  BY <1>1, <1>2, PTL DEF Spec

-----------------------------------------------------------------------------

\* In an episode that only aborts have opened, one of the probes that were in
\* flight at its first failure is still in flight, and cannot be aborted.
AbortedEpisode ==
    /\ since = "past" => genuine
    /\ (since = "recent" /\ ~genuine) =>
           \E p \in early : probe[p] # "idle" /\ p # active

\* activeProbeController belongs to a probe in flight.
ActiveInFlight == active # NoProbe => probe[active] # "idle"

\* The inductive invariant of the safety properties.
HealthInv ==
    /\ OutageConfirmed
    /\ OutageIsShown
    /\ AbortedEpisode
    /\ ActiveInFlight
    /\ PollingGoesOn

\* A failed probe keeps an outage confirmed and on display.
LEMMA FailureKeeps ==
    ASSUME TypeOK, OutageConfirmed, OutageIsShown,
           NEW left, RecordFailure(left)
    PROVE  OutageConfirmed' /\ OutageIsShown'
<1> USE ApiHealthAssumption DEF TypeOK, OutageConfirmed, OutageIsShown
<1>1. offline => Confirmed
  BY DEF Confirmed, NextFailures
<1>2. Confirmed => failures' = MaxFailures /\ since' = "past"
  BY DEF RecordFailure, Confirmed
<1>3. Confirmed => banner'
  BY DEF RecordFailure, TellBanner
<1>4. offline' => Confirmed
  BY <1>1 DEF RecordFailure
<1> QED
  BY <1>2, <1>3, <1>4

\* Starting a probe preserves the invariant; when it aborts one, the probe that
\* did the aborting is the one that cannot be aborted.
LEMMA StartKeeps ==
    ASSUME TypeOK, HealthInv, NEW p \in Probe, NEW who \in Awaiter,
           StartProbe(p, who),
           timer' = (PollAborted \/ (who # "poll" /\ timer))
    PROVE  HealthInv'
<1> USE ApiHealthAssumption DEF TypeOK, HealthInv
<1>1. "idle" \notin Awaiter
  BY DEF Awaiter
<1>2. probe[p] = "idle"
  BY DEF StartProbe
<1>3. CASE active = NoProbe
  <2>1. OutageConfirmed' /\ OutageIsShown'
    BY <1>3 DEF StartProbe, OutageConfirmed, OutageIsShown
  <2>2. AbortedEpisode'
    BY <1>2, <1>3 DEF StartProbe, AbortedEpisode
  <2>3. ActiveInFlight' /\ PollingGoesOn'
    BY <1>1, <1>2, <1>3 DEF StartProbe, ActiveInFlight, PollingGoesOn, PollAborted
  <2> QED
    BY <2>1, <2>2, <2>3
<1>4. CASE active # NoProbe
  <2> DEFINE left == (InFlight \cup {p}) \ {active}
  <2>1. RecordFailure(left)
    BY <1>4 DEF StartProbe
  <2>2. /\ active' = NoProbe
        /\ genuine' = genuine
        /\ probe' = [probe EXCEPT ![p] = who, ![active] = "idle"]
        /\ p # active
    BY <1>2, <1>4 DEF StartProbe, ControllerAfterAbort, ActiveInFlight
  <2>3. OutageConfirmed' /\ OutageIsShown'
    BY <2>1, FailureKeeps
  <2>4. \A q \in left : probe'[q] # "idle" /\ q # active'
    BY <1>1, <2>2 DEF InFlight
  <2>5. AbortedEpisode'
    <3>1. CASE since = "null"
      <4>1. since' = "recent" /\ early' = left /\ p \in left
        BY <2>1, <2>2, <3>1 DEF RecordFailure
      <4> QED
        BY <2>4, <4>1 DEF AbortedEpisode
    <3>2. CASE since # "null"
      <4>1. since' = since /\ early' = early \cap left
        BY <2>1, <3>2 DEF RecordFailure
      <4>2. ASSUME since = "recent", ~genuine
            PROVE  \E q \in early' : probe'[q] # "idle" /\ q # active'
        <5>1. PICK q \in early : probe[q] # "idle" /\ q # active
          BY <4>2 DEF AbortedEpisode
        <5>2. q \in left
          BY <5>1 DEF InFlight
        <5> QED
          BY <2>4, <4>1, <5>1, <5>2
      <4> QED
        BY <2>2, <4>1, <4>2 DEF AbortedEpisode
    <3> QED
      BY <3>1, <3>2
  <2>6. ActiveInFlight'
    BY <2>2 DEF ActiveInFlight
  <2>7. PollingGoesOn'
    <3>1. CASE timer'
      BY <3>1 DEF PollingGoesOn
    <3>2. CASE ~timer' /\ who = "poll"
      BY <2>2, <3>2 DEF PollingGoesOn
    <3>3. CASE ~timer' /\ who # "poll"
      <4>1. ~timer /\ ~PollAborted
        BY <3>3
      <4>2. PICK q \in Probe : probe[q] = "poll"
        BY <4>1 DEF PollingGoesOn
      <4>3. q # active /\ q # p
        BY <1>2, <1>4, <4>1, <4>2 DEF PollAborted
      <4> QED
        BY <2>2, <4>2, <4>3 DEF PollingGoesOn
    <3> QED
      BY <3>1, <3>2, <3>3
  <2> QED
    BY <2>3, <2>5, <2>6, <2>7
<1> QED
  BY <1>3, <1>4

\* Every step preserves the invariant.
LEMMA HealthStep == TypeOK /\ HealthInv /\ [Next]_vars => HealthInv'
<1> SUFFICES ASSUME TypeOK, HealthInv, [Next]_vars PROVE HealthInv'
  OBVIOUS
<1> USE ApiHealthAssumption DEF TypeOK, HealthInv
<1>1. ASSUME NEW p \in Probe, TimerFires(p) PROVE HealthInv'
  BY <1>1, StartKeeps DEF TimerFires, Awaiter, PollAborted
<1>2. ASSUME NEW p \in Probe, BrowserOnline(p) PROVE HealthInv'
  BY <1>2, StartKeeps DEF BrowserOnline, Awaiter, PollAborted
<1>3. ASSUME NEW p \in Probe, BannerProbes(p) PROVE HealthInv'
  BY <1>3, StartKeeps DEF BannerProbes, Awaiter, PollAborted
<1>4. ASSUME Restore PROVE OutageConfirmed' /\ OutageIsShown' /\ AbortedEpisode'
  BY <1>4 DEF Restore, OutageConfirmed, OutageIsShown, AbortedEpisode
<1>5. ASSUME NEW p \in Probe, Settle(p) PROVE ActiveInFlight' /\ PollingGoesOn'
  BY <1>5 DEF Settle, ActiveInFlight, PollingGoesOn
<1>6. ASSUME NEW p \in Probe, ProbeSucceeds(p) PROVE HealthInv'
  BY <1>4, <1>5, <1>6 DEF ProbeSucceeds
<1>7. ASSUME NEW p \in Probe, ProbeFails(p) PROVE HealthInv'
  <2>1. OutageConfirmed' /\ OutageIsShown'
    BY <1>7, FailureKeeps DEF ProbeFails
  <2>2. AbortedEpisode'
    BY <1>7 DEF ProbeFails, AbortedEpisode
  <2> QED
    BY <1>5, <1>7, <2>1, <2>2 DEF ProbeFails
<1>8. CASE RequestSucceeds
  BY <1>4, <1>8 DEF RequestSucceeds, ActiveInFlight, PollingGoesOn
<1>9. CASE BrowserOffline
  BY <1>9 DEF BrowserOffline, OutageConfirmed, OutageIsShown, AbortedEpisode,
              ActiveInFlight, PollingGoesOn
<1>10. CASE GracePasses
  <2>1. genuine
    BY <1>10 DEF GracePasses, AbortedEpisode
  <2> QED
    BY <1>10, <2>1 DEF GracePasses, OutageConfirmed, OutageIsShown, AbortedEpisode,
                       ActiveInFlight, PollingGoesOn
<1>11. CASE BackendChanges \/ UNCHANGED vars
  BY <1>11 DEF BackendChanges, vars, OutageConfirmed, OutageIsShown, AbortedEpisode,
               ActiveInFlight, PollingGoesOn
<1> QED
  BY <1>1, <1>2, <1>3, <1>6, <1>7, <1>8, <1>9, <1>10, <1>11 DEF Next

LEMMA HealthInvHolds == Spec => [](TypeOK /\ HealthInv)
<1>1. Init => HealthInv
  BY DEF Init, HealthInv, OutageConfirmed, OutageIsShown, AbortedEpisode,
         ActiveInFlight, PollingGoesOn
<1>2. Spec => []TypeOK
  BY HealthTypeCorrect
<1> QED
  BY <1>1, <1>2, HealthStep, PTL DEF Spec

\* The client goes offline only on a confirmed outage (probeHealth's two
\* thresholds), whatever resets the episode in between.
THEOREM OutagesAreConfirmed == Spec => []OutageConfirmed
  BY HealthInvHolds, PTL DEF HealthInv

\* However many probes overlap and abort one another, aborts alone never raise
\* the emergency.
THEOREM AbortsNeverOutage == Spec => []AbortsAreNoOutage
<1>1. HealthInv => AbortsAreNoOutage
  BY DEF HealthInv, OutageConfirmed, AbortedEpisode, AbortsAreNoOutage
<1> QED
  BY <1>1, HealthInvHolds, PTL

\* While the client is offline the banner shows it.
THEOREM OutagesAreShown == Spec => []OutageIsShown
  BY HealthInvHolds, PTL DEF HealthInv

\* The polling loop never dies.
THEOREM PollingNeverEnds == Spec => []PollingGoesOn
  BY HealthInvHolds, PTL DEF HealthInv
=============================================================================
