----------------------- MODULE MarketConnection_proofs -----------------------
(***************************************************************************)
(* Proofs about the tab's connection to the market data gateway, for any   *)
(* number of attempts and pending frames.                                  *)
(***************************************************************************)
EXTENDS MarketConnection, TLAPS

Shown == {"CONNECTED", "LIVE"}

\* What the page shows as connected has an open socket, or one whose close event
\* is to come, and no attempt of a later generation beside it.
ShownInv ==
    status \in Shown =>
        /\ watchdog
        /\ ref # NoAttempt
        /\ ref = latest
        /\ phase[ref] \in {"open", "dropped"}

ConnInv == OneSocket /\ NeverStranded /\ ShownInv

\* What setting a status does to the intervals of the two effects.
LEMMA SetStatusKeeps ==
    ASSUME TypeOK, NEW s \in {"CONNECTING", "CONNECTED", "LIVE", "RECONNECTING", "POLLING"},
           SetStatus(s)
    PROVE  /\ status' = s
           /\ watchdog' \in BOOLEAN /\ poller' \in BOOLEAN /\ polling' \in BOOLEAN
           /\ s # status => watchdog'
           /\ s = status => watchdog' = watchdog
<1>1. CASE s = status
  BY <1>1 DEF TypeOK, SetStatus, effects
<1>2. CASE s # status
  BY <1>2 DEF TypeOK, SetStatus, IsOpen
<1> QED
  BY <1>1, <1>2

\* scheduleReconnect arms the timer, and shows that there is no connection.
LEMMA ScheduleKeeps ==
    ASSUME TypeOK, ScheduleReconnect
    PROVE  /\ timer' = TRUE
           /\ retrying' = TRUE
           /\ status' = "RECONNECTING"
           /\ watchdog' \in BOOLEAN /\ poller' \in BOOLEAN /\ polling' \in BOOLEAN
  BY SetStatusKeeps DEF ScheduleReconnect

\* Closing wsRef's socket leaves none that may stay open.
LEMMA SafelyClosedLeavesNone ==
    ASSUME TypeOK, OneSocket
    PROVE  /\ SafelyClosed \in [Attempt -> Phase]
           /\ \A b \in Attempt : SafelyClosed[b] \notin {"connecting", "open"}
<1> USE MarketConnectionAssumption DEF TypeOK, OneSocket, SafelyClosed, Phase
<1>1. CASE ref = NoAttempt
  BY <1>1
<1>2. CASE ref # NoAttempt
  BY <1>2
<1> QED
  BY <1>1, <1>2

\* Connecting returns early if wsRef's socket is connecting or open, and begins
\* an attempt of a new generation if none is: there is never a second socket.
LEMMA ConnectKeeps ==
    ASSUME TypeOK, ConnInv, NEW p \in [Attempt -> Phase],
           \/ p = phase /\ ref' = ref
           \/ p = SafelyClosed /\ ref' = NoAttempt,
           Connect(p)
    PROVE  /\ phase' \in [Attempt -> Phase]
           /\ latest' \in Attempt
           /\ ref' \in Attempt \cup {NoAttempt}
           /\ status' \in {"CONNECTING", "CONNECTED", "LIVE", "RECONNECTING", "POLLING"}
           /\ watchdog' \in BOOLEAN /\ poller' \in BOOLEAN /\ polling' \in BOOLEAN
           /\ ConnInv'
<1> USE MarketConnectionAssumption DEF TypeOK
<1>1. \A b \in Attempt : p[b] \in {"connecting", "open"} => ref' = b /\ latest = b
  BY SafelyClosedLeavesNone DEF ConnInv, OneSocket
<1>2. CASE ref' # NoAttempt /\ p[ref'] \in {"connecting", "open"}
  <2>1. /\ p = phase /\ ref' = ref /\ phase' = phase /\ latest' = latest
        /\ status' = status /\ UNCHANGED effects
    BY <1>2 DEF Connect
  <2>2. ref = latest /\ ref \in Attempt
    BY <1>1, <1>2, <2>1
  <2>3. OneSocket' /\ NeverStranded'
    BY <1>2, <2>1, <2>2 DEF ConnInv, OneSocket, NeverStranded
  <2>4. ShownInv'
    BY <2>1 DEF ConnInv, ShownInv, effects
  <2> QED
    BY <2>1, <2>2, <2>3, <2>4 DEF ConnInv, effects
<1>3. CASE ~(ref' # NoAttempt /\ p[ref'] \in {"connecting", "open"})
  <2>1. PICK a \in Attempt :
          /\ Spare(a)
          /\ phase' = [p EXCEPT ![a] = "token"]
          /\ latest' = a
          /\ SetStatus(IF retrying THEN "RECONNECTING" ELSE "CONNECTING")
    BY <1>3 DEF Connect
  <2>2. /\ status' \in {"CONNECTING", "RECONNECTING"}
        /\ watchdog' \in BOOLEAN /\ poller' \in BOOLEAN /\ polling' \in BOOLEAN
    BY <2>1, SetStatusKeeps
  <2>3. phase' \in [Attempt -> Phase] /\ phase'[a] = "token"
    BY <2>1 DEF Phase
  <2>4. \A b \in Attempt : phase'[b] \notin {"connecting", "open"}
    BY <1>1, <1>3, <2>1
  <2>5. OneSocket' /\ NeverStranded'
    BY <2>1, <2>3, <2>4 DEF OneSocket, NeverStranded
  <2>6. ShownInv'
    BY <2>2 DEF ShownInv, Shown
  <2> QED
    BY <2>1, <2>2, <2>3, <2>5, <2>6 DEF ConnInv
<1> QED
  BY <1>2, <1>3

\* A step that ends in scheduleReconnect, with wsRef's socket given up and no
\* other live.
LEMMA GiveUpKeeps ==
    ASSUME TypeOK, ScheduleReconnect, phase' \in [Attempt -> Phase],
           \A b \in Attempt : phase'[b] \notin {"connecting", "open"}
    PROVE  ConnInv'
<1>1. timer' = TRUE /\ status' = "RECONNECTING"
  BY ScheduleKeeps
<1> QED
  BY <1>1 DEF ConnInv, OneSocket, NeverStranded, ShownInv, Shown

\* Every step keeps the types and the invariant.
LEMMA ConnStep == TypeOK /\ ConnInv /\ [Next]_vars => TypeOK' /\ ConnInv'
<1> SUFFICES ASSUME TypeOK, ConnInv, [Next]_vars PROVE TypeOK' /\ ConnInv'
  OBVIOUS
<1> USE MarketConnectionAssumption
<1>1. OneSocket /\ NeverStranded /\ ShownInv
  BY DEF ConnInv
<1>2. ASSUME NEW a \in Attempt, TokenSettles(a) PROVE TypeOK' /\ ConnInv'
  <2>1. CASE /\ a # latest \/ IsOpen \/ Pending
             /\ phase' = [phase EXCEPT ![a] = "closed"]
             /\ UNCHANGED <<ref, timer, retrying, status, effects>>
    <3>1. phase[a] = "token" /\ UNCHANGED <<latest, frames, fresh, world>>
      BY <1>2 DEF TokenSettles
    <3>2. a # latest
      BY <1>1, <2>1, <3>1 DEF IsOpen, Pending, OneSocket, TypeOK
    <3>3. TypeOK'
      BY <2>1, <3>1 DEF TypeOK, Phase, effects, world, subscription
    <3>4. OneSocket'
      BY <1>1, <2>1, <3>1 DEF TypeOK, OneSocket
    <3>5. NeverStranded'
      BY <1>1, <2>1, <3>1, <3>2 DEF TypeOK, NeverStranded
    <3>6. ShownInv'
      BY <1>1, <2>1, <3>1, <3>2 DEF TypeOK, ShownInv, effects
    <3> QED
      BY <3>3, <3>4, <3>5, <3>6 DEF ConnInv
  <2>2. CASE /\ a = latest /\ ~IsOpen /\ ~Pending
             /\ phase' = [phase EXCEPT ![a] = "connecting"]
             /\ ref' = a
             /\ UNCHANGED <<timer, retrying, status, effects>>
    <3>1. phase[a] = "token" /\ UNCHANGED <<latest, frames, fresh, world>>
      BY <1>2 DEF TokenSettles
    <3>2. TypeOK'
      BY <2>2, <3>1 DEF TypeOK, Phase, effects, world, subscription
    <3>3. OneSocket'
      BY <1>1, <2>2, <3>1 DEF TypeOK, OneSocket, IsOpen, Pending
    <3>4. NeverStranded'
      BY <2>2, <3>1 DEF TypeOK, NeverStranded
    <3>5. ShownInv'
      BY <1>1, <2>2, <3>1 DEF TypeOK, ShownInv, effects
    <3> QED
      BY <3>2, <3>3, <3>4, <3>5 DEF ConnInv
  <2>3. CASE /\ a = latest /\ ~IsOpen /\ ~Pending
             /\ phase' = [phase EXCEPT ![a] = "closed"]
             /\ ref' = ref
             /\ ScheduleReconnect
    <3>1. UNCHANGED <<latest, frames, fresh, world>>
      BY <1>2 DEF TokenSettles
    <3>2. \A b \in Attempt : phase'[b] \notin {"connecting", "open"}
      BY <1>1, <2>3 DEF TypeOK, OneSocket, IsOpen, Pending
    <3>3. phase' \in [Attempt -> Phase]
      BY <2>3 DEF TypeOK, Phase
    <3>4. ConnInv'
      BY <2>3, <3>2, <3>3, GiveUpKeeps
    <3> QED
      BY <2>3, <3>1, <3>3, <3>4, ScheduleKeeps DEF TypeOK, world, subscription
  <2> QED
    BY <1>2, <2>1, <2>2, <2>3 DEF TokenSettles
<1>3. ASSUME NEW a \in Attempt, Opens(a) PROVE TypeOK' /\ ConnInv'
  <2>1. ref = a /\ latest = a /\ phase' = [phase EXCEPT ![a] = "open"] /\ ref' = ref
        /\ latest' = latest
    BY <1>1, <1>3 DEF Opens, OneSocket
  <2>2. retrying' = FALSE /\ fresh' = TRUE /\ SetStatus("CONNECTED")
        /\ told' = wanted
        /\ UNCHANGED <<timer, frames, wanted, visible, up>>
    BY <1>3, <2>1 DEF Opens, RestoreSubscriptions
  <2>3. phase[a] = "connecting" /\ status \notin Shown
    BY <1>1, <1>3, <2>1 DEF Opens, ShownInv
  <2>4. status' = "CONNECTED" /\ watchdog'
    BY <2>2, <2>3, SetStatusKeeps DEF Shown
  <2>5. TypeOK'
    BY <2>1, <2>2, SetStatusKeeps DEF TypeOK, Phase
  <2>6. OneSocket' /\ NeverStranded'
    BY <1>1, <2>1 DEF TypeOK, OneSocket, NeverStranded
  <2>7. ShownInv'
    BY <2>1, <2>4 DEF TypeOK, ShownInv
  <2> QED
    BY <2>5, <2>6, <2>7 DEF ConnInv
<1>4. ASSUME NEW a \in Attempt, Errs(a) PROVE TypeOK' /\ ConnInv'
  <2>1. ref = a /\ latest = a
    BY <1>1, <1>4 DEF Errs, OneSocket
  <2>2. /\ phase' = [phase EXCEPT ![a] = "closed"]
        /\ ref' = NoAttempt /\ ScheduleReconnect
        /\ UNCHANGED <<latest, frames, fresh, world>>
    BY <1>4, <2>1 DEF Errs
  <2>3. phase' \in [Attempt -> Phase]
    BY <2>2 DEF TypeOK, Phase
  <2>4. \A b \in Attempt : phase'[b] \notin {"connecting", "open"}
    BY <1>1, <2>1, <2>2 DEF TypeOK, OneSocket
  <2> QED
    BY <2>2, <2>3, <2>4, GiveUpKeeps, ScheduleKeeps DEF TypeOK, world, subscription
<1>5. ASSUME NEW a \in Attempt, PeerCloses(a) PROVE TypeOK' /\ ConnInv'
  <2>1. phase' = [phase EXCEPT ![a] = "dropped"] /\ phase[a] = "open"
        /\ UNCHANGED <<latest, ref, timer, frames, retrying, status, effects, fresh, world>>
    BY <1>5 DEF PeerCloses
  <2>2. TypeOK'
    BY <2>1 DEF TypeOK, Phase, effects, world, subscription
  <2>3. OneSocket' /\ NeverStranded'
    BY <1>1, <2>1 DEF TypeOK, OneSocket, NeverStranded
  <2>4. ShownInv'
    BY <1>1, <2>1 DEF TypeOK, ShownInv, effects
  <2> QED
    BY <2>2, <2>3, <2>4 DEF ConnInv
<1>6. ASSUME NEW a \in Attempt, CloseEvent(a) PROVE TypeOK' /\ ConnInv'
  <2>1. /\ phase[a] = "dropped"
        /\ phase' = [phase EXCEPT ![a] = "closed"]
        /\ UNCHANGED <<latest, frames, fresh, world>>
    BY <1>6 DEF CloseEvent
  <2>2. phase' \in [Attempt -> Phase]
    BY <2>1 DEF TypeOK, Phase
  <2>3. CASE latest = a /\ ref = a
    <3>1. ref' = NoAttempt /\ ScheduleReconnect
      BY <1>6, <2>3 DEF CloseEvent
    <3>2. \A b \in Attempt : phase'[b] \notin {"connecting", "open"}
      BY <1>1, <2>1, <2>3 DEF TypeOK, OneSocket
    <3> QED
      BY <2>1, <2>2, <3>1, <3>2, GiveUpKeeps, ScheduleKeeps DEF TypeOK, world, subscription
  <2>4. CASE ~(latest = a /\ ref = a)
    <3>1. UNCHANGED <<ref, timer, retrying, status, effects>>
      BY <1>6, <2>4 DEF CloseEvent
    <3>2. TypeOK'
      BY <2>1, <2>2, <3>1 DEF TypeOK, effects, world, subscription
    <3>3. OneSocket' /\ NeverStranded'
      BY <1>1, <2>1, <2>4, <3>1 DEF TypeOK, OneSocket, NeverStranded
    <3>4. ShownInv'
      BY <1>1, <2>1, <2>4, <3>1 DEF TypeOK, ShownInv, effects
    <3> QED
      BY <3>2, <3>3, <3>4 DEF ConnInv
  <2> QED
    BY <2>3, <2>4
<1>7. ASSUME NEW a \in Attempt, ConnectTimeout(a) PROVE TypeOK' /\ ConnInv'
  <2>1. ref = a
    BY <1>1, <1>7 DEF ConnectTimeout, OneSocket
  <2>2. /\ phase' = [phase EXCEPT ![a] = "doomed"]
        /\ ref' = NoAttempt /\ ScheduleReconnect
        /\ UNCHANGED <<latest, frames, fresh, world>>
    BY <1>7, <2>1 DEF ConnectTimeout
  <2>3. phase' \in [Attempt -> Phase]
    BY <2>2 DEF TypeOK, Phase
  <2>4. \A b \in Attempt : phase'[b] \notin {"connecting", "open"}
    BY <1>1, <2>1, <2>2 DEF TypeOK, OneSocket
  <2> QED
    BY <2>2, <2>3, <2>4, GiveUpKeeps, ScheduleKeeps DEF TypeOK, world, subscription
<1>8. ASSUME NEW a \in Attempt, DoomedEnds(a) PROVE TypeOK' /\ ConnInv'
  <2>1. phase' = [phase EXCEPT ![a] = "closed"] /\ phase[a] = "doomed"
        /\ UNCHANGED <<latest, ref, timer, frames, retrying, status, effects, fresh, world>>
    BY <1>8 DEF DoomedEnds
  <2>2. TypeOK'
    BY <2>1 DEF TypeOK, Phase, effects, world, subscription
  <2>3. OneSocket' /\ NeverStranded'
    BY <1>1, <2>1 DEF TypeOK, OneSocket, NeverStranded
  <2>4. ShownInv'
    BY <1>1, <2>1 DEF TypeOK, ShownInv, effects
  <2> QED
    BY <2>2, <2>3, <2>4 DEF ConnInv
<1>9. CASE Heartbeat
  <2>1. /\ ref # NoAttempt /\ phase[ref] = "open" /\ latest = ref
        /\ fresh' = TRUE /\ SetStatus("CONNECTED")
        /\ UNCHANGED <<phase, ref, latest, timer, frames, retrying, world>>
    BY <1>9 DEF Heartbeat, IsOpen
  <2>2. status' = "CONNECTED" /\ watchdog' \in BOOLEAN
    BY <2>1, SetStatusKeeps
  <2>3. watchdog'
    <3>1. CASE status = "CONNECTED"
      BY <1>1, <2>1, <3>1, SetStatusKeeps DEF ShownInv, Shown
    <3>2. CASE status # "CONNECTED"
      BY <2>1, <3>2, SetStatusKeeps
    <3> QED
      BY <3>1, <3>2
  <2>4. TypeOK'
    BY <2>1, SetStatusKeeps DEF TypeOK, world, subscription
  <2>5. OneSocket' /\ NeverStranded' /\ ShownInv'
    BY <1>1, <2>1, <2>2, <2>3 DEF OneSocket, NeverStranded, ShownInv
  <2> QED
    BY <2>4, <2>5 DEF ConnInv
<1>10. CASE TimerFires
  <2>1. /\ frames' = frames + 1 /\ frames' \in 0..MaxFrames /\ frames' > 0
        /\ timer' = FALSE
        /\ UNCHANGED <<phase, latest, ref, retrying, status, effects, fresh, world>>
    BY <1>10 DEF TimerFires, TypeOK
  <2>2. UNCHANGED <<watchdog, poller, polling, wanted, told, visible, up>>
    BY <2>1 DEF effects, world, subscription
  <2>3. TypeOK'
    <3> USE DEF TypeOK
    <3>1. frames' \in 0..MaxFrames /\ timer' \in BOOLEAN
      BY <2>1
    <3> QED
      BY <2>1, <2>2, <3>1
  <2>4. OneSocket' /\ NeverStranded' /\ ShownInv'
    BY <1>1, <2>1 DEF OneSocket, NeverStranded, ShownInv, effects
  <2> QED
    BY <2>3, <2>4 DEF ConnInv
<1>11. CASE Frame
  <2>1. /\ frames' \in 0..MaxFrames /\ ref' = ref /\ Connect(phase)
        /\ UNCHANGED <<timer, retrying, fresh, world>>
    BY <1>11 DEF Frame, TypeOK
  <2>2. phase \in [Attempt -> Phase]
    BY DEF TypeOK
  <2> QED
    BY <2>1, <2>2, ConnectKeeps DEF TypeOK, world, subscription
<1>12. CASE WatchdogTick
  <2>1. /\ phase' = SafelyClosed /\ ref' = NoAttempt /\ ScheduleReconnect
        /\ UNCHANGED <<latest, frames, fresh, world>>
    BY <1>12 DEF WatchdogTick
  <2>2. phase' \in [Attempt -> Phase]
        /\ \A b \in Attempt : phase'[b] \notin {"connecting", "open"}
    BY <1>1, <2>1, SafelyClosedLeavesNone
  <2> QED
    BY <2>1, <2>2, GiveUpKeeps, ScheduleKeeps DEF TypeOK, world, subscription
<1>13. CASE PollTick \/ SnapshotFails
  <2>1. /\ polling' \in BOOLEAN
        /\ UNCHANGED <<phase, latest, ref, timer, frames, retrying, status, watchdog,
                       poller, fresh, world>>
    BY <1>13 DEF PollTick, SnapshotFails
  <2>2. TypeOK'
    BY <2>1 DEF TypeOK, world, subscription
  <2> QED
    BY <1>1, <2>1, <2>2 DEF ConnInv, OneSocket, NeverStranded, ShownInv
<1>14. CASE SnapshotArrives
  <2>1. /\ UNCHANGED <<phase, ref, latest, timer, frames, retrying, fresh, world>>
        /\ status' = IF IsOpen THEN "LIVE" ELSE "POLLING"
        /\ polling' \in BOOLEAN
        /\ IF status' = status THEN watchdog' = watchdog /\ poller' = poller
                               ELSE watchdog' = TRUE /\ poller' = TRUE
    BY <1>14 DEF SnapshotArrives, IsOpen
  <2>2. TypeOK'
    BY <2>1 DEF TypeOK, world, subscription
  <2>3. OneSocket' /\ NeverStranded'
    BY <1>1, <2>1 DEF OneSocket, NeverStranded
  <2>4. ShownInv'
    <3>1. CASE IsOpen
      <4>1. ref # NoAttempt /\ ref = latest /\ phase[ref] = "open"
        BY <1>1, <3>1 DEF IsOpen, OneSocket, TypeOK
      <4>2. watchdog'
        BY <1>1, <2>1, <3>1 DEF ShownInv, Shown
      <4> QED
        BY <2>1, <4>1, <4>2 DEF ShownInv
    <3>2. CASE ~IsOpen
      BY <2>1, <3>2 DEF ShownInv, Shown
    <3> QED
      BY <3>1, <3>2
  <2> QED
    BY <2>2, <2>3, <2>4 DEF ConnInv
<1>15. CASE AuthChanges
  <2>1. PICK a \in Attempt : /\ phase' = [SafelyClosed EXCEPT ![a] = "token"]
                             /\ latest' = a
    BY <1>15 DEF AuthChanges
  <2>2. /\ timer' = FALSE /\ ref' = NoAttempt
        /\ status' = IF retrying THEN "RECONNECTING" ELSE "CONNECTING"
        /\ watchdog' \in BOOLEAN /\ poller' \in BOOLEAN /\ polling' \in BOOLEAN
        /\ UNCHANGED <<frames, retrying, fresh, wanted, told, visible, up>>
    BY <1>15 DEF AuthChanges, TypeOK, subscription
  <2>3. /\ phase' \in [Attempt -> Phase] /\ phase'[a] = "token"
        /\ \A b \in Attempt : phase'[b] \notin {"connecting", "open"}
    BY <1>1, <2>1, SafelyClosedLeavesNone DEF Phase
  <2>4. TypeOK'
    BY <2>1, <2>2, <2>3 DEF TypeOK
  <2>5. OneSocket' /\ NeverStranded' /\ ShownInv'
    BY <2>1, <2>2, <2>3 DEF OneSocket, NeverStranded, ShownInv, Shown
  <2> QED
    BY <2>4, <2>5 DEF ConnInv
<1>16. CASE Show
  <2>1. UNCHANGED <<timer, frames, retrying, fresh, wanted, told, up>> /\ visible' \in BOOLEAN
    BY <1>16 DEF Show, subscription
  <2>2. CASE UNCHANGED <<phase, latest, ref, status, effects>>
    <3>1. TypeOK'
      BY <2>1, <2>2 DEF TypeOK, effects
    <3> QED
      BY <1>1, <2>1, <2>2, <3>1 DEF ConnInv, OneSocket, NeverStranded, ShownInv, effects
  <2>3. CASE ref' = NoAttempt /\ Connect(SafelyClosed)
    <3>1. SafelyClosed \in [Attempt -> Phase]
      BY <1>1, SafelyClosedLeavesNone
    <3> QED
      BY <2>1, <2>3, <3>1, ConnectKeeps DEF TypeOK
  <2>4. CASE ref' = ref /\ Connect(phase)
    <3>1. phase \in [Attempt -> Phase]
      BY DEF TypeOK
    <3> QED
      BY <2>1, <2>4, <3>1, ConnectKeeps DEF TypeOK
  <2> QED
    BY <1>16, <2>2, <2>3, <2>4 DEF Show
<1>17. CASE Hide \/ Silence \/ GatewayChanges \/ UNCHANGED vars
            \/ Subscribe \/ Unsubscribe \/ Flush
  <2>1. /\ UNCHANGED <<phase, latest, ref, timer, frames, retrying, status, effects>>
        /\ fresh' \in BOOLEAN /\ wanted' \in BOOLEAN /\ told' \in BOOLEAN
        /\ visible' \in BOOLEAN /\ up' \in BOOLEAN
    BY <1>17 DEF Hide, Silence, GatewayChanges, Subscribe, Unsubscribe, Flush,
                 connection, vars, effects, world, subscription, IsOpen, TypeOK
  <2>2. TypeOK'
    BY <2>1 DEF TypeOK, effects
  <2> QED
    BY <1>1, <2>1, <2>2 DEF ConnInv, OneSocket, NeverStranded, ShownInv, effects
<1> QED
  BY <1>2, <1>3, <1>4, <1>5, <1>6, <1>7, <1>8, <1>9, <1>10, <1>11, <1>12, <1>13,
     <1>14, <1>15, <1>16, <1>17 DEF Next

LEMMA ConnInvHolds == Spec => [](TypeOK /\ ConnInv)
<1>1. Init => TypeOK /\ ConnInv
  <2> SUFFICES ASSUME Init PROVE TypeOK /\ ConnInv
    OBVIOUS
  <2>1. PICK a \in Attempt :
          /\ phase = [b \in Attempt |-> IF b = a THEN "token" ELSE "none"]
          /\ latest = a
    BY DEF Init
  <2>2. phase \in [Attempt -> Phase] /\ phase[a] = "token"
    BY <2>1 DEF Phase
  <2>3. 0 \in 0..MaxFrames
    BY MarketConnectionAssumption
  <2>4. TypeOK
    BY <2>1, <2>2, <2>3 DEF Init, TypeOK
  <2>5. OneSocket /\ NeverStranded
    BY <2>1, MarketConnectionAssumption DEF OneSocket, NeverStranded
  <2>6. ShownInv
    BY DEF Init, ShownInv, Shown
  <2> QED
    BY <2>4, <2>5, <2>6 DEF ConnInv
<1> QED
  BY <1>1, ConnStep, PTL DEF Spec

\* Type correctness.
THEOREM ConnectionTypeCorrect == Spec => []TypeOK
  BY ConnInvHolds, PTL

\* One WebSocket per tab: connectWS's generations, its early return and
\* safeCloseSocket never leave a second one that could stay open.
THEOREM OneSocketPerTab == Spec => []OneSocket
  BY ConnInvHolds, PTL DEF ConnInv

\* No order of events leaves the tab without a connection and without anything
\* to come that would make one.
THEOREM ConnectionNeverStranded == Spec => []NeverStranded
  BY ConnInvHolds, PTL DEF ConnInv

\* A connection that is shown is watched for silence.
THEOREM ShownIsWatched == Spec => []ConnectedIsWatched
<1>1. ShownInv => ConnectedIsWatched
  BY DEF ShownInv, Shown, ConnectedIsWatched
<1> QED
  BY <1>1, ConnInvHolds, PTL DEF ConnInv

\* Only opening makes a socket open, and what is sent meanwhile follows wanted.
LEMMA SubscribedStep ==
    TypeOK /\ ConnInv /\ OpenIsSubscribed /\ [Next]_vars => OpenIsSubscribed'
<1> SUFFICES ASSUME TypeOK, ConnInv, OpenIsSubscribed, [Next]_vars PROVE OpenIsSubscribed'
  OBVIOUS
<1> USE MarketConnectionAssumption
<1>1. ASSUME NEW a \in Attempt, Opens(a) PROVE OpenIsSubscribed'
  <2>1. ref = a /\ latest = a
    BY <1>1 DEF ConnInv, Opens, OneSocket
  <2>2. told' = wanted /\ wanted' = wanted
    BY <1>1, <2>1 DEF Opens, RestoreSubscriptions
  <2> QED
    BY <2>2 DEF OpenIsSubscribed
<1>2. CASE Subscribe \/ Unsubscribe \/ Flush
  <2>1. IsOpen' = IsOpen
    BY <1>2 DEF Subscribe, Unsubscribe, Flush, connection, IsOpen
  <2> QED
    BY <1>2, <2>1 DEF TypeOK, OpenIsSubscribed, Subscribe, Unsubscribe, Flush
<1>3. ASSUME UNCHANGED <<wanted, told>>, IsOpen' => IsOpen PROVE OpenIsSubscribed'
  BY <1>3 DEF OpenIsSubscribed
<1>4. ASSUME NEW p \in [Attempt -> Phase],
             \/ p = phase /\ ref' = ref
             \/ p = SafelyClosed /\ ref' = NoAttempt,
             Connect(p), IsOpen'
      PROVE  IsOpen
  <2>1. ref' = ref /\ ref # NoAttempt /\ p = phase
    BY <1>4 DEF IsOpen
  <2>2. phase[ref] = "open"
    BY <1>4, <2>1 DEF Connect, IsOpen, TypeOK
  <2> QED
    BY <2>1, <2>2 DEF IsOpen
<1>5. SafelyClosed \in [Attempt -> Phase] /\ phase \in [Attempt -> Phase]
  BY SafelyClosedLeavesNone DEF ConnInv, TypeOK
<1>6. ASSUME NEW a \in Attempt, TokenSettles(a) PROVE OpenIsSubscribed'
  <2>1. UNCHANGED <<wanted, told>>
    BY <1>6 DEF TokenSettles, world, subscription
  <2>2. IsOpen' => IsOpen
    BY <1>6 DEF TokenSettles, TypeOK, IsOpen
  <2> QED
    BY <1>3, <2>1, <2>2
<1>7. ASSUME NEW a \in Attempt,
             \/ Errs(a) \/ PeerCloses(a) \/ CloseEvent(a)
             \/ ConnectTimeout(a) \/ DoomedEnds(a)
      PROVE  OpenIsSubscribed'
  <2>1. UNCHANGED <<wanted, told>>
    BY <1>7 DEF Errs, PeerCloses, CloseEvent, ConnectTimeout, DoomedEnds, world, subscription
  <2>2. IsOpen' => IsOpen
    BY <1>7 DEF Errs, PeerCloses, CloseEvent, ConnectTimeout, DoomedEnds, TypeOK, IsOpen
  <2> QED
    BY <1>3, <2>1, <2>2
<1>8. CASE Heartbeat \/ TimerFires \/ WatchdogTick \/ PollTick \/ SnapshotArrives
           \/ SnapshotFails \/ Hide \/ Silence \/ GatewayChanges \/ UNCHANGED vars
  <2>1. UNCHANGED <<wanted, told>>
    BY <1>8 DEF Heartbeat, TimerFires, WatchdogTick, PollTick, SnapshotArrives,
                SnapshotFails, Hide, Silence, GatewayChanges, vars, world, subscription
  <2>2. IsOpen' => IsOpen
    BY <1>8 DEF Heartbeat, TimerFires, WatchdogTick, PollTick, SnapshotArrives,
                SnapshotFails, Hide, Silence, GatewayChanges, vars, IsOpen
  <2> QED
    BY <1>3, <2>1, <2>2
<1>9. CASE Frame
  BY <1>3, <1>4, <1>5, <1>9 DEF Frame, world, subscription
<1>10. CASE AuthChanges
  BY <1>3, <1>10 DEF AuthChanges, subscription, IsOpen
<1>11. CASE Show
  <2>1. UNCHANGED <<wanted, told>>
    BY <1>11 DEF Show, subscription
  <2>2. IsOpen' => IsOpen
    BY <1>4, <1>5, <1>11 DEF Show
  <2> QED
    BY <1>3, <2>1, <2>2
<1> QED
  BY <1>1, <1>2, <1>6, <1>7, <1>8, <1>9, <1>10, <1>11 DEF Next

\* Subscribing, unsubscribing and the restoring onopen keep the gateway's set of
\* the open socket equal to what the page wants.
THEOREM OpenSocketSubscribed == Spec => []OpenIsSubscribed
<1>1. Init => OpenIsSubscribed
  BY MarketConnectionAssumption DEF Init, OpenIsSubscribed, IsOpen
<1> QED
  BY <1>1, SubscribedStep, ConnInvHolds, PTL DEF Spec
=============================================================================
