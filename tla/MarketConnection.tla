--------------------------- MODULE MarketConnection ---------------------------
(***************************************************************************)
(* How a browser tab keeps its WebSocket to the market data gateway        *)
(* (frontend/context/MarketGatewayContext.tsx): connectWS with its token   *)
(* request, the reconnect timer, the connect timeout, the heartbeat        *)
(* watchdog, the visibility handler, the fallback polling, and the effect  *)
(* that tears everything down and connects anew when isAuthenticated       *)
(* changes.  The provider wraps the whole page and is never unmounted.     *)
(* An attempt carries the generation it took from                          *)
(* connectionGenerationRef; only whether that is still the latest one is   *)
(* ever asked.  Handlers run one at a time; React commits a status set in  *)
(* one of them, with the effects that depend on it, before the next, and   *)
(* of several statuses set in one only the last.                           *)
(* The page's subscriptions are followed for one symbol: whether subRefsRef*)
(* counts a component that wants it, and what the gateway will hold of it  *)
(* for the open socket once it has read all that was sent (messages of a   *)
(* socket arrive in order, and its set of symbols is the socket's own).    *)
(***************************************************************************)
EXTENDS Integers, FiniteSets

CONSTANTS
    Attempt,       \* the connection attempts that may exist at once
    MaxFrames,     \* the animation frames that may be pending at once
    NoAttempt

ASSUME MarketConnectionAssumption ==
    /\ MaxFrames \in Nat \ {0}
    /\ NoAttempt \notin Attempt

VARIABLES
    phase,         \* where each attempt is
    latest,        \* the attempt of connectionGenerationRef's generation
    ref,           \* wsRef
    timer,         \* reconnectTimerRef is armed
    frames,        \* the frames requested by fired timers
    retrying,      \* reconnectAttemptRef > 0
    status,        \* connectionStatus
    watchdog,      \* the watchdog's interval runs
    poller,        \* the fallback polling's interval runs
    polling,       \* a snapshot request is in flight
    fresh,         \* lastHeartbeatRef is at most HEARTBEAT_STALE_MS old
    wanted,        \* subRefsRef has the symbol
    told,          \* the gateway has it in the set of the socket opened last
    visible,       \* the tab is in front
    up             \* the gateway accepts connections and sends heartbeats

vars == <<phase, latest, ref, timer, frames, retrying, status, watchdog, poller,
          polling, fresh, wanted, told, visible, up>>

effects == <<watchdog, poller, polling>>
subscription == <<wanted, told>>
world == <<subscription, visible, up>>

\* token: the token request is awaited; doomed: closed by the page while it was
\* connecting; dropped: the peer has closed, and the close event is still to
\* come; closed: its events are over, or ignored (_suppressReconnect).
Phase == {"none", "token", "connecting", "doomed", "open", "dropped", "closed"}

TypeOK ==
    /\ phase \in [Attempt -> Phase]
    /\ latest \in Attempt \cup {NoAttempt}
    /\ ref \in Attempt \cup {NoAttempt}
    /\ timer \in BOOLEAN
    /\ frames \in 0..MaxFrames
    /\ retrying \in BOOLEAN
    /\ status \in {"CONNECTING", "CONNECTED", "LIVE", "RECONNECTING", "POLLING"}
    /\ watchdog \in BOOLEAN
    /\ poller \in BOOLEAN
    /\ polling \in BOOLEAN
    /\ fresh \in BOOLEAN
    /\ wanted \in BOOLEAN
    /\ told \in BOOLEAN
    /\ visible \in BOOLEAN
    /\ up \in BOOLEAN

IsOpen == ref # NoAttempt /\ phase[ref] = "open"
Pending == ref # NoAttempt /\ phase[ref] = "connecting"

\* After the first commit: the page has connected, and all effects have run.
Init ==
    \E a \in Attempt :
        /\ phase = [b \in Attempt |-> IF b = a THEN "token" ELSE "none"]
        /\ latest = a
        /\ ref = NoAttempt
        /\ timer = FALSE
        /\ frames = 0
        /\ retrying = FALSE
        /\ status = "CONNECTING"
        /\ watchdog = TRUE
        /\ poller = TRUE
        /\ polling = TRUE
        /\ fresh = TRUE
        /\ wanted = FALSE
        /\ told = FALSE
        /\ visible = TRUE
        /\ up = TRUE

-----------------------------------------------------------------------------
(* What the handlers have in common *)

\* Slip: the effects do not depend on the status.
SetStatusOnly(s) == status' = s /\ UNCHANGED effects

\* setConnectionStatus.  A new status re-runs the effects of the watchdog and
\* of the fallback polling, which polls at once unless the socket is open.
SetStatus(s) ==
    /\ status' = s
    /\ IF s = status
         THEN UNCHANGED effects
         ELSE /\ watchdog' = TRUE
              /\ poller' = TRUE
              /\ polling' = (polling \/ ~IsOpen')

\* An attempt that nothing refers to any more
Spare(a) == a # ref /\ a # latest /\ phase[a] \in {"none", "closed"}

\* Slip: a socket that is still connecting does not hold back a second one.
ConnectUnlessOpen(p) ==
    IF ref' # NoAttempt /\ p[ref'] = "open"
      THEN /\ phase' = p
           /\ latest' = latest
           /\ status' = status
           /\ UNCHANGED effects
      ELSE \E a \in Attempt :
              /\ Spare(a)
              /\ phase' = [p EXCEPT ![a] = "token"]
              /\ latest' = a
              /\ SetStatus(IF retrying THEN "RECONNECTING" ELSE "CONNECTING")

\* connectWS up to its await, when the attempts are in the phases p and wsRef
\* has been assigned
Connect(p) ==
    IF ref' # NoAttempt /\ p[ref'] \in {"connecting", "open"}
      THEN /\ phase' = p
           /\ latest' = latest
           /\ status' = status
           /\ UNCHANGED effects
      ELSE \E a \in Attempt :
              /\ Spare(a)
              /\ phase' = [p EXCEPT ![a] = "token"]
              /\ latest' = a
              /\ SetStatus(IF retrying THEN "RECONNECTING" ELSE "CONNECTING")

\* Slip: a reconnect that is under way is not scheduled again.
ScheduleFirstReconnect ==
    /\ timer' = (timer \/ ~retrying)
    /\ retrying' = TRUE
    /\ SetStatus("RECONNECTING")

\* scheduleReconnect: a timer already armed is replaced.
ScheduleReconnect ==
    /\ timer' = TRUE
    /\ retrying' = TRUE
    /\ SetStatus("RECONNECTING")

\* The phases after safeCloseSocket(wsRef.current)
SafelyClosed ==
    IF ref = NoAttempt THEN phase
    ELSE [phase EXCEPT ![ref] = IF @ = "connecting" THEN "doomed" ELSE "closed"]

-----------------------------------------------------------------------------
(* An attempt's own events *)

\* The token request of connectWS ends, with or without a token.
TokenSettles(a) ==
    /\ phase[a] = "token"
    /\ \/ /\ a # latest \/ IsOpen \/ Pending
          /\ phase' = [phase EXCEPT ![a] = "closed"]
          /\ UNCHANGED <<ref, timer, retrying, status, effects>>
       \/ /\ a = latest /\ ~IsOpen /\ ~Pending
          /\ phase' = [phase EXCEPT ![a] = "connecting"]
          /\ ref' = a
          /\ UNCHANGED <<timer, retrying, status, effects>>
       \/ /\ a = latest /\ ~IsOpen /\ ~Pending       \* new WebSocket throws
          /\ phase' = [phase EXCEPT ![a] = "closed"]
          /\ ref' = ref
          /\ ScheduleReconnect
          /\ ~up
    /\ UNCHANGED <<latest, frames, fresh, world>>

\* Slip: the page counts on the gateway to remember.
KeepSubscriptions == told' = told

\* onopen subscribes, as RESTORE_SUBSCRIPTIONS, to what subRefsRef has.
RestoreSubscriptions == told' = wanted

\* onopen
Opens(a) ==
    /\ phase[a] = "connecting"
    /\ up
    /\ phase' = [phase EXCEPT ![a] = "open"]
    /\ ref' = ref
    /\ IF latest = a /\ ref = a
         THEN /\ retrying' = FALSE
              /\ fresh' = TRUE
              /\ SetStatus("CONNECTED")
              /\ RestoreSubscriptions
         ELSE UNCHANGED <<retrying, fresh, status, effects, told>>
    /\ UNCHANGED <<latest, timer, frames, wanted, visible, up>>

\* onerror, and the close event after it, which is suppressed
Errs(a) ==
    /\ phase[a] \in {"connecting", "open"}
    /\ ~up
    /\ phase' = [phase EXCEPT ![a] = "closed"]
    /\ IF latest = a /\ ref = a
         THEN ref' = NoAttempt /\ ScheduleReconnect
         ELSE UNCHANGED <<ref, timer, retrying, status, effects>>
    /\ UNCHANGED <<latest, frames, fresh, world>>

\* The peer closes an open socket: readyState changes before the event.
PeerCloses(a) ==
    /\ phase[a] = "open"
    /\ ~up
    /\ phase' = [phase EXCEPT ![a] = "dropped"]
    /\ UNCHANGED <<latest, ref, timer, frames, retrying, status, effects, fresh, world>>

\* Slip: any generation's close event schedules a reconnect, but only the
\* latest one's is expected to leave wsRef behind.
CloseEventForgets(a) ==
    /\ phase[a] = "dropped"
    /\ phase' = [phase EXCEPT ![a] = "closed"]
    /\ ref' = IF ref = a THEN NoAttempt ELSE ref
    /\ UNCHANGED <<latest, timer, frames, retrying, status, effects, fresh, world>>

\* onclose of a socket the page did not close
CloseEvent(a) ==
    /\ phase[a] = "dropped"
    /\ phase' = [phase EXCEPT ![a] = "closed"]
    /\ IF latest = a /\ ref = a
         THEN ref' = NoAttempt /\ ScheduleReconnect
         ELSE UNCHANGED <<ref, timer, retrying, status, effects>>
    /\ UNCHANGED <<latest, frames, fresh, world>>

\* The 8 s of connectTimeout: the socket is closed as soon as it has opened.
ConnectTimeout(a) ==
    /\ phase[a] = "connecting"
    /\ latest = a
    /\ ~up
    /\ phase' = [phase EXCEPT ![a] = "doomed"]
    /\ ref' = IF ref = a THEN NoAttempt ELSE ref
    /\ ScheduleReconnect
    /\ UNCHANGED <<latest, frames, fresh, world>>

\* A socket closed while connecting opens and is closed, or fails: its onmessage,
\* onerror and onclose are gone.
DoomedEnds(a) ==
    /\ phase[a] = "doomed"
    /\ phase' = [phase EXCEPT ![a] = "closed"]
    /\ UNCHANGED <<latest, ref, timer, frames, retrying, status, effects, fresh, world>>

\* A heartbeat
Heartbeat ==
    /\ IsOpen /\ latest = ref
    /\ up
    /\ fresh' = TRUE
    /\ UNCHANGED ref /\ UNCHANGED phase
    /\ SetStatus("CONNECTED")
    /\ UNCHANGED <<latest, timer, frames, retrying, world>>

-----------------------------------------------------------------------------
(* Subscriptions *)

connection == <<phase, latest, ref, timer, frames, retrying, status, effects, fresh,
                visible, up>>

\* subscribe, by the first component or with a new reason
Subscribe ==
    /\ wanted' = TRUE
    /\ told' = (told \/ IsOpen)
    /\ UNCHANGED connection

\* unsubscribe, by the last component with the last reason
Unsubscribe ==
    /\ wanted
    /\ wanted' = FALSE
    /\ told' = (told /\ ~IsOpen)
    /\ UNCHANGED connection

\* flushSubscriptionUpdates, 400 ms after a change or later
Flush ==
    /\ IsOpen
    /\ told' = (told \/ wanted)
    /\ UNCHANGED <<connection, wanted>>

-----------------------------------------------------------------------------
(* Timers and effects *)

\* The timer's callback leaves the rest to an animation frame.
TimerFires ==
    /\ timer
    /\ frames < MaxFrames
    /\ timer' = FALSE
    /\ frames' = frames + 1
    /\ UNCHANGED <<phase, latest, ref, retrying, status, effects, fresh, world>>

\* A hidden tab gets no frames.
Frame ==
    /\ frames > 0
    /\ visible
    /\ frames' = frames - 1
    /\ ref' = ref
    /\ Connect(phase)
    /\ UNCHANGED <<timer, retrying, fresh, world>>

\* The watchdog's tick; STALE gives way to scheduleReconnect's status.
WatchdogTick ==
    /\ watchdog
    /\ ~fresh
    /\ status \in {"CONNECTED", "LIVE"}
    /\ phase' = SafelyClosed
    /\ ref' = NoAttempt
    /\ ScheduleReconnect
    /\ UNCHANGED <<latest, frames, fresh, world>>

PollTick ==
    /\ poller
    /\ ~IsOpen
    /\ polling' = TRUE
    /\ UNCHANGED <<phase, latest, ref, timer, frames, retrying, status, watchdog,
                   poller, fresh, world>>

\* A snapshot with quotes arrives; whoever shares the request goes on with it.
SnapshotArrives ==
    /\ polling
    /\ ref' = ref /\ phase' = phase
    /\ LET s == IF IsOpen THEN "LIVE" ELSE "POLLING"
       IN  /\ status' = s
           /\ IF s = status
                THEN UNCHANGED <<watchdog, poller>> /\ polling' = FALSE
                ELSE watchdog' = TRUE /\ poller' = TRUE /\ polling' = ~IsOpen
    /\ UNCHANGED <<latest, timer, frames, retrying, fresh, world>>

SnapshotFails ==
    /\ polling
    /\ polling' = FALSE
    /\ UNCHANGED <<phase, latest, ref, timer, frames, retrying, status, watchdog,
                   poller, fresh, world>>

\* The clean-up of the lifecycle effect, and the effect again: isAuthenticated
\* is among what connect depends on, but not the other two effects, whose
\* intervals the clean-up clears.
AuthChanges ==
    /\ timer' = FALSE
    /\ ref' = NoAttempt
    /\ \E a \in Attempt :
          /\ Spare(a)
          /\ phase' = [SafelyClosed EXCEPT ![a] = "token"]
          /\ latest' = a
    /\ LET s == IF retrying THEN "RECONNECTING" ELSE "CONNECTING"
       IN  /\ status' = s
           /\ watchdog' = (s # status)
           /\ poller' = (s # status)
           /\ polling' = (polling \/ s # status)
    /\ UNCHANGED <<frames, retrying, fresh, subscription, visible, up>>

Hide ==
    /\ visible
    /\ visible' = FALSE
    /\ UNCHANGED <<phase, latest, ref, timer, frames, retrying, status, effects,
                   fresh, subscription, up>>

\* handleVisibilityChange: connect if no socket is open, replace a silent one
Show ==
    /\ ~visible
    /\ visible' = TRUE
    /\ \/ IsOpen /\ fresh /\ UNCHANGED <<phase, latest, ref, status, effects>>
       \/ IsOpen /\ ~fresh /\ ref' = NoAttempt /\ Connect(SafelyClosed)
       \/ ~IsOpen /\ ref' = ref /\ Connect(phase)
    /\ UNCHANGED <<timer, frames, retrying, fresh, subscription, up>>

\* More than HEARTBEAT_STALE_MS without a message
Silence ==
    /\ fresh
    /\ ~(up /\ IsOpen)
    /\ fresh' = FALSE
    /\ UNCHANGED <<phase, latest, ref, timer, frames, retrying, status, effects, world>>

GatewayChanges ==
    /\ up' = ~up
    /\ UNCHANGED <<phase, latest, ref, timer, frames, retrying, status, effects,
                   fresh, subscription, visible>>

Next ==
    \/ \E a \in Attempt : TokenSettles(a)
    \/ \E a \in Attempt : Opens(a)
    \/ \E a \in Attempt : Errs(a)
    \/ \E a \in Attempt : PeerCloses(a)
    \/ \E a \in Attempt : CloseEvent(a)
    \/ \E a \in Attempt : ConnectTimeout(a)
    \/ \E a \in Attempt : DoomedEnds(a)
    \/ Heartbeat
    \/ Subscribe
    \/ Unsubscribe
    \/ Flush
    \/ TimerFires
    \/ Frame
    \/ WatchdogTick
    \/ PollTick
    \/ SnapshotArrives
    \/ SnapshotFails
    \/ AuthChanges
    \/ Hide
    \/ Show
    \/ Silence
    \/ GatewayChanges

\* Timers fire and frames come while the tab is visible; strong fairness where
\* the model has no spare attempt or frame.  The token request ends, as does the
\* opening of a socket, within the connect timeout at the latest.
Fairness ==
    /\ \A a \in Attempt :
          /\ WF_vars(TokenSettles(a))
          /\ WF_vars(Opens(a) \/ Errs(a) \/ ConnectTimeout(a))
          /\ WF_vars(CloseEvent(a))
          /\ WF_vars(DoomedEnds(a))
    /\ WF_vars(Heartbeat)
    /\ SF_vars(TimerFires)
    /\ SF_vars(Frame)
    /\ WF_vars(WatchdogTick)
    /\ WF_vars(PollTick)
    /\ WF_vars(SnapshotArrives \/ SnapshotFails)

Spec == Init /\ [][Next]_vars /\ Fairness

-----------------------------------------------------------------------------
(* Properties *)

\* "a single, resilient WebSocket connection per browser tab" (line 6): every
\* socket that may stay open is wsRef's and of the latest generation, so there
\* is one, and its handlers do act.
OneSocket ==
    \A a \in Attempt :
        phase[a] \in {"connecting", "open"} => ref = a /\ latest = a

\* Some event of the page's own is always to come that goes on with the
\* connection: it is never given up, whichever handlers close sockets, replace
\* timers and take generations.
NeverStranded ==
    \/ timer
    \/ frames > 0
    \/ latest # NoAttempt /\ phase[latest] = "token"
    \/ /\ ref # NoAttempt
       /\ ref = latest
       /\ phase[ref] \in {"connecting", "open", "dropped"}

\* What the page shows as connected is watched: the watchdog's interval, which
\* the lifecycle effect clears and does not set, runs again by then.
ConnectedIsWatched ==
    status \in {"CONNECTED", "LIVE"} => watchdog /\ ref # NoAttempt

\* "Automatic resubscription on reconnect" (line 13): whatever components come
\* and go while there is no socket, an open one carries just what they want, so
\* no price stops and none is sent for nothing.
OpenIsSubscribed == IsOpen => (told <=> wanted)

\* Once the gateway stays up, the tab in front and the login as it is, the
\* socket is open for good.
Reconnects ==
    (<>[](up /\ visible) /\ <>[][~AuthChanges]_vars) => <>[]IsOpen

\* "Automatic HTTP quote polling fallback during temporary WS reconnections"
\* (line 11): without an open socket polling runs or will again, once the login
\* changes no more and the tab stays in front.
FallbackRuns ==
    (<>[]visible /\ <>[][~AuthChanges]_vars) => []<>(IsOpen \/ poller)
=============================================================================
