-------------------------- MODULE FeedSubscriptions --------------------------
(***************************************************************************)
(* What becomes of subscriptions inside the market data gateway: the       *)
(* registry that counts them by reason and source                          *)
(* (market_data_gateway/subscription_registry.py), the coroutines its      *)
(* callbacks leave to the event loop (gateway.py), and the adapter that    *)
(* keeps the keys of one provider's socket (adapters/upstox_ws.py).        *)
(* A registry call is one step, because its lock covers it.  A coroutine   *)
(* runs without interruption up to the send lock, which it gets in turn;   *)
(* the adapter's books change in part before and in part after the send,   *)
(* and others run in between if the socket's buffer is full.               *)
(* The adapter is one of several: which of them a new symbol goes to is    *)
(* the failover manager's choice, by the state that every provider is in,  *)
(* and here any.  The turns of the other providers are taken to end at     *)
(* once.  Subscription modes are left out, since no callback for them is   *)
(* given, and so are the routes that call an adapter past the registry.    *)
(***************************************************************************)
EXTENDS Integers, Sequences, FiniteSets

CONSTANTS
    Symbol,        \* names as clients write them
    Name,          \* those, and what is left of them without a prefix
    Bare,          \* clean_sym of each symbol
    Key,           \* the provider's instrument keys
    NoKey,         \* None
    KeyOf,         \* resolve_instrument_key of each name
    Pinned,        \* PINNED_BENCHMARK_KEYS
    Reason,
    Client,        \* WebSocket clients; each connection has a fresh client_id
    NoSource,      \* source="" of the REST calls
    SendsAtOnce,   \* TRUE: no send is slow enough for a coroutine to overtake it
    MaxPending     \* bound: the coroutines, and the sends, that wait at once

ASSUME FeedAssumption ==
    /\ Symbol \subseteq Name
    /\ Bare \in [Symbol -> Name]
    /\ NoKey \notin Key
    /\ KeyOf \in [Name -> Key \cup {NoKey}]
    /\ Pinned \subseteq Key
    /\ NoSource \notin Client
    /\ SendsAtOnce \in BOOLEAN
    /\ MaxPending \in Nat

VARIABLES
    subs,          \* _subscriptions: who wants what, and why
    clients,       \* the clients that are connected
    timers,        \* _debounce_timers
    tasks,         \* coroutines that have not begun
    names,         \* _subscribed_symbols
    keys,          \* _subscribed_keys
    active,        \* _active_socket_keys
    connected,     \* is_connected
    sends,         \* messages at the send lock, the first of them under way
    fed,           \* what the provider streams on the present socket
    routed         \* history: the symbols that the adapter was chosen for when
                   \* they were last new

vars == <<subs, clients, timers, tasks, names, keys, active, connected, sends, fed, routed>>

registry == <<subs, clients, timers>>
socket == <<active, connected, sends, fed>>
adapter == <<names, keys, socket, routed>>

Source == Client \cup {NoSource}
Entry == [sym : Symbol, reason : Reason, source : Source]
Task == [op : {"add", "remove"}, syms : SUBSET Symbol]
Message == [op : {"sub", "unsub"}, keys : SUBSET Key]

TypeOK ==
    /\ subs \subseteq Entry
    /\ clients \subseteq Client
    /\ timers \subseteq Client
    /\ tasks \in Seq(Task)
    /\ names \subseteq Name
    /\ keys \subseteq Key
    /\ active \subseteq Key
    /\ connected \in BOOLEAN
    /\ sends \in Seq(Message)
    /\ fed \subseteq Key
    /\ routed \subseteq Symbol

Init ==
    /\ subs = {}
    /\ clients = {}
    /\ timers = {}
    /\ tasks = <<>>
    /\ names = {}
    /\ keys = Pinned
    /\ active = {}
    /\ connected = FALSE
    /\ sends = <<>>
    /\ fed = {}
    /\ routed = {}

SymbolsOf(es) == {e.sym : e \in es}
KeysOf(ns) == {KeyOf[n] : n \in ns} \ {NoKey}
WithBare(syms) == syms \cup {Bare[s] : s \in syms}
Wanted == SymbolsOf(subs)

-----------------------------------------------------------------------------
(* The registry *)

\* The symbols that are nobody's any more, handed over to be unsubscribed
Forget(es) ==
    LET gone == SymbolsOf(es) \ SymbolsOf(subs \ es)
    IN  /\ subs' = subs \ es
        /\ IF gone = {} THEN tasks' = tasks
           ELSE /\ Len(tasks) < MaxPending
                /\ tasks' = Append(tasks, [op |-> "remove", syms |-> gone])

\* subscribe: only a symbol that is new reaches the provider.
Subscribe(s, r, c) ==
    /\ c \in clients \cup {NoSource}
    /\ subs' = subs \cup {[sym |-> s, reason |-> r, source |-> c]}
    /\ timers' = timers \ {c}
    /\ IF s \in Wanted THEN tasks' = tasks
       ELSE /\ Len(tasks) < MaxPending
            /\ tasks' = Append(tasks, [op |-> "add", syms |-> {s}])
    /\ UNCHANGED <<clients, adapter>>

\* Slip: any reason's end is the symbol's.
ForgetSymbol(s, r, c) ==
    /\ c \in clients
    /\ [sym |-> s, reason |-> r, source |-> c] \in subs
    /\ subs' = subs \ {[sym |-> s, reason |-> r, source |-> c]}
    /\ Len(tasks) < MaxPending
    /\ tasks' = Append(tasks, [op |-> "remove", syms |-> {s}])
    /\ UNCHANGED <<clients, timers, adapter>>

\* unsubscribe, of a client's own entry
Unsubscribe(s, r, c) ==
    /\ c \in clients
    /\ [sym |-> s, reason |-> r, source |-> c] \in subs
    /\ Forget({[sym |-> s, reason |-> r, source |-> c]})
    /\ UNCHANGED <<clients, timers, adapter>>

\* unsubscribe of the REST call, which passes no source on: without an entry of
\* its own it takes every source's entry of that reason.
UnsubscribeUnnamed(s, r) ==
    LET own == [sym |-> s, reason |-> r, source |-> NoSource]
        all == {e \in subs : e.sym = s /\ e.reason = r}
    IN  /\ all # {}
        /\ Forget(IF own \in subs THEN {own} ELSE all)
        /\ UNCHANGED <<clients, timers, adapter>>

\* clear_reason.  The code leaves one coroutine for each symbol; nothing comes
\* between them in the loop's queue, and here they are one.
ClearReason(r) ==
    /\ \E e \in subs : e.reason = r
    /\ Forget({e \in subs : e.reason = r})
    /\ UNCHANGED <<clients, timers, adapter>>

Connect(c) ==
    /\ c \notin clients \cup timers
    /\ \A e \in subs : e.source # c
    /\ clients' = clients \cup {c}
    /\ UNCHANGED <<subs, timers, tasks, adapter>>

\* The handler's finally: unsubscribe_all_for_source, with its debounce of 2.5 s
Disconnect(c) ==
    /\ c \in clients
    /\ clients' = clients \ {c}
    /\ timers' = timers \cup {c}
    /\ UNCHANGED <<subs, tasks, adapter>>

\* _execute_unsubscribe_all_for_source
DebounceEnds(c) ==
    /\ c \in timers
    /\ timers' = timers \ {c}
    /\ Forget({e \in subs : e.source = c})
    /\ UNCHANGED <<clients, adapter>>

-----------------------------------------------------------------------------
(* The adapter *)

MayBegin == IF SendsAtOnce THEN sends = <<>> ELSE Len(sends) < MaxPending

Sending(op, ks) ==
    sends' = IF connected /\ ks # {} THEN Append(sends, [op |-> op, keys |-> ks])
             ELSE sends

\* _on_new_subscription, when get_best_provider chooses another provider or none:
\* the adapter is told nothing, then or later.
PassedBy ==
    /\ tasks # <<>> /\ Head(tasks).op = "add"
    /\ tasks' = Tail(tasks)
    /\ routed' = routed \ Head(tasks).syms
    /\ UNCHANGED <<registry, names, keys, socket>>

\* _on_new_subscription, when the adapter is chosen: it subscribes to the symbol
\* and to its bare name, whatever state the socket is in.
AdapterSubscribes ==
    /\ tasks # <<>> /\ Head(tasks).op = "add"
    /\ MayBegin
    /\ tasks' = Tail(tasks)
    /\ routed' = routed \cup Head(tasks).syms
    /\ LET both == WithBare(Head(tasks).syms)
       IN  /\ names' = names \cup both
           /\ keys' = keys \cup KeysOf(both)
           /\ Sending("sub", KeysOf(both) \ active)
    /\ UNCHANGED <<registry, active, connected, fed>>

\* Slip: the key is struck off only when the message has gone.
AdapterUnsubscribesLate ==
    /\ tasks # <<>> /\ Head(tasks).op = "remove"
    /\ MayBegin
    /\ tasks' = Tail(tasks)
    /\ LET matching == Head(tasks).syms \cap names
           ks == KeysOf(matching) \ Pinned
       IN  /\ names' = names \ matching
           /\ keys' = keys \ ks
           /\ Sending("unsub", ks \cap active)
    /\ UNCHANGED <<registry, active, connected, fed, routed>>

\* _on_remove_subscription or _on_batch_remove_subscription: of the symbols, not
\* of their bare names, and of those only that the adapter has.
AdapterUnsubscribes ==
    /\ tasks # <<>> /\ Head(tasks).op = "remove"
    /\ MayBegin
    /\ tasks' = Tail(tasks)
    /\ LET matching == Head(tasks).syms \cap names
           ks == KeysOf(matching) \ Pinned
       IN  /\ names' = names \ matching
           /\ keys' = keys \ ks
           /\ active' = active \ ks
           /\ Sending("unsub", ks \cap active)
    /\ UNCHANGED <<registry, connected, fed, routed>>

\* The first of the sends has gone out; on a socket that is gone it is dropped.
SendEnds ==
    /\ sends # <<>>
    /\ sends' = Tail(sends)
    /\ IF connected
         THEN /\ fed' = IF Head(sends).op = "sub" THEN fed \cup Head(sends).keys
                        ELSE fed \ Head(sends).keys
              /\ active' = IF Head(sends).op = "sub" THEN active \cup Head(sends).keys
                           ELSE active
         ELSE UNCHANGED <<fed, active>>
    /\ UNCHANGED <<registry, tasks, names, keys, connected, routed>>

\* _ws_loop gets a new socket, at least one authorisation request after the old
\* one: by then the sends have failed.  It asks for all the keys.
SocketOpens ==
    /\ ~connected
    /\ sends = <<>>
    /\ connected' = TRUE
    /\ active' = {}
    /\ fed' = {}
    /\ sends' = IF keys = {} THEN <<>> ELSE <<[op |-> "sub", keys |-> keys]>>
    /\ UNCHANGED <<registry, tasks, names, keys, routed>>

\* An error strikes off the active keys at once, an orderly close does not.
SocketCloses ==
    /\ connected
    /\ connected' = FALSE
    /\ active' \in {active, {}}
    /\ fed' = {}
    /\ UNCHANGED <<registry, tasks, names, keys, sends, routed>>

Next ==
    \/ \E s \in Symbol, r \in Reason, c \in Source : Subscribe(s, r, c)
    \/ \E s \in Symbol, r \in Reason, c \in Client : Unsubscribe(s, r, c)
    \/ \E s \in Symbol, r \in Reason : UnsubscribeUnnamed(s, r)
    \/ \E r \in Reason : ClearReason(r)
    \/ \E c \in Client : Connect(c)
    \/ \E c \in Client : Disconnect(c)
    \/ \E c \in Client : DebounceEnds(c)
    \/ PassedBy
    \/ AdapterSubscribes
    \/ AdapterUnsubscribes
    \/ SendEnds
    \/ SocketOpens
    \/ SocketCloses

\* The event loop runs what it has, and a send ends.
Fairness ==
    /\ WF_vars(PassedBy \/ AdapterSubscribes \/ AdapterUnsubscribes)
    /\ WF_vars(SendEnds)

Spec == Init /\ [][Next]_vars /\ Fairness

-----------------------------------------------------------------------------
(* Properties *)

Settled == connected /\ tasks = <<>> /\ sends = <<>>

\* The keys of the symbols that somebody wants and the adapter was chosen for
Due == KeysOf(WithBare(Wanted \cap routed))

\* "Supports per-source subscription keys to prevent cross-client clobbering"
\* (subscription_registry.py:59): whoever else comes and goes, once everything
\* has been sent the provider streams each symbol that somebody wants of it.  It
\* does if no two symbols are names of one key and sends are not overtaken.
WantedIsFed == Settled => Due \subseteq fed

\* More than that: once everything has been sent the provider streams those
\* symbols and the pinned benchmarks, and nothing that nobody wants any more
\* (gateway.py:523-549).
FeedIsWanted ==
    Settled => /\ Pinned \cup Due \subseteq fed
               /\ fed \subseteq Pinned \cup KeysOf(WithBare(Wanted))

\* Whatever becomes of the sends, the adapter that has no task left subscribes
\* to the benchmarks and to what is wanted of it, and to nothing that nobody
\* wants.
KeysAreWanted ==
    tasks = <<>> => /\ Pinned \cup Due \subseteq keys
                    /\ keys \subseteq Pinned \cup KeysOf(WithBare(Wanted))

\* False as the code stands, and no run's: that every wanted symbol the provider
\* has a key for is streamed by it, as when it is the only provider of its
\* symbols.  One that was new while no provider would do is given to none later
\* (gateway.py:523).
AllWantedIsFed == Settled => KeysOf(Wanted) \subseteq fed

\* Once everything has been sent, _active_socket_keys is what the provider
\* streams, though it changes before one kind of message and after the other:
\* a key it had in excess would never be asked for again, one that it missed
\* never be given back.
BooksMatchFeed == Settled => active = fed
=============================================================================
