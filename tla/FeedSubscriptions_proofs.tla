----------------------- MODULE FeedSubscriptions_proofs -----------------------
(***************************************************************************)
(* Proofs about the gateway's subscriptions, for any number of symbols,    *)
(* keys, reasons and clients, and any length of the queues.                *)
(***************************************************************************)
EXTENDS FeedSubscriptions, TLAPS

\* No two symbols are names of one instrument.
KeysApart == \A s, t \in Symbol : KeyOf[s] = KeyOf[t] /\ KeyOf[s] # NoKey => s = t

\* A symbol's bare name is of the same instrument, if of any.
NamesAgree == \A s \in Symbol : KeyOf[Bare[s]] \in {NoKey, KeyOf[s]}

\* What names have keys of
LEMMA KeysOfNames ==
    ASSUME NEW ns \in SUBSET Name
    PROVE  KeysOf(ns) \subseteq Key
BY FeedAssumption DEF KeysOf

\* The bare names of symbols are names.
LEMMA BareNames ==
    ASSUME NEW syms \in SUBSET Symbol
    PROVE  syms \subseteq Name /\ WithBare(syms) \subseteq Name
BY FeedAssumption DEF WithBare

\* If they agree with the symbols, their keys are no others.
LEMMA BareKeys ==
    ASSUME NamesAgree, NEW syms \in SUBSET Symbol
    PROVE  KeysOf(WithBare(syms)) = KeysOf(syms)
BY DEF NamesAgree, KeysOf, WithBare

-----------------------------------------------------------------------------
(* Types *)

\* Whatever Forget takes away, it hands over symbols.
LEMMA ForgetType ==
    ASSUME TypeOK, NEW es \in SUBSET subs, Forget(es)
    PROVE  subs' \subseteq Entry /\ tasks' \in Seq(Task)
<1> DEFINE gone == SymbolsOf(es) \ SymbolsOf(subs \ es)
           task == [op |-> "remove", syms |-> gone]
<1>1. gone \subseteq Symbol
  BY DEF TypeOK, Entry, SymbolsOf
<1>2. task \in Task
  BY <1>1 DEF Task
<1>3. subs' = subs \ es /\ (tasks' = tasks \/ tasks' = Append(tasks, task))
  BY DEF Forget
<1> HIDE DEF task
<1> QED
  BY <1>2, <1>3 DEF TypeOK

\* What is queued for sending are messages about keys.
LEMMA SendingType ==
    ASSUME TypeOK, NEW op \in {"sub", "unsub"}, NEW ks \in SUBSET Key, Sending(op, ks)
    PROVE  sends' \in Seq(Message)
<1>1. [op |-> op, keys |-> ks] \in Message
  BY DEF Message
<1> QED
  BY <1>1 DEF TypeOK, Sending

\* The keys of a task's symbols, and the queue without it
LEMMA HeadType ==
    ASSUME TypeOK, tasks # <<>>
    PROVE  /\ Head(tasks).syms \subseteq Symbol
           /\ WithBare(Head(tasks).syms) \subseteq Name
           /\ KeysOf(WithBare(Head(tasks).syms)) \subseteq Key
           /\ KeysOf(Head(tasks).syms \cap names) \subseteq Key
           /\ Tail(tasks) \in Seq(Task)
<1>1. Head(tasks) \in Task /\ Tail(tasks) \in Seq(Task)
  BY DEF TypeOK
<1>2. Head(tasks).syms \subseteq Symbol
  BY <1>1 DEF Task
<1>3. Head(tasks).syms \subseteq Name /\ WithBare(Head(tasks).syms) \subseteq Name
  BY <1>2, BareNames
<1>4. Head(tasks).syms \cap names \subseteq Name
  BY <1>3
<1> QED
  BY <1>1, <1>2, <1>3, <1>4, KeysOfNames

LEMMA TypeStep == TypeOK /\ [Next]_vars => TypeOK'
<1> SUFFICES ASSUME TypeOK, [Next]_vars PROVE TypeOK'
  OBVIOUS
<1> USE FeedAssumption
<1>1. ASSUME NEW s \in Symbol, NEW r \in Reason, NEW c \in Source, Subscribe(s, r, c)
      PROVE  TypeOK'
  <2>1. [sym |-> s, reason |-> r, source |-> c] \in Entry
    BY DEF Entry
  <2>2. [op |-> "add", syms |-> {s}] \in Task
    BY DEF Task
  <2>3. subs' \subseteq Entry
    BY <1>1, <2>1 DEF TypeOK, Subscribe
  <2>4. tasks' \in Seq(Task)
    BY <1>1, <2>2 DEF TypeOK, Subscribe
  <2> QED
    BY <1>1, <2>3, <2>4 DEF TypeOK, Subscribe, adapter, socket
<1>2. ASSUME NEW es \in SUBSET subs, Forget(es), timers' \subseteq Client,
             UNCHANGED <<clients, adapter>>
      PROVE  TypeOK'
  BY <1>2, ForgetType DEF TypeOK, adapter, socket
<1>3. ASSUME NEW s \in Symbol, NEW r \in Reason, NEW c \in Client, Unsubscribe(s, r, c)
      PROVE  TypeOK'
  BY <1>2, <1>3 DEF TypeOK, Unsubscribe
<1>4. ASSUME NEW s \in Symbol, NEW r \in Reason, UnsubscribeUnnamed(s, r) PROVE TypeOK'
  <2> DEFINE own == [sym |-> s, reason |-> r, source |-> NoSource]
             all == {e \in subs : e.sym = s /\ e.reason = r}
             es == IF own \in subs THEN {own} ELSE all
  <2>1. es \in SUBSET subs
    OBVIOUS
  <2>2. Forget(es) /\ timers' \subseteq Client /\ UNCHANGED <<clients, adapter>>
    BY <1>4 DEF UnsubscribeUnnamed, TypeOK
  <2> HIDE DEF es
  <2> QED
    BY <1>2, <2>1, <2>2
<1>5. ASSUME NEW r \in Reason, ClearReason(r) PROVE TypeOK'
  BY <1>2, <1>5 DEF TypeOK, ClearReason
<1>6. ASSUME NEW c \in Client, Connect(c) \/ Disconnect(c) PROVE TypeOK'
  BY <1>6 DEF TypeOK, Connect, Disconnect, adapter, socket
<1>7. ASSUME NEW c \in Client, DebounceEnds(c) PROVE TypeOK'
  BY <1>2, <1>7 DEF TypeOK, DebounceEnds
<1>8. CASE AdapterSubscribes
  <2> DEFINE both == WithBare(Head(tasks).syms)
  <2>1. /\ tasks # <<>> /\ tasks' = Tail(tasks)
        /\ routed' = routed \cup Head(tasks).syms
        /\ names' = names \cup both
        /\ keys' = keys \cup KeysOf(both)
        /\ Sending("sub", KeysOf(both) \ active)
    BY <1>8 DEF AdapterSubscribes
  <2>2. /\ Head(tasks).syms \subseteq Symbol
        /\ both \subseteq Name
        /\ KeysOf(both) \subseteq Key
        /\ tasks' \in Seq(Task)
    BY <2>1, HeadType
  <2> HIDE DEF both
  <2>3. sends' \in Seq(Message)
    <3> DEFINE ks == KeysOf(both) \ active
    <3>1. ks \in SUBSET Key /\ Sending("sub", ks)
      BY <2>1, <2>2
    <3> HIDE DEF ks
    <3> QED
      BY <3>1, SendingType
  <2> QED
    BY <1>8, <2>1, <2>2, <2>3 DEF TypeOK, AdapterSubscribes, registry
<1>9. CASE AdapterUnsubscribes
  <2> DEFINE matching == Head(tasks).syms \cap names
             ks == KeysOf(matching) \ Pinned
  <2>1. /\ tasks # <<>> /\ tasks' = Tail(tasks)
        /\ names' = names \ matching
        /\ keys' = keys \ ks
        /\ active' = active \ ks
        /\ Sending("unsub", ks \cap active)
    BY <1>9 DEF AdapterUnsubscribes
  <2>2. ks \subseteq Key /\ tasks' \in Seq(Task)
    BY <2>1, HeadType
  <2> HIDE DEF matching, ks
  <2>3. sends' \in Seq(Message)
    <3> DEFINE gone == ks \cap active
    <3>1. gone \in SUBSET Key /\ Sending("unsub", gone)
      BY <2>1, <2>2
    <3> HIDE DEF gone
    <3> QED
      BY <3>1, SendingType
  <2> QED
    BY <1>9, <2>1, <2>2, <2>3 DEF TypeOK, AdapterUnsubscribes, registry
<1>14. CASE PassedBy
  <2>1. tasks' \in Seq(Task)
    BY <1>14, HeadType DEF PassedBy
  <2> QED
    BY <1>14, <2>1 DEF TypeOK, PassedBy, registry, socket
<1>10. CASE SendEnds
  <2>1. Head(sends) \in Message /\ sends' \in Seq(Message)
    BY <1>10 DEF TypeOK, SendEnds
  <2>2. fed' \subseteq Key /\ active' \subseteq Key
    BY <1>10, <2>1 DEF TypeOK, SendEnds, Message
  <2> QED
    BY <1>10, <2>1, <2>2 DEF TypeOK, SendEnds, registry
<1>11. CASE SocketOpens
  <2>1. [op |-> "sub", keys |-> keys] \in Message
    BY DEF TypeOK, Message
  <2>2. sends' \in Seq(Message)
    BY <1>11, <2>1 DEF SocketOpens
  <2> QED
    BY <1>11, <2>2 DEF TypeOK, SocketOpens, registry
<1>12. CASE SocketCloses
  BY <1>12 DEF TypeOK, SocketCloses, registry
<1>13. CASE UNCHANGED vars
  BY <1>13 DEF TypeOK, vars
<1> QED
  BY <1>1, <1>3, <1>4, <1>5, <1>6, <1>7, <1>8, <1>9, <1>10, <1>11, <1>12, <1>13, <1>14 DEF Next

\* Type correctness.
THEOREM FeedTypeCorrect == Spec => []TypeOK
<1>1. Init => TypeOK
  <2>1. <<>> \in Seq(Task) /\ <<>> \in Seq(Message)
    OBVIOUS
  <2> QED
    BY <2>1, FeedAssumption DEF Init, TypeOK
<1> QED
  BY <1>1, TypeStep, PTL DEF Spec

-----------------------------------------------------------------------------
(* The adapter's books *)

\* With the one message that may be under way, the active keys are what the
\* provider streams, and every subscribed key is active or being asked for.
BooksInv ==
    /\ sends = <<>> \/ Len(sends) = 1
    /\ connected =>
        /\ sends = <<>> => active = fed /\ keys \subseteq active
        /\ sends # <<>> /\ sends[1].op = "sub" =>
              active = fed /\ keys \subseteq active \cup sends[1].keys
        /\ sends # <<>> /\ sends[1].op = "unsub" =>
              /\ fed = active \cup sends[1].keys
              /\ active \cap sends[1].keys = {}
              /\ keys \subseteq active

LEMMA BooksStep ==
    ASSUME SendsAtOnce
    PROVE  TypeOK /\ BooksInv /\ [Next]_vars => BooksInv'
<1> SUFFICES ASSUME TypeOK, BooksInv, [Next]_vars PROVE BooksInv'
  OBVIOUS
<1>1. CASE UNCHANGED <<keys, socket>>
  BY <1>1 DEF BooksInv, socket
<1>2. CASE AdapterSubscribes
  <2> DEFINE ks == KeysOf(WithBare(Head(tasks).syms))
  <2>1. /\ sends = <<>>
        /\ keys' = keys \cup ks /\ active' = active /\ fed' = fed
        /\ connected' = connected
        /\ sends' = IF connected /\ ks \ active # {}
                      THEN Append(sends, [op |-> "sub", keys |-> ks \ active]) ELSE sends
    BY <1>2 DEF AdapterSubscribes, MayBegin, Sending
  <2> HIDE DEF ks
  <2>2. CASE connected /\ ks \ active # {}
    <3>1. sends' = <<[op |-> "sub", keys |-> ks \ active]>>
      BY <2>1, <2>2
    <3>2. Len(sends') = 1 /\ sends'[1].op = "sub" /\ sends'[1].keys = ks \ active
      BY <3>1
    <3> QED
      BY <2>1, <2>2, <3>1, <3>2 DEF BooksInv
  <2>3. CASE ~(connected /\ ks \ active # {})
    BY <2>1, <2>3 DEF BooksInv
  <2> QED
    BY <2>2, <2>3
<1>3. CASE AdapterUnsubscribes
  <2> DEFINE ks == KeysOf(Head(tasks).syms \cap names) \ Pinned
  <2>1. /\ sends = <<>>
        /\ keys' = keys \ ks /\ active' = active \ ks /\ fed' = fed
        /\ connected' = connected
        /\ sends' = IF connected /\ ks \cap active # {}
                      THEN Append(sends, [op |-> "unsub", keys |-> ks \cap active]) ELSE sends
    BY <1>3 DEF AdapterUnsubscribes, MayBegin, Sending
  <2> HIDE DEF ks
  <2>2. CASE connected /\ ks \cap active # {}
    <3>1. sends' = <<[op |-> "unsub", keys |-> ks \cap active]>>
      <4> DEFINE m == [op |-> "unsub", keys |-> ks \cap active]
      <4>1. sends' = Append(<<>>, m)
        BY <2>1, <2>2
      <4> HIDE DEF m
      <4>2. sends' = <<m>>
        BY <4>1
      <4> QED
        BY <4>2 DEF m
    <3>2. Len(sends') = 1 /\ sends'[1].op = "unsub" /\ sends'[1].keys = ks \cap active
      BY <3>1
    <3>3. active = fed /\ keys \subseteq active
      BY <2>1, <2>2 DEF BooksInv
    <3> QED
      BY <2>1, <2>2, <3>1, <3>2, <3>3 DEF BooksInv
  <2>3. CASE connected /\ ks \cap active = {}
    BY <2>1, <2>3 DEF BooksInv
  <2>4. CASE ~connected
    BY <2>1, <2>4 DEF BooksInv
  <2> QED
    BY <2>2, <2>3, <2>4
<1>4. CASE SendEnds
  <2>1. /\ Len(sends) = 1 /\ sends # <<>> /\ Head(sends) = sends[1] /\ sends[1] \in Message
        /\ Tail(sends) = <<>>
    BY <1>4 DEF SendEnds, BooksInv, TypeOK
  <2>2. /\ sends' = <<>> /\ keys' = keys /\ connected' = connected
        /\ connected =>
              /\ fed' = IF sends[1].op = "sub" THEN fed \cup sends[1].keys
                        ELSE fed \ sends[1].keys
              /\ active' = IF sends[1].op = "sub" THEN active \cup sends[1].keys ELSE active
    BY <1>4, <2>1 DEF SendEnds
  <2>3. sends[1].op = "sub" \/ sends[1].op = "unsub"
    BY <2>1 DEF Message
  <2> QED
    BY <2>1, <2>2, <2>3 DEF BooksInv
<1>5. CASE SocketOpens
  <2>1. active' = {} /\ fed' = {} /\ keys' = keys
        /\ sends' = IF keys = {} THEN <<>> ELSE <<[op |-> "sub", keys |-> keys]>>
    BY <1>5 DEF SocketOpens
  <2>2. CASE keys = {}
    BY <2>1, <2>2 DEF BooksInv
  <2>3. CASE keys # {}
    <3>1. /\ Len(sends') = 1 /\ sends' # <<>>
          /\ sends'[1].op = "sub" /\ sends'[1].keys = keys
      BY <2>1, <2>3
    <3> QED
      BY <2>1, <3>1 DEF BooksInv
  <2> QED
    BY <2>2, <2>3
<1>6. CASE SocketCloses
  BY <1>6 DEF SocketCloses, BooksInv
<1> QED
  BY <1>1, <1>2, <1>3, <1>4, <1>5, <1>6
     DEF Next, vars, Subscribe, Unsubscribe, UnsubscribeUnnamed, ClearReason, Connect,
         Disconnect, DebounceEnds, PassedBy, adapter, socket

LEMMA BooksHold == ASSUME SendsAtOnce PROVE Spec => []BooksInv
<1>1. Init => BooksInv
  BY DEF Init, BooksInv
<1>2. TypeOK /\ BooksInv /\ [Next]_vars => BooksInv'
  BY BooksStep
<1> QED
  BY <1>1, <1>2, FeedTypeCorrect, PTL DEF Spec

\* If sends are not overtaken, the adapter's set of active keys is what the
\* provider streams.
THEOREM BooksFollowFeed == ASSUME SendsAtOnce PROVE Spec => []BooksMatchFeed
<1>1. BooksInv => BooksMatchFeed
  BY DEF BooksInv, BooksMatchFeed, Settled
<1> QED
  BY <1>1, BooksHold, PTL

-----------------------------------------------------------------------------
(* From the registry to the adapter *)

Removes(t, s) == t.op = "remove" /\ s \in t.syms

\* The latest task about the symbol is to add it, or there is none that removes
\* it and the adapter, if it was the one chosen, has its key.
HasKey(s) == s \in routed /\ KeyOf[s] # NoKey => KeyOf[s] \in keys

OnItsWay(s) ==
    \/ \E i \in 1..Len(tasks) :
          /\ tasks[i].op = "add" /\ s \in tasks[i].syms
          /\ \A j \in (i+1)..Len(tasks) : ~Removes(tasks[j], s)
    \/ /\ HasKey(s)
       /\ \A j \in 1..Len(tasks) : ~Removes(tasks[j], s)

QueueInv == \A s \in Wanted : OnItsWay(s)

\* A task that does not remove the symbol may be queued.
LEMMA AppendKeeps ==
    ASSUME TypeOK, NEW s \in Symbol, OnItsWay(s), NEW t \in Task, ~Removes(t, s),
           tasks' = Append(tasks, t), UNCHANGED <<keys, routed>>
    PROVE  OnItsWay(s)'
<1>1. /\ Len(tasks') = Len(tasks) + 1 /\ Len(tasks) \in Nat
      /\ tasks'[Len(tasks) + 1] = t
      /\ \A i \in 1..Len(tasks) : tasks'[i] = tasks[i]
  BY DEF TypeOK
<1>2. CASE \E i \in 1..Len(tasks) :
              /\ tasks[i].op = "add" /\ s \in tasks[i].syms
              /\ \A j \in (i+1)..Len(tasks) : ~Removes(tasks[j], s)
  <2>1. PICK i \in 1..Len(tasks) :
              /\ tasks[i].op = "add" /\ s \in tasks[i].syms
              /\ \A j \in (i+1)..Len(tasks) : ~Removes(tasks[j], s)
    BY <1>2
  <2>2. /\ i \in 1..Len(tasks') /\ tasks'[i].op = "add" /\ s \in tasks'[i].syms
        /\ \A j \in (i+1)..Len(tasks') : ~Removes(tasks'[j], s)
    BY <1>1, <2>1
  <2> QED
    BY <2>2 DEF OnItsWay, Removes
<1>3. CASE /\ HasKey(s)
           /\ \A j \in 1..Len(tasks) : ~Removes(tasks[j], s)
  <2>1. HasKey(s)' /\ \A j \in 1..Len(tasks') : ~Removes(tasks'[j], s)
    BY <1>1, <1>3 DEF HasKey
  <2> QED
    BY <2>1 DEF OnItsWay, Removes
<1> QED
  BY <1>2, <1>3 DEF OnItsWay

\* The first task is done: a symbol that it adds has its key then, and no other
\* symbol's key is taken away.
LEMMA TailKeeps ==
    ASSUME TypeOK, tasks # <<>>, tasks' = Tail(tasks), NEW s \in Symbol, OnItsWay(s),
           Head(tasks).op = "add" /\ s \in Head(tasks).syms => HasKey(s)',
           HasKey(s) /\ ~Removes(Head(tasks), s) => HasKey(s)'
    PROVE  OnItsWay(s)'
<1>1. /\ Len(tasks) \in Nat \ {0} /\ Len(tasks') = Len(tasks) - 1
      /\ Head(tasks) = tasks[1]
      /\ \A i \in 1..Len(tasks') : tasks'[i] = tasks[i+1]
  BY DEF TypeOK
<1>2. ASSUME \A j \in 2..Len(tasks) : ~Removes(tasks[j], s), HasKey(s)'
      PROVE  OnItsWay(s)'
  <2>1. \A j \in 1..Len(tasks') : ~Removes(tasks'[j], s)
    BY <1>1, <1>2
  <2> QED
    BY <1>2, <2>1 DEF OnItsWay, Removes
<1>3. CASE \E i \in 1..Len(tasks) :
              /\ tasks[i].op = "add" /\ s \in tasks[i].syms
              /\ \A j \in (i+1)..Len(tasks) : ~Removes(tasks[j], s)
  <2>1. PICK i \in 1..Len(tasks) :
              /\ tasks[i].op = "add" /\ s \in tasks[i].syms
              /\ \A j \in (i+1)..Len(tasks) : ~Removes(tasks[j], s)
    BY <1>3
  <2>2. CASE i = 1
    BY <1>1, <1>2, <2>1, <2>2
  <2>3. CASE i > 1
    <3>1. /\ i - 1 \in 1..Len(tasks') /\ tasks'[i-1].op = "add" /\ s \in tasks'[i-1].syms
          /\ \A j \in ((i-1)+1)..Len(tasks') : ~Removes(tasks'[j], s)
      BY <1>1, <2>1, <2>3
    <3> QED
      BY <3>1 DEF OnItsWay, Removes
  <2> QED
    BY <2>1, <2>2, <2>3
<1>4. CASE /\ HasKey(s)
           /\ \A j \in 1..Len(tasks) : ~Removes(tasks[j], s)
  BY <1>1, <1>2, <1>4
<1> QED
  BY <1>3, <1>4 DEF OnItsWay

\* Forget queues the removal of symbols that nobody wants afterwards.
LEMMA ForgetKeeps ==
    ASSUME TypeOK, QueueInv, NEW es \in SUBSET subs, Forget(es), UNCHANGED <<keys, routed>>
    PROVE  QueueInv'
<1> DEFINE gone == SymbolsOf(es) \ SymbolsOf(subs \ es)
<1>1. gone \subseteq Symbol /\ Wanted \subseteq Symbol
  BY DEF TypeOK, Entry, SymbolsOf, Wanted
<1>2. Wanted' \subseteq Wanted /\ Wanted' \cap gone = {}
  BY DEF Forget, Wanted, SymbolsOf
<1>3. CASE gone = {}
  <2>1. tasks' = tasks
    BY <1>3 DEF Forget
  <2> QED
    BY <1>2, <2>1 DEF QueueInv, OnItsWay, HasKey
<1>4. CASE gone # {}
  <2>1. tasks' = Append(tasks, [op |-> "remove", syms |-> gone])
    BY <1>4 DEF Forget
  <2>2. [op |-> "remove", syms |-> gone] \in Task
    BY <1>1 DEF Task
  <2> HIDE DEF gone
  <2>3. ASSUME NEW s \in Wanted' PROVE OnItsWay(s)'
    <3>1. s \in Symbol /\ OnItsWay(s) /\ s \notin gone
      BY <1>1, <1>2, <2>3 DEF QueueInv
    <3>2. ~Removes([op |-> "remove", syms |-> gone], s)
      BY <3>1 DEF Removes
    <3> QED
      BY <2>1, <2>2, <3>1, <3>2, AppendKeeps
  <2> QED
    BY <2>3 DEF QueueInv
<1> QED
  BY <1>3, <1>4

LEMMA QueueStep ==
    ASSUME KeysApart
    PROVE  TypeOK /\ QueueInv /\ [Next]_vars => QueueInv'
<1> SUFFICES ASSUME TypeOK, QueueInv, [Next]_vars PROVE QueueInv'
  OBVIOUS
<1> USE FeedAssumption
<1>0. Wanted \subseteq Symbol
  BY DEF TypeOK, Entry, SymbolsOf, Wanted
<1>1. ASSUME NEW s \in Symbol, NEW r \in Reason, NEW c \in Source, Subscribe(s, r, c)
      PROVE  QueueInv'
  <2> DEFINE e == [sym |-> s, reason |-> r, source |-> c]
  <2>0. UNCHANGED <<keys, routed>> /\ subs' = subs \cup {e} /\ e.sym = s
    BY <1>1 DEF Subscribe, adapter, socket
  <2> HIDE DEF e
  <2>1. UNCHANGED <<keys, routed>> /\ Wanted' = Wanted \cup {s}
    BY <2>0 DEF Wanted, SymbolsOf
  <2>2. CASE s \in Wanted
    BY <1>1, <2>1, <2>2 DEF Subscribe, QueueInv, OnItsWay, HasKey
  <2>3. CASE s \notin Wanted
    <3>1. tasks' = Append(tasks, [op |-> "add", syms |-> {s}])
      BY <1>1, <2>3 DEF Subscribe
    <3>2. [op |-> "add", syms |-> {s}] \in Task
      BY DEF Task
    <3>3. ASSUME NEW t \in Wanted PROVE OnItsWay(t)'
      <4>1. t \in Symbol /\ OnItsWay(t) /\ ~Removes([op |-> "add", syms |-> {s}], t)
        BY <1>0, <3>3 DEF QueueInv, Removes
      <4> QED
        BY <2>1, <3>1, <3>2, <4>1, AppendKeeps
    <3>4. OnItsWay(s)'
      <4>1. /\ Len(tasks') = Len(tasks) + 1 /\ Len(tasks) \in Nat
            /\ tasks'[Len(tasks')].op = "add" /\ s \in tasks'[Len(tasks')].syms
        BY <3>1 DEF TypeOK
      <4>2. Len(tasks') \in 1..Len(tasks') /\ (Len(tasks')+1)..Len(tasks') = {}
        BY <4>1
      <4> QED
        BY <4>1, <4>2 DEF OnItsWay
    <3> QED
      BY <2>1, <3>3, <3>4 DEF QueueInv
  <2> QED
    BY <2>2, <2>3
<1>2. ASSUME NEW s \in Symbol, NEW r \in Reason, NEW c \in Client, Unsubscribe(s, r, c)
      PROVE  QueueInv'
  BY <1>2, ForgetKeeps DEF Unsubscribe, adapter, socket
<1>3. ASSUME NEW s \in Symbol, NEW r \in Reason, UnsubscribeUnnamed(s, r) PROVE QueueInv'
  <2> DEFINE own == [sym |-> s, reason |-> r, source |-> NoSource]
             all == {e \in subs : e.sym = s /\ e.reason = r}
             es == IF own \in subs THEN {own} ELSE all
  <2>1. es \in SUBSET subs
    OBVIOUS
  <2>2. Forget(es) /\ UNCHANGED <<keys, routed>>
    BY <1>3 DEF UnsubscribeUnnamed, adapter, socket
  <2> HIDE DEF es
  <2> QED
    BY <2>1, <2>2, ForgetKeeps
<1>4. ASSUME NEW r \in Reason, ClearReason(r) PROVE QueueInv'
  BY <1>4, ForgetKeeps DEF ClearReason, adapter, socket
<1>5. ASSUME NEW c \in Client, DebounceEnds(c) PROVE QueueInv'
  BY <1>5, ForgetKeeps DEF DebounceEnds, adapter, socket
<1>6. CASE AdapterSubscribes
  <2>1. ASSUME NEW s \in Wanted PROVE OnItsWay(s)'
    <3>1. s \in Symbol /\ OnItsWay(s)
      BY <1>0, <2>1 DEF QueueInv
    <3>2. /\ tasks # <<>> /\ tasks' = Tail(tasks)
          /\ routed' = routed \cup Head(tasks).syms
          /\ keys' = keys \cup KeysOf(WithBare(Head(tasks).syms))
      BY <1>6 DEF AdapterSubscribes
    <3>3. s \in Head(tasks).syms => HasKey(s)'
      BY <3>2 DEF KeysOf, WithBare, HasKey
    <3>4. HasKey(s) /\ s \notin Head(tasks).syms => HasKey(s)'
      BY <3>2 DEF HasKey
    <3> QED
      BY <3>1, <3>2, <3>3, <3>4, TailKeeps
  <2> QED
    BY <1>6, <2>1 DEF AdapterSubscribes, registry, Wanted, QueueInv
<1>7. CASE AdapterUnsubscribes
  <2>1. ASSUME NEW s \in Wanted PROVE OnItsWay(s)'
    <3> DEFINE matching == Head(tasks).syms \cap names
    <3>1. s \in Symbol /\ OnItsWay(s)
      BY <1>0, <2>1 DEF QueueInv
    <3>2. /\ tasks # <<>> /\ tasks' = Tail(tasks) /\ Head(tasks).op = "remove"
          /\ keys' = keys \ (KeysOf(matching) \ Pinned) /\ routed' = routed
      BY <1>7 DEF AdapterUnsubscribes
    <3>3. matching \subseteq Symbol
      BY <3>2, HeadType
    <3>4. s \notin matching /\ KeyOf[s] # NoKey => KeyOf[s] \notin KeysOf(matching)
      BY <3>1, <3>3 DEF KeysApart, KeysOf
    <3>5. HasKey(s) /\ ~Removes(Head(tasks), s) => HasKey(s)'
      BY <3>2, <3>4 DEF Removes, HasKey
    <3>6. ~(Head(tasks).op = "add")
      BY <3>2
    <3> QED
      BY <3>1, <3>2, <3>5, <3>6, TailKeeps
  <2> QED
    BY <1>7, <2>1 DEF AdapterUnsubscribes, registry, Wanted, QueueInv
<1>9. CASE PassedBy
  <2>1. ASSUME NEW s \in Wanted PROVE OnItsWay(s)'
    <3>1. s \in Symbol /\ OnItsWay(s)
      BY <1>0, <2>1 DEF QueueInv
    <3>2. /\ tasks # <<>> /\ tasks' = Tail(tasks)
          /\ routed' = routed \ Head(tasks).syms /\ keys' = keys
      BY <1>9 DEF PassedBy
    <3>3. /\ s \in Head(tasks).syms => HasKey(s)'
          /\ HasKey(s) => HasKey(s)'
      BY <3>2 DEF HasKey
    <3> QED
      BY <3>1, <3>2, <3>3, TailKeeps
  <2> QED
    BY <1>9, <2>1 DEF PassedBy, registry, Wanted, QueueInv
<1>8. CASE UNCHANGED <<subs, tasks, keys, routed>>
  BY <1>8 DEF QueueInv, OnItsWay, HasKey, Wanted
<1> QED
  BY <1>1, <1>2, <1>3, <1>4, <1>5, <1>6, <1>7, <1>8, <1>9
     DEF Next, vars, Connect, Disconnect, SendEnds, SocketOpens, SocketCloses,
         registry, adapter

\* Without a task left, the adapter has the keys that are wanted of it.
LEMMA DueInBooks ==
    ASSUME NamesAgree
    PROVE  TypeOK /\ QueueInv /\ tasks = <<>> => Due \subseteq keys
<1> SUFFICES ASSUME TypeOK, QueueInv, tasks = <<>> PROVE Due \subseteq keys
  OBVIOUS
<1>1. Wanted \cap routed \in SUBSET Symbol
  BY DEF TypeOK
<1>2. Due = KeysOf(Wanted \cap routed)
  BY <1>1, BareKeys DEF Due
<1>3. \A s \in Wanted : HasKey(s)
  BY DEF QueueInv, OnItsWay
<1> QED
  BY <1>2, <1>3 DEF HasKey, KeysOf

LEMMA QueueHolds == ASSUME KeysApart PROVE Spec => []QueueInv
<1>1. Init => QueueInv
  BY DEF Init, QueueInv, Wanted, SymbolsOf
<1>2. TypeOK /\ QueueInv /\ [Next]_vars => QueueInv'
  BY QueueStep
<1> QED
  BY <1>1, <1>2, FeedTypeCorrect, PTL DEF Spec

\* If no two symbols are names of one key, bare names agree with their symbols
\* and sends are not overtaken, the provider streams what the registry's sources
\* want of it, once all has been sent.
THEOREM FeedFollowsRegistry ==
    ASSUME SendsAtOnce, KeysApart, NamesAgree
    PROVE  Spec => []WantedIsFed
<1>1. TypeOK /\ QueueInv /\ BooksInv => WantedIsFed
  BY DueInBooks DEF WantedIsFed, BooksInv, Settled
<1> QED
  BY <1>1, BooksHold, QueueHolds, FeedTypeCorrect, PTL

-----------------------------------------------------------------------------
(* Nothing is left behind *)

\* A symbol's removal is queued after the task i.
GoesAfter(s, i) == \E j \in 1..Len(tasks) : j > i /\ Removes(tasks[j], s)

Owed(s, i) == s \in Wanted \/ GoesAfter(s, i)

\* A key that the adapter has is that of a symbol it has, which like a symbol
\* that is still to be added is somebody's or will be taken away later.
NoLeak ==
    /\ Pinned \subseteq keys
    /\ \A k \in keys \ Pinned : \E s \in Symbol \cap names : KeyOf[s] = k /\ Owed(s, 0)
    /\ \A i \in 1..Len(tasks) :
          tasks[i].op = "add" => \A s \in tasks[i].syms : Owed(s, i)

\* What is due stays due when the symbols that cease to be wanted are queued
\* for removal.
LEMMA NoLeakAppend ==
    ASSUME TypeOK, NoLeak, NEW t \in Task, tasks' = Append(tasks, t),
           UNCHANGED <<names, keys>>,
           \A s \in Wanted \ Wanted' : Removes(t, s),
           t.op = "add" => t.syms \subseteq Wanted'
    PROVE  NoLeak'
<1>1. /\ Len(tasks') = Len(tasks) + 1 /\ Len(tasks) \in Nat
      /\ tasks'[Len(tasks) + 1] = t
      /\ \A i \in 1..Len(tasks) : tasks'[i] = tasks[i]
  BY DEF TypeOK
<1>2. ASSUME NEW s, NEW i \in 0..Len(tasks), Owed(s, i) PROVE Owed(s, i)'
  <2>1. CASE s \in Wanted'
    BY <2>1 DEF Owed
  <2>2. CASE s \in Wanted \ Wanted'
    <3>1. Removes(tasks'[Len(tasks) + 1], s) /\ Len(tasks) + 1 > i
          /\ Len(tasks) + 1 \in 1..Len(tasks')
      BY <1>1, <2>2
    <3> QED
      BY <3>1 DEF Owed, GoesAfter, Removes
  <2>3. CASE s \notin Wanted
    <3>1. PICK j \in 1..Len(tasks) : j > i /\ Removes(tasks[j], s)
      BY <1>2, <2>3 DEF Owed, GoesAfter
    <3>2. j \in 1..Len(tasks') /\ Removes(tasks'[j], s)
      BY <1>1, <3>1
    <3> QED
      BY <3>1, <3>2 DEF Owed, GoesAfter, Removes
  <2> QED
    BY <2>1, <2>2, <2>3
<1>3. \A k \in keys' \ Pinned : \E s \in Symbol \cap names' : KeyOf[s] = k /\ Owed(s, 0)'
  BY <1>1, <1>2 DEF NoLeak
<1>4. ASSUME NEW i \in 1..Len(tasks'), tasks'[i].op = "add", NEW s \in tasks'[i].syms
      PROVE  Owed(s, i)'
  <2>1. CASE i = Len(tasks) + 1
    BY <1>1, <1>4, <2>1 DEF Owed
  <2>2. CASE i # Len(tasks) + 1
    <3>1. i \in 1..Len(tasks) /\ i \in 0..Len(tasks) /\ tasks'[i] = tasks[i]
      BY <1>1, <1>4, <2>2
    <3> QED
      BY <1>2, <1>4, <3>1 DEF NoLeak
  <2> QED
    BY <2>1, <2>2
<1> QED
  BY <1>3, <1>4 DEF NoLeak

\* The first task is done: its removals need not be due any more once their
\* keys are gone, and the keys it adds are somebody's or due later.
LEMMA NoLeakTail ==
    ASSUME TypeOK, NoLeak, tasks # <<>>, tasks' = Tail(tasks), subs' = subs,
           Pinned \subseteq keys',
           \A k \in keys' \ Pinned : \E s \in Symbol \cap names' :
              /\ KeyOf[s] = k
              /\ \/ Owed(s, 0) /\ ~Removes(Head(tasks), s)
                 \/ Head(tasks).op = "add" /\ s \in Head(tasks).syms
    PROVE  NoLeak'
<1>1. /\ Len(tasks) \in Nat \ {0} /\ Len(tasks') = Len(tasks) - 1
      /\ Head(tasks) = tasks[1] /\ tasks[1] \in Task
      /\ \A i \in 1..Len(tasks') : tasks'[i] = tasks[i+1]
  BY DEF TypeOK
<1>2. Wanted' = Wanted
  BY DEF Wanted
<1>3. ASSUME NEW s, NEW i \in 1..Len(tasks), Owed(s, i) PROVE Owed(s, i - 1)'
  <2>1. CASE s \in Wanted
    BY <1>2, <2>1 DEF Owed
  <2>2. CASE s \notin Wanted
    <3>1. PICK j \in 1..Len(tasks) : j > i /\ Removes(tasks[j], s)
      BY <1>3, <2>2 DEF Owed, GoesAfter
    <3>2. j - 1 \in 1..Len(tasks') /\ j - 1 > i - 1 /\ Removes(tasks'[j - 1], s)
      BY <1>1, <3>1
    <3> QED
      BY <3>2 DEF Owed, GoesAfter, Removes
  <2> QED
    BY <2>1, <2>2
<1>4. ASSUME NEW k \in keys' \ Pinned
      PROVE  \E s \in Symbol \cap names' : KeyOf[s] = k /\ Owed(s, 0)'
  <2>1. PICK s \in Symbol \cap names' :
           /\ KeyOf[s] = k
           /\ \/ Owed(s, 0) /\ ~Removes(Head(tasks), s)
              \/ Head(tasks).op = "add" /\ s \in Head(tasks).syms
    BY <1>4
  <2>2. 1 \in 1..Len(tasks)
    BY <1>1
  <2>3. ASSUME Head(tasks).op = "add", s \in Head(tasks).syms PROVE Owed(s, 1)
    BY <1>1, <2>2, <2>3 DEF NoLeak
  <2>4. ASSUME Owed(s, 0), ~Removes(Head(tasks), s) PROVE Owed(s, 1)
    <3>1. CASE s \in Wanted
      BY <3>1 DEF Owed
    <3>2. CASE s \notin Wanted
      <4>1. PICK j \in 1..Len(tasks) : j > 0 /\ Removes(tasks[j], s)
        BY <2>4, <3>2 DEF Owed, GoesAfter
      <4>2. j > 1
        BY <1>1, <2>4, <4>1
      <4> QED
        BY <4>1, <4>2 DEF Owed, GoesAfter
    <3> QED
      BY <3>1, <3>2
  <2>5. Owed(s, 1)
    BY <2>1, <2>3, <2>4
  <2>6. Owed(s, 1 - 1)'
    BY <1>3, <2>2, <2>5
  <2> QED
    BY <2>1, <2>6
<1>5. ASSUME NEW i \in 1..Len(tasks'), tasks'[i].op = "add", NEW s \in tasks'[i].syms
      PROVE  Owed(s, i)'
  <2>1. i + 1 \in 1..Len(tasks) /\ tasks[i+1].op = "add" /\ s \in tasks[i+1].syms
    BY <1>1, <1>5
  <2>2. Owed(s, i + 1)
    BY <2>1 DEF NoLeak
  <2>3. Owed(s, (i + 1) - 1)'
    BY <1>3, <2>1, <2>2
  <2>4. (i + 1) - 1 = i
    OBVIOUS
  <2> QED
    BY <2>3, <2>4
<1> QED
  BY <1>4, <1>5 DEF NoLeak

\* Forget hands over every symbol that it takes out of the wanted ones.
LEMMA NoLeakForget ==
    ASSUME TypeOK, NoLeak, NEW es \in SUBSET subs, Forget(es), UNCHANGED <<names, keys>>
    PROVE  NoLeak'
<1> DEFINE gone == SymbolsOf(es) \ SymbolsOf(subs \ es)
           t == [op |-> "remove", syms |-> gone]
<1>1. gone \subseteq Symbol /\ Wanted \ Wanted' = gone /\ Wanted' \subseteq Wanted
  BY DEF TypeOK, Entry, SymbolsOf, Wanted, Forget
<1>2. CASE gone = {}
  <2>1. tasks' = tasks /\ Wanted' = Wanted
    BY <1>1, <1>2 DEF Forget
  <2> QED
    BY <2>1 DEF NoLeak, Owed, GoesAfter
<1>3. CASE gone # {}
  <2>1. tasks' = Append(tasks, t)
    BY <1>3 DEF Forget
  <2>2. t \in Task /\ t.op # "add" /\ \A s \in Wanted \ Wanted' : Removes(t, s)
    BY <1>1 DEF Task, Removes
  <2> HIDE DEF t, gone
  <2> QED
    BY <2>1, <2>2, NoLeakAppend
<1> QED
  BY <1>2, <1>3

LEMMA NoLeakStep ==
    ASSUME NamesAgree
    PROVE  TypeOK /\ NoLeak /\ [Next]_vars => NoLeak'
<1> SUFFICES ASSUME TypeOK, NoLeak, [Next]_vars PROVE NoLeak'
  OBVIOUS
<1>1. ASSUME NEW s \in Symbol, NEW r \in Reason, NEW c \in Source, Subscribe(s, r, c)
      PROVE  NoLeak'
  <2> DEFINE e == [sym |-> s, reason |-> r, source |-> c]
             t == [op |-> "add", syms |-> {s}]
  <2>1. UNCHANGED <<names, keys>> /\ subs' = subs \cup {e} /\ e.sym = s
    BY <1>1 DEF Subscribe, adapter, socket
  <2>2. s \notin Wanted => tasks' = Append(tasks, t)
    BY <1>1 DEF Subscribe
  <2>3. t \in Task /\ t.op = "add" /\ t.syms = {s}
    BY DEF Task
  <2> HIDE DEF e, t
  <2>4. Wanted' = Wanted \cup {s}
    BY <2>1 DEF Wanted, SymbolsOf
  <2>5. CASE s \in Wanted
    BY <1>1, <2>1, <2>4, <2>5 DEF Subscribe, NoLeak, Owed, GoesAfter
  <2>6. CASE s \notin Wanted
    BY <2>1, <2>2, <2>3, <2>4, <2>6, NoLeakAppend
  <2> QED
    BY <2>5, <2>6
<1>2. ASSUME NEW s \in Symbol, NEW r \in Reason, NEW c \in Client, Unsubscribe(s, r, c)
      PROVE  NoLeak'
  BY <1>2, NoLeakForget DEF Unsubscribe, adapter, socket
<1>3. ASSUME NEW s \in Symbol, NEW r \in Reason, UnsubscribeUnnamed(s, r) PROVE NoLeak'
  <2> DEFINE own == [sym |-> s, reason |-> r, source |-> NoSource]
             all == {e \in subs : e.sym = s /\ e.reason = r}
             es == IF own \in subs THEN {own} ELSE all
  <2>1. es \in SUBSET subs
    OBVIOUS
  <2>2. Forget(es) /\ UNCHANGED <<names, keys>>
    BY <1>3 DEF UnsubscribeUnnamed, adapter, socket
  <2> HIDE DEF es
  <2> QED
    BY <2>1, <2>2, NoLeakForget
<1>4. ASSUME NEW r \in Reason, ClearReason(r) PROVE NoLeak'
  BY <1>4, NoLeakForget DEF ClearReason, adapter, socket
<1>5. ASSUME NEW c \in Client, DebounceEnds(c) PROVE NoLeak'
  BY <1>5, NoLeakForget DEF DebounceEnds, adapter, socket
<1>6. CASE AdapterSubscribes
  <2> DEFINE syms == Head(tasks).syms
  <2>1. /\ tasks # <<>> /\ tasks' = Tail(tasks) /\ subs' = subs
        /\ Head(tasks).op = "add"
        /\ names' = names \cup WithBare(syms) /\ keys' = keys \cup KeysOf(WithBare(syms))
    BY <1>6 DEF AdapterSubscribes, registry
  <2>2. syms \in SUBSET Symbol
    BY <2>1, HeadType
  <2>3. Pinned \subseteq keys' /\ keys' = keys \cup KeysOf(syms) /\ syms \subseteq names'
    BY <2>1, <2>2, BareKeys DEF NoLeak, WithBare
  <2>4. ASSUME NEW k \in keys' \ Pinned
        PROVE  \E s \in Symbol \cap names' :
                  /\ KeyOf[s] = k
                  /\ \/ Owed(s, 0) /\ ~Removes(Head(tasks), s)
                     \/ Head(tasks).op = "add" /\ s \in Head(tasks).syms
    <3>1. CASE k \in keys
      BY <2>1, <3>1 DEF NoLeak, Removes
    <3>2. CASE k \in KeysOf(syms)
      BY <2>1, <2>2, <2>3, <3>2 DEF KeysOf
    <3> QED
      BY <2>3, <2>4, <3>1, <3>2
  <2> QED
    BY <2>1, <2>3, <2>4, NoLeakTail
<1>7. CASE AdapterUnsubscribes
  <2> DEFINE matching == Head(tasks).syms \cap names
  <2>1. /\ tasks # <<>> /\ tasks' = Tail(tasks) /\ subs' = subs
        /\ Head(tasks).op = "remove"
        /\ names' = names \ matching /\ keys' = keys \ (KeysOf(matching) \ Pinned)
    BY <1>7 DEF AdapterUnsubscribes, registry
  <2>2. Pinned \subseteq keys'
    BY <2>1 DEF NoLeak
  <2>3. ASSUME NEW k \in keys' \ Pinned
        PROVE  \E s \in Symbol \cap names' :
                  KeyOf[s] = k /\ Owed(s, 0) /\ ~Removes(Head(tasks), s)
    <3>1. k \in keys \ Pinned /\ k \notin KeysOf(matching) /\ k # NoKey
      BY <2>1, <2>3, FeedAssumption DEF TypeOK
    <3>2. PICK s \in Symbol \cap names : KeyOf[s] = k /\ Owed(s, 0)
      BY <3>1 DEF NoLeak
    <3>3. s \notin matching
      BY <3>1, <3>2 DEF KeysOf
    <3> QED
      BY <2>1, <3>2, <3>3 DEF Removes
  <2> QED
    BY <2>1, <2>2, <2>3, NoLeakTail
<1>9. CASE PassedBy
  <2>1. /\ tasks # <<>> /\ tasks' = Tail(tasks) /\ subs' = subs
        /\ Head(tasks).op = "add" /\ UNCHANGED <<names, keys>>
    BY <1>9 DEF PassedBy, registry
  <2>2. \A k \in keys' \ Pinned : \E s \in Symbol \cap names' :
           KeyOf[s] = k /\ Owed(s, 0) /\ ~Removes(Head(tasks), s)
    BY <2>1 DEF NoLeak, Removes
  <2>3. Pinned \subseteq keys'
    BY <2>1 DEF NoLeak
  <2> QED
    BY <2>1, <2>2, <2>3, NoLeakTail
<1>8. CASE UNCHANGED <<subs, tasks, names, keys>>
  <2>1. Wanted' = Wanted
    BY <1>8 DEF Wanted
  <2> QED
    BY <1>8, <2>1 DEF NoLeak, Owed, GoesAfter
<1> QED
  BY <1>1, <1>2, <1>3, <1>4, <1>5, <1>6, <1>7, <1>8, <1>9
     DEF Next, vars, Connect, Disconnect, SendEnds, SocketOpens, SocketCloses,
         registry, adapter

LEMMA NothingLeaks == ASSUME NamesAgree PROVE Spec => []NoLeak
<1>1. Init => NoLeak
  BY DEF Init, NoLeak
<1>2. TypeOK /\ NoLeak /\ [Next]_vars => NoLeak'
  BY NoLeakStep
<1> QED
  BY <1>1, <1>2, FeedTypeCorrect, PTL DEF Spec

\* Without a task left, the adapter has the pinned keys and wanted ones only.
LEMMA NothingElse ==
    TypeOK /\ NoLeak /\ tasks = <<>> => keys \subseteq Pinned \cup KeysOf(WithBare(Wanted))
<1> SUFFICES ASSUME TypeOK, NoLeak, tasks = <<>>, NEW k \in keys \ Pinned
             PROVE  k \in KeysOf(WithBare(Wanted))
  OBVIOUS
<1>1. PICK s \in Symbol : KeyOf[s] = k /\ Owed(s, 0)
  BY DEF NoLeak
<1>2. ~GoesAfter(s, 0) /\ k # NoKey
  BY FeedAssumption DEF GoesAfter, TypeOK
<1> QED
  BY <1>1, <1>2 DEF Owed, KeysOf, WithBare

\* If no two symbols are names of one key and bare names agree with their
\* symbols, the adapter that has no task left subscribes to what is wanted of it
\* and to nothing that nobody wants, however slow the sends are and however often
\* the socket is lost.  A symbol that was new while another provider was chosen,
\* or none, is not wanted of it.
THEOREM AdapterFollowsRegistry ==
    ASSUME KeysApart, NamesAgree
    PROVE  Spec => []KeysAreWanted
<1>1. TypeOK /\ QueueInv /\ NoLeak => KeysAreWanted
  BY DueInBooks, NothingElse DEF KeysAreWanted, NoLeak
<1> QED
  BY <1>1, FeedTypeCorrect, QueueHolds, NothingLeaks, PTL

\* On a socket that is up, only keys of the books are active or asked for.
ActiveInBooks ==
    connected =>
        /\ active \subseteq keys
        /\ sends # <<>> /\ sends[1].op = "sub" => sends[1].keys \subseteq keys

LEMMA ActiveStep ==
    ASSUME SendsAtOnce
    PROVE  TypeOK /\ BooksInv /\ ActiveInBooks /\ [Next]_vars => ActiveInBooks'
<1> SUFFICES ASSUME TypeOK, BooksInv, ActiveInBooks, [Next]_vars PROVE ActiveInBooks'
  OBVIOUS
<1>1. CASE UNCHANGED <<keys, socket>>
  BY <1>1 DEF ActiveInBooks, socket
<1>2. CASE AdapterSubscribes
  <2> DEFINE ks == KeysOf(WithBare(Head(tasks).syms))
             m == [op |-> "sub", keys |-> ks \ active]
  <2>1. /\ sends = <<>> /\ keys' = keys \cup ks /\ active' = active
        /\ connected' = connected
        /\ sends' = IF connected /\ ks \ active # {} THEN Append(sends, m) ELSE sends
    BY <1>2 DEF AdapterSubscribes, MayBegin, Sending
  <2>2. m.keys \subseteq keys'
    BY <2>1
  <2> HIDE DEF ks, m
  <2>3. sends' # <<>> => sends'[1] = m
    BY <2>1
  <2> QED
    BY <2>1, <2>2, <2>3 DEF ActiveInBooks
<1>3. CASE AdapterUnsubscribes
  <2> DEFINE ks == KeysOf(Head(tasks).syms \cap names) \ Pinned
             m == [op |-> "unsub", keys |-> ks \cap active]
  <2>1. /\ sends = <<>> /\ keys' = keys \ ks /\ active' = active \ ks
        /\ connected' = connected
        /\ sends' = IF connected /\ ks \cap active # {} THEN Append(sends, m) ELSE sends
    BY <1>3 DEF AdapterUnsubscribes, MayBegin, Sending
  <2>2. m.op # "sub"
    OBVIOUS
  <2> HIDE DEF ks, m
  <2>3. sends' # <<>> => sends'[1] = m
    BY <2>1
  <2> QED
    BY <2>1, <2>2, <2>3 DEF ActiveInBooks
<1>4. CASE SendEnds
  <2>1. /\ sends # <<>> /\ Head(sends) = sends[1] /\ sends' = <<>>
    BY <1>4 DEF SendEnds, BooksInv, TypeOK
  <2>2. /\ keys' = keys /\ connected' = connected
        /\ connected =>
              active' = IF sends[1].op = "sub" THEN active \cup sends[1].keys ELSE active
    BY <1>4, <2>1 DEF SendEnds
  <2> QED
    BY <2>1, <2>2 DEF ActiveInBooks
<1>5. CASE SocketOpens
  <2>1. active' = {} /\ keys' = keys
        /\ sends' = IF keys = {} THEN <<>> ELSE <<[op |-> "sub", keys |-> keys]>>
    BY <1>5 DEF SocketOpens
  <2> QED
    BY <2>1 DEF ActiveInBooks
<1>6. CASE SocketCloses
  BY <1>6 DEF SocketCloses, ActiveInBooks
<1> QED
  BY <1>1, <1>2, <1>3, <1>4, <1>5, <1>6
     DEF Next, vars, Subscribe, Unsubscribe, UnsubscribeUnnamed, ClearReason, Connect,
         Disconnect, DebounceEnds, PassedBy, adapter, socket

LEMMA ActiveHold == ASSUME SendsAtOnce PROVE Spec => []ActiveInBooks
<1>1. Init => ActiveInBooks
  BY DEF Init, ActiveInBooks
<1>2. TypeOK /\ BooksInv /\ ActiveInBooks /\ [Next]_vars => ActiveInBooks'
  BY ActiveStep
<1> QED
  BY <1>1, <1>2, BooksHold, FeedTypeCorrect, PTL DEF Spec

\* If bare names agree with their symbols and sends are not overtaken, nothing is
\* streamed that nobody wants, once all has been sent: this half of the next
\* theorem holds of aliases too.
THEOREM NothingElseIsFed ==
    ASSUME SendsAtOnce, NamesAgree
    PROVE  Spec => [](Settled => fed \subseteq Pinned \cup KeysOf(WithBare(Wanted)))
<1>1. TypeOK /\ NoLeak /\ BooksInv /\ ActiveInBooks
        => (Settled => fed \subseteq Pinned \cup KeysOf(WithBare(Wanted)))
  BY NothingElse DEF Settled, BooksInv, ActiveInBooks
<1> QED
  BY <1>1, FeedTypeCorrect, NothingLeaks, BooksHold, ActiveHold, PTL

\* If no two symbols are names of one key, bare names agree with their symbols
\* and sends are not overtaken, the provider streams the pinned keys and those
\* that are wanted of it, and nothing that nobody wants, once all has been sent.
THEOREM FeedIsExact ==
    ASSUME SendsAtOnce, KeysApart, NamesAgree
    PROVE  Spec => []FeedIsWanted
<1>1. KeysAreWanted /\ BooksInv /\ ActiveInBooks => FeedIsWanted
  BY DEF KeysAreWanted, BooksInv, ActiveInBooks, FeedIsWanted, Settled
<1> QED
  BY <1>1, AdapterFollowsRegistry, BooksHold, ActiveHold, PTL
=============================================================================
