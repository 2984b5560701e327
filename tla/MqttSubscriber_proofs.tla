----------------------- MODULE MqttSubscriber_proofs -----------------------
(***************************************************************************)
(* Proofs about the MQTT subscriber, for any list of topics, any number of *)
(* connections, messages and operations, and any room in the router.       *)
(***************************************************************************)
EXTENDS MqttSubscriber, FiniteSetTheorems, TLAPS

-----------------------------------------------------------------------------
(* The inductive invariant.                                                *)

\* The thread of the connection that is up, or of the next one.
Current == <<"onconnect", breaks + 1>>

\* The cells that a thread's range reads.
Cells(t) == IF range[t].array = <<>> THEN array ELSE range[t].array

Requests == [kind : {"subscribe", "unsubscribe"}, topic : Topics \cup {Garbage},
             by : Threads]
Packets  == [kind : {"ack"}, by : Threads]
              \cup [kind : {"publish"}, topic : Topics]

MainLabels    == {"idle", "connect", "started", "unsubscribe", "unsubscribing",
                  "stopped"}
ConnectLabels == {"idle", "load", "load length", "next", "subscribing", "done"}

PcOK ==
    /\ pc \in [Threads -> Labels]
    /\ pc[MainThread] \in MainLabels
    /\ pc[Operator] \in {"idle", "adding", "removing"}
    /\ \A t \in OnConnects : pc[t] \in ConnectLabels

ThreadsOK ==
    /\ mutex \in {Free, MainThread, Operator} /\ isRunning \in BOOLEAN
    /\ i \in [Threads -> Nat]
    /\ range \in [OnConnects -> [len : Nat, array : Seq(Topics)]]
    /\ token \in [Threads -> {"none", "pending", "ok", "error"}]
    /\ wants \in Topics \cup {Nil}

ListOK ==
    /\ array \in Seq(Topics \cup {Nil}) /\ array # <<>>
    /\ len \in 0 .. Len(array)
    /\ \A j \in 1 .. len : array[j] \in Topics
    /\ doubled \subseteq Topics

WireOK ==
    /\ conn \in {"none", "connected", "dropping", "reconnecting", "closing",
                "closed"}
    /\ outbound \in Seq(Requests) /\ inbound \in Seq(Packets)
    /\ routes \subseteq Topics \cup {Garbage}
    /\ subscribed \subseteq Topics \cup {Garbage}
    /\ parked \in Seq(Topics) /\ Len(parked) <= Slots
    /\ handler \in {"idle", "locking", "processing"}

\* The positions of the publishes among packets.
Publishes(packets) ==
    {k \in 1 .. Len(packets) : packets[k].kind = "publish"}

\* Every message counted, or about to be, has been published.
CountsOK ==
    /\ messageCount \in Nat
    /\ messageCount + (IF handler = "locking" THEN 1 ELSE 0) + Len(parked)
         + Cardinality(Publishes(inbound)) <= published
    /\ published \in 0 .. MaxMsgs /\ breaks \in 0 .. MaxBreaks
    /\ ops \in 0 .. MaxOps

\* Where the main goroutine is, the mutex it holds and the connection agree.
MainOK ==
    /\ (mutex = MainThread) <=>
         pc[MainThread] \in {"connect", "unsubscribe", "unsubscribing"}
    /\ (mutex = Operator) <=> pc[Operator] # "idle"
    /\ isRunning <=> pc[MainThread] \in {"started", "unsubscribe",
                                         "unsubscribing"}
    /\ conn = "none" <=> pc[MainThread] \in {"idle", "connect"}
    /\ conn \in {"closing", "closed"} <=> pc[MainThread] = "stopped"
    /\ conn = "none" => breaks = 0
    /\ breaks = 0 => conn \notin {"dropping", "reconnecting"}
    /\ pc[MainThread] \in {"unsubscribe", "unsubscribing"} =>
         i[MainThread] # 0
    /\ pc[MainThread] = "unsubscribing" => i[MainThread] <= len

\* Nothing is on its way without a connection, and the broker forgets it.
LinkOK == conn # "connected" =>
    outbound = <<>> /\ inbound = <<>> /\ subscribed = {}

\* A thread that has not been started is idle.
FreshOK ==
    /\ \A t \in OnConnects : t[2] > breaks + 1 => pc[t] = "idle"
    /\ conn \in {"none", "dropping", "reconnecting"} => pc[Current] = "idle"

\* A thread has a token exactly where it waits for one.
TokensOK ==
    \A t \in Threads :
        token[t] = "none" <=>
            pc[t] \notin {"subscribing", "unsubscribing", "adding", "removing"}

\* What a range will read of its cells are topics.
RangesOK ==
    /\ \A t \in OnConnects :
         /\ i[t] \in 0 .. range[t].len + 1
         /\ pc[t] \in {"next", "subscribing"} =>
              /\ i[t] # 0
              /\ \A j \in 1 .. range[t].len :
                   j <= Len(Cells(t)) => Cells(t)[j] \in Topics
         /\ pc[t] = "subscribing" => i[t] <= range[t].len
    /\ pc[Operator] # "idle" => wants \in Topics

\* What is on its way answers, or will, the token its thread waits for: there
\* is never more than one for a thread.
FlightOK ==
    /\ \A k \in 1 .. Len(outbound) : token[outbound[k].by] = "pending"
    /\ \A k \in 1 .. Len(inbound) :
         inbound[k].kind = "ack" => token[inbound[k].by] = "pending"
    /\ \A j, k \in 1 .. Len(outbound) :
         outbound[j].by = outbound[k].by => j = k
    /\ \A j, k \in 1 .. Len(inbound) :
         inbound[j].kind = "ack" /\ inbound[k].kind = "ack"
            /\ inbound[j].by = inbound[k].by => j = k
    /\ \A j \in 1 .. Len(outbound) : \A k \in 1 .. Len(inbound) :
         inbound[k].kind = "ack" => outbound[j].by # inbound[k].by

\* Requests come from where their threads are.
SendersOK ==
    \A k \in 1 .. Len(outbound) :
        LET q == outbound[k]
        IN  /\ q.by \in OnConnects => q.kind = "subscribe"
            /\ q.by = MainThread => q.kind = "unsubscribe"
            /\ q.by = Operator =>
                 /\ q.topic = wants
                 /\ q.kind = (IF pc[Operator] = "adding" THEN "subscribe"
                              ELSE "unsubscribe")

\* The thread that waits has been answered: "ok", or the answer is coming.
Answered(t) ==
    \/ token[t] = "ok"
    \/ \E k \in 1 .. Len(inbound) : inbound[k].kind = "ack" /\ inbound[k].by = t

\* Before the first operation: nothing has moved in the list, only topics of
\* the list are subscribed, and a thread's topic is subscribed when it is
\* answered; the current thread's topics are, as far as it has come.
ListKept ==
    ops = 0 =>
        /\ array = InitialTopics /\ len = Len(InitialTopics)
        /\ pc[Operator] = "idle"
        /\ \A t \in OnConnects :
             /\ range[t].array = <<>>
             /\ pc[t] \in {"next", "subscribing", "done"} => range[t].len = len

Subscribing == pc[MainThread] \in {"idle", "connect", "started"}

OnlyListed ==
    ops = 0 /\ Subscribing =>
        /\ subscribed \subseteq Tracked
        /\ \A k \in 1 .. Len(outbound) :
             /\ outbound[k].by \in OnConnects
             /\ outbound[k].topic = array[i[outbound[k].by]]

AllListed ==
    ops = 0 /\ Subscribing /\ conn = "connected" =>
        /\ pc[Current] # "idle"
        /\ token[Current] # "error"
        /\ pc[Current] \in {"next", "subscribing"} =>
             \A j \in 1 .. i[Current] - 1 : array[j] \in subscribed
        /\ pc[Current] = "subscribing" /\ Answered(Current) =>
             array[i[Current]] \in subscribed
        /\ pc[Current] = "done" => Tracked \subseteq subscribed

Added == Topics \ (Range(InitialTopics) \cup doubled)

\* An added topic is in the list once.
AddedOnce ==
    \A topic \in Added : \A j, k \in 1 .. len :
        array[j] = topic /\ array[k] = topic => j = k

\* While the first connection lasts, an added topic is subscribed and routed
\* but for the time that its removal takes.
AddedOK ==
    breaks = 0 /\ Subscribing =>
        /\ token[Operator] # "error"
        /\ pc[Operator] = "adding" =>
             /\ wants \in routes
             /\ Answered(Operator) => wants \in subscribed
        /\ \A topic \in Added \cap Tracked :
             \/ pc[Operator] = "removing" /\ wants = topic
             \/ topic \in subscribed \cap routes

Parts ==
    /\ PcOK /\ ThreadsOK /\ ListOK /\ WireOK /\ CountsOK
    /\ MainOK /\ LinkOK /\ FreshOK /\ TokensOK /\ RangesOK
    /\ FlightOK /\ SendersOK

IInv == Parts /\ ListKept /\ OnlyListed /\ AllListed /\ AddedOnce /\ AddedOK

-----------------------------------------------------------------------------
(* Threads, packets and the first of several numbers.                      *)

LEMMA ThreadFacts ==
    /\ Free \notin Threads
    /\ MainThread \in Threads /\ Operator \in Threads
    /\ OnConnects \subseteq Threads
    /\ MainThread # Operator
    /\ MainThread \notin OnConnects /\ Operator \notin OnConnects
    /\ \A t \in Threads : t \in OnConnects \/ t = MainThread \/ t = Operator
BY SubscriberAssumption DEF Threads, OnConnects, MainThread, Operator, Free

LEMMA BoundFacts ==
    Slots \in Nat /\ MaxMsgs \in Nat /\ MaxBreaks \in Nat /\ MaxOps \in Nat
BY SubscriberAssumption

LEMMA TopicFacts ==
    /\ Nil \notin Topics /\ Garbage \notin Topics /\ Nil # Garbage
    /\ InitialTopics \in Seq(Topics) /\ InitialTopics # <<>>
BY SubscriberAssumption DEF Nil, Garbage

LEMMA OnConnectFacts ==
    /\ \A n \in 0 .. MaxBreaks : <<"onconnect", n + 1>> \in OnConnects
    /\ \A t \in OnConnects : /\ t[1] = "onconnect"
                             /\ t[2] \in 1 .. MaxBreaks + 1
                             /\ t = <<t[1], t[2]>>
BY SubscriberAssumption DEF OnConnects

\* The thread a new connection starts, and where the others are.
LEMMA OnConnectedPc ==
    ASSUME CountsOK, NEW goes \in [Threads -> Labels],
           OnConnected(goes)
    PROVE  /\ Current \in OnConnects
           /\ pc' \in [Threads -> Labels]
           /\ pc'[Current] = "load"
           /\ \A t \in Threads : t # Current => pc'[t] = goes[t]
<1>1. Current \in OnConnects
  BY OnConnectFacts DEF Current, CountsOK
<1>. QED
  BY <1>1, ThreadFacts DEF OnConnected, Current, Labels

\* A set of natural numbers has a least element: what stands in the proofs
\* below for induction.
LEMMA LeastOf ==
    ASSUME NEW T \in SUBSET Nat, T # {}
    PROVE  \E n \in T : \A m \in T : n <= m
<1>1. PICK n \in T : \A m \in T : <<m, n>> \notin OpToRel(<, Nat)
  BY NatLessThanWellFounded, WFMin
<1>2. \A m \in T : ~ (m < n)
  BY <1>1 DEF OpToRel
<1>. QED
  BY <1>2

LEMMA PublishesFinite ==
    ASSUME NEW s \in Seq(Packets)
    PROVE  /\ IsFiniteSet(Publishes(s))
           /\ Cardinality(Publishes(s)) \in Nat
<1>1. IsFiniteSet(1 .. Len(s))
  BY FS_Interval
<1>2. IsFiniteSet(Publishes(s))
  BY <1>1, FS_Subset DEF Publishes
<1>. QED
  BY <1>2, FS_CardinalityType

LEMMA PublishesNone == Cardinality(Publishes(<<>>)) = 0
<1>1. Publishes(<<>>) = {}
  BY DEF Publishes
<1>. QED
  BY <1>1, FS_EmptySet

LEMMA PublishesAppend ==
    ASSUME NEW s \in Seq(Packets), NEW p \in Packets
    PROVE  Cardinality(Publishes(Append(s, p))) =
             Cardinality(Publishes(s)) + (IF p.kind = "publish" THEN 1 ELSE 0)
<1>1. CASE p.kind = "publish"
  <2>1. Publishes(Append(s, p)) = Publishes(s) \cup {Len(s) + 1}
    BY <1>1 DEF Publishes
  <2>2. Len(s) + 1 \notin Publishes(s)
    BY DEF Publishes
  <2>. QED
    BY <1>1, <2>1, <2>2, PublishesFinite, FS_AddElement
<1>2. CASE p.kind # "publish"
  <2>1. Publishes(Append(s, p)) = Publishes(s)
    BY <1>2 DEF Publishes
  <2>. QED
    BY <1>2, <2>1, PublishesFinite
<1>. QED
  BY <1>1, <1>2

\* Taking the first packet moves the others down by one.
LEMMA PublishesTail ==
    ASSUME NEW s \in Seq(Packets), s # <<>>
    PROVE  Cardinality(Publishes(Tail(s))) =
             Cardinality(Publishes(s))
               - (IF Head(s).kind = "publish" THEN 1 ELSE 0)
<1>. DEFINE Rest == Publishes(s) \ {1}
            down == [k \in Rest |-> k - 1]
<1>1. down \in Bijection(Rest, Publishes(Tail(s)))
  <2>1. down \in [Rest -> Publishes(Tail(s))]
    BY DEF Publishes
  <2>2. \A a, b \in Rest : down[a] = down[b] => a = b
    BY DEF Publishes
  <2>3. \A n \in Publishes(Tail(s)) : n + 1 \in Rest /\ down[n + 1] = n
    BY DEF Publishes
  <2>4. IsInjective(down)
    BY <2>1, <2>2 DEF IsInjective
  <2>. QED
    BY <2>1, <2>3, <2>4 DEF Bijection, Injection, Surjection
<1>2. IsFiniteSet(Rest)
  BY PublishesFinite, FS_RemoveElement
<1>3. Cardinality(Publishes(Tail(s))) = Cardinality(Rest)
  BY <1>1, <1>2, FS_Bijection DEF ExistsBijection
<1>4. 1 \in Publishes(s) <=> Head(s).kind = "publish"
  BY DEF Publishes
<1>5. Cardinality(Rest) = IF 1 \in Publishes(s) THEN Cardinality(Publishes(s)) - 1
                                               ELSE Cardinality(Publishes(s))
  BY PublishesFinite, FS_RemoveElement
<1>. QED
  BY <1>3, <1>4, <1>5, PublishesFinite

-----------------------------------------------------------------------------
(* Types.                                                                  *)

LEMMA SetPc ==
    ASSUME PcOK, NEW t \in Threads, NEW label \in Labels,
           pc' = [pc EXCEPT ![t] = label],
           t = MainThread => label \in MainLabels,
           t \in OnConnects => label \in ConnectLabels,
           t = Operator => label \in {"idle", "adding", "removing"}
    PROVE  PcOK'
<1>. PcOK
  OBVIOUS
<1>1. /\ pc' \in [Threads -> Labels] /\ pc'[t] = label
      /\ \A u \in Threads : u # t => pc'[u] = pc[u]
  BY DEF PcOK
<1>2. pc'[MainThread] \in MainLabels
  BY <1>1, ThreadFacts DEF PcOK
<1>3. pc'[Operator] \in {"idle", "adding", "removing"}
  BY <1>1, ThreadFacts DEF PcOK
<1>4. \A u \in OnConnects : pc'[u] \in ConnectLabels
  BY <1>1, ThreadFacts DEF PcOK
<1>. QED
  BY <1>1, <1>2, <1>3, <1>4 DEF PcOK

LEMMA PcStep == ASSUME IInv, [Next]_vars PROVE PcOK'
<1>. USE ThreadFacts DEF PcOK, Goto, MainLabels, ConnectLabels, Labels
<1>. PcOK
  BY DEF IInv, Parts
<1>1. CASE Start \/ Stop \/ StopUnsubscribe \/ StopUnsubscribed \/ StopDisconnect
  <2>1. \E label \in MainLabels : pc' = [pc EXCEPT ![MainThread] = label]
    BY <1>1 DEF Start, Stop, StopUnsubscribe, StopUnsubscribed, StopDisconnect
  <2>2. PICK label \in MainLabels : pc' = [pc EXCEPT ![MainThread] = label]
    BY <2>1
  <2>. QED
    BY <2>2, SetPc
<1>2. CASE StartConnected
  <2>. DEFINE goes == [pc EXCEPT ![MainThread] = "started"]
  <2>1. goes \in [Threads -> Labels] /\ OnConnected(goes)
    BY <1>2 DEF StartConnected
  <2>. HIDE DEF goes
  <2>2. /\ Current \in OnConnects /\ pc' \in [Threads -> Labels]
        /\ pc'[Current] = "load"
        /\ \A t \in Threads : t # Current => pc'[t] = goes[t]
    BY <2>1, OnConnectedPc DEF IInv, Parts
  <2>. QED
    BY <2>2 DEF goes
<1>3. CASE Reconnect
  <2>1. /\ Current \in OnConnects /\ pc' \in [Threads -> Labels]
        /\ pc'[Current] = "load"
        /\ \A t \in Threads : t # Current => pc'[t] = pc[t]
    BY <1>3, OnConnectedPc DEF Reconnect, IInv, Parts
  <2>. QED
    BY <2>1
<1>4. ASSUME NEW t \in OnConnects,
             \/ LoadArray(t) \/ LoadLength(t)
             \/ SubscribeToTopics(t) \/ TopicSubscribed(t)
      PROVE  PcOK'
  <2>1. \E label \in ConnectLabels : pc' = [pc EXCEPT ![t] = label]
    BY <1>4 DEF LoadArray, LoadLength, SubscribeToTopics, TopicSubscribed
  <2>2. PICK label \in ConnectLabels : pc' = [pc EXCEPT ![t] = label]
    BY <2>1
  <2>. QED
    BY <2>2, SetPc
<1>5. ASSUME NEW topic \in Topics,
             AddSubscription(topic) \/ RemoveSubscription(topic)
      PROVE  PcOK'
  BY <1>5 DEF AddSubscription, RemoveSubscription
<1>6. CASE AddAppend \/ RemoveCut
  BY <1>6 DEF AddAppend, RemoveCut, EndOperation
<1>7. CASE UNCHANGED pc
  BY <1>7
<1>. QED
  BY <1>1, <1>2, <1>3, <1>4, <1>5, <1>6, <1>7
  DEF Next, Main, Paho, OnConnect, Read, Dispatch, ConnectionLost,
      MessageHandler, MessageProcessed, BrokerAnswers, BrokerPublishes,
      LinkBreaks, threads, vars

LEMMA ThreadsStep == ASSUME IInv, [Next]_vars PROVE ThreadsOK'
<1>. USE ThreadFacts DEF ThreadsOK
<1>. ThreadsOK
  BY DEF IInv, Parts
<1>1. CASE Start \/ Stop \/ StartConnected \/ StopDisconnect
  <2>1. /\ mutex' \in {Free, MainThread} /\ isRunning' \in BOOLEAN
        /\ i' = i \/ i' = [i EXCEPT ![MainThread] = 1]
        /\ UNCHANGED <<range, token, wants>>
    BY <1>1 DEF Start, Stop, StartConnected, StopDisconnect
  <2>. QED
    BY <2>1
<1>2. CASE StopUnsubscribe
  BY <1>2 DEF StopUnsubscribe, Unsubscribe, Request
<1>3. CASE StopUnsubscribed
  BY <1>3 DEF StopUnsubscribed
<1>4. ASSUME NEW t \in OnConnects, LoadArray(t) PROVE ThreadsOK'
  <2>1. range' \in [OnConnects -> [len : Nat, array : Seq(Topics)]]
    <3>1. range' = [range EXCEPT ![t].array = <<>>]
      BY <1>4 DEF LoadArray
    <3>2. <<>> \in Seq(Topics)
      OBVIOUS
    <3>. QED
      BY <3>1, <3>2
  <2>. QED
    BY <1>4, <2>1 DEF LoadArray
<1>5. ASSUME NEW t \in OnConnects, LoadLength(t) PROVE ThreadsOK'
  <2>1. range' \in [OnConnects -> [len : Nat, array : Seq(Topics)]]
    <3>1. len \in Nat
      BY DEF IInv, Parts, ListOK
    <3>2. range' = [range EXCEPT ![t].len = len]
      BY <1>5 DEF LoadLength
    <3>. QED
      BY <3>1, <3>2
  <2>. QED
    BY <1>5, <2>1 DEF LoadLength
<1>6. ASSUME NEW t \in OnConnects, SubscribeToTopics(t) PROVE ThreadsOK'
  BY <1>6 DEF SubscribeToTopics, Subscribe, Request
<1>7. ASSUME NEW t \in OnConnects, TopicSubscribed(t) PROVE ThreadsOK'
  BY <1>7 DEF TopicSubscribed
<1>8. ASSUME NEW topic \in Topics,
             AddSubscription(topic) \/ RemoveSubscription(topic)
      PROVE  ThreadsOK'
  BY <1>8 DEF AddSubscription, RemoveSubscription, BeginOperation, Subscribe,
     Unsubscribe, Request
<1>9. CASE AddAppend
  <2>1. range' \in [OnConnects -> [len : Nat, array : Seq(Topics)]]
    <3>1. CASE range' = range
      BY <3>1
    <3>2. CASE range' # range
      <4>1. ~ (len < Len(array))
            /\ range' = [t \in OnConnects |->
                           IF range[t].array = <<>>
                           THEN [range[t] EXCEPT !.array = array] ELSE range[t]]
        BY <1>9, <3>2 DEF AddAppend
      <4>2. array \in Seq(Topics)
        <5>1. /\ array \in Seq(Topics \cup {Nil})
              /\ \A j \in 1 .. Len(array) : array[j] \in Topics
          BY <4>1 DEF IInv, Parts, ListOK
        <5>. QED
          BY <5>1
      <4>. QED
        BY <4>1, <4>2
    <3>. QED
      BY <3>1, <3>2
  <2>. QED
    BY <1>9, <2>1 DEF AddAppend, EndOperation
<1>10. CASE RemoveCut
  BY <1>10 DEF RemoveCut, EndOperation
<1>11. CASE Read
  <2>1. token' = token \/ \E t \in Threads :
          token' = [token EXCEPT ![t] = IF @ = "pending" THEN "ok" ELSE @]
    BY <1>11 DEF Read, IInv, Parts, WireOK, Packets
  <2>. QED
    BY <1>11, <2>1 DEF Read
<1>12. CASE ConnectionLost
  BY <1>12 DEF ConnectionLost
<1>13. CASE UNCHANGED <<mutex, isRunning, i, range, wants, token>>
  BY <1>13
<1>. QED
  BY <1>1, <1>2, <1>3, <1>4, <1>5, <1>6, <1>7, <1>8, <1>9, <1>10, <1>11, <1>12,
     <1>13
  DEF Next, Main, Paho, OnConnect, Reconnect, Dispatch, MessageHandler,
      MessageProcessed, BrokerAnswers, BrokerPublishes, LinkBreaks, threads, vars

LEMMA ListStep == ASSUME IInv, [Next]_vars PROVE ListOK'
<1>. USE SubscriberAssumption DEF IInv, Parts, ListOK, slice, threads, wire, router
<1>1. CASE AddAppend
  <2>1. CASE token[Operator] = "error"
    BY <1>1, <2>1 DEF AddAppend
  <2>. SUFFICES ASSUME token[Operator] # "error" PROVE ListOK'
    BY <2>1
  <2>2. wants \in Topics
    BY <1>1, ThreadFacts DEF AddAppend, RangesOK
  <2>3. doubled' \subseteq Topics /\ len' = len + 1
    BY <1>1, <2>2 DEF AddAppend
  <2>4. CASE len < Len(array)
    <3>1. array' = [array EXCEPT ![len + 1] = wants]
      BY <1>1, <2>4 DEF AddAppend
    <3>2. array' \in Seq(Topics \cup {Nil}) /\ Len(array') = Len(array)
      BY <2>2, <2>4, <3>1
    <3>3. \A j \in 1 .. len + 1 : array'[j] \in Topics
      BY <2>2, <2>4, <3>1
    <3>. QED
      BY <2>3, <2>4, <3>2, <3>3
  <2>5. CASE ~ (len < Len(array))
    <3>. DEFINE free == [j \in 1 .. len - 1 |-> Nil]
    <3>1. Append(array, wants) \in Seq(Topics \cup {Nil})
      BY <2>2
    <3>2. len - 1 \in Nat /\ len = Len(array)
      BY <2>5
    <3>3. free \in Seq(Topics \cup {Nil}) /\ Len(free) = len - 1
      BY <3>2
    <3>4. array' = Append(array, wants) \o free
      BY <1>1, <2>5 DEF AddAppend
    <3>5. /\ array' \in Seq(Topics \cup {Nil})
          /\ Len(array') = len + 1 + (len - 1)
          /\ \A j \in 1 .. len + 1 : array'[j] = Append(array, wants)[j]
      BY <3>1, <3>2, <3>3, <3>4
    <3>. QED
      BY <2>2, <2>3, <3>2, <3>5
  <2>. QED
    BY <2>4, <2>5
<1>2. CASE RemoveCut
  <2>1. CASE token[Operator] = "error" \/ wants \notin Tracked
    BY <1>2, <2>1 DEF RemoveCut
  <2>2. CASE ~ (token[Operator] = "error" \/ wants \notin Tracked)
    <3>1. len # 0
      BY <2>2 DEF Tracked
    <3>2. \A j \in Moving : j \in Int /\ j <= len - 1
      BY ThreadFacts DEF Moving
    <3>3. /\ len' = len - 1 /\ doubled' = doubled
          /\ array' = [j \in 1 .. Len(array) |->
                         IF j \in Moving THEN array[j + 1] ELSE array[j]]
      BY <1>2, <2>2 DEF RemoveCut
    <3>4. \A j \in 1 .. Len(array) : array'[j] \in Topics \cup {Nil}
      BY <3>2, <3>3
    <3>5. array' \in Seq(Topics \cup {Nil}) /\ Len(array') = Len(array)
      BY <3>3, <3>4
    <3>6. \A j \in 1 .. len - 1 : array'[j] \in Topics
      BY <3>2, <3>3
    <3>. QED
      BY <3>1, <3>3, <3>5, <3>6
  <2>. QED
    BY <2>1, <2>2
<1>3. CASE ~ (AddAppend \/ RemoveCut)
  BY <1>3 DEF Next, Main, Paho, OnConnect, Start, StartConnected, Stop,
     StopUnsubscribe, StopUnsubscribed, StopDisconnect, LoadArray, LoadLength,
     SubscribeToTopics, TopicSubscribed, AddSubscription, RemoveSubscription,
     BeginOperation, Read, Dispatch, ConnectionLost, Reconnect, MessageHandler,
     MessageProcessed, BrokerAnswers, BrokerPublishes, LinkBreaks, vars
<1>. QED
  BY <1>1, <1>2, <1>3

LEMMA WireStep == ASSUME IInv, [Next]_vars PROVE WireOK'
<1>. USE ThreadFacts DEF WireOK
<1>. WireOK
  BY DEF IInv, Parts
<1>1. CASE StartConnected \/ ConnectionLost \/ Reconnect
  BY <1>1 DEF StartConnected, ConnectionLost, Reconnect, OnConnected, wire, router
<1>2. CASE StopDisconnect \/ LinkBreaks
  <2>1. <<>> \in Seq(Requests) /\ <<>> \in Seq(Packets)
    OBVIOUS
  <2>. QED
    BY <1>2, <2>1 DEF StopDisconnect, LinkBreaks, router
<1>3. ASSUME NEW t \in Threads, NEW topic \in Topics \cup {Nil, Garbage},
             \/ Subscribe(t, topic) /\ topic # Nil
             \/ Unsubscribe(t, topic) /\ topic \in Topics,
             UNCHANGED <<conn, inbound, subscribed, parked, handler>>
      PROVE  WireOK'
  <2>1. CASE conn = "connected"
    <3>. PICK kind \in {"subscribe", "unsubscribe"} :
           outbound' = Append(outbound, [kind |-> kind, topic |-> topic, by |-> t])
      BY <1>3, <2>1 DEF Subscribe, Unsubscribe, Request
    <3>1. [kind |-> kind, topic |-> topic, by |-> t] \in Requests
      BY <1>3 DEF Requests
    <3>2. outbound' \in Seq(Requests)
      BY <3>1
    <3>3. routes' \subseteq Topics \cup {Garbage}
      BY <1>3 DEF Subscribe, Unsubscribe
    <3>. QED
      BY <1>3, <3>2, <3>3
  <2>2. CASE conn # "connected"
    BY <1>3, <2>2 DEF Subscribe, Unsubscribe, Request
  <2>. QED
    BY <2>1, <2>2
<1>4. CASE StopUnsubscribe
  <2>1. array[i[MainThread]] \in Topics
    BY <1>4 DEF StopUnsubscribe, IInv, Parts, ListOK, MainOK, ThreadsOK
  <2>. QED
    BY <1>3, <1>4, <2>1 DEF StopUnsubscribe
<1>5. ASSUME NEW t \in OnConnects, SubscribeToTopics(t) PROVE WireOK'
  <2>1. CASE i[t] <= range[t].len
    <3>1. PICK topic \in RangeTopics(t) : Subscribe(t, topic)
      BY <1>5, <2>1 DEF SubscribeToTopics
    <3>2. topic \in Topics \cup {Garbage}
      <4>1. /\ i[t] \in Nat \ {0} /\ range[t].len \in Nat
            /\ \A j \in 1 .. range[t].len :
                 j <= Len(Cells(t)) => Cells(t)[j] \in Topics
        BY <1>5 DEF SubscribeToTopics, IInv, Parts, RangesOK, ThreadsOK
      <4>. QED
        BY <2>1, <3>1, <4>1 DEF RangeTopics, Cells
    <3>3. topic # Nil
      BY <3>2, TopicFacts
    <3>. QED
      BY <1>3, <1>5, <3>1, <3>2, <3>3 DEF SubscribeToTopics
  <2>2. CASE ~ (i[t] <= range[t].len)
    BY <1>5, <2>2 DEF SubscribeToTopics
  <2>. QED
    BY <2>1, <2>2
<1>6. ASSUME NEW topic \in Topics,
             AddSubscription(topic) \/ RemoveSubscription(topic)
      PROVE  WireOK'
  <2>1. topic # Nil
    BY TopicFacts
  <2>. QED
    BY <1>3, <1>6, <2>1 DEF AddSubscription, RemoveSubscription, BeginOperation
<1>7. CASE Read
  <2>1. Head(inbound) \in Packets /\ Tail(inbound) \in Seq(Packets)
    BY <1>7 DEF Read
  <2>2. CASE Head(inbound).kind = "publish"
    <3>1. Head(inbound).topic \in Topics
      BY <2>1, <2>2 DEF Packets
    <3>2. parked' = Append(parked, Head(inbound).topic) /\ Len(parked) < Slots
      BY <1>7, <2>2 DEF Read
    <3>3. parked' \in Seq(Topics) /\ Len(parked') = Len(parked) + 1
      BY <3>1, <3>2
    <3>. QED
      BY <1>7, <2>1, <3>2, <3>3, BoundFacts DEF Read
  <2>3. CASE Head(inbound).kind # "publish"
    BY <1>7, <2>1, <2>3 DEF Read
  <2>. QED
    BY <2>2, <2>3
<1>8. CASE Dispatch
  <2>1. Tail(parked) \in Seq(Topics) /\ Len(Tail(parked)) = Len(parked) - 1
    BY <1>8 DEF Dispatch
  <2>. QED
    BY <1>8, <2>1, BoundFacts DEF Dispatch, wire
<1>12. CASE MessageHandler \/ MessageProcessed
  BY <1>12 DEF MessageHandler, MessageProcessed, wire
<1>9. CASE BrokerAnswers
  <2>1. Head(outbound) \in Requests /\ Tail(outbound) \in Seq(Requests)
    BY <1>9 DEF BrokerAnswers
  <2>2. [kind |-> "ack", by |-> Head(outbound).by] \in Packets
    BY <2>1 DEF Packets, Requests
  <2>3. inbound' \in Seq(Packets)
    BY <1>9, <2>2 DEF BrokerAnswers
  <2>4. subscribed' \subseteq Topics \cup {Garbage}
    BY <1>9, <2>1 DEF BrokerAnswers, Requests
  <2>. QED
    BY <1>9, <2>1, <2>3, <2>4 DEF BrokerAnswers, router
<1>10. ASSUME NEW topic \in Topics, BrokerPublishes(topic) PROVE WireOK'
  <2>1. [kind |-> "publish", topic |-> topic] \in Packets
    BY DEF Packets
  <2>. QED
    BY <1>10, <2>1 DEF BrokerPublishes, router
<1>11. CASE UNCHANGED <<conn, outbound, inbound, routes, subscribed, parked,
                        handler>>
  BY <1>11
<1>. QED
  BY <1>1, <1>2, <1>4, <1>5, <1>6, <1>7, <1>8, <1>9, <1>10, <1>11, <1>12
  DEF Next, Main, Paho, OnConnect, Start, Stop, StopUnsubscribed, LoadArray,
      LoadLength, TopicSubscribed, AddAppend, RemoveCut, EndOperation, wire,
      router, vars

LEMMA CountsStep == ASSUME IInv, [Next]_vars PROVE CountsOK'
<1>. USE DEF CountsOK
<1>. /\ CountsOK /\ parked \in Seq(Topics)
     /\ Cardinality(Publishes(inbound)) \in Nat
  BY PublishesFinite DEF IInv, Parts, WireOK
<1>1. CASE StopDisconnect \/ LinkBreaks
  <2>1. Cardinality(Publishes(inbound')) = 0
    BY <1>1, PublishesNone DEF StopDisconnect, LinkBreaks
  <2>2. /\ UNCHANGED <<messageCount, handler, parked, published, ops>>
        /\ breaks' \in 0 .. MaxBreaks
    BY <1>1, BoundFacts DEF StopDisconnect, LinkBreaks, router
  <2>. QED
    BY <2>1, <2>2
<1>2. ASSUME NEW topic \in Topics,
             AddSubscription(topic) \/ RemoveSubscription(topic)
      PROVE  CountsOK'
  BY <1>2, BoundFacts
  DEF AddSubscription, RemoveSubscription, BeginOperation
<1>3. CASE Read
  <2>1. Head(inbound) \in Packets
    BY <1>3 DEF Read, IInv, Parts, WireOK
  <2>2. Cardinality(Publishes(inbound')) = Cardinality(Publishes(inbound))
          - (IF Head(inbound).kind = "publish" THEN 1 ELSE 0)
    BY <1>3, PublishesTail DEF Read, IInv, Parts, WireOK
  <2>3. Len(parked') = Len(parked)
          + (IF Head(inbound).kind = "publish" THEN 1 ELSE 0)
    BY <1>3, <2>1 DEF Read, Packets
  <2>4. UNCHANGED <<messageCount, handler, published, breaks, ops>>
    BY <1>3 DEF Read
  <2>5. /\ Len(parked) \in Nat /\ Cardinality(Publishes(inbound)) \in Nat
        /\ messageCount \in Nat /\ published \in Nat
    OBVIOUS
  <2>6. /\ Len(parked') \in Int /\ Cardinality(Publishes(inbound')) \in Int
        /\ Len(parked') + Cardinality(Publishes(inbound'))
             = Len(parked) + Cardinality(Publishes(inbound))
    BY <2>2, <2>3, <2>5
  <2>7. messageCount + (IF handler = "locking" THEN 1 ELSE 0) + Len(parked')
          + Cardinality(Publishes(inbound')) <= published
    BY <2>5, <2>6
  <2>. QED
    BY <2>4, <2>7
<1>4. CASE Dispatch
  <2>1. /\ Len(parked') = Len(parked) - 1
        /\ handler = "idle" /\ handler' \in {"locking", "idle"}
    BY <1>4 DEF Dispatch
  <2>. QED
    BY <1>4, <2>1 DEF Dispatch, wire
<1>5. CASE MessageHandler \/ MessageProcessed
  BY <1>5 DEF MessageHandler, MessageProcessed, wire
<1>6. CASE BrokerAnswers
  <2>1. Head(outbound) \in Requests
    BY <1>6 DEF BrokerAnswers, IInv, Parts, WireOK
  <2>2. [kind |-> "ack", by |-> Head(outbound).by] \in Packets
    BY <2>1 DEF Packets, Requests
  <2>3. Cardinality(Publishes(inbound')) = Cardinality(Publishes(inbound))
    <3>1. inbound' = Append(inbound, [kind |-> "ack", by |-> Head(outbound).by])
      BY <1>6 DEF BrokerAnswers
    <3>2. inbound \in Seq(Packets)
      BY DEF IInv, Parts, WireOK
    <3>. QED
      BY <2>2, <3>1, <3>2, PublishesAppend
  <2>. QED
    BY <1>6, <2>3 DEF BrokerAnswers, router
<1>7. ASSUME NEW topic \in Topics, BrokerPublishes(topic) PROVE CountsOK'
  <2>1. [kind |-> "publish", topic |-> topic] \in Packets
    BY DEF Packets
  <2>2. Cardinality(Publishes(inbound')) = Cardinality(Publishes(inbound)) + 1
    BY <1>7, <2>1, PublishesAppend DEF BrokerPublishes, IInv, Parts, WireOK
  <2>3. /\ published' = published + 1 /\ published < MaxMsgs
        /\ UNCHANGED <<messageCount, handler, parked, breaks, ops>>
    BY <1>7 DEF BrokerPublishes, router
  <2>. QED
    BY <2>2, <2>3, BoundFacts
<1>8. CASE UNCHANGED <<messageCount, handler, parked, inbound, published, breaks,
                       ops>>
  BY <1>8
<1>. QED
  BY <1>1, <1>2, <1>3, <1>4, <1>5, <1>6, <1>7, <1>8
  DEF Next, Main, Paho, OnConnect, Start, StartConnected, Stop, StopUnsubscribe,
      StopUnsubscribed, LoadArray, LoadLength, SubscribeToTopics,
      TopicSubscribed, AddAppend, RemoveCut, EndOperation, ConnectionLost,
      Reconnect, wire, router, vars

-----------------------------------------------------------------------------
(* Where the threads are, and the connection.                              *)

LEMMA MainOKStep == ASSUME IInv, [Next]_vars PROVE MainOK'
<1>. USE ThreadFacts DEF MainOK
<1>. /\ MainOK /\ PcOK /\ ThreadsOK /\ ListOK
     /\ breaks \in Nat
  BY DEF IInv, Parts, CountsOK
<1>1. CASE Start
  BY <1>1 DEF Start, Goto, PcOK
<1>2. CASE StartConnected
  <2>. DEFINE goes == [pc EXCEPT ![MainThread] = "started"]
  <2>1. goes \in [Threads -> Labels] /\ OnConnected(goes)
    BY <1>2 DEF StartConnected, PcOK, Labels
  <2>. HIDE DEF goes
  <2>2. \A t \in Threads \ OnConnects : pc'[t] = goes[t]
    BY <2>1, OnConnectedPc DEF IInv, Parts
  <2>3. pc'[MainThread] = "started" /\ pc'[Operator] = pc[Operator]
    BY <2>2 DEF goes, PcOK
  <2>4. pc[MainThread] = "connect" /\ mutex = MainThread
    BY <1>2 DEF StartConnected
  <2>5. /\ mutex' = Free /\ isRunning' = TRUE /\ conn' = "connected"
        /\ breaks' = breaks
    BY <1>2 DEF StartConnected, OnConnected
  <2>. QED
    BY <2>3, <2>4, <2>5
<1>3. CASE Stop
  <2>1. /\ pc[MainThread] = "started" /\ mutex = Free /\ mutex' = MainThread
        /\ pc'[MainThread] = "unsubscribe" /\ pc'[Operator] = pc[Operator]
        /\ i'[MainThread] = 1
        /\ UNCHANGED <<isRunning, conn, breaks>>
    BY <1>3 DEF Stop, Goto, PcOK, ThreadsOK
  <2>. QED
    BY <2>1
<1>4. CASE StopUnsubscribe
  <2>1. /\ pc[MainThread] = "unsubscribe" /\ i[MainThread] <= len
        /\ pc'[MainThread] = "unsubscribing" /\ pc'[Operator] = pc[Operator]
        /\ UNCHANGED <<mutex, isRunning, conn, breaks, i, len>>
    BY <1>4 DEF StopUnsubscribe, Goto, PcOK, slice
  <2>. QED
    BY <2>1
<1>5. CASE StopUnsubscribed
  <2>1. /\ pc[MainThread] = "unsubscribing"
        /\ pc'[MainThread] = "unsubscribe" /\ pc'[Operator] = pc[Operator]
        /\ i'[MainThread] = i[MainThread] + 1
        /\ UNCHANGED <<mutex, isRunning, conn, breaks, len>>
    BY <1>5 DEF StopUnsubscribed, Goto, PcOK, ThreadsOK, slice
  <2>2. i[MainThread] \in Nat
    BY DEF ThreadsOK
  <2>. QED
    BY <2>1, <2>2
<1>6. CASE StopDisconnect
  BY <1>6 DEF StopDisconnect, Goto, PcOK
<1>7. ASSUME NEW t \in OnConnects,
             \/ LoadArray(t) \/ LoadLength(t)
             \/ SubscribeToTopics(t) \/ TopicSubscribed(t)
      PROVE  MainOK'
  <2>1. /\ pc'[MainThread] = pc[MainThread] /\ pc'[Operator] = pc[Operator]
        /\ i'[MainThread] = i[MainThread]
        /\ UNCHANGED <<mutex, isRunning, conn, breaks, len>>
    BY <1>7 DEF LoadArray, LoadLength, SubscribeToTopics, TopicSubscribed, Goto,
       PcOK, ThreadsOK, slice
  <2>. QED
    BY <2>1
<1>8. ASSUME NEW topic \in Topics,
             AddSubscription(topic) \/ RemoveSubscription(topic)
      PROVE  MainOK'
  <2>1. /\ mutex = Free /\ mutex' = Operator
        /\ pc'[MainThread] = pc[MainThread]
        /\ pc'[Operator] \in {"adding", "removing"}
        /\ UNCHANGED <<isRunning, conn, breaks, i, len>>
    BY <1>8 DEF AddSubscription, RemoveSubscription, BeginOperation, Goto, PcOK,
       slice
  <2>. QED
    BY <2>1
<1>9. CASE AddAppend \/ RemoveCut
  <2>1. /\ pc[Operator] # "idle" /\ mutex' = Free
        /\ pc'[MainThread] = pc[MainThread] /\ pc'[Operator] = "idle"
        /\ UNCHANGED <<isRunning, conn, breaks, i>>
    BY <1>9 DEF AddAppend, RemoveCut, EndOperation, Goto, PcOK
  <2>. QED
    BY <2>1
<1>10. CASE ConnectionLost
  <2>1. /\ conn \in {"dropping", "closing"}
        /\ conn' = IF conn = "dropping" THEN "reconnecting" ELSE "closed"
    BY <1>10 DEF ConnectionLost
  <2>2. UNCHANGED <<mutex, pc, isRunning, breaks, i, len>>
    BY <1>10 DEF ConnectionLost, slice
  <2>. QED
    BY <2>1, <2>2
<1>11. CASE Reconnect
  <2>1. \A t \in Threads \ OnConnects : pc'[t] = pc[t]
    BY <1>11, OnConnectedPc DEF Reconnect, IInv, Parts, PcOK
  <2>2. /\ conn = "reconnecting" /\ conn' = "connected"
        /\ UNCHANGED <<mutex, isRunning, breaks, i, len>>
    BY <1>11 DEF Reconnect, OnConnected, slice
  <2>. QED
    BY <2>1, <2>2
<1>12. CASE LinkBreaks
  <2>1. /\ conn = "connected" /\ conn' = "dropping" /\ breaks' = breaks + 1
        /\ UNCHANGED <<mutex, pc, isRunning, i, len>>
    BY <1>12 DEF LinkBreaks, slice, threads
  <2>. QED
    BY <2>1
<1>13. CASE UNCHANGED <<mutex, pc, isRunning, conn, breaks, i, len>>
  BY <1>13
<1>. QED
  BY <1>1, <1>2, <1>3, <1>4, <1>5, <1>6, <1>7, <1>8, <1>9, <1>10, <1>11, <1>12,
     <1>13
  DEF Next, Main, Paho, OnConnect, Read, Dispatch, MessageHandler,
      MessageProcessed, BrokerAnswers, BrokerPublishes, slice, threads, vars

LEMMA LinkStep == ASSUME IInv, [Next]_vars PROVE LinkOK'
<1>. USE DEF LinkOK
<1>. LinkOK /\ MainOK
  BY DEF IInv, Parts
<1>1. CASE StartConnected \/ StopDisconnect \/ ConnectionLost \/ Reconnect
           \/ LinkBreaks
  BY <1>1 DEF StartConnected, OnConnected, StopDisconnect, ConnectionLost,
     Reconnect, LinkBreaks, wire
<1>2. ASSUME NEW t \in Threads, NEW topic,
             Subscribe(t, topic) \/ Unsubscribe(t, topic),
             UNCHANGED <<conn, inbound, subscribed>>
      PROVE  LinkOK'
  BY <1>2 DEF Subscribe, Unsubscribe, Request
<1>3. CASE StopUnsubscribe
  BY <1>2, <1>3, ThreadFacts DEF StopUnsubscribe
<1>4. ASSUME NEW t \in OnConnects, SubscribeToTopics(t) PROVE LinkOK'
  BY <1>2, <1>4, ThreadFacts DEF SubscribeToTopics
<1>5. ASSUME NEW topic \in Topics,
             AddSubscription(topic) \/ RemoveSubscription(topic)
      PROVE  LinkOK'
  BY <1>2, <1>5, ThreadFacts
  DEF AddSubscription, RemoveSubscription, BeginOperation
<1>6. CASE Read \/ BrokerAnswers \/ \E topic \in Topics : BrokerPublishes(topic)
  BY <1>6 DEF Read, BrokerAnswers, BrokerPublishes
<1>7. CASE UNCHANGED <<conn, outbound, inbound, subscribed>>
  BY <1>7
<1>. QED
  BY <1>1, <1>3, <1>4, <1>5, <1>6, <1>7
  DEF Next, Main, Paho, OnConnect, Start, Stop, StopUnsubscribed, LoadArray,
      LoadLength, TopicSubscribed, AddAppend, RemoveCut, EndOperation, Dispatch,
      MessageHandler, MessageProcessed, wire, vars


\* A connection starts its thread, and moves only it and, the first time,
\* the main goroutine.
LEMMA ConnectedPc ==
    ASSUME IInv, StartConnected \/ Reconnect
    PROVE  /\ Current \in OnConnects
           /\ pc[Current] = "idle" /\ pc'[Current] = "load"
           /\ \A u \in Threads \ {Current, MainThread} : pc'[u] = pc[u]
           /\ \/ pc'[MainThread] = pc[MainThread]
              \/ pc[MainThread] = "connect" /\ pc'[MainThread] = "started"
           /\ conn # "connected" /\ conn' = "connected"
<1>. USE ThreadFacts
<1>. CountsOK /\ PcOK /\ FreshOK /\ MainOK
  BY DEF IInv, Parts
<1>0. conn \in {"none", "reconnecting"}
  BY DEF StartConnected, Reconnect, MainOK
<1>1. CASE Reconnect
  BY <1>0, <1>1, OnConnectedPc DEF Reconnect, OnConnected, PcOK, FreshOK
<1>2. CASE StartConnected
  <2>. DEFINE goes == [pc EXCEPT ![MainThread] = "started"]
  <2>1. goes \in [Threads -> Labels] /\ OnConnected(goes)
    BY <1>2 DEF StartConnected, PcOK, Labels
  <2>2. /\ goes[MainThread] = "started"
        /\ \A u \in Threads \ {MainThread} : goes[u] = pc[u]
    BY DEF PcOK
  <2>. HIDE DEF goes
  <2>3. /\ Current \in OnConnects /\ pc'[Current] = "load"
        /\ \A t \in Threads : t # Current => pc'[t] = goes[t]
    BY <2>1, OnConnectedPc
  <2>. QED
    BY <1>0, <1>2, <2>1, <2>2, <2>3 DEF StartConnected, OnConnected, FreshOK
<1>. QED
  BY <1>1, <1>2
LEMMA FreshStep == ASSUME IInv, [Next]_vars PROVE FreshOK'
<1>. USE DEF FreshOK
<1>. /\ FreshOK /\ PcOK /\ MainOK /\ breaks \in 0 .. MaxBreaks
     /\ Current \in OnConnects
  BY OnConnectFacts DEF IInv, Parts, CountsOK, Current
<1>1. CASE StartConnected \/ Reconnect
  <2>1. \A t \in OnConnects : t # Current => pc'[t] = pc[t]
    BY <1>1, ConnectedPc, ThreadFacts
  <2>2. conn' = "connected" /\ breaks' = breaks
    BY <1>1 DEF OnConnected, StartConnected, Reconnect
  <2>3. Current[2] = breaks + 1
    BY DEF Current
  <2>. QED
    BY <2>1, <2>2, <2>3
<1>2. CASE Start \/ Stop \/ StopUnsubscribe \/ StopUnsubscribed
  <2>1. \A t \in OnConnects : pc'[t] = pc[t]
    BY <1>2, ThreadFacts DEF Start, Stop, StopUnsubscribe, StopUnsubscribed,
       Goto, PcOK
  <2>2. UNCHANGED <<conn, breaks>>
    BY <1>2 DEF Start, Stop, StopUnsubscribe, StopUnsubscribed
  <2>. QED
    BY <2>1, <2>2 DEF Current
<1>3. CASE StopDisconnect
  <2>1. \A t \in OnConnects : pc'[t] = pc[t]
    BY <1>3, ThreadFacts DEF StopDisconnect, Goto, PcOK
  <2>2. conn' = "closing" /\ breaks' = breaks
    BY <1>3 DEF StopDisconnect
  <2>. QED
    BY <2>1, <2>2
<1>4. ASSUME NEW t \in OnConnects,
             \/ LoadArray(t) \/ LoadLength(t)
             \/ SubscribeToTopics(t) \/ TopicSubscribed(t)
      PROVE  FreshOK'
  <2>1. pc[t] # "idle"
    BY <1>4 DEF LoadArray, LoadLength, SubscribeToTopics, TopicSubscribed
  <2>2. \A u \in OnConnects : pc[u] = "idle" => pc'[u] = "idle"
    BY <1>4, <2>1, ThreadFacts DEF LoadArray, LoadLength, SubscribeToTopics,
       TopicSubscribed, Goto, PcOK
  <2>3. UNCHANGED <<conn, breaks>>
    BY <1>4 DEF LoadArray, LoadLength, SubscribeToTopics, TopicSubscribed
  <2>. QED
    BY <2>2, <2>3 DEF Current
<1>5. ASSUME NEW topic \in Topics,
             AddSubscription(topic) \/ RemoveSubscription(topic)
      PROVE  FreshOK'
  <2>1. \A t \in OnConnects : pc'[t] = pc[t]
    BY <1>5, ThreadFacts DEF AddSubscription, RemoveSubscription, Goto, PcOK
  <2>2. UNCHANGED <<conn, breaks>>
    BY <1>5 DEF AddSubscription, RemoveSubscription, BeginOperation
  <2>. QED
    BY <2>1, <2>2 DEF Current
<1>9. CASE AddAppend \/ RemoveCut
  <2>1. \A t \in OnConnects : pc'[t] = pc[t]
    BY <1>9, ThreadFacts DEF AddAppend, RemoveCut, EndOperation, Goto, PcOK
  <2>2. UNCHANGED <<conn, breaks>>
    BY <1>9 DEF AddAppend, RemoveCut, EndOperation
  <2>. QED
    BY <2>1, <2>2 DEF Current
<1>6. CASE ConnectionLost
  <2>1. UNCHANGED <<pc, breaks>>
    BY <1>6 DEF ConnectionLost
  <2>2. conn' \in {"dropping", "reconnecting", "none"} =>
          conn \in {"dropping", "reconnecting", "none"}
    BY <1>6 DEF ConnectionLost
  <2>. QED
    BY <2>1, <2>2 DEF Current
<1>7. CASE LinkBreaks
  <2>1. pc' = pc /\ breaks' = breaks + 1 /\ breaks' \in 0 .. MaxBreaks
    BY <1>7, BoundFacts DEF LinkBreaks, threads
  <2>2. <<"onconnect", breaks' + 1>> \in OnConnects
    BY <2>1, OnConnectFacts
  <2>3. \A t \in OnConnects : t[2] \in Nat
    BY OnConnectFacts
  <2>4. \A t \in OnConnects : t[2] > breaks' => pc[t] = "idle"
    BY <2>1, <2>3
  <2>. QED
    BY <2>1, <2>2, <2>3, <2>4 DEF Current
<1>8. CASE UNCHANGED <<pc, breaks, conn>>
  BY <1>8 DEF Current
<1>. QED
  BY <1>1, <1>2, <1>3, <1>4, <1>5, <1>6, <1>7, <1>8, <1>9
  DEF Next, Main, Paho, OnConnect, Read, Dispatch, MessageHandler,
      MessageProcessed, BrokerAnswers, BrokerPublishes, threads, vars

Waiting == {"subscribing", "unsubscribing", "adding", "removing"}

LEMMA TokensStep == ASSUME IInv, [Next]_vars PROVE TokensOK'
<1>. USE ThreadFacts DEF TokensOK
<1>. TokensOK /\ PcOK /\ ThreadsOK
  BY DEF IInv, Parts
\* A thread begins to wait, with a token, or has waited and goes on.
<1>1. ASSUME NEW t \in Threads, NEW label \in Labels, NEW result,
             result # "none" <=> label \in Waiting,
             pc' = [pc EXCEPT ![t] = label],
             token' = [token EXCEPT ![t] = result]
      PROVE  TokensOK'
  BY <1>1 DEF PcOK, ThreadsOK, Waiting
<1>2. CASE Start \/ Stop \/ StopDisconnect
  <2>1. /\ \E label \in Labels \ Waiting : pc' = [pc EXCEPT ![MainThread] = label]
        /\ pc[MainThread] \notin Waiting /\ token' = token
    BY <1>2 DEF Start, Stop, StopDisconnect, Goto, Labels, Waiting
  <2>. QED
    BY <2>1 DEF PcOK, Waiting
<1>3. CASE StopUnsubscribe
  BY <1>1, <1>3 DEF StopUnsubscribe, Unsubscribe, Request, Goto, Labels, Waiting
<1>4. CASE StopUnsubscribed
  BY <1>1, <1>4 DEF StopUnsubscribed, Goto, Labels, Waiting
<1>5. ASSUME NEW t \in OnConnects, LoadArray(t) \/ LoadLength(t)
      PROVE  TokensOK'
  <2>1. /\ \E label \in Labels \ Waiting : pc' = [pc EXCEPT ![t] = label]
        /\ pc[t] \notin Waiting /\ token' = token
    BY <1>5 DEF LoadArray, LoadLength, Goto, Labels, Waiting
  <2>. QED
    BY <2>1 DEF PcOK, Waiting
<1>6. ASSUME NEW t \in OnConnects, SubscribeToTopics(t) PROVE TokensOK'
  <2>1. CASE i[t] <= range[t].len
    <3>. PICK topic \in RangeTopics(t) : Subscribe(t, topic)
      BY <1>6, <2>1 DEF SubscribeToTopics
    <3>1. pc' = [pc EXCEPT ![t] = "subscribing"]
      BY <1>6, <2>1 DEF SubscribeToTopics, Goto
    <3>2. \E state \in {"pending", "error"} : token' = [token EXCEPT ![t] = state]
      BY DEF Subscribe, Request
    <3>3. /\ pc'[t] = "subscribing" /\ token'[t] \in {"pending", "error"}
          /\ \A u \in Threads : u # t => pc'[u] = pc[u] /\ token'[u] = token[u]
      BY <3>1, <3>2 DEF PcOK, ThreadsOK
    <3>. QED
      BY <1>1, <3>3 DEF Waiting
  <2>2. CASE ~ (i[t] <= range[t].len)
    BY <1>6, <2>2 DEF SubscribeToTopics, Goto, PcOK
  <2>. QED
    BY <2>1, <2>2
<1>7. ASSUME NEW t \in OnConnects, TopicSubscribed(t) PROVE TokensOK'
  BY <1>1, <1>7 DEF TopicSubscribed, Goto, Labels, Waiting
<1>8. ASSUME NEW topic \in Topics,
             AddSubscription(topic) \/ RemoveSubscription(topic)
      PROVE  TokensOK'
  BY <1>1, <1>8 DEF AddSubscription, RemoveSubscription, Subscribe, Unsubscribe,
     Request, Goto, Labels, Waiting
<1>9. CASE AddAppend \/ RemoveCut
  BY <1>1, <1>9 DEF AddAppend, RemoveCut, EndOperation, Goto, Labels, Waiting
<1>10. CASE Read \/ ConnectionLost
  <2>1. /\ \A t \in Threads : token'[t] = "none" <=> token[t] = "none"
        /\ pc' = pc
    BY <1>10 DEF Read, ConnectionLost, ThreadsOK
  <2>. QED
    BY <2>1
<1>11. CASE StartConnected \/ Reconnect
  <2>1. /\ pc'[Current] = "load" /\ pc[Current] = "idle"
        /\ \A t \in Threads : t # Current =>
             (pc'[t] \in Waiting <=> pc[t] \in Waiting)
    BY <1>11, ConnectedPc DEF Waiting
  <2>2. token' = token
    BY <1>11 DEF StartConnected, Reconnect
  <2>. QED
    BY <2>1, <2>2 DEF Waiting
<1>12. CASE UNCHANGED <<pc, token>>
  BY <1>12
<1>. QED
  BY <1>2, <1>3, <1>4, <1>5, <1>6, <1>7, <1>8, <1>9, <1>10, <1>11, <1>12
  DEF Next, Main, Paho, OnConnect, Dispatch, MessageHandler, MessageProcessed,
      BrokerAnswers, BrokerPublishes, LinkBreaks, threads, vars


LEMMA RangesStep == ASSUME IInv, [Next]_vars PROVE RangesOK'
<1>. USE ThreadFacts DEF RangesOK, Cells
<1>. RangesOK /\ PcOK /\ ThreadsOK /\ ListOK
  BY DEF IInv, Parts
\* The ranges, and what they read, stay as they are.
<1>1. ASSUME UNCHANGED <<range, array>>,
             \A t \in OnConnects : i'[t] = i[t] /\ (pc'[t] = pc[t] \/ pc'[t] = "load"),
             pc'[Operator] # "idle" => wants' \in Topics
      PROVE  RangesOK'
  BY <1>1
<1>2. CASE Start \/ Stop \/ StopUnsubscribe \/ StopUnsubscribed \/ StopDisconnect
  <2>1. /\ UNCHANGED <<range, array, wants>>
        /\ \A t \in OnConnects : i'[t] = i[t] /\ pc'[t] = pc[t]
        /\ pc'[Operator] = pc[Operator]
    BY <1>2 DEF Start, Stop, StopUnsubscribe, StopUnsubscribed, StopDisconnect,
       Goto, PcOK, ThreadsOK, slice
  <2>. QED
    BY <1>1, <2>1
<1>3. CASE StartConnected \/ Reconnect
  <2>1. /\ \A t \in OnConnects : pc'[t] = pc[t] \/ pc'[t] = "load"
        /\ pc'[Operator] = pc[Operator]
    BY <1>3, ConnectedPc
  <2>2. UNCHANGED <<range, array, i, wants>>
    BY <1>3 DEF StartConnected, Reconnect, slice
  <2>. QED
    BY <1>1, <2>1, <2>2
<1>4. ASSUME NEW t \in OnConnects, LoadArray(t) PROVE RangesOK'
  <2>1. /\ range' = [range EXCEPT ![t].array = <<>>]
        /\ pc' = [pc EXCEPT ![t] = "load length"]
        /\ UNCHANGED <<array, i, wants>>
    BY <1>4 DEF LoadArray, Goto, slice
  <2>2. /\ range'[t].len = range[t].len
        /\ \A u \in OnConnects : u # t => range'[u] = range[u]
        /\ pc'[t] = "load length"
        /\ \A u \in Threads : u # t => pc'[u] = pc[u]
    BY <2>1 DEF PcOK, ThreadsOK
  <2>. QED
    BY <2>1, <2>2
<1>5. ASSUME NEW t \in OnConnects, LoadLength(t) PROVE RangesOK'
  <2>1. /\ range' = [range EXCEPT ![t].len = len]
        /\ pc' = [pc EXCEPT ![t] = "next"] /\ i' = [i EXCEPT ![t] = 1]
        /\ UNCHANGED <<array, wants>>
    BY <1>5 DEF LoadLength, Goto, slice
  <2>2. /\ range'[t].len = len /\ range'[t].array = range[t].array
        /\ \A u \in OnConnects : u # t => range'[u] = range[u]
        /\ pc'[t] = "next" /\ i'[t] = 1
        /\ \A u \in Threads : u # t => pc'[u] = pc[u] /\ i'[u] = i[u]
    BY <2>1 DEF PcOK, ThreadsOK
  <2>3. len \in Nat
    BY DEF ListOK
  <2>4. range[t].array \in Seq(Topics)
    BY DEF ThreadsOK
  <2>5. \A j \in 1 .. len :
          j <= Len(Cells(t)) => Cells(t)[j] \in Topics
    BY <2>4 DEF ListOK
  <2>6. Cells(t)' = Cells(t)
    BY <2>1, <2>2
  <2>7. \A u \in OnConnects : u # t => Cells(u)' = Cells(u)
    BY <2>1, <2>2
  <2>. HIDE DEF Cells
  <2>8. \A u \in OnConnects \ {t} :
          /\ i'[u] \in 0 .. range'[u].len + 1
          /\ pc'[u] \in {"next", "subscribing"} =>
               /\ i'[u] # 0
               /\ \A j \in 1 .. range'[u].len :
                    j <= Len(Cells(u)') => Cells(u)'[j] \in Topics
          /\ pc'[u] = "subscribing" => i'[u] <= range'[u].len
    BY <2>2, <2>7
  <2>9. /\ i'[t] \in 0 .. range'[t].len + 1 /\ i'[t] # 0
        /\ \A j \in 1 .. range'[t].len :
             j <= Len(Cells(t)') => Cells(t)'[j] \in Topics
    BY <2>2, <2>3, <2>5, <2>6
  <2>. QED
    BY <2>1, <2>2, <2>8, <2>9
<1>6. ASSUME NEW t \in OnConnects, SubscribeToTopics(t) \/ TopicSubscribed(t)
      PROVE  RangesOK'
  <2>1. UNCHANGED <<range, array, wants>>
    BY <1>6 DEF SubscribeToTopics, TopicSubscribed, slice
  <2>2. /\ pc[t] \in {"next", "subscribing"}
        /\ i'[t] = IF pc[t] = "next" THEN i[t] ELSE i[t] + 1
        /\ pc'[t] \in {"next", "subscribing", "done"}
        /\ pc[t] = "subscribing" => pc'[t] = "next"
        /\ pc'[t] = "subscribing" => i[t] <= range[t].len
        /\ \A u \in Threads : u # t => pc'[u] = pc[u] /\ i'[u] = i[u]
    BY <1>6 DEF SubscribeToTopics, TopicSubscribed, Goto, PcOK, ThreadsOK
  <2>3. i[t] \in Nat /\ range[t].len \in Nat
    BY DEF ThreadsOK
  <2>4. \A u \in OnConnects : Cells(u)' = Cells(u)
    BY <2>1
  <2>. HIDE DEF Cells
  <2>5. i'[t] \in 0 .. range[t].len + 1 /\ i'[t] # 0
    BY <2>2, <2>3
  <2>. QED
    BY <2>1, <2>2, <2>4, <2>5
<1>7. ASSUME NEW topic \in Topics,
             AddSubscription(topic) \/ RemoveSubscription(topic)
      PROVE  RangesOK'
  <2>1. /\ UNCHANGED <<range, array, i>> /\ wants' = topic
        /\ \A t \in OnConnects : pc'[t] = pc[t]
    BY <1>7 DEF AddSubscription, RemoveSubscription, BeginOperation, Goto, PcOK,
       slice
  <2>. QED
    BY <1>1, <2>1
<1>8. CASE AddAppend \/ RemoveCut
  <2>1. /\ pc'[Operator] = "idle" /\ i' = i
        /\ \A t \in OnConnects : pc'[t] = pc[t]
    BY <1>8 DEF AddAppend, RemoveCut, EndOperation, Goto, PcOK
  \* A cell of the array holds a topic if it did.
  <2>2. ASSUME range' = range, Len(array') = Len(array),
               \A j \in 1 .. Len(array) :
                 array[j] \in Topics => array'[j] \in Topics
        PROVE  RangesOK'
    <3>1. \A t \in OnConnects :
            /\ Len(Cells(t)') = Len(Cells(t))
            /\ \A j \in 1 .. Len(Cells(t)) :
                 Cells(t)[j] \in Topics => Cells(t)'[j] \in Topics
      BY <2>2
    <3>2. \A t \in OnConnects : Len(Cells(t)) \in Nat /\ range[t].len \in Nat
      BY DEF ThreadsOK, ListOK
    <3>. HIDE DEF Cells
    <3>. QED
      BY <2>1, <2>2, <3>1, <3>2
  <2>3. CASE UNCHANGED <<array, range>>
    BY <2>1, <2>2, <2>3
  <2>4. CASE AddAppend /\ token[Operator] # "error" /\ len < Len(array)
    <3>1. /\ array' = [array EXCEPT ![len + 1] = wants] /\ range' = range
          /\ wants \in Topics
      BY <2>4 DEF AddAppend
    <3>2. /\ Len(array') = Len(array)
          /\ \A j \in 1 .. Len(array) : array'[j] = array[j] \/ array'[j] = wants
      BY <2>4, <3>1 DEF ListOK
    <3>. QED
      BY <2>2, <3>1, <3>2
  <2>5. CASE AddAppend /\ token[Operator] # "error" /\ ~ (len < Len(array))
    <3>1. range' = [t \in OnConnects |->
                      IF range[t].array = <<>>
                      THEN [range[t] EXCEPT !.array = array] ELSE range[t]]
      BY <2>5 DEF AddAppend
    <3>2. \A t \in OnConnects : range'[t].len = range[t].len
                                /\ Cells(t)' = Cells(t)
      BY <3>1 DEF ThreadsOK, ListOK
    <3>. HIDE DEF Cells
    <3>. QED
      BY <2>1, <3>2
  <2>6. CASE RemoveCut /\ ~ UNCHANGED <<array, range>>
    <3>1. /\ array' = [j \in 1 .. Len(array) |->
                         IF j \in Moving THEN array[j + 1] ELSE array[j]]
          /\ range' = range
      BY <2>6 DEF RemoveCut, slice, ListOK
    <3>2. \A j \in Moving : j \in Int /\ j <= len - 1
      BY DEF Moving
    <3>3. Len(array') = Len(array)
      BY <3>1 DEF ListOK
    <3>4. \A j \in 1 .. Len(array) :
                 array[j] \in Topics => array'[j] \in Topics
      BY <3>1, <3>2 DEF ListOK
    <3>. QED
      BY <2>2, <3>1, <3>3, <3>4
  <2>7. AddAppend /\ token[Operator] = "error" => UNCHANGED <<array, range>>
    BY DEF AddAppend, slice
  <2>. QED
    BY <1>8, <2>3, <2>4, <2>5, <2>6, <2>7
<1>9. CASE UNCHANGED <<pc, i, range, wants, array>>
  BY <1>9
<1>. QED
  BY <1>2, <1>3, <1>4, <1>5, <1>6, <1>7, <1>8, <1>9
  DEF Next, Main, Paho, OnConnect, Read, Dispatch, ConnectionLost,
      MessageHandler, MessageProcessed, BrokerAnswers, BrokerPublishes,
      LinkBreaks, slice, threads, vars

-----------------------------------------------------------------------------
(* Requests and their answers.                                             *)

\* A thread that does not wait has nothing on its way.
LEMMA NotInFlight ==
    ASSUME FlightOK, NEW t, token[t] # "pending"
    PROVE  /\ \A k \in 1 .. Len(outbound) : outbound[k].by # t
           /\ \A k \in 1 .. Len(inbound) :
                inbound[k].kind = "ack" => inbound[k].by # t
BY DEF FlightOK

LEMMA Senders ==
    ASSUME WireOK
    PROVE  /\ \A k \in 1 .. Len(outbound) : outbound[k] \in Requests
           /\ \A k \in 1 .. Len(outbound) : outbound[k].by \in Threads
           /\ \A k \in 1 .. Len(inbound) :
                inbound[k].kind = "ack" => inbound[k].by \in Threads
<1>1. \A k \in 1 .. Len(outbound) : outbound[k] \in Requests
  BY DEF WireOK
<1>2. \A k \in 1 .. Len(inbound) : inbound[k] \in Packets
  BY DEF WireOK
<1>3. \A p \in Packets : p.kind = "ack" => p.by \in Threads
  BY DEF Packets
<1>4. \A q \in Requests : q.by \in Threads
  BY DEF Requests
<1>. QED
  BY <1>1, <1>2, <1>3, <1>4

LEMMA FlightStep == ASSUME IInv, [Next]_vars PROVE FlightOK'
<1>. USE ThreadFacts
<1>. /\ FlightOK /\ PcOK /\ ThreadsOK /\ WireOK /\ TokensOK
  BY DEF IInv, Parts
\* A thread makes a request.
<1>1. ASSUME NEW t \in Threads, NEW kind, NEW topic, Request(t, kind, topic),
             token[t] = "none", inbound' = inbound
      PROVE  FlightOK'
  <2>1. \A u \in Threads : u # t => token'[u] = token[u]
    BY <1>1 DEF Request, ThreadsOK
  <2>2. /\ \A k \in 1 .. Len(outbound) : outbound[k].by \in Threads \ {t}
        /\ \A k \in 1 .. Len(inbound) :
             inbound[k].kind = "ack" => inbound[k].by \in Threads \ {t}
    BY <1>1, NotInFlight, Senders
  <2>3. CASE conn # "connected"
    BY <1>1, <2>1, <2>2, <2>3 DEF Request, FlightOK
  <2>4. CASE conn = "connected"
    <3>. DEFINE q == [kind |-> kind, topic |-> topic, by |-> t]
    <3>1. outbound' = Append(outbound, q) /\ token'[t] = "pending" /\ q.by = t
      BY <1>1, <2>4 DEF Request, ThreadsOK
    <3>. HIDE DEF q
    <3>2. /\ Len(outbound') = Len(outbound) + 1 /\ Len(outbound) \in Nat
          /\ outbound'[Len(outbound) + 1].by = t
          /\ \A k \in 1 .. Len(outbound) : outbound'[k].by = outbound[k].by
      BY <3>1 DEF WireOK
    <3>3. \A k \in 1 .. Len(outbound') :
            k \in 1 .. Len(outbound) \/ k = Len(outbound) + 1
      BY <3>2
    <3>. QED
      BY <1>1, <2>1, <2>2, <3>1, <3>2, <3>3 DEF FlightOK
  <2>. QED
    BY <2>3, <2>4
\* A thread that has been answered goes on.
<1>2. ASSUME NEW t \in Threads, token' = [token EXCEPT ![t] = "none"],
             token[t] # "pending", UNCHANGED <<outbound, inbound>>
      PROVE  FlightOK'
  <2>1. \A u : u # t /\ u \in Threads => token'[u] = token[u]
    BY <1>2 DEF ThreadsOK
  <2>2. /\ \A k \in 1 .. Len(outbound) : outbound[k].by \in Threads \ {t}
        /\ \A k \in 1 .. Len(inbound) :
             inbound[k].kind = "ack" => inbound[k].by \in Threads \ {t}
    BY <1>2, NotInFlight, Senders
  <2>. QED
    BY <1>2, <2>1, <2>2 DEF FlightOK
<1>3. CASE StopUnsubscribe
  <2>1. token[MainThread] = "none"
    BY <1>3 DEF StopUnsubscribe, TokensOK
  <2>. QED
    BY <1>1, <1>3, <2>1 DEF StopUnsubscribe, Unsubscribe
<1>4. ASSUME NEW t \in OnConnects, SubscribeToTopics(t) PROVE FlightOK'
  <2>1. token[t] = "none"
    BY <1>4 DEF SubscribeToTopics, TokensOK
  <2>2. CASE i[t] <= range[t].len
    BY <1>1, <1>4, <2>1, <2>2 DEF SubscribeToTopics, Subscribe
  <2>3. CASE ~ (i[t] <= range[t].len)
    BY <1>4, <2>3 DEF SubscribeToTopics, FlightOK
  <2>. QED
    BY <2>2, <2>3
<1>5. ASSUME NEW topic \in Topics,
             AddSubscription(topic) \/ RemoveSubscription(topic)
      PROVE  FlightOK'
  <2>1. token[Operator] = "none"
    BY <1>5 DEF AddSubscription, RemoveSubscription, BeginOperation, TokensOK
  <2>. QED
    BY <1>1, <1>5, <2>1 DEF AddSubscription, RemoveSubscription, BeginOperation,
       Subscribe, Unsubscribe
<1>6. CASE StopUnsubscribed
  BY <1>2, <1>6 DEF StopUnsubscribed, Returned, wire
<1>7. ASSUME NEW t \in OnConnects, TopicSubscribed(t) PROVE FlightOK'
  BY <1>2, <1>7 DEF TopicSubscribed, Returned, wire
<1>8. CASE AddAppend \/ RemoveCut
  BY <1>2, <1>8 DEF AddAppend, RemoveCut, EndOperation, Returned, wire
<1>9. CASE Read
  <2>. DEFINE p == Head(inbound)
  <2>1. /\ inbound \in Seq(Packets) /\ inbound # <<>> /\ inbound' = Tail(inbound)
        /\ p = inbound[1] /\ outbound' = outbound
    BY <1>9 DEF Read, WireOK
  <2>2. /\ Len(inbound') = Len(inbound) - 1 /\ Len(inbound) \in Nat
        /\ \A k \in 1 .. Len(inbound') : /\ inbound'[k] = inbound[k + 1]
                                         /\ k + 1 \in 1 .. Len(inbound)
    BY <2>1
  <2>3. CASE p.kind = "publish"
    <3>1. token' = token
      BY <1>9, <2>3 DEF Read
    <3>. QED
      BY <2>1, <2>2, <3>1 DEF FlightOK
  <2>4. CASE p.kind # "publish"
    <3>1. p.kind = "ack" /\ p.by \in Threads
      BY <2>1, <2>4 DEF Packets
    <3>2. \A u \in Threads : u # p.by => token'[u] = token[u]
      BY <1>9, <2>4, <3>1 DEF Read, ThreadsOK
    <3>3. 1 \in 1 .. Len(inbound)
      BY <2>1
    <3>4. /\ \A k \in 1 .. Len(outbound) : outbound[k].by \in Threads \ {p.by}
          /\ \A k \in 1 .. Len(inbound) : k # 1 /\ inbound[k].kind = "ack" =>
               inbound[k].by \in Threads \ {p.by}
      BY <2>1, <3>1, <3>3, Senders DEF FlightOK
    <3>. HIDE DEF p
    <3>5. \A k \in 1 .. Len(inbound') : k + 1 # 1
      OBVIOUS
    <3>6. \A k \in 1 .. Len(outbound') : token'[outbound'[k].by] = "pending"
      BY <2>1, <3>2, <3>4 DEF FlightOK
    <3>7. \A k \in 1 .. Len(inbound') :
            inbound'[k].kind = "ack" => token'[inbound'[k].by] = "pending"
      BY <2>2, <3>2, <3>4, <3>5 DEF FlightOK
    <3>8. \A j, k \in 1 .. Len(inbound') :
            inbound'[j].kind = "ack" /\ inbound'[k].kind = "ack"
               /\ inbound'[j].by = inbound'[k].by => j = k
      BY <2>2 DEF FlightOK
    <3>9. \A j \in 1 .. Len(outbound') : \A k \in 1 .. Len(inbound') :
            inbound'[k].kind = "ack" => outbound'[j].by # inbound'[k].by
      BY <2>1, <2>2 DEF FlightOK
    <3>. QED
      BY <2>1, <3>6, <3>7, <3>8, <3>9 DEF FlightOK
  <2>. QED
    BY <2>3, <2>4
<1>10. CASE BrokerAnswers
  <2>. DEFINE q == Head(outbound)
              ack == [kind |-> "ack", by |-> q.by]
  <2>1. /\ outbound \in Seq(Requests) /\ outbound # <<>>
        /\ outbound' = Tail(outbound) /\ q = outbound[1]
        /\ inbound \in Seq(Packets) /\ inbound' = Append(inbound, ack)
        /\ ack.kind = "ack" /\ ack.by = q.by /\ token' = token
    BY <1>10 DEF BrokerAnswers, WireOK, threads
  <2>. HIDE DEF q, ack
  <2>2. /\ Len(outbound') = Len(outbound) - 1 /\ Len(outbound) \in Nat
        /\ \A k \in 1 .. Len(outbound') : /\ outbound'[k] = outbound[k + 1]
                                          /\ k + 1 \in 1 .. Len(outbound)
                                          /\ k + 1 # 1
        /\ 1 \in 1 .. Len(outbound)
    BY <2>1
  <2>3. /\ Len(inbound') = Len(inbound) + 1 /\ Len(inbound) \in Nat
        /\ inbound'[Len(inbound) + 1] = ack
        /\ \A k \in 1 .. Len(inbound) : inbound'[k] = inbound[k]
        /\ \A k \in 1 .. Len(inbound') :
             k \in 1 .. Len(inbound) \/ k = Len(inbound) + 1
    BY <2>1
  <2>4. \A k \in 1 .. Len(outbound') : token'[outbound'[k].by] = "pending"
    BY <2>1, <2>2 DEF FlightOK
  <2>5. \A k \in 1 .. Len(inbound') :
          inbound'[k].kind = "ack" => token'[inbound'[k].by] = "pending"
    BY <2>1, <2>2, <2>3 DEF FlightOK
  <2>6. \A j, k \in 1 .. Len(outbound') :
          outbound'[j].by = outbound'[k].by => j = k
    BY <2>2 DEF FlightOK
  <2>7. \A j, k \in 1 .. Len(inbound') :
          inbound'[j].kind = "ack" /\ inbound'[k].kind = "ack"
             /\ inbound'[j].by = inbound'[k].by => j = k
    BY <2>1, <2>2, <2>3 DEF FlightOK
  <2>8. \A j \in 1 .. Len(outbound') : \A k \in 1 .. Len(inbound') :
          inbound'[k].kind = "ack" => outbound'[j].by # inbound'[k].by
    <3>1. \A j \in 1 .. Len(outbound') : outbound'[j].by # q.by
      BY <2>1, <2>2 DEF FlightOK
    <3>. QED
      BY <2>1, <2>2, <2>3, <3>1 DEF FlightOK
  <2>. QED
    BY <2>4, <2>5, <2>6, <2>7, <2>8 DEF FlightOK
<1>11. ASSUME NEW topic \in Topics, BrokerPublishes(topic) PROVE FlightOK'
  <2>. DEFINE p == [kind |-> "publish", topic |-> topic]
  <2>1. /\ inbound \in Seq(Packets) /\ inbound' = Append(inbound, p)
        /\ p.kind = "publish" /\ UNCHANGED <<token, outbound>>
    BY <1>11 DEF BrokerPublishes, WireOK, threads
  <2>. HIDE DEF p
  <2>2. /\ inbound'[Len(inbound) + 1] = p
        /\ \A k \in 1 .. Len(inbound) : inbound'[k] = inbound[k]
        /\ \A k \in 1 .. Len(inbound') :
             k \in 1 .. Len(inbound) \/ k = Len(inbound) + 1
    BY <2>1
  <2>. QED
    BY <2>1, <2>2 DEF FlightOK
<1>12. CASE StopDisconnect \/ LinkBreaks
  BY <1>12 DEF StopDisconnect, LinkBreaks, FlightOK
<1>13. CASE ConnectionLost
  <2>1. outbound = <<>> /\ inbound = <<>>
    BY <1>13 DEF ConnectionLost, IInv, Parts, LinkOK
  <2>. QED
    BY <1>13, <2>1 DEF ConnectionLost, FlightOK, wire
<1>14. CASE UNCHANGED <<token, outbound, inbound>>
  BY <1>14 DEF FlightOK
<1>. QED
  BY <1>3, <1>4, <1>5, <1>6, <1>7, <1>8, <1>9, <1>10, <1>11, <1>12, <1>13, <1>14
  DEF Next, Main, Paho, OnConnect, Start, StartConnected, Stop, LoadArray,
      LoadLength, Reconnect, Dispatch, MessageHandler, MessageProcessed, wire,
      threads, vars

LEMMA SendersStep == ASSUME IInv, [Next]_vars PROVE SendersOK'
<1>. USE ThreadFacts
<1>. /\ FlightOK /\ PcOK /\ ThreadsOK /\ WireOK /\ TokensOK /\ SendersOK
  BY DEF IInv, Parts
<1>1. ASSUME NEW t \in Threads, NEW kind, NEW topic, Request(t, kind, topic),
             token[t] = "none",
             t \in OnConnects => kind = "subscribe",
             t = MainThread => kind = "unsubscribe",
             t = Operator =>
               /\ topic = wants'
               /\ kind = (IF pc'[Operator] = "adding" THEN "subscribe"
                          ELSE "unsubscribe"),
             t # Operator => wants' = wants /\ pc'[Operator] = pc[Operator]
      PROVE  SendersOK'
  <2>1. \A k \in 1 .. Len(outbound) : outbound[k].by # t
    BY <1>1, NotInFlight
  <2>2. CASE conn # "connected"
    BY <1>1, <2>1, <2>2 DEF Request, SendersOK
  <2>3. CASE conn = "connected"
    <3>. DEFINE q == [kind |-> kind, topic |-> topic, by |-> t]
    <3>1. /\ outbound' = Append(outbound, q)
          /\ q.by = t /\ q.kind = kind /\ q.topic = topic
      BY <1>1, <2>3 DEF Request
    <3>. HIDE DEF q
    <3>2. /\ outbound'[Len(outbound) + 1] = q
          /\ \A k \in 1 .. Len(outbound) : outbound'[k] = outbound[k]
          /\ \A k \in 1 .. Len(outbound') :
               k \in 1 .. Len(outbound) \/ k = Len(outbound) + 1
      BY <3>1 DEF WireOK
    <3>. QED
      BY <1>1, <2>1, <3>1, <3>2 DEF SendersOK
  <2>. QED
    BY <2>2, <2>3
<1>2. CASE StopUnsubscribe
  <2>1. /\ token[MainThread] = "none" /\ wants' = wants
        /\ pc'[Operator] = pc[Operator]
    BY <1>2 DEF StopUnsubscribe, TokensOK, Goto, PcOK
  <2>. QED
    BY <1>1, <1>2, <2>1 DEF StopUnsubscribe, Unsubscribe
<1>3. ASSUME NEW t \in OnConnects, SubscribeToTopics(t) PROVE SendersOK'
  <2>1. token[t] = "none" /\ wants' = wants /\ pc'[Operator] = pc[Operator]
    BY <1>3 DEF SubscribeToTopics, TokensOK, Goto, PcOK
  <2>2. CASE i[t] <= range[t].len
    BY <1>1, <1>3, <2>1, <2>2 DEF SubscribeToTopics, Subscribe
  <2>3. CASE ~ (i[t] <= range[t].len)
    BY <1>3, <2>1, <2>3 DEF SubscribeToTopics, SendersOK
  <2>. QED
    BY <2>2, <2>3
<1>4. ASSUME NEW topic \in Topics,
             AddSubscription(topic) \/ RemoveSubscription(topic)
      PROVE  SendersOK'
  <2>1. token[Operator] = "none" /\ wants' = topic
    BY <1>4 DEF AddSubscription, RemoveSubscription, BeginOperation, TokensOK
  <2>2. CASE AddSubscription(topic)
    BY <1>1, <2>1, <2>2 DEF AddSubscription, Subscribe, Goto, PcOK
  <2>3. CASE RemoveSubscription(topic)
    BY <1>1, <2>1, <2>3 DEF RemoveSubscription, Unsubscribe, Goto, PcOK
  <2>. QED
    BY <1>4, <2>2, <2>3
<1>5. CASE AddAppend \/ RemoveCut
  <2>1. token[Operator] # "pending" /\ outbound' = outbound
    BY <1>5 DEF AddAppend, RemoveCut, EndOperation, Returned, wire
  <2>. QED
    BY <2>1, NotInFlight DEF SendersOK
<1>6. CASE BrokerAnswers
  <2>1. /\ outbound \in Seq(Requests) /\ outbound # <<>>
        /\ outbound' = Tail(outbound) /\ UNCHANGED <<pc, wants>>
    BY <1>6 DEF BrokerAnswers, WireOK, threads
  <2>2. \A k \in 1 .. Len(outbound') : /\ outbound'[k] = outbound[k + 1]
                                       /\ k + 1 \in 1 .. Len(outbound)
    BY <2>1
  <2>. QED
    BY <2>1, <2>2 DEF SendersOK
<1>7. CASE StopDisconnect \/ LinkBreaks
  BY <1>7 DEF StopDisconnect, LinkBreaks, SendersOK
<1>8. CASE /\ UNCHANGED <<outbound, wants>>
           /\ pc'[Operator] = pc[Operator]
  BY <1>8 DEF SendersOK
<1>9. CASE StartConnected \/ Reconnect
  BY <1>8, <1>9, ConnectedPc DEF StartConnected, Reconnect, wire
<1>10. CASE Start \/ Stop \/ StopUnsubscribed
  BY <1>8, <1>10 DEF Start, Stop, StopUnsubscribed, Goto, PcOK, wire
<1>11. ASSUME NEW t \in OnConnects,
              LoadArray(t) \/ LoadLength(t) \/ TopicSubscribed(t)
       PROVE  SendersOK'
  BY <1>8, <1>11 DEF LoadArray, LoadLength, TopicSubscribed, Goto, PcOK, wire
<1>. QED
  BY <1>2, <1>3, <1>4, <1>5, <1>6, <1>7, <1>8, <1>9, <1>10, <1>11
  DEF Next, Main, Paho, OnConnect, Read, Dispatch, ConnectionLost,
      MessageHandler, MessageProcessed, BrokerPublishes, wire, threads, vars

-----------------------------------------------------------------------------
(* Before the first operation.                                             *)

\* Without an operation the list stays as it is.
LEMMA BeforeOps ==
    ASSUME IInv, [Next]_vars, ops' = 0
    PROVE  /\ ops = 0 /\ UNCHANGED slice
           /\ pc[Operator] = "idle" /\ pc'[Operator] = "idle"
           /\ ~ AddAppend /\ ~ RemoveCut
           /\ \A topic : ~ AddSubscription(topic) /\ ~ RemoveSubscription(topic)
<1>. USE ThreadFacts
<1>. PcOK /\ ListKept /\ ops \in Nat
  BY BoundFacts DEF IInv, Parts, CountsOK
<1>1. \A topic : ~ AddSubscription(topic) /\ ~ RemoveSubscription(topic)
  BY DEF AddSubscription, RemoveSubscription, BeginOperation
<1>2. ops = 0
  BY <1>1 DEF Next, Main, Paho, OnConnect, Start, StartConnected, Stop,
     StopUnsubscribe, StopUnsubscribed, StopDisconnect, LoadArray, LoadLength,
     SubscribeToTopics, TopicSubscribed, AddAppend, RemoveCut, EndOperation,
     Read, Dispatch, ConnectionLost, Reconnect, MessageHandler, MessageProcessed,
     BrokerAnswers, BrokerPublishes, LinkBreaks, vars
<1>3. pc[Operator] = "idle"
  BY <1>2 DEF ListKept
<1>4. ~ AddAppend /\ ~ RemoveCut
  BY <1>3 DEF AddAppend, RemoveCut
<1>5. UNCHANGED slice
  BY <1>1, <1>4 DEF Next, Main, Paho, OnConnect, Start, StartConnected, Stop,
     StopUnsubscribe, StopUnsubscribed, StopDisconnect, LoadArray, LoadLength,
     SubscribeToTopics, TopicSubscribed, Read, Dispatch, ConnectionLost,
     Reconnect, MessageHandler, MessageProcessed, BrokerAnswers, BrokerPublishes,
     LinkBreaks, vars
<1>6. pc'[Operator] = pc[Operator]
  <2>1. CASE StartConnected \/ Reconnect
    BY <2>1, ConnectedPc
  <2>2. CASE ~ (StartConnected \/ Reconnect)
    BY <1>1, <1>4, <2>2 DEF Next, Main, Paho, OnConnect, Start, Stop,
       StopUnsubscribe, StopUnsubscribed, StopDisconnect, LoadArray, LoadLength,
       SubscribeToTopics, TopicSubscribed, Read, Dispatch, ConnectionLost,
       MessageHandler, MessageProcessed, BrokerAnswers, BrokerPublishes,
       LinkBreaks, threads, vars, Goto, PcOK
  <2>. QED
    BY <2>1, <2>2
<1>. QED
  BY <1>1, <1>2, <1>3, <1>4, <1>5, <1>6

LEMMA ListKeptStep == ASSUME IInv, [Next]_vars PROVE ListKept'
<1>. USE ThreadFacts
<1>. SUFFICES ASSUME ops' = 0 PROVE ListKept'
  BY DEF ListKept
<1>. /\ PcOK /\ ThreadsOK /\ ListKept /\ ops = 0
     /\ UNCHANGED slice /\ pc'[Operator] = "idle"
     /\ ~ AddAppend /\ ~ RemoveCut
     /\ \A topic : ~ AddSubscription(topic) /\ ~ RemoveSubscription(topic)
  BY BeforeOps DEF IInv, Parts
<1>1. array' = array /\ len' = len
  BY DEF slice
<1>. DEFINE Ranged == {"next", "subscribing", "done"}
<1>2. ASSUME \A t \in OnConnects :
               range'[t] = range[t] /\ (pc'[t] \in Ranged => pc[t] \in Ranged)
      PROVE  ListKept'
  BY <1>1, <1>2 DEF ListKept
<1>3. CASE StartConnected \/ Reconnect
  <2>1. /\ range' = range
        /\ \A t \in OnConnects : pc'[t] \in Ranged => pc[t] \in Ranged
    BY <1>3, ConnectedPc DEF StartConnected, Reconnect
  <2>. QED
    BY <1>2, <2>1
<1>4. CASE Start \/ Stop \/ StopUnsubscribe \/ StopUnsubscribed \/ StopDisconnect
  <2>1. range' = range /\ \A t \in OnConnects : pc'[t] = pc[t]
    BY <1>4 DEF Start, Stop, StopUnsubscribe, StopUnsubscribed, StopDisconnect,
       Goto, PcOK
  <2>. QED
    BY <1>2, <2>1
<1>5. ASSUME NEW t \in OnConnects, SubscribeToTopics(t) \/ TopicSubscribed(t)
      PROVE  ListKept'
  <2>1. /\ range' = range /\ pc[t] \in Ranged
        /\ \A u \in OnConnects : u # t => pc'[u] = pc[u]
    BY <1>5 DEF SubscribeToTopics, TopicSubscribed, Goto, PcOK
  <2>. QED
    BY <1>2, <2>1
<1>6. ASSUME NEW t \in OnConnects, LoadArray(t) PROVE ListKept'
  <2>1. /\ range' = [range EXCEPT ![t].array = <<>>]
        /\ pc' = [pc EXCEPT ![t] = "load length"]
    BY <1>6 DEF LoadArray, Goto
  <2>2. /\ range'[t].array = <<>> /\ pc'[t] = "load length"
        /\ \A u \in OnConnects : u # t => range'[u] = range[u] /\ pc'[u] = pc[u]
    BY <2>1 DEF PcOK, ThreadsOK
  <2>. QED
    BY <1>1, <2>2 DEF ListKept
<1>7. ASSUME NEW t \in OnConnects, LoadLength(t) PROVE ListKept'
  <2>1. range' = [range EXCEPT ![t].len = len] /\ pc' = [pc EXCEPT ![t] = "next"]
    BY <1>7 DEF LoadLength, Goto
  <2>2. /\ range'[t].array = range[t].array /\ range'[t].len = len
        /\ \A u \in OnConnects : u # t => range'[u] = range[u] /\ pc'[u] = pc[u]
    BY <2>1 DEF PcOK, ThreadsOK
  <2>. QED
    BY <1>1, <2>2 DEF ListKept
<1>8. CASE UNCHANGED <<pc, range>>
  BY <1>2, <1>8
<1>. QED
  BY <1>3, <1>4, <1>5, <1>6, <1>7, <1>8
  DEF Next, Main, Paho, OnConnect, Read, Dispatch, ConnectionLost,
      MessageHandler, MessageProcessed, BrokerAnswers, BrokerPublishes,
      LinkBreaks, threads, vars

\* Once Stop has begun nothing is promised of the subscriptions.
LEMMA BeforeStop ==
    ASSUME IInv, [Next]_vars, Subscribing'
    PROVE  /\ Subscribing
           /\ ~ Stop /\ ~ StopUnsubscribe /\ ~ StopUnsubscribed
           /\ ~ StopDisconnect
<1>. USE ThreadFacts DEF Subscribing
<1>. PcOK
  BY DEF IInv, Parts
<1>1. /\ ~ Stop /\ ~ StopUnsubscribe /\ ~ StopUnsubscribed
      /\ ~ StopDisconnect
  BY DEF Stop, StopUnsubscribe, StopUnsubscribed, StopDisconnect, Goto, PcOK
<1>2. CASE StartConnected \/ Reconnect
  BY <1>1, <1>2, ConnectedPc
<1>3. CASE ~ (StartConnected \/ Reconnect)
  BY <1>1, <1>3 DEF Next, Main, Paho, OnConnect, Start, LoadArray, LoadLength,
     SubscribeToTopics, TopicSubscribed, AddSubscription, RemoveSubscription,
     AddAppend, RemoveCut, EndOperation, Read, Dispatch, ConnectionLost,
     MessageHandler, MessageProcessed, BrokerAnswers, BrokerPublishes,
     LinkBreaks, threads, vars, Goto, PcOK
<1>. QED
  BY <1>1, <1>2, <1>3

\* What a thread with a request under way subscribes, before operations.
LEMMA InRange ==
    ASSUME IInv, ops = 0, NEW t \in OnConnects,
           \/ pc[t] = "subscribing"
           \/ pc[t] = "next" /\ i[t] <= range[t].len
    PROVE  /\ i[t] \in 1 .. len /\ array[i[t]] \in Tracked
           /\ RangeTopics(t) = {array[i[t]]}
<1>1. i[t] # 0 /\ i[t] <= range[t].len /\ i[t] \in Nat /\ range[t].len \in Nat
  BY DEF IInv, Parts, RangesOK, ThreadsOK
<1>2. range[t].array = <<>> /\ range[t].len = len /\ pc[Operator] = "idle"
  BY DEF IInv, ListKept
<1>3. len \in Nat /\ len <= Len(array)
  BY DEF IInv, Parts, ListOK
<1>4. i[t] \in 1 .. len
  BY <1>1, <1>2, <1>3
<1>5. Moving = {}
  BY <1>2 DEF Moving
<1>6. ~ (i[t] > Len(array))
  BY <1>3, <1>4 DEF IInv, Parts, ListOK
<1>. QED
  BY <1>2, <1>4, <1>5, <1>6 DEF RangeTopics, Tracked

LEMMA OnlyListedStep == ASSUME IInv, [Next]_vars PROVE OnlyListed'
<1>. USE ThreadFacts
<1>. SUFFICES ASSUME ops' = 0, Subscribing' PROVE OnlyListed'
  BY DEF OnlyListed
<1>. /\ PcOK /\ ThreadsOK /\ WireOK /\ OnlyListed /\ FlightOK /\ TokensOK
     /\ SendersOK /\ ops = 0
     /\ UNCHANGED slice
     /\ ~ AddAppend /\ ~ RemoveCut
     /\ \A topic : ~ AddSubscription(topic) /\ ~ RemoveSubscription(topic)
     /\ Subscribing
     /\ ~ Stop /\ ~ StopUnsubscribe /\ ~ StopUnsubscribed /\ ~ StopDisconnect
  BY BeforeOps, BeforeStop DEF IInv, Parts
<1>1. array' = array /\ Tracked' = Tracked
  BY DEF slice, Tracked
<1>2. /\ subscribed \subseteq Tracked
      /\ \A k \in 1 .. Len(outbound) : /\ outbound[k].by \in OnConnects
                                       /\ outbound[k].topic = array[i[outbound[k].by]]
  BY DEF OnlyListed
<1>3. ASSUME NEW t \in OnConnects, LoadLength(t) \/ TopicSubscribed(t)
      PROVE  OnlyListed'
  <2>1. token[t] # "pending"
    BY <1>3 DEF LoadLength, TopicSubscribed, Returned, TokensOK
  <2>2. \A k \in 1 .. Len(outbound) : outbound[k].by # t
    BY <2>1, NotInFlight
  <2>3. /\ UNCHANGED <<outbound, subscribed>>
        /\ \A u \in OnConnects : u # t => i'[u] = i[u]
    BY <1>3 DEF LoadLength, TopicSubscribed, ThreadsOK, wire
  <2>. QED
    BY <1>1, <1>2, <2>2, <2>3 DEF OnlyListed
<1>4. ASSUME NEW t \in OnConnects, SubscribeToTopics(t) PROVE OnlyListed'
  <2>1. i' = i /\ subscribed' = subscribed
    BY <1>4 DEF SubscribeToTopics
  <2>2. CASE outbound' = outbound
    BY <1>1, <1>2, <2>1, <2>2 DEF OnlyListed
  <2>3. CASE outbound' # outbound
    <3>1. /\ pc[t] = "next" /\ i[t] <= range[t].len
          /\ \E topic \in RangeTopics(t) : Subscribe(t, topic)
      BY <1>4, <2>3 DEF SubscribeToTopics
    <3>2. Subscribe(t, array[i[t]])
      BY <3>1, InRange
    <3>. DEFINE q == [kind |-> "subscribe", topic |-> array[i[t]], by |-> t]
    <3>3. /\ outbound' = Append(outbound, q)
          /\ q.by = t /\ q.topic = array[i[t]]
      BY <2>3, <3>2 DEF Subscribe, Request
    <3>. HIDE DEF q
    <3>4. /\ outbound'[Len(outbound) + 1] = q
          /\ \A k \in 1 .. Len(outbound) : outbound'[k] = outbound[k]
          /\ \A k \in 1 .. Len(outbound') :
               k \in 1 .. Len(outbound) \/ k = Len(outbound) + 1
      BY <3>3 DEF WireOK
    <3>. QED
      BY <1>1, <1>2, <2>1, <3>3, <3>4 DEF OnlyListed
  <2>. QED
    BY <2>2, <2>3
<1>5. CASE BrokerAnswers
  <2>. DEFINE q == Head(outbound)
  <2>1. /\ outbound \in Seq(Requests) /\ outbound # <<>>
        /\ outbound' = Tail(outbound) /\ q = outbound[1] /\ i' = i
        /\ subscribed' = IF q.kind = "subscribe" THEN subscribed \cup {q.topic}
                         ELSE subscribed \ {q.topic}
    BY <1>5 DEF BrokerAnswers, WireOK, threads
  <2>. HIDE DEF q
  <2>2. /\ \A k \in 1 .. Len(outbound') : /\ outbound'[k] = outbound[k + 1]
                                          /\ k + 1 \in 1 .. Len(outbound)
        /\ 1 \in 1 .. Len(outbound)
    BY <2>1
  <2>3. q.by \in OnConnects /\ q.topic = array[i[q.by]] /\ token[q.by] = "pending"
    BY <1>2, <2>1, <2>2 DEF FlightOK
  <2>4. pc[q.by] = "subscribing"
    BY <2>3 DEF TokensOK, PcOK, ConnectLabels
  <2>5. array[i[q.by]] \in Tracked
    BY <2>3, <2>4, InRange
  <2>. QED
    BY <1>1, <1>2, <2>1, <2>2, <2>3, <2>5 DEF OnlyListed
<1>6. CASE LinkBreaks
  BY <1>1, <1>6 DEF LinkBreaks, OnlyListed
<1>7. CASE UNCHANGED <<i, outbound, subscribed>>
  BY <1>1, <1>2, <1>7 DEF OnlyListed
<1>. QED
  BY <1>3, <1>4, <1>5, <1>6, <1>7
  DEF Next, Main, Paho, OnConnect, Start, StartConnected, LoadArray, Read,
      Dispatch, ConnectionLost, Reconnect, MessageHandler, MessageProcessed,
      BrokerPublishes, wire, threads, vars

\* An acknowledgement comes from the broker only.
LEMMA AnsweredStep ==
    ASSUME IInv, [Next]_vars, NEW t \in Threads, Answered(t)'
    PROVE  \/ Answered(t)
           \/ BrokerAnswers /\ Head(outbound).by = t
<1>. USE ThreadFacts
<1>. ThreadsOK /\ WireOK /\ FlightOK
  BY DEF IInv, Parts
<1>1. ASSUME token'[t] = "ok" => token[t] = "ok",
             inbound' = inbound \/ inbound' = <<>>
      PROVE  Answered(t)
  BY <1>1 DEF Answered
<1>2. CASE Read
  <2>1. /\ inbound \in Seq(Packets) /\ inbound # <<>> /\ inbound' = Tail(inbound)
    BY <1>2 DEF Read, WireOK
  <2>2. \A k \in 1 .. Len(inbound') : /\ inbound'[k] = inbound[k + 1]
                                      /\ k + 1 \in 1 .. Len(inbound)
    BY <2>1
  <2>3. CASE token'[t] # "ok"
    BY <2>2, <2>3 DEF Answered
  <2>4. CASE token[t] # "ok" /\ token'[t] = "ok"
    <3>1. Head(inbound).kind # "publish" /\ Head(inbound).by = t
      BY <1>2, <2>4 DEF Read, ThreadsOK
    <3>2. /\ 1 \in 1 .. Len(inbound) /\ inbound[1] = Head(inbound)
          /\ inbound[1] \in Packets
      BY <2>1
    <3>3. inbound[1].kind = "ack"
      BY <3>1, <3>2 DEF Packets
    <3>. QED
      BY <3>1, <3>2, <3>3 DEF Answered
  <2>. QED
    BY <2>3, <2>4 DEF Answered
<1>3. CASE BrokerAnswers
  <2>. DEFINE ack == [kind |-> "ack", by |-> Head(outbound).by]
  <2>1. /\ inbound \in Seq(Packets) /\ inbound' = Append(inbound, ack)
        /\ ack.by = Head(outbound).by /\ token' = token
    BY <1>3 DEF BrokerAnswers, WireOK, threads
  <2>. HIDE DEF ack
  <2>2. /\ inbound'[Len(inbound) + 1] = ack
        /\ \A k \in 1 .. Len(inbound) : inbound'[k] = inbound[k]
        /\ \A k \in 1 .. Len(inbound') :
             k \in 1 .. Len(inbound) \/ k = Len(inbound) + 1
    BY <2>1
  <2>. QED
    BY <1>3, <2>1, <2>2 DEF Answered
<1>4. ASSUME NEW topic \in Topics, BrokerPublishes(topic) PROVE Answered(t)
  <2>. DEFINE p == [kind |-> "publish", topic |-> topic]
  <2>1. /\ inbound \in Seq(Packets) /\ inbound' = Append(inbound, p)
        /\ p.kind # "ack" /\ token' = token
    BY <1>4 DEF BrokerPublishes, WireOK, threads
  <2>. HIDE DEF p
  <2>2. /\ inbound'[Len(inbound) + 1] = p
        /\ \A k \in 1 .. Len(inbound) : inbound'[k] = inbound[k]
        /\ \A k \in 1 .. Len(inbound') :
             k \in 1 .. Len(inbound) \/ k = Len(inbound) + 1
    BY <2>1
  <2>. QED
    BY <2>1, <2>2 DEF Answered
<1>5. ASSUME NEW u \in Threads, NEW kind, NEW topic, Request(u, kind, topic),
             inbound' = inbound
      PROVE  Answered(t)
  BY <1>1, <1>5 DEF Request, ThreadsOK
<1>6. CASE StopUnsubscribe
  BY <1>5, <1>6 DEF StopUnsubscribe, Unsubscribe
<1>7. ASSUME NEW u \in OnConnects, SubscribeToTopics(u) PROVE Answered(t)
  BY <1>1, <1>5, <1>7 DEF SubscribeToTopics, Subscribe
<1>8. ASSUME NEW topic \in Topics,
             AddSubscription(topic) \/ RemoveSubscription(topic)
      PROVE  Answered(t)
  BY <1>5, <1>8 DEF AddSubscription, RemoveSubscription, BeginOperation,
     Subscribe, Unsubscribe
<1>9. CASE StopUnsubscribed \/ AddAppend \/ RemoveCut
  BY <1>1, <1>9 DEF StopUnsubscribed, AddAppend, RemoveCut, EndOperation, wire,
     ThreadsOK
<1>10. ASSUME NEW u \in OnConnects, TopicSubscribed(u) PROVE Answered(t)
  BY <1>1, <1>10 DEF TopicSubscribed, wire, ThreadsOK
<1>11. CASE StopDisconnect \/ LinkBreaks \/ ConnectionLost
  BY <1>1, <1>11 DEF StopDisconnect, LinkBreaks, ConnectionLost, wire, threads
<1>12. CASE UNCHANGED <<token, inbound>>
  BY <1>1, <1>12
<1>. QED
  BY <1>2, <1>3, <1>4, <1>6, <1>7, <1>8, <1>9, <1>10, <1>11, <1>12
  DEF Next, Main, Paho, OnConnect, Start, StartConnected, Stop, LoadArray,
      LoadLength, Reconnect, Dispatch, MessageHandler, MessageProcessed, wire,
      threads, vars

LEMMA AllListedStep == ASSUME IInv, [Next]_vars PROVE AllListed'
<1>. USE ThreadFacts
<1>. SUFFICES ASSUME ops' = 0, Subscribing', conn' = "connected"
              PROVE  AllListed'
  BY DEF AllListed
<1>. /\ PcOK /\ ThreadsOK /\ WireOK /\ FlightOK /\ TokensOK /\ SendersOK
     /\ ops = 0
     /\ UNCHANGED slice
     /\ ~ AddAppend /\ ~ RemoveCut
     /\ \A topic : ~ AddSubscription(topic) /\ ~ RemoveSubscription(topic)
     /\ Subscribing
     /\ ~ Stop /\ ~ StopUnsubscribe /\ ~ StopUnsubscribed /\ ~ StopDisconnect
  BY BeforeOps, BeforeStop DEF IInv, Parts
<1>1. array' = array /\ Tracked' = Tracked
  BY DEF slice, Tracked
<1>2. CASE StartConnected \/ Reconnect
  <2>1. pc[Current] = "idle" /\ pc'[Current] = "load" /\ Current \in OnConnects
    BY <1>2, ConnectedPc
  <2>2. token' = token /\ breaks' = breaks
    BY <1>2 DEF StartConnected, Reconnect
  <2>3. token'[Current] = "none" /\ Current' = Current
    BY <2>1, <2>2 DEF TokensOK, Current
  <2>. QED
    BY <2>1, <2>3 DEF AllListed
<1>. SUFFICES ASSUME ~ StartConnected, ~ Reconnect PROVE AllListed'
  BY <1>2
<1>3. conn = "connected" /\ breaks' = breaks
  BY DEF Next, Main, Paho, OnConnect, Start, LoadArray, LoadLength,
     SubscribeToTopics, TopicSubscribed, Read, Dispatch, ConnectionLost,
     MessageHandler, MessageProcessed, BrokerAnswers, BrokerPublishes,
     LinkBreaks, vars
<1>4. Current' = Current /\ Current \in OnConnects
  BY <1>3, OnConnectFacts DEF Current, IInv, Parts, CountsOK
<1>. HIDE DEF Current
<1>5. /\ pc[Current] # "idle" /\ token[Current] # "error"
      /\ pc[Current] \in {"next", "subscribing"} =>
           \A j \in 1 .. i[Current] - 1 : array[j] \in subscribed
      /\ pc[Current] = "subscribing" /\ Answered(Current) =>
           array[i[Current]] \in subscribed
      /\ pc[Current] = "done" => Tracked \subseteq subscribed
  BY <1>3 DEF IInv, AllListed
\* The current thread stays where it is, and no subscription ends.
<1>6. ASSUME pc'[Current] = pc[Current], i'[Current] = i[Current],
             token'[Current] # "error", subscribed \subseteq subscribed',
             pc[Current] = "subscribing" /\ Answered(Current)' =>
               array[i[Current]] \in subscribed'
      PROVE  AllListed'
  BY <1>1, <1>4, <1>5, <1>6 DEF AllListed
<1>7. CASE LoadArray(Current)
  <2>1. pc'[Current] = "load length" /\ token' = token
    BY <1>4, <1>7 DEF LoadArray, Goto, PcOK
  <2>. QED
    BY <1>4, <1>5, <2>1 DEF AllListed
<1>8. CASE LoadLength(Current)
  <2>1. pc'[Current] = "next" /\ token' = token /\ i'[Current] = 1
    BY <1>4, <1>8 DEF LoadLength, Goto, PcOK, ThreadsOK
  <2>. QED
    BY <1>4, <1>5, <2>1 DEF AllListed
<1>9. CASE SubscribeToTopics(Current)
  <2>1. UNCHANGED <<i, subscribed, inbound>> /\ pc[Current] = "next"
    BY <1>9 DEF SubscribeToTopics
  <2>2. CASE i[Current] <= range[Current].len
    <3>1. pc'[Current] = "subscribing" /\ token'[Current] = "pending"
      BY <1>3, <1>4, <1>9, <2>2 DEF SubscribeToTopics, Subscribe, Request, Goto,
         PcOK, ThreadsOK
    <3>2. token[Current] = "none"
      BY <1>4, <2>1 DEF TokensOK
    <3>3. ~ Answered(Current)'
      BY <1>4, <2>1, <3>1, <3>2, NotInFlight DEF Answered
    <3>. QED
      BY <1>1, <1>4, <1>5, <2>1, <3>1, <3>3 DEF AllListed
  <2>3. CASE ~ (i[Current] <= range[Current].len)
    <3>1. pc'[Current] = "done" /\ token' = token
      BY <1>4, <1>9, <2>3 DEF SubscribeToTopics, Goto, PcOK
    <3>2. range[Current].len = len
      BY <1>4, <2>1 DEF IInv, ListKept
    <3>3. len \in Nat /\ i[Current] \in Nat
      BY <1>4 DEF IInv, Parts, ListOK, ThreadsOK
    <3>4. \A j \in 1 .. len : j \in 1 .. i[Current] - 1
      BY <2>3, <3>2, <3>3
    <3>5. Tracked \subseteq subscribed
      BY <1>5, <2>1, <3>4 DEF Tracked
    <3>. QED
      BY <1>1, <1>4, <1>5, <2>1, <3>1, <3>5 DEF AllListed
  <2>. QED
    BY <2>2, <2>3
<1>10. CASE TopicSubscribed(Current)
  <2>1. /\ pc[Current] = "subscribing" /\ pc'[Current] = "next"
        /\ token[Current] = "ok" /\ token'[Current] = "none"
        /\ i'[Current] = i[Current] + 1 /\ subscribed' = subscribed
    BY <1>4, <1>5, <1>10 DEF TopicSubscribed, Returned, Goto, PcOK, ThreadsOK,
       wire
  <2>2. array[i[Current]] \in subscribed
    BY <1>5, <2>1 DEF Answered
  <2>3. i[Current] \in Nat
    BY <1>4 DEF ThreadsOK
  <2>4. \A j \in 1 .. i'[Current] - 1 : j \in 1 .. i[Current] - 1 \/ j = i[Current]
    BY <2>1, <2>3
  <2>5. \A j \in 1 .. i'[Current] - 1 : array[j] \in subscribed
    BY <1>5, <2>1, <2>2, <2>4
  <2>. QED
    BY <1>1, <1>4, <2>1, <2>5 DEF AllListed
<1>11. ASSUME NEW t \in OnConnects, OnConnect(t), t # Current PROVE AllListed'
  <2>1. /\ pc'[Current] = pc[Current] /\ i'[Current] = i[Current]
        /\ token'[Current] = token[Current]
        /\ UNCHANGED <<subscribed, inbound>>
    BY <1>4, <1>11 DEF OnConnect, LoadArray, LoadLength, SubscribeToTopics,
       Subscribe, Request, TopicSubscribed, Goto, PcOK, ThreadsOK, wire
  <2>2. Answered(Current)' => Answered(Current)
    BY <1>4, <2>1 DEF Answered
  <2>. QED
    BY <1>5, <1>6, <2>1, <2>2
<1>12. CASE Read
  <2>1. UNCHANGED <<pc, i, subscribed>> /\ token'[Current] # "error"
    BY <1>4, <1>5, <1>12 DEF Read, ThreadsOK
  <2>2. Answered(Current)' => Answered(Current)
    <3>1. ~ BrokerAnswers \/ Answered(Current)
      BY <1>12 DEF Read, BrokerAnswers, WireOK
    <3>. QED
      BY <1>4, <3>1, AnsweredStep
  <2>. QED
    BY <1>5, <1>6, <2>1, <2>2
<1>13. CASE BrokerAnswers
  <2>. DEFINE q == Head(outbound)
  <2>1. /\ outbound \in Seq(Requests) /\ outbound # <<>> /\ q = outbound[1]
        /\ UNCHANGED <<pc, i, token>>
        /\ subscribed' = IF q.kind = "subscribe" THEN subscribed \cup {q.topic}
                         ELSE subscribed \ {q.topic}
    BY <1>13 DEF BrokerAnswers, WireOK, threads
  <2>2. 1 \in 1 .. Len(outbound)
    BY <2>1
  <2>3. q.by \in OnConnects /\ q.topic = array[i[q.by]] /\ q.kind = "subscribe"
    BY <2>1, <2>2 DEF IInv, OnlyListed, SendersOK
  <2>4. subscribed' = subscribed \cup {q.topic}
    BY <2>1, <2>3
  <2>5. Answered(Current)' => Answered(Current) \/ q.by = Current
    BY <1>4, AnsweredStep
  <2>. HIDE DEF q
  <2>. QED
    BY <1>5, <1>6, <2>1, <2>3, <2>4, <2>5
<1>14. ASSUME NEW topic \in Topics, BrokerPublishes(topic) PROVE AllListed'
  <2>1. UNCHANGED <<pc, i, subscribed, token, outbound>>
    BY <1>14 DEF BrokerPublishes, threads
  <2>2. Answered(Current)' => Answered(Current)
    <3>1. ~ BrokerAnswers
      BY <2>1 DEF BrokerAnswers, WireOK
    <3>. QED
      BY <1>4, <3>1, AnsweredStep
  <2>. QED
    BY <1>5, <1>6, <2>1, <2>2
<1>15. CASE Start
  <2>1. /\ pc'[Current] = pc[Current]
        /\ UNCHANGED <<i, token, inbound, subscribed>>
    BY <1>4, <1>15 DEF Start, Goto, PcOK, wire
  <2>. QED
    BY <1>4, <1>5, <1>6, <2>1 DEF Answered
<1>16. CASE UNCHANGED <<pc, i, token, inbound, subscribed>>
  BY <1>4, <1>5, <1>6, <1>16 DEF Answered
<1>17. ~ LinkBreaks /\ ~ ConnectionLost
  BY <1>3 DEF LinkBreaks, ConnectionLost
<1>. QED
  BY <1>7, <1>8, <1>9, <1>10, <1>11, <1>12, <1>13, <1>14, <1>15, <1>16, <1>17
  DEF Next, Main, Paho, OnConnect, Dispatch, MessageHandler, MessageProcessed,
      wire, threads, vars

-----------------------------------------------------------------------------
(* The topics added at runtime.                                            *)

\* What a removal does to the list: it cuts out one entry, the first.
LEMMA Cut ==
    ASSUME IInv, RemoveCut, token[Operator] # "error", wants \in Tracked
    PROVE  \E at \in 1 .. len :
             /\ array[at] = wants /\ len' = len - 1
             /\ \A j \in 1 .. len - 1 :
                  array'[j] = IF j < at THEN array[j] ELSE array[j + 1]
<1>. USE ThreadFacts
<1>. /\ ListOK /\ PcOK
  BY DEF IInv, Parts
<1>. DEFINE Same == {j \in 1 .. len : array[j] = wants}
<1>1. Same # {} /\ Same \subseteq Nat
  BY DEF Tracked
<1>2. \E at \in Same : \A k \in Same : at <= k
  BY <1>1, LeastOf
<1>3. \E at \in 1 .. len : array[at] = wants /\ \A k \in 1 .. at - 1 : array[k] # wants
  <2>. PICK at \in Same : \A k \in Same : at <= k
    BY <1>2
  <2>1. \A k \in 1 .. at - 1 : k \in 1 .. len /\ ~ (at <= k)
    BY DEF ListOK
  <2>. QED
    BY <2>1
<1>4. At \in 1 .. len /\ array[At] = wants
  BY <1>3 DEF At
<1>. HIDE DEF At
<1>5. Moving = At .. len - 1
  BY DEF Moving, RemoveCut, EndOperation, Returned
<1>6. /\ len' = len - 1
      /\ array' = [j \in 1 .. Len(array) |->
                     IF j \in Moving THEN array[j + 1] ELSE array[j]]
  BY DEF RemoveCut, ListOK
<1>7. \A j \in 1 .. len - 1 : j \in 1 .. Len(array) /\ (j \in Moving <=> ~ (j < At))
  BY <1>4, <1>5 DEF ListOK
<1>. QED
  BY <1>4, <1>6, <1>7

LEMMA AddedOnceStep == ASSUME IInv, [Next]_vars PROVE AddedOnce'
<1>. USE ThreadFacts
<1>. AddedOnce /\ ListOK
  BY DEF IInv, Parts
<1>1. CASE UNCHANGED slice
  BY <1>1 DEF AddedOnce, Added, slice
<1>2. CASE AddAppend /\ ~ UNCHANGED slice
  <2>1. /\ len' = len + 1 /\ doubled' = doubled \cup ({wants} \cap Tracked)
        /\ IF len < Len(array)
           THEN array' = [array EXCEPT ![len + 1] = wants]
           ELSE array' = Append(array, wants) \o [j \in 1 .. len - 1 |-> Nil]
    BY <1>2 DEF AddAppend
  <2>2. len \in Nat /\ wants \in Topics
    BY <1>2 DEF ListOK, AddAppend, IInv, Parts, RangesOK
  <2>3. /\ array'[len + 1] = wants
        /\ \A j \in 1 .. len : array'[j] = array[j]
    <3>1. CASE len < Len(array)
      BY <2>1, <2>2, <3>1 DEF ListOK
    <3>2. CASE ~ (len < Len(array))
      <4>. DEFINE free == [j \in 1 .. len - 1 |-> Nil]
      <4>1. len = Len(array) /\ len - 1 \in Nat
        BY <3>2 DEF ListOK
      <4>2. free \in Seq({Nil})
        BY <4>1
      <4>3. array' = Append(array, wants) \o free
        BY <2>1, <3>2
      <4>. HIDE DEF free
      <4>4. Append(array, wants) \in Seq(Topics \cup {Nil})
        BY <2>2 DEF ListOK
      <4>5. \A j \in 1 .. len + 1 : array'[j] = Append(array, wants)[j]
        BY <4>1, <4>2, <4>3, <4>4
      <4>. QED
        BY <4>1, <4>5 DEF ListOK
    <3>. QED
      BY <3>1, <3>2
  <2>4. ASSUME NEW topic \in Added'
        PROVE  /\ topic \in Added
               /\ topic = wants => \A j \in 1 .. len : array[j] # topic
    BY <2>1, <2>4 DEF Added, Tracked
  <2>5. \A j \in 1 .. len + 1 : j \in 1 .. len \/ j = len + 1
    BY <2>2
  <2>6. ASSUME NEW topic \in Added', NEW j \in 1 .. len + 1, NEW k \in 1 .. len + 1,
               array'[j] = topic, array'[k] = topic
        PROVE  j = k
    BY <2>3, <2>4, <2>5, <2>6 DEF AddedOnce
  <2>. QED
    BY <2>1, <2>6 DEF AddedOnce
<1>3. CASE RemoveCut /\ ~ UNCHANGED slice
  <2>1. token[Operator] # "error" /\ wants \in Tracked /\ doubled' = doubled
    BY <1>3 DEF RemoveCut
  <2>2. PICK at \in 1 .. len :
          /\ array[at] = wants /\ len' = len - 1
          /\ \A j \in 1 .. len - 1 :
               array'[j] = IF j < at THEN array[j] ELSE array[j + 1]
    BY <1>3, <2>1, Cut
  <2>3. len \in Nat
    BY DEF ListOK
  <2>4. ASSUME NEW topic \in Added, NEW j \in 1 .. len - 1, NEW k \in 1 .. len - 1,
               array'[j] = topic, array'[k] = topic
        PROVE  j = k
    <3>. DEFINE was(n) == IF n < at THEN n ELSE n + 1
    <3>1. was(j) \in 1 .. len /\ was(k) \in 1 .. len
      BY <2>3
    <3>2. array[was(j)] = topic /\ array[was(k)] = topic
      BY <2>2, <2>4
    <3>3. was(j) = was(k)
      BY <3>1, <3>2 DEF AddedOnce
    <3>. QED
      BY <2>3, <3>3
  <2>5. Added' = Added
    BY <2>1 DEF Added
  <2>. QED
    BY <2>2, <2>4, <2>5 DEF AddedOnce
<1>. QED
  BY <1>1, <1>2, <1>3
  DEF Next, Main, Paho, OnConnect, Start, StartConnected, Stop, StopUnsubscribe,
      StopUnsubscribed, StopDisconnect, LoadArray, LoadLength,
      SubscribeToTopics, TopicSubscribed, AddSubscription, RemoveSubscription,
      BeginOperation, Read, Dispatch, ConnectionLost, Reconnect, MessageHandler,
      MessageProcessed, BrokerAnswers, BrokerPublishes, LinkBreaks, vars

LEMMA AddedStep == ASSUME IInv, [Next]_vars PROVE AddedOK'
<1>. USE ThreadFacts
<1>. SUFFICES ASSUME breaks' = 0, Subscribing' PROVE AddedOK'
  BY DEF AddedOK
<1>. /\ PcOK /\ ThreadsOK /\ ListOK /\ WireOK /\ FlightOK /\ TokensOK
     /\ SendersOK /\ MainOK
     /\ Subscribing
     /\ ~ Stop /\ ~ StopUnsubscribe /\ ~ StopUnsubscribed /\ ~ StopDisconnect
  BY BeforeStop DEF IInv, Parts
<1>1. breaks = 0 /\ ~ LinkBreaks
  <2>1. ~ LinkBreaks
    BY BoundFacts DEF LinkBreaks, IInv, Parts, CountsOK
  <2>. QED
    BY <2>1 DEF Next, Main, Paho, OnConnect, Start, StartConnected, LoadArray,
       LoadLength, SubscribeToTopics, TopicSubscribed, AddSubscription,
       RemoveSubscription, BeginOperation, AddAppend, RemoveCut, EndOperation,
       Read, Dispatch, ConnectionLost, Reconnect, MessageHandler,
       MessageProcessed, BrokerAnswers, BrokerPublishes, vars
<1>2. ~ ConnectionLost
  BY <1>1 DEF ConnectionLost, MainOK, Subscribing
<1>3. /\ token[Operator] # "error"
      /\ pc[Operator] = "adding" =>
           /\ wants \in routes
           /\ Answered(Operator) => wants \in subscribed
      /\ \A topic \in Added \cap Tracked :
           \/ pc[Operator] = "removing" /\ wants = topic
           \/ topic \in subscribed \cap routes
  BY <1>1 DEF IInv, AddedOK
\* The operator stays where it is, and no subscription or route ends.
<1>4. ASSUME pc'[Operator] = pc[Operator], wants' = wants,
             token'[Operator] # "error", UNCHANGED slice,
             subscribed \subseteq subscribed', routes \subseteq routes',
             pc[Operator] = "adding" /\ Answered(Operator)' =>
               wants \in subscribed'
      PROVE  AddedOK'
  <2>1. Added' = Added /\ Tracked' = Tracked
    BY <1>4 DEF slice, Added, Tracked
  <2>. QED
    BY <1>3, <1>4, <2>1 DEF AddedOK
<1>5. CASE StartConnected \/ Reconnect
  <2>1. /\ pc'[Operator] = pc[Operator]
        /\ UNCHANGED <<wants, token, slice, subscribed, routes, inbound>>
    BY <1>5, ConnectedPc DEF StartConnected, Reconnect, wire, router
  <2>. QED
    BY <1>3, <1>4, <2>1 DEF Answered
<1>6. CASE Start
  <2>1. /\ pc'[Operator] = pc[Operator]
        /\ UNCHANGED <<wants, token, slice, subscribed, routes, inbound>>
    BY <1>6 DEF Start, Goto, PcOK, wire, router
  <2>. QED
    BY <1>3, <1>4, <2>1 DEF Answered
<1>7. ASSUME NEW t \in OnConnects, OnConnect(t) PROVE AddedOK'
  <2>1. /\ pc'[Operator] = pc[Operator] /\ token'[Operator] = token[Operator]
        /\ UNCHANGED <<wants, slice, subscribed, inbound>>
        /\ routes \subseteq routes'
    BY <1>7 DEF OnConnect, LoadArray, LoadLength, SubscribeToTopics, Subscribe,
       Request, TopicSubscribed, Goto, PcOK, ThreadsOK, wire, router
  <2>. QED
    BY <1>3, <1>4, <2>1 DEF Answered
<1>8. CASE Read
  <2>1. /\ UNCHANGED <<pc, wants, slice, subscribed, routes>>
        /\ token'[Operator] # "error"
    BY <1>3, <1>8 DEF Read, ThreadsOK
  <2>2. Answered(Operator)' => Answered(Operator)
    <3>1. ~ BrokerAnswers \/ Answered(Operator)
      BY <1>8 DEF Read, BrokerAnswers, WireOK
    <3>. QED
      BY <3>1, AnsweredStep
  <2>. QED
    BY <1>3, <1>4, <2>1, <2>2
<1>9. ASSUME NEW topic \in Topics, BrokerPublishes(topic) PROVE AddedOK'
  <2>1. UNCHANGED <<pc, wants, token, slice, subscribed, routes, outbound>>
    BY <1>9 DEF BrokerPublishes, threads, router
  <2>2. Answered(Operator)' => Answered(Operator)
    <3>1. ~ BrokerAnswers
      BY <2>1 DEF BrokerAnswers, WireOK
    <3>. QED
      BY <3>1, AnsweredStep
  <2>. QED
    BY <1>3, <1>4, <2>1, <2>2
<1>10. CASE BrokerAnswers
  <2>. DEFINE q == Head(outbound)
  <2>1. /\ outbound \in Seq(Requests) /\ outbound # <<>> /\ q = outbound[1]
        /\ UNCHANGED <<pc, wants, token, slice, routes>>
        /\ subscribed' = IF q.kind = "subscribe" THEN subscribed \cup {q.topic}
                         ELSE subscribed \ {q.topic}
    BY <1>10 DEF BrokerAnswers, WireOK, threads, router
  <2>2. Answered(Operator)' => Answered(Operator) \/ q.by = Operator
    BY AnsweredStep
  <2>. HIDE DEF q
  <2>3. 1 \in 1 .. Len(outbound) /\ q \in Requests
    BY <2>1
  <2>4. /\ token[q.by] = "pending"
        /\ q.by \in OnConnects => q.kind = "subscribe"
        /\ q.by = Operator =>
             /\ q.topic = wants
             /\ q.kind = (IF pc[Operator] = "adding" THEN "subscribe"
                          ELSE "unsubscribe")
    BY <2>1, <2>3 DEF FlightOK, SendersOK
  <2>5. q.by \in OnConnects \/ q.by = Operator
    <3>1. q.by \in Threads
      BY <2>3 DEF Requests
    <3>2. q.by # MainThread
      BY <2>4 DEF TokensOK, Subscribing
    <3>. QED
      BY <3>1, <3>2
  <2>6. CASE q.kind = "subscribe"
    <3>1. subscribed' = subscribed \cup {q.topic}
      BY <2>1, <2>6
    <3>2. pc[Operator] = "adding" /\ Answered(Operator)' => wants \in subscribed'
      BY <1>3, <2>2, <2>4, <3>1
    <3>. QED
      BY <1>3, <1>4, <2>1, <3>1, <3>2
  <2>7. CASE q.kind # "subscribe"
    <3>1. q.by = Operator /\ q.topic = wants /\ pc[Operator] # "adding"
      BY <2>4, <2>5, <2>7
    <3>2. pc[Operator] = "removing"
      BY <2>4, <3>1 DEF TokensOK, PcOK
    <3>3. subscribed' = subscribed \ {wants}
      BY <2>1, <2>7, <3>1
    <3>4. Added' = Added /\ Tracked' = Tracked
      BY <2>1 DEF slice, Added, Tracked
    <3>. QED
      BY <1>3, <2>1, <3>2, <3>3, <3>4 DEF AddedOK
  <2>. QED
    BY <2>6, <2>7
<1>11. ASSUME NEW topic \in Topics,
              AddSubscription(topic) \/ RemoveSubscription(topic)
       PROVE  AddedOK'
  <2>1. conn = "connected"
    BY <1>1, <1>11 DEF AddSubscription, RemoveSubscription, BeginOperation,
       IsConnected, MainOK
  <2>2. /\ pc[Operator] = "idle" /\ token'[Operator] = "pending"
        /\ wants' = topic /\ UNCHANGED <<slice, subscribed, inbound>>
    BY <1>11, <2>1 DEF AddSubscription, RemoveSubscription, BeginOperation,
       Subscribe, Unsubscribe, Request, ThreadsOK
  <2>3. ~ Answered(Operator)'
    <3>1. token[Operator] = "none"
      BY <2>2 DEF TokensOK
    <3>. QED
      BY <2>2, <3>1, NotInFlight DEF Answered
  <2>4. /\ Added' = Added /\ Tracked' = Tracked
        /\ \A other \in Added \cap Tracked : other \in subscribed \cap routes
    BY <1>3, <2>2 DEF slice, Added, Tracked
  <2>5. \/ pc'[Operator] = "adding" /\ routes' = routes \cup {topic}
        \/ pc'[Operator] = "removing" /\ routes' = routes \ {topic}
    BY <1>11, <2>1 DEF AddSubscription, RemoveSubscription, Subscribe,
       Unsubscribe, Goto, PcOK
  <2>. QED
    BY <2>2, <2>3, <2>4, <2>5 DEF AddedOK
<1>12. CASE AddAppend
  <2>1. /\ pc[Operator] = "adding" /\ pc'[Operator] = "idle"
        /\ token[Operator] = "ok" /\ token'[Operator] = "none"
        /\ UNCHANGED <<subscribed, routes>>
    BY <1>3, <1>12 DEF AddAppend, EndOperation, Returned, Goto, PcOK, ThreadsOK,
       wire, router
  <2>2. wants \in subscribed /\ wants \in routes
    BY <1>3, <2>1 DEF Answered
  <2>3. /\ len' = len + 1 /\ doubled \subseteq doubled'
        /\ IF len < Len(array)
           THEN array' = [array EXCEPT ![len + 1] = wants]
           ELSE array' = Append(array, wants) \o [j \in 1 .. len - 1 |-> Nil]
    BY <1>12, <2>1 DEF AddAppend
  <2>4. \A j \in 1 .. len + 1 : array'[j] = wants \/ array'[j] \in Tracked
    <3>1. len \in Nat /\ wants \in Topics
      BY <1>12 DEF ListOK, AddAppend, IInv, Parts, RangesOK
    <3>2. CASE len < Len(array)
      BY <2>3, <3>1, <3>2 DEF ListOK, Tracked
    <3>3. CASE ~ (len < Len(array))
      <4>. DEFINE free == [j \in 1 .. len - 1 |-> Nil]
      <4>1. len = Len(array) /\ len - 1 \in Nat
        BY <3>3 DEF ListOK
      <4>2. free \in Seq({Nil})
        BY <4>1
      <4>3. array' = Append(array, wants) \o free
        BY <2>3, <3>3
      <4>. HIDE DEF free
      <4>4. Append(array, wants) \in Seq(Topics \cup {Nil})
        BY <3>1 DEF ListOK
      <4>5. \A j \in 1 .. len + 1 : array'[j] = Append(array, wants)[j]
        BY <4>1, <4>2, <4>3, <4>4
      <4>. QED
        BY <4>1, <4>5 DEF ListOK, Tracked
    <3>. QED
      BY <3>2, <3>3
  <2>5. Tracked' \subseteq Tracked \cup {wants} /\ Added' \subseteq Added
    BY <2>3, <2>4 DEF Tracked, Added
  <2>. QED
    BY <1>3, <2>1, <2>2, <2>5 DEF AddedOK
<1>13. CASE RemoveCut
  <2>1. /\ pc[Operator] = "removing" /\ pc'[Operator] = "idle"
        /\ token[Operator] = "ok" /\ token'[Operator] = "none"
        /\ UNCHANGED <<subscribed, routes>>
    BY <1>3, <1>13 DEF RemoveCut, EndOperation, Returned, Goto, PcOK, ThreadsOK,
       wire, router
  <2>2. CASE wants \notin Tracked
    <3>1. Added' = Added /\ Tracked' = Tracked
      BY <1>13, <2>2 DEF RemoveCut, slice, Added, Tracked
    <3>. QED
      BY <1>3, <2>1, <2>2, <3>1 DEF AddedOK
  <2>3. CASE wants \in Tracked
    <3>1. PICK at \in 1 .. len :
            /\ array[at] = wants /\ len' = len - 1
            /\ \A j \in 1 .. len - 1 :
                 array'[j] = IF j < at THEN array[j] ELSE array[j + 1]
      BY <1>13, <2>1, <2>3, Cut
    <3>. DEFINE was(n) == IF n < at THEN n ELSE n + 1
    <3>2. \A j \in 1 .. len - 1 : was(j) \in 1 .. len /\ was(j) # at
      BY DEF ListOK
    <3>3. \A j \in 1 .. len - 1 : array'[j] = array[was(j)]
      BY <3>1
    <3>. HIDE DEF was
    <3>4. Tracked' \subseteq Tracked
      BY <3>1, <3>2, <3>3 DEF Tracked
    <3>5. Added' = Added
      BY <1>13, <2>1, <2>3 DEF RemoveCut, Added
    <3>6. wants \in Added => wants \notin Tracked'
      BY <3>1, <3>2, <3>3 DEF Tracked, IInv, AddedOnce
    <3>. QED
      BY <1>3, <2>1, <3>4, <3>5, <3>6 DEF AddedOK
  <2>. QED
    BY <2>2, <2>3
<1>14. CASE UNCHANGED <<pc, wants, token, slice, subscribed, routes, inbound>>
  BY <1>3, <1>4, <1>14 DEF Answered
<1>. QED
  BY <1>1, <1>2, <1>5, <1>6, <1>7, <1>8, <1>9, <1>10, <1>11, <1>12, <1>13, <1>14
  DEF Next, Main, Paho, Dispatch, MessageHandler, MessageProcessed, wire, router,
      threads, vars

-----------------------------------------------------------------------------
(* The invariant holds.                                                    *)

LEMMA InitIInv == Init => IInv
<1>. SUFFICES ASSUME Init PROVE IInv
  OBVIOUS
<1>. USE ThreadFacts, BoundFacts, TopicFacts DEF Init
<1>1. PcOK
  BY DEF PcOK, Labels, MainLabels, ConnectLabels
<1>2. ThreadsOK
  <2>1. range \in [OnConnects -> [len : Nat, array : Seq(Topics)]]
    <3>1. [len |-> 0, array |-> <<>>] \in [len : Nat, array : Seq(Topics)]
      OBVIOUS
    <3>. QED
      BY <3>1
  <2>. QED
    BY <2>1 DEF ThreadsOK
<1>3. ListOK
  BY DEF ListOK
<1>4. WireOK
  BY DEF WireOK
<1>5. CountsOK
  BY PublishesNone DEF CountsOK
<1>6. MainOK /\ LinkOK
  BY DEF MainOK, LinkOK
<1>7. FreshOK
  BY OnConnectFacts DEF FreshOK, Current
<1>8. TokensOK
  BY DEF TokensOK
<1>9. RangesOK
  BY DEF RangesOK
<1>10. FlightOK /\ SendersOK
  BY DEF FlightOK, SendersOK
<1>11. ListKept
  BY DEF ListKept
<1>12. OnlyListed /\ AllListed
  BY DEF OnlyListed, AllListed
<1>13. \A j \in 1 .. len : array[j] \in Range(InitialTopics)
  BY DEF Range
<1>14. AddedOnce /\ AddedOK
  BY <1>13 DEF AddedOnce, AddedOK, Added, Tracked
<1>. QED
  BY <1>1, <1>2, <1>3, <1>4, <1>5, <1>6, <1>7, <1>8, <1>9, <1>10, <1>11, <1>12,
     <1>14 DEF IInv, Parts

LEMMA NextIInv == IInv /\ [Next]_vars => IInv'
<1>. SUFFICES ASSUME IInv, [Next]_vars PROVE IInv'
  OBVIOUS
<1>1. Parts'
  BY PcStep, ThreadsStep, ListStep, WireStep, CountsStep, MainOKStep, LinkStep,
     FreshStep, TokensStep, RangesStep, FlightStep, SendersStep DEF Parts
<1>. QED
  BY <1>1, ListKeptStep, OnlyListedStep, AllListedStep, AddedOnceStep, AddedStep
  DEF IInv

\* The inductive invariant holds in every reachable state: handler.go's
\* locking, paho's tokens, the list of topics and what the broker is told.
THEOREM SubscriberInvariance == Spec => []IInv
BY InitIInv, NextIInv, PTL DEF Spec

-----------------------------------------------------------------------------
(* What follows from it.                                                   *)

\* Every variable has its type: an index stays in its range, the list in its
\* array, the router in its room, and no more messages are counted than were
\* published.
THEOREM SubscriberTypes == Spec => []TypeOK
<1>1. ASSUME IInv PROVE TypeOK
  <2>. /\ PcOK /\ ThreadsOK /\ ListOK /\ WireOK /\ CountsOK /\ RangesOK
    BY <1>1 DEF IInv, Parts
  <2>1. /\ Range(array) \subseteq Topics \cup {Nil}
        /\ len \in 0 .. Len(array) /\ doubled \subseteq Topics
    BY DEF ListOK, Range
  <2>2. pc \in [Threads -> Labels]
    BY DEF PcOK
  <2>3. /\ mutex \in {Free, MainThread, Operator} /\ isRunning \in BOOLEAN
        /\ wants \in Topics \cup {Nil}
        /\ token \in [Threads -> {"none", "pending", "ok", "error"}]
    BY DEF ThreadsOK
  <2>4. \A t \in OnConnects : i[t] \in 0 .. range[t].len + 1
    BY DEF RangesOK
  <2>5. /\ conn \in {"none", "connected", "dropping", "reconnecting", "closing",
                     "closed"}
        /\ routes \cup subscribed \subseteq Topics \cup {Garbage}
        /\ parked \in Seq(Topics \cup {Garbage}) /\ Len(parked) <= Slots
        /\ handler \in {"idle", "locking", "processing"}
    BY DEF WireOK
  <2>6. messageCount \in 0 .. published
    <3>1. Len(parked) \in Nat /\ Cardinality(Publishes(inbound)) \in Nat
      BY PublishesFinite DEF WireOK
    <3>. QED
      BY <3>1 DEF CountsOK
  <2>7. published \in 0 .. MaxMsgs /\ breaks \in 0 .. MaxBreaks
        /\ ops \in 0 .. MaxOps
    BY DEF CountsOK
  <2>. QED
    BY <2>1, <2>2, <2>3, <2>4, <2>5, <2>6, <2>7 DEF TypeOK
<1>. QED
  BY <1>1, SubscriberInvariance, PTL

\* After Stop the subscriber is silent (handler.go:143-178): an OnConnect
\* that is still in its loop finds the client closed.
THEOREM StopSilences == Spec => []StopIsFinal
<1>1. IInv => StopIsFinal
  BY DEF IInv, Parts, MainOK, LinkOK, StopIsFinal
<1>. QED
  BY <1>1, SubscriberInvariance, PTL

\* A topic added at runtime stays subscribed and routed while the connection
\* lasts (handler.go:199-281), though OnConnect reads the list without the
\* mutex meanwhile.
THEOREM AdditionsHold == Spec => []AddedIsSubscribed
<1>1. IInv => AddedIsSubscribed
  <2>1. IInv => Tracked \subseteq Topics
    BY DEF IInv, Parts, ListOK, Tracked
  <2>. QED
    BY <2>1 DEF IInv, AddedOK, Subscribing, Settled, AddedIsSubscribed, Added
<1>. QED
  BY <1>1, SubscriberInvariance, PTL

\* As long as no operation has touched the list, the broker's session holds
\* exactly the topics of the configuration whenever nothing is under way,
\* however often the connection was lost (handler.go:78-86, 181-196).
THEOREM SubscriptionsAreRestored == Spec => [](ops = 0 => SubscriptionsMatch)
<1>1. IInv => (ops = 0 => SubscriptionsMatch)
  <2>. SUFFICES ASSUME IInv, ops = 0, Settled PROVE subscribed = Tracked
    BY DEF SubscriptionsMatch
  <2>1. Subscribing /\ conn = "connected"
    BY DEF Settled, Subscribing
  <2>2. Current \in OnConnects
    BY OnConnectFacts DEF Current, IInv, Parts, CountsOK
  <2>3. pc[Current] = "done"
    BY <2>1, <2>2 DEF IInv, AllListed, Settled
  <2>. QED
    BY <2>1, <2>3 DEF IInv, AllListed, OnlyListed
<1>. QED
  BY <1>1, SubscriberInvariance, PTL
=============================================================================
