--------------------------- MODULE MqttSubscriber ---------------------------
(***************************************************************************)
(* The MQTT subscriber transport: Start, Stop, AddSubscription and         *)
(* RemoveSubscription, the OnConnect callback that subscribes after every  *)
(* connection, and the message handler paho's router calls.                *)
(*                                                                         *)
(* The methods hold the handler's mutex while they wait for a token, the   *)
(* message handler takes it for every message, and paho reads the packets  *)
(* of a connection in order: an acknowledgement behind publishes is only   *)
(* read when the router has room for them.                                 *)
(***************************************************************************)
EXTENDS Naturals, Sequences, FiniteSets, SequencesExt

CONSTANTS
    InitialTopics,  \* config.SubscribeTopics when the handler is made
    ExtraTopics,    \* topics an operator may add
    Slots,          \* publishes paho reads ahead of a busy router
    MaxMsgs, MaxBreaks, MaxOps      \* bounds

Topics == Range(InitialTopics) \cup ExtraTopics
Nil    == "nil"     \* an unused cell of the topics' array
Garbage == "?"      \* words of two strings, or memory behind the array

ASSUME SubscriberAssumption ==
    /\ InitialTopics \in Seq(Topics) /\ InitialTopics # <<>>
    /\ {Nil, Garbage} \cap Topics = {}
    /\ Slots \in Nat /\ MaxMsgs \in Nat /\ MaxBreaks \in Nat /\ MaxOps \in Nat

OnConnects == {"onconnect"} \X (1 .. MaxBreaks + 1)  \* one per connection
MainThread == <<"main", 0>>                     \* Start, then Stop
Operator   == <<"operator", 0>>                 \* AddSubscription, Remove...
Free       == <<"nobody", 0>>
Threads    == OnConnects \cup {MainThread, Operator}

VARIABLES
    mutex,      \* the thread that holds h.mutex, or Free
    isRunning,
    array,      \* the array behind config.SubscribeTopics
    len,        \* the slice's length
    doubled,    \* topics that have been appended while they were in the list
    pc,         \* where each thread is
    i,          \* the index of its loop over the topics
    range,      \* what an OnConnect ranges over: a length, and an array
    wants,      \* the topic an operator adds or removes
    token,      \* the token a thread waits for: "none", "pending", "ok", "error"
    conn,       \* paho: "none", "connected", "dropping", "reconnecting",
                \* "closing", "closed"
    routes,     \* topics with a callback in the router
    outbound,   \* SUBSCRIBE and UNSUBSCRIBE on their way to the broker
    inbound,    \* packets on their way to the client
    parked,     \* publishes read and not yet taken by the router
    handler,    \* the router's call: "idle", "locking", "processing"
    messageCount,
    subscribed, \* the broker's session
    published, breaks, ops      \* what the bounds count

slice   == <<array, len, doubled>>
threads == <<pc, i, range, wants, token>>
wire    == <<outbound, inbound, subscribed, published>>
router  == <<routes, parked, handler, messageCount>>
vars == <<mutex, isRunning, slice, threads, conn, wire, router, breaks, ops>>

Init ==
    /\ mutex = Free
    /\ isRunning = FALSE
    /\ array = InitialTopics /\ len = Len(InitialTopics) /\ doubled = {}
    /\ pc = [t \in Threads |-> "idle"]
    /\ i = [t \in Threads |-> 0]
    /\ range = [t \in OnConnects |-> [len |-> 0, array |-> <<>>]]
    /\ wants = Nil
    /\ token = [t \in Threads |-> "none"]
    /\ conn = "none"
    /\ routes = {} /\ parked = <<>> /\ handler = "idle" /\ messageCount = 0
    /\ outbound = <<>> /\ inbound = <<>> /\ subscribed = {} /\ published = 0
    /\ breaks = 0 /\ ops = 0

IsConnected == conn \in {"connected", "dropping", "reconnecting"}

Tracked == {array[j] : j \in 1 .. len}      \* config.SubscribeTopics

-----------------------------------------------------------------------------
(* Tokens.  A request made while the connection is not open fails at once. *)

Request(t, kind, topic) ==
    IF conn = "connected"
    THEN /\ token' = [token EXCEPT ![t] = "pending"]
         /\ outbound' = Append(outbound, [kind |-> kind, topic |-> topic,
                                          by |-> t])
    ELSE /\ token' = [token EXCEPT ![t] = "error"]
         /\ UNCHANGED outbound

\* The callback is routed before the request is sent, and taken away only
\* when the request could be sent.
Subscribe(t, topic) ==
    /\ Request(t, "subscribe", topic)
    /\ routes' = IF conn = "connected" THEN routes \cup {topic} ELSE routes

Unsubscribe(t, topic) ==
    /\ Request(t, "unsubscribe", topic)
    /\ routes' = IF conn = "connected" THEN routes \ {topic} ELSE routes

Returned(t) == token[t] \in {"ok", "error"}

Goto(t, label) == pc' = [pc EXCEPT ![t] = label]

-----------------------------------------------------------------------------
(* Start and Stop, called by the main goroutine.                           *)

Start ==
    /\ pc[MainThread] = "idle"
    /\ mutex = Free
    /\ mutex' = MainThread
    /\ Goto(MainThread, "connect")
    /\ UNCHANGED <<isRunning, slice, i, range, wants, token, conn, wire, router,
                   breaks, ops>>

\* The token of Connect completes when the connection is up; OnConnect is
\* called in a goroutine of its own.
OnConnected(goes) ==
    /\ conn' = "connected"
    /\ pc' = [goes EXCEPT ![<<"onconnect", breaks + 1>>] = "load"]

\* Mutant: Start returns with the mutex locked.
StartConnected_NoUnlock ==
    /\ pc[MainThread] = "connect"
    /\ OnConnected([pc EXCEPT ![MainThread] = "started"])
    /\ isRunning' = TRUE
    /\ UNCHANGED <<mutex, slice, i, range, wants, token, wire, router, breaks,
                   ops>>

StartConnected ==
    /\ pc[MainThread] = "connect"
    /\ OnConnected([pc EXCEPT ![MainThread] = "started"])
    /\ isRunning' = TRUE
    /\ mutex' = Free
    /\ UNCHANGED <<slice, i, range, wants, token, wire, router, breaks, ops>>

Stop ==
    /\ pc[MainThread] = "started"
    /\ mutex = Free
    /\ mutex' = MainThread
    /\ Goto(MainThread, "unsubscribe")
    /\ i' = [i EXCEPT ![MainThread] = 1]
    /\ UNCHANGED <<isRunning, slice, range, wants, token, conn, wire, router,
                   breaks, ops>>

StopUnsubscribe ==
    /\ pc[MainThread] = "unsubscribe"
    /\ i[MainThread] <= len
    /\ Unsubscribe(MainThread, array[i[MainThread]])
    /\ Goto(MainThread, "unsubscribing")
    /\ UNCHANGED <<mutex, isRunning, slice, i, range, wants, conn, inbound,
                   subscribed, published, parked, handler, messageCount,
                   breaks, ops>>

\* An error is logged and the next topic unsubscribed.
StopUnsubscribed ==
    /\ pc[MainThread] = "unsubscribing"
    /\ Returned(MainThread)
    /\ token' = [token EXCEPT ![MainThread] = "none"]
    /\ i' = [i EXCEPT ![MainThread] = @ + 1]
    /\ Goto(MainThread, "unsubscribe")
    /\ UNCHANGED <<mutex, isRunning, slice, range, wants, conn, wire, router,
                   breaks, ops>>

\* Mutant: Stop unsubscribes and leaves the client connected.
StopDisconnect_Never ==
    /\ pc[MainThread] = "unsubscribe"
    /\ i[MainThread] > len
    /\ isRunning' = FALSE
    /\ mutex' = Free
    /\ Goto(MainThread, "stopped")
    /\ UNCHANGED <<slice, i, range, wants, token, conn, wire, router, breaks,
                   ops>>

\* Disconnect returns within its 250 ms, whatever is left to stop.
StopDisconnect ==
    /\ pc[MainThread] = "unsubscribe"
    /\ i[MainThread] > len
    /\ conn' = "closing"
    /\ subscribed' = {}
    /\ outbound' = <<>> /\ inbound' = <<>>
    /\ isRunning' = FALSE
    /\ mutex' = Free
    /\ Goto(MainThread, "stopped")
    /\ UNCHANGED <<slice, i, range, wants, token, published, router, breaks,
                   ops>>

-----------------------------------------------------------------------------
(* OnConnect: subscribeToTopics, without the mutex.                        *)

\* The range loads the slice's array and its length, one word after the
\* other: an append between them pairs the old array with the new length.
\* The array loaded is the slice's own until an append leaves it behind.
LoadArray(t) ==
    /\ pc[t] = "load"
    /\ range' = [range EXCEPT ![t].array = <<>>]
    /\ Goto(t, "load length")
    /\ UNCHANGED <<mutex, isRunning, slice, i, wants, token, conn, wire, router,
                   breaks, ops>>

LoadLength(t) ==
    /\ pc[t] = "load length"
    /\ range' = [range EXCEPT ![t].len = len]
    /\ i' = [i EXCEPT ![t] = 1]
    /\ Goto(t, "next")
    /\ UNCHANGED <<mutex, isRunning, slice, wants, token, conn, wire, router,
                   breaks, ops>>

\* The cells a RemoveSubscription is about to move, and the first of them.
At == CHOOSE j \in 1 .. len :
        array[j] = wants /\ \A k \in 1 .. j - 1 : array[k] # wants

Moving ==
    IF pc[Operator] = "removing" /\ token[Operator] = "ok" /\ wants \in Tracked
    THEN At .. len - 1 ELSE {}

\* What the range may read: a cell that is being moved may yield the address
\* of one topic with the length of another.
RangeTopics(t) ==
    LET cells == IF range[t].array = <<>> THEN array ELSE range[t].array
    IN  IF i[t] > Len(cells) THEN {Garbage}
        ELSE {cells[i[t]]}
             \cup (IF range[t].array = <<>> /\ i[t] \in Moving
                   THEN {Garbage} ELSE {})

\* Mutant: the first topic is taken for index 0, and the last one missed.
SubscribeToTopics_OffByOne(t) ==
    /\ pc[t] = "next"
    /\ IF i[t] < range[t].len
       THEN /\ \E topic \in RangeTopics(t) : Subscribe(t, topic)
            /\ Goto(t, "subscribing")
       ELSE /\ Goto(t, "done")
            /\ UNCHANGED <<token, outbound, routes>>
    /\ UNCHANGED <<mutex, isRunning, slice, i, range, wants, conn, inbound,
                   subscribed, published, parked, handler, messageCount,
                   breaks, ops>>

SubscribeToTopics(t) ==
    /\ pc[t] = "next"
    /\ IF i[t] <= range[t].len
       THEN /\ \E topic \in RangeTopics(t) : Subscribe(t, topic)
            /\ Goto(t, "subscribing")
       ELSE /\ Goto(t, "done")
            /\ UNCHANGED <<token, outbound, routes>>
    /\ UNCHANGED <<mutex, isRunning, slice, i, range, wants, conn, inbound,
                   subscribed, published, parked, handler, messageCount,
                   breaks, ops>>

TopicSubscribed(t) ==
    /\ pc[t] = "subscribing"
    /\ Returned(t)
    /\ token' = [token EXCEPT ![t] = "none"]
    /\ i' = [i EXCEPT ![t] = @ + 1]
    /\ Goto(t, "next")
    /\ UNCHANGED <<mutex, isRunning, slice, range, wants, conn, wire, router,
                   breaks, ops>>

-----------------------------------------------------------------------------
(* AddSubscription and RemoveSubscription.                                 *)

BeginOperation(topic) ==
    /\ pc[Operator] = "idle"
    /\ mutex = Free
    /\ isRunning /\ IsConnected
    /\ ops < MaxOps
    /\ ops' = ops + 1
    /\ wants' = topic
    /\ mutex' = Operator
    /\ UNCHANGED <<isRunning, slice, i, range, conn, inbound, subscribed,
                   published, parked, handler, messageCount, breaks>>

AddSubscription(topic) ==
    /\ BeginOperation(topic)
    /\ Subscribe(Operator, topic)
    /\ Goto(Operator, "adding")

RemoveSubscription(topic) ==
    /\ BeginOperation(topic)
    /\ Unsubscribe(Operator, topic)
    /\ Goto(Operator, "removing")

EndOperation ==
    /\ Returned(Operator)
    /\ token' = [token EXCEPT ![Operator] = "none"]
    /\ wants' = Nil
    /\ mutex' = Free
    /\ Goto(Operator, "idle")
    /\ UNCHANGED <<isRunning, i, conn, wire, router, breaks, ops>>

\* Mutant: the slice grows and its array does not.
AddAppend_InPlace ==
    /\ pc[Operator] = "adding"
    /\ EndOperation
    /\ IF token[Operator] = "error" THEN UNCHANGED slice
       ELSE /\ len' = len + 1
            /\ array' = [array EXCEPT ![len + 1] = wants]
            /\ UNCHANGED doubled
    /\ UNCHANGED range

\* Mutant: the topic is recorded without waiting for the token.
AddAppend_NoWait ==
    /\ pc[Operator] = "adding"
    /\ token' = [token EXCEPT ![Operator] = "none"]
    /\ wants' = Nil
    /\ mutex' = Free
    /\ Goto(Operator, "idle")
    /\ len' = len + 1
    /\ array' = Append(array, wants) \o [j \in 1 .. len - 1 |-> Nil]
    /\ UNCHANGED <<doubled, range, isRunning, i, conn, wire, router, breaks, ops>>

\* append: in place if the array has room, else into an array twice as long,
\* and whoever ranges over the slice keeps the old one.
AddAppend ==
    /\ pc[Operator] = "adding"
    /\ EndOperation
    /\ IF token[Operator] = "error" THEN UNCHANGED <<slice, range>>
       ELSE /\ len' = len + 1
            /\ doubled' = doubled \cup ({wants} \cap Tracked)
            /\ IF len < Len(array)
               THEN /\ array' = [array EXCEPT ![len + 1] = wants]
                    /\ UNCHANGED range
               ELSE /\ array' = Append(array, wants)
                                  \o [j \in 1 .. len - 1 |-> Nil]
                    /\ range' = [t \in OnConnects |->
                                   IF range[t].array = <<>>
                                   THEN [range[t] EXCEPT !.array = array]
                                   ELSE range[t]]

\* The first occurrence is cut out in place: the topics behind it move up,
\* and the last cell keeps its value.
RemoveCut ==
    /\ pc[Operator] = "removing"
    /\ EndOperation
    /\ IF token[Operator] = "error" \/ wants \notin Tracked
       THEN UNCHANGED slice
       ELSE /\ array' = [j \in DOMAIN array |-> IF j \in Moving THEN array[j + 1]
                                               ELSE array[j]]
            /\ len' = len - 1
            /\ UNCHANGED doubled
    /\ UNCHANGED range

-----------------------------------------------------------------------------
(* paho's reader and router, and the message handler.                      *)

Read ==
    /\ inbound # <<>>
    /\ LET p == Head(inbound)
       IN  IF p.kind = "publish"
           THEN /\ Len(parked) < Slots
                /\ parked' = Append(parked, p.topic)
                /\ UNCHANGED token
           ELSE /\ token' = [token EXCEPT ![p.by] =
                                IF @ = "pending" THEN "ok" ELSE @]
                /\ UNCHANGED parked
    /\ inbound' = Tail(inbound)
    /\ UNCHANGED <<mutex, isRunning, slice, pc, i, range, wants, conn, outbound,
                   subscribed, published, routes, handler, messageCount,
                   breaks, ops>>

\* A publish without a route goes nowhere: there is no default handler.
Dispatch ==
    /\ parked # <<>>
    /\ handler = "idle"
    /\ handler' = IF Head(parked) \in routes THEN "locking" ELSE "idle"
    /\ parked' = Tail(parked)
    /\ UNCHANGED <<mutex, isRunning, slice, threads, conn, wire, routes,
                   messageCount, breaks, ops>>

\* Lock, count, Unlock.
MessageHandler ==
    /\ handler = "locking"
    /\ mutex = Free
    /\ messageCount' = messageCount + 1
    /\ handler' = "processing"
    /\ UNCHANGED <<mutex, isRunning, slice, threads, conn, wire, routes, parked,
                   breaks, ops>>

\* The device service refuses the message, which names no tenant.
MessageProcessed ==
    /\ handler = "processing"
    /\ handler' = "idle"
    /\ UNCHANGED <<mutex, isRunning, slice, threads, conn, wire, routes, parked,
                   messageCount, breaks, ops>>

-----------------------------------------------------------------------------
(* The broker and the connection.  Sessions are clean: the broker forgets  *)
(* a session's subscriptions with its connection.                          *)

BrokerAnswers ==
    /\ outbound # <<>>
    /\ LET q == Head(outbound)
       IN  /\ subscribed' = IF q.kind = "subscribe" THEN subscribed \cup {q.topic}
                            ELSE subscribed \ {q.topic}
           /\ inbound' = Append(inbound, [kind |-> "ack", by |-> q.by])
    /\ outbound' = Tail(outbound)
    /\ UNCHANGED <<mutex, isRunning, slice, threads, conn, published, router,
                   breaks, ops>>

BrokerPublishes(topic) ==
    /\ topic \in subscribed
    /\ published < MaxMsgs
    /\ published' = published + 1
    /\ inbound' = Append(inbound, [kind |-> "publish", topic |-> topic])
    /\ UNCHANGED <<mutex, isRunning, slice, threads, conn, outbound, subscribed,
                   router, breaks, ops>>

LinkBreaks ==
    /\ conn = "connected"
    /\ breaks < MaxBreaks
    /\ breaks' = breaks + 1
    /\ conn' = "dropping"
    /\ outbound' = <<>> /\ inbound' = <<>> /\ subscribed' = {}
    /\ UNCHANGED <<mutex, isRunning, slice, threads, published, router, ops>>

\* The client fails the waiting tokens when its workers have stopped, the
\* router with the message it handles among them; then it reconnects.
ConnectionLost ==
    /\ conn \in {"dropping", "closing"}
    /\ parked = <<>> /\ handler = "idle"
    /\ conn' = IF conn = "dropping" THEN "reconnecting" ELSE "closed"
    /\ token' = [t \in Threads |-> IF token[t] = "pending" THEN "error"
                                   ELSE token[t]]
    /\ UNCHANGED <<mutex, isRunning, slice, pc, i, range, wants, wire, router,
                   breaks, ops>>

Reconnect ==
    /\ conn = "reconnecting"
    /\ OnConnected(pc)
    /\ UNCHANGED <<mutex, isRunning, slice, i, range, wants, token, wire, router,
                   breaks, ops>>

-----------------------------------------------------------------------------
Main == StartConnected \/ StopUnsubscribe \/ StopUnsubscribed \/ StopDisconnect

OnConnect(t) == \/ LoadArray(t) \/ LoadLength(t)
                \/ SubscribeToTopics(t) \/ TopicSubscribed(t)

Paho == Read \/ Dispatch \/ ConnectionLost \/ Reconnect

Next ==
    \/ Start \/ Stop \/ Main
    \/ \E t \in OnConnects : OnConnect(t)
    \/ \E topic \in Topics : \/ AddSubscription(topic)
                             \/ RemoveSubscription(topic)
                             \/ BrokerPublishes(topic)
    \/ AddAppend \/ RemoveCut
    \/ Paho
    \/ MessageHandler \/ MessageProcessed
    \/ BrokerAnswers
    \/ LinkBreaks

Spec == Init /\ [][Next]_vars

\* Goroutines run, a free mutex is not withheld for ever from one that
\* waits, and the broker answers.
Fairness ==
    /\ WF_vars(Start) /\ WF_vars(Main)
    /\ \A t \in OnConnects : WF_vars(OnConnect(t))
    /\ WF_vars(AddAppend) /\ WF_vars(RemoveCut)
    /\ WF_vars(Read) /\ WF_vars(Dispatch)
    /\ WF_vars(ConnectionLost) /\ WF_vars(Reconnect)
    /\ SF_vars(MessageHandler) /\ WF_vars(MessageProcessed)
    /\ WF_vars(BrokerAnswers)

FairSpec == Spec /\ Fairness

-----------------------------------------------------------------------------
(* Properties.                                                             *)

Labels == {"idle", "connect", "started", "unsubscribe", "unsubscribing",
           "stopped", "load", "load length", "next", "subscribing",
           "done", "adding", "removing"}

TypeOK ==
    /\ mutex \in {Free, MainThread, Operator}
    /\ isRunning \in BOOLEAN
    /\ Range(array) \subseteq Topics \cup {Nil}
    /\ len \in 0 .. Len(array) /\ doubled \subseteq Topics
    /\ pc \in [Threads -> Labels]
    /\ \A t \in OnConnects : i[t] \in 0 .. range[t].len + 1
    /\ wants \in Topics \cup {Nil}
    /\ token \in [Threads -> {"none", "pending", "ok", "error"}]
    /\ conn \in {"none", "connected", "dropping", "reconnecting", "closing",
                "closed"}
    /\ routes \cup subscribed \subseteq Topics \cup {Garbage}
    /\ parked \in Seq(Topics \cup {Garbage}) /\ Len(parked) <= Slots
    /\ handler \in {"idle", "locking", "processing"}
    /\ messageCount \in 0 .. published
    /\ published \in 0 .. MaxMsgs /\ breaks \in 0 .. MaxBreaks
    /\ ops \in 0 .. MaxOps

Settled ==
    /\ pc[MainThread] = "started" /\ pc[Operator] = "idle"
    /\ conn = "connected"
    /\ \A t \in OnConnects : pc[t] \in {"idle", "done"}

\* When nothing is under way and the connection is up, the broker's session
\* holds exactly the topics the handler lists: whatever the moment at which
\* a connection was lost and subscribeToTopics run again.
SubscriptionsMatch == Settled => subscribed = Tracked

\* A topic added at runtime is subscribed and routed when AddSubscription has
\* returned and nothing else is under way, though OnConnect may have been
\* going through the list meanwhile: as long as the connection lasts (an
\* OnConnect of the next one may have read the list before the append), and
\* unless the topic was added while it was in the list.  RemoveSubscription
\* ends the subscription and cuts out one entry: the other stays listed.
AddedIsSubscribed ==
    Settled /\ breaks = 0 =>
        \A topic \in Tracked \ (Range(InitialTopics) \cup doubled) :
            topic \in subscribed \cap routes

\* After Stop the subscriber is silent: an OnConnect still in its loop does
\* not subscribe again behind it.
StopIsFinal ==
    pc[MainThread] = "stopped" =>
        conn \in {"closing", "closed"} /\ subscribed = {} /\ outbound = <<>>

\* A method waits for a token with the mutex locked and the message handler
\* waits for the mutex.  The token could only complete by an answer that is
\* behind messages the router has no room for, or at the end of a connection
\* whose workers, the handler among them, have not stopped.
Stuck ==
    /\ mutex # Free /\ token[mutex] = "pending" /\ handler = "locking"
    /\ \/ conn = "dropping"
       \/ /\ inbound # <<>> /\ Head(inbound).kind = "publish"
          /\ Len(parked) = Slots

\* That is the only way for a message to wait for ever: otherwise its handler
\* gets the mutex, with Stop, an operation, OnConnect and a lost connection
\* beside it (handler.go:155 and 182, the mutex held and the mutex wanted).
HandledUnlessStuck == handler = "locking" ~> handler # "locking" \/ Stuck

\* Every topic is subscribed again when the connection has come to stay.
Resubscribes ==
    <>[](pc[MainThread] = "started" /\ conn = "connected")
        => <>[](subscribed = Tracked)

\* handler.go:143, "Stop gracefully stops the MQTT subscriber": Stop returns.
StopReturns == pc[MainThread] = "unsubscribe" ~> pc[MainThread] = "stopped"

=============================================================================
