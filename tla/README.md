# The multi-protocol agent in TLA+

This directory specifies the multi-protocol agent (MPA), the gateway that takes
messages of IoT devices over HTTP, WebSocket, SocketIO and MQTT and publishes
them, one topic per tenant, to an MQTT broker. The modules are translated from
the Go code under `src/`; TLC checks them on small instances, and TLAPS proves
every safety property of them, and the refinement, for every instance. Liveness stays
with TLC.

File and line references are to `src/`. `internal/protocols` is abbreviated to
`protocols`.

## Inventory: the system's parts

| part | code | state | operations | what must be right |
|---|---|---|---|---|
| LoRaWAN webhooks (ChirpStack, TTN, Helium) | `protocols/lorawan/base/handler.go` | none of its own; metadata per request | Handle, HealthCheck | refusals in their order, the tenant of the request's own host |
| API handler | `protocols/non-lorawan/handler.go` | as above | Handle, HealthCheck | as above; agrees with the webhooks on a tenant's name |
| device service | `internal/services/device_service.go` | a reference to the client | Process{HTTP,MQTT,WebSocket}Message, forwardToMQTT | no message without a tenant, the right topic |
| MQTT output client | `internal/mqtt/client.go` | the paho client: connection, stored publishes, tokens | Connect, Publish, Disconnect | what is accepted arrives, what is refused does not, no duplicates without an outage |
| health | `HealthCheck` of each handler, `/health` | none | GET | tells an operator of a lost broker |
| lifecycle | `cmd/mpa/cmd/serve.go`, `internal/telemetry/otel.go` | handlers, client, server, signals, the exporter of spans | runServe, InitTracing and its cleanup | wired before it serves; stops in order; cuts nothing off |
| MQTT subscriber | `protocols/transport/mqtt/handler.go` | mutex, isRunning, SubscribeTopics, paho client | Start, Stop, Add/RemoveSubscription, OnConnect, messageHandler | the broker's session matches the list; nothing waits for itself |
| WebSocket | `protocols/transport/websocket/handler.go` | table of connections, counters | Handle, handleConnection, BroadcastMessage, CloseConnection | the table matches what is served; one writer at a time |
| SocketIO | `protocols/transport/socketio/handler.go` | server, table, counters | Start, Stop, Handle, the library's callbacks | the table matches the sessions; Stop against late callbacks breaks nothing |
| handler manager and factory registry | `protocols/handlers/`, `protocols/lorawan/factory.go` | two maps | Register, Unregister, CreateFactory | no use of a factory that is not set up |
| generic HTTP transport | `protocols/transport/http/handler.go` | none | Handle, HealthCheck | as the webhooks, by code of its own; not created by any command |
| device detection, parsers | `internal/models/` | registries of profiles, slices sorted at each call | DetectDevice, Parse | the best profile of the first detector, also with two detections at once; not called in forwarding mode |
| configuration, logging, command line | `internal/config`, `internal/logger`, `cmd/mpa` | settings | - | - |

**How they interact.** A request runs in a goroutine of net/http, goes through
echo's middleware (the body limit and the rate limiter may refuse it) to its handler,
and from there by plain calls to the device service and the output client,
where it waits for a paho token. paho has goroutines of its own: a writer, a
reader, a router that calls handlers in order, a keep-alive and the one that
reconnects. The WebSocket transport has a reader and a pinger for each
connection, outside net/http's count of requests in flight; SocketIO's sessions
go from the request through the library's queue to its Serve loop, whose
goroutines call the callbacks. The subscriber has
a second paho client whose router and OnConnect callback call back into the
handler. `runServe` owns all of them; the goroutine of the HTTP server shares
the end of the process with it.

**What is hard.** The link to the broker fails and recovers between any two
steps of a publish. Methods hold a mutex across a wait for the network.
A list is read without the lock under which it is written. Several goroutines
write to one connection, or sort one slice. A signal may come at any step of the start. The
`hazards` of `PROJECT.json` list each of these at its line, with the properties
that would catch it.

## Modules

| module | what it specifies |
|---|---|
| `TenantTopic` | from the Host header to the tenant and the topic, and the client's check of a topic: pure operators |
| `Forwarding` | a message from its handler to the broker and the answer to its sender, over a link that fails (EXTENDS `TenantTopic`) |
| `GatewayPromise` | the abstract specification: refuse, take, receive, accept, fail |
| `Health` | the health endpoints beside the forwarding path (EXTENDS `Forwarding`) |
| `Lifecycle` | `runServe`: start, signals, shutdown, deferred calls, the server goroutine, requests in flight |
| `MqttSubscriber` | the subscriber's methods, its mutex, OnConnect, paho's router, the broker's session |
| `WebSocket` | the connection table, reader, pinger, broadcasts, the operator's close |
| `SocketIO` | a session from its request to its end, the library's queue, the table and its counts, Start and Stop |
| `Detection` | the detectors' tests of a request, the registry, the sort of a shared slice, the generic parser |
| `X_proofs` | theorems about module X and their proofs; `Promise_proofs` those that relate `Forwarding` and `GatewayPromise` |
| `MC...` | instances for TLC |

Operators named `X_Something` under a comment `Mutant:` are X with one plausible
mistake in it. No specification uses them: they are put in X's place, one at a
time, to see that the property they are listed with in `PROJECT.json` fails.

### Forwarding

One variable per thing that can be observed of a message: the request (`req`),
where its goroutine is (`pc`), the answer (`resp`), the metadata map (`meta`,
of which only `tenant_id` and `mqtt_topic` matter), the topic handed to paho;
then paho's `status`, stored publishes (`store`) and completed tokens; then the
configured `qos`, the link, the copies on the `wire`, the acknowledgements, and what the broker got.

| action | code |
|---|---|
| `Handle` | a handler up to its call of the device service; `Admission` is its refusals |
| `Middleware` | the body limit and the rate limiter, `serve.go:264-268` |
| `ForwardToMQTT` | `forwardToMQTT`: topic, IsConnected, the metadata's topic overridden |
| `Publish` | `Publish`: IsConnected again, `determineTopic`, `validateTopic` |
| `PahoPublish`, `PahoSend`, `Write`, `WriteFails` | `publishToTopic`'s call of paho: the status is read, the message stored, the status read again, the message handed to the writer |
| `Respond` | `token.Wait` returns, the handler answers |
| `PubAck`, `ConnectionLost`, `WorkersStopped`, `Reconnect`, `LinkBreaks`, `BrokerReceives` | external: paho v1.5.1, TCP, the broker |

What is taken of paho v1.5.1, as `client.go:59-94` configures it: a connection that is
lost is `"disconnecting"` until its workers have stopped and then `"reconnecting"`, and
IsConnected is true in both (AutoReconnect); Publish reads the status twice. A QoS 0
publish whose first read finds a reconnection completes its token and is dropped; one
that passes the first read and does not find the client connected at the second is
left to the resume of the store, in which nothing of QoS 0 is: its token never
completes and `token.Wait` (`client.go:165`) waits for ever (`Stranded`); a QoS 1 publish is stored, sent again on
every reconnection until acknowledged, and resuming may complete the token of an
earlier copy before the acknowledgement; a hand-off the writer does not take in
30 seconds fails. An empty Content-Type counts as JSON, as in the code. A
character of a host is a word character, one that sanitizing strips, another
one, a dot or a colon; a fixed word of a topic counts as one character. Device identifiers, payloads and the rest of the metadata
are left out: nothing branches on them. An answer of 0 is no answer yet; for a
transport without status codes 200 stands for the success message, 500 for the
error, 400 for an event refused by its form.

The refinement (`KeepsPromise`) maps `topic[m] # NoTopic` to taken, the copies
delivered to received, and a 500 after the topic was handed over to `failed`, any
other error to `refused`.

### Lifecycle

`main` is a program counter over `runServe`, `server` one over the goroutine of
`e.Start`, `inflight` the requests whose handler runs, `tracing` the exporter of
spans. `Init` ranges over every choice of protocols and of a broker. Tracing that
is disabled or whose exporter cannot be made is `"off"`; an exporter is made and
shut down within 5 s, so neither step blocks. The two deferred calls are steps of their
own, `Disconnect` and then `Flush`, and `os.Exit` of the server's goroutine may
come before either. Connect waits for the broker, because
ConnectRetry has paho retry inside the token: the loop of ten attempts makes one.
`ServerReturns` is `os.Exit(1)` after `ErrServerClosed`. `Upgrade` is
a handler that hands its connection to WebSocket or SocketIO: Shutdown does not
wait for those (`upgraded`) and nothing else stops them. `Panic` is the end one of their
goroutines can make of the process, as `WebSocket` and `SocketIO` show. `Forward` is a
message handed to the device service by a request, by such a connection or by the
subscriber; `late` remembers which kinds of them came after the client was closed. The Stop of
a running subscriber may never come back (`subscriber_stop`), so `StopSubscriber` is
a step that may happen and `Returns` collects those of the main goroutine that must.

### MqttSubscriber

Five threads: the main goroutine (Start, Stop), an operator (AddSubscription,
RemoveSubscription), an OnConnect for each connection, paho's reader and
router. `token` is what each waits for. The topics are a slice: an `array` and a
`len`, so that an append in place, an append into a new array, and a cut in place
differ for an OnConnect that ranges over them without the mutex; the range
loads the two words of the slice one after the other, and what it reads torn is
`Garbage`. `doubled` remembers the topics that were appended while they were listed:
what one removal leaves of them is listed and not subscribed. paho reads packets in order and parks at most `Slots` publishes for a
busy router (the buffers of its channels), so an acknowledgement may stay unread
behind them; it fails waiting tokens when its workers, the running handler among
them, have stopped; Disconnect returns within its 250 ms.

### WebSocket

Each use of the table is under the mutex and so a step. A write to a connection
is two steps, so that two of them can overlap: gorilla/websocket allows one
writer and panics when it notices a second; if it does not, the frames mix.

### SocketIO

`session` is where a session is: none, its request between Handle's two reads of
`h.server`, opening (the goroutine that sends it to the queue), queued, accepted
(by Serve, before OnConnect), open, processing (in the middle of an event),
closed. Stop is three steps: the library's Close,
`h.server = nil` (`"dropped"`: Handle, which reads it without the mutex, may see it), and what
only the mutex shows, the new table and the end. `locked` is Stop holding the mutex
from one of them to the next; every other critical section is one step. `counts` and `messageCount` are the handler's
counters, `received` counts the events that were really handed over.

Taken of go-socket.io v1.7.0: a new session is sent to a queue of one by a goroutine
of its own; Serve takes it out and writes the first packet, then calls OnConnect;
the events and the end of a session come from its one reader, in order; when that
first packet cannot be written OnDisconnect is called without OnConnect; Close closes
the queue, which makes pending and later sends panic, and closes no session; Emit
returns. Nothing in the repository calls Serve. `served` therefore has both
values: FALSE is the service as it is (no session gets past the queue),
TRUE the one the callbacks are written for, and the properties hold of both.

### Detection

Tests of a request against a profile are operators: the wildcard pattern as the set
of prefixes it can have matched, headers as a function from names to values with
the empty one for a missing header, a regex as the set of strings it matches. The
fields of a body are a function from keys to values, and a profile's `fields` one from the
names of a message's parts to keys: the payload detector looks for the names in the
body, `Parse` for the keys. Then
the registry: profiles and detectors are registered while no request is looked at, in
each of `Orders`, a profile as often as one likes; a goroutine asks the detectors in turn;
three of them sort the slice they share with every other detection and scan it,
element by element. `sort.Slice` sorts up to twelve elements by insertion, and
`MaxProfiles` keeps the slices that short; a swap is two stores,
so that another goroutine may see, or sort, the slice with one element doubled. The path
detector's map has no order: any pattern that matches may win.

`overlapped` remembers that a detection began beside another while a slice was
out of order. Without it `BestOfFirstDetector` holds; with it the code
may miss the best profile for a request, or lose a profile for good, and so may the model.
What still holds then is `AnswersMatch`, and `SelfNamedPartsAreFound`: a part whose key is its
name is in the message of every request that the payload detector has accepted. `SortedStays` is why the danger ends with the first undisturbed
detection: a sorted slice is never written again.

## Runs

| run | instance | what it shows |
|---|---|---|
| `algorithms` | every host of up to 5 characters over 7, tenants of up to 2; 7 profiles, 2 orders of detectors, 2 requests, 2 detections at once | what a handler accepts the client can publish; the three endpoints agree on a name; only the first label counts; which profile a request gets and what the parser finds for it, whatever two sorts of one slice do meanwhile |
| `forwarding` | 2 messages out of 13 shapes over 6 transports, QoS 0 and 1, with and without a broker, 2 outages | safety, the refinement, and that every sender is answered but one stranded at QoS 0; what is accepted is held until it arrives and arrives at QoS 1, and is only lost in an outage at QoS 0 |
| `forwarding_transports` | the same shapes, 1 outage | *fails*: WebSocket, SocketIO and subscriber messages name no tenant and are always refused (README.md:10) |
| `health_reconnecting` | 1 message, 1 outage | *fails*: 200 while the client reconnects (README.md:472) |
| `lifecycle` | every configuration, 2 requests, 2 signals | wiring, order of the shutdown and of the deferred calls, which users of the client may find it closed, and that the start ends, and the shutdown if the subscriber's Stop does |
| `lifecycle_graceful` | 1 signal | *fails*: the server goroutine exits with requests in flight (README.md:471) |
| `subscriber_ops` | 2 topics and 1 more, 1 message, 1 lost connection, 1 operation | Add, Remove and Stop against OnConnect and the handler |
| `subscriber_reconnect` | 2 topics, 3 messages, 1 slot, 1 lost connection, Stop at any moment | what a reconnection restores; a message waits for ever only behind a method that waits for a token it cannot get |
| `subscriber_stop` | 2 topics, 4 messages, 2 slots | *fails*: Stop and the message handler wait for each other (`mqtt/handler.go:143`) |
| `socketio_table` | 3 sessions, 2 events each, with and without Serve | table, counts, and what Stop breaks and what it does not |
| `websocket_table` | 2 connections, 2 messages, 1 ping, 1 broadcast | the table |
| `websocket_writers` | 1 connection, 1 message, 1 ping | *fails*: two writers at once (`websocket/handler.go:236`) |

The runs marked *fails* check one statement of the documentation or of a comment
that the code does not keep; `PROJECT.json` quotes it under `findings`.

**Why the bounds are enough.** Two messages of two tenants are what it takes to
mix tenants up, and no action relates three. Two outages let a message be sent,
lost, resent and lost again; a third repeats the second. Five characters give
every order of a label, a stripped character, a dot and a port, and a label longer than
`MaxTenantLen`, which is 2 there. Two requests and two signals give one in
flight while another arrives, and a second signal into a full channel. In the
subscriber one lost connection interrupts OnConnect at every topic; one
operation falls at every point of it. Two connections are what a mix-up of two
entries takes. Three SocketIO sessions are one that is connected, one in the queue and
one that waits for the queue; two events of each give one counted before Stop
and one after. Two profiles of one priority and one above are what a sort can put wrong,
and two detections what can meet over a slice; the seven profiles are registered
in every order, up to three that share a slice, the same one again included. One message
more than fit into the router's slot and its handler is what an acknowledgement can be stuck behind. The hosts and the detections of `algorithms` share
nothing: a behaviour is of one or of the other. Deadlock is checked for the
lifecycle alone: the other systems come to rest when their bounded inputs are used up.

The two runs of the subscriber stay two because operations, a lost connection and
several messages together are beyond what TLC explores in minutes. `HandledUnlessStuck` is
therefore checked with Stop as the method that holds the mutex; AddSubscription and
RemoveSubscription hold it across the same wait.

**What the subscriber does not promise.** A topic that is added while a
connection is lost and another made may be recorded and not subscribed, and one
that is removed may be subscribed again by an OnConnect that has read the list
before. `AddedIsSubscribed` therefore speaks of the first connection, and
`SubscriptionsMatch` is checked without operations. A topic that is added twice and removed
once stays listed without a subscription, and comes back with the next connection. Neither method has a
caller in the repository.

**Fairness.** Forwarding: each goroutine of the gateway and of paho that can go
on does (`GatewayFairness`); the broker takes the client back and reads what it
is sent (`BrokerFairness`). Without the second a handler at QoS 1 waits for
ever, as the code has no limit on `token.Wait`. With both a stranded QoS 0 handler does. Lifecycle: the main goroutine and
the server's run, but for the Stop of a subscriber that runs, so `ShutdownEnds` says that a shutdown
ends or waits in that Stop; nothing is asked of requests, signals or the broker, so
`StartupEnds` assumes in so many words that the broker is there to stay.
Subscriber: weak fairness of each goroutine and of the broker's answers, strong
fairness of the message handler's lock, because Go's mutex hands a starving
waiter the lock; it does nothing while Stop keeps the lock, which is the case `Stuck` describes. WebSocket: goroutines run, a write ends by its write deadline, and
the read deadline of a silent peer passes; nothing is asked of peers. SocketIO:
Stop's steps follow one another, the library's goroutines run, a reader
notices that its peer has gone (engine.io's ping times out); nothing is asked of
Start, of requests or of peers.

## Proofs

Assumptions: those the modules state of their constants, which TLC evaluates in every
run.

| assumption | what it asks, and why it may |
|---|---|
| `CharsAssumption` | sanitizing strips no word character; dot, colon, `/`, `+` and `#` are none (`base/handler.go:187-196`) |
| `MaxTenantLenAssumption` | a name may have a character |
| `ForwardingAssumption` | requests have the shapes the handlers tell apart |
| `SocketIOAssumption` | a process has finitely many sessions; without it their events have no sum |
| `SubscriberAssumption` | there is a topic to begin with, as in the list `serve.go:196` hands over; bounds are numbers |
| `DetectionAssumption` | a path is a string, a priority an integer; no slice has more than the 12 elements that `sort.Slice` sorts by insertion |
| `LifecycleAssumption`, `WebSocketAssumption` | bounds are numbers |

Everything else holds for every set of messages, request shapes, hosts of any length,
connections, topics, profiles, goroutines, and any number of outages, requests, signals
and events.

*Forwarding.* None of the safety properties is inductive. That a refused message
is never published needs to know that a message before its hand-off is neither
stored nor on the wire; that the topic is its own tenant's, that the metadata is,
from Handle on; the number of copies, that copies in flight are gone
when a link breaks. `IInv` collects these:

- `Stages`: what is true of a message at each `pc`: no answer before the end, no
  topic before `Publish`, nothing stored, sent or completed before the hand-off;
- `OwnTopics`: from Handle on the metadata's tenant is the one the request's host
  names, or none, and a topic is its topic;
- `LinkState`: how paho's status and the link relate, and that nothing is in
  flight over a link that is down;
- `Copies`: each copy beyond the first is paid for by an outage.

There is one lemma per action, `NextIInv` puts them together, and each theorem
follows from `IInv` at once (`TypeCorrect`, `TenantsKeptApart`, `RefusalIsFinal`,
`AcceptedHeld`, `AcceptedSurvives`, `FewCopies`), the action property
`ResendsOnReconnect` from `IInv` and the step. `AdmissionFacts` is the one lemma
on the handlers' refusals.

*Tenants and topics.* A host is a string that grows by one character a step, so a
property of all of them is one of all strings. `CutAtFirst` says what cutting at a character
gives, `CutAtAppend`, `CutAtEnd` and `CutAtNothing` what one more character changes; `WordsAreKept`
and `SanitizeType` are what stripping does. An accepted tenant is a word (`AcceptedIsWord`), and the
topic of a word has its three separators where the client looks for them
(`TopicParts`, `SeparatorsOf`, `WordTopicIsValid`). Here the proofs are by the least counterexample:
`LeastOf` gives every nonempty set of numbers its least element, and the first length at which a
recursive function of `n` would not do what it should has a predecessor at which it does.
That is what takes the place of the library's induction theorems.

*Refinement.* `Promise_proofs!Implements` proves `Spec => KeepsPromise`: initial
states map to initial states, and each action to one of the promise's or to a
stutter, with `IInv` for the guards (that a message that is received was taken,
that at QoS 0 one that failed is not received later).

*Lifecycle.* `IInv` adds `Wiring` (what is wired at each stage of `main`),
`Serving` (requests only while the server has started; client and tracing end at the
stages of the deferred calls; whatever finds the client closed does so at the last stage, and
is no request, since none is left by then) and `Stopping` (the transports at each stage of the
shutdown) to the type invariant.

*WebSocket.* The table invariant is inductive together with the types: each use of the
table is one step, a reader forgets its connection before it closes it, and the
other side that deletes entries closes the connection in the same step.

*SocketIO.* The table invariant and `ConnectedNeverKills` lean on each other's
context: a session that is open is in the context (`ContextOfConnected`), the
server is only nil before Start and once Stop has closed it (`ServerFollowsMain`), and an entry counts
exactly what its session received because a session counts nothing before it connects
(`EntriesCount`). `IInv` is these with the properties themselves; one lemma per group
of steps. `CountsAreExact` adds the total: a sum over a finite set is the sum over the rest
and its chosen element (`TotalStep`), so that an event of one session moves it by one
(`SumOfOneMore`, again from a least counterexample, by the size of the set).

*MqttSubscriber.* What Stop, OnConnect and an operation leave behind depends on what is on
its way between client and broker, so `IInv` follows the wire. `MainOK` ties the main
goroutine, the mutex and the connection together; `LinkOK` says that without a connection
nothing is on its way, which with `MainOK` is `StopIsFinal`. `TokensOK`, `FlightOK` and
`SendersOK` say that a thread waits for one token, answered by one request or one
acknowledgement under way. On these rest `OnlyListed` and `AllListed` (the topics before the
position of the current OnConnect are subscribed, and nothing outside the list is), and `AddedOnce`
and `AddedOK` for the topics an operation has added. `CountsOK` bounds the
counters: every message counted, parked or in flight has been published.
`SubscriptionsAreRestored` states `SubscriptionsMatch` as long as no operation has begun
(`ops = 0`), which is how the run checks it; with operations it does not hold (see *What
the subscriber does not promise*).

*Detection.* The invariant follows the insertion sort through its stores. `Apart`: as long as
no two detections have met over a slice out of order, the slices are in order or a single
goroutine is at work. `Ordered`: with the swap that is under way completed
(`Completed`), up to the outer index of a sort the slice is in
order but for the element that travels to the front, and what a scan has passed does not match.
`Searched`: the detectors asked before had no profile for the request. `Ordered` and
`Searched` are asked only while `overlapped` is FALSE; `AnswersMatch` holds without it, since a scan
compares the element it has read, wherever that came from, and
`SelfNamedPartsAreParsed` follows from it. `SortedSlicesStay` follows from
the types and the order of one step: in a sorted slice no comparison asks for a swap.

TLC checked each of these inductive invariants on the instances above.

**Only model-checked.** Liveness: it depends on fairness and ENABLED, which the prover
does not handle (`AnsweredOrStranded`, `AcceptedIsDelivered`, `ShutdownEnds`, `StartupEnds`,
`Resubscribes`, `HandledUnlessStuck`, `GoneLeaveTable`, `DeadIsForgotten`). The promise states no fairness, so the refinement is of safety alone.

## Not modelled

- QoS 2, retained messages, real time: time limits are steps that may happen.
- The factory registry (used by an example and tests only; no state of the service
  depends on it), the layers of the configuration (a library's), log lines and spans.
  Of detection: the maps from names to profiles and parsers, the choice of a parser by
  make and model, and the copy into an MQTT message.
- SocketIO's rooms, GetConnections and BroadcastToRoom, which have no caller.
- The counters and texts in the bodies of health answers.
- Certain facts no property is stated of: nothing runs SocketIO's Serve, so that a session is opened
  and never connected (`socketio/handler.go:103`; README.md:12 announces "WebSocket and SocketIO
  for live data"); upgraded connections outlive Disconnect (`late`); two overlapping sorts may lose
  a profile for good (`detector.go:95`); a payload profile may be chosen for a body without the
  keys it maps parts to (`detector.go:196`); the pinger of a closed WebSocket connection never
  ends (`websocket/handler.go:151`); `max_connections` of SocketIO is reported and never
  compared (`socketio/handler.go:160`); "Close all connections" (`:124`) only logs them;
  a setting without a default and not in `config.yaml` is not taken from the environment,
  since viper's Unmarshal visits the keys it knows; the default `subscribe_topics` hold
  `*`, which is no wildcard of MQTT (`config.go:143`); the webhook handler takes a body that
  is not JSON, where README.md:469 says it answers 400.

## Plan

1. Done: the forwarding path and its promise, health, lifecycle, subscriber,
   WebSocket, SocketIO, detection; proofs of all their safety properties and of the
   refinement.
2. A promise for the subscriber (the list and the session of the broker) and for the
   table of a transport, with proofs that the modules implement them, should one of their
   methods get a caller.
