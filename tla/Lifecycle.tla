----------------------------- MODULE Lifecycle -----------------------------
(***************************************************************************)
(* runServe: the start of the service, the HTTP server's goroutine, and    *)
(* the shutdown a signal begins.                                           *)
(*                                                                         *)
(* Three threads meet here: the main goroutine, the goroutine that runs    *)
(* the HTTP server and ends the process when it stops, and whatever calls  *)
(* the device service: the handlers of the requests in flight, connections *)
(* that were taken from the server, and the subscriber's message handler.  *)
(***************************************************************************)
EXTENDS Naturals, FiniteSets

CONSTANTS
    Requests,       \* HTTP requests that may arrive
    MaxSignals      \* bound on SIGINT and SIGTERM

ASSUME LifecycleAssumption == MaxSignals \in Nat

HTTPHandlers == {"chirpstack", "ttn", "helium", "api"}
Protocols    == HTTPHandlers \cup {"websocket", "mqtt"}

VARIABLES
    config,     \* enabled protocols, and whether a broker is configured
    reachable,  \* the broker takes connections
    main,       \* where runServe is
    client,     \* the output client: "none", "connected", "disconnected"
    handlers,   \* names registered with the handler manager
    subscriber, \* "off", "running", "stopped"
    socketio,   \* "off", "running", "stopped"
    server,     \* the server goroutine: "none", "starting", "serving", "closed"
    notified,   \* signal.Notify has been called
    quit,       \* signals in the channel, which holds one
    signals,    \* signals sent so far
    inflight,   \* requests whose handler runs
    arrived,    \* requests that have been accepted
    upgraded,   \* those whose connection WebSocket or SocketIO has taken over
    late,       \* kinds of senders that have found the client closed
    tracing,    \* the exporter of spans: "off", "on", "flushed"
    process     \* "running", or how it ended

startVars == <<config, client, handlers, subscriber, socketio>>
envVars   == <<reachable, tracing>>
sigVars   == <<notified, quit, signals>>
reqVars   == <<inflight, arrived, upgraded, late>>
vars == <<startVars, envVars, sigVars, reqVars, main, server, process>>

Init ==
    /\ config \in [enabled : SUBSET Protocols, broker : BOOLEAN]
    /\ reachable \in IF config.broker THEN BOOLEAN ELSE {FALSE}
    /\ main = "tracing" /\ tracing = "off"
    /\ client = "none"
    /\ handlers = {}
    /\ subscriber = "off" /\ socketio = "off"
    /\ server = "none"
    /\ notified = FALSE /\ quit = 0 /\ signals = 0
    /\ inflight = {} /\ arrived = {} /\ upgraded = {} /\ late = {}
    /\ process = "running"

Step(from, to) ==
    /\ process = "running"
    /\ main = from
    /\ main' = to

-----------------------------------------------------------------------------
(* Start.                                                                  *)

\* Tracing may be disabled, and an exporter that cannot be made disables it.
InitTracing ==
    /\ Step("tracing", "connect")
    /\ tracing' \in {"off", "on"}
    /\ UNCHANGED <<startVars, sigVars, reqVars, reachable, server, process>>

\* Mutant: the client connects in the background.
Connect_Background ==
    /\ Step("connect", "register")
    /\ UNCHANGED <<startVars, sigVars, reqVars, envVars, server, process>>

\* Mutant: the service does not start without a broker.
Connect_Required ==
    /\ Step("connect", "register")
    /\ config.broker /\ reachable
    /\ client' = "connected"
    /\ UNCHANGED <<config, handlers, subscriber, socketio, sigVars, reqVars,
                   envVars, server, process>>

\* paho's Connect retries inside its token: it returns when the broker has
\* taken the connection and never with an error, so the loop around it makes
\* one attempt.
Connect ==
    /\ Step("connect", "register")
    /\ config.broker => reachable
    /\ client' = IF config.broker THEN "connected" ELSE "none"
    /\ UNCHANGED <<config, handlers, subscriber, socketio, sigVars, reqVars,
                   envVars, server, process>>

RegisterHandlers ==
    /\ Step("register", "start_subscriber")
    /\ handlers' = config.enabled \ {"mqtt"}
    /\ UNCHANGED <<config, client, subscriber, socketio, sigVars, reqVars,
                   envVars, server, process>>

\* Start waits for the broker too, even when none is configured.
StartSubscriber ==
    /\ Step("start_subscriber", "start_socketio")
    /\ IF "mqtt" \in config.enabled
       THEN /\ reachable
            /\ subscriber' = "running"
            /\ handlers' = handlers \cup {"mqtt-subscriber"}
       ELSE UNCHANGED <<subscriber, handlers>>
    /\ UNCHANGED <<config, client, socketio, sigVars, reqVars, envVars,
                   server, process>>

\* SocketIO is enabled by the switch of the WebSocket.
StartSocketIO ==
    /\ Step("start_socketio", "listen")
    /\ IF "websocket" \in config.enabled
       THEN /\ socketio' = "running"
            /\ handlers' = handlers \cup {"socketio"}
       ELSE UNCHANGED <<socketio, handlers>>
    /\ UNCHANGED <<config, client, subscriber, sigVars, reqVars, envVars,
                   server, process>>

\* Routes are added, then the server's goroutine starts.
Listen ==
    /\ Step("listen", "notify")
    /\ server' = "starting"
    /\ UNCHANGED <<startVars, sigVars, reqVars, envVars, process>>

Notify ==
    /\ Step("notify", "wait")
    /\ notified' = TRUE
    /\ UNCHANGED <<startVars, quit, signals, reqVars, envVars, server,
                   process>>

-----------------------------------------------------------------------------
(* The server goroutine and the requests.                                  *)

\* Shutdown has been called.
Shutting == {"drain", "disconnect", "flush"}

Serve ==
    /\ process = "running"
    /\ server = "starting"
    /\ server' = IF main \in Shutting THEN "closed" ELSE "serving"
    /\ UNCHANGED <<startVars, sigVars, reqVars, envVars, main, process>>

\* The port is taken: e.Start returns an error.
BindFails ==
    /\ process = "running"
    /\ server = "starting"
    /\ process' = "exit_bind"
    /\ UNCHANGED <<startVars, sigVars, reqVars, envVars, main, server>>

\* After Shutdown e.Start returns ErrServerClosed, an error like any other.
ServerReturns ==
    /\ process = "running"
    /\ server = "closed"
    /\ process' = "exit_server"
    /\ UNCHANGED <<startVars, sigVars, reqVars, envVars, main, server>>

Arrive(r) ==
    /\ process = "running"
    /\ server = "serving"
    /\ r \notin arrived
    /\ arrived' = arrived \cup {r}
    /\ inflight' = inflight \cup {r}
    /\ UNCHANGED <<startVars, sigVars, upgraded, late, envVars, main, server,
                   process>>

Finish(r) ==
    /\ process = "running"
    /\ r \in inflight
    /\ inflight' = inflight \ {r}
    /\ UNCHANGED <<startVars, sigVars, arrived, upgraded, late, envVars, main,
                   server, process>>

\* A handler hands its connection over to goroutines of WebSocket or SocketIO
\* and returns.  Shutdown neither waits for these nor closes them, nor does
\* anything else in runServe.
Upgrade(r) ==
    /\ "websocket" \in config.enabled
    /\ process = "running"
    /\ r \in inflight
    /\ inflight' = inflight \ {r}
    /\ upgraded' = upgraded \cup {r}
    /\ UNCHANGED <<startVars, sigVars, arrived, late, envVars, main, server,
                   process>>

\* What may call the device service now.  A message that the subscriber's
\* router still holds when Stop's Disconnect gives up on it is handled after.
Senders ==
    (IF inflight # {} THEN {"request"} ELSE {})
        \cup (IF upgraded # {} THEN {"connection"} ELSE {})
        \cup (IF subscriber # "off" THEN {"subscriber"} ELSE {})

\* A message is handed to the device service; that the client was closed before
\* is noted.  (As it is, only requests get as far as the client: the messages
\* of the others name no tenant, see Forwarding.)
Forward(sender) ==
    /\ process = "running"
    /\ sender \in Senders
    /\ late' = IF client = "disconnected" THEN late \cup {sender} ELSE late
    /\ UNCHANGED <<startVars, sigVars, inflight, arrived, upgraded, envVars,
                   main, server, process>>

\* Nothing recovers the goroutines of an upgraded connection: a panic there
\* ends the process (see WebSocket and SocketIO).
Panic(r) ==
    /\ process = "running"
    /\ r \in upgraded
    /\ process' = "crashed"
    /\ UNCHANGED <<startVars, sigVars, reqVars, envVars, main, server>>

-----------------------------------------------------------------------------
(* Signals and shutdown.                                                   *)

\* Mutant: a channel that takes every signal.
Signal_Unbounded ==
    /\ process = "running"
    /\ signals < MaxSignals
    /\ signals' = signals + 1
    /\ IF notified THEN quit' = quit + 1 /\ UNCHANGED process
       ELSE process' = "killed" /\ UNCHANGED quit
    /\ UNCHANGED <<startVars, notified, reqVars, envVars, main, server>>

\* Before Notify a signal ends the process; after it the channel takes one
\* and the rest are dropped.
Signal ==
    /\ process = "running"
    /\ signals < MaxSignals
    /\ signals' = signals + 1
    /\ IF notified THEN quit' = 1 /\ UNCHANGED process
       ELSE process' = "killed" /\ UNCHANGED quit
    /\ UNCHANGED <<startVars, notified, reqVars, envVars, main, server>>

\* Mutant: the HTTP server is shut down at once.
ReceiveQuit_NoStops ==
    /\ Step("wait", "shutdown")
    /\ quit = 1
    /\ quit' = 0
    /\ UNCHANGED <<startVars, notified, signals, reqVars, envVars, server,
                   process>>

ReceiveQuit ==
    /\ Step("wait", "stop_subscriber")
    /\ quit = 1
    /\ quit' = 0
    /\ UNCHANGED <<startVars, notified, signals, reqVars, envVars, server,
                   process>>

\* Mutant: a subscriber that never started cannot be stopped.
StopSubscriber_Running ==
    /\ Step("stop_subscriber", "stop_socketio")
    /\ subscriber = "running"
    /\ subscriber' = "stopped"
    /\ UNCHANGED <<config, client, handlers, socketio, sigVars, reqVars,
                   envVars, server, process>>

\* A subscriber that runs may never come back from its Stop (MqttSubscriber's
\* StopReturns): this step is not one that must happen.
StopSubscriber ==
    /\ Step("stop_subscriber", "stop_socketio")
    /\ subscriber' = IF subscriber = "running" THEN "stopped" ELSE subscriber
    /\ UNCHANGED <<config, client, handlers, socketio, sigVars, reqVars,
                   envVars, server, process>>

\* Mutant: the output client is disconnected with the other transports.
StopSocketIO_AndClient ==
    /\ Step("stop_socketio", "shutdown")
    /\ socketio' = IF socketio = "running" THEN "stopped" ELSE socketio
    /\ client' = "disconnected"
    /\ UNCHANGED <<config, handlers, subscriber, sigVars, reqVars,
                   envVars, server, process>>

StopSocketIO ==
    /\ Step("stop_socketio", "shutdown")
    /\ socketio' = IF socketio = "running" THEN "stopped" ELSE socketio
    /\ UNCHANGED <<config, client, handlers, subscriber, sigVars, reqVars,
                   envVars, server, process>>

\* Shutdown closes the listener and waits for the requests in flight.
BeginShutdown ==
    /\ Step("shutdown", "drain")
    /\ server' = IF server = "serving" THEN "closed" ELSE server
    /\ UNCHANGED <<startVars, sigVars, reqVars, envVars, process>>

Drained ==
    /\ Step("drain", "disconnect")
    /\ inflight = {}
    /\ UNCHANGED <<startVars, sigVars, reqVars, envVars, server, process>>

\* Thirty seconds are over.
DrainTimeout ==
    /\ Step("drain", "drain")
    /\ inflight # {}
    /\ process' = "exit_forced"
    /\ UNCHANGED <<startVars, sigVars, reqVars, envVars, server>>

\* Mutant: the cleanup of the tracing is deferred after the Disconnect, and
\* runs before it.
Disconnect_FlushFirst ==
    /\ Step("disconnect", "flush")
    /\ tracing' = IF tracing = "on" THEN "flushed" ELSE tracing
    /\ UNCHANGED <<startVars, sigVars, reqVars, reachable, server, process>>

\* The deferred calls, the last first: the client is disconnected...
Disconnect ==
    /\ Step("disconnect", "flush")
    /\ client' = IF client = "connected" THEN "disconnected" ELSE client
    /\ UNCHANGED <<config, handlers, subscriber, socketio, sigVars, reqVars,
                   envVars, server, process>>

\* ...and the spans are exported; then the process ends.
Flush ==
    /\ Step("flush", "flush")
    /\ tracing' = IF tracing = "on" THEN "flushed" ELSE tracing
    /\ process' = "exit_graceful"
    /\ UNCHANGED <<startVars, sigVars, reqVars, reachable, server>>

BrokerChanges ==
    /\ process = "running"
    /\ config.broker
    /\ reachable' = ~reachable
    /\ UNCHANGED <<startVars, sigVars, reqVars, tracing, main, server, process>>

Ended ==
    /\ process # "running"
    /\ UNCHANGED vars

-----------------------------------------------------------------------------
\* The steps of runServe that are over in a bounded time, once their guard
\* holds.
Returns ==
    \/ InitTracing \/ Connect \/ RegisterHandlers \/ StartSubscriber \/ StartSocketIO
    \/ Listen \/ Notify
    \/ ReceiveQuit \/ StopSocketIO \/ BeginShutdown
    \/ Drained \/ DrainTimeout \/ Disconnect \/ Flush

Main == Returns \/ StopSubscriber

ServerGoroutine == Serve \/ BindFails \/ ServerReturns

Next ==
    \/ Main
    \/ ServerGoroutine
    \/ \E r \in Requests : Arrive(r) \/ Finish(r) \/ Upgrade(r) \/ Panic(r)
    \/ \E sender \in Senders : Forward(sender)
    \/ Signal
    \/ BrokerChanges
    \/ Ended

Spec == Init /\ [][Next]_vars

\* The goroutines of the process run, but for a main goroutine that waits in
\* the Stop of a running subscriber.
FairSpec ==
    /\ Spec
    /\ WF_vars(Returns)
    /\ WF_vars(subscriber # "running" /\ StopSubscriber)
    /\ WF_vars(ServerGoroutine)

-----------------------------------------------------------------------------
(* Properties.                                                             *)

Stages == {"tracing", "connect", "register", "start_subscriber", "start_socketio",
           "listen", "notify", "wait", "stop_subscriber", "stop_socketio",
           "shutdown"} \cup Shutting
Endings == {"killed", "crashed", "exit_bind", "exit_server", "exit_forced",
            "exit_graceful"}

TypeOK ==
    /\ config \in [enabled : SUBSET Protocols, broker : BOOLEAN]
    /\ reachable \in BOOLEAN
    /\ main \in Stages
    /\ client \in {"none", "connected", "disconnected"}
    /\ handlers \subseteq Protocols \cup {"mqtt-subscriber", "socketio"}
    /\ subscriber \in {"off", "running", "stopped"}
    /\ socketio \in {"off", "running", "stopped"}
    /\ server \in {"none", "starting", "serving", "closed"}
    /\ notified \in BOOLEAN
    /\ quit \in 0 .. 1
    /\ signals \in 0 .. MaxSignals
    /\ inflight \subseteq arrived /\ arrived \subseteq Requests
    /\ upgraded \subseteq arrived \ inflight
    /\ late \subseteq {"request", "connection", "subscriber"}
    /\ tracing \in {"off", "on", "flushed"}
    /\ process \in {"running"} \cup Endings

EnabledHandlers ==
    (config.enabled \ {"mqtt"})
        \cup (IF "mqtt" \in config.enabled THEN {"mqtt-subscriber"} ELSE {})
        \cup (IF "websocket" \in config.enabled THEN {"socketio"} ELSE {})

\* A request is only served by a service that is completely wired: its
\* handlers registered, the output client connected if there is a broker,
\* the subscriber and SocketIO started (the order of runServe).
ServedOnlyWhenWired ==
    inflight # {} =>
        /\ handlers = EnabledHandlers
        /\ config.broker => client # "none"
        /\ "mqtt" \in config.enabled => subscriber # "off"
        /\ "websocket" \in config.enabled => socketio # "off"

\* No HTTP request finds the output client closed, and no message that came
\* before the subscriber's Stop: the deferred Disconnect comes after Shutdown
\* has drained and the subscriber was stopped.  An upgraded connection may
\* find it closed, as nothing stops those, and so may what Stop has left in
\* the subscriber's router.
ClientOutlivesRequests ==
    /\ "request" \notin late
    /\ "subscriber" \in late => subscriber = "stopped"

\* The spans are exported when nothing is left to make one: no request runs,
\* the transports are stopped and the client is closed (the cleanup is the
\* first call runServe defers, the last to run).
FlushedLast ==
    tracing = "flushed" =>
        /\ inflight = {}
        /\ client # "connected"
        /\ "running" \notin {subscriber, socketio}

\* README.md:471, "Graceful shutdown on SIGINT/SIGTERM": a shutdown that
\* does not run into its time limit cuts no request off.
GracefulShutdown ==
    process \in {"exit_server", "exit_graceful"} => inflight = {}

\* A shutdown ends the process, whatever requests and connections do, unless
\* it stays in the Stop of a running subscriber.  A crash counts as an end.
ShutdownEnds ==
    /\ main = "stop_subscriber" /\ subscriber # "running" ~> process # "running"
    /\ main = "stop_socketio" ~> process # "running"

\* The service comes up if the broker it is configured with is there to
\* stay, and without a broker if nothing but HTTP needs one.
StartupEnds ==
    /\ config.broker => <>[]reachable
    /\ config.broker \/ "mqtt" \notin config.enabled
    => <>(notified \/ process # "running")

=============================================================================
