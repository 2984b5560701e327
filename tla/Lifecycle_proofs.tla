-------------------------- MODULE Lifecycle_proofs --------------------------
(***************************************************************************)
(* Proofs about the start and the shutdown of the service, for any set of  *)
(* requests, any configuration and any number of signals.                  *)
(***************************************************************************)
EXTENDS Lifecycle, TLAPS

-----------------------------------------------------------------------------
(* The inductive invariant: what the place of the main goroutine says      *)
(* about the parts of the service.                                         *)

Connecting  == {"tracing", "connect"}
Registering == Connecting \cup {"register"}
Subscribing == Registering \cup {"start_subscriber"}
Starting    == Subscribing \cup {"start_socketio"}
Unserved    == Starting \cup {"listen"}
Returning   == {"disconnect", "flush"}

MqttHandler == IF "mqtt" \in config.enabled THEN {"mqtt-subscriber"} ELSE {}

\* What is wired up at each stage of the start.
Wiring ==
    /\ main \notin Connecting => (config.broker => client # "none")
    /\ main = "start_subscriber" => handlers = config.enabled \ {"mqtt"}
    /\ main = "start_socketio" =>
         handlers = (config.enabled \ {"mqtt"}) \cup MqttHandler
    /\ main \notin Starting => handlers = EnabledHandlers
    /\ main \notin Subscribing => ("mqtt" \in config.enabled => subscriber # "off")
    /\ main \notin Starting => ("websocket" \in config.enabled => socketio # "off")

\* When there is a server, when it may take requests, and when none is left.
Serving ==
    /\ server # "none" => main \notin Unserved
    /\ inflight # {} => server # "none"
    /\ main \in Shutting => server # "serving"
    /\ main \in Returning => inflight = {}
    /\ late # {} => main = "flush"
    /\ "request" \notin late
    /\ client = "disconnected" => main = "flush"
    /\ main = "flush" => client # "connected"
    /\ tracing = "flushed" => main = "flush"

\* What has been stopped at each stage of the shutdown.
Stopping ==
    /\ main \in {"stop_socketio", "shutdown"} \cup Shutting =>
         subscriber # "running"
    /\ main \in {"shutdown"} \cup Shutting => socketio # "running"
    /\ "subscriber" \in late => subscriber = "stopped"

IInv == TypeOK /\ Wiring /\ Serving /\ Stopping

Configurations == [enabled : SUBSET Protocols, broker : BOOLEAN]

\* The type invariant, in the parts its proof is made of.
HandlersOK == handlers \subseteq Protocols \cup {"mqtt-subscriber", "socketio"}
BooleansOK == reachable \in BOOLEAN /\ notified \in BOOLEAN
NumbersOK  == quit \in 0 .. 1 /\ signals \in 0 .. MaxSignals
RequestsOK ==
    /\ inflight \subseteq arrived /\ arrived \subseteq Requests
    /\ upgraded \subseteq arrived \ inflight
    /\ late \subseteq {"request", "connection", "subscriber"}
LabelsOK ==
    /\ main \in Stages
    /\ client \in {"none", "connected", "disconnected"}
    /\ subscriber \in {"off", "running", "stopped"}
    /\ socketio \in {"off", "running", "stopped"}
    /\ server \in {"none", "starting", "serving", "closed"}
    /\ tracing \in {"off", "on", "flushed"}
    /\ process \in {"running"} \cup Endings

TypeParts ==
    /\ config \in Configurations
    /\ HandlersOK /\ BooleansOK /\ NumbersOK /\ RequestsOK /\ LabelsOK

LEMMA TypeOKParts == (TypeOK <=> TypeParts) /\ (TypeOK' <=> TypeParts')
BY DEF TypeOK, TypeParts, Configurations, HandlersOK, BooleansOK, NumbersOK,
   RequestsOK, LabelsOK

LEMMA InitIInv == Init => IInv
<1>. SUFFICES ASSUME Init PROVE IInv
  OBVIOUS
<1>1. config \in Configurations /\ HandlersOK
  BY DEF Init, Configurations, HandlersOK
<1>2. BooleansOK
  BY DEF Init, BooleansOK
<1>3. NumbersOK /\ RequestsOK /\ LabelsOK
  BY LifecycleAssumption DEF Init, NumbersOK, RequestsOK, LabelsOK, Stages,
     Shutting
<1>4. Wiring /\ Serving /\ Stopping
  BY DEF Init, Wiring, Serving, Stopping, Connecting, Registering,
     Subscribing, Starting, Unserved, Shutting, Returning
<1>. QED
  BY <1>1, <1>2, <1>3, <1>4, TypeOKParts DEF IInv, TypeParts

LEMMA MainIInv == IInv /\ Main => IInv'
<1>. SUFFICES ASSUME IInv, Main PROVE IInv'
  OBVIOUS
<1>. USE LifecycleAssumption
     DEF IInv, Main, Returns, Step, startVars, envVars, sigVars, reqVars, InitTracing,
         Connect,
         RegisterHandlers, StartSubscriber, StartSocketIO, Listen, Notify,
         ReceiveQuit, StopSubscriber, StopSocketIO, BeginShutdown, Drained,
         DrainTimeout, Disconnect, Flush
<1>1. TypeOK'
  <2>. TypeParts
    BY TypeOKParts
  <2>1. config' \in Configurations /\ config.enabled \subseteq Protocols
    BY DEF TypeParts, Configurations
  <2>2. HandlersOK'
    BY <2>1 DEF TypeParts, HandlersOK
  <2>3. BooleansOK'
    BY DEF TypeParts, BooleansOK
  <2>4. NumbersOK'
    BY DEF TypeParts, NumbersOK
  <2>5. RequestsOK'
    BY DEF TypeParts, RequestsOK
  <2>6. LabelsOK'
    BY DEF TypeParts, LabelsOK, Stages, Endings, Shutting
  <2>. QED
    BY <2>1, <2>2, <2>3, <2>4, <2>5, <2>6, TypeOKParts DEF TypeParts
<1>2. Wiring'
  BY DEF TypeOK, Wiring, Stages, Shutting, Connecting, Registering,
     Subscribing, Starting, MqttHandler, EnabledHandlers
<1>3. Serving'
  BY DEF TypeOK, Serving, Connecting, Registering, Subscribing, Starting,
     Unserved, Shutting, Returning
<1>4. Stopping'
  BY DEF TypeOK, Stopping, Serving, Wiring, Shutting
<1>. QED
  BY <1>1, <1>2, <1>3, <1>4

LEMMA OthersIInv ==
    ASSUME IInv,
           \/ ServerGoroutine \/ Signal \/ BrokerChanges \/ UNCHANGED vars
           \/ \E r \in Requests : Arrive(r) \/ Finish(r) \/ Upgrade(r) \/ Panic(r)
           \/ \E sender \in Senders : Forward(sender)
    PROVE  IInv'
<1>. USE LifecycleAssumption
     DEF IInv, ServerGoroutine, startVars, envVars, sigVars, reqVars, vars, Serve,
         BindFails, ServerReturns, Signal, BrokerChanges, Arrive, Finish,
         Upgrade, Panic, Forward, Senders
<1>1. TypeOK'
  <2>. TypeParts
    BY TypeOKParts
  <2>1. config' \in Configurations /\ config.enabled \subseteq Protocols
    BY DEF TypeParts, Configurations
  <2>2. HandlersOK'
    BY <2>1 DEF TypeParts, HandlersOK
  <2>3. BooleansOK'
    BY DEF TypeParts, BooleansOK
  <2>4. NumbersOK'
    BY DEF TypeParts, NumbersOK
  <2>5. RequestsOK'
    BY DEF TypeParts, RequestsOK
  <2>6. LabelsOK'
    BY DEF TypeParts, LabelsOK, Stages, Endings, Shutting
  <2>. QED
    BY <2>1, <2>2, <2>3, <2>4, <2>5, <2>6, TypeOKParts DEF TypeParts
<1>2. Wiring'
  BY DEF Wiring, MqttHandler, EnabledHandlers
<1>3. Serving'
  BY DEF TypeOK, Serving, Shutting, Returning
<1>4. Stopping'
  BY DEF TypeOK, Serving, Stopping, Shutting
<1>. QED
  BY <1>1, <1>2, <1>3, <1>4

\* The invariant holds of every reachable state.
THEOREM LifecycleInvariance == Spec => []IInv
<1>1. IInv /\ [Next]_vars => IInv'
  BY MainIInv, OthersIInv DEF Next, Ended
<1>. QED
  BY InitIInv, <1>1, PTL DEF Spec

-----------------------------------------------------------------------------
(* The theorems.                                                           *)

\* Type correctness.
THEOREM LifecycleTypeCorrect == Spec => []TypeOK
<1>1. IInv => TypeOK
  BY DEF IInv
<1>. QED
  BY LifecycleInvariance, <1>1, PTL

\* No request is served before everything is wired up.
THEOREM NeverHalfWired == Spec => []ServedOnlyWhenWired
<1>1. IInv => ServedOnlyWhenWired
  BY DEF IInv, Wiring, Serving, ServedOnlyWhenWired, Unserved, Starting,
     Subscribing, Registering, Connecting
<1>. QED
  BY LifecycleInvariance, <1>1, PTL

\* The output client is open for every HTTP request and for every message
\* the subscriber takes before its Stop.
THEOREM ClientOpenForRequests == Spec => []ClientOutlivesRequests
<1>1. IInv => ClientOutlivesRequests
  BY DEF IInv, Serving, Stopping, ClientOutlivesRequests
<1>. QED
  BY LifecycleInvariance, <1>1, PTL

\* Nothing is left to make a span when the spans are exported.
THEOREM SpansExportedLast == Spec => []FlushedLast
<1>1. IInv => FlushedLast
  BY DEF IInv, Serving, Stopping, Shutting, Returning, FlushedLast
<1>. QED
  BY LifecycleInvariance, <1>1, PTL

=============================================================================
