----------------------------- MODULE Forwarding -----------------------------
(***************************************************************************)
(* The forwarding path: a message a device sends reaches a transport       *)
(* handler, is checked there, goes through the device service to the MQTT  *)
(* client and from its paho client over the broker link to the broker; the *)
(* device is answered when the paho token completes.                       *)
(*                                                                         *)
(* Each message has a goroutine of its own (net/http's, a connection's     *)
(* read loop, paho's router), so the steps of different messages           *)
(* interleave with each other, with the paho client's own goroutines and   *)
(* with the failure and the recovery of the link.                          *)
(***************************************************************************)
EXTENDS TenantTopic, FiniteSets

CONSTANTS
    Msgs,         \* the messages devices send, each once
    Requests,     \* the shapes they arrive in
    MaxBreaks     \* bound on the failures of the broker link

Webhook == "lorawan"        \* chirpstack, ttn and helium share one handler
HTTPVias == {Webhook, "api", "http"}
Vias    == HTTPVias \cup {"websocket", "socketio", "mqtt-subscriber"}

RequestShapes ==
    [via  : Vias,
     type : {"json", "text", "other"},           \* Content-Type, none is "json"
     body : {"read", "too_large", "unreadable",  \* what reading the body gives
             "malformed"},                       \* read, and refused by the handler
     host : Seq(Word \cup Stripped \cup {".", ":"})]

ASSUME ForwardingAssumption ==
    /\ Requests \subseteq RequestShapes
    /\ MaxBreaks \in Nat

VARIABLES
    req,        \* the request a message arrived in, or NoRequest
    pc,         \* where the goroutine of a message is
    resp,       \* what the device was answered, 0 before
    meta,       \* transport metadata: tenant_id and mqtt_topic
    topic,      \* the topic handed to paho
    status,     \* the paho client: "absent", "connected", "disconnecting",
                \* "reconnecting"
    qos,        \* cfg.MQTT.QOS, read once; 2 is not modelled
    link,       \* the TCP connection: "up", "down"
    breaks,     \* failures of the link so far
    store,      \* publishes paho keeps until the broker acknowledges them
    completed,  \* messages whose token has completed without an error
    wire,       \* copies of a publish on their way to the broker
    acks,       \* acknowledgements on their way back
    delivered   \* copies the broker received

handlerVars == <<req, pc, resp, meta>>
pahoVars    == <<topic, status, store, completed>>
linkVars    == <<qos, link, breaks, wire, acks, delivered>>
vars        == <<handlerVars, pahoVars, linkVars>>

NoRequest == [via |-> "none"]
NoMeta    == [tenant_id |-> NoTenant, mqtt_topic |-> NoTopic]

Init ==
    /\ req       = [m \in Msgs |-> NoRequest]
    /\ pc        = [m \in Msgs |-> "idle"]
    /\ resp      = [m \in Msgs |-> 0]
    /\ meta      = [m \in Msgs |-> NoMeta]
    /\ topic     = [m \in Msgs |-> NoTopic]
    /\ \/ status = "connected" /\ link = "up"
       \/ status = "absent" /\ link = "down"     \* no broker configured
    /\ qos \in {0, 1}
    /\ breaks    = 0
    /\ store     = {}
    /\ completed = {}
    /\ wire      = [m \in Msgs |-> 0]
    /\ acks      = {}
    /\ delivered = [m \in Msgs |-> 0]

-----------------------------------------------------------------------------
(* What a handler does before it calls the device service: the code it     *)
(* answers at once, or 0, and the tenant it puts in the metadata.          *)

BodyCode(r) == CASE r.body = "too_large"  -> 413
                 [] r.body = "unreadable" -> 400
                 [] OTHER                 -> 0

\* Mutant: the code HTTP has for a wrong Content-Type.
CodeOf_Unsupported(r, types, bad, tenant) ==
    IF r.type \notin types   THEN 415
    ELSE IF BodyCode(r) # 0  THEN BodyCode(r)
    ELSE IF r.body \in bad \/ tenant = NoTenant THEN 400 ELSE 0

\* A wrong Content-Type is refused before the body is read, the body before
\* the host is looked at.
CodeOf(r, types, bad, tenant) ==
    IF r.type \notin types   THEN 400
    ELSE IF BodyCode(r) # 0  THEN BodyCode(r)
    ELSE IF r.body \in bad \/ tenant = NoTenant THEN 400 ELSE 0

LoRaWANHandle(r) ==
    [code   |-> CodeOf(r, {"json"}, {}, LoRaWANTenant(r.host)),
     tenant |-> LoRaWANTenant(r.host)]

\* No command of the program registers this handler; the README documents it.
HttpHandle(r) ==
    [code   |-> CodeOf(r, {"json", "text"}, {}, HttpTenant(r.host)),
     tenant |-> HttpTenant(r.host)]

\* Malformed: no JSON, no serial number, no payload, or one not in base64.
ApiHandle(r) ==
    [code   |-> CodeOf(r, {"json"}, {"malformed"}, ApiTenant(r.host)),
     tenant |-> ApiTenant(r.host)]

\* The metadata of these transports has no field the topic can come from.
WebSocketHandle(r) == [code |-> 0, tenant |-> NoTenant]
SubscriberHandle(r) == [code |-> 0, tenant |-> NoTenant]

\* Malformed: an event argument that is no string, bytes or object.
SocketIOHandle(r) ==
    [code |-> IF r.body = "malformed" THEN 400 ELSE 0, tenant |-> NoTenant]

Admission(r) ==
    CASE r.via = Webhook            -> LoRaWANHandle(r)
      [] r.via = "api"              -> ApiHandle(r)
      [] r.via = "http"             -> HttpHandle(r)
      [] r.via = "websocket"        -> WebSocketHandle(r)
      [] r.via = "socketio"         -> SocketIOHandle(r)
      [] r.via = "mqtt-subscriber"  -> SubscriberHandle(r)

\* The subscriber records the topic a message came in on, whatever the
\* topic is it will be published under.
InboundTopic(r) ==
    IF r.via = "mqtt-subscriber" THEN <<"devices", "/", "data">>
    ELSE NoTopic

Answer(m, code) ==
    /\ pc' = [pc EXCEPT ![m] = "done"]
    /\ resp' = [resp EXCEPT ![m] = code]

\* Mutant: one metadata map for all the requests of a handler.
Handle_SharedMetadata(m, r) ==
    /\ pc[m] = "idle"
    /\ req' = [req EXCEPT ![m] = r]
    /\ LET a == Admission(r)
       IN  \/ /\ a.code # 0
              /\ Answer(m, a.code)
              /\ UNCHANGED meta
           \/ /\ a.code = 0
              /\ meta' = [n \in Msgs |-> [tenant_id  |-> a.tenant,
                                          mqtt_topic |-> InboundTopic(r)]]
              /\ pc' = [pc EXCEPT ![m] = "forward"]
              /\ UNCHANGED resp
    /\ UNCHANGED <<pahoVars, linkVars>>

\* Mutant: no return after the error of a check.
Handle_NoReturn(m, r) ==
    /\ pc[m] = "idle"
    /\ req' = [req EXCEPT ![m] = r]
    /\ LET a == Admission(r)
       IN  /\ meta' = [meta EXCEPT ![m] = [tenant_id  |-> a.tenant,
                                           mqtt_topic |-> InboundTopic(r)]]
           /\ resp' = [resp EXCEPT ![m] = a.code]
    /\ pc' = [pc EXCEPT ![m] = "forward"]
    /\ UNCHANGED <<pahoVars, linkVars>>

Handle(m, r) ==
    /\ pc[m] = "idle"
    /\ req' = [req EXCEPT ![m] = r]
    /\ LET a == Admission(r)
       IN  \/ /\ a.code # 0
              /\ Answer(m, a.code)
              /\ UNCHANGED meta
           \/ /\ a.code = 0
              /\ meta' = [meta EXCEPT ![m] = [tenant_id  |-> a.tenant,
                                              mqtt_topic |-> InboundTopic(r)]]
              /\ pc' = [pc EXCEPT ![m] = "forward"]
              /\ UNCHANGED resp
    /\ UNCHANGED <<pahoVars, linkVars>>

\* Two layers of middleware in front of every HTTP route refuse a request
\* themselves: the body limit, by the length the request declares, and the
\* rate limiter.
Middleware(m, r) ==
    /\ pc[m] = "idle"
    /\ r.via \in HTTPVias
    /\ req' = [req EXCEPT ![m] = r]
    /\ \/ r.body = "too_large" /\ Answer(m, 413)
       \/ Answer(m, 429)
    /\ UNCHANGED <<meta, pahoVars, linkVars>>

-----------------------------------------------------------------------------
(* The device service and the MQTT client.                                 *)

\* AutoReconnect is set: paho answers TRUE from the loss of the connection,
\* with its workers still stopping, until it is back.
IsConnected == status \in {"connected", "disconnecting", "reconnecting"}

\* No transport sets the other fields that could name a tenant.
ExtractTenantID(md) == md.tenant_id

GenerateFlexibleTopic(md) ==
    IF ExtractTenantID(md) = NoTenant THEN NoTopic
    ELSE TenantTopic(ExtractTenantID(md))

\* Mutant: nothing is returned when there is no tenant or no client.
ForwardToMQTT_NoElse(m) ==
    /\ pc[m] = "forward"
    /\ GenerateFlexibleTopic(meta[m]) # NoTopic /\ IsConnected
    /\ meta' = [meta EXCEPT ![m].mqtt_topic = GenerateFlexibleTopic(meta[m])]
    /\ pc' = [pc EXCEPT ![m] = "publish"]
    /\ UNCHANGED <<req, resp, pahoVars, linkVars>>

ForwardToMQTT(m) ==
    /\ pc[m] = "forward"
    /\ LET t == GenerateFlexibleTopic(meta[m])
       IN  IF t # NoTopic /\ IsConnected
           THEN /\ meta' = [meta EXCEPT ![m].mqtt_topic = t]
                /\ pc' = [pc EXCEPT ![m] = "publish"]
                /\ UNCHANGED resp
           ELSE /\ Answer(m, 500)
                /\ UNCHANGED meta
    /\ UNCHANGED <<req, pahoVars, linkVars>>

\* The topic of the metadata before the one of the tenant.
DetermineTopic(md) ==
    IF md.mqtt_topic # NoTopic THEN md.mqtt_topic
    ELSE GenerateFlexibleTopic(md)

\* Mutant: the sender is answered before paho has the message.
Publish_Async(m) ==
    /\ pc[m] = "publish"
    /\ topic' = [topic EXCEPT ![m] = DetermineTopic(meta[m])]
    /\ pc' = [pc EXCEPT ![m] = "hand_off"]
    /\ resp' = [resp EXCEPT ![m] = 200]
    /\ UNCHANGED <<req, meta, status, store, completed, linkVars>>

Publish(m) ==
    /\ pc[m] = "publish"
    /\ LET t == DetermineTopic(meta[m])
       IN  IF IsConnected /\ ValidateTopic(t)
           THEN /\ topic' = [topic EXCEPT ![m] = t]
                /\ pc' = [pc EXCEPT ![m] = "hand_off"]
                /\ UNCHANGED resp
           ELSE /\ Answer(m, 500)
                /\ UNCHANGED topic
    /\ UNCHANGED <<req, meta, status, store, completed, linkVars>>

-----------------------------------------------------------------------------
(* The paho client.                                                        *)

\* publishToTopic calls paho, which reads its status twice.  A QoS 0 publish
\* that the first read finds reconnecting is dropped and its token completed;
\* any other goes on, stored first if it is QoS 1.
PahoPublish(m) ==
    /\ pc[m] = "hand_off"
    /\ IF qos = 0 /\ status = "reconnecting"
       THEN /\ completed' = completed \cup {m}
            /\ pc' = [pc EXCEPT ![m] = "waiting"]
            /\ UNCHANGED store
       ELSE /\ store' = IF qos = 1 THEN store \cup {m} ELSE store
            /\ pc' = [pc EXCEPT ![m] = "persisted"]
            /\ UNCHANGED completed
    /\ UNCHANGED <<req, resp, meta, topic, status, linkVars>>

\* The second read: unless it finds the client connected, the publish is left
\* to the resume of the store, in which one of QoS 0 is not.
PahoSend(m) ==
    /\ pc[m] = "persisted"
    /\ pc' = [pc EXCEPT ![m] = IF status = "connected" THEN "obound"
                               ELSE "waiting"]
    /\ UNCHANGED <<req, resp, meta, pahoVars, linkVars>>

\* The writer goroutine takes the publish.  Until the client has noticed
\* that the link is down, and closed it, the write succeeds and reaches nobody.
Write(m) ==
    /\ pc[m] = "obound"
    /\ status \in {"connected", "disconnecting"}
    /\ wire' = [wire EXCEPT ![m] = IF link = "up" THEN @ + 1 ELSE @]
    /\ completed' = IF qos = 0 THEN completed \cup {m} ELSE completed
    /\ pc' = [pc EXCEPT ![m] = "waiting"]
    /\ UNCHANGED <<req, resp, meta, topic, status, store, qos, link, breaks,
                   acks, delivered>>

\* The write fails on a dead link, or no writer takes the publish in time;
\* either way the token carries the error, and a stored publish stays stored.
WriteFails(m) ==
    /\ pc[m] = "obound"
    /\ link = "down"
    /\ Answer(m, 500)
    /\ UNCHANGED <<req, meta, pahoVars, linkVars>>

\* Mutant: the handler does not wait for the token.
Respond_NoWait(m) ==
    /\ pc[m] \in {"obound", "waiting"}
    /\ Answer(m, 200)
    /\ UNCHANGED <<req, meta, pahoVars, linkVars>>

\* Mutant: the handler publishes again when it meets a reconnection.
Respond_Retry(m) ==
    /\ pc[m] = "waiting"
    /\ \/ /\ status = "reconnecting"
          /\ pc' = [pc EXCEPT ![m] = "publish"]
          /\ UNCHANGED resp
       \/ /\ m \in completed
          /\ Answer(m, 200)
    /\ UNCHANGED <<req, meta, pahoVars, linkVars>>

\* token.Wait returns and the handler answers.
Respond(m) ==
    /\ pc[m] = "waiting"
    /\ m \in completed
    /\ Answer(m, 200)
    /\ UNCHANGED <<req, meta, pahoVars, linkVars>>

PubAck(m) ==
    /\ m \in acks
    /\ acks' = acks \ {m}
    /\ store' = store \ {m}
    /\ completed' = completed \cup {m}
    /\ UNCHANGED <<handlerVars, topic, status, qos, link, breaks, wire,
                   delivered>>

\* The keep-alive or a failed read or write tells the client, which stops
\* the workers of the connection...
ConnectionLost ==
    /\ status = "connected"
    /\ link = "down"
    /\ status' = "disconnecting"
    /\ UNCHANGED <<handlerVars, topic, store, completed, linkVars>>

\* ... and begins to reconnect when the last of them has stopped.
WorkersStopped ==
    /\ status = "disconnecting"
    /\ status' = "reconnecting"
    /\ UNCHANGED <<handlerVars, topic, store, completed, linkVars>>

\* Every stored publish is sent again.  Resuming may complete the tokens
\* that waited for the acknowledgement of the earlier copies.
Reconnect ==
    /\ status = "reconnecting"
    /\ status' = "connected"
    /\ link' = "up"
    /\ wire' = [m \in Msgs |-> IF m \in store THEN 1 ELSE 0]
    /\ \E early \in SUBSET store : completed' = completed \cup early
    /\ UNCHANGED <<handlerVars, topic, store, qos, breaks, acks, delivered>>

-----------------------------------------------------------------------------
(* The link and the broker.                                                *)

LinkBreaks ==
    /\ link = "up"
    /\ breaks < MaxBreaks
    /\ link' = "down"
    /\ breaks' = breaks + 1
    /\ wire' = [m \in Msgs |-> 0]
    /\ acks' = {}
    /\ UNCHANGED <<handlerVars, pahoVars, qos, delivered>>

BrokerReceives(m) ==
    /\ wire[m] > 0
    /\ wire' = [wire EXCEPT ![m] = @ - 1]
    /\ delivered' = [delivered EXCEPT ![m] = @ + 1]
    /\ acks' = IF qos = 1 THEN acks \cup {m} ELSE acks
    /\ UNCHANGED <<handlerVars, pahoVars, qos, link, breaks>>

-----------------------------------------------------------------------------
Next ==
    \/ \E m \in Msgs :
         \/ \E r \in Requests : Handle(m, r) \/ Middleware(m, r)
         \/ ForwardToMQTT(m)
         \/ Publish(m)
         \/ PahoPublish(m)
         \/ PahoSend(m)
         \/ Write(m)
         \/ WriteFails(m)
         \/ Respond(m)
         \/ PubAck(m)
         \/ BrokerReceives(m)
    \/ ConnectionLost
    \/ WorkersStopped
    \/ Reconnect
    \/ LinkBreaks

\* The goroutines of the gateway and of paho run, and nothing else is asked.
GatewayFairness ==
    /\ \A m \in Msgs :
         /\ WF_vars(ForwardToMQTT(m))
         /\ WF_vars(Publish(m))
         /\ WF_vars(PahoPublish(m))
         /\ WF_vars(PahoSend(m))
         /\ WF_vars(Write(m) \/ WriteFails(m))
         /\ WF_vars(Respond(m))
         /\ WF_vars(PubAck(m))
    /\ WF_vars(ConnectionLost)
    /\ WF_vars(WorkersStopped)

\* The broker takes the client back and reads what it is sent.
BrokerFairness ==
    /\ WF_vars(Reconnect)
    /\ \A m \in Msgs : WF_vars(BrokerReceives(m))

Spec     == Init /\ [][Next]_vars
FairSpec == Spec /\ GatewayFairness /\ BrokerFairness

-----------------------------------------------------------------------------
(* Properties.                                                             *)

Codes == {0, 200, 400, 413, 429, 500}
Pcs   == {"idle", "forward", "publish", "hand_off", "persisted", "obound",
          "waiting", "done"}

TypeOK ==
    /\ req \in [Msgs -> Requests \cup {NoRequest}]
    /\ pc \in [Msgs -> Pcs]
    /\ resp \in [Msgs -> Codes]
    /\ DOMAIN meta = Msgs /\ DOMAIN topic = Msgs
    /\ status \in {"absent", "connected", "disconnecting", "reconnecting"}
    /\ qos \in {0, 1}
    /\ link \in {"up", "down"}
    /\ breaks \in 0 .. MaxBreaks
    /\ store \subseteq Msgs /\ completed \subseteq Msgs /\ acks \subseteq Msgs
    /\ wire \in [Msgs -> Nat]
    /\ delivered \in [Msgs -> Nat]

OwnTenant(r) == IF r.via = "api" THEN ApiTenant(r.host)
                ELSE LoRaWANTenant(r.host)

\* Whatever the broker receives or is being sent travels under the topic of
\* the tenant that the Host header of its own request named, though several
\* requests of different tenants go through the same handler, device service
\* and client at once (Handle, forwardToMQTT, determineTopic).
PublishedUnderOwnTenant ==
    \A m \in Msgs :
        wire[m] + delivered[m] > 0 =>
            /\ OwnTenant(req[m]) # NoTenant
            /\ topic[m] = TenantTopic(OwnTenant(req[m]))

\* A message whose sender was refused is never published, neither before the
\* refusal nor by a later reconnection; with QoS 0 neither is one whose
\* sender was told that publishing failed (publishToTopic's error).
RefusedNeverPublished ==
    \A m \in Msgs :
        \/ resp[m] \in {400, 413, 429}
        \/ resp[m] = 500 /\ (qos = 0 \/ topic[m] = NoTopic)
        => wire[m] = 0 /\ delivered[m] = 0 /\ m \notin store

\* With QoS 1 an accepted message has reached the broker or is still stored
\* by paho for the next reconnection: the 200 a device got is never about a
\* message the gateway has forgotten (publishToTopic waits for the token).
AcceptedIsHeld ==
    \A m \in Msgs :
        qos = 1 /\ resp[m] = 200 => delivered[m] > 0 \/ m \in store

\* With QoS 0 the link is the only thing that loses an accepted message.
AcceptedUnlessOutage ==
    \A m \in Msgs :
        qos = 0 /\ resp[m] = 200 /\ breaks = 0 => wire[m] + delivered[m] = 1

\* Duplicates come from outages alone: QoS 0 sends a message at most once,
\* QoS 1 once more for each failure of the link.
CopiesBounded ==
    \A m \in Msgs :
        wire[m] + delivered[m] <= 1 + IF qos = 0 THEN 0 ELSE breaks

\* Once its sender is answered a message is sent again only by the
\* reconnection that finds it in the store.
SentAgainOnlyOnReconnect ==
    [][\A m \in Msgs :
         resp[m] # 0 /\ wire'[m] > wire[m] =>
            m \in store /\ status = "reconnecting"]_vars

\* A QoS 0 publish for which paho read "connected" or "disconnecting" first,
\* and anything but "connected" then: neither sent nor stored, and its token
\* never completes.
Stranded(m) ==
    qos = 0 /\ breaks > 0 /\ pc[m] = "waiting" /\ m \notin completed

\* Every message a handler takes is answered, if the broker stays within
\* reach often enough, but for one case: the handler of a QoS 0 publish that
\* meets the loss of the connection between paho's two reads of its status
\* waits for ever in publishToTopic's token.Wait.
AnsweredOrStranded ==
    \A m \in Msgs : pc[m] # "idle" ~> pc[m] = "done" \/ Stranded(m)

\* With QoS 1 an accepted message reaches the broker in the end.
AcceptedIsDelivered ==
    \A m \in Msgs : qos = 1 /\ resp[m] = 200 ~> delivered[m] > 0

\* README.md:10, "All devices publish to standardized MQTT format": a message
\* from any transport that its handler finds well formed is published while
\* the broker is connected.
AllDevicesPublish ==
    \A m \in Msgs :
        resp[m] = 500 => status = "absent" \/ breaks > 0

\* A sender's answer in the terms of the promise: a 500 that comes after the
\* topic was handed to paho is a failure, one before it a refusal.
AnswerOf(m) ==
    CASE resp[m] = 0                          -> "none"
      [] resp[m] = 200                        -> "accepted"
      [] resp[m] = 500 /\ topic[m] # NoTopic  -> "failed"
      [] OTHER                                -> "refused"

Answers == [m \in Msgs |-> AnswerOf(m)]
Taken   == {m \in Msgs : topic[m] # NoTopic}

Promise == INSTANCE GatewayPromise WITH
    atMostOnce <- qos = 0,
    answer     <- Answers,
    taken      <- Taken,
    received   <- delivered

\* The gateway keeps its promise whatever its handlers, its client and the
\* link do: every step is one the abstract specification allows, or none.
KeepsPromise == Promise!Spec

=============================================================================
