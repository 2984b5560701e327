------------------------- MODULE Forwarding_proofs -------------------------
(***************************************************************************)
(* Proofs about the forwarding path, for any set of messages and requests, *)
(* either QoS, and any number of link failures.  They all rest on one      *)
(* inductive invariant, IInv.                                              *)
(***************************************************************************)
EXTENDS Forwarding, TLAPS

-----------------------------------------------------------------------------
(* The inductive invariant.                                                *)

Unsent(m) ==
    /\ m \notin store /\ m \notin completed /\ m \notin acks
    /\ wire[m] = 0 /\ delivered[m] = 0

\* How far a message has come, and what it has left behind on the way.
Stages ==
    \A m \in Msgs :
        /\ DOMAIN meta[m] = {"tenant_id", "mqtt_topic"}
        /\ pc[m] = "done" <=> resp[m] # 0
        /\ pc[m] \in {"idle", "forward", "publish"} => topic[m] = NoTopic
        /\ pc[m] \in {"hand_off", "persisted", "obound", "waiting"} =>
             topic[m] # NoTopic
        /\ resp[m] = 200 => topic[m] # NoTopic
        /\ resp[m] \in {400, 413, 429} => topic[m] = NoTopic
        /\ topic[m] = NoTopic \/ pc[m] = "hand_off" => Unsent(m)

\* The metadata and the topic are those of the message's own request.
OwnTopics ==
    \A m \in Msgs :
        /\ pc[m] = "forward" =>
             meta[m].tenant_id \in {NoTenant, OwnTenant(req[m])}
        /\ pc[m] = "publish" =>
             /\ OwnTenant(req[m]) # NoTenant
             /\ meta[m].mqtt_topic # NoTopic
             /\ meta[m].mqtt_topic = TenantTopic(OwnTenant(req[m]))
        /\ topic[m] # NoTopic =>
             /\ OwnTenant(req[m]) # NoTenant
             /\ topic[m] = TenantTopic(OwnTenant(req[m]))

\* The client learns of a failure after the link has failed, and nothing is
\* on its way over a link that is down.
LinkState ==
    /\ status # "connected" => link = "down"
    /\ status \in {"disconnecting", "reconnecting"} => breaks > 0
    /\ breaks = 0 /\ status = "connected" => link = "up"
    /\ link = "down" => acks = {} /\ \A m \in Msgs : wire[m] = 0

\* The copies a message may still cause by its own first write, and those
\* the link's failures have not yet made good.
Pending(m) == IF pc[m] \in {"waiting", "done"} THEN 0 ELSE 1
Owed       == IF link = "down" /\ status # "absent" THEN 1 ELSE 0

Copies ==
    /\ qos = 0 => store = {} /\ acks = {}
    /\ Owed <= breaks
    /\ \A m \in Msgs :
        /\ m \in acks => delivered[m] > 0
        /\ qos = 0 => wire[m] + delivered[m] + Pending(m) <= 1
        /\ qos = 0 /\ resp[m] = 500 => wire[m] = 0 /\ delivered[m] = 0
        /\ qos = 1 => wire[m] + delivered[m] + Pending(m) <= 1 + breaks - Owed
        /\ m \in completed \/ resp[m] = 200 =>
             /\ qos = 1 => delivered[m] > 0 \/ m \in store
             /\ qos = 0 /\ breaks = 0 => wire[m] + delivered[m] = 1

IInv == TypeOK /\ Stages /\ OwnTopics /\ LinkState /\ Copies

-----------------------------------------------------------------------------
(* Lemmas.                                                                 *)

\* What a handler answers at once, and the tenant it passes on otherwise.
LEMMA AdmissionFacts ==
    ASSUME NEW r \in Requests
    PROVE  /\ Admission(r).code \in {0, 400, 413}
           /\ Admission(r).tenant \in {NoTenant, OwnTenant(r)}
<1>1. r.via \in Vias
  BY ForwardingAssumption DEF RequestShapes
<1>2. BodyCode(r) \in {0, 400, 413}
  BY DEF BodyCode
<1>3. \A types, bad, tenant : CodeOf(r, types, bad, tenant) \in {0, 400, 413}
  BY <1>2 DEF CodeOf
<1>4. CASE r.via = Webhook
  <2>1. Admission(r) = LoRaWANHandle(r)
    BY <1>4 DEF Admission, Webhook
  <2>. QED
    BY <2>1, <1>3, <1>4 DEF LoRaWANHandle, OwnTenant, Webhook
<1>5. CASE r.via = "api"
  <2>1. Admission(r) = ApiHandle(r)
    BY <1>5 DEF Admission, Webhook
  <2>. QED
    BY <2>1, <1>3, <1>5 DEF ApiHandle, OwnTenant
<1>6. CASE r.via = "http"
  <2>1. Admission(r) = HttpHandle(r)
    BY <1>6 DEF Admission, Webhook
  <2>2. HttpTenant(r.host) = OwnTenant(r)
    BY <1>6 DEF HttpTenant, LoRaWANTenant, OwnTenant
  <2>. QED
    BY <2>1, <2>2, <1>3 DEF HttpHandle
<1>7. CASE r.via = "websocket"
  BY <1>7 DEF Admission, WebSocketHandle, Webhook
<1>8. CASE r.via = "socketio"
  BY <1>8 DEF Admission, SocketIOHandle, Webhook
<1>9. CASE r.via = "mqtt-subscriber"
  BY <1>9 DEF Admission, SubscriberHandle, Webhook
<1>. QED
  BY <1>1, <1>4, <1>5, <1>6, <1>7, <1>8, <1>9 DEF Vias, HTTPVias

\* What the client finds well formed is a topic.
LEMMA ValidIsTopic == \A t : ValidateTopic(t) => t # NoTopic
BY DEF ValidateTopic

LEMMA InitIInv == Init => IInv
<1>. SUFFICES ASSUME Init PROVE IInv
  OBVIOUS
<1>. USE ForwardingAssumption DEF Init
<1>1. TypeOK
  BY DEF TypeOK, Pcs, Codes
<1>2. Stages
  BY DEF Stages, NoMeta, Unsent
<1>3. OwnTopics
  BY DEF OwnTopics
<1>4. LinkState
  BY DEF LinkState
<1>5. Copies
  BY DEF Copies, Pending, Owed
<1>. QED
  BY <1>1, <1>2, <1>3, <1>4, <1>5 DEF IInv

-----------------------------------------------------------------------------
(* Every step keeps the invariant.                                         *)

LEMMA HandleIInv ==
    ASSUME IInv, NEW m \in Msgs, NEW r \in Requests, Handle(m, r)
    PROVE  IInv'
<1>. USE ForwardingAssumption DEF IInv, Handle, handlerVars, pahoVars, linkVars
<1>. DEFINE a == Admission(r)
<1>1. /\ a.code \in {0, 400, 413}
      /\ a.tenant \in {NoTenant, OwnTenant(r)}
  BY AdmissionFacts
<1>2. /\ pc[m] = "idle" /\ resp[m] = 0 /\ topic[m] = NoTopic /\ Unsent(m)
      /\ req' = [req EXCEPT ![m] = r]
      /\ UNCHANGED <<pahoVars, linkVars>>
  BY DEF Stages
<1>. HIDE DEF a
<1>3. CASE a.code # 0
  <2>1. /\ pc' = [pc EXCEPT ![m] = "done"]
        /\ resp' = [resp EXCEPT ![m] = a.code]
        /\ meta' = meta
    BY <1>3 DEF a, Answer
  <2>. USE <1>1, <1>2, <1>3, <2>1
  <2>2. TypeOK'
    BY DEF TypeOK, Pcs, Codes
  <2>3. Stages'
    BY DEF TypeOK, Stages, Unsent
  <2>4. OwnTopics'
    BY DEF TypeOK, OwnTopics
  <2>5. LinkState'
    BY DEF LinkState
  <2>6. Copies'
    BY DEF TypeOK, Unsent, Copies, Pending, Owed
  <2>. QED
    BY <2>2, <2>3, <2>4, <2>5, <2>6
<1>4. CASE a.code = 0
  <2>1. /\ pc' = [pc EXCEPT ![m] = "forward"]
        /\ resp' = resp
        /\ meta' = [meta EXCEPT ![m] = [tenant_id  |-> a.tenant,
                                        mqtt_topic |-> InboundTopic(r)]]
    BY <1>4 DEF a
  <2>. USE <1>1, <1>2, <1>4, <2>1
  <2>2. TypeOK'
    BY DEF TypeOK, Pcs
  <2>3. Stages'
    BY DEF TypeOK, Stages, Unsent
  <2>4. OwnTopics'
    BY DEF TypeOK, OwnTopics
  <2>5. LinkState'
    BY DEF LinkState
  <2>6. Copies'
    BY DEF TypeOK, Copies, Pending, Owed
  <2>. QED
    BY <2>2, <2>3, <2>4, <2>5, <2>6
<1>. QED
  BY <1>3, <1>4

LEMMA MiddlewareIInv ==
    ASSUME IInv, NEW m \in Msgs, NEW r \in Requests, Middleware(m, r)
    PROVE  IInv'
<1>. USE ForwardingAssumption DEF IInv, Middleware, Answer, handlerVars, pahoVars, linkVars
<1>1. TypeOK'
  BY DEF TypeOK, Pcs, Codes
<1>2. Stages'
  BY DEF TypeOK, Stages, Unsent, Copies
<1>3. OwnTopics'
  BY DEF TypeOK, Stages, OwnTopics
<1>4. LinkState'
  BY DEF TypeOK, LinkState
<1>5. Copies'
  BY DEF TypeOK, Stages, Unsent, LinkState, Copies, Pending, Owed
<1>. QED
  BY <1>1, <1>2, <1>3, <1>4, <1>5

LEMMA ForwardToMQTTIInv ==
    ASSUME IInv, NEW m \in Msgs, ForwardToMQTT(m)
    PROVE  IInv'
<1>. USE ForwardingAssumption DEF IInv, ForwardToMQTT, Answer, GenerateFlexibleTopic, ExtractTenantID, IsConnected, handlerVars, pahoVars, linkVars
<1>1. TypeOK'
  BY DEF TypeOK, Pcs, Codes
<1>2. Stages'
  BY DEF TypeOK, Stages, Unsent, Copies
<1>3. OwnTopics'
  BY DEF TypeOK, Stages, OwnTopics
<1>4. LinkState'
  BY DEF TypeOK, LinkState
<1>5. Copies'
  BY DEF TypeOK, Stages, Unsent, LinkState, Copies, Pending, Owed
<1>. QED
  BY <1>1, <1>2, <1>3, <1>4, <1>5

LEMMA PublishIInv ==
    ASSUME IInv, NEW m \in Msgs, Publish(m)
    PROVE  IInv'
<1>. DEFINE t == DetermineTopic(meta[m])
<1>. USE ForwardingAssumption DEF IInv, handlerVars, pahoVars, linkVars
<1>1. /\ pc[m] = "publish"
      /\ UNCHANGED <<req, meta, status, store, completed, linkVars>>
  BY DEF Publish
<1>2. ASSUME topic' = [topic EXCEPT ![m] = t], t # NoTopic, resp' = resp,
             pc' = [pc EXCEPT ![m] = "hand_off"]
      PROVE  IInv'
  <2>1. t = meta[m].mqtt_topic
    BY <1>1, <1>2 DEF DetermineTopic, OwnTopics
  <2>. HIDE DEF t
  <2>2. TypeOK'
    BY <1>1, <1>2 DEF TypeOK, Pcs
  <2>3. Stages'
    BY <1>1, <1>2 DEF TypeOK, Stages, Unsent
  <2>4. OwnTopics'
    BY <1>1, <1>2, <2>1 DEF TypeOK, Stages, OwnTopics
  <2>5. LinkState'
    BY <1>1, <1>2 DEF TypeOK, LinkState
  <2>6. Copies'
    BY <1>1, <1>2 DEF TypeOK, Stages, Unsent, LinkState, Copies, Pending, Owed
  <2>. QED
    BY <2>2, <2>3, <2>4, <2>5, <2>6
<1>3. ASSUME topic' = topic, Answer(m, 500) PROVE IInv'
  <2>2. TypeOK'
    BY <1>1, <1>3 DEF TypeOK, Pcs, Codes, Answer
  <2>3. Stages'
    BY <1>1, <1>3 DEF TypeOK, Stages, Unsent, Answer
  <2>4. OwnTopics'
    BY <1>1, <1>3 DEF TypeOK, Stages, OwnTopics, Answer
  <2>5. LinkState'
    BY <1>1, <1>3 DEF TypeOK, LinkState
  <2>6. Copies'
    BY <1>1, <1>3 DEF TypeOK, Stages, Unsent, LinkState, Copies, Pending, Owed, Answer
  <2>. QED
    BY <2>2, <2>3, <2>4, <2>5, <2>6
<1>. QED
  BY <1>2, <1>3, ValidIsTopic DEF Publish

LEMMA PahoPublishIInv ==
    ASSUME IInv, NEW m \in Msgs, PahoPublish(m)
    PROVE  IInv'
<1>. USE ForwardingAssumption DEF IInv, PahoPublish, handlerVars, pahoVars, linkVars
<1>1. TypeOK'
  BY DEF TypeOK, Pcs, Codes
<1>2. Stages'
  BY DEF TypeOK, Stages, Unsent, Copies
<1>3. OwnTopics'
  BY DEF TypeOK, Stages, OwnTopics
<1>4. LinkState'
  BY DEF TypeOK, LinkState
<1>5. Copies'
  BY DEF TypeOK, Stages, Unsent, LinkState, Copies, Pending, Owed
<1>. QED
  BY <1>1, <1>2, <1>3, <1>4, <1>5

LEMMA PahoSendIInv ==
    ASSUME IInv, NEW m \in Msgs, PahoSend(m)
    PROVE  IInv'
<1>. USE ForwardingAssumption DEF IInv, PahoSend, handlerVars, pahoVars, linkVars
<1>1. TypeOK'
  BY DEF TypeOK, Pcs, Codes
<1>2. Stages'
  BY DEF TypeOK, Stages, Unsent, Copies
<1>3. OwnTopics'
  BY DEF TypeOK, Stages, OwnTopics
<1>4. LinkState'
  BY DEF TypeOK, LinkState
<1>5. Copies'
  BY DEF TypeOK, Stages, Unsent, LinkState, Copies, Pending, Owed
<1>. QED
  BY <1>1, <1>2, <1>3, <1>4, <1>5

LEMMA WriteIInv ==
    ASSUME IInv, NEW m \in Msgs, Write(m)
    PROVE  IInv'
<1>. USE ForwardingAssumption DEF IInv, Write, handlerVars, pahoVars, linkVars
<1>1. TypeOK'
  BY DEF TypeOK, Pcs, Codes
<1>2. Stages'
  BY DEF TypeOK, Stages, Unsent, Copies
<1>3. OwnTopics'
  BY DEF TypeOK, Stages, OwnTopics
<1>4. LinkState'
  BY DEF TypeOK, LinkState
<1>5. Copies'
  <2>1. /\ Owed' = Owed
        /\ pc' = [pc EXCEPT ![m] = "waiting"]
        /\ pc[m] = "obound" /\ resp[m] = 0
    BY DEF TypeOK, Stages, Owed
  <2>2. CASE link = "up"
    <3>1. wire' = [wire EXCEPT ![m] = @ + 1]
      BY <2>2
    <3>2. CASE qos = 0
      <4>1. completed' = completed \cup {m}
        BY <3>2
      <4>2. wire[m] + delivered[m] = 0
        BY <2>1, <3>2 DEF TypeOK, Copies, Pending
      <4>. QED
        BY <2>1, <3>1, <3>2, <4>1, <4>2 DEF TypeOK, Copies, Pending
    <3>3. CASE qos = 1
      <4>1. completed' = completed
        BY <3>3
      <4>. QED
        BY <2>1, <3>1, <3>3, <4>1 DEF TypeOK, Copies, Pending
    <3>. QED
      BY <3>2, <3>3 DEF TypeOK
  <2>3. CASE link = "down"
    <3>1. wire' = wire /\ breaks > 0
      BY <2>3 DEF TypeOK, LinkState
    <3>. QED
      BY <2>1, <3>1 DEF TypeOK, Copies, Pending, Owed
  <2>. QED
    BY <2>2, <2>3 DEF TypeOK
<1>. QED
  BY <1>1, <1>2, <1>3, <1>4, <1>5

LEMMA WriteFailsIInv ==
    ASSUME IInv, NEW m \in Msgs, WriteFails(m)
    PROVE  IInv'
<1>. USE ForwardingAssumption DEF IInv, WriteFails, Answer, handlerVars, pahoVars, linkVars
<1>1. TypeOK'
  BY DEF TypeOK, Pcs, Codes
<1>2. Stages'
  BY DEF TypeOK, Stages, Unsent, Copies
<1>3. OwnTopics'
  BY DEF TypeOK, Stages, OwnTopics
<1>4. LinkState'
  BY DEF TypeOK, LinkState
<1>5. Copies'
  BY DEF TypeOK, Stages, Unsent, LinkState, Copies, Pending, Owed
<1>. QED
  BY <1>1, <1>2, <1>3, <1>4, <1>5

LEMMA RespondIInv ==
    ASSUME IInv, NEW m \in Msgs, Respond(m)
    PROVE  IInv'
<1>. USE ForwardingAssumption DEF IInv, Respond, Answer, handlerVars, pahoVars, linkVars
<1>1. TypeOK'
  BY DEF TypeOK, Pcs, Codes
<1>2. Stages'
  BY DEF TypeOK, Stages, Unsent, Copies
<1>3. OwnTopics'
  BY DEF TypeOK, Stages, OwnTopics
<1>4. LinkState'
  BY DEF TypeOK, LinkState
<1>5. Copies'
  BY DEF TypeOK, Stages, Unsent, LinkState, Copies, Pending, Owed
<1>. QED
  BY <1>1, <1>2, <1>3, <1>4, <1>5

LEMMA PubAckIInv ==
    ASSUME IInv, NEW m \in Msgs, PubAck(m)
    PROVE  IInv'
<1>. USE ForwardingAssumption DEF IInv, PubAck, handlerVars, pahoVars, linkVars
<1>1. TypeOK'
  BY DEF TypeOK, Pcs, Codes
<1>2. Stages'
  BY DEF TypeOK, Stages, Unsent, Copies
<1>3. OwnTopics'
  BY DEF TypeOK, Stages, OwnTopics
<1>4. LinkState'
  BY DEF TypeOK, LinkState
<1>5. Copies'
  BY DEF TypeOK, Stages, Unsent, LinkState, Copies, Pending, Owed
<1>. QED
  BY <1>1, <1>2, <1>3, <1>4, <1>5

LEMMA BrokerReceivesIInv ==
    ASSUME IInv, NEW m \in Msgs, BrokerReceives(m)
    PROVE  IInv'
<1>. USE ForwardingAssumption DEF IInv, BrokerReceives, handlerVars, pahoVars, linkVars
<1>1. TypeOK'
  BY DEF TypeOK, Pcs, Codes
<1>2. Stages'
  BY DEF TypeOK, Stages, Unsent, Copies
<1>3. OwnTopics'
  BY DEF TypeOK, Stages, OwnTopics
<1>4. LinkState'
  BY DEF TypeOK, LinkState
<1>5. Copies'
  BY DEF TypeOK, Stages, Unsent, LinkState, Copies, Pending, Owed
<1>. QED
  BY <1>1, <1>2, <1>3, <1>4, <1>5

LEMMA ConnectionLostIInv ==
    ASSUME IInv, ConnectionLost
    PROVE  IInv'
<1>. USE ForwardingAssumption DEF IInv, ConnectionLost, handlerVars, pahoVars, linkVars
<1>1. TypeOK'
  BY DEF TypeOK, Pcs, Codes
<1>2. Stages'
  BY DEF TypeOK, Stages, Unsent, Copies
<1>3. OwnTopics'
  BY DEF TypeOK, Stages, OwnTopics
<1>4. LinkState'
  BY DEF TypeOK, LinkState
<1>5. Copies'
  BY DEF TypeOK, Stages, Unsent, LinkState, Copies, Pending, Owed
<1>. QED
  BY <1>1, <1>2, <1>3, <1>4, <1>5

LEMMA WorkersStoppedIInv ==
    ASSUME IInv, WorkersStopped
    PROVE  IInv'
<1>. USE ForwardingAssumption DEF IInv, WorkersStopped, handlerVars, pahoVars, linkVars
<1>1. TypeOK'
  BY DEF TypeOK, Pcs, Codes
<1>2. Stages'
  BY DEF TypeOK, Stages, Unsent, Copies
<1>3. OwnTopics'
  BY DEF TypeOK, Stages, OwnTopics
<1>4. LinkState'
  BY DEF TypeOK, LinkState
<1>5. Copies'
  BY DEF TypeOK, Stages, Unsent, LinkState, Copies, Pending, Owed
<1>. QED
  BY <1>1, <1>2, <1>3, <1>4, <1>5

LEMMA ReconnectIInv ==
    ASSUME IInv, Reconnect
    PROVE  IInv'
<1>. USE ForwardingAssumption DEF IInv, Reconnect, handlerVars, pahoVars, linkVars
<1>1. TypeOK'
  BY DEF TypeOK, Pcs, Codes
<1>2. Stages'
  BY DEF TypeOK, Stages, Unsent, Copies
<1>3. OwnTopics'
  BY DEF TypeOK, Stages, OwnTopics
<1>4. LinkState'
  BY DEF TypeOK, LinkState
<1>5. Copies'
  BY DEF TypeOK, Stages, Unsent, LinkState, Copies, Pending, Owed
<1>. QED
  BY <1>1, <1>2, <1>3, <1>4, <1>5

LEMMA LinkBreaksIInv ==
    ASSUME IInv, LinkBreaks
    PROVE  IInv'
<1>. USE ForwardingAssumption DEF IInv, LinkBreaks, handlerVars, pahoVars, linkVars
<1>1. TypeOK'
  BY DEF TypeOK, Pcs, Codes
<1>2. Stages'
  BY DEF TypeOK, Stages, Unsent, Copies
<1>3. OwnTopics'
  BY DEF TypeOK, Stages, OwnTopics
<1>4. LinkState'
  BY DEF TypeOK, LinkState
<1>5. Copies'
  BY DEF TypeOK, Stages, Unsent, LinkState, Copies, Pending, Owed
<1>. QED
  BY <1>1, <1>2, <1>3, <1>4, <1>5

LEMMA NextIInv == IInv /\ [Next]_vars => IInv'
<1>. SUFFICES ASSUME IInv, [Next]_vars PROVE IInv'
  OBVIOUS
<1>1. CASE UNCHANGED vars
  BY <1>1 DEF IInv, TypeOK, Stages, OwnTopics, LinkState, Copies, Unsent,
     Pending, Owed, vars, handlerVars, pahoVars, linkVars
<1>2. CASE Next
  BY <1>2, HandleIInv, MiddlewareIInv, ForwardToMQTTIInv, PublishIInv,
     PahoPublishIInv, PahoSendIInv, WriteIInv, WriteFailsIInv, RespondIInv,
     PubAckIInv, BrokerReceivesIInv, ConnectionLostIInv, WorkersStoppedIInv,
     ReconnectIInv, LinkBreaksIInv
     DEF Next
<1>. QED
  BY <1>1, <1>2

-----------------------------------------------------------------------------
(* The theorems.                                                           *)

\* The inductive invariant holds of every reachable state.
THEOREM Invariance == Spec => []IInv
<1>. QED
  BY InitIInv, NextIInv, PTL DEF Spec

\* Type correctness.
THEOREM TypeCorrect == Spec => []TypeOK
<1>1. IInv => TypeOK
  BY DEF IInv
<1>. QED
  BY Invariance, <1>1, PTL

\* However the requests of different tenants interleave in the handlers, the
\* device service and the client, a message travels under its own tenant.
THEOREM TenantsKeptApart == Spec => []PublishedUnderOwnTenant
<1>1. IInv => PublishedUnderOwnTenant
  <2>. SUFFICES ASSUME IInv, NEW m \in Msgs, wire[m] + delivered[m] > 0
                PROVE  /\ OwnTenant(req[m]) # NoTenant
                       /\ topic[m] = TenantTopic(OwnTenant(req[m]))
    BY DEF PublishedUnderOwnTenant
  <2>1. ~ Unsent(m)
    BY DEF Unsent
  <2>. QED
    BY <2>1 DEF IInv, Stages, OwnTopics
<1>. QED
  BY Invariance, <1>1, PTL

\* A refused message is never published: not at once, and not by the resend
\* of a later reconnection.
THEOREM RefusalIsFinal == Spec => []RefusedNeverPublished
<1>1. IInv => RefusedNeverPublished
  BY DEF IInv, Stages, Unsent, Copies, RefusedNeverPublished
<1>. QED
  BY Invariance, <1>1, PTL

\* With QoS 1 an accepted message is with the broker or in paho's store.
THEOREM AcceptedHeld == Spec => []AcceptedIsHeld
<1>1. IInv => AcceptedIsHeld
  BY DEF IInv, Copies, AcceptedIsHeld
<1>. QED
  BY Invariance, <1>1, PTL

\* With QoS 0 only a failure of the link loses an accepted message.
THEOREM AcceptedSurvives == Spec => []AcceptedUnlessOutage
<1>1. IInv => AcceptedUnlessOutage
  BY DEF IInv, Copies, AcceptedUnlessOutage
<1>. QED
  BY Invariance, <1>1, PTL

\* A failure of the link costs at most one more copy, and with QoS 0 none.
THEOREM FewCopies == Spec => []CopiesBounded
<1>1. IInv => CopiesBounded
  <2>. SUFFICES ASSUME IInv, NEW m \in Msgs
                PROVE  wire[m] + delivered[m]
                         <= 1 + IF qos = 0 THEN 0 ELSE breaks
    BY DEF CopiesBounded
  <2>1. Pending(m) \in Nat /\ Owed \in Nat
    BY DEF Pending, Owed
  <2>2. /\ wire[m] \in Nat /\ delivered[m] \in Nat /\ breaks \in Nat
        /\ qos \in {0, 1}
    BY ForwardingAssumption DEF IInv, TypeOK
  <2>. QED
    BY <2>1, <2>2, ForwardingAssumption DEF IInv, Copies
<1>. QED
  BY Invariance, <1>1, PTL

\* A message whose sender is answered goes on the wire again only from the
\* store, when the client reconnects.
THEOREM ResendsOnReconnect == Spec => SentAgainOnlyOnReconnect
<1>1. ASSUME IInv, [Next]_vars, NEW m \in Msgs,
             resp[m] # 0, wire'[m] > wire[m]
      PROVE  m \in store /\ status = "reconnecting"
  <2>1. CASE Next
    <3>1. wire[m] \in Nat
      BY <1>1 DEF IInv, TypeOK
    <3>. USE <1>1, <3>1 DEF IInv, TypeOK, handlerVars, pahoVars, linkVars
    <3>2. ASSUME NEW n \in Msgs, Write(n) PROVE FALSE
      BY <3>2 DEF Write, Stages
    <3>3. ASSUME NEW n \in Msgs, BrokerReceives(n) PROVE FALSE
      BY <3>3 DEF BrokerReceives
    <3>4. CASE Reconnect
      BY <3>4 DEF Reconnect
    <3>5. ASSUME wire' = wire PROVE FALSE
      BY <3>5
    <3>6. CASE LinkBreaks
      BY <3>6 DEF LinkBreaks
    <3>7. ASSUME NEW n \in Msgs, NEW r \in Requests, Handle(n, r) \/ Middleware(n, r)
          PROVE  wire' = wire
      BY <3>7 DEF Handle, Middleware
    <3>8. ASSUME NEW n \in Msgs,
                 \/ ForwardToMQTT(n) \/ Publish(n) \/ PahoPublish(n)
                 \/ PahoSend(n) \/ WriteFails(n) \/ Respond(n) \/ PubAck(n)
          PROVE  wire' = wire
      BY <3>8 DEF ForwardToMQTT, Publish, PahoPublish, PahoSend, WriteFails,
         Respond, PubAck
    <3>9. CASE ConnectionLost \/ WorkersStopped
      BY <3>5, <3>9 DEF ConnectionLost, WorkersStopped
    <3>. QED
      BY <2>1, <3>2, <3>3, <3>4, <3>5, <3>6, <3>7, <3>8, <3>9 DEF Next
  <2>2. CASE UNCHANGED vars
    BY <1>1, <2>2 DEF vars, linkVars, IInv, TypeOK
  <2>. QED
    BY <1>1, <2>1, <2>2
<1>2. IInv /\ [Next]_vars =>
        [\A m \in Msgs :
           resp[m] # 0 /\ wire'[m] > wire[m] =>
             m \in store /\ status = "reconnecting"]_vars
  BY <1>1
<1>. QED
  BY Invariance, <1>2, PTL DEF Spec, SentAgainOnlyOnReconnect

=============================================================================
