------------------------------- MODULE Health -------------------------------
(***************************************************************************)
(* The health endpoints beside the forwarding path: what a GET on one of   *)
(* them answers while the link to the broker comes and goes.               *)
(***************************************************************************)
EXTENDS Forwarding, TLC

VARIABLE
    health      \* the last answer: endpoint, code, and paho's status then

\* What every one of them asks the device service: paho's IsConnected.
MQTTConnected == IsConnected

LoRaWANHealthCheck == IF MQTTConnected THEN 200 ELSE 503
ApiHealthCheck     == IF MQTTConnected THEN 200 ELSE 503
HttpHealthCheck    == IF MQTTConnected THEN 200 ELSE 503

\* These report mqtt_connected in an answer that is 200 all the same.
WebSocketHealthCheck == 200
SocketIOHealthCheck  == 200
GlobalHealth         == 200

HealthCode ==
       Webhook     :> LoRaWANHealthCheck
    @@ "api"       :> ApiHealthCheck
    @@ "http"      :> HttpHealthCheck
    @@ "websocket" :> WebSocketHealthCheck
    @@ "socketio"  :> SocketIOHealthCheck
    @@ "global"    :> GlobalHealth

HealthCheck(endpoint) ==
    /\ health' = [of |-> endpoint, code |-> HealthCode[endpoint],
                  status |-> status]
    /\ UNCHANGED vars

HealthInit == Init /\ health = [of |-> "none", code |-> 0, status |-> status]

HealthNext ==
    \/ Next /\ UNCHANGED health
    \/ \E e \in DOMAIN HealthCode : HealthCheck(e)

HealthSpec == HealthInit /\ [][HealthNext]_<<vars, health>>

\* README.md:472, "Health check fails if MQTT is disconnected": the handlers
\* that do answer 503 do so whenever the client has lost the broker.
HealthFailsIfDisconnected ==
    health.of \in HTTPVias /\ health.code = 200 => health.status = "connected"

=============================================================================
