-------------------------- MODULE MCMqttSubscriber --------------------------
(* The subscriber with two configured topics and one that may be added.     *)
EXTENDS MqttSubscriber

MCInitialTopics == <<"t1", "t2">>
MCExtraTopics   == {"t3"}

=============================================================================
