--------------------------- MODULE Promise_proofs ---------------------------
(***************************************************************************)
(* The forwarding path implements GatewayPromise: under the mapping of     *)
(* Forwarding's instance, a step in which a sender is answered is Refuse,  *)
(* Accept or Fail, the hand-over of a topic to paho is Take, the broker's  *)
(* receipt is Receive, and every other step changes nothing.               *)
(***************************************************************************)
EXTENDS Forwarding_proofs

\* Steps that leave answers, topics and the broker's receipts alone.
LEMMA Stutters ==
    ASSUME UNCHANGED <<qos, resp, topic, delivered>>
    PROVE  UNCHANGED Promise!vars
BY DEF Promise!vars, Answers, AnswerOf, Taken

\* A step that answers the sender of m and does nothing else that counts.
LEMMA AnswerStep ==
    ASSUME IInv, NEW m \in Msgs, resp[m] = 0,
           resp' = [resp EXCEPT ![m] = resp'[m]], resp'[m] \in Codes \ {0},
           UNCHANGED <<qos, topic, delivered>>,
           resp'[m] = 200 => topic[m] # NoTopic,
           resp'[m] \in {400, 413, 429} => topic[m] = NoTopic,
           qos = 0 /\ resp'[m] = 500 => delivered[m] = 0
    PROVE  Promise!Next
<1>. DEFINE code == resp'[m]
            new  == IF code = 200 THEN "accepted"
                    ELSE IF code = 500 /\ topic[m] # NoTopic THEN "failed"
                    ELSE "refused"
<1>1. Answers[m] = "none"
  BY DEF Answers, AnswerOf
<1>2. Answers' = [Answers EXCEPT ![m] = new]
  <2>1. \A n \in Msgs : resp'[n] = IF n = m THEN code ELSE resp[n]
    BY DEF IInv, TypeOK
  <2>2. \A n \in Msgs : Answers'[n] = IF n = m THEN new ELSE Answers[n]
    BY <2>1 DEF Answers, AnswerOf
  <2>3. DOMAIN Answers = Msgs /\ DOMAIN Answers' = Msgs
    BY DEF Answers
  <2>4. Answers' = [n \in Msgs |-> Answers'[n]]
    BY DEF Answers
  <2>. HIDE DEF new
  <2>. QED
    BY <2>2, <2>3, <2>4
<1>3. UNCHANGED <<Taken, delivered>>
  BY DEF Taken
<1>4. m \in Taken <=> topic[m] # NoTopic
  BY DEF Taken
<1>5. CASE code = 200
  <2>1. Promise!Accept(m)
    BY <1>1, <1>2, <1>3, <1>4, <1>5 DEF Promise!Accept
  <2>. QED
    BY <2>1 DEF Promise!Next
<1>6. CASE code = 500 /\ topic[m] # NoTopic
  <2>1. Promise!Fail(m)
    BY <1>1, <1>2, <1>3, <1>4, <1>6 DEF Promise!Fail
  <2>. QED
    BY <2>1 DEF Promise!Next
<1>7. CASE code # 200 /\ topic[m] = NoTopic
  <2>1. Promise!Refuse(m)
    BY <1>1, <1>2, <1>3, <1>4, <1>7 DEF Promise!Refuse
  <2>. QED
    BY <2>1 DEF Promise!Next
<1>. QED
  BY <1>5, <1>6, <1>7 DEF Codes

LEMMA HandlerSteps ==
    ASSUME IInv, NEW m \in Msgs, NEW r \in Requests,
           Handle(m, r) \/ Middleware(m, r)
    PROVE  [Promise!Next]_(Promise!vars)
<1>1. /\ resp[m] = 0 /\ topic[m] = NoTopic /\ delivered[m] = 0
      /\ UNCHANGED <<qos, topic, delivered>>
  BY DEF IInv, Stages, Unsent, Handle, Middleware, pahoVars, linkVars
<1>2. CASE Middleware(m, r)
  <2>1. resp'[m] \in {413, 429}
    BY <1>2 DEF Middleware, Answer, IInv, TypeOK
  <2>2. resp' = [resp EXCEPT ![m] = resp'[m]]
    BY <1>2, <2>1 DEF Middleware, Answer
  <2>3. Promise!Next
    BY <1>1, <2>1, <2>2, AnswerStep DEF Codes
  <2>. QED
    BY <2>3
<1>3. CASE Handle(m, r) /\ Admission(r).code # 0
  <2>1. Admission(r).code \in {400, 413}
    BY <1>3, AdmissionFacts
  <2>2. resp' = [resp EXCEPT ![m] = Admission(r).code]
    BY <1>3 DEF Handle, Answer
  <2>3. resp'[m] \in {400, 413}
    BY <2>1, <2>2 DEF IInv, TypeOK
  <2>4. resp' = [resp EXCEPT ![m] = resp'[m]]
    BY <2>2 DEF IInv, TypeOK
  <2>5. Promise!Next
    BY <1>1, <2>3, <2>4, AnswerStep DEF Codes
  <2>. QED
    BY <2>5
<1>4. CASE Handle(m, r) /\ Admission(r).code = 0
  BY <1>1, <1>4, Stutters DEF Handle
<1>. QED
  BY <1>2, <1>3, <1>4

LEMMA ServiceSteps ==
    ASSUME IInv, NEW m \in Msgs, ForwardToMQTT(m) \/ Publish(m)
    PROVE  [Promise!Next]_(Promise!vars)
<1>1. /\ resp[m] = 0 /\ topic[m] = NoTopic /\ delivered[m] = 0
      /\ UNCHANGED <<qos, delivered>>
  BY DEF IInv, Stages, Unsent, ForwardToMQTT, Publish, pahoVars, linkVars
<1>2. CASE resp' = [resp EXCEPT ![m] = 500] /\ topic' = topic
  <2>1. resp'[m] = 500
    BY <1>2 DEF IInv, TypeOK
  <2>2. resp' = [resp EXCEPT ![m] = resp'[m]] /\ topic' = topic
    BY <1>2, <2>1
  <2>3. Promise!Next
    BY <1>1, <2>1, <2>2, AnswerStep DEF Codes
  <2>. QED
    BY <2>3
<1>3. CASE resp' = resp /\ topic' = topic
  BY <1>1, <1>3, Stutters
<1>4. ASSUME Publish(m), resp' = resp,
             topic' = [topic EXCEPT ![m] = DetermineTopic(meta[m])]
      PROVE  Promise!Take(m)
  <2>1. DetermineTopic(meta[m]) # NoTopic
    BY <1>4 DEF Publish, DetermineTopic, IInv, OwnTopics
  <2>2. Taken' = Taken \cup {m} /\ m \notin Taken
    BY <1>1, <1>4, <2>1 DEF Taken, IInv, TypeOK
  <2>3. Answers' = Answers /\ Answers[m] = "none"
    BY <1>1, <1>4, <2>1 DEF Answers, AnswerOf, IInv, TypeOK, Stages
  <2>. QED
    BY <1>1, <2>2, <2>3 DEF Promise!Take
<1>5. \/ resp' = [resp EXCEPT ![m] = 500] /\ topic' = topic
      \/ resp' = resp /\ topic' = topic
      \/ /\ Publish(m) /\ resp' = resp
         /\ topic' = [topic EXCEPT ![m] = DetermineTopic(meta[m])]
  BY DEF ForwardToMQTT, Publish, Answer, pahoVars
<1>. QED
  BY <1>1, <1>2, <1>3, <1>4, <1>5 DEF Promise!Next

LEMMA ClientSteps ==
    ASSUME IInv, NEW m \in Msgs,
           \/ PahoPublish(m) \/ PahoSend(m) \/ Write(m) \/ WriteFails(m)
           \/ Respond(m) \/ PubAck(m) \/ BrokerReceives(m)
    PROVE  [Promise!Next]_(Promise!vars)
<1>1. CASE PahoPublish(m) \/ PahoSend(m) \/ Write(m) \/ PubAck(m)
  BY <1>1, Stutters DEF PahoPublish, PahoSend, Write, PubAck, handlerVars,
     pahoVars, linkVars
<1>2. CASE WriteFails(m)
  <2>1. resp[m] = 0 /\ topic[m] # NoTopic
    BY <1>2 DEF WriteFails, IInv, Stages
  <2>2. qos = 0 => delivered[m] = 0
    <3>1. Pending(m) = 1
      BY <1>2 DEF WriteFails, Pending
    <3>2. wire[m] \in Nat /\ delivered[m] \in Nat
      BY DEF IInv, TypeOK
    <3>. QED
      BY <3>1, <3>2 DEF IInv, Copies
  <2>3. resp'[m] = 500 /\ UNCHANGED <<qos, topic, delivered>>
    BY <1>2 DEF WriteFails, Answer, IInv, TypeOK, pahoVars, linkVars
  <2>4. resp' = [resp EXCEPT ![m] = resp'[m]]
    BY <1>2, <2>3 DEF WriteFails, Answer
  <2>5. Promise!Next
    BY <2>1, <2>2, <2>3, <2>4, AnswerStep DEF Codes
  <2>. QED
    BY <2>5
<1>3. CASE Respond(m)
  <2>1. resp[m] = 0 /\ topic[m] # NoTopic
    BY <1>3 DEF Respond, IInv, Stages
  <2>2. resp'[m] = 200 /\ UNCHANGED <<qos, topic, delivered>>
    BY <1>3 DEF Respond, Answer, IInv, TypeOK, pahoVars, linkVars
  <2>3. resp' = [resp EXCEPT ![m] = resp'[m]]
    BY <1>3, <2>2 DEF Respond, Answer
  <2>4. Promise!Next
    BY <2>1, <2>2, <2>3, AnswerStep DEF Codes
  <2>. QED
    BY <2>4
<1>4. CASE BrokerReceives(m)
  <2>1. /\ delivered' = [delivered EXCEPT ![m] = @ + 1]
        /\ UNCHANGED <<qos, Answers, Taken>>
    BY <1>4 DEF BrokerReceives, handlerVars, pahoVars, Answers, AnswerOf, Taken
  <2>2. wire[m] \in Nat /\ delivered[m] \in Nat /\ wire[m] > 0
    BY <1>4 DEF BrokerReceives, IInv, TypeOK
  <2>3. m \in Taken
    BY <2>2 DEF IInv, Stages, Unsent, Taken
  <2>4. ASSUME qos = 0
        PROVE  delivered[m] = 0 /\ Answers[m] # "failed"
    <3>1. wire[m] + delivered[m] + Pending(m) <= 1 /\ resp[m] # 500
      BY <2>2, <2>4 DEF IInv, Copies
    <3>2. Pending(m) \in Nat
      BY DEF Pending
    <3>. QED
      BY <2>2, <3>1, <3>2 DEF Answers, AnswerOf
  <2>5. Promise!Receive(m)
    BY <2>1, <2>3, <2>4 DEF Promise!Receive
  <2>. QED
    BY <2>1, <2>5 DEF Promise!Next
<1>. QED
  BY <1>1, <1>2, <1>3, <1>4

\* The gateway implements its promise, for any messages and requests, either
\* QoS and any number of link failures.
THEOREM Implements == Spec => KeepsPromise
<1>1. Init => Promise!Init
  BY DEF Init, Promise!Init, Answers, AnswerOf, Taken
<1>2. IInv /\ [Next]_vars => [Promise!Next]_(Promise!vars)
  <2>. SUFFICES ASSUME IInv, [Next]_vars
                PROVE  [Promise!Next]_(Promise!vars)
    OBVIOUS
  <2>1. CASE \/ ConnectionLost \/ WorkersStopped \/ Reconnect \/ LinkBreaks
             \/ UNCHANGED vars
    BY <2>1, Stutters DEF ConnectionLost, WorkersStopped, Reconnect,
       LinkBreaks, vars, handlerVars, pahoVars, linkVars
  <2>. QED
    BY <2>1, HandlerSteps, ServiceSteps, ClientSteps DEF Next
<1>. QED
  BY Invariance, <1>1, <1>2, PTL DEF Spec, KeepsPromise, Promise!Spec

=============================================================================
