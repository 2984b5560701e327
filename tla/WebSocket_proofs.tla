-------------------------- MODULE WebSocket_proofs --------------------------
(***************************************************************************)
(* Proofs about the table of the WebSocket transport, for any set of       *)
(* connections and any number of messages, pings and broadcasts.           *)
(***************************************************************************)
EXTENDS WebSocket, TLAPS

-----------------------------------------------------------------------------
(* The inductive invariant: the table's together with the types, in the    *)
(* parts the proof is made of.                                             *)

TableOK   == connections \subseteq Conns /\ reader \in [Conns -> Readers]
WritersOK ==
    /\ pinger \in [Conns -> {"none", "waiting", "writing", "ended"}]
    /\ broadcast \in [Conns -> {"none", "starting", "writing"}]
    /\ writing \in [Conns -> SUBSET Writers]
    /\ garbled \subseteq Conns
    /\ process \in {"up", "crashed"}
PeersOK ==
    /\ socket \in [Conns -> {"none", "open", "closed"}]
    /\ deadline \subseteq Conns /\ silent \subseteq Conns
TotalsOK ==
    /\ counts \in [Conns -> 0 .. messageCount]
    /\ messageCount \in 0 .. MaxMessages
    /\ pings \in 0 .. MaxPings /\ broadcasts \in 0 .. MaxBroadcasts

TypeParts == TableOK /\ WritersOK /\ PeersOK /\ TotalsOK

LEMMA TypeOKParts == (TypeOK <=> TypeParts) /\ (TypeOK' <=> TypeParts')
BY DEF TypeOK, TypeParts, TableOK, WritersOK, PeersOK, TotalsOK

IInv == TypeParts /\ TableMatchesServed

LEMMA InitIInv == Init => IInv
<1>. SUFFICES ASSUME Init PROVE IInv
  OBVIOUS
<1>1. TableOK /\ WritersOK /\ PeersOK
  BY DEF Init, TableOK, WritersOK, PeersOK, Readers
<1>2. TotalsOK
  <2>1. 0 \in 0 .. MaxMessages /\ 0 \in 0 .. MaxPings /\ 0 \in 0 .. MaxBroadcasts
    BY WebSocketAssumption
  <2>. QED
    BY <2>1 DEF Init, TotalsOK
<1>3. TableMatchesServed
  BY DEF Init, TableMatchesServed, Served
<1>. QED
  BY <1>1, <1>2, <1>3 DEF IInv, TypeParts

\* A write touches neither the table nor a reader, whoever begins or ends it.
LEMMA WriteKeepsTypes ==
    ASSUME NEW c \in Conns, NEW w \in Writers, WritersOK,
           BeginWrite(c, w) \/ EndWrite(c, w)
    PROVE  /\ writing' \in [Conns -> SUBSET Writers]
           /\ garbled' \subseteq Conns
           /\ process' \in {"up", "crashed"}
BY DEF BeginWrite, EndWrite, WritersOK

-----------------------------------------------------------------------------
(* The steps.                                                              *)

\* The goroutine of a connection, but for the messages it reads and answers.
ReaderStep(c) ==
    \/ Handle(c) \/ HandleConnection(c)
    \/ ReadClosed(c) \/ ReadTimesOut(c) \/ ReadTooLarge(c)
    \/ Forget(c) \/ Close(c)

LEMMA ReaderIInv ==
    ASSUME IInv, NEW c \in Conns, ReaderStep(c) PROVE IInv'
<1>. USE DEF IInv, TypeParts, ReaderStep, Handle, HandleConnection, ReadFails,
     ReadClosed, ReadTimesOut, ReadTooLarge, Forget, Close, peers, writes,
     totals
<1>1. TableOK'
  BY DEF TableOK, Readers
<1>2. WritersOK'
  BY DEF WritersOK
<1>3. PeersOK'
  BY DEF PeersOK
<1>4. TotalsOK'
  BY DEF TotalsOK
<1>5. TableMatchesServed'
  BY DEF TableMatchesServed, TableOK, PeersOK, Served
<1>. QED
  BY <1>1, <1>2, <1>3, <1>4, <1>5

MessageStep(c) == ReadMessage(c) \/ ProcessMessage(c) \/ Responded(c)

LEMMA MessageIInv ==
    ASSUME IInv, NEW c \in Conns, MessageStep(c) PROVE IInv'
<1>. USE DEF IInv, TypeParts, MessageStep, ReadMessage, ProcessMessage,
     Responded, peers, writes, totals
<1>1. TableOK'
  BY DEF TableOK, Readers
<1>2. WritersOK'
  <2>1. CASE ReadMessage(c)
    BY <2>1 DEF WritersOK
  <2>2. CASE ProcessMessage(c) \/ Responded(c)
    BY <2>2, WriteKeepsTypes DEF WritersOK, Writers
  <2>. QED
    BY <2>1, <2>2
<1>3. PeersOK'
  BY DEF PeersOK
<1>4. TotalsOK'
  BY WebSocketAssumption DEF TotalsOK
<1>5. TableMatchesServed'
  BY DEF TableMatchesServed, TableOK, Served
<1>. QED
  BY <1>1, <1>2, <1>3, <1>4, <1>5

WriterStep(c) ==
    Ping(c) \/ Pinged(c) \/ SendBroadcast(c) \/ BroadcastSent(c)

LEMMA WriterIInv ==
    ASSUME IInv, NEW c \in Conns, WriterStep(c) PROVE IInv'
<1>. USE DEF IInv, TypeParts, WriterStep, Ping, Pinged, SendBroadcast,
     BroadcastSent, peers, totals
<1>1. TableOK' /\ PeersOK'
  BY DEF TableOK, PeersOK
<1>2. WritersOK'
  BY WriteKeepsTypes DEF WritersOK, Writers
<1>3. TotalsOK'
  BY WebSocketAssumption DEF TotalsOK
<1>4. TableMatchesServed'
  BY DEF TableMatchesServed
<1>. QED
  BY <1>1, <1>2, <1>3, <1>4

\* What others do with a connection, whatever its reader is doing.
OtherStep ==
    \/ BroadcastMessage
    \/ \E c \in Conns : CloseConnection(c) \/ PeerCloses(c) \/ PeerGoesSilent(c)
    \/ UNCHANGED vars

LEMMA OtherIInv == ASSUME IInv, OtherStep PROVE IInv'
<1>. USE DEF IInv, TypeParts, OtherStep, BroadcastMessage, CloseConnection,
     PeerCloses, PeerGoesSilent, vars, peers, writes, totals
<1>1. TableOK'
  BY DEF TableOK
<1>2. WritersOK'
  BY DEF WritersOK
<1>3. PeersOK'
  BY DEF PeersOK
<1>4. TotalsOK'
  BY WebSocketAssumption DEF TotalsOK
<1>5. TableMatchesServed'
  BY DEF TableMatchesServed, TableOK, PeersOK, Served
<1>. QED
  BY <1>1, <1>2, <1>3, <1>4, <1>5

\* The invariant holds of every reachable state.
THEOREM WebSocketInvariance == Spec => []IInv
<1>1. IInv /\ [Next]_vars => IInv'
  BY ReaderIInv, MessageIInv, WriterIInv, OtherIInv
  DEF Next, ReaderStep, MessageStep, WriterStep, OtherStep
<1>. QED
  BY InitIInv, <1>1, PTL DEF Spec

-----------------------------------------------------------------------------
(* The theorems.                                                           *)

\* Type correctness.
THEOREM WebSocketTypeCorrect == Spec => []TypeOK
<1>1. IInv => TypeOK
  BY TypeOKParts DEF IInv
<1>. QED
  BY WebSocketInvariance, <1>1, PTL

\* The table holds the connections that are served, whoever closes them.
THEOREM TableFollowsReaders == Spec => []TableMatchesServed
<1>1. IInv => TableMatchesServed
  BY DEF IInv
<1>. QED
  BY WebSocketInvariance, <1>1, PTL

=============================================================================
