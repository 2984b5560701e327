--------------------------- MODULE SocketIO_proofs ---------------------------
(***************************************************************************)
(* Proofs about the SocketIO transport, for any finite set of sessions and *)
(* any number of events.                                                   *)
(***************************************************************************)
EXTENDS SocketIO, FiniteSetTheorems, WellFoundedInduction, TLAPS

-----------------------------------------------------------------------------
(* The inductive invariant.                                                *)

Unconnected == {"none", "checked", "refused", "recovered", "opening",
                "queued", "accepted"}

\* h.server is set from Start until Stop has closed it, and requests follow
\* Start.
ServerFollowsMain ==
    /\ server = "nil" => main \in {"init", "dropped", "stopped"}
    /\ main = "init" => \A c \in Conns : session[c] = "none"

\* What OnConnect has put into the context stays there.
ContextOfConnected == \A c \in Connected : c \in context

\* A session counts nothing before it is connected, and never more than it
\* received; an entry of the table has counted all.
EntriesCount ==
    \A c \in Conns :
        /\ session[c] \in Unconnected => received[c] = 0
        /\ counts[c] <= received[c]
        /\ c \in connections => counts[c] = received[c]

IInv ==
    /\ TypeOK
    /\ ServerFollowsMain
    /\ ContextOfConnected
    /\ EntriesCount
    /\ TableMatchesConnected
    /\ ConnectedNeverKills
    /\ FailsOnlyOnceClosed

\* The facts about a session are about one session at a time: this is what a
\* step that touches session c has to show of c.
LEMMA ConnectedStep ==
    ASSUME NEW c \in Conns, NEW s \in Sessions, TypeOK, GoTo(c, s)
    PROVE  /\ session' \in [Conns -> Sessions]
           /\ session'[c] = s
           /\ \A d \in Conns \ {c} : session'[d] = session[d]
           /\ Connected' = IF s \in {"open", "processing"}
                           THEN Connected \cup {c} ELSE Connected \ {c}
BY DEF TypeOK, GoTo, Connected

LEMMA InitIInv == Init => IInv
<1>. SUFFICES ASSUME Init PROVE IInv
  OBVIOUS
<1>1. Connected = {}
  BY DEF Init, Connected
<1>2. TypeOK
  <2>1. session \in [Conns -> Sessions]
    BY DEF Init, Sessions
  <2>2. 0 \in 0 .. MaxEvents
    BY SocketIOAssumption
  <2>3. /\ counts \in [Conns -> 0 .. MaxEvents]
        /\ received \in [Conns -> 0 .. MaxEvents]
    BY <2>2 DEF Init
  <2>4. served \in BOOLEAN /\ locked \in BOOLEAN
    BY DEF Init
  <2>. QED
    BY <2>1, <2>3, <2>4 DEF Init, TypeOK
<1>3. ServerFollowsMain /\ ContextOfConnected /\ EntriesCount
  BY <1>1 DEF Init, ServerFollowsMain, ContextOfConnected, EntriesCount
<1>4. TableMatchesConnected /\ ConnectedNeverKills /\ FailsOnlyOnceClosed
  BY <1>1
  DEF Init, TableMatchesConnected, ConnectedNeverKills, FailsOnlyOnceClosed
<1>. QED
  BY <1>2, <1>3, <1>4 DEF IInv

-----------------------------------------------------------------------------
(* The steps.                                                              *)

LEMMA StopIInv ==
    ASSUME IInv, Start \/ StopClose \/ StopDrop \/ StopClear PROVE IInv'
<1>. USE DEF IInv, Start, StopClose, StopDrop, StopClear, peerVars, tabVars
<1>1. TypeOK'
  BY DEF TypeOK
<1>2. ServerFollowsMain'
  BY DEF ServerFollowsMain
<1>3. ContextOfConnected'
  BY DEF ContextOfConnected, Connected
<1>4. EntriesCount'
  BY DEF EntriesCount
<1>5. TableMatchesConnected'
  BY DEF TableMatchesConnected, Connected
<1>6. ConnectedNeverKills'
  BY DEF ConnectedNeverKills, QueueClosed
<1>7. FailsOnlyOnceClosed'
  BY DEF FailsOnlyOnceClosed, ServerFollowsMain
<1>. QED
  BY <1>1, <1>2, <1>3, <1>4, <1>5, <1>6, <1>7

\* The steps of a session that has not been connected yet.
LEMMA OpeningIInv ==
    ASSUME IInv, NEW c \in Conns,
           HandleCheck(c) \/ HandleServe(c) \/ Enqueue(c) \/ Accept(c)
    PROVE  IInv'
<1>1. CASE Enqueue(c) /\ QueueClosed
  BY <1>1
  DEF IInv, Enqueue, Panic, At, stopVars, peerVars, tabVars, TypeOK, Sessions,
      ServerFollowsMain, ContextOfConnected, EntriesCount, Connected,
      TableMatchesConnected, ConnectedNeverKills, FailsOnlyOnceClosed,
      QueueClosed
<1>2. CASE ~(Enqueue(c) /\ QueueClosed)
  <2>1. PICK s \in Unconnected \ {"none"} : GoTo(c, s)
    BY <1>2 DEF HandleCheck, HandleServe, Enqueue, Accept, Unconnected
  <2>2. /\ UNCHANGED <<stopVars, peerVars, tabVars, process>>
        /\ process = "up" /\ session[c] \in Unconnected
        /\ main # "init"
        /\ s \in {"refused", "recovered"} => server = "nil"
    BY <1>2, <2>1
    DEF IInv, HandleCheck, HandleServe, Enqueue, Accept, At, GoTo, Unconnected,
        TypeOK, ServerFollowsMain, stopVars
  <2>3. /\ session' \in [Conns -> Sessions]
        /\ session'[c] = s
        /\ \A d \in Conns \ {c} : session'[d] = session[d]
        /\ Connected' = Connected
    BY <2>1, <2>2, ConnectedStep DEF IInv, Unconnected, Sessions, Connected
  <2>4. TypeOK'
    BY <2>2, <2>3 DEF IInv, TypeOK, stopVars, peerVars, tabVars
  <2>5. ServerFollowsMain'
    BY <2>2 DEF IInv, ServerFollowsMain, stopVars
  <2>6. ContextOfConnected'
    BY <2>2, <2>3 DEF IInv, ContextOfConnected, tabVars
  <2>7. EntriesCount'
    BY <2>2, <2>3 DEF IInv, EntriesCount, peerVars, tabVars
  <2>8. TableMatchesConnected'
    BY <2>2, <2>3 DEF IInv, TableMatchesConnected, stopVars, tabVars
  <2>9. ConnectedNeverKills'
    BY <2>2 DEF ConnectedNeverKills
  <2>10. FailsOnlyOnceClosed'
    BY <2>2, <2>3 DEF IInv, FailsOnlyOnceClosed, ServerFollowsMain, stopVars
  <2>. QED
    BY <2>4, <2>5, <2>6, <2>7, <2>8, <2>9, <2>10 DEF IInv
<1>. QED
  BY <1>1, <1>2

\* OnConnect: the session enters the table and its ID the context.
LEMMA ConnectIInv ==
    ASSUME IInv, NEW c \in Conns, OnConnect(c) PROVE IInv'
<1>. USE DEF IInv, stopVars, peerVars
<1>1. /\ session[c] = "accepted" /\ GoTo(c, "open")
      /\ connections' = connections \cup {c} /\ context' = context \cup {c}
      /\ UNCHANGED <<stopVars, peerVars, counts, messageCount, process>>
      /\ process = "up"
  BY DEF OnConnect, At
<1>2. /\ session' \in [Conns -> Sessions]
      /\ session'[c] = "open"
      /\ \A d \in Conns \ {c} : session'[d] = session[d]
      /\ Connected' = Connected \cup {c}
  BY <1>1, ConnectedStep DEF Sessions
<1>3. TypeOK'
  BY <1>1, <1>2 DEF TypeOK
<1>4. ServerFollowsMain'
  BY <1>1 DEF ServerFollowsMain
<1>5. ContextOfConnected'
  BY <1>1, <1>2 DEF ContextOfConnected
<1>6. EntriesCount'
  <2>1. received[c] = 0 /\ counts[c] = 0
    BY <1>1 DEF EntriesCount, Unconnected, TypeOK
  <2>. QED
    BY <1>1, <1>2, <2>1 DEF EntriesCount, Unconnected
<1>7. TableMatchesConnected'
  BY <1>1, <1>2 DEF TableMatchesConnected
<1>8. ConnectedNeverKills' /\ FailsOnlyOnceClosed'
  BY <1>1, <1>2 DEF ConnectedNeverKills, FailsOnlyOnceClosed
<1>. QED
  BY <1>3, <1>4, <1>5, <1>6, <1>7, <1>8

\* The end of a session: only one that never was connected can panic.
LEMMA DisconnectIInv ==
    ASSUME IInv, NEW c \in Conns, ConnectFails(c) \/ ReadFails(c)
    PROVE  IInv'
<1>. USE DEF IInv, stopVars, peerVars
<1>1. /\ process = "up" /\ c \in left /\ OnDisconnect(c)
      /\ session[c] \in {"accepted", "open"}
  BY DEF ConnectFails, ReadFails, At
<1>2. CASE c \notin context
  <2>1. session[c] = "accepted"
    BY <1>1, <1>2 DEF ContextOfConnected, Connected
  <2>. QED
    BY <1>1, <1>2, <2>1
    DEF OnDisconnect, Panic, tabVars, TypeOK, ServerFollowsMain, Connected,
        ContextOfConnected, EntriesCount, TableMatchesConnected,
        ConnectedNeverKills, FailsOnlyOnceClosed
<1>3. CASE c \in context
  <2>1. /\ GoTo(c, "closed") /\ connections' = connections \ {c}
        /\ UNCHANGED <<stopVars, peerVars, context, counts, messageCount,
                       process>>
    BY <1>1, <1>3 DEF OnDisconnect
  <2>2. /\ session' \in [Conns -> Sessions]
        /\ session'[c] = "closed"
        /\ \A d \in Conns \ {c} : session'[d] = session[d]
        /\ Connected' = Connected \ {c}
    BY <2>1, ConnectedStep DEF Sessions
  <2>3. TypeOK'
    BY <2>1, <2>2 DEF TypeOK
  <2>4. ServerFollowsMain'
    BY <1>1, <2>1 DEF ServerFollowsMain
  <2>5. ContextOfConnected'
    BY <2>1, <2>2 DEF ContextOfConnected
  <2>6. EntriesCount'
    BY <2>1, <2>2 DEF EntriesCount, Unconnected
  <2>7. TableMatchesConnected'
    BY <2>1, <2>2 DEF TableMatchesConnected
  <2>8. ConnectedNeverKills' /\ FailsOnlyOnceClosed'
    BY <1>1, <2>1, <2>2 DEF ConnectedNeverKills, FailsOnlyOnceClosed
  <2>. QED
    BY <2>3, <2>4, <2>5, <2>6, <2>7, <2>8
<1>. QED
  BY <1>2, <1>3

\* Counting and processing an event.
LEMMA EventIInv ==
    ASSUME IInv, NEW c \in Conns, OnEvent(c) \/ ProcessMessage(c)
    PROVE  IInv'
<1>. USE DEF IInv, stopVars, peerVars, tabVars
<1>1. /\ c \in Connected /\ c \in context /\ process = "up"
      /\ session[c] \notin Unconnected
  BY DEF OnEvent, ProcessMessage, At, Connected, ContextOfConnected,
     Unconnected
<1>2. PICK s \in {"open", "processing"} : GoTo(c, s)
  BY <1>1 DEF OnEvent, ProcessMessage
<1>3. /\ session' \in [Conns -> Sessions]
      /\ session'[c] = s
      /\ \A d \in Conns \ {c} : session'[d] = session[d]
      /\ Connected' = Connected
  BY <1>1, <1>2, ConnectedStep DEF Sessions
<1>4. UNCHANGED <<stopVars, left, context, connections, process>>
  BY <1>1 DEF OnEvent, ProcessMessage
<1>5. /\ \A d \in Conns \ {c} :
           received'[d] = received[d] /\ counts'[d] = counts[d]
      /\ \/ received'[c] = received[c] /\ counts'[c] = counts[c]
         \/ /\ received[c] < MaxEvents /\ received'[c] = received[c] + 1
            /\ counts'[c] = IF c \in connections THEN counts[c] + 1
                            ELSE counts[c]
  BY <1>1 DEF OnEvent, ProcessMessage, TypeOK
<1>6. TypeOK'
  <2>1. /\ received' \in [Conns -> 0 .. MaxEvents]
        /\ messageCount' \in Nat
    BY <1>1, SocketIOAssumption DEF OnEvent, ProcessMessage, TypeOK
  <2>2. counts' \in [Conns -> 0 .. MaxEvents]
    <3>1. \A d \in Conns : counts'[d] \in 0 .. MaxEvents
      BY <1>5, SocketIOAssumption DEF TypeOK, EntriesCount
    <3>. QED
      BY <1>1, <3>1 DEF OnEvent, ProcessMessage, TypeOK
  <2>. QED
    BY <1>3, <1>4, <2>1, <2>2 DEF TypeOK
<1>7. ServerFollowsMain'
  BY <1>1, <1>3, <1>4 DEF ServerFollowsMain, Unconnected
<1>8. ContextOfConnected' /\ TableMatchesConnected'
  BY <1>3, <1>4 DEF ContextOfConnected, TableMatchesConnected
<1>9. EntriesCount'
  BY <1>3, <1>4, <1>5 DEF EntriesCount, TypeOK, Unconnected
<1>10. ConnectedNeverKills' /\ FailsOnlyOnceClosed'
  BY <1>1, <1>3, <1>4 DEF ConnectedNeverKills, FailsOnlyOnceClosed
<1>. QED
  BY <1>6, <1>7, <1>8, <1>9, <1>10

LEMMA LeaveIInv ==
    ASSUME IInv, NEW c \in Conns, PeerLeaves(c) PROVE IInv'
BY DEF IInv, PeerLeaves, stopVars, tabVars, TypeOK, ServerFollowsMain,
   Connected, ContextOfConnected, EntriesCount, TableMatchesConnected,
   ConnectedNeverKills, FailsOnlyOnceClosed

LEMMA StutterIInv == IInv /\ UNCHANGED vars => IInv'
BY DEF IInv, vars, stopVars, peerVars, tabVars, TypeOK, ServerFollowsMain,
   Connected, ContextOfConnected, EntriesCount, TableMatchesConnected,
   ConnectedNeverKills, FailsOnlyOnceClosed, QueueClosed

\* The invariant holds of every reachable state.
THEOREM SocketIOInvariance == Spec => []IInv
<1>1. IInv /\ [Next]_vars => IInv'
  BY StopIInv, OpeningIInv, ConnectIInv, DisconnectIInv, EventIInv, LeaveIInv,
     StutterIInv DEF Next
<1>. QED
  BY InitIInv, <1>1, PTL DEF Spec

-----------------------------------------------------------------------------
(* The theorems.                                                           *)

\* Type correctness.
THEOREM SocketIOTypeCorrect == Spec => []TypeOK
<1>1. IInv => TypeOK
  BY DEF IInv
<1>. QED
  BY SocketIOInvariance, <1>1, PTL

\* The table holds the connected sessions until Stop empties it, and nobody
\* who is not connected ever.
THEOREM TableFollowsSessions == Spec => []TableMatchesConnected
<1>1. IInv => TableMatchesConnected
  BY DEF IInv
<1>. QED
  BY SocketIOInvariance, <1>1, PTL

\* A session that OnConnect has seen never panics.
THEOREM ConnectedAreSafe == Spec => []ConnectedNeverKills
<1>1. IInv => ConnectedNeverKills
  BY DEF IInv
<1>. QED
  BY SocketIOInvariance, <1>1, PTL

\* Until Stop has closed the library's server every request gets one.
THEOREM OnlyStopRefuses == Spec => []FailsOnlyOnceClosed
<1>1. IInv => FailsOnlyOnceClosed
  BY DEF IInv
<1>. QED
  BY SocketIOInvariance, <1>1, PTL

-----------------------------------------------------------------------------
(* The sum over the sessions.                                              *)

\* A set of natural numbers has a least element: what stands in the proofs
\* below for induction over sets of sessions.
LEMMA LeastOf ==
    ASSUME NEW T \in SUBSET Nat, T # {}
    PROVE  \E n \in T : \A m \in T : n <= m
<1>1. PICK n \in T : \A m \in T : <<m, n>> \notin OpToRel(<, Nat)
  BY NatLessThanWellFounded, WFMin
<1>2. \A m \in T : ~ (m < n)
  BY <1>1 DEF OpToRel
<1>. QED
  BY <1>2

Small(S, n) == {s \in SUBSET S : Cardinality(s) <= n}
Chosen(s)   == CHOOSE x \in s : TRUE

\* What the recursive function of MapThenSumSet is, for the subsets of S with
\* at most n elements.
IsSum(F, f, S, n) ==
    F = [s \in Small(S, n) |->
           IF s = {} THEN 0 ELSE f[Chosen(s)] + F[s \ {Chosen(s)}]]

LEMMA RemoveChosen ==
    ASSUME NEW S, IsFiniteSet(S), NEW s \in SUBSET S, s # {}
    PROVE  /\ Chosen(s) \in s /\ s \ {Chosen(s)} \in SUBSET S
           /\ Cardinality(s) \in Nat
           /\ Cardinality(s \ {Chosen(s)}) = Cardinality(s) - 1
           /\ Cardinality(s) # 0
<1>1. IsFiniteSet(s) /\ Chosen(s) \in s
  BY FS_Subset DEF Chosen
<1>2. Cardinality(s) \in Nat /\ Cardinality(s \ {Chosen(s)}) = Cardinality(s) - 1
  BY <1>1, FS_RemoveElement, FS_CardinalityType
<1>3. Cardinality(s) # 0
  BY <1>1, FS_EmptySet
<1>. QED
  BY <1>1, <1>2, <1>3

LEMMA SumExists ==
    ASSUME NEW S, IsFiniteSet(S), NEW f, NEW size \in Nat
    PROVE  \E F : IsSum(F, f, S, size)
<1>. DEFINE T == {n \in Nat : ~ \E F : IsSum(F, f, S, n)}
<1>. SUFFICES ASSUME T # {} PROVE FALSE
  OBVIOUS
<1>1. PICK n \in T : \A m \in T : n <= m
  BY LeastOf
<1>2. n # 0
  <2>. DEFINE G == [s \in Small(S, 0) |-> 0]
  <2>1. \A s \in Small(S, 0) : s = {}
    BY FS_Subset, FS_EmptySet, FS_CardinalityType DEF Small
  <2>2. IsSum(G, f, S, 0)
    BY <2>1 DEF IsSum
  <2>. QED
    BY <1>1, <2>2
<1>3. n - 1 \in Nat /\ ~ (n <= n - 1)
  BY <1>2
<1>4. PICK F : IsSum(F, f, S, n - 1)
  BY <1>1, <1>3
<1>. DEFINE Value(H, s) == IF s = {} THEN 0 ELSE f[Chosen(s)] + H[s \ {Chosen(s)}]
            G == [s \in Small(S, n) |->
                    IF s \in Small(S, n - 1) THEN F[s] ELSE Value(F, s)]
<1>5. ASSUME NEW s \in Small(S, n), s # {}
      PROVE  s \ {Chosen(s)} \in Small(S, n - 1) /\ s \ {Chosen(s)} \in Small(S, n)
  BY <1>3, <1>5, RemoveChosen DEF Small
<1>6. ASSUME NEW s \in Small(S, n) PROVE G[s] = Value(G, s)
  <2>1. CASE s = {}
    <3>1. s \in Small(S, n - 1)
      BY <1>3, <2>1, FS_EmptySet DEF Small
    <3>2. F[s] = 0
      BY <1>4, <2>1, <3>1 DEF IsSum
    <3>. QED
      BY <2>1, <3>1, <3>2
  <2>2. CASE s # {}
    <3>1. G[s \ {Chosen(s)}] = F[s \ {Chosen(s)}]
      BY <1>5, <2>2
    <3>2. G[s] = f[Chosen(s)] + F[s \ {Chosen(s)}]
      BY <1>4, <2>2 DEF IsSum
    <3>. QED
      BY <2>2, <3>1, <3>2
  <2>. QED
    BY <2>1, <2>2
<1>7. G = [s \in Small(S, n) |-> G[s]]
  OBVIOUS
<1>. HIDE DEF G
<1>8. IsSum(G, f, S, n)
  BY <1>6, <1>7 DEF IsSum
<1>. QED
  BY <1>1, <1>8

Sum(f) == MapThenSumSet(LAMBDA c : f[c], Conns)

\* The sum is what the recursive function gives for all sessions.
LEMMA SumIs ==
    ASSUME NEW f
    PROVE  \E F : /\ IsSum(F, f, Conns, Cardinality(Conns))
                  /\ Sum(f) = F[Conns]
<1>1. Cardinality(Conns) \in Nat /\ IsFiniteSet(Conns)
  BY SocketIOAssumption, FS_CardinalityType
<1>2. Small(Conns, Cardinality(Conns)) = SUBSET Conns
  BY <1>1, FS_Subset DEF Small
<1>. DEFINE P(F) == F = [s \in SUBSET Conns |->
                           IF s = {} THEN 0 ELSE f[Chosen(s)] + F[s \ {Chosen(s)}]]
<1>3. \A F : P(F) <=> IsSum(F, f, Conns, Cardinality(Conns))
  BY <1>2 DEF IsSum
<1>4. \E F : P(F)
  BY <1>1, <1>3, SumExists
<1>5. Sum(f) = (CHOOSE F : P(F))[Conns]
  BY DEF Sum, MapThenSumSet, MapThenFoldSet, Chosen
<1>. QED
  BY <1>3, <1>4, <1>5

\* Nothing received, nothing to sum.
LEMMA SumOfZeros ==
    ASSUME NEW f, \A c \in Conns : f[c] = 0 PROVE Sum(f) = 0
<1>. DEFINE N == Cardinality(Conns)
<1>1. N \in Nat /\ IsFiniteSet(Conns)
  BY SocketIOAssumption, FS_CardinalityType
<1>2. PICK F : IsSum(F, f, Conns, N) /\ Sum(f) = F[Conns]
  BY SumIs
<1>. HIDE DEF N
<1>. DEFINE T == {n \in Nat : \E s \in Small(Conns, N) :
                               Cardinality(s) = n /\ F[s] # 0}
<1>3. ASSUME T # {} PROVE FALSE
  <2>1. PICK n \in T : \A m \in T : n <= m
    BY <1>3, LeastOf
  <2>2. PICK s \in Small(Conns, N) : Cardinality(s) = n /\ F[s] # 0
    BY <2>1
  <2>3. s # {}
    BY <1>2, <2>2 DEF IsSum
  <2>. DEFINE r == s \ {Chosen(s)}
  <2>4. /\ Chosen(s) \in Conns /\ r \in Small(Conns, N)
        /\ Cardinality(r) \in Nat /\ ~ (n <= Cardinality(r))
    BY <1>1, <2>2, <2>3, RemoveChosen DEF Small
  <2>5. F[s] = f[Chosen(s)] + F[r]
    BY <1>2, <2>3 DEF IsSum
  <2>. HIDE DEF r
  <2>6. F[r] = 0
    BY <2>1, <2>4
  <2>. QED
    BY <2>2, <2>4, <2>5, <2>6
<1>4. Conns \in Small(Conns, N)
  BY <1>1 DEF Small, N
<1>. QED
  BY <1>1, <1>2, <1>3, <1>4 DEF N

\* One event more is one more in the sum.
LEMMA SumOfOneMore ==
    ASSUME NEW f \in [Conns -> Nat], NEW c \in Conns,
           NEW g, g = [f EXCEPT ![c] = @ + 1]
    PROVE  Sum(g) = Sum(f) + 1
<1>. DEFINE N == Cardinality(Conns)
<1>1. N \in Nat /\ IsFiniteSet(Conns)
  BY SocketIOAssumption, FS_CardinalityType
<1>2. PICK F : IsSum(F, f, Conns, N) /\ Sum(f) = F[Conns]
  BY SumIs
<1>3. PICK G : IsSum(G, g, Conns, N) /\ Sum(g) = G[Conns]
  BY SumIs
<1>4. Conns \in Small(Conns, N)
  BY <1>1 DEF Small
<1>. HIDE DEF N
<1>. DEFINE One(s) == IF c \in s THEN 1 ELSE 0
            Good(s) == F[s] \in Nat /\ G[s] = F[s] + One(s)
            T == {n \in Nat : \E s \in Small(Conns, N) :
                               Cardinality(s) = n /\ ~ Good(s)}
<1>5. ASSUME T # {} PROVE FALSE
  <2>1. PICK n \in T : \A m \in T : n <= m
    BY <1>5, LeastOf
  <2>2. PICK s \in Small(Conns, N) : Cardinality(s) = n /\ ~ Good(s)
    BY <2>1
  <2>3. s # {}
    BY <1>2, <1>3, <2>2 DEF IsSum
  <2>. DEFINE x == Chosen(s)
              r == s \ {x}
  <2>4. /\ x \in Conns /\ x \in s /\ r \in Small(Conns, N)
        /\ Cardinality(r) \in Nat /\ ~ (n <= Cardinality(r))
    BY <1>1, <2>2, <2>3, RemoveChosen DEF Small
  <2>5. F[s] = f[x] + F[r] /\ G[s] = g[x] + G[r]
    BY <1>2, <1>3, <2>3 DEF IsSum
  <2>6. Good(r)
    BY <2>1, <2>4
  <2>7. f[x] \in Nat /\ g[x] = f[x] + IF x = c THEN 1 ELSE 0
    BY <2>4
  <2>8. One(s) = (IF x = c THEN 1 ELSE 0) + One(r)
    BY <2>4
  <2>9. One(r) \in Nat
    OBVIOUS
  <2>. HIDE DEF One, r, x
  <2>. QED
    BY <2>2, <2>5, <2>6, <2>7, <2>8, <2>9
<1>6. Cardinality(Conns) \in Nat /\ Good(Conns)
  BY <1>1, <1>4, <1>5 DEF N
<1>. QED
  BY <1>2, <1>3, <1>6

TotalIsSum == messageCount = Sum(received)

LEMMA TotalStep ==
    ASSUME IInv, TotalIsSum, [Next]_vars PROVE TotalIsSum'
<1>1. ASSUME NEW c \in Conns, OnEvent(c) PROVE TotalIsSum'
  <2>1. c \in context
    BY <1>1 DEF IInv, ContextOfConnected, Connected, OnEvent, At
  <2>2. /\ messageCount' = messageCount + 1
        /\ received' = [received EXCEPT ![c] = @ + 1]
    BY <1>1, <2>1 DEF OnEvent
  <2>3. received \in [Conns -> Nat]
    BY SocketIOAssumption DEF IInv, TypeOK
  <2>4. Sum(received') = Sum(received) + 1
    BY <2>2, <2>3, SumOfOneMore
  <2>. QED
    BY <2>2, <2>4 DEF TotalIsSum
<1>2. CASE UNCHANGED <<messageCount, received>>
  BY <1>2 DEF TotalIsSum
<1>. QED
  BY <1>1, <1>2
  DEF Next, Start, StopClose, StopDrop, StopClear, HandleCheck, HandleServe,
      Enqueue, Accept, OnConnect, ConnectFails, ProcessMessage, ReadFails, PeerLeaves,
      OnDisconnect, Panic, vars, stopVars, peerVars, tabVars

\* The handler's total is the number of the events of all sessions, and an
\* entry's count that of its own.
THEOREM CountsAreExact == Spec => []CountsAgree
<1>1. Init => TotalIsSum
  BY SumOfZeros DEF Init, TotalIsSum
<1>2. IInv /\ TotalIsSum /\ [Next]_vars => TotalIsSum'
  BY TotalStep
<1>3. IInv /\ TotalIsSum => CountsAgree
  BY DEF IInv, EntriesCount, TotalIsSum, CountsAgree, Sum, TypeOK
<1>. QED
  BY SocketIOInvariance, <1>1, <1>2, <1>3, PTL DEF Spec

=============================================================================
