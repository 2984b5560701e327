----------------------------- MODULE WebSocket -----------------------------
(***************************************************************************)
(* The WebSocket transport: the table of connections, the goroutine that   *)
(* reads a connection, the one that pings it, the broadcasts and the       *)
(* operator's CloseConnection.                                             *)
(*                                                                         *)
(* The table has a mutex and every use of it is one step here.  A          *)
(* connection has none: its reader answers a message, its pinger pings and *)
(* a broadcast writes, each in a goroutine of its own.                     *)
(***************************************************************************)
EXTENDS Naturals, FiniteSets

CONSTANTS
    Conns,
    MaxMessages, MaxPings, MaxBroadcasts    \* bounds

ASSUME WebSocketAssumption ==
    MaxMessages \in Nat /\ MaxPings \in Nat /\ MaxBroadcasts \in Nat

Writers == {"reader", "pinger", "broadcast"}

VARIABLES
    connections,    \* the table
    reader,         \* the goroutine of handleConnection
    pinger,         \* "none", "waiting", "writing", "ended"
    broadcast,      \* "none", "starting", "writing"
    socket,         \* "none", "open", "closed"
    deadline,       \* connections with a read deadline
    silent,         \* peers that send nothing any more, not even a pong
    writing,        \* goroutines inside a write of gorilla/websocket
    garbled,        \* connections on which two writes have overlapped
    messageCount,   \* the handler's
    counts,         \* each connection's MessageCount
    process,        \* "up", "crashed"
    pings, broadcasts

writes == <<writing, garbled, process>>
peers  == <<socket, deadline, silent>>
totals == <<messageCount, counts>>
vars   == <<connections, reader, pinger, broadcast, peers, writes, totals,
            pings, broadcasts>>

Init ==
    /\ connections = {}
    /\ reader    = [c \in Conns |-> "none"]
    /\ pinger    = [c \in Conns |-> "none"]
    /\ broadcast = [c \in Conns |-> "none"]
    /\ socket    = [c \in Conns |-> "none"]
    /\ deadline = {} /\ silent = {} /\ garbled = {}
    /\ writing = [c \in Conns |-> {}]
    /\ messageCount = 0 /\ counts = [c \in Conns |-> 0]
    /\ process = "up"
    /\ pings = 0 /\ broadcasts = 0

\* gorilla/websocket allows one writer at a time.  Of two that overlap, one
\* panics if it notices, and nothing recovers these goroutines; if none does
\* their frames share a buffer.
BeginWrite(c, w) ==
    /\ writing' = [writing EXCEPT ![c] = @ \cup {w}]
    /\ IF writing[c] = {} THEN UNCHANGED <<garbled, process>>
       ELSE \/ process' = "crashed" /\ UNCHANGED garbled
            \/ garbled' = garbled \cup {c} /\ UNCHANGED process

EndWrite(c, w) ==
    /\ writing' = [writing EXCEPT ![c] = @ \ {w}]
    /\ UNCHANGED <<garbled, process>>

-----------------------------------------------------------------------------
(* A connection.                                                           *)

\* A failed upgrade is answered 400 and leaves nothing behind.
Handle(c) ==
    /\ reader[c] = "none"
    /\ socket' = [socket EXCEPT ![c] = "open"]
    /\ connections' = connections \cup {c}
    /\ reader' = [reader EXCEPT ![c] = "started"]
    /\ UNCHANGED <<pinger, broadcast, deadline, silent, writes, totals, pings,
                   broadcasts>>

\* Mutant: the deadline is only set when a pong has come.
HandleConnection_NoDeadline(c) ==
    /\ reader[c] = "started"
    /\ reader' = [reader EXCEPT ![c] = "reading"]
    /\ pinger' = [pinger EXCEPT ![c] = "waiting"]
    /\ UNCHANGED <<connections, broadcast, peers, writes, totals, pings,
                   broadcasts>>

HandleConnection(c) ==
    /\ reader[c] = "started"
    /\ deadline' = deadline \cup {c}
    /\ reader' = [reader EXCEPT ![c] = "reading"]
    /\ pinger' = [pinger EXCEPT ![c] = "waiting"]
    /\ UNCHANGED <<connections, broadcast, socket, silent, writes, totals,
                   pings, broadcasts>>

\* Mutant: the handler's total is taken for the number of connections.
ReadMessage_CountsOnce(c) ==
    /\ reader[c] = "reading" /\ socket[c] = "open" /\ c \notin silent
    /\ messageCount < MaxMessages
    /\ counts' = [counts EXCEPT ![c] = @ + 1]
    /\ messageCount' = IF counts[c] = 0 THEN messageCount + 1 ELSE messageCount
    /\ reader' = [reader EXCEPT ![c] = "processing"]
    /\ UNCHANGED <<connections, pinger, broadcast, peers, writes, pings,
                   broadcasts>>

ReadMessage(c) ==
    /\ reader[c] = "reading" /\ socket[c] = "open" /\ c \notin silent
    /\ messageCount < MaxMessages
    /\ counts' = [counts EXCEPT ![c] = @ + 1]
    /\ messageCount' = messageCount + 1
    /\ reader' = [reader EXCEPT ![c] = "processing"]
    /\ UNCHANGED <<connections, pinger, broadcast, peers, writes, pings,
                   broadcasts>>

\* The device service has answered, and so does the reader.
ProcessMessage(c) ==
    /\ reader[c] = "processing"
    /\ BeginWrite(c, "reader")
    /\ reader' = [reader EXCEPT ![c] = "responding"]
    /\ UNCHANGED <<connections, pinger, broadcast, peers, totals, pings,
                   broadcasts>>

\* An error is logged; the write deadline has it end.
Responded(c) ==
    /\ reader[c] = "responding"
    /\ EndWrite(c, "reader")
    /\ reader' = [reader EXCEPT ![c] = "reading"]
    /\ UNCHANGED <<connections, pinger, broadcast, peers, totals, pings,
                   broadcasts>>

\* The loop ends, and ticker.Stop comes first of the deferred calls.
ReadFails(c) ==
    /\ reader[c] = "reading"
    /\ reader' = [reader EXCEPT ![c] = "leaving"]
    /\ UNCHANGED <<connections, pinger, broadcast, peers, writes, totals,
                   pings, broadcasts>>

ReadClosed(c)   == socket[c] = "closed" /\ ReadFails(c)
ReadTimesOut(c) == c \in deadline /\ ReadFails(c)
ReadTooLarge(c) == socket[c] = "open" /\ c \notin silent /\ ReadFails(c)

\* Mutant: the table keeps the connection.
Forget_NoDelete(c) ==
    /\ reader[c] = "leaving"
    /\ reader' = [reader EXCEPT ![c] = "closing"]
    /\ UNCHANGED <<connections, pinger, broadcast, peers, writes, totals, pings,
                   broadcasts>>

\* The other deferred call deletes the connection, and then closes it.
Forget(c) ==
    /\ reader[c] = "leaving"
    /\ connections' = connections \ {c}
    /\ reader' = [reader EXCEPT ![c] = "closing"]
    /\ UNCHANGED <<pinger, broadcast, peers, writes, totals, pings, broadcasts>>

Close(c) ==
    /\ reader[c] = "closing"
    /\ socket' = [socket EXCEPT ![c] = "closed"]
    /\ reader' = [reader EXCEPT ![c] = "done"]
    /\ UNCHANGED <<connections, pinger, broadcast, deadline, silent, writes,
                   totals, pings, broadcasts>>

-----------------------------------------------------------------------------
(* The pinger.  A stopped ticker does not close its channel: the loop over *)
(* it ends only when a ping could not be written.                          *)

Ping(c) ==
    /\ pinger[c] = "waiting"
    /\ reader[c] \notin {"leaving", "closing", "done"}
    /\ pings < MaxPings
    /\ pings' = pings + 1
    /\ BeginWrite(c, "pinger")
    /\ pinger' = [pinger EXCEPT ![c] = "writing"]
    /\ UNCHANGED <<connections, reader, broadcast, peers, totals, broadcasts>>

Pinged(c) ==
    /\ pinger[c] = "writing"
    /\ EndWrite(c, "pinger")
    /\ pinger' = [pinger EXCEPT ![c] = IF socket[c] = "open" THEN "waiting"
                                       ELSE "ended"]
    /\ UNCHANGED <<connections, reader, broadcast, peers, totals, pings,
                   broadcasts>>

-----------------------------------------------------------------------------
(* What others do with the connections.                                    *)

\* One goroutine for each connection in the table; one broadcast at a time.
BroadcastMessage ==
    /\ broadcasts < MaxBroadcasts
    /\ \A c \in Conns : broadcast[c] = "none"
    /\ broadcasts' = broadcasts + 1
    /\ broadcast' = [c \in Conns |-> IF c \in connections THEN "starting"
                                     ELSE "none"]
    /\ UNCHANGED <<connections, reader, pinger, peers, writes, totals, pings>>

SendBroadcast(c) ==
    /\ broadcast[c] = "starting"
    /\ BeginWrite(c, "broadcast")
    /\ broadcast' = [broadcast EXCEPT ![c] = "writing"]
    /\ UNCHANGED <<connections, reader, pinger, peers, totals, pings,
                   broadcasts>>

BroadcastSent(c) ==
    /\ broadcast[c] = "writing"
    /\ EndWrite(c, "broadcast")
    /\ broadcast' = [broadcast EXCEPT ![c] = "none"]
    /\ UNCHANGED <<connections, reader, pinger, peers, totals, pings,
                   broadcasts>>

\* Mutant: the connection is forgotten and left open.
CloseConnection_NoClose(c) ==
    /\ c \in connections
    /\ connections' = connections \ {c}
    /\ UNCHANGED <<reader, pinger, broadcast, peers, writes, totals, pings,
                   broadcasts>>

CloseConnection(c) ==
    /\ c \in connections
    /\ socket' = [socket EXCEPT ![c] = "closed"]
    /\ connections' = connections \ {c}
    /\ UNCHANGED <<reader, pinger, broadcast, deadline, silent, writes, totals,
                   pings, broadcasts>>

PeerCloses(c) ==
    /\ socket[c] = "open"
    /\ socket' = [socket EXCEPT ![c] = "closed"]
    /\ UNCHANGED <<connections, reader, pinger, broadcast, deadline, silent,
                   writes, totals, pings, broadcasts>>

PeerGoesSilent(c) ==
    /\ socket[c] = "open" /\ c \notin silent
    /\ silent' = silent \cup {c}
    /\ UNCHANGED <<connections, reader, pinger, broadcast, socket, deadline,
                   writes, totals, pings, broadcasts>>

-----------------------------------------------------------------------------
Next ==
    /\ process = "up"
    /\ \/ BroadcastMessage
       \/ \E c \in Conns :
            \/ Handle(c) \/ HandleConnection(c)
            \/ ReadMessage(c) \/ ProcessMessage(c) \/ Responded(c)
            \/ ReadClosed(c) \/ ReadTimesOut(c) \/ ReadTooLarge(c)
            \/ Forget(c) \/ Close(c)
            \/ Ping(c) \/ Pinged(c)
            \/ SendBroadcast(c) \/ BroadcastSent(c)
            \/ CloseConnection(c) \/ PeerCloses(c) \/ PeerGoesSilent(c)

Spec == Init /\ [][Next]_vars

Step(A) == process = "up" /\ A

\* Goroutines run, writes end by their deadline, and a read deadline passes
\* when a peer is silent.  Nothing is asked of the peers.
Fairness ==
    \A c \in Conns :
        /\ WF_vars(Step(HandleConnection(c)))
        /\ WF_vars(Step(ProcessMessage(c)))
        /\ WF_vars(Step(Responded(c)))
        /\ WF_vars(Step(ReadClosed(c)))
        /\ WF_vars(Step(c \in silent /\ ReadTimesOut(c)))
        /\ WF_vars(Step(Forget(c)))

FairSpec == Spec /\ Fairness

-----------------------------------------------------------------------------
(* Properties.                                                             *)

Readers == {"none", "started", "reading", "processing", "responding",
            "leaving", "closing", "done"}

TypeOK ==
    /\ connections \subseteq Conns
    /\ reader \in [Conns -> Readers]
    /\ pinger \in [Conns -> {"none", "waiting", "writing", "ended"}]
    /\ broadcast \in [Conns -> {"none", "starting", "writing"}]
    /\ socket \in [Conns -> {"none", "open", "closed"}]
    /\ deadline \subseteq Conns /\ silent \subseteq Conns
    /\ garbled \subseteq Conns
    /\ writing \in [Conns -> SUBSET Writers]
    /\ counts \in [Conns -> 0 .. messageCount]
    /\ messageCount \in 0 .. MaxMessages
    /\ process \in {"up", "crashed"}
    /\ pings \in 0 .. MaxPings /\ broadcasts \in 0 .. MaxBroadcasts

Served == {"started", "reading", "processing", "responding"}

\* The table holds the connections that are served, whoever closes them and
\* in whatever order: none whose goroutine has forgotten it, and every open
\* one, so that broadcasts reach it and CloseConnection finds it.
TableMatchesServed ==
    \A c \in Conns :
        /\ c \in connections => reader[c] \in Served \cup {"leaving"}
        /\ reader[c] \in Served /\ socket[c] = "open" => c \in connections

\* A connection that was closed, or whose peer is gone without a word, leaves
\* the table in the end (the read deadline, the deferred delete).
DeadIsForgotten ==
    \A c \in Conns :
        socket[c] = "closed" \/ c \in silent
            ~> c \notin connections \/ process = "crashed"

\* handler.go:236, "sendResponse sends a response back to the WebSocket
\* client": it arrives as it was sent, and the process survives.
ResponsesIntact == garbled = {} /\ process = "up"

=============================================================================
