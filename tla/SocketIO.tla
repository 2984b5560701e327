------------------------------ MODULE SocketIO ------------------------------
(***************************************************************************)
(* The SocketIO transport: the requests that open a session, the library's *)
(* way of handing the session to the handler's callbacks, the table they   *)
(* keep, and Start and Stop.                                               *)
(*                                                                         *)
(* A session is opened by its request, put into the library's queue by a   *)
(* goroutine of its own and taken out by the library's Serve loop, which   *)
(* calls OnConnect and then, from the session's reader, the event          *)
(* callbacks and OnDisconnect.  Start does not run Serve: served says      *)
(* whether somebody does.  FALSE is the program as runServe starts it,     *)
(* TRUE the one the callbacks are written for.                             *)
(***************************************************************************)
EXTENDS Naturals, FiniteSetsExt

CONSTANTS
    Conns,          \* sessions that may be opened
    MaxEvents       \* bound on the events of each

ASSUME SocketIOAssumption == IsFiniteSet(Conns) /\ MaxEvents \in Nat

VARIABLES
    served,         \* somebody runs the library's Serve
    main,           \* "init", "running", inside Stop "closing" and
                    \* "dropped", "stopped"
    server,         \* h.server: "nil" or "set"
    locked,         \* Stop holds h.mutex, from one of its steps to the next
    session,        \* where a session or the request that opens it is
    left,           \* peers that have gone
    context,        \* sessions whose context holds their connection ID
    connections,    \* the table
    counts,         \* the MessageCount of its entries
    received,       \* events each session has handed to a callback
    messageCount,   \* the handler's
    process         \* "up", "crashed"

stopVars == <<served, main, server, locked>>
peerVars == <<left, received>>
tabVars  == <<context, connections, counts, messageCount>>
vars     == <<stopVars, session, peerVars, tabVars, process>>

Init ==
    /\ served \in BOOLEAN
    /\ main = "init" /\ server = "nil" /\ locked = FALSE
    /\ session = [c \in Conns |-> "none"]
    /\ left = {} /\ received = [c \in Conns |-> 0]
    /\ context = {} /\ connections = {}
    /\ counts = [c \in Conns |-> 0] /\ messageCount = 0
    /\ process = "up"

\* Nothing recovers a panic of these goroutines.
Panic == process' = "crashed" /\ UNCHANGED <<session, tabVars>>

At(c, s)   == process = "up" /\ session[c] = s
GoTo(c, s) == session' = [session EXCEPT ![c] = s]

-----------------------------------------------------------------------------
(* Start and Stop, called once each.                                       *)

Start ==
    /\ process = "up" /\ main = "init"
    /\ main' = "running" /\ server' = "set"
    /\ UNCHANGED <<served, locked, session, peerVars, tabVars, process>>

\* Mutant: Stop lets go of the server before it closes it.
StopClose_NilFirst ==
    /\ process = "up" /\ main = "running"
    /\ main' = "closing" /\ server' = "nil" /\ locked' = TRUE
    /\ UNCHANGED <<served, session, peerVars, tabVars, process>>

\* The server's Close: the queue is closed, and nothing else.  The loop that
\* says it closes the connections only logs them.
StopClose ==
    /\ process = "up" /\ main = "running"
    /\ main' = "closing" /\ locked' = TRUE
    /\ UNCHANGED <<served, server, session, peerVars, tabVars, process>>

\* h.server is set to nil; Handle reads it without the mutex and may see that
\* while Stop is still inside.
StopDrop ==
    /\ process = "up" /\ main = "closing"
    /\ main' = "dropped" /\ server' = "nil"
    /\ UNCHANGED <<served, locked, session, peerVars, tabVars, process>>

\* What is left is seen under the mutex only: the new table, isRunning and the
\* unlock.
StopClear ==
    /\ process = "up" /\ main = "dropped"
    /\ main' = "stopped" /\ locked' = FALSE
    /\ connections' = {}
    /\ UNCHANGED <<served, server, session, peerVars, context, counts,
                   messageCount, process>>

QueueClosed == main \in {"closing", "dropped", "stopped"}

-----------------------------------------------------------------------------
(* The request that opens a session.                                       *)

\* Handle's test of h.server; requests come when the service has started.
HandleCheck(c) ==
    /\ At(c, "none") /\ main # "init"
    /\ GoTo(c, IF server = "nil" THEN "refused" ELSE "checked")
    /\ UNCHANGED <<stopVars, peerVars, tabVars, process>>

\* Handle reads h.server once more.  A nil server panics, and the Recover
\* middleware answers 500.
HandleServe(c) ==
    /\ At(c, "checked")
    /\ GoTo(c, IF server = "nil" THEN "recovered" ELSE "opening")
    /\ UNCHANGED <<stopVars, peerVars, tabVars, process>>

\* The session's goroutine sends it to a queue of one, and panics when the
\* queue is closed, also while it waits.
Enqueue(c) ==
    /\ At(c, "opening")
    /\ IF QueueClosed THEN Panic
       ELSE /\ \A d \in Conns : session[d] # "queued"
            /\ GoTo(c, "queued")
            /\ UNCHANGED <<tabVars, process>>
    /\ UNCHANGED <<stopVars, peerVars>>

\* Serve takes a session, what a closed queue still holds included.
Accept(c) ==
    /\ At(c, "queued") /\ served
    /\ GoTo(c, "accepted")
    /\ UNCHANGED <<stopVars, peerVars, tabVars, process>>

-----------------------------------------------------------------------------
(* The callbacks.                                                          *)

\* Mutant: the ID is not put into the context.
OnConnect_NoContext(c) ==
    /\ At(c, "accepted") /\ ~locked
    /\ connections' = connections \cup {c}
    /\ GoTo(c, "open")
    /\ UNCHANGED <<stopVars, peerVars, context, counts, messageCount, process>>

\* Mutant: the mutex is not unlocked.
OnConnect_NoUnlock(c) ==
    /\ At(c, "accepted") /\ ~locked
    /\ locked' = TRUE
    /\ connections' = connections \cup {c}
    /\ context' = context \cup {c}
    /\ GoTo(c, "open")
    /\ UNCHANGED <<served, main, server, peerVars, counts, messageCount,
                   process>>

OnConnect(c) ==
    /\ At(c, "accepted") /\ ~locked
    /\ connections' = connections \cup {c}
    /\ context' = context \cup {c}
    /\ GoTo(c, "open")
    /\ UNCHANGED <<stopVars, peerVars, counts, messageCount, process>>

\* Mutant: the entry is left to a later clean-up.
OnDisconnect_KeepsEntry(c) ==
    /\ IF c \notin context THEN Panic
       ELSE /\ ~locked
            /\ GoTo(c, "closed")
            /\ UNCHANGED <<tabVars, process>>
    /\ UNCHANGED <<stopVars, peerVars>>

\* The ID is asserted to be in the context.
OnDisconnect(c) ==
    /\ IF c \notin context THEN Panic
       ELSE /\ ~locked
            /\ connections' = connections \ {c}
            /\ GoTo(c, "closed")
            /\ UNCHANGED <<context, counts, messageCount, process>>
    /\ UNCHANGED <<stopVars, peerVars>>

\* The library's first packet does not reach the peer: it closes the session,
\* which OnConnect has not seen.
ConnectFails(c) == At(c, "accepted") /\ c \in left /\ OnDisconnect(c)

\* Mutant: events of sessions that are not in the table are not counted.
OnEvent_CountsKnown(c) ==
    /\ At(c, "open") /\ received[c] < MaxEvents
    /\ received' = [received EXCEPT ![c] = @ + 1]
    /\ IF c \notin context THEN Panic
       ELSE /\ ~locked
            /\ IF c \in connections
               THEN /\ counts' = [counts EXCEPT ![c] = @ + 1]
                    /\ messageCount' = messageCount + 1
               ELSE UNCHANGED <<counts, messageCount>>
            /\ GoTo(c, "processing")
            /\ UNCHANGED <<context, connections, process>>
    /\ UNCHANGED <<stopVars, left>>

\* device_data and message do the same to the handler's state.
OnEvent(c) ==
    /\ At(c, "open") /\ received[c] < MaxEvents
    /\ received' = [received EXCEPT ![c] = @ + 1]
    /\ IF c \notin context THEN Panic
       ELSE /\ ~locked
            /\ counts' = IF c \in connections THEN [counts EXCEPT ![c] = @ + 1]
                         ELSE counts
            /\ messageCount' = messageCount + 1
            /\ GoTo(c, "processing")
            /\ UNCHANGED <<context, connections, process>>
    /\ UNCHANGED <<stopVars, left>>

\* Mutant: the message is counted again when it is processed.
ProcessMessage_CountsAgain(c) ==
    /\ At(c, "processing") /\ ~locked
    /\ counts' = [counts EXCEPT ![c] = @ + 1]
    /\ GoTo(c, "open")
    /\ UNCHANGED <<stopVars, peerVars, context, connections, messageCount,
                   process>>

\* The metadata is read from the table, the device service answers, and the
\* response is emitted; what the answer is, is Forwarding's subject.
ProcessMessage(c) ==
    /\ At(c, "processing") /\ ~locked
    /\ GoTo(c, "open")
    /\ UNCHANGED <<stopVars, peerVars, tabVars, process>>

\* The reader notices that its peer has gone.
ReadFails(c) == At(c, "open") /\ c \in left /\ OnDisconnect(c)

\* The peer closes the session, or is silent until its ping times out.
PeerLeaves(c) ==
    /\ process = "up"
    /\ session[c] \notin {"none", "refused", "recovered", "closed"}
    /\ c \notin left
    /\ left' = left \cup {c}
    /\ UNCHANGED <<stopVars, session, received, tabVars, process>>

-----------------------------------------------------------------------------
Next ==
    \/ Start \/ StopClose \/ StopDrop \/ StopClear
    \/ \E c \in Conns :
         \/ HandleCheck(c) \/ HandleServe(c) \/ Enqueue(c) \/ Accept(c)
         \/ OnConnect(c) \/ ConnectFails(c) \/ OnEvent(c)
         \/ ProcessMessage(c) \/ ReadFails(c) \/ PeerLeaves(c)

\* Stop's steps follow each other, and the library's goroutines run.
Fairness ==
    /\ WF_vars(StopDrop) /\ WF_vars(StopClear)
    /\ \A c \in Conns :
         /\ WF_vars(Enqueue(c) \/ Accept(c))
         /\ WF_vars(OnConnect(c) \/ ConnectFails(c))
         /\ WF_vars(ProcessMessage(c))
         /\ WF_vars(ReadFails(c))

Spec     == Init /\ [][Next]_vars
FairSpec == Spec /\ Fairness

-----------------------------------------------------------------------------
(* Properties.                                                             *)

Sessions == {"none", "checked", "refused", "recovered", "opening", "queued",
             "accepted", "open", "processing", "closed"}

TypeOK ==
    /\ served \in BOOLEAN /\ locked \in BOOLEAN
    /\ main \in {"init", "running", "closing", "dropped", "stopped"}
    /\ server \in {"nil", "set"}
    /\ session \in [Conns -> Sessions]
    /\ left \subseteq Conns /\ context \subseteq Conns
    /\ connections \subseteq Conns
    /\ counts \in [Conns -> 0 .. MaxEvents]
    /\ received \in [Conns -> 0 .. MaxEvents]
    /\ messageCount \in Nat
    /\ process \in {"up", "crashed"}

Connected == {c \in Conns : session[c] \in {"open", "processing"}}

\* The table holds the connected sessions.  Stop empties it and closes none of
\* them; what is in it afterwards connected during the shutdown, and leaves it
\* like any other (OnConnect, OnDisconnect, Stop's new table).
TableMatchesConnected ==
    /\ connections \subseteq Connected
    /\ main # "stopped" => connections = Connected

\* The handler's total is the number of all events, those of sessions that
\* Stop has dropped from the table included, and an entry's count is that of
\* its own session (the two callbacks count before they process).
CountsAgree ==
    /\ messageCount = MapThenSumSet(LAMBDA c : received[c], Conns)
    /\ \A c \in connections : counts[c] = received[c]

\* A session that OnConnect has seen never brings the process down, however
\* its events and its end meet Stop.  A session that has not been connected
\* can: its goroutine sends to the queue that Stop closes, or it ends before
\* the context holds the ID that OnDisconnect asserts.
ConnectedNeverKills ==
    process = "crashed" =>
        \E c \in Conns :
            \/ session[c] = "opening" /\ QueueClosed
            \/ session[c] = "accepted" /\ c \in left

\* A request is refused, or fails between Handle's two reads of h.server, only
\* when Stop has closed the library's server: until Close has returned each
\* request still gets one.  Stop itself may not be through by then.
FailsOnlyOnceClosed ==
    \A c \in Conns :
        session[c] \in {"refused", "recovered"} => main \in {"dropped", "stopped"}

\* A peer that has gone leaves the table, whenever it goes and whatever Stop
\* does meanwhile.
GoneLeaveTable ==
    \A c \in Conns :
        c \in left /\ c \in connections
            ~> c \notin connections \/ process = "crashed"

=============================================================================
