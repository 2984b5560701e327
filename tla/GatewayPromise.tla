--------------------------- MODULE GatewayPromise ---------------------------
(***************************************************************************)
(* What the gateway promises about each message, with no handler, client   *)
(* or link in sight: a message is either refused and never published, or   *)
(* taken; only what was taken reaches the broker; the sender is answered   *)
(* once; and at QoS 0 the broker gets it at most once, and never after its *)
(* sender was told of a failure.                                           *)
(***************************************************************************)
EXTENDS Naturals

CONSTANT Msgs

VARIABLES
    atMostOnce, \* QoS 0; never changes
    answer,     \* "none", "accepted", "refused" or "failed"
    taken,      \* messages the gateway has undertaken to publish
    received    \* copies the broker has received

vars == <<atMostOnce, answer, taken, received>>

Init ==
    /\ atMostOnce \in BOOLEAN
    /\ answer = [m \in Msgs |-> "none"]
    /\ taken = {}
    /\ received = [m \in Msgs |-> 0]

Refuse(m) ==
    /\ answer[m] = "none"
    /\ m \notin taken
    /\ answer' = [answer EXCEPT ![m] = "refused"]
    /\ UNCHANGED <<taken, received>>

Take(m) ==
    /\ answer[m] = "none"
    /\ m \notin taken
    /\ taken' = taken \cup {m}
    /\ UNCHANGED <<answer, received>>

Receive(m) ==
    /\ m \in taken
    /\ atMostOnce => received[m] = 0 /\ answer[m] # "failed"
    /\ received' = [received EXCEPT ![m] = @ + 1]
    /\ UNCHANGED <<answer, taken>>

Accept(m) ==
    /\ answer[m] = "none"
    /\ m \in taken
    /\ answer' = [answer EXCEPT ![m] = "accepted"]
    /\ UNCHANGED <<taken, received>>

Fail(m) ==
    /\ answer[m] = "none"
    /\ m \in taken
    /\ atMostOnce => received[m] = 0
    /\ answer' = [answer EXCEPT ![m] = "failed"]
    /\ UNCHANGED <<taken, received>>

Next ==
    /\ \E m \in Msgs :
         Refuse(m) \/ Take(m) \/ Receive(m) \/ Accept(m) \/ Fail(m)
    /\ UNCHANGED atMostOnce

Spec == Init /\ [][Next]_vars

=============================================================================
