---------------------------- MODULE MCForwarding ----------------------------
(* Two messages out of shapes that between them take every branch of the    *)
(* handlers, over a link that may fail twice.                               *)
EXTENDS Forwarding, TLC

CONSTANTS m1, m2

Shape(via, type, body, host) ==
    [via |-> via, type |-> type, body |-> body, host |-> host]

HostA  == <<"a", ".", "b">>               \* a.b
HostA2 == <<"a", "+", ".", "b", ":", "b">> \* a+.b:b
HostB  == <<"b", ".", "b">>
Bare   == <<"b", ":", "b">>

\* One shape that is forwarded per tenant.
MCAccepted == {Shape(Webhook, "json", "read", HostA),
               Shape("api", "json", "read", HostB)}

MCRequests == MCAccepted \cup
    {Shape(Webhook, "other", "read", HostA),
     Shape(Webhook, "json", "too_large", HostA),
     Shape("api", "json", "unreadable", HostB),
     Shape("api", "json", "malformed", HostB),
     Shape(Webhook, "json", "read", Bare),
     Shape("http", "text", "read", HostA2),
     Shape("http", "other", "read", HostA),
     Shape("websocket", "json", "read", HostA),
     Shape("socketio", "json", "read", HostA),
     Shape("socketio", "json", "malformed", HostA),
     Shape("mqtt-subscriber", "json", "read", HostA)}

MCMsgs == {m1, m2}

Symmetry == Permutations(MCMsgs)

=============================================================================
