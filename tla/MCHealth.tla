------------------------------ MODULE MCHealth ------------------------------
(* The health endpoints over the forwarding path of one message.            *)
EXTENDS Health

MCRequests == {[via |-> "api", type |-> "json", body |-> "read",
                host |-> <<"a", ".", "b">>]}

=============================================================================
