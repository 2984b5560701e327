----------------------------- MODULE MCSocketIO -----------------------------
(* Three sessions: one connected, one in the queue, one that waits for it.  *)
EXTENDS SocketIO, TLC

CONSTANTS c1, c2, c3

MCConns == {c1, c2, c3}

=============================================================================
