---------------------------- MODULE MCWebSocket ----------------------------
(* Interchangeable connections.                                             *)
EXTENDS WebSocket, TLC

CONSTANTS c1, c2

MCConns  == {c1, c2}
Symmetry == Permutations(MCConns)

=============================================================================
