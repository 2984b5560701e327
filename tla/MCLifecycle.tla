---------------------------- MODULE MCLifecycle ----------------------------
(* The lifecycle of the service with two requests and two signals.          *)
EXTENDS Lifecycle, TLC

CONSTANTS r1, r2

MCRequests == {r1, r2}

Symmetry == Permutations(MCRequests)

=============================================================================
