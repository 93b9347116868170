---------------------------- MODULE MCClientPool ----------------------------
(* ClientPool for TLC: the goroutines are interchangeable. *)
EXTENDS ClientPool, TLC

Symmetry == Permutations(Streams)

\* IdleIsReclaimed promises nothing once the client is closing, so the liveness
\* run stops exploring there.
ClientOpen == ~clientDie

=============================================================================
