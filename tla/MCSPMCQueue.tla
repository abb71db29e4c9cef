----------------------------- MODULE MCSPMCQueue -----------------------------
(* Model checking of SPMCQueue: small segments, so that the queue extends. *)
EXTENDS SPMCQueue, TLC

Symmetry == Permutations(Consumers)

=============================================================================
