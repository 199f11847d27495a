-------------------------- MODULE MCDiscoveryQueue --------------------------
(* The queue on a small instance: more keys than slots, more callers than  *)
(* keys are not needed, a caller may come back while its key is settling.  *)
EXTENDS DiscoveryQueue, TLC

QueueSymmetry == Permutations(Keys) \cup Permutations(Callers)
=============================================================================
