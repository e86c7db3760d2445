-------------------------- MODULE MCRegistryServer --------------------------
(* TLC instances of RegistryServer. *)
EXTENDS RegistryServer, TLC

ThreadClientSymmetry == Permutations(Threads) \cup Permutations(Clients)
=============================================================================
