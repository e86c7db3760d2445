--------------------------- MODULE MCAccountStore ---------------------------
(* TLC instances of AccountStore. *)
EXTENDS AccountStore, TLC

CONSTANTS p1, p2

\* One process that does everything, or two that do what tolerates it.
AloneOrTame ==
  {[procs |-> {p1}, ops |-> AllOps],
   [procs |-> {p1, p2}, ops |-> {"switch", "quota", "protect"}]}

StoreSymmetry == Permutations(Names) \cup Permutations(Ids)
=============================================================================
