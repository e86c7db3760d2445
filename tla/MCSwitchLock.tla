---------------------------- MODULE MCSwitchLock ----------------------------
(* TLC instances of SwitchLock. *)
EXTENDS SwitchLock, TLC

ProcSymmetry == Permutations(Procs)
=============================================================================
