--------------------------- MODULE MCRegistrySync ---------------------------
(* TLC instances of RegistrySync. *)
EXTENDS RegistrySync, TLC

CONSTANTS a, b,     \* machines
          pa, pb,   \* the autosync loop of each
          sweep     \* the daemon's refresh sweep on machine b

TwoMachines == (pa :> a) @@ (pb :> b)
DaemonToo == (pa :> a) @@ (pb :> b) @@ (sweep :> b)
=============================================================================
