----------------------------- MODULE MCProxyMode -----------------------------
(* TLC instances of ProxyMode. *)
EXTENDS ProxyMode

CONSTANTS c1, c2, t1

\* Commands of three processes, one after the other outside the lock, or one
\* process against the daemon and its server.
OrderlyOrOverlapping ==
  {[procs |-> {c1, c2, t1}, commands |-> 4, selections |-> 1, overlap |-> FALSE],
   [procs |-> {c1}, commands |-> 2, selections |-> 0, overlap |-> TRUE]}
=============================================================================
