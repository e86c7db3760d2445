----------------------------- MODULE RegistryApi -----------------------------
(***************************************************************************)
(* What the account registry (src/server-python/server.py) promises to its *)
(* clients about one account name: every request is one atomic step on the *)
(* indexed entry and on the refresh lease.  Requests for different names   *)
(* touch different files, index keys and lease keys, so one name suffices. *)
(* A token is represented by the rank of its expiry (exp_rank).            *)
(***************************************************************************)
EXTENDS Integers

CONSTANTS Clients,    \* client_id values
          NoClient,   \* nobody holds the lease
          MaxExp,     \* bound: expiry ranks are 1 .. MaxExp
          MaxLeases,  \* bound: lease ids handed out
          Forced      \* do the clients send X-Registry-Force: {FALSE} or BOOLEAN

ASSUME RegistryApiAssumption ==
  /\ NoClient \notin Clients
  /\ MaxExp \in Nat /\ MaxLeases \in Nat
  /\ FALSE \in Forced /\ Forced \subseteq BOOLEAN

VARIABLES entry,     \* the index entry: expiry and version; version 0: absent
          lease,     \* the live lease: client and id; id 0: none
          lastLease  \* the id handed out last (a uuid: never reused)

apiVars == <<entry, lease, lastLease>>

Absent == [exp |-> 0, version |-> 0]
NoLease == [client |-> NoClient, id |-> 0]
Exps == 1..MaxExp

-----------------------------------------------------------------------------

ApiInit == entry = Absent /\ lease = NoLease /\ lastLease = 0

\* The lease an upload presents is the live one.
LeaseOk(id) == id # 0 /\ lease.id = id

\* Mutant of PutRejected: the expiry of the stored token is not compared.
PutRejectedByLeaseOnly(exp, id, forced) == id # 0 /\ ~LeaseOk(id)

\* put_account answers 409: a lease id that is not live, or a token older than
\* the stored one without lease and without X-Registry-Force.
PutRejected(exp, id, forced) ==
  \/ id # 0 /\ ~LeaseOk(id)
  \/ entry.version > 0 /\ ~forced /\ ~LeaseOk(id) /\ exp < entry.exp

\* put_account stores the bundle; a leased upload releases the lease, in the next
\* step or, when the server dies before that, not at all.
PutAccepted(exp, id, forced) ==
  /\ ~PutRejected(exp, id, forced)
  /\ entry' = [exp |-> exp, version |-> entry.version + 1]
  /\ lease' \in {lease} \cup (IF LeaseOk(id) THEN {NoLease} ELSE {})
  /\ UNCHANGED lastLease

\* Mutant of Grantable: a live lease of another client is taken over.
GrantableAnyway(c) == TRUE

\* lease_account grants: there is no live lease, or it is the client's own,
\* which keeps its id and starts a new term.
Grantable(c) == lease.id = 0 \/ lease.client = c

Acquire(c) ==
  /\ Grantable(c)
  /\ lease.id = 0 => lastLease < MaxLeases
  /\ lastLease' = IF lease.id = 0 THEN lastLease + 1 ELSE lastLease
  /\ lease' = [client |-> c, id |-> IF lease.id = 0 THEN lastLease' ELSE lease.id]
  /\ UNCHANGED entry

\* action "release": only the holder's client_id is honoured.
ReleaseLease(c) ==
  /\ lease' = IF lease.client = c THEN NoLease ELSE lease
  /\ UNCHANGED <<entry, lastLease>>

\* The term of the live lease ends (prune_lease drops it wherever it is read).
ExpireLease ==
  /\ lease # NoLease
  /\ lease' = NoLease
  /\ UNCHANGED <<entry, lastLease>>

\* delete_account: the entry and, unless the server dies in between, its lease.
Delete ==
  /\ entry' = Absent
  /\ lease' \in {lease, NoLease}
  /\ UNCHANGED lastLease

ApiNext ==
  \/ \E exp \in Exps, id \in 0..MaxLeases, forced \in Forced : PutAccepted(exp, id, forced)
  \/ \E c \in Clients : Acquire(c) \/ ReleaseLease(c)
  \/ ExpireLease
  \/ Delete

ApiSpec == ApiInit /\ [][ApiNext]_apiVars
=============================================================================
