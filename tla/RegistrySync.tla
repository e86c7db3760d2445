---------------------------- MODULE RegistrySync ----------------------------
(***************************************************************************)
(* Several machines keep one account in sync through the registry:         *)
(* runAutoSyncOnce (src/src/commands/autosync.ts) as an interleaving of    *)
(* passes, with refreshAuthForAccount (src/src/account-store/service.ts),  *)
(* the unleased sweep of the daemon (src/src/auth-refresh.ts) and a login  *)
(* by hand, over the atomic registry of RegistryApi and an OAuth provider  *)
(* whose refresh tokens work once.                                         *)
(*                                                                         *)
(* A token is the number of the response that issued it: a later response  *)
(* has a later expiry, so the number is also the expiry the registry and   *)
(* isNewerExpiry compare.  Every request and every file access of a pass   *)
(* is a step; a file pair written by one store call is one step here.      *)
(***************************************************************************)
EXTENDS RegistryApi, FiniteSets

CONSTANTS Passes,      \* autosync passes and sweeps that may run concurrently
          Sweepers,    \* the passes that are runAuthRefreshSweep: no registry
          MachineOf,   \* the machine (client_id, account store) of a pass
          MaxDays,     \* bound: 24 h intervals that pass
          MaxEvents    \* bound: logins by hand, requests or answers the network
                       \* loses, leases whose term ends during the refresh,
                       \* processes killed

ASSUME RegistrySyncAssumption ==
  /\ MachineOf \in [Passes -> Clients] /\ Sweepers \subseteq Passes
  /\ {MaxDays, MaxEvents} \subseteq Nat /\ MaxExp > 0

\* Somebody has imported the account.
ASSUME SomeMachine == Clients # {}

VARIABLES token,   \* the token in each machine's saved auth.json
          last,    \* last_auth_refresh_at and _status in its meta.json
          issued,  \* responses of the OAuth provider so far
          live,    \* refresh tokens not consumed yet
          pass,    \* the local variables of each pass, see TypeOK
          route,   \* does the registry know /lease (else 404: unguarded)
          budget,  \* what is left of MaxDays and MaxEvents
          relogin, \* history: somebody logged in by hand
          doomed,  \* history: a response of the provider got lost
          cut      \* history: the term of a lease ended while it was used

localVars == <<token, last>>
oauthVars == <<issued, live, relogin, doomed>>
envVars == <<route, budget, cut>>
vars == <<apiVars, localVars, oauthVars, pass, envVars>>

\* last_auth_refresh_at is null; within 24 h; older or token near its expiry;
\* within the backoff after a failed refresh.
Lasts == {"never", "recent", "stale", "error"}
\* inspectManagedAccountAuthRefreshNeed
Due(l) == l \in {"never", "stale"}

Idle == [at |-> "idle", seen |-> "recent", listed |-> 0, mem |-> 0, lid |-> 0]
\* What a pass still needs of its local variables: nothing when it has ended,
\* the lease when it is about to release it.
Needed(l) == CASE l.at = "idle" -> Idle
               [] l.at = "release" -> [Idle EXCEPT !.at = "release", !.lid = l.lid]
               [] OTHER -> l

At(p, label) == pass[p].at = label
Become(p, locals) == pass' = [pass EXCEPT ![p] = Needed(locals)]
Goto(p, to) == Become(p, [pass[p] EXCEPT !.at = to])
Saved(p) == token[MachineOf[p]]
SetToken(p, t) == token' = [token EXCEPT ![MachineOf[p]] = t]
SetLast(p, l) == last' = [last EXCEPT ![MachineOf[p]] = l]
Spend(b) == budget[b] > 0 /\ budget' = [budget EXCEPT ![b] = @ - 1]

-----------------------------------------------------------------------------

\* Every machine has imported the account and refreshed it today at the latest;
\* the registry is empty or holds the same token.
Init ==
  /\ entry \in {Absent, [exp |-> 1, version |-> 1]}
  /\ lease = NoLease /\ lastLease = 0
  /\ token = [m \in Clients |-> 1]
  /\ last = [m \in Clients |-> "recent"]
  /\ issued = 1 /\ live = {1}
  /\ pass = [p \in Passes |-> Idle]
  /\ budget = [day |-> MaxDays, event |-> MaxEvents]
  /\ relogin = FALSE /\ doomed = FALSE /\ cut = FALSE
  /\ route \in BOOLEAN

\* listAccounts: meta.json is read here and not again in this pass.
Begin(p) ==
  /\ At(p, "idle") /\ p \notin Sweepers
  /\ Become(p, [Idle EXCEPT !.at = "list", !.seen = last[MachineOf[p]]])
  /\ UNCHANGED <<apiVars, localVars, oauthVars, envVars>>

\* The sweep of a daemon refreshes what is due without a lease.
Sweep(p) ==
  /\ At(p, "idle") /\ p \in Sweepers
  /\ Due(last[MachineOf[p]])
  /\ Goto(p, "read")
  /\ UNCHANGED <<apiVars, localVars, oauthVars, envVars>>

\* listRemoteAccounts: the only look at the registry's expiry in this pass.
List(p) ==
  /\ At(p, "list")
  /\ Become(p, [pass[p] EXCEPT !.at = "compare", !.listed = entry.exp])
  /\ UNCHANGED <<apiVars, localVars, oauthVars, envVars>>

\* Mutant of Compare: a different copy is adopted, not only a newer one.
CompareDifferent(p) ==
  /\ At(p, "compare")
  /\ Goto(p, IF pass[p].listed \notin {0, Saved(p)} THEN "download" ELSE "decide")
  /\ UNCHANGED <<apiVars, localVars, oauthVars, envVars>>

\* Mutant of Compare: the registry's copy is never adopted.
CompareNever(p) ==
  /\ At(p, "compare")
  /\ Goto(p, "decide")
  /\ UNCHANGED <<apiVars, localVars, oauthVars, envVars>>

\* First loop: the registry's copy is adopted when it is listed as newer.
Compare(p) ==
  /\ At(p, "compare")
  /\ Goto(p, IF pass[p].listed > Saved(p) THEN "download" ELSE "decide")
  /\ UNCHANGED <<apiVars, localVars, oauthVars, envVars>>

\* downloadBundle: what the registry holds by now.
Download(p) ==
  /\ At(p, "download")
  /\ Become(p, [pass[p] EXCEPT !.at = "adopt", !.mem = entry.exp])
  /\ UNCHANGED <<apiVars, localVars, oauthVars, envVars>>

\* addAccountSnapshot with force: whatever is saved by now is replaced, and the
\* meta is a new one, which has never been refreshed.
Adopt(p) ==
  /\ At(p, "adopt")
  /\ SetToken(p, pass[p].mem)
  /\ SetLast(p, "never")
  /\ Goto(p, "idle")
  /\ UNCHANGED <<apiVars, oauthVars, envVars>>

\* Second loop, not due: push what is newer here or unknown there.
Decide(p) ==
  /\ At(p, "decide") /\ ~Due(pass[p].seen)
  /\ LET push == pass[p].listed = 0 \/ Saved(p) > pass[p].listed
     IN Goto(p, IF push THEN "export" ELSE "idle")
  /\ UNCHANGED <<apiVars, localVars, oauthVars, envVars>>

Acquiring(p) == At(p, "decide") /\ Due(pass[p].seen)

\* Due: acquireRefreshLease is granted, denied ("skipped"), or has no such route.
AcquireLease(p) ==
  /\ Acquiring(p)
  /\ \/ /\ route /\ Acquire(MachineOf[p])
        /\ Become(p, [pass[p] EXCEPT !.at = "read", !.listed = 0, !.lid = lease'.id])
     \/ /\ route /\ ~Grantable(MachineOf[p])
        /\ Goto(p, "idle") /\ UNCHANGED apiVars
     \/ /\ ~route
        /\ Become(p, [pass[p] EXCEPT !.at = "read", !.listed = 0])
        /\ UNCHANGED apiVars
  /\ UNCHANGED <<localVars, oauthVars, envVars>>

\* refreshAuthForAccount reads the saved auth.json.
ReadToken(p) ==
  /\ At(p, "read")
  /\ Become(p, [pass[p] EXCEPT !.at = "rotate", !.mem = Saved(p)])
  /\ UNCHANGED <<apiVars, localVars, oauthVars, envVars>>

AfterRefresh(p) == IF p \in Sweepers THEN "idle" ELSE "release"

\* The provider consumes a live refresh token and issues the next one.
Rotates(t) ==
  /\ t \in live /\ issued < MaxExp
  /\ issued' = issued + 1
  /\ live' = (live \ {t}) \cup {issued'}

\* refreshChatGPTAuthTokens succeeds.
Rotate(p) ==
  /\ At(p, "rotate")
  /\ Rotates(pass[p].mem)
  /\ Become(p, [pass[p] EXCEPT !.at = "store", !.mem = issued'])
  /\ UNCHANGED <<apiVars, localVars, relogin, doomed, envVars>>

\* Mutant of RotateFails: the token is dropped from the snapshot that failed.
RotateFailsAndClears(p) ==
  /\ At(p, "rotate")
  /\ pass[p].mem \notin live \/ issued = MaxExp
  /\ SetToken(p, 0)
  /\ SetLast(p, "error")
  /\ Goto(p, AfterRefresh(p))
  /\ UNCHANGED <<apiVars, issued, live, relogin, doomed, envVars>>

\* It fails: the token was consumed before, or the provider is out of service
\* (its answers are bounded).  The error goes to the meta.
RotateFails(p) ==
  /\ At(p, "rotate")
  /\ pass[p].mem \notin live \/ issued = MaxExp
  /\ SetLast(p, "error")
  /\ Goto(p, AfterRefresh(p))
  /\ UNCHANGED <<apiVars, token, issued, live, relogin, doomed, envVars>>

\* writeAccountAuthSnapshot, and the meta says refreshed.
Store(p) ==
  /\ At(p, "store")
  /\ SetToken(p, pass[p].mem)
  /\ SetLast(p, "recent")
  /\ Goto(p, IF p \in Sweepers THEN "idle" ELSE "export")
  /\ UNCHANGED <<apiVars, oauthVars, envVars>>

\* exportAccountBundle reads the saved auth.json (again).
Export(p) ==
  /\ At(p, "export")
  /\ Become(p, [pass[p] EXCEPT !.at = "upload", !.mem = Saved(p)])
  /\ UNCHANGED <<apiVars, localVars, oauthVars, envVars>>

\* A refresh is followed by releaseRefreshLease, a push is not.
AfterUpload(p) == IF Due(pass[p].seen) THEN "release" ELSE "idle"

\* uploadBundle, with the lease of a refresh; 409 is "failed" or "skipped".
Upload(p) ==
  /\ At(p, "upload")
  /\ \/ PutAccepted(pass[p].mem, pass[p].lid, FALSE)
     \/ PutRejected(pass[p].mem, pass[p].lid, FALSE) /\ UNCHANGED apiVars
  /\ Goto(p, AfterUpload(p))
  /\ UNCHANGED <<localVars, oauthVars, envVars>>

\* The finally block of refreshUnderLease.
Release(p) ==
  /\ At(p, "release")
  /\ ReleaseLease(MachineOf[p])
  /\ Goto(p, "idle")
  /\ UNCHANGED <<localVars, oauthVars, envVars>>

Step(p) ==
  \/ Begin(p) \/ List(p) \/ Compare(p) \/ Download(p) \/ Adopt(p) \/ Decide(p)
  \/ AcquireLease(p) \/ Sweep(p) \/ ReadToken(p) \/ Rotate(p) \/ RotateFails(p)
  \/ Store(p) \/ Export(p) \/ Upload(p) \/ Release(p)

\* The network drops a request: the other side saw nothing.  An adoption that
\* failed leaves the account to the second loop; otherwise the pass has failed.
RequestLost(p) ==
  /\ Spend("event")
  /\ \/ /\ pass[p].at \in {"list", "release"} \/ Acquiring(p)
        /\ Goto(p, "idle") /\ UNCHANGED last
     \/ At(p, "download") /\ Goto(p, "decide") /\ UNCHANGED last
     \/ At(p, "upload") /\ Goto(p, AfterUpload(p)) /\ UNCHANGED last
     \/ At(p, "rotate") /\ Goto(p, AfterRefresh(p))
        /\ SetLast(p, "error")
  /\ UNCHANGED <<apiVars, token, oauthVars, route, cut>>

\* The network drops the answer to a lease request: the lease is taken, the
\* pass has failed.
GrantLost(p) ==
  /\ Spend("event")
  /\ Acquiring(p) /\ route
  /\ Acquire(MachineOf[p])
  /\ Goto(p, "idle")
  /\ UNCHANGED <<localVars, oauthVars, route, cut>>

\* The network drops the provider's answer: the token is consumed, its
\* successor unknown.
RotationLost(p) ==
  /\ Spend("event")
  /\ At(p, "rotate")
  /\ Rotates(pass[p].mem)
  /\ doomed' = TRUE
  /\ SetLast(p, "error")
  /\ Goto(p, AfterRefresh(p))
  /\ UNCHANGED <<apiVars, token, relogin, route, cut>>

\* The process is killed; what it had in memory is gone.
Crash(p) ==
  /\ Spend("event")
  /\ ~At(p, "idle")
  /\ doomed' = (doomed \/ At(p, "store"))
  /\ Goto(p, "idle")
  /\ UNCHANGED <<apiVars, localVars, issued, live, relogin, route, cut>>

\* `codexm replace` or an import on machine m: a new login, independent of the
\* tokens in use.
Login(m) ==
  /\ Spend("event")
  /\ issued < MaxExp
  /\ issued' = issued + 1
  /\ live' = live \cup {issued'}
  /\ token' = [token EXCEPT ![m] = issued']
  /\ last' = [last EXCEPT ![m] = "never"]
  /\ relogin' = TRUE
  /\ UNCHANGED <<apiVars, doomed, pass, route, cut>>

\* 24 hours pass: what was refreshed before them, or is backing off, is due.
NextDay ==
  /\ Spend("day")
  /\ last' = [m \in Clients |-> IF last[m] \in {"recent", "error"} THEN "stale" ELSE last[m]]
  /\ UNCHANGED <<apiVars, token, issued, live, relogin, doomed, pass, route, cut>>

\* From the grant to the end of the provider's round trip.
Leased(p) == p \notin Sweepers /\ pass[p].at \in {"read", "rotate", "store"}

\* The term of the lease ends: after its use, or in the middle of it.
LeaseEnds ==
  /\ ExpireLease
  /\ \/ (\A p \in Passes : pass[p].lid # lease.id) /\ UNCHANGED <<budget, cut>>
     \/ (\E p \in Passes : pass[p].lid = lease.id) /\ Spend("event") /\ cut' = TRUE
  /\ UNCHANGED <<localVars, oauthVars, pass, route>>

Next ==
  \/ \E p \in Passes : Step(p) \/ RequestLost(p) \/ GrantLost(p) \/ RotationLost(p) \/ Crash(p)
  \/ \E m \in Clients : Login(m)
  \/ NextDay
  \/ LeaseEnds

Spec == Init /\ [][Next]_vars

\* runAutoSyncLoop starts a pass every five to six minutes and every request
\* returns or fails; an abandoned lease expires on its own.
FairSpec == Spec /\ (\A p \in Passes : WF_vars(Step(p))) /\ WF_vars(LeaseEnds)

-----------------------------------------------------------------------------
(* Properties *)

TypeOK ==
  /\ entry \in [exp : 0..MaxExp, version : Nat]
  /\ lease \in [client : Clients \cup {NoClient}, id : 0..MaxLeases]
  /\ lastLease \in 0..MaxLeases
  /\ token \in [Clients -> Exps] /\ last \in [Clients -> Lasts]
  /\ issued \in Exps /\ live \subseteq 1..issued
  /\ pass \in [Passes ->
       [at : {"idle", "list", "compare", "download", "adopt", "decide", "read",
              "rotate", "store", "export", "upload", "release"},
        seen : Lasts,          \* last as listAccounts read it
        listed : 0..MaxExp,    \* expiry in the listing; 0: not listed
        mem : 0..MaxExp,       \* token in memory
        lid : 0..MaxLeases]]   \* lease id; 0: none
  /\ budget \in [{"day", "event"} -> Nat]

\* While no lease runs out during the refresh it covers, two machines are never
\* both between the grant and the provider's answer, with crashed holders, lost
\* grants and lost releases.  With two passes of one machine, which share its
\* client id, it fails (README, section 6).
LeaseExcludes ==
  route /\ ~cut =>
    \A p, q \in Passes : Leased(p) /\ Leased(q) => MachineOf[p] = MachineOf[q]

\* Until somebody logs in by hand, the tokens form one chain, and the registry's
\* entry never gets older: not by a leased upload either, which the server does
\* not compare with what it has.
NeverRewound == [][~relogin => entry'.exp >= entry.exp]_vars

\* No token is lost in the synchronisation: unless the provider's answer itself
\* got lost, the newest token of the chain is saved somewhere or about to be.
NewestHeld ==
  \/ doomed \/ relogin \/ entry.exp = issued
  \/ \E m \in Clients : token[m] = issued
  \/ \E p \in Passes : At(p, "store") /\ pass[p].mem = issued

\* A token that was refreshed on one machine, or a later one, reaches every machine:
\* lost uploads are pushed again and older copies are replaced.  The machines need not
\* settle: who adopts it looks never refreshed and refreshes it again.
Propagates ==
  \A t \in Exps \ {1} :
    (\E m \in Clients : token[m] = t) ~> (relogin \/ \A k \in Clients : token[k] >= t)

\* Two machines never rotate the same refresh token: nobody who holds the lease is
\* about to present one that a rotation has consumed.
NoReuse ==
  \A p \in Passes :
    At(p, "rotate") /\ pass[p].lid # 0 /\ pass[p].lid = lease.id => pass[p].mem \in live

\* The passes and the tokens are what the code can have made of them, and the newest
\* token is never lost (refreshAuthForAccount, uploadBundle).
TokensInv == TypeOK /\ NewestHeld
=============================================================================
