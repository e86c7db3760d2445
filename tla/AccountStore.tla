---------------------------- MODULE AccountStore ----------------------------
(***************************************************************************)
(* The store of saved accounts (src/src/account-store/service.ts and       *)
(* repository.ts): accounts/<name>/{auth.json, meta.json}, the current     *)
(* ~/.codex/auth.json, its backup and state.json, and the operations of    *)
(* AccountStore as interleaved sequences of file reads and writes by the   *)
(* CLI, the daemon, the TUI and the UI server.  A file is written          *)
(* atomically (temporary file and rename) and a missing directory is made  *)
(* on the way (atomicWriteFile); the store has no lock.  The switch lock   *)
(* is an abstract mutex here, see SwitchLock for what it is made of.       *)
(*                                                                         *)
(* A snapshot is an identity (account and user id) and a refresh token;    *)
(* meta.json is reduced to its name, identity and auto_switch_eligible.    *)
(* config.toml, quota numbers and time stamps are left out.                *)
(***************************************************************************)
EXTENDS Naturals, FiniteSets

CONSTANTS Procs,      \* processes that may use the store
          Names,      \* account names
          Ids,        \* identities
          NoName, NoId, NoProc,
          Loads,      \* workloads: which processes perform which operations
          MaxTokens,  \* bound: refresh tokens the OAuth provider issues
          MaxCrashes  \* bound: processes killed in the middle of an operation

AllOps == {"save", "add", "update", "switch", "refresh", "quota", "protect", "remove", "rename"}

ASSUME AccountStoreAssumption ==
  /\ NoName \notin Names /\ NoId \notin Ids /\ NoProc \notin Procs
  /\ Loads \subseteq [procs : SUBSET Procs, ops : SUBSET AllOps]
  /\ MaxTokens \in Nat \ {0} /\ MaxCrashes \in Nat

VARIABLES dirs,      \* the directories under accounts/
          auth,      \* accounts/<name>/auth.json
          meta,      \* accounts/<name>/meta.json
          current,   \* ~/.codex/auth.json
          backup,    \* backups/last-active-auth.json
          state,     \* state.json: last_switched_account
          issued, live,  \* refresh tokens issued, and not consumed yet
          switchLock,    \* holder of the switch lock
          pc, mem,   \* where each process is, and its local variables
          load,      \* the workload of this behaviour
          crashes,
          switched,  \* history: identity of the last switch that succeeded
          undone,    \* history: since the last switch wrote the current snapshot, a
                     \* refresh wrote its own over another identity
          dropped,   \* history: snapshots whose successor was dropped with an error
          crossed    \* history: a rotated token was on its way to the files next to
                     \* another one, or next to a switch, of the same identity

files == <<dirs, auth, meta, current, backup, state>>
oauth == <<issued, live>>
past == <<switched, undone, dropped, crossed>>
vars == <<files, oauth, switchLock, pc, mem, load, crashes, past>>

NoAuth == [id |-> NoId, tok |-> 0]
NoMeta == [name |-> NoName, id |-> NoId, eligible |-> FALSE]
NoMem == [op |-> "none", name |-> NoName, auth |-> NoAuth, meta |-> NoMeta]
Auths == [id : Ids, tok : 1..MaxTokens] \cup {NoAuth}
Metas == [name : Names, id : Ids, eligible : BOOLEAN] \cup {NoMeta}

\* createSnapshotMeta: a new meta is eligible for automatic switching.
NewMeta(n, snapshot) == [name |-> n, id |-> snapshot.id, eligible |-> TRUE]

\* readManagedAccount accepts the account: meta and snapshot are there and agree.
Valid(n) ==
  /\ n \in dirs /\ auth[n] # NoAuth /\ meta[n] # NoMeta
  /\ meta[n].name = n /\ meta[n].id = auth[n].id

-----------------------------------------------------------------------------
(* Steps shared by the operations *)

Goto(p, to) == pc' = [pc EXCEPT ![p] = to]

\* The operation of p ends, with success or with an error.
Finish(p) ==
  /\ Goto(p, "idle")
  /\ mem' = [mem EXCEPT ![p] = NoMem]
  /\ switchLock' = IF switchLock = p THEN NoProc ELSE switchLock

Begin(p, op, n, snapshot, m, to) ==
  /\ pc[p] = "idle" /\ p \in load.procs /\ op \in load.ops
  /\ mem' = [mem EXCEPT ![p] = [op |-> op, name |-> n, auth |-> snapshot, meta |-> m]]
  /\ Goto(p, to)

\* A new token of identity i from the provider.
Issue(i, consumed) ==
  /\ issued < MaxTokens
  /\ issued' = issued + 1
  /\ live' = (live \ consumed) \cup {[id |-> i, tok |-> issued']}

\* atomicWriteFile(accounts/<name>/auth.json)
WriteAuth(p) ==
  /\ pc[p] = "auth"
  /\ dirs' = dirs \cup {mem[p].name}
  /\ auth' = [auth EXCEPT ![mem[p].name] = mem[p].auth]
  /\ Goto(p, IF mem[p].op \in {"refresh", "quota"} THEN "sync" ELSE "meta")
  /\ UNCHANGED <<meta, current, backup, state, oauth, switchLock, mem, load, crashes, past>>

\* Mutant of WriteMeta: only the eligibility is written over the file's meta.
WriteMetaMerged(p) ==
  /\ pc[p] = "meta"
  /\ dirs' = dirs \cup {mem[p].name}
  /\ meta' = [meta EXCEPT ![mem[p].name].eligible = mem[p].meta.eligible]
  /\ IF mem[p].op = "switch" THEN Goto(p, "state") /\ UNCHANGED <<mem, switchLock>>
                             ELSE Finish(p)
  /\ UNCHANGED <<auth, current, backup, state, oauth, load, crashes, past>>

\* atomicWriteFile(accounts/<name>/meta.json)
WriteMeta(p) ==
  /\ pc[p] = "meta"
  /\ dirs' = dirs \cup {mem[p].name}
  /\ meta' = [meta EXCEPT ![mem[p].name] = mem[p].meta]
  /\ IF mem[p].op = "switch" THEN Goto(p, "state") /\ UNCHANGED <<mem, switchLock>>
                             ELSE Finish(p)
  /\ UNCHANGED <<auth, current, backup, state, oauth, load, crashes, past>>

-----------------------------------------------------------------------------
(* save, add and import *)

\* saveCurrentAccount: the current snapshot under the name n.
SaveBegin(p, n) ==
  /\ current # NoAuth
  /\ Begin(p, "save", n, current, NewMeta(n, current), "dup")
  /\ UNCHANGED <<files, oauth, switchLock, load, crashes, past>>

\* addAccountSnapshot (add, replace, import, autosync's adoption): the snapshot
\* of a new login of identity i.
AddBegin(p, n, i) ==
  /\ Issue(i, {})
  /\ LET new == [id |-> i, tok |-> issued']
     IN  Begin(p, "add", n, new, NewMeta(n, new), "dup")
  /\ UNCHANGED <<files, switchLock, load, crashes, past>>

\* Mutant of DupCheck: only the name is checked, not the identity.
DupCheckNameOnly(p, force) ==
  /\ pc[p] = "dup"
  /\ IF mem[p].name \in dirs /\ ~force
       THEN Finish(p)
       ELSE Goto(p, "auth") /\ UNCHANGED <<mem, switchLock>>
  /\ UNCHANGED <<files, oauth, load, crashes, past>>

\* An identity that another valid account holds is refused, and so is a name in
\* use without --force (force is the caller's choice).
DupCheck(p, force) ==
  /\ pc[p] = "dup"
  /\ IF \/ mem[p].name \in dirs /\ ~force
        \/ \E n \in Names \ {mem[p].name} : Valid(n) /\ auth[n].id = mem[p].auth.id
       THEN Finish(p)
       ELSE Goto(p, "auth") /\ UNCHANGED <<mem, switchLock>>
  /\ UNCHANGED <<files, oauth, load, crashes, past>>

-----------------------------------------------------------------------------
(* update *)

\* updateCurrentManagedAccount: the one account the current identity matches.
UpdateBegin(p, n) ==
  /\ current # NoAuth
  /\ {m \in Names : Valid(m) /\ auth[m].id = current.id} = {n}
  /\ Begin(p, "update", n, NoAuth, NoMeta, "reread")
  /\ UNCHANGED <<files, oauth, switchLock, load, crashes, past>>

\* The current snapshot is read again; the meta is built anew from it.
UpdateRead(p) ==
  /\ pc[p] = "reread"
  /\ IF meta[mem[p].name] = NoMeta
       THEN Finish(p)
       ELSE /\ mem' = [mem EXCEPT ![p].auth = current,
                                  ![p].meta = NewMeta(mem[p].name, current)]
            /\ Goto(p, "auth")
            /\ UNCHANGED switchLock
  /\ UNCHANGED <<files, oauth, load, crashes, past>>

-----------------------------------------------------------------------------
(* switch *)

\* Mutant of SwitchBegin: the switch lock is not waited for.
SwitchBeginUnlocked(p, n) ==
  /\ Valid(n)
  /\ switchLock' = p
  /\ Begin(p, "switch", n, auth[n], meta[n], "backup")
  /\ UNCHANGED <<files, oauth, load, crashes, past>>

\* The switch lock, then readManagedAccount.
SwitchBegin(p, n) ==
  /\ switchLock = NoProc
  /\ Valid(n)
  /\ switchLock' = p
  /\ Begin(p, "switch", n, auth[n], meta[n], "backup")
  /\ UNCHANGED <<files, oauth, load, crashes, past>>

SwitchBackup(p) ==
  /\ pc[p] = "backup"
  /\ backup' = IF current # NoAuth THEN current ELSE backup
  /\ Goto(p, "copy")
  /\ UNCHANGED <<dirs, auth, meta, current, state, oauth, switchLock, mem, load, crashes, past>>

\* p has a rotated token that is not in all its files yet.
Rotating(p) == mem[p].op \in {"refresh", "quota"} /\ pc[p] \in {"auth", "sync", "syncWrite"}
RotatingOther(p, i) == \E q \in Procs \ {p} : Rotating(q) /\ mem[q].auth.id = i
\* A switch has read the snapshot of identity i and not written it yet.
Copying(i) == \E q \in Procs : mem[q].op = "switch" /\ pc[q] = "current" /\ mem[q].auth.id = i

\* readJsonFile(account.authPath); a snapshot removed meanwhile is an error.
SwitchCopy(p) ==
  /\ pc[p] = "copy"
  /\ LET snapshot == auth[mem[p].name] IN
       /\ IF snapshot = NoAuth
            THEN Finish(p)
            ELSE /\ mem' = [mem EXCEPT ![p].auth = snapshot]
                 /\ Goto(p, "current")
                 /\ UNCHANGED switchLock
       /\ crossed' = (crossed \/ RotatingOther(p, snapshot.id))
  /\ UNCHANGED <<files, oauth, load, crashes, switched, undone, dropped>>

SwitchWrite(p) ==
  /\ pc[p] = "current"
  /\ current' = mem[p].auth
  /\ undone' = FALSE
  /\ Goto(p, "verify")
  /\ UNCHANGED <<dirs, auth, meta, backup, state, oauth, switchLock, mem, load, crashes,
                 switched, dropped, crossed>>

\* The written snapshot must have the identity the account was read with; then
\* the meta is read for last_switched_at.
SwitchVerify(p) ==
  /\ pc[p] = "verify"
  /\ IF current.id # mem[p].meta.id \/ meta[mem[p].name] = NoMeta
       THEN Finish(p)
       ELSE /\ mem' = [mem EXCEPT ![p].meta = meta[mem[p].name]]
            /\ Goto(p, "meta")
            /\ UNCHANGED switchLock
  /\ UNCHANGED <<files, oauth, load, crashes, past>>

SwitchState(p) ==
  /\ pc[p] = "state"
  /\ state' = mem[p].name
  /\ switched' = mem[p].auth.id
  /\ Finish(p)
  /\ UNCHANGED <<dirs, auth, meta, current, backup, oauth, load, crashes,
                 undone, dropped, crossed>>

-----------------------------------------------------------------------------
(* auth and quota refresh *)

\* refreshAuthForAccount, refreshQuotaForAccount: meta and snapshot are read
\* before the request goes out, and not again after it.
RefreshBegin(p, n, op) ==
  /\ op \in {"refresh", "quota"}
  /\ Valid(n)
  /\ Begin(p, op, n, auth[n], meta[n], "request")
  /\ UNCHANGED <<files, oauth, switchLock, load, crashes, past>>

\* The provider rotates the refresh token: an auth refresh, or a quota refresh
\* whose usage request was refused and is answered after the rotation.
RefreshRotate(p) ==
  /\ pc[p] = "request"
  /\ mem[p].auth \in live
  /\ Issue(mem[p].auth.id, {mem[p].auth})
  /\ mem' = [mem EXCEPT ![p].auth.tok = issued']
  /\ Goto(p, "auth")
  /\ LET i == mem[p].auth.id IN crossed' = (crossed \/ RotatingOther(p, i) \/ Copying(i))
  /\ UNCHANGED <<files, switchLock, load, crashes, switched, undone, dropped>>

\* The provider has rotated and the new token is dropped with an error, which goes to
\* the meta: its answer is lost, or the usage request after the rotation of a quota
\* refresh fails as well (fetchQuotaSnapshot).
RotationDropped(p) ==
  /\ pc[p] = "request"
  /\ mem[p].auth \in live
  /\ Issue(mem[p].auth.id, {mem[p].auth})
  /\ dropped' = dropped \cup {mem[p].auth}
  /\ Goto(p, "meta")
  /\ UNCHANGED <<files, switchLock, mem, load, crashes, switched, undone, crossed>>

\* No new token: the refresh failed, or the quota was fetched with the access
\* token that was there.  The outcome goes to the meta.
RefreshReply(p) ==
  /\ pc[p] = "request"
  /\ Goto(p, "meta")
  /\ UNCHANGED <<files, oauth, switchLock, mem, load, crashes, past>>

\* Mutant of SyncCompare: the current snapshot is never brought up to date.
SyncCompareNever(p) ==
  /\ pc[p] = "sync"
  /\ Goto(p, "meta")
  /\ UNCHANGED <<files, oauth, switchLock, mem, load, crashes, past>>

\* syncCurrentAuthIfMatching compares identities ...
SyncCompare(p) ==
  /\ pc[p] = "sync"
  /\ Goto(p, IF current.id = mem[p].auth.id THEN "syncWrite" ELSE "meta")
  /\ UNCHANGED <<files, oauth, switchLock, mem, load, crashes, past>>

\* ... and writes.
SyncWrite(p) ==
  /\ pc[p] = "syncWrite"
  /\ current' = mem[p].auth
  /\ undone' = (undone \/ current.id # mem[p].auth.id)
  /\ Goto(p, "meta")
  /\ UNCHANGED <<dirs, auth, meta, backup, state, oauth, switchLock, mem, load, crashes,
                 switched, dropped, crossed>>

-----------------------------------------------------------------------------
(* protect, remove, rename *)

\* setAutoSwitchEligibility reads the meta; WriteMeta follows.
ProtectBegin(p, n, eligible) ==
  /\ Valid(n)
  /\ Begin(p, "protect", n, NoAuth, [meta[n] EXCEPT !.eligible = eligible], "meta")
  /\ UNCHANGED <<files, oauth, switchLock, load, crashes, past>>

\* removeAccount: rm of the directory, one file after the other.
RemoveBegin(p, n) ==
  /\ n \in dirs
  /\ Begin(p, "remove", n, NoAuth, NoMeta, "unlink")
  /\ auth' = [auth EXCEPT ![n] = NoAuth]
  /\ UNCHANGED <<dirs, meta, current, backup, state, oauth, switchLock, load, crashes, past>>

\* The directory goes when it is empty; otherwise rm fails.
RemoveRest(p) ==
  /\ pc[p] = "unlink"
  /\ LET n == mem[p].name IN
       /\ meta' = [meta EXCEPT ![n] = NoMeta]
       /\ IF auth[n] = NoAuth
            THEN dirs' = dirs \ {n}
            ELSE UNCHANGED dirs
  /\ Finish(p)
  /\ UNCHANGED <<auth, current, backup, state, oauth, load, crashes, past>>

\* renameAccount: rename of the directory (refused if the new one exists) ...
RenameBegin(p, old, new) ==
  /\ old \in dirs /\ new \notin dirs
  /\ Begin(p, "rename", new, NoAuth, NoMeta, "remeta")
  /\ dirs' = (dirs \ {old}) \cup {new}
  /\ auth' = [auth EXCEPT ![new] = auth[old], ![old] = NoAuth]
  /\ meta' = [meta EXCEPT ![new] = meta[old], ![old] = NoMeta]
  /\ UNCHANGED <<current, backup, state, oauth, switchLock, load, crashes, past>>

\* Mutant of RenameRead: the name inside meta.json is left as it was.
RenameReadKeepsMeta(p) ==
  /\ pc[p] = "remeta"
  /\ Finish(p)
  /\ UNCHANGED <<files, oauth, load, crashes, past>>

\* ... then the name in its meta.json is read; WriteMeta writes the new one.
RenameRead(p) ==
  /\ pc[p] = "remeta"
  /\ IF meta[mem[p].name] = NoMeta
       THEN Finish(p)
       ELSE /\ mem' = [mem EXCEPT ![p].meta = [meta[mem[p].name] EXCEPT !.name = mem[p].name]]
            /\ Goto(p, "meta")
            /\ UNCHANGED switchLock
  /\ UNCHANGED <<files, oauth, load, crashes, past>>

-----------------------------------------------------------------------------

\* The process is killed; the kernel keeps what it has written.
Crash(p) ==
  /\ pc[p] # "idle" /\ crashes < MaxCrashes
  /\ crashes' = crashes + 1
  /\ Finish(p)
  /\ UNCHANGED <<files, oauth, load, past>>

\* Some accounts, of different identities, are saved; one of them is current.
Init ==
  /\ \E saved \in SUBSET Names, of \in [Names -> Ids] :
       /\ saved # {}
       /\ \A m, n \in saved : of[m] = of[n] => m = n
       /\ dirs = saved
       /\ auth = [n \in Names |-> IF n \in saved THEN [id |-> of[n], tok |-> 1] ELSE NoAuth]
       /\ meta = [n \in Names |-> IF n \in saved THEN NewMeta(n, auth[n]) ELSE NoMeta]
       /\ \E n \in saved : current = auth[n]
       /\ live = {auth[n] : n \in saved}
  /\ backup = NoAuth /\ state = NoName
  /\ issued = 1
  /\ switchLock = NoProc
  /\ pc = [p \in Procs |-> "idle"]
  /\ mem = [p \in Procs |-> NoMem]
  /\ load \in Loads
  /\ crashes = 0
  /\ switched = NoId /\ undone = FALSE /\ dropped = {} /\ crossed = FALSE

Start(p) ==
  \E n \in Names :
    \/ SaveBegin(p, n) \/ UpdateBegin(p, n) \/ SwitchBegin(p, n) \/ RemoveBegin(p, n)
    \/ \E i \in Ids : AddBegin(p, n, i)
    \/ \E op \in AllOps : RefreshBegin(p, n, op)
    \/ \E e \in BOOLEAN : ProtectBegin(p, n, e)
    \/ \E old \in Names : RenameBegin(p, old, n)

Continue(p) ==
  \/ WriteAuth(p) \/ WriteMeta(p)
  \/ \E force \in BOOLEAN : DupCheck(p, force)
  \/ UpdateRead(p)
  \/ SwitchBackup(p) \/ SwitchCopy(p) \/ SwitchWrite(p) \/ SwitchVerify(p) \/ SwitchState(p)
  \/ RefreshRotate(p) \/ RotationDropped(p) \/ RefreshReply(p) \/ SyncCompare(p) \/ SyncWrite(p)
  \/ RemoveRest(p) \/ RenameRead(p)

Next == \E p \in Procs : Start(p) \/ Continue(p) \/ Crash(p)

Spec == Init /\ [][Next]_vars

-----------------------------------------------------------------------------
(* Properties *)

TypeOK ==
  /\ dirs \subseteq Names
  /\ auth \in [Names -> Auths] /\ meta \in [Names -> Metas]
  /\ current \in Auths /\ backup \in Auths /\ state \in Names \cup {NoName}
  /\ issued \in 0..MaxTokens /\ live \subseteq Auths
  /\ switchLock \in Procs \cup {NoProc}
  /\ pc \in [Procs -> {"idle", "dup", "auth", "meta", "reread", "backup", "copy", "current",
                       "verify", "state", "request", "sync", "syncWrite", "unlink", "remeta"}]
  /\ mem \in [Procs -> [op : AllOps \cup {"none"}, name : Names \cup {NoName},
                        auth : Auths, meta : Metas]]
  /\ load \in Loads /\ crashes \in Nat
  /\ switched \in Ids \cup {NoId} /\ dropped \subseteq Auths
  /\ {undone, crossed} \subseteq BOOLEAN

Quiet == \A p \in Procs : pc[p] = "idle"

\* Operations that do not overlap, and switches, refreshes and protections that
\* do, leave every account readable: snapshot and meta agree (readManagedAccount),
\* in any order of saves over existing names, updates, renames, refreshes and
\* removals; every crash makes at most one unreadable.
CrashContained == Quiet => Cardinality({n \in dirs : ~Valid(n)}) <= crashes

\* One saved copy per identity: two accounts never refresh, and so invalidate,
\* one another's tokens.
UniqueIdentity ==
  crashes = 0 =>
    \A m, n \in Names : Valid(m) /\ Valid(n) /\ auth[m].id = auth[n].id => m = n

\* A saved snapshot was not consumed by a refresh, however refreshes, quota refreshes
\* and switches overlap, unless its successor was dropped with an error; nor was what
\* Codex runs with, until a rotation overlaps another one or a switch of its identity:
\* the rotated token reaches the saved and the current snapshot.
TokensLive ==
  Quiet /\ crashes = 0 =>
    /\ \A n \in dirs : auth[n] \in live \cup dropped
    /\ crossed \/ current \in live \cup dropped

\* A switch that reported success has taken effect, and nothing but a later switch
\* undoes it, or a refresh that had found its own identity there before the switch.
SwitchSticks ==
  Quiet /\ crashes = 0 /\ switched # NoId => current.id = switched \/ undone

\* The store is sound: its accounts can be read but for what a crash left, and no
\* two of them are the same identity (listAccounts).
StoreInv == TypeOK /\ CrashContained /\ UniqueIdentity
=============================================================================
