--------------------------- MODULE RegistryServer ---------------------------
(***************************************************************************)
(* The registry server (src/server-python/server.py) as its request        *)
(* threads run it: put_account, get_account, delete_account and            *)
(* lease_account over three files -- accounts/<name>.json (file),          *)
(* index.json (index) and leases.json (leases) -- and registry_lock.  One  *)
(* step per file written, so that threads and a crash of the server come   *)
(* in between.  One account name, as in RegistryApi.                       *)
(***************************************************************************)
EXTENDS Integers

CONSTANTS Threads,     \* request threads of the server
          NoThread,    \* registry_lock is free
          Clients, NoClient,
          MaxExp,      \* bound: expiry ranks 1 .. MaxExp
          MaxLeases,   \* bound: lease ids handed out
          MaxVersion,  \* bound: uploads stop at this version
          MaxDeletes,  \* bound: DELETE requests
          MaxCrashes,  \* bound: crashes of the server process
          MaxForced    \* bound: uploads with X-Registry-Force

ASSUME RegistryServerAssumption ==
  /\ NoThread \notin Threads /\ NoClient \notin Clients
  /\ {MaxExp, MaxLeases, MaxVersion, MaxDeletes, MaxCrashes, MaxForced} \subseteq Nat

VARIABLES file,      \* expiry rank of the stored bundle; 0: no file
          index,     \* index.json's entry: expiry, version (0: absent)
          leases,    \* leases.json's entry: client, id (0: none)
          lastLease, \* the lease id handed out last
          lock,      \* holder of registry_lock
          pc,        \* where each thread is
          req,       \* what a thread serves: upload (expiry, the lease it was
                     \* admitted with, X-Registry-Force) or download (expiry
                     \* indexed when it was stamped)
          deletes, crashes, forces  \* so far

counters == <<deletes, crashes, forces>>
vars == <<file, index, leases, lastLease, lock, pc, req, counters>>

Exps == 1..MaxExp
Absent == [exp |-> 0, version |-> 0]
NoLease == [client |-> NoClient, id |-> 0]
NoReq == [exp |-> 0, lease |-> NoLease, forced |-> FALSE]

\* idle       waiting for a request
\* put        upload admitted, lock held: about to replace the bundle file
\* putIndex   bundle file replaced: about to save index.json
\* putLease   index saved: about to drop the uploader's lease
\* get        bundle file exists: about to take the lock
\* send       index updated, lock released: about to send the file
\* del        bundle file unlinked, lock not yet taken
\* delLease   index saved: about to drop the lease
PCs == {"idle", "put", "putIndex", "putLease", "get", "send", "del", "delLease"}

Goto(t, to) == pc' = [pc EXCEPT ![t] = to]

-----------------------------------------------------------------------------

Init == /\ file = 0 /\ index = Absent /\ leases = NoLease /\ lastLease = 0
        /\ lock = NoThread
        /\ pc = [t \in Threads |-> "idle"]
        /\ req = [t \in Threads |-> NoReq]
        /\ deletes = 0 /\ crashes = 0 /\ forces = 0

LeaseOk(id) == id # 0 /\ leases.id = id

\* Mutant of Rejected: the expiry of the stored token is not compared.
RejectedByLeaseOnly(exp, id, forced) == id # 0 /\ ~LeaseOk(id)

\* The 409 answers of put_account.
Rejected(exp, id, forced) ==
  \/ id # 0 /\ ~LeaseOk(id)
  \/ index.version > 0 /\ ~forced /\ ~LeaseOk(id) /\ exp < index.exp

\* What put_account remembers of an admitted upload: lease_ok with its lease.
Admitted(exp, id, forced) ==
  [exp |-> exp, lease |-> IF LeaseOk(id) THEN leases ELSE NoLease, forced |-> forced]

\* Mutant of PutAdmit: the upload does not wait for registry_lock.
PutAdmitUnlocked(t, exp, id, forced) ==
  /\ pc[t] = "idle"
  /\ index.version < MaxVersion
  /\ forces' = IF forced THEN forces + 1 ELSE forces
  /\ forces' <= MaxForced
  /\ ~Rejected(exp, id, forced)
  /\ lock' = t
  /\ req' = [req EXCEPT ![t] = Admitted(exp, id, forced)]
  /\ Goto(t, "put")
  /\ UNCHANGED <<file, index, leases, lastLease, deletes, crashes>>

\* put_account takes registry_lock, loads index and leases and admits the
\* upload; a rejected one releases the lock and changes nothing.
PutAdmit(t, exp, id, forced) ==
  /\ pc[t] = "idle" /\ lock = NoThread
  /\ index.version < MaxVersion
  /\ forces' = IF forced THEN forces + 1 ELSE forces
  /\ forces' <= MaxForced
  /\ ~Rejected(exp, id, forced)
  /\ lock' = t
  /\ req' = [req EXCEPT ![t] = Admitted(exp, id, forced)]
  /\ Goto(t, "put")
  /\ UNCHANGED <<file, index, leases, lastLease, deletes, crashes>>

\* os.replace(tmp, accounts/<name>.json)
PutFile(t) ==
  /\ pc[t] = "put"
  /\ file' = req[t].exp
  /\ Goto(t, "putIndex")
  /\ UNCHANGED <<index, leases, lastLease, lock, req, counters>>

\* save_index with the new summary and the next version; without a lease the
\* lock is released.
PutIndex(t) ==
  /\ pc[t] = "putIndex"
  /\ index' = [exp |-> req[t].exp, version |-> index.version + 1]
  /\ IF req[t].lease # NoLease
       THEN Goto(t, "putLease") /\ UNCHANGED <<lock, req>>
       ELSE Goto(t, "idle") /\ lock' = NoThread /\ req' = [req EXCEPT ![t] = NoReq]
  /\ UNCHANGED <<file, leases, lastLease, counters>>

\* leases.pop(name), save_leases, and the lock is released.
PutLease(t) ==
  /\ pc[t] = "putLease"
  /\ leases' = NoLease
  /\ lock' = NoThread
  /\ req' = [req EXCEPT ![t] = NoReq]
  /\ Goto(t, "idle")
  /\ UNCHANGED <<file, index, lastLease, counters>>

\* get_account looks at the path before it takes the lock; 404 otherwise.
GetCheck(t) ==
  /\ pc[t] = "idle" /\ file # 0
  /\ Goto(t, "get")
  /\ UNCHANGED <<file, index, leases, lastLease, lock, req, counters>>

\* The entry is read (for X-Registry-Version) and last_downloaded_at, which is
\* not modelled, stamped under the lock.
GetStamp(t) ==
  /\ pc[t] = "get" /\ lock = NoThread
  /\ req' = [req EXCEPT ![t] = [NoReq EXCEPT !.exp = index.exp]]
  /\ Goto(t, "send")
  /\ UNCHANGED <<file, index, leases, lastLease, lock, counters>>

\* send_file reads the bundle that is there now, the lock being free again.
GetSend(t) ==
  /\ pc[t] = "send"
  /\ req' = [req EXCEPT ![t] = NoReq]
  /\ Goto(t, "idle")
  /\ UNCHANGED <<file, index, leases, lastLease, lock, counters>>

\* delete_account unlinks the bundle file before it takes the lock.
DeleteFile(t) ==
  /\ pc[t] = "idle" /\ file # 0 /\ deletes < MaxDeletes
  /\ file' = 0
  /\ deletes' = deletes + 1
  /\ Goto(t, "del")
  /\ UNCHANGED <<index, leases, lastLease, lock, req, crashes, forces>>

\* index.pop(name), save_index; a lease of the name is dropped after it.
DeleteIndex(t) ==
  /\ pc[t] = "del" /\ lock = NoThread
  /\ index' = Absent
  /\ IF leases # NoLease THEN Goto(t, "delLease") /\ lock' = t
                         ELSE Goto(t, "idle") /\ UNCHANGED lock
  /\ UNCHANGED <<file, leases, lastLease, req, counters>>

DeleteLease(t) ==
  /\ pc[t] = "delLease"
  /\ leases' = NoLease
  /\ lock' = NoThread
  /\ Goto(t, "idle")
  /\ UNCHANGED <<file, index, lastLease, req, counters>>

\* Mutant of LeaseAcquire: another client's live lease is overwritten.
LeaseAcquireAnyway(t, c) ==
  /\ pc[t] = "idle" /\ lock = NoThread
  /\ lastLease < MaxLeases
  /\ lastLease' = lastLease + 1
  /\ leases' = [client |-> c, id |-> lastLease']
  /\ UNCHANGED <<file, index, lock, pc, req, counters>>

\* lease_account, action acquire or renew: one read-modify-write of
\* leases.json under the lock.
LeaseAcquire(t, c) ==
  /\ pc[t] = "idle" /\ lock = NoThread
  /\ \/ /\ leases.id = 0 /\ lastLease < MaxLeases
        /\ lastLease' = lastLease + 1
        /\ leases' = [client |-> c, id |-> lastLease']
     \/ /\ leases.client = c
        /\ UNCHANGED <<lastLease, leases>>
  /\ UNCHANGED <<file, index, lock, pc, req, counters>>

\* lease_account, action release.
LeaseRelease(t, c) ==
  /\ pc[t] = "idle" /\ lock = NoThread
  /\ leases.client = c
  /\ leases' = NoLease
  /\ UNCHANGED <<file, index, lastLease, lock, pc, req, counters>>

\* Time passes the expiry of the lease: no later request sees it.
LeaseExpires ==
  /\ leases # NoLease
  /\ leases' = NoLease
  /\ UNCHANGED <<file, index, lastLease, lock, pc, req, counters>>

\* The server dies and is started again: the threads and the lock are gone,
\* the files are what the last completed write made them.
Crash ==
  /\ crashes < MaxCrashes
  /\ crashes' = crashes + 1
  /\ lock' = NoThread
  /\ pc' = [t \in Threads |-> "idle"]
  /\ req' = [t \in Threads |-> NoReq]
  /\ UNCHANGED <<file, index, leases, lastLease, deletes, forces>>

Next ==
  \/ \E t \in Threads :
       \/ \E exp \in Exps, id \in 0..MaxLeases, forced \in BOOLEAN :
            PutAdmit(t, exp, id, forced)
       \/ PutFile(t) \/ PutIndex(t) \/ PutLease(t)
       \/ GetCheck(t) \/ GetStamp(t) \/ GetSend(t)
       \/ DeleteFile(t) \/ DeleteIndex(t) \/ DeleteLease(t)
       \/ \E c \in Clients : LeaseAcquire(t, c) \/ LeaseRelease(t, c)
  \/ LeaseExpires
  \/ Crash

Spec == Init /\ [][Next]_vars

-----------------------------------------------------------------------------
(* Properties *)

TypeOK ==
  /\ file \in 0..MaxExp
  /\ index \in [exp : 0..MaxExp, version : 0..MaxVersion]
  /\ leases \in [client : Clients \cup {NoClient}, id : 0..MaxLeases]
  /\ lastLease \in 0..MaxLeases
  /\ lock \in Threads \cup {NoThread}
  /\ pc \in [Threads -> PCs]
  /\ req \in [Threads -> [exp : 0..MaxExp, forced : BOOLEAN,
                          lease : [client : Clients \cup {NoClient}, id : 0..MaxLeases]]]
  /\ deletes \in 0..MaxDeletes /\ crashes \in 0..MaxCrashes /\ forces \in 0..MaxForced

\* Without deletes and crashes, the index describes the stored bundle whenever
\* no upload is between its two writes: what the listing tells the clients to
\* adopt, and what the next upload is compared with, is what GET serves.
InTheMiddle == \E t \in Threads : pc[t] = "putIndex"
IndexDescribesFile ==
  deletes = 0 /\ crashes = 0 /\ ~InTheMiddle => index.exp = file

\* Uploads without lease and force do not rewind the stored bundle: no machine's
\* older copy replaces the file the others download.  A crash
\* between the two writes of an upload lets the next one do that, see the README.
ByRight == \E t \in Threads : req[t].forced \/ req[t].lease # NoLease
Rewinds == file' < file /\ deletes' = 0 /\ ~ByRight
NeverRewoundWhileUp == [][crashes' = 0 => ~Rewinds]_vars

\* A download is never older than the entry it was stamped with, although the
\* file is read after the lock was released, and the server may have crashed.
NoExceptions == deletes = 0 /\ lastLease = 0 /\ forces = 0
DownloadNotOlder ==
  NoExceptions => \A t \in Threads : pc[t] = "send" => file >= req[t].exp

\* Even when the server dies between the two writes of an upload, the index does
\* not promise a token newer than the one that is stored: clients that adopt
\* what the listing calls newer never get an older one.
IndexNeverAhead == NoExceptions => index.exp <= file

\* Seen from the clients, every request is one atomic step (RegistryApi) on the
\* index and the leases, through interleaved requests and crashes: an upload takes
\* place when its index entry is saved, and a lease it was admitted with, which may run
\* out meanwhile, counts until then.
Uploading == lock # NoThread /\ pc[lock] \in {"put", "putIndex"}
LiveLease == IF Uploading /\ req[lock].lease # NoLease THEN req[lock].lease ELSE leases
ForceHeader == IF MaxForced = 0 THEN {FALSE} ELSE BOOLEAN
Api == INSTANCE RegistryApi WITH entry <- index, lease <- LiveLease, Forced <- ForceHeader
AtomicApi == Api!ApiSpec

\* The three files of the registry fit together: the index describes the stored
\* bundle, promises no newer one, and a download is what its stamp says.
IndexInv == TypeOK /\ IndexDescribesFile /\ DownloadNotOlder /\ IndexNeverAhead
=============================================================================
