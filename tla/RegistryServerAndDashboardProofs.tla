------------------ MODULE RegistryServerAndDashboardProofs ------------------
(***************************************************************************)
(* Two components that share nothing but this module.  First the registry  *)
(* server: its files and its leases, for any number of clients, crashes    *)
(* and deletions, and that it implements RegistryApi.  Then the dashboard: *)
(* what its keys act on, what it left pending and what it deletes, for any *)
(* accounts, keys, filters, failures and switches by others.               *)
(***************************************************************************)
EXTENDS RegistryServer, Dashboard, TLAPS, FiniteSetTheorems, SequenceTheorems, FunctionTheorems

\* Where put_account and delete_account hold registry_lock between two writes.
Writing == {"put", "putIndex", "putLease", "delLease"}

\* registry_lock: the holder is the one thread between its writes.
LockInv == \A t \in Threads : pc[t] \in Writing <=> lock = t

\* The entry, the lease and the requests being served.
RequestInv ==
  /\ index.version = 0 => index.exp = 0
  /\ leases.id > 0 => lastLease > 0
  /\ \A t \in Threads :
       /\ pc[t] \in {"put", "putIndex"} => req[t].exp \in Exps /\ index.version < MaxVersion
       /\ req[t].forced => forces > 0
       /\ req[t].lease # NoLease =>
            /\ pc[t] \in {"put", "putIndex", "putLease"} /\ lastLease > 0
            /\ req[t].lease.id # 0 /\ leases \in {req[t].lease, NoLease}
       /\ pc[t] = "del" => deletes > 0

\* What admission established stays true until the index is written: the index
\* does not change while the uploader holds the lock.
AdmittedInv ==
  \A t \in Threads :
    pc[t] \in {"put", "putIndex"} /\ ~req[t].forced /\ req[t].lease = NoLease =>
      req[t].exp >= index.exp

\* The bundle file that the index is about to describe.
MiddleInv ==
  deletes = 0 => \A t \in Threads : pc[t] = "putIndex" => file = req[t].exp

\* A stamp is never ahead of the index.
StampInv ==
  NoExceptions => \A t \in Threads : pc[t] = "send" => req[t].exp <= index.exp

IInv == /\ TypeOK /\ LockInv /\ RequestInv /\ AdmittedInv /\ MiddleInv /\ StampInv
        /\ IndexDescribesFile /\ IndexNeverAhead

\* The type of what a thread serves.
Requests == [exp : 0..MaxExp, forced : BOOLEAN,
             lease : [client : Clients \cup {NoClient}, id : 0..MaxLeases]]

\* The steps of a request thread after it took its request.
Serve(t) ==
  \/ PutFile(t) \/ PutIndex(t) \/ PutLease(t)
  \/ GetCheck(t) \/ GetStamp(t) \/ GetSend(t)
  \/ DeleteFile(t) \/ DeleteIndex(t) \/ DeleteLease(t)

\* The server starts with empty files, a free lock and idle threads.
LEMMA InitIInv == Init => IInv
<1> SUFFICES ASSUME Init PROVE IInv
  OBVIOUS
<1> USE RegistryServerAssumption DEF Init
<1>1. TypeOK
  BY DEF TypeOK, PCs, Absent, NoLease, NoReq
<1>2. LockInv /\ RequestInv /\ AdmittedInv /\ MiddleInv /\ StampInv
  BY DEF LockInv, Writing, RequestInv, AdmittedInv, MiddleInv, StampInv, Absent, NoLease, NoReq
<1>3. IndexDescribesFile /\ IndexNeverAhead
  BY DEF IndexDescribesFile, IndexNeverAhead, Absent
<1> QED
  BY <1>1, <1>2, <1>3 DEF IInv

\* Every variable keeps its type; an upload's version stays below the bound
\* because only the holder of registry_lock raises it.
LEMMA TypeStep == TypeOK /\ RequestInv /\ [Next]_vars => TypeOK'
<1> SUFFICES ASSUME TypeOK, RequestInv, [Next]_vars PROVE TypeOK'
  OBVIOUS
<1> USE RegistryServerAssumption DEF TypeOK, RequestInv, PCs, Goto, Exps, Absent, NoLease, NoReq, counters
<1>1. ASSUME NEW t \in Threads, NEW exp \in Exps, NEW id \in 0..MaxLeases, NEW forced \in BOOLEAN,
             PutAdmit(t, exp, id, forced)
      PROVE  TypeOK'
  BY <1>1 DEF PutAdmit, Rejected, LeaseOk, Admitted
<1>2. ASSUME NEW t \in Threads, Serve(t) PROVE TypeOK'
  <2>1. CASE PutFile(t)
    BY <2>1 DEF PutFile
  <2>2. CASE PutIndex(t)
    <3>1. index' \in [exp : 0..MaxExp, version : 0..MaxVersion]
      BY <2>2 DEF PutIndex
    <3>2. CASE req[t].lease # NoLease
      BY <2>2, <3>1, <3>2 DEF PutIndex
    <3>3. CASE req[t].lease = NoLease
      <4>1. req' = [req EXCEPT ![t] = NoReq] /\ lock' = NoThread /\ pc' = [pc EXCEPT ![t] = "idle"]
        BY <2>2, <3>3 DEF PutIndex
      <4>2. req' \in [Threads -> Requests]
        BY <4>1 DEF Requests
      <4>3. UNCHANGED <<file, leases, lastLease, counters>>
        BY <2>2 DEF PutIndex
      <4> QED
        BY <3>1, <4>1, <4>2, <4>3 DEF Requests
    <3> QED
      BY <3>2, <3>3
  <2>3. CASE PutLease(t)
    BY <2>3 DEF PutLease
  <2>4. CASE GetCheck(t)
    BY <2>4 DEF GetCheck
  <2>5. CASE GetStamp(t)
    BY <2>5 DEF GetStamp
  <2>6. CASE GetSend(t)
    BY <2>6 DEF GetSend
  <2>7. CASE DeleteFile(t)
    BY <2>7 DEF DeleteFile
  <2>8. CASE DeleteIndex(t)
    BY <2>8 DEF DeleteIndex
  <2>9. CASE DeleteLease(t)
    BY <2>9 DEF DeleteLease
  <2> QED
    BY <1>2, <2>1, <2>2, <2>3, <2>4, <2>5, <2>6, <2>7, <2>8, <2>9 DEF Serve
<1>3. ASSUME NEW t \in Threads, NEW c \in Clients, LeaseAcquire(t, c) \/ LeaseRelease(t, c)
      PROVE  TypeOK'
  BY <1>3 DEF LeaseAcquire, LeaseRelease
<1>4. CASE LeaseExpires
  BY <1>4 DEF LeaseExpires
<1>5. CASE Crash
  BY <1>5 DEF Crash
<1>6. CASE UNCHANGED vars
  BY <1>6 DEF vars, counters
<1> QED
  BY <1>1, <1>2, <1>3, <1>4, <1>5, <1>6 DEF Next, Serve

\* The lock is held by the thread that is between two writes, and by no other.
LEMMA LockStep == TypeOK /\ LockInv /\ [Next]_vars => LockInv'
<1> SUFFICES ASSUME TypeOK, LockInv, [Next]_vars PROVE LockInv'
  OBVIOUS
<1> USE RegistryServerAssumption DEF TypeOK, LockInv, Writing, PCs, Goto
<1>1. ASSUME NEW t \in Threads, NEW exp \in Exps, NEW id \in 0..MaxLeases, NEW forced \in BOOLEAN,
             PutAdmit(t, exp, id, forced)
      PROVE  LockInv'
  BY <1>1 DEF PutAdmit, Rejected, LeaseOk, Admitted
<1>2. ASSUME NEW t \in Threads, Serve(t) PROVE LockInv'
  <2>1. CASE PutFile(t)
    BY <2>1 DEF PutFile
  <2>2. CASE PutIndex(t)
    BY <2>2 DEF PutIndex
  <2>3. CASE PutLease(t)
    BY <2>3 DEF PutLease
  <2>4. CASE GetCheck(t)
    BY <2>4 DEF GetCheck
  <2>5. CASE GetStamp(t)
    BY <2>5 DEF GetStamp
  <2>6. CASE GetSend(t)
    BY <2>6 DEF GetSend
  <2>7. CASE DeleteFile(t)
    BY <2>7 DEF DeleteFile
  <2>8. CASE DeleteIndex(t)
    BY <2>8 DEF DeleteIndex
  <2>9. CASE DeleteLease(t)
    BY <2>9 DEF DeleteLease
  <2> QED
    BY <1>2, <2>1, <2>2, <2>3, <2>4, <2>5, <2>6, <2>7, <2>8, <2>9 DEF Serve
<1>3. ASSUME NEW t \in Threads, NEW c \in Clients, LeaseAcquire(t, c) \/ LeaseRelease(t, c)
      PROVE  LockInv'
  BY <1>3 DEF LeaseAcquire, LeaseRelease
<1>4. CASE LeaseExpires
  BY <1>4 DEF LeaseExpires
<1>5. CASE Crash
  BY <1>5 DEF Crash
<1>6. CASE UNCHANGED vars
  BY <1>6 DEF vars, counters
<1> QED
  BY <1>1, <1>2, <1>3, <1>4, <1>5, <1>6 DEF Next, Serve

\* What is known of the entry, the lease and the requests is kept.
LEMMA RequestStep == TypeOK /\ LockInv /\ RequestInv /\ [Next]_vars => RequestInv'
<1> SUFFICES ASSUME TypeOK, LockInv, RequestInv, [Next]_vars PROVE RequestInv'
  OBVIOUS
<1> USE RegistryServerAssumption
    DEF TypeOK, LockInv, Writing, RequestInv, PCs, Goto, Exps, Absent, NoLease, NoReq, counters
<1>1. ASSUME NEW t \in Threads, NEW exp \in Exps, NEW id \in 0..MaxLeases, NEW forced \in BOOLEAN,
             PutAdmit(t, exp, id, forced)
      PROVE  RequestInv'
  BY <1>1 DEF PutAdmit, Rejected, LeaseOk, Admitted
<1>2. ASSUME NEW t \in Threads, Serve(t) PROVE RequestInv'
  <2>1. CASE PutFile(t)
    BY <2>1 DEF PutFile
  <2>2. CASE PutIndex(t)
    BY <2>2 DEF PutIndex
  <2>3. CASE PutLease(t)
    BY <2>3 DEF PutLease
  <2>4. CASE GetCheck(t)
    BY <2>4 DEF GetCheck
  <2>5. CASE GetStamp(t)
    BY <2>5 DEF GetStamp
  <2>6. CASE GetSend(t)
    BY <2>6 DEF GetSend
  <2>7. CASE DeleteFile(t)
    BY <2>7 DEF DeleteFile
  <2>8. CASE DeleteIndex(t)
    BY <2>8 DEF DeleteIndex
  <2>9. CASE DeleteLease(t)
    BY <2>9 DEF DeleteLease
  <2> QED
    BY <1>2, <2>1, <2>2, <2>3, <2>4, <2>5, <2>6, <2>7, <2>8, <2>9 DEF Serve
<1>3. ASSUME NEW t \in Threads, NEW c \in Clients, LeaseAcquire(t, c) \/ LeaseRelease(t, c)
      PROVE  RequestInv'
  BY <1>3 DEF LeaseAcquire, LeaseRelease
<1>4. CASE LeaseExpires
  BY <1>4 DEF LeaseExpires
<1>5. CASE Crash
  BY <1>5 DEF Crash
<1>6. CASE UNCHANGED vars
  BY <1>6 DEF vars, counters
<1> QED
  BY <1>1, <1>2, <1>3, <1>4, <1>5, <1>6 DEF Next, Serve

\* No step comes between the admission of an upload and its index write that
\* would make the stored token newer than the one that was admitted.
LEMMA AdmittedStep ==
  TypeOK /\ LockInv /\ RequestInv /\ AdmittedInv /\ [Next]_vars => AdmittedInv'
<1> SUFFICES ASSUME TypeOK, LockInv, RequestInv, AdmittedInv, [Next]_vars PROVE AdmittedInv'
  OBVIOUS
<1> USE RegistryServerAssumption
    DEF TypeOK, LockInv, Writing, RequestInv, PCs, Goto, Exps, Absent, NoLease, NoReq, counters, AdmittedInv
<1>1. ASSUME NEW t \in Threads, NEW exp \in Exps, NEW id \in 0..MaxLeases, NEW forced \in BOOLEAN,
             PutAdmit(t, exp, id, forced)
      PROVE  AdmittedInv'
  <2>1. SUFFICES ASSUME NEW u \in Threads, pc'[u] \in {"put", "putIndex"},
                        ~req'[u].forced, req'[u].lease = NoLease
                 PROVE  req'[u].exp >= index'.exp
    BY DEF AdmittedInv
  <2>2. u = t
    BY <1>1, <2>1 DEF PutAdmit
  <2>3. req'[t] = Admitted(exp, id, forced) /\ index' = index
    BY <1>1 DEF PutAdmit
  <2>4. ~forced /\ ~LeaseOk(id)
    BY <2>1, <2>2, <2>3 DEF Admitted, LeaseOk
  <2>5. exp >= index.exp
    BY <1>1, <2>4 DEF PutAdmit, Rejected
  <2> QED
    BY <2>2, <2>3, <2>5 DEF Admitted
<1>2. ASSUME NEW t \in Threads, Serve(t) PROVE AdmittedInv'
  <2>1. CASE PutFile(t)
    BY <2>1 DEF PutFile
  <2>2. CASE PutIndex(t)
    BY <2>2 DEF PutIndex
  <2>3. CASE PutLease(t)
    BY <2>3 DEF PutLease
  <2>4. CASE GetCheck(t)
    BY <2>4 DEF GetCheck
  <2>5. CASE GetStamp(t)
    BY <2>5 DEF GetStamp
  <2>6. CASE GetSend(t)
    BY <2>6 DEF GetSend
  <2>7. CASE DeleteFile(t)
    BY <2>7 DEF DeleteFile
  <2>8. CASE DeleteIndex(t)
    BY <2>8 DEF DeleteIndex
  <2>9. CASE DeleteLease(t)
    BY <2>9 DEF DeleteLease
  <2> QED
    BY <1>2, <2>1, <2>2, <2>3, <2>4, <2>5, <2>6, <2>7, <2>8, <2>9 DEF Serve
<1>3. ASSUME NEW t \in Threads, NEW c \in Clients, LeaseAcquire(t, c) \/ LeaseRelease(t, c)
      PROVE  AdmittedInv'
  BY <1>3 DEF LeaseAcquire, LeaseRelease
<1>4. CASE LeaseExpires
  BY <1>4 DEF LeaseExpires
<1>5. CASE Crash
  BY <1>5 DEF Crash
<1>6. CASE UNCHANGED vars
  BY <1>6 DEF vars, counters
<1> QED
  BY <1>1, <1>2, <1>3, <1>4, <1>5, <1>6 DEF Next, Serve

\* Without deletes, the bundle an upload stored stays until its index write,
\* and the index describes it from then on.
LEMMA MiddleStep ==
  TypeOK /\ LockInv /\ RequestInv /\ MiddleInv /\ IndexDescribesFile /\ [Next]_vars =>
  (MiddleInv /\ IndexDescribesFile)'
<1> SUFFICES ASSUME TypeOK, LockInv, RequestInv, MiddleInv, IndexDescribesFile, [Next]_vars PROVE (MiddleInv /\ IndexDescribesFile)'
  OBVIOUS
<1> USE RegistryServerAssumption
    DEF TypeOK, LockInv, Writing, RequestInv, PCs, Goto, Exps, Absent, NoLease, NoReq, counters,
        MiddleInv, IndexDescribesFile, InTheMiddle
<1>1. ASSUME NEW t \in Threads, NEW exp \in Exps, NEW id \in 0..MaxLeases, NEW forced \in BOOLEAN,
             PutAdmit(t, exp, id, forced)
      PROVE  (MiddleInv /\ IndexDescribesFile)'
  BY <1>1 DEF PutAdmit, Rejected, LeaseOk, Admitted
<1>2. ASSUME NEW t \in Threads, Serve(t) PROVE (MiddleInv /\ IndexDescribesFile)'
  <2>1. CASE PutFile(t)
    BY <2>1 DEF PutFile
  <2>2. CASE PutIndex(t)
    BY <2>2 DEF PutIndex
  <2>3. CASE PutLease(t)
    BY <2>3 DEF PutLease
  <2>4. CASE GetCheck(t)
    BY <2>4 DEF GetCheck
  <2>5. CASE GetStamp(t)
    BY <2>5 DEF GetStamp
  <2>6. CASE GetSend(t)
    BY <2>6 DEF GetSend
  <2>7. CASE DeleteFile(t)
    BY <2>7 DEF DeleteFile
  <2>8. CASE DeleteIndex(t)
    BY <2>8 DEF DeleteIndex
  <2>9. CASE DeleteLease(t)
    BY <2>9 DEF DeleteLease
  <2> QED
    BY <1>2, <2>1, <2>2, <2>3, <2>4, <2>5, <2>6, <2>7, <2>8, <2>9 DEF Serve
<1>3. ASSUME NEW t \in Threads, NEW c \in Clients, LeaseAcquire(t, c) \/ LeaseRelease(t, c)
      PROVE  (MiddleInv /\ IndexDescribesFile)'
  BY <1>3 DEF LeaseAcquire, LeaseRelease
<1>4. CASE LeaseExpires
  BY <1>4 DEF LeaseExpires
<1>5. CASE Crash
  BY <1>5 DEF Crash
<1>6. CASE UNCHANGED vars
  BY <1>6 DEF vars, counters
<1> HIDE DEF MiddleInv, IndexDescribesFile, InTheMiddle
<1> QED
  BY <1>1, <1>2, <1>3, <1>4, <1>5, <1>6 DEF Next, Serve

\* Without deletes, leases and forced uploads, neither the stamps nor the index
\* get ahead of the bundle, crashes included.
LEMMA StampStep ==
  TypeOK /\ LockInv /\ RequestInv /\ AdmittedInv /\ MiddleInv /\ StampInv /\ IndexNeverAhead /\ [Next]_vars =>
  (StampInv /\ IndexNeverAhead)'
<1> SUFFICES ASSUME TypeOK, LockInv, RequestInv, AdmittedInv, MiddleInv, StampInv, IndexNeverAhead, [Next]_vars PROVE (StampInv /\ IndexNeverAhead)'
  OBVIOUS
<1> USE RegistryServerAssumption
    DEF TypeOK, LockInv, Writing, RequestInv, PCs, Goto, Exps, Absent, NoLease, NoReq, counters,
        AdmittedInv, MiddleInv, StampInv, IndexNeverAhead, NoExceptions
<1>1. ASSUME NEW t \in Threads, NEW exp \in Exps, NEW id \in 0..MaxLeases, NEW forced \in BOOLEAN,
             PutAdmit(t, exp, id, forced)
      PROVE  (StampInv /\ IndexNeverAhead)'
  BY <1>1 DEF PutAdmit, Rejected, LeaseOk, Admitted
<1>2. ASSUME NEW t \in Threads, Serve(t) PROVE (StampInv /\ IndexNeverAhead)'
  <2>1. CASE PutFile(t)
    BY <2>1 DEF PutFile
  <2>2. CASE PutIndex(t)
    BY <2>2 DEF PutIndex
  <2>3. CASE PutLease(t)
    BY <2>3 DEF PutLease
  <2>4. CASE GetCheck(t)
    BY <2>4 DEF GetCheck
  <2>5. CASE GetStamp(t)
    BY <2>5 DEF GetStamp
  <2>6. CASE GetSend(t)
    BY <2>6 DEF GetSend
  <2>7. CASE DeleteFile(t)
    BY <2>7 DEF DeleteFile
  <2>8. CASE DeleteIndex(t)
    BY <2>8 DEF DeleteIndex
  <2>9. CASE DeleteLease(t)
    BY <2>9 DEF DeleteLease
  <2> QED
    BY <1>2, <2>1, <2>2, <2>3, <2>4, <2>5, <2>6, <2>7, <2>8, <2>9 DEF Serve
<1>3. ASSUME NEW t \in Threads, NEW c \in Clients, LeaseAcquire(t, c) \/ LeaseRelease(t, c)
      PROVE  (StampInv /\ IndexNeverAhead)'
  BY <1>3 DEF LeaseAcquire, LeaseRelease
<1>4. CASE LeaseExpires
  BY <1>4 DEF LeaseExpires
<1>5. CASE Crash
  BY <1>5 DEF Crash
<1>6. CASE UNCHANGED vars
  BY <1>6 DEF vars, counters
<1> HIDE DEF StampInv, IndexNeverAhead, NoExceptions
<1> QED
  BY <1>1, <1>2, <1>3, <1>4, <1>5, <1>6 DEF Next, Serve

-----------------------------------------------------------------------------

\* The inductive invariant holds in every reachable state.
LEMMA Invariant == Spec => []IInv
<1>1. IInv /\ [Next]_vars => IInv'
  BY TypeStep, LockStep, RequestStep, AdmittedStep, MiddleStep, StampStep DEF IInv
<1> QED
  BY InitIInv, <1>1, PTL DEF Spec

\* The three files of the registry fit together: the index describes the stored
\* bundle, promises no newer one, and a download is not older than its stamp.
THEOREM IndexCorrect == Spec => []IndexInv
<1>1. IInv => DownloadNotOlder
  <2> SUFFICES ASSUME IInv, NoExceptions, NEW t \in Threads, pc[t] = "send"
               PROVE  file >= req[t].exp
    BY DEF DownloadNotOlder
  <2>1. req[t].exp <= index.exp /\ index.exp <= file
    BY DEF IInv, StampInv, IndexNeverAhead
  <2> QED
    BY <2>1 DEF IInv, TypeOK
<1>2. IInv => IndexInv
  BY <1>1 DEF IInv, IndexInv
<1> QED
  BY <1>2, Invariant, PTL

\* Until the first crash, and without deletes, an upload that was neither forced
\* nor admitted with a lease never replaces the stored bundle by an older one,
\* whatever the threads interleave and whatever was uploaded before.
THEOREM NoRewind == Spec => NeverRewoundWhileUp
<1>1. IInv /\ [Next]_vars => [crashes' = 0 => ~Rewinds]_vars
  <2> SUFFICES ASSUME IInv, [Next]_vars, crashes' = 0, Rewinds PROVE FALSE
    OBVIOUS
  <2>1. TypeOK /\ deletes' = 0 /\ file' < file /\ ~ByRight
    BY DEF IInv, Rewinds
  <2>2. PICK t \in Threads : PutFile(t) \/ DeleteFile(t)
    BY <2>1 DEF Next, vars, counters, TypeOK, PutAdmit, PutIndex, PutLease, GetCheck,
                GetStamp, GetSend, DeleteIndex, DeleteLease, LeaseAcquire, LeaseRelease,
                LeaseExpires, Crash
  <2>3. CASE PutFile(t)
    <3>1. deletes = 0 /\ crashes = 0
      BY <2>1, <2>3 DEF PutFile, counters
    <3>2. req[t].exp >= index.exp
      BY <2>1, <2>3 DEF IInv, AdmittedInv, PutFile, ByRight
    <3>3. index.exp = file
      BY <2>3, <3>1 DEF IInv, LockInv, Writing, IndexDescribesFile, InTheMiddle, PutFile
    <3> QED
      BY <2>1, <2>3, <3>2, <3>3 DEF TypeOK, PutFile
  <2>4. CASE DeleteFile(t)
    BY <2>1, <2>4 DEF DeleteFile, TypeOK
  <2> QED
    BY <2>2, <2>3, <2>4
<1> QED
  BY <1>1, Invariant, PTL DEF Spec, NeverRewoundWhileUp

\* Crashes and deletes included, an upload that replaces the indexed entry by an
\* older one was forced, or admitted with a live lease.
Older == index'.version > index.version /\ index'.exp < index.exp
OlderNeedsRight == [][Older => ByRight]_vars
THEOREM OnlyByRight == Spec => OlderNeedsRight
<1>1. IInv /\ [Next]_vars => [Older => ByRight]_vars
  <2> SUFFICES ASSUME IInv, [Next]_vars, Older, ~ByRight PROVE FALSE
    OBVIOUS
  <2>1. TypeOK
    BY DEF IInv
  <2>2. PICK t \in Threads : PutIndex(t) \/ DeleteIndex(t)
    BY <2>1 DEF Next, vars, counters, Older, TypeOK, PutAdmit, PutFile, PutLease, GetCheck,
                GetStamp, GetSend, DeleteFile, DeleteLease, LeaseAcquire, LeaseRelease,
                LeaseExpires, Crash
  <2>3. CASE PutIndex(t)
    <3>1. req[t].exp >= index.exp
      BY <2>3 DEF IInv, AdmittedInv, PutIndex, ByRight
    <3> QED
      BY <2>1, <2>3, <3>1 DEF Older, TypeOK, PutIndex
  <2>4. CASE DeleteIndex(t)
    BY <2>1, <2>4 DEF DeleteIndex, Older, TypeOK, Absent
  <2> QED
    BY <2>2, <2>3, <2>4
<1> QED
  BY <1>1, Invariant, PTL DEF Spec, OlderNeedsRight

-----------------------------------------------------------------------------

\* While no upload has been admitted, the clients see leases.json as it is.
LEMMA FreeLease == ASSUME lock = NoThread PROVE LiveLease = leases
BY DEF LiveLease, Uploading

\* While one is, they see the lease it was admitted with.
LEMMA HeldLease ==
  ASSUME IInv, NEW t \in Threads, pc[t] \in {"put", "putIndex"}
  PROVE  LiveLease = IF req[t].lease # NoLease THEN req[t].lease ELSE leases
BY RegistryServerAssumption DEF IInv, LockInv, Writing, LiveLease, Uploading

\* What the lease and the lock are once an upload is over, or before it.
LEMMA OtherLease ==
  ASSUME IInv, NEW t \in Threads, lock = t, pc[t] \notin {"put", "putIndex"}
  PROVE  LiveLease = leases
BY DEF LiveLease, Uploading

\* The step that saves the index is the upload of RegistryApi, with the lease and
\* the force it was admitted with.
LEMMA PutIndexIsPut ==
  ASSUME IInv, NEW t \in Threads, PutIndex(t)
  PROVE  \E exp \in Api!Exps, id \in 0..MaxLeases, forced \in ForceHeader :
           Api!PutAccepted(exp, id, forced)
<1> DEFINE lid == IF req[t].lease # NoLease THEN req[t].lease.id ELSE 0
<1> USE RegistryServerAssumption DEF IInv, TypeOK
<1>1. req[t].exp \in Api!Exps /\ lid \in 0..MaxLeases
      /\ req[t].forced \in ForceHeader
  <2>1. req[t].exp \in Api!Exps
    BY DEF PutIndex, RequestInv, Api!Exps, Exps
  <2>2. req[t] \in Requests
    BY DEF Requests
  <2>3. lid \in 0..MaxLeases
    BY <2>2 DEF Requests
  <2>4. req[t].forced \in BOOLEAN /\ (req[t].forced => MaxForced # 0)
    BY <2>2 DEF Requests, RequestInv
  <2> QED
    BY <2>1, <2>3, <2>4 DEF ForceHeader
<1>2. LiveLease = IF req[t].lease # NoLease THEN req[t].lease ELSE leases
  BY HeldLease DEF PutIndex
<1>3. LiveLease' = leases /\ lastLease' = lastLease
      /\ index' = [exp |-> req[t].exp, version |-> index.version + 1]
  BY DEF PutIndex, LiveLease, Uploading, Goto, LockInv, Writing
<1>4. ~Api!PutRejected(req[t].exp, lid, req[t].forced)
  <2>1. CASE req[t].lease # NoLease
    BY <1>2, <2>1 DEF Api!PutRejected, Api!LeaseOk, RequestInv
  <2>2. CASE req[t].lease = NoLease
    <3>1. ~req[t].forced => req[t].exp >= index.exp
      BY <2>2 DEF AdmittedInv, PutIndex
    <3> QED
      BY <2>2, <3>1 DEF Api!PutRejected, Api!LeaseOk
  <2> QED
    BY <2>1, <2>2
<1>5. leases \in {LiveLease} \cup (IF Api!LeaseOk(lid) THEN {NoLease} ELSE {})
  BY <1>2 DEF Api!LeaseOk, RequestInv
<1>6. Api!PutAccepted(req[t].exp, lid, req[t].forced)
  BY <1>3, <1>4, <1>5 DEF Api!PutAccepted, Api!NoLease, NoLease
<1> HIDE DEF lid
<1> QED
  BY <1>1, <1>6, Zenon

\* Every step of the server is a step of RegistryApi or leaves the entry and the
\* lease alone: an upload takes place when its index entry is saved, its lease
\* is dropped when leases.json is.
LEMMA ApiStep == IInv /\ [Next]_vars => [Api!ApiNext]_(Api!apiVars)
<1> SUFFICES ASSUME IInv, [Next]_vars, ~UNCHANGED <<index, LiveLease, lastLease>>
             PROVE  Api!ApiNext
  BY DEF Api!apiVars
<1> USE RegistryServerAssumption DEF IInv, TypeOK, Goto
<1>1. ASSUME NEW t \in Threads, PutIndex(t) PROVE Api!ApiNext
  <2>1. \E exp \in Api!Exps, id \in 0..MaxLeases, forced \in ForceHeader :
          Api!PutAccepted(exp, id, forced)
    BY <1>1, PutIndexIsPut DEF IInv, TypeOK
  <2> QED
    BY <2>1, Zenon DEF Api!ApiNext
<1>2. ASSUME NEW t \in Threads, DeleteIndex(t) PROVE Api!ApiNext
  <2>1. LiveLease = leases
    BY <1>2, FreeLease DEF DeleteIndex
  <2>2. LiveLease' = leases
    BY <1>2 DEF DeleteIndex, LiveLease, Uploading
  <2> QED
    BY <1>2, <2>1, <2>2 DEF DeleteIndex, Api!ApiNext, Api!Delete, Api!Absent, Absent
<1>3. ASSUME NEW t \in Threads, PutLease(t) \/ DeleteLease(t) PROVE Api!ApiNext
  <2>1. lock = t
    BY <1>3 DEF PutLease, DeleteLease, LockInv, Writing
  <2>2. LiveLease = leases
    BY <1>3, <2>1, OtherLease DEF PutLease, DeleteLease
  <2>3. LiveLease' = NoLease
    BY <1>3 DEF PutLease, DeleteLease, LiveLease, Uploading
  <2> QED
    BY <1>3, <2>2, <2>3 DEF PutLease, DeleteLease, Api!ApiNext, Api!ExpireLease, Api!NoLease, NoLease
<1>4. ASSUME NEW t \in Threads, NEW c \in Clients, LeaseAcquire(t, c) PROVE Api!ApiNext
  <2>1. LiveLease = leases /\ LiveLease' = leases'
    BY <1>4 DEF LeaseAcquire, LiveLease, Uploading
  <2>2. leases.id = 0 /\ lastLease < MaxLeases /\ lastLease' = lastLease + 1
        /\ leases' = [client |-> c, id |-> lastLease'] /\ index' = index
    BY <1>4, <2>1 DEF LeaseAcquire
  <2>3. Api!Acquire(c)
    BY <2>1, <2>2 DEF Api!Acquire, Api!Grantable
  <2> QED
    BY <2>3 DEF Api!ApiNext
<1>5. ASSUME NEW t \in Threads, NEW c \in Clients, LeaseRelease(t, c) PROVE Api!ApiNext
  <2>1. LiveLease = leases /\ LiveLease' = leases'
    BY <1>5 DEF LeaseRelease, LiveLease, Uploading
  <2>2. Api!ReleaseLease(c)
    BY <1>5, <2>1 DEF LeaseRelease, Api!ReleaseLease, Api!NoLease, NoLease
  <2> QED
    BY <2>2 DEF Api!ApiNext
<1>6. CASE LeaseExpires
  <2>1. LiveLease = leases /\ LiveLease' = leases'
    BY <1>6 DEF LeaseExpires, LiveLease, Uploading
  <2> QED
    BY <1>6, <2>1 DEF LeaseExpires, Api!ApiNext, Api!ExpireLease, Api!NoLease, NoLease
<1>7. CASE Crash
  <2>1. LiveLease' = leases /\ UNCHANGED <<index, lastLease>>
    BY <1>7 DEF Crash, LiveLease, Uploading
  <2>2. LiveLease # leases /\ leases = NoLease
    BY <2>1 DEF LiveLease, Uploading, RequestInv
  <2> QED
    BY <2>1, <2>2 DEF Api!ApiNext, Api!ExpireLease, Api!NoLease, NoLease
<1>8. ASSUME NEW t \in Threads, NEW exp \in Exps, NEW id \in 0..MaxLeases, NEW forced \in BOOLEAN,
             PutAdmit(t, exp, id, forced)
      PROVE  FALSE
  <2>1. LiveLease = leases
    BY <1>8, FreeLease DEF PutAdmit
  <2>2. pc'[t] = "put" /\ lock' = t /\ req'[t] = Admitted(exp, id, forced) /\ leases' = leases
    BY <1>8 DEF PutAdmit
  <2>3. LiveLease' = leases
    BY <2>2 DEF LiveLease, Uploading, Admitted
  <2> QED
    BY <1>8, <2>1, <2>3 DEF PutAdmit
<1>9. ASSUME NEW t \in Threads,
             PutFile(t) \/ GetCheck(t) \/ GetStamp(t) \/ GetSend(t) \/ DeleteFile(t)
      PROVE  FALSE
  <2>1. UNCHANGED <<index, leases, lastLease, lock>>
    BY <1>9 DEF PutFile, GetCheck, GetStamp, GetSend, DeleteFile
  <2>2. UNCHANGED LiveLease
    BY <1>9, <2>1 DEF PutFile, GetCheck, GetStamp, GetSend, DeleteFile, LiveLease, Uploading,
                      LockInv, Writing
  <2> QED
    BY <2>1, <2>2
<1>10. CASE UNCHANGED vars
  BY <1>10 DEF vars, LiveLease, Uploading
<1> QED
  BY <1>1, <1>2, <1>3, <1>4, <1>5, <1>6, <1>7, <1>8, <1>9, <1>10 DEF Next

\* The threads of the server implement the atomic requests of RegistryApi, for every
\* number of them, through crashes, and with the right each upload was admitted with.
THEOREM Implements == Spec => AtomicApi
<1>1. Init => Api!ApiInit
  BY DEF Init, Api!ApiInit, Api!Absent, Absent, Api!NoLease, NoLease, LiveLease, Uploading
<1> QED
  BY <1>1, ApiStep, Invariant, PTL DEF Spec, AtomicApi, Api!ApiSpec

-----------------------------------------------------------------------------
(* The dashboard *)

\* Names, and what may stand for none; the accounts the store may hold; what a switch
\* is followed by.
NameOrNone == Names \cup {None}
Store == Accounts \cup {Imported}
Afters == {"stay", "open", "isolated", "desktop", "desktopForce"}

\* The types: lists of rows, tasks, prompts, what is queued, refreshes and the watcher.
Lists == {rows \in Seq(Names) : Len(rows) <= Cardinality(Names)}
TaskRec == [op : Simple \cup {"none", "switch", "desktop", "preview", "cleanup"}, name : NameOrNone,
            force : BOOLEAN, after : Afters, active : BOOLEAN, aborted : BOOLEAN, done : BOOLEAN,
            gives : NameOrNone]
ModeRec == [is : {"browse"} \cup Typing \cup Confirming, name : NameOrNone, full : BOOLEAN,
            force : BOOLEAN, after : Afters]
UndoRec == [does : {"none", "restore", "unimport", "unexport"}, name : NameOrNone]
Item == [key : Keys \cup {"update"}, name : NameOrNone]
RefreshRec == [queued : BOOLEAN, next : NameOrNone, at : {"none", "begun", "listed", "read"},
               prefers : NameOrNone, rows : Lists, current : NameOrNone]
WatchRec == [fired : BOOLEAN, syncs : Seq(Names), recent : NameOrNone]
DiskRec == [accounts : SUBSET Store, direct : Store, on : BOOLEAN, backups : SUBSET Store]
SnapRec == [rows : Lists, current : NameOrNone]

StoreType == disk \in DiskRec /\ ref \in NameOrNone /\ watch \in WatchRec
ScreenType == /\ snap \in SnapRec /\ mode \in ModeRec /\ query \in {"", "text"}
              /\ selected \in 1..(Cardinality(Names) + 1)
WorkType == /\ queue \in Seq(Item) /\ feed \in Seq(Item)
            /\ task \in TaskRec /\ undo \in UndoRec /\ refresh \in RefreshRec
            /\ phase \in {"opening", "started", "run", "closing", "closed"}

\* The selection is a row's, if there are any, shown or not.
SelectionIn == Rows # <<>> => selected \in DOMAIN Rows

\* What is under way: who has a refresh that was put off, what a task is about, and
\* what has ended.
TaskInv ==
  /\ task.active => task.op \in {"switch", "desktop"}
  /\ task.op \in {"delete", "import", "unimport", "restore"} => task.name \in Store
  /\ undo.does \in {"restore", "unimport"} => undo.name \in Store
  /\ mode.is = "delete" => mode.name \in Store
  /\ task.op = "delete" => task.name = agreed
EndInv ==
  /\ exit = "signal" => phase \in {"closing", "closed"}
  /\ UndoAccounted /\ QuietExit
DashIInv == StoreType /\ ScreenType /\ WorkType /\ SelectionIn /\ RefreshOwned /\ TaskInv /\ EndInv

-----------------------------------------------------------------------------
(* Lists of rows *)

\* The names: finitely many, the proxy and the store's, and none of them is None.
LEMMA NameFacts ==
  /\ IsFiniteSet(Names) /\ Cardinality(Names) \in Nat /\ None \notin Names
  /\ Store \subseteq Names /\ Names = Store \cup {Proxy} /\ Proxy \notin Store /\ Imported \in Store
<1>0. IsFiniteSet(Accounts)  BY DashboardAssumption
<1>1. Imported # Proxy /\ Proxy # None /\ None # Imported
  <2>1. Cardinality({Imported, Proxy, None}) = 3  BY DashboardAssumption
  <2>2. \A x, y : Cardinality({x, y}) <= 2 /\ Cardinality({x, y}) \in Nat
    <3>1. TAKE x, y
    <3>2. IsFiniteSet({x}) /\ Cardinality({x}) = 1  BY FS_Singleton
    <3>3. {x, y} = {x} \cup {y}
      OBVIOUS
    <3>4. Cardinality({x} \cup {y}) = IF y \in {x} THEN Cardinality({x}) ELSE Cardinality({x}) + 1
      BY <3>2, FS_AddElement
    <3>. QED  BY <3>2, <3>3, <3>4
  <2>3. {Imported, Imported, None} = {Imported, None} /\ {Imported, Proxy, Imported} = {Imported, Proxy}
        /\ {Imported, Proxy, Proxy} = {Imported, Proxy}
    OBVIOUS
  <2>. QED  BY <2>1, <2>2, <2>3
<1>2. Accounts \cap {Imported, Proxy, None} = {}  BY DashboardAssumption
<1>3. IsFiniteSet(Accounts \cup {Imported})  BY <1>0, FS_AddElement
<1>4. IsFiniteSet((Accounts \cup {Imported}) \cup {Proxy})  BY <1>3, FS_AddElement
<1>5. Names = (Accounts \cup {Imported}) \cup {Proxy}  BY DEF Names
<1>. QED  BY <1>1, <1>2, <1>4, <1>5, FS_CardinalityType DEF Store

\* The rank of a matching row among them: it is theirs alone, and each rank is somebody's.
LEMMA Ranks ==
  ASSUME NEW K, NEW n \in Nat, K \subseteq 1..n
  PROVE  /\ Cardinality(K) \in Nat /\ Cardinality(K) <= n
         /\ \A j \in 1..Cardinality(K) : \E i \in K : Cardinality({h \in K : h <= i}) = j
<1>1. IsFiniteSet(1..n) /\ Cardinality(1..n) = n  BY FS_Interval
<1>2. IsFiniteSet(K) /\ Cardinality(K) <= n  BY <1>1, FS_Subset
<1>3. Cardinality(K) \in Nat  BY <1>2, FS_CardinalityType
<1>. DEFINE Low(i) == {h \in K : h <= i}
<1>. DEFINE rank == [i \in K |-> Cardinality(Low(i))]
<1>4. ASSUME NEW i \in K
      PROVE  /\ IsFiniteSet(Low(i)) /\ Cardinality(Low(i)) \in 1..Cardinality(K) /\ rank[i] = Cardinality(Low(i))
  <2>1. Low(i) \subseteq K /\ i \in Low(i)
    OBVIOUS
  <2>2. IsFiniteSet(Low(i)) /\ Cardinality(Low(i)) <= Cardinality(K)  BY <1>2, <2>1, FS_Subset
  <2>3. Cardinality(Low(i)) \in Nat /\ Cardinality(Low(i)) # 0
    BY <2>1, <2>2, FS_CardinalityType, FS_EmptySet
  <2>. QED  BY <1>3, <2>2, <2>3
<1>5. ASSUME NEW i \in K, NEW k \in K, i < k PROVE rank[i] # rank[k]
  <2>0. \A h \in K : h \in Nat
    OBVIOUS
  <2>1. Low(i) \subseteq Low(k) /\ k \in Low(k) /\ k \notin Low(i)
    <3>1. i \in Nat /\ k \in Nat /\ i < k  BY <1>5, <2>0
    <3>2. \A h \in K : h <= i => h <= k  BY <2>0, <3>1
    <3>3. k <= k /\ ~(k <= i)  BY <3>1
    <3>. QED  BY <3>2, <3>3
  <2>2. Low(i) # Low(k)  BY <2>1
  <2>3. Cardinality(Low(i)) # Cardinality(Low(k))  BY <1>4, <2>1, <2>2, FS_Subset
  <2>. QED  BY <1>4, <2>3
<1>6. rank \in Injection(K, 1..Cardinality(K))
  <2>1. rank \in [K -> 1..Cardinality(K)]  BY <1>4
  <2>2. \A i, k \in K : rank[i] = rank[k] => i = k  BY <1>5
  <2>. HIDE DEF rank
  <2>. QED  BY <2>1, <2>2 DEF Injection, IsInjective
<1>7. IsFiniteSet(1..Cardinality(K)) /\ Cardinality(1..Cardinality(K)) = Cardinality(K)  BY <1>3, FS_Interval
<1>8. rank \in Surjection(K, 1..Cardinality(K))
  <2>. HIDE DEF rank
  <2>. QED  BY <1>6, <1>7, FS_Injection
<1>9. \A j \in 1..Cardinality(K) : \E i \in K : rank[i] = j
  <2>. HIDE DEF rank
  <2>. QED  BY <1>8 DEF Surjection
<1>. QED  BY <1>2, <1>3, <1>4, <1>9

\* A filter leaves a list of rows, no longer than it was.
LEMMA FilterLists ==
  ASSUME NEW rows \in Lists
  PROVE  Matches(rows) \in Lists /\ Filtered(rows) \in Lists
<1>1. rows \in Seq(Names) /\ Len(rows) \in Nat /\ DOMAIN rows = 1..Len(rows) /\ Len(rows) <= Cardinality(Names)
  BY DEF Lists
<1>. DEFINE K == Kept(rows)
            n == Cardinality(K)
            at(j) == CHOOSE i \in K : Cardinality(Upto(rows, i)) = j
<1>2. K \subseteq 1..Len(rows)  BY <1>1 DEF Kept
<1>. HIDE DEF K
<1>3. n \in Nat /\ n <= Len(rows) /\ \A j \in 1..n : \E i \in K : Cardinality({h \in K : h <= i}) = j
  BY <1>1, <1>2, Ranks
<1>4. ASSUME NEW j \in 1..n PROVE at(j) \in K
  <2>1. \E i \in K : Cardinality(Upto(rows, i)) = j  BY <1>3 DEF Upto, K
  <2>. QED  BY <2>1
<1>5. Matches(rows) = [j \in 1..n |-> rows[at(j)]]  BY DEF Matches, K
<1>. HIDE DEF n, at
<1>6. \A j \in 1..n : rows[at(j)] \in Names
  <2>1. \A i \in 1..Len(rows) : rows[i] \in Names  BY <1>1
  <2>. QED  BY <1>2, <1>4, <2>1
<1>7. Matches(rows) \in Seq(Names) /\ Len(Matches(rows)) = n
  BY <1>3, <1>5, <1>6
<1>8. Cardinality(Names) \in Nat  BY NameFacts
<1>9. Matches(rows) \in Lists  BY <1>1, <1>3, <1>7, <1>8 DEF Lists
<1>. QED  BY <1>9 DEF Filtered

\* The proxy's row is always there.
LEMMA ListingLists ==
  ASSUME disk \in DiskRec, NEW rows \in Listings
  PROVE  rows \in Lists /\ rows # <<>>
<1>1. disk.accounts \subseteq Store  BY DEF DiskRec
<1>2. IsFiniteSet(disk.accounts) /\ Cardinality(disk.accounts) + 1 <= Cardinality(Names)
      /\ Cardinality(disk.accounts) \in Nat
  <2>1. disk.accounts \cup {Proxy} \subseteq Names /\ Proxy \notin disk.accounts /\ disk.accounts \subseteq Names
    BY <1>1, NameFacts
  <2>2. IsFiniteSet(disk.accounts)  BY <2>1, NameFacts, FS_Subset
  <2>3. Cardinality(disk.accounts \cup {Proxy}) = Cardinality(disk.accounts) + 1  BY <2>1, <2>2, FS_AddElement
  <2>4. Cardinality(disk.accounts \cup {Proxy}) <= Cardinality(Names)  BY <2>1, NameFacts, FS_Subset
  <2>. QED  BY <2>2, <2>3, <2>4, FS_CardinalityType
<1>. DEFINE n == Cardinality(disk.accounts)
            orders == SetToSeqs(disk.accounts)
<1>3. \E order : order \in orders
  <2>1. ExistsBijection(1..n, disk.accounts)  BY <1>2, FS_CardinalityType
  <2>2. PICK f : f \in Bijection(1..n, disk.accounts)  BY <2>1 DEF ExistsBijection
  <2>3. f \in [1..n -> disk.accounts] /\ \A i, j \in 1..n : i # j => f[i] # f[j]
    BY <2>2 DEF Bijection, Injection, IsInjective
  <2>. QED  BY <2>3 DEF SetToSeqs
<1>4. ASSUME NEW order \in orders PROVE order \in Seq(Names) /\ Len(order) = n
  <2>1. order \in [1..n -> disk.accounts]  BY DEF SetToSeqs
  <2>. QED  BY <1>1, <1>2, <2>1, NameFacts
<1>5. PICK order \in orders : rows = <<Proxy>> \o order  BY <1>3 DEF Listings
<1>6. <<Proxy>> \in Seq(Names) /\ Len(<<Proxy>>) = 1  BY NameFacts
<1>7. rows \in Seq(Names) /\ Len(rows) = 1 + n  BY <1>2, <1>4, <1>5, <1>6
<1>. QED  BY <1>2, <1>7, NameFacts DEF Lists

-----------------------------------------------------------------------------
(* What the operators give *)

\* A name's place is a row's, the first if it has none.
LEMMA PlaceIn ==
  ASSUME NEW rows \in Lists, rows # <<>>, NEW name
  PROVE  Place(rows, name) \in DOMAIN rows
<1>1. rows \in Seq(Names) /\ DOMAIN rows = 1..Len(rows) /\ Len(rows) \in Nat  BY DEF Lists
<1>2. 1 \in DOMAIN rows  BY <1>1
<1>3. CASE Contains(rows, name)
  <2>1. \E i \in DOMAIN rows : rows[i] = name  BY <1>1, <1>3 DEF Contains
  <2>. QED  BY <1>3, <2>1 DEF Place
<1>4. CASE ~Contains(rows, name)  BY <1>2, <1>4 DEF Place
<1>. QED  BY <1>3, <1>4

\* The places of a list are those that selected may have.
LEMMA Places ==
  ASSUME NEW rows \in Lists
  PROVE  /\ DOMAIN rows \subseteq 1..(Cardinality(Names) + 1) /\ 1 \in 1..(Cardinality(Names) + 1)
         /\ rows # <<>> => 1 \in DOMAIN rows
<1>1. rows \in Seq(Names) /\ DOMAIN rows = 1..Len(rows) /\ Len(rows) \in Nat /\ Len(rows) <= Cardinality(Names)
  BY DEF Lists
<1>. QED  BY <1>1, NameFacts

\* resolvePreferredSelection selects a row, if there are any.
LEMMA PreferredIn ==
  ASSUME NEW rows \in Lists, NEW current, NEW name
  PROVE  /\ Preferred(rows, current, name) \in 1..(Cardinality(Names) + 1)
         /\ rows # <<>> => Preferred(rows, current, name) \in DOMAIN rows
<1>1. CASE rows = <<>>  BY <1>1, Places DEF Preferred
<1>2. CASE rows # <<>>
  <2>1. Place(rows, name) \in DOMAIN rows /\ Place(rows, current) \in DOMAIN rows  BY <1>2, PlaceIn
  <2>2. Preferred(rows, current, name) \in DOMAIN rows  BY <1>2, <2>1 DEF Preferred
  <2>. QED  BY <2>2, Places
<1>. QED  BY <1>1, <1>2

\* The rows shown are a list; what is selected is one of them, if there are any.
LEMMA RowsLists ==
  ASSUME ScreenType
  PROVE  Rows \in Lists /\ Row \in NameOrNone
<1>1. Rows \in Lists  BY FilterLists DEF Rows, ScreenType, SnapRec
<1>2. Rows \in Seq(Names)  BY <1>1 DEF Lists
<1>. QED  BY <1>1, <1>2 DEF Row, NameOrNone

\* moveSelection stays within the rows.
LEMMA MovedIn ==
  ASSUME ScreenType, SelectionIn, NEW k
  PROVE  /\ Moved(k) \in 1..(Cardinality(Names) + 1)
         /\ Rows # <<>> => Moved(k) \in DOMAIN Rows
<1>1. Rows \in Lists  BY RowsLists
<1>2. selected \in 1..(Cardinality(Names) + 1)  BY DEF ScreenType
<1>3. CASE Rows = <<>>  BY <1>2, <1>3 DEF Moved
<1>4. CASE Rows # <<>>
  <2>1. Rows \in Seq(Names) /\ DOMAIN Rows = 1..Len(Rows) /\ Len(Rows) \in Nat  BY <1>1 DEF Lists
  <2>2. Len(Rows) # 0 /\ selected \in 1..Len(Rows)  BY <1>4, <2>1 DEF SelectionIn
  <2>3. Moved(k) \in 1..Len(Rows)  BY <1>4, <2>1, <2>2 DEF Moved
  <2>. QED  BY <1>1, <2>1, <2>3, Places
<1>. QED  BY <1>3, <1>4

\* A load that begins has taken the request over.
LEMMA StartType ==
  ASSUME NEW r \in RefreshRec
  PROVE  Start(r) \in RefreshRec /\ Start(r).at = "begun" /\ ~Start(r).queued
BY DEF RefreshRec, Start, NameOrNone

\* A request puts a refresh off only during an operation.
LEMMA RequestType ==
  ASSUME NEW r \in RefreshRec, NEW name \in NameOrNone, NEW active \in BOOLEAN
  PROVE  Request(r, name, active) \in RefreshRec /\ (Request(r, name, active).at # "none" \/ active)
<1>. DEFINE q == [r EXCEPT !.queued = TRUE, !.next = IF name # None THEN name ELSE @]
<1>1. q \in RefreshRec /\ q.at = r.at  BY DEF RefreshRec
<1>2. Request(r, name, active) = IF active \/ r.at # "none" THEN q ELSE Start(q)  BY DEF Request
<1>. HIDE DEF q
<1>. QED  BY <1>1, <1>2, StartType

\* What an operation put off is begun when it is over.
LEMMA ResumeType ==
  ASSUME NEW r \in RefreshRec
  PROVE  Resume(r) \in RefreshRec /\ (Resume(r).queued => Resume(r).at # "none")
<1>1. None \in NameOrNone  BY DEF NameOrNone
<1>. QED  BY <1>1, RequestType DEF Resume

\* A request that came during a load begins the next one.
LEMMA LoopType ==
  ASSUME NEW r \in RefreshRec
  PROVE  Loop(r) \in RefreshRec /\ (Shown /\ Loop(r).queued => Loop(r).at # "none")
<1>. DEFINE ended == [NoRefresh EXCEPT !.queued = r.queued, !.next = r.next]
<1>1. <<>> \in Lists  BY NameFacts DEF Lists
<1>2. ended \in RefreshRec /\ ended.queued = r.queued  BY <1>1 DEF NoRefresh, RefreshRec, NameOrNone
<1>3. Loop(r) = IF ended.queued /\ Shown THEN Start(ended) ELSE ended  BY DEF Loop
<1>. HIDE DEF ended
<1>. QED  BY <1>2, <1>3, StartType

\* Requests by handlers and by operations leave no refresh to nobody.
LEMMA AskedType ==
  ASSUME refresh \in RefreshRec, NEW name \in NameOrNone
  PROVE  /\ Asked(name) \in RefreshRec /\ (Shown => Asked(name).at # "none")
         /\ AskedByOperation(name) \in RefreshRec
         /\ Shown /\ AskedByOperation(name).queued => AskedByOperation(name).at # "none"
BY RequestType, ResumeType DEF Asked, AskedByOperation

\* The values for nothing are typed.
LEMMA NoneTypes ==
  /\ NoTask \in TaskRec /\ NoUndo \in UndoRec /\ NoRefresh \in RefreshRec /\ NoWatch \in WatchRec
  /\ Browse \in ModeRec /\ None \in NameOrNone /\ Proxy \in NameOrNone /\ Imported \in NameOrNone
<1>1. <<>> \in Lists /\ <<>> \in Seq(Names)  BY NameFacts DEF Lists
<1>2. None \in NameOrNone /\ Proxy \in NameOrNone /\ Imported \in NameOrNone  BY NameFacts DEF NameOrNone
<1>3. NoTask \in TaskRec  BY <1>2 DEF NoTask, TaskRec, Afters
<1>4. NoUndo \in UndoRec  BY <1>2 DEF NoUndo, UndoRec
<1>5. NoRefresh \in RefreshRec  BY <1>1, <1>2 DEF NoRefresh, RefreshRec
<1>6. NoWatch \in WatchRec  BY <1>1, <1>2 DEF NoWatch, WatchRec
<1>7. Browse \in ModeRec  BY <1>2 DEF Browse, ModeRec, Afters
<1>. QED  BY <1>2, <1>3, <1>4, <1>5, <1>6, <1>7

\* A switch is active; Desktop may be opened without one.
LEMMA SwitchRowType ==
  ASSUME NEW name \in NameOrNone, NEW force \in BOOLEAN, NEW after \in Afters
  PROVE  /\ SwitchRow(name, force, after) \in TaskRec
         /\ SwitchRow(name, force, after).op \in {"none", "switch", "desktop"}
         /\ SwitchRow(name, force, after).active => SwitchRow(name, force, after).op = "switch"
<1>. DEFINE s == [NoTask EXCEPT !.op = "switch", !.name = name, !.force = force, !.after = after,
                                !.active = TRUE]
            d == [NoTask EXCEPT !.op = "desktop", !.name = name, !.after = after]
<1>1. s \in TaskRec /\ s.op = "switch"  BY NoneTypes DEF NoTask, TaskRec
<1>2. d \in TaskRec /\ d.op = "desktop" /\ ~d.active  BY NoneTypes DEF NoTask, TaskRec
<1>3. SwitchRow(name, force, after) \in {s, d, NoTask}  BY DEF SwitchRow
<1>4. NoTask \in TaskRec /\ NoTask.op = "none" /\ ~NoTask.active  BY NoneTypes DEF NoTask
<1>. HIDE DEF s, d
<1>. QED  BY <1>1, <1>2, <1>3, <1>4

\* The label is the name of an account or the proxy.
LEMMA LabelType ==
  ASSUME disk \in DiskRec
  PROVE  Label \in Names
BY NameFacts DEF DiskRec, Label

\* The rest of the queue, and its first.
LEMMA QueueType ==
  ASSUME NEW s \in Seq(Item), s # <<>>
  PROVE  Tail(s) \in Seq(Item) /\ Head(s) \in Item
OBVIOUS

\* A list without one of its elements.
LEMMA RemoveAtType ==
  ASSUME NEW S, NEW s \in Seq(S), NEW i \in DOMAIN s
  PROVE  RemoveAt(s, i) \in Seq(S)
<1>1. i \in 1..Len(s) /\ Len(s) \in Nat
  OBVIOUS
<1>2. SubSeq(s, 1, i - 1) \in Seq(S)
  BY <1>1, SubSeqProperties
<1>3. SubSeq(s, i + 1, Len(s)) \in Seq(S)
  BY <1>1, SubSeqProperties
<1>. QED  BY <1>2, <1>3 DEF RemoveAt

-----------------------------------------------------------------------------
(* Refreshes and the exit *)

\* The same rows and the same selection.
LEMMA SameRows ==
  ASSUME SelectionIn, snap'.rows = snap.rows, query' = query, selected' = selected
  PROVE  SelectionIn'
BY DEF SelectionIn, Rows, Filtered

\* A load begins, goes on or fails, and the timer asks for one.
LEMMA RefreshKeeps ==
  ASSUME DashIInv, LoadLists \/ LoadReadsCurrent \/ LoadFails \/ Tick
  PROVE  DashIInv'
<1>. USE DEF DashIInv
<1>1. refresh \in RefreshRec /\ disk \in DiskRec  BY DEF WorkType, StoreType
<1>2. UNCHANGED <<disk, screen, queue, task, undo, phase, exit, monitor, agreed, lost>>
  BY DEF LoadLists, LoadReadsCurrent, LoadFails, Tick, world
<1>3. refresh' \in RefreshRec
  <2>1. CASE LoadLists  BY <1>1, <2>1, ListingLists DEF LoadLists, RefreshRec
  <2>2. CASE LoadReadsCurrent  BY <1>1, <2>2, LabelType DEF LoadReadsCurrent, RefreshRec, NameOrNone
  <2>3. CASE LoadFails  BY <1>1, <2>3, LoopType DEF LoadFails
  <2>4. CASE Tick  BY <1>1, <2>4, RequestType, NoneTypes DEF Tick
  <2>. QED  BY <2>1, <2>2, <2>3, <2>4
<1>4. Shown /\ refresh'.queued => refresh'.at # "none" \/ task.active
  <2>1. CASE LoadLists  BY <1>1, <2>1 DEF LoadLists, RefreshRec
  <2>2. CASE LoadReadsCurrent  BY <1>1, <2>2 DEF LoadReadsCurrent, RefreshRec
  <2>3. CASE LoadFails  BY <1>1, <2>3, LoopType DEF LoadFails
  <2>4. CASE Tick  BY <1>1, <2>4, RequestType, NoneTypes DEF Tick
  <2>. QED  BY <2>1, <2>2, <2>3, <2>4
<1>5. refresh.at # "none" \/ Shown
  BY DEF LoadLists, LoadReadsCurrent, LoadFails, Tick
<1>6. StoreType' /\ ScreenType'  BY <1>2 DEF StoreType, ScreenType, screen, monitor
<1>7. WorkType'  BY <1>2, <1>3 DEF WorkType, monitor
<1>8. SelectionIn'  BY <1>2, SameRows DEF screen
<1>9. RefreshOwned' /\ TaskInv'  BY <1>2, <1>4 DEF RefreshOwned, TaskInv, Shown, screen
<1>10. EndInv'  BY <1>2, <1>5 DEF EndInv, UndoAccounted, QuietExit, Shown, Backup
<1>. QED  BY <1>6, <1>7, <1>8, <1>9, <1>10

\* The rows that a refresh brings are shown with a row of them selected.
LEMMA LoadReturnsKeeps ==
  ASSUME DashIInv, LoadReturns
  PROVE  DashIInv'
<1>. USE DEF DashIInv
<1>1. refresh \in RefreshRec /\ refresh.rows \in Lists  BY DEF WorkType, RefreshRec
<1>2. /\ refresh' = Loop(refresh) /\ refresh.at = "read"
      /\ UNCHANGED <<disk, query, mode, queue, task, undo, phase, exit, monitor, agreed, lost>>
  BY DEF LoadReturns
<1>5. SelectionIn' /\ ScreenType'
  <2>1. CASE Shown
    <3>1. snap' = [rows |-> refresh.rows, current |-> refresh.current]
          /\ selected' = Preferred(Filtered(refresh.rows), refresh.current, refresh.prefers)
      BY <2>1 DEF LoadReturns
    <3>2. Rows' = Filtered(refresh.rows)  BY <1>2, <3>1 DEF Rows, Filtered
    <3>3. Filtered(refresh.rows) \in Lists  BY <1>1, FilterLists
    <3>4. SelectionIn' /\ selected' \in 1..(Cardinality(Names) + 1)
      BY <3>1, <3>2, <3>3, PreferredIn DEF SelectionIn
    <3>5. snap' \in SnapRec  BY <1>1, <3>1 DEF SnapRec, RefreshRec
    <3>. QED  BY <1>2, <3>4, <3>5 DEF ScreenType
  <2>2. CASE ~Shown
    <3>1. UNCHANGED <<snap, selected>>  BY <2>2 DEF LoadReturns
    <3>. QED  BY <1>2, <3>1, SameRows DEF ScreenType
  <2>. QED  BY <2>1, <2>2
<1>6. StoreType'  BY <1>2 DEF StoreType, monitor
<1>7. WorkType'  BY <1>1, <1>2, LoopType DEF WorkType, monitor
<1>8. RefreshOwned' /\ TaskInv'  BY <1>1, <1>2, LoopType DEF RefreshOwned, TaskInv, Shown
<1>9. EndInv'  BY <1>2 DEF EndInv, UndoAccounted, QuietExit, Backup
<1>. QED  BY <1>5, <1>6, <1>7, <1>8, <1>9

\* What finish and cleanup leave, but for the task, which goes on.
LEMMA Ended ==
  ASSUME DashIInv, NEW action, End(action), Shown, UNCHANGED lost,
         task'.op = "restore" <=> task.op = "restore", task.op = "restore" => task'.name = task.name
  PROVE  /\ disk' \in DiskRec /\ disk'.accounts = disk.accounts /\ queue' \in Seq(Item) /\ undo' = NoUndo
         /\ phase' = "closing" /\ exit' = action /\ EndInv'
<1>. USE DEF DashIInv
<1>1. exit # "signal"  BY DEF EndInv, Shown
<1>2. disk \in DiskRec /\ disk' = [disk EXCEPT !.backups = disk.backups \ Backup(undo)]
  BY DEF StoreType, End, Discards
<1>3. disk' \in DiskRec /\ disk'.accounts = disk.accounts /\ disk'.backups = disk.backups \ Backup(undo)
  BY <1>2 DEF DiskRec
<1>4. queue' = <<>> /\ undo' = NoUndo /\ phase' = "closing" /\ exit' = action  BY DEF End
<1>5. disk.backups \subseteq lost \cup Backup(undo) \cup (IF task.op = "restore" THEN {task.name} ELSE {})
  BY <1>1 DEF EndInv, UndoAccounted
<1>6. UndoAccounted'
  <2>1. CASE action = "signal"  BY <1>4, <2>1 DEF UndoAccounted
  <2>2. CASE action # "signal"
    <3>1. disk.backups \ Backup(undo) \subseteq lost \cup (IF task'.op = "restore" THEN {task'.name} ELSE {})
      BY <1>5, <2>2
    <3>. QED  BY <1>3, <3>1 DEF UndoAccounted
  <2>. QED  BY <2>1, <2>2
<1>7. EndInv'  BY <1>4, <1>6 DEF EndInv, QuietExit
<1>. QED  BY <1>3, <1>4, <1>7

\* An exit by a key, and one by a signal, which aborts the operation.
LEMMA ExitKeeps ==
  ASSUME DashIInv, Shown, UNCHANGED <<screen, refresh, monitor, agreed, lost>>,
         \/ \E action : action # "signal" /\ End(action) /\ UNCHANGED task
         \/ End("signal") /\ task' = [task EXCEPT !.aborted = task.active]
  PROVE  DashIInv'
<1>. USE DEF DashIInv
<1>1. task \in TaskRec  BY DEF WorkType
<1>2. /\ task' \in TaskRec /\ task'.op = task.op /\ task'.name = task.name /\ task'.active = task.active
  BY <1>1 DEF TaskRec
<1>3. /\ disk' \in DiskRec /\ disk'.accounts = disk.accounts /\ queue' \in Seq(Item) /\ undo' = NoUndo
      /\ phase' = "closing" /\ EndInv'
  <2>1. CASE End("signal")  BY <1>2, <2>1, Ended
  <2>2. ASSUME NEW action, End(action) PROVE disk' \in DiskRec /\ disk'.accounts = disk.accounts /\ queue' \in Seq(Item)
                /\ undo' = NoUndo /\ phase' = "closing" /\ EndInv'
     BY <1>2, <2>2, Ended
  <2>. QED  BY <2>1, <2>2
<1>4. StoreType' /\ ScreenType'  BY <1>3 DEF StoreType, ScreenType, screen, monitor
<1>5. WorkType'  BY <1>2, <1>3, NoneTypes DEF WorkType, monitor
<1>6. SelectionIn'  BY SameRows DEF screen
<1>7. RefreshOwned' /\ TaskInv'  BY <1>2, <1>3 DEF RefreshOwned, TaskInv, Shown, screen, NoUndo
<1>. QED  BY <1>3, <1>4, <1>5, <1>6, <1>7

\* The dashboard returns, is opened again, starts its monitors and begins.
LEMMA PhaseKeeps ==
  ASSUME DashIInv, Return \/ StartMonitors \/ Subscribe
  PROVE  DashIInv'
<1>. USE DEF DashIInv
<1>1. UNCHANGED <<disk, screen, task, undo, exit, agreed, lost>>
  BY DEF Return, StartMonitors, Subscribe
<1>2. phase' # "closed" \/ Settled
  BY DEF Return, StartMonitors, Subscribe
<1>3. refresh' \in RefreshRec /\ (phase' = "run" => ~refresh'.queued)
  <2>1. refresh \in RefreshRec  BY DEF WorkType
  <2>. QED  BY <2>1, StartType DEF Return, StartMonitors, Subscribe
<1>4. watch' \in WatchRec /\ ref' \in NameOrNone
  <2>1. watch \in WatchRec /\ ref \in NameOrNone /\ Label \in NameOrNone
    BY LabelType DEF StoreType, NameOrNone
  <2>. QED  BY <2>1, NoneTypes DEF Return, StartMonitors, Subscribe
<1>5. queue' \in Seq(Item) /\ feed' \in Seq(Item) /\ phase' \in {"run", "started", "closed"}
  <2>1. queue \in Seq(Item) /\ feed \in Seq(Item) /\ <<>> \in Seq(Item)  BY DEF WorkType
  <2>. QED  BY <2>1 DEF Return, StartMonitors, Subscribe
<1>6. exit' = "signal" => phase' = "closed"  BY DEF Return, StartMonitors, Subscribe, EndInv
<1>7. phase' = "closed" => refresh' = refresh  BY DEF Return, StartMonitors, Subscribe
<1>8. StoreType' /\ ScreenType'  BY <1>1, <1>4 DEF StoreType, ScreenType, screen
<1>9. WorkType'  BY <1>1, <1>3, <1>5 DEF WorkType
<1>10. SelectionIn'  BY <1>1, SameRows DEF screen
<1>11. RefreshOwned' /\ TaskInv'  BY <1>1, <1>3 DEF RefreshOwned, TaskInv, Shown, screen
<1>12. EndInv'  BY <1>1, <1>2, <1>6, <1>7 DEF EndInv, UndoAccounted, QuietExit, Backup, Settled
<1>. QED  BY <1>8, <1>9, <1>10, <1>11, <1>12

\* The dashboard is opened again with fresh rows, the first of them selected.
LEMMA ReopenKeeps ==
  ASSUME DashIInv, Reopen
  PROVE  DashIInv'
<1>. USE DEF DashIInv
<1>1. /\ UNCHANGED <<disk, queue, task, undo, monitor, agreed, lost>>
      /\ selected' = 1 /\ query' = "" /\ mode' = Browse /\ phase' = "opening" /\ exit' = "none"
      /\ refresh' = NoRefresh /\ exit # "signal"
  BY DEF Reopen
<1>2. PICK rows \in Listings : snap' = [rows |-> rows, current |-> Label]  BY DEF Reopen
<1>3. disk \in DiskRec  BY DEF StoreType
<1>4. rows \in Lists /\ rows # <<>> /\ Label \in NameOrNone  BY <1>3, ListingLists, LabelType DEF NameOrNone
<1>5. Rows' = rows  BY <1>1, <1>2 DEF Rows, Filtered
<1>6. SelectionIn'
  <2>1. rows \in Seq(Names)  BY <1>4 DEF Lists
  <2>2. 1 \in DOMAIN rows  BY <1>4, <2>1
  <2>. QED  BY <1>1, <1>5, <2>2 DEF SelectionIn
<1>7. ScreenType'  BY <1>1, <1>2, <1>4, NoneTypes, Places DEF ScreenType, SnapRec
<1>8. StoreType' /\ WorkType'  BY <1>1, NoneTypes DEF StoreType, WorkType, monitor
<1>9. RefreshOwned' /\ TaskInv'  BY <1>1 DEF RefreshOwned, TaskInv, Shown, Browse
<1>10. EndInv'  BY <1>1 DEF EndInv, UndoAccounted, QuietExit, Backup
<1>. QED  BY <1>6, <1>7, <1>8, <1>9, <1>10

\* Another process switches, and the watcher follows.
LEMMA WatcherKeeps ==
  ASSUME DashIInv, SwitchedByOther \/ SyncReads \/ \E i \in DOMAIN watch.syncs : SyncEnds(i)
  PROVE  DashIInv'
<1>. USE DEF DashIInv
<1>1. UNCHANGED <<screen, task, undo, refresh, phase, exit, agreed, lost>>
  BY DEF SwitchedByOther, SyncReads, SyncEnds
<1>2. disk \in DiskRec /\ watch \in WatchRec /\ Label \in Names  BY LabelType DEF StoreType
<1>3. queue \in Seq(Item) /\ feed \in Seq(Item)  BY DEF WorkType
<1>4. disk' \in DiskRec /\ disk'.backups = disk.backups
  BY <1>2 DEF SwitchedByOther, SyncReads, SyncEnds, DiskRec
<1>6. watch' \in WatchRec /\ ref' \in NameOrNone /\ queue' \in Seq(Item) /\ feed' \in Seq(Item)
  <2>1. CASE SwitchedByOther
    <3>1. watch' \in WatchRec  BY <1>2, <2>1 DEF SwitchedByOther, Wake, WatchRec
    <3>. QED  BY <1>3, <2>1, <3>1 DEF SwitchedByOther, StoreType
  <2>2. CASE SyncReads
    <3>1. Append(watch.syncs, Label) \in Seq(Names)  BY <1>2 DEF WatchRec
    <3>2. watch' \in WatchRec  BY <1>2, <2>2, <3>1 DEF SyncReads, WatchRec
    <3>. QED  BY <1>3, <2>2, <3>2 DEF SyncReads, StoreType
  <2>3. CASE \E i \in DOMAIN watch.syncs : SyncEnds(i)
    <3>1. PICK i \in DOMAIN watch.syncs : SyncEnds(i)  BY <2>3
    <3>2. watch.syncs \in Seq(Names) /\ watch.syncs[i] \in Names  BY <1>2 DEF WatchRec
    <3>3. RemoveAt(watch.syncs, i) \in Seq(Names)  BY <3>2, RemoveAtType
    <3>. DEFINE next == watch.syncs[i]
                rest == [watch EXCEPT !.syncs = RemoveAt(@, i)]
    <3>4. rest \in WatchRec /\ [rest EXCEPT !.recent = next] \in WatchRec
      BY <1>2, <3>2, <3>3 DEF WatchRec, NameOrNone
    <3>5. Update(next) \in Item  BY <3>2 DEF Update, Item, NameOrNone
    <3>6. ref' = next /\ \/ watch' = rest /\ UNCHANGED <<queue, feed>>
                         \/ watch' = [rest EXCEPT !.recent = next] /\ Emit(Update(next))
      BY <3>1 DEF SyncEnds
    <3>7. Append(queue, Update(next)) \in Seq(Item) /\ Append(feed, Update(next)) \in Seq(Item)
      BY <1>3, <3>5
    <3>. HIDE DEF next, rest
    <3>8. queue' \in Seq(Item) /\ feed' \in Seq(Item)
      BY <1>3, <3>6, <3>7 DEF Emit
    <3>9. next \in NameOrNone  BY <3>2 DEF next, NameOrNone
    <3>. QED  BY <3>4, <3>6, <3>8, <3>9
  <2>. QED  BY <2>1, <2>2, <2>3
<1>7. StoreType' /\ ScreenType'  BY <1>1, <1>4, <1>6 DEF StoreType, ScreenType, screen
<1>8. WorkType'  BY <1>1, <1>6 DEF WorkType
<1>9. SelectionIn'  BY <1>1, SameRows DEF screen
<1>10. RefreshOwned' /\ TaskInv'  BY <1>1 DEF RefreshOwned, TaskInv, Shown, screen
<1>11. EndInv'  BY <1>1, <1>4 DEF EndInv, UndoAccounted, QuietExit, Backup
<1>. QED  BY <1>7, <1>8, <1>9, <1>10, <1>11

-----------------------------------------------------------------------------
(* Keys *)

\* A handler's turn: nothing runs, and a refresh has its load.
LEMMA TurnFacts ==
  ASSUME DashIInv, NEW k, NEW modes, Turn(k, modes)
  PROVE  /\ Shown /\ task.op = "none" /\ ~task.active /\ exit # "signal" /\ mode.is \in modes
         /\ Tail(queue) \in Seq(Item) /\ Head(queue).name \in NameOrNone
         /\ refresh.queued => refresh.at # "none"
         /\ disk.backups \subseteq lost \cup Backup(undo)
<1>. USE DEF DashIInv
<1>1. Shown /\ task.op = "none" /\ queue # <<>> /\ mode.is \in modes  BY DEF Turn
<1>2. queue \in Seq(Item)  BY DEF WorkType
<1>3. Tail(queue) \in Seq(Item) /\ Head(queue) \in Item  BY <1>1, <1>2, QueueType
<1>4. Head(queue).name \in NameOrNone  BY <1>3 DEF Item
<1>5. ~task.active  BY <1>1 DEF TaskInv
<1>6. exit # "signal"  BY <1>1 DEF Shown, EndInv
<1>7. refresh.queued => refresh.at # "none"  BY <1>1, <1>5 DEF RefreshOwned
<1>8. disk.backups \subseteq lost \cup Backup(undo)  BY <1>1, <1>6 DEF EndInv, UndoAccounted
<1>. QED  BY <1>1, <1>3, <1>4, <1>5, <1>6, <1>7, <1>8

\* A prompt that may be shown next: a delete is of an account.
Prompt(m) == m \in ModeRec /\ (m.is = "delete" => m.name \in Store)

\* The prompt shown may stay, and browsing may always come next.
LEMMA Prompts ==
  ASSUME DashIInv
  PROVE  Prompt(mode) /\ Prompt(Browse)
BY NoneTypes DEF DashIInv, ScreenType, TaskInv, Prompt, Browse

\* What a handler that only changes the screen leaves.
LEMMA LookKeeps ==
  ASSUME DashIInv, NEW k, NEW modes, Turn(k, modes), NEW m, NEW at, NEW q, Look(m, at, q), Prompt(m),
         \/ q = query /\ at \in 1..(Cardinality(Names) + 1) /\ (Rows # <<>> => at \in DOMAIN Rows)
         \/ q \in {"", "text"} /\ at = 1
  PROVE  DashIInv'
<1>. USE DEF DashIInv
<1>1. /\ mode' = m /\ selected' = at /\ query' = q /\ queue' = Tail(queue)
      /\ UNCHANGED <<disk, snap, task, undo, refresh, phase, exit, monitor, agreed, lost>>
  BY DEF Look
<1>2. snap \in SnapRec /\ snap.rows \in Lists /\ query \in {"", "text"}  BY DEF ScreenType, SnapRec
<1>3. /\ selected' \in 1..(Cardinality(Names) + 1) /\ query' \in {"", "text"} /\ SelectionIn'
  <2>1. CASE q = query /\ at \in 1..(Cardinality(Names) + 1) /\ (Rows # <<>> => at \in DOMAIN Rows)
    <3>1. Rows' = Rows  BY <1>1, <2>1 DEF Rows, Filtered
    <3>. QED  BY <1>1, <1>2, <2>1, <3>1 DEF SelectionIn
  <2>2. CASE q \in {"", "text"} /\ at = 1
    <3>1. Rows' \in Lists
      <4>1. Rows' = IF q = "" THEN snap.rows ELSE Matches(snap.rows)  BY <1>1 DEF Rows, Filtered
      <4>. QED  BY <1>2, <4>1, FilterLists
    <3>2. Rows' # <<>> => 1 \in DOMAIN Rows'  BY <3>1, Places
    <3>. QED  BY <1>1, <2>2, <3>1, <3>2, Places DEF SelectionIn
  <2>. QED  BY <2>1, <2>2
<1>4. StoreType' /\ ScreenType'  BY <1>1, <1>3 DEF StoreType, ScreenType, monitor, Prompt
<1>5. WorkType'  BY <1>1, TurnFacts DEF WorkType, monitor
<1>6. RefreshOwned' /\ TaskInv'  BY <1>1 DEF RefreshOwned, TaskInv, Shown, Prompt
<1>7. EndInv'  BY <1>1 DEF EndInv, UndoAccounted, QuietExit, Backup
<1>. QED  BY <1>3, <1>4, <1>5, <1>6, <1>7

\* An operation that a key may begin; ConfirmDelete is a case of its own.
Begun(t) ==
  /\ t \in TaskRec /\ t.op # "delete"
  /\ t.active => t.op \in {"switch", "desktop"}
  /\ t.op \in {"import", "unimport", "restore"} => t.name \in Store

\* What a handler leaves that begins an operation.
LEMMA RunKeeps ==
  ASSUME DashIInv, NEW k, NEW modes, Turn(k, modes), NEW t, NEW m, Run(t, m), Begun(t), Prompt(m)
  PROVE  DashIInv'
<1>. USE DEF DashIInv
<1>1. /\ task' = t /\ mode' = m /\ queue' = Tail(queue)
      /\ UNCHANGED <<disk, snap, selected, query, undo, refresh, phase, exit, monitor, agreed, lost>>
  BY DEF Run
<1>2. StoreType' /\ ScreenType'  BY <1>1 DEF StoreType, ScreenType, monitor, Prompt
<1>3. WorkType'  BY <1>1, TurnFacts DEF WorkType, monitor, Begun
<1>4. SelectionIn'  BY <1>1, SameRows
<1>5. RefreshOwned' /\ TaskInv'  BY <1>1, TurnFacts DEF RefreshOwned, TaskInv, Shown, Prompt, Begun
<1>6. EndInv'  BY <1>1, TurnFacts DEF EndInv, UndoAccounted, QuietExit, Backup, Shown
<1>. QED  BY <1>2, <1>3, <1>4, <1>5, <1>6

\* The operations that keys begin.
LEMMA BegunTasks ==
  /\ Begun(NoTask)
  /\ \A op \in {"export", "preview", "auto", "protect"}, name \in NameOrNone :
       Begun([NoTask EXCEPT !.op = op, !.name = name]) /\ Begun([NoTask EXCEPT !.op = op])
  /\ Begun([NoTask EXCEPT !.op = "import", !.name = Imported])
  /\ \A name \in NameOrNone, force \in BOOLEAN, after \in Afters :
       /\ Begun(SwitchRow(name, force, after))
       /\ Begun([NoTask EXCEPT !.op = "cleanup", !.force = force, !.after = after])
<1>1. NoTask \in TaskRec /\ NoTask.op = "none" /\ ~NoTask.active  BY NoneTypes DEF NoTask
<1>2. Begun(NoTask)  BY <1>1 DEF Begun
<1>3. ASSUME NEW op \in {"export", "preview", "auto", "protect"}, NEW name \in NameOrNone
      PROVE  Begun([NoTask EXCEPT !.op = op, !.name = name]) /\ Begun([NoTask EXCEPT !.op = op])
  BY <1>1, <1>3 DEF Begun, TaskRec, Simple
<1>4. Begun([NoTask EXCEPT !.op = "import", !.name = Imported])
  BY <1>1, NoneTypes, NameFacts DEF Begun, TaskRec, Simple
<1>5. ASSUME NEW name \in NameOrNone, NEW force \in BOOLEAN, NEW after \in Afters
      PROVE  /\ Begun(SwitchRow(name, force, after))
             /\ Begun([NoTask EXCEPT !.op = "cleanup", !.force = force, !.after = after])
  <2>1. Begun(SwitchRow(name, force, after))  BY SwitchRowType DEF Begun
  <2>2. Begun([NoTask EXCEPT !.op = "cleanup", !.force = force, !.after = after])
    BY <1>1 DEF Begun, TaskRec
  <2>. QED  BY <2>1, <2>2
<1>. QED  BY <1>2, <1>3, <1>4, <1>5

\* A key is taken at once or queued.
LEMMA PressKeeps ==
  ASSUME DashIInv, NEW k \in Keys, Press(k)
  PROVE  DashIInv'
<1>. USE DEF DashIInv
<1>1. UNCHANGED <<disk, snap, query, mode, undo, refresh, phase, exit, monitor, agreed, lost>>
  BY DEF Press
<1>2. queue \in Seq(Item) /\ task \in TaskRec /\ Key(k) \in Item
  BY NoneTypes DEF WorkType, Key, Item
<1>3. \/ /\ selected' = Moved(k) /\ queue' = queue
         /\ task' = [task EXCEPT !.aborted = @ \/ (task.active /\ k \in {"esc", "ctrlC"})]
      \/ queue' = Append(queue, Key(k)) /\ UNCHANGED <<selected, task>>
  BY DEF Press
<1>4. queue' \in Seq(Item)  BY <1>2, <1>3
<1>5. task' \in TaskRec /\ task'.op = task.op /\ task'.name = task.name /\ task'.active = task.active
  BY <1>2, <1>3 DEF TaskRec
<1>6. Rows' = Rows  BY <1>1 DEF Rows, Filtered
<1>7. selected' \in 1..(Cardinality(Names) + 1) /\ SelectionIn'
  <2>1. CASE selected' = Moved(k)  BY <1>6, <2>1, MovedIn DEF SelectionIn
  <2>2. CASE selected' = selected  BY <1>6, <2>2 DEF SelectionIn, ScreenType
  <2>. QED  BY <1>3, <2>1, <2>2
<1>8. StoreType' /\ ScreenType'  BY <1>1, <1>7 DEF StoreType, ScreenType, monitor
<1>9. WorkType'  BY <1>1, <1>4, <1>5 DEF WorkType, monitor
<1>10. RefreshOwned' /\ TaskInv'  BY <1>1, <1>5 DEF RefreshOwned, TaskInv, Shown
<1>11. EndInv'  BY <1>1, <1>5 DEF EndInv, UndoAccounted, QuietExit, Backup
<1>. QED  BY <1>7, <1>8, <1>9, <1>10, <1>11

\* Keys and updates that ask for a refresh.
LEMMA RefreshKeysKeep ==
  ASSUME DashIInv, ApplyUpdate \/ RefreshKey
  PROVE  DashIInv'
<1>. USE DEF DashIInv
<1>1. PICK k, modes : Turn(k, modes)  BY DEF ApplyUpdate, RefreshKey
<1>2. /\ queue' = Tail(queue)
      /\ refresh' = Request(refresh, Head(queue).name, FALSE) \/ refresh' = Request(refresh, None, FALSE)
      /\ UNCHANGED <<disk, screen, task, undo, phase, exit, monitor, agreed, lost>>
  BY DEF ApplyUpdate, RefreshKey
<1>3. refresh' \in RefreshRec /\ refresh'.at # "none"
  <2>1. refresh \in RefreshRec  BY DEF WorkType
  <2>2. Head(queue).name \in NameOrNone /\ None \in NameOrNone  BY <1>1, TurnFacts, NoneTypes
  <2>. QED  BY <1>2, <2>1, <2>2, RequestType
<1>4. StoreType' /\ ScreenType'  BY <1>2 DEF StoreType, ScreenType, screen, monitor
<1>5. WorkType'  BY <1>1, <1>2, <1>3, TurnFacts DEF WorkType, monitor
<1>6. SelectionIn'  BY <1>2, SameRows DEF screen
<1>7. RefreshOwned' /\ TaskInv'  BY <1>2, <1>3 DEF RefreshOwned, TaskInv, screen
<1>8. EndInv'
  <2>1. phase # "closed"  BY <1>1, TurnFacts DEF Shown
  <2>. QED  BY <1>2, <2>1 DEF EndInv, UndoAccounted, QuietExit, Backup
<1>. QED  BY <1>4, <1>5, <1>6, <1>7, <1>8

\* The undo is taken over by the operation that carries it out.
LEMMA UndoKeyKeeps ==
  ASSUME DashIInv, UndoKey
  PROVE  DashIInv'
<1>. USE DEF DashIInv
<1>1. Turn("u", {"browse"})  BY DEF UndoKey
<1>2. /\ task' = IF undo = NoUndo THEN NoTask ELSE [NoTask EXCEPT !.op = undo.does, !.name = undo.name]
      /\ undo' = NoUndo /\ queue' = Tail(queue)
      /\ UNCHANGED <<disk, screen, refresh, phase, exit, monitor, agreed, lost>>
  BY DEF UndoKey
<1>3. undo \in UndoRec  BY DEF WorkType
<1>4. /\ task' \in TaskRec /\ ~task'.active /\ task'.op \in {"none", "restore", "unimport", "unexport"}
      /\ undo.does = "restore" => task'.op = "restore" /\ task'.name = undo.name
      /\ task'.op \in {"restore", "unimport"} => task'.op = undo.does /\ task'.name = undo.name
  BY <1>2, <1>3, NoneTypes DEF TaskRec, UndoRec, NoTask, NoUndo, Simple
<1>5. StoreType' /\ ScreenType'  BY <1>2 DEF StoreType, ScreenType, screen, monitor
<1>6. WorkType'  BY <1>1, <1>2, <1>4, TurnFacts, NoneTypes DEF WorkType, monitor
<1>7. SelectionIn'  BY <1>2, SameRows DEF screen
<1>8. RefreshOwned'  BY <1>1, <1>2, TurnFacts DEF RefreshOwned
<1>9. TaskInv'  BY <1>2, <1>4 DEF TaskInv, screen, NoUndo
<1>10. EndInv'
  <2>1. phase # "closed" /\ disk.backups \subseteq lost \cup Backup(undo) /\ exit # "signal"
    BY <1>1, TurnFacts DEF Shown
  <2>2. UndoAccounted'  BY <1>2, <1>4, <2>1 DEF UndoAccounted, Backup
  <2>. QED  BY <1>2, <2>1, <2>2 DEF EndInv, QuietExit
<1>. QED  BY <1>5, <1>6, <1>7, <1>8, <1>9, <1>10

\* The account whose name was confirmed is the one that will be deleted.
LEMMA ConfirmDeleteKeeps ==
  ASSUME DashIInv, ConfirmDelete
  PROVE  DashIInv'
<1>. USE DEF DashIInv
<1>1. Turn("y", {"delete"})  BY DEF ConfirmDelete
<1>2. /\ agreed' = mode.name /\ task' = [NoTask EXCEPT !.op = "delete", !.name = mode.name]
      /\ mode' = Browse /\ queue' = Tail(queue)
      /\ UNCHANGED <<disk, snap, selected, query, undo, refresh, phase, exit, monitor, lost>>
  BY DEF ConfirmDelete
<1>3. mode.is = "delete" /\ mode.name \in Store  BY <1>1, TurnFacts DEF TaskInv
<1>4. task' \in TaskRec /\ task'.op = "delete" /\ task'.name = mode.name /\ ~task'.active
  BY <1>2, <1>3, NoneTypes, NameFacts DEF TaskRec, NoTask, Simple, NameOrNone
<1>5. StoreType' /\ ScreenType'  BY <1>2, NoneTypes DEF StoreType, ScreenType, monitor
<1>6. WorkType'  BY <1>1, <1>2, <1>4, TurnFacts DEF WorkType, monitor
<1>7. SelectionIn'  BY <1>2, SameRows
<1>8. RefreshOwned'  BY <1>1, <1>2, TurnFacts DEF RefreshOwned
<1>9. TaskInv'  BY <1>2, <1>3, <1>4 DEF TaskInv, Browse
<1>10. EndInv'
  <2>1. phase # "closed" /\ disk.backups \subseteq lost \cup Backup(undo) /\ exit # "signal"
    BY <1>1, TurnFacts DEF Shown
  <2>. QED  BY <1>2, <1>4, <2>1 DEF EndInv, UndoAccounted, QuietExit, Backup
<1>. QED  BY <1>5, <1>6, <1>7, <1>8, <1>9, <1>10

\* The row to launch again is selected first.
LEMMA ConfirmRelaunchKeeps ==
  ASSUME DashIInv, ConfirmRelaunch
  PROVE  DashIInv'
<1>. USE DEF DashIInv
<1>1. Turn("y", {"relaunch"})  BY DEF ConfirmRelaunch
<1>. DEFINE row == IF selected' \in DOMAIN Rows THEN Rows[selected'] ELSE None
<1>2. /\ selected' = IF Contains(Rows, mode.name) THEN Place(Rows, mode.name) ELSE selected
      /\ task' = SwitchRow(row, FALSE, "desktopForce")
      /\ mode' = Browse /\ queue' = Tail(queue)
      /\ UNCHANGED <<disk, snap, query, undo, refresh, phase, exit, monitor, agreed, lost>>
  BY DEF ConfirmRelaunch
<1>3. Rows \in Lists /\ Rows \in Seq(Names)  BY RowsLists DEF Lists
<1>4. row \in NameOrNone  BY <1>3 DEF NameOrNone
<1>. HIDE DEF row
<1>5. /\ task' \in TaskRec /\ task'.op \in {"none", "switch", "desktop"}
      /\ task'.active => task'.op = "switch"
  BY <1>2, <1>4, SwitchRowType DEF Afters
<1>6. Rows' = Rows  BY <1>2 DEF Rows, Filtered
<1>7. selected' \in 1..(Cardinality(Names) + 1) /\ SelectionIn'
  <2>1. CASE Contains(Rows, mode.name)
    <3>1. Rows # <<>>  BY <1>3, <2>1 DEF Contains
    <3>2. selected' \in DOMAIN Rows  BY <1>2, <1>3, <2>1, <3>1, PlaceIn
    <3>. QED  BY <1>3, <1>6, <3>2, Places DEF SelectionIn
  <2>2. CASE ~Contains(Rows, mode.name)  BY <1>2, <1>6, <2>2 DEF SelectionIn, ScreenType
  <2>. QED  BY <2>1, <2>2
<1>8. StoreType' /\ ScreenType'  BY <1>2, <1>7, NoneTypes DEF StoreType, ScreenType, monitor
<1>9. WorkType'  BY <1>1, <1>2, <1>5, TurnFacts DEF WorkType, monitor
<1>10. RefreshOwned'  BY <1>1, <1>2, TurnFacts DEF RefreshOwned
<1>11. TaskInv'  BY <1>2, <1>5 DEF TaskInv, Browse
<1>12. EndInv'
  <2>1. phase # "closed" /\ disk.backups \subseteq lost \cup Backup(undo) /\ exit # "signal"
    BY <1>1, TurnFacts DEF Shown
  <2>. QED  BY <1>2, <1>5, <2>1 DEF EndInv, UndoAccounted, QuietExit, Backup
<1>. QED  BY <1>7, <1>8, <1>9, <1>10, <1>11, <1>12

\* The selection as it is, and a row's prompt.
LEMMA Stays ==
  ASSUME DashIInv
  PROVE  /\ selected \in 1..(Cardinality(Names) + 1) /\ (Rows # <<>> => selected \in DOMAIN Rows)
         /\ query \in {"", "text"} /\ mode \in ModeRec /\ snap \in SnapRec
         /\ Row \in NameOrNone /\ (Row \notin {None, Proxy} => Row \in Store)
<1>. USE DEF DashIInv
<1>1. Row \in NameOrNone  BY RowsLists
<1>. QED  BY <1>1, NameFacts DEF ScreenType, SelectionIn, NameOrNone

\* Keys of the filter, the prompts and the confirmations.
LEMMA PromptKeysKeep ==
  ASSUME DashIInv, NEW k \in Keys, FilterKey(k) \/ PromptKey(k) \/ Decline(k)
  PROVE  DashIInv'
<1>1. Prompt(mode) /\ Prompt(Browse) /\ mode \in ModeRec  BY Prompts, Stays
<1>2. ASSUME NEW modes, NEW m, NEW q, Turn(k, modes), Look(m, selected, query), Prompt(m)
      PROVE  DashIInv'
  BY <1>2, Stays, LookKeeps
<1>3. CASE FilterKey(k)
  <2>1. Turn(k, {"filter"})  BY <1>3 DEF FilterKey
  <2>2. CASE Look(Browse, selected, query) \/ Look(mode, selected, query)  BY <1>1, <1>2, <2>1, <2>2
  <2>3. CASE \E q \in {"", "text"} : Look(mode, 1, q)  BY <1>1, <2>1, <2>3, LookKeeps
  <2>. QED  BY <1>3, <2>2, <2>3 DEF FilterKey
<1>4. CASE PromptKey(k)
  <2>1. Turn(k, {"export", "importPath", "importName"})  BY <1>4 DEF PromptKey
  <2>2. mode.is \in {"export", "importPath", "importName"}  BY <2>1 DEF Turn
  <2>3. /\ Prompt([Browse EXCEPT !.is = "importPath", !.full = TRUE])
        /\ Prompt([mode EXCEPT !.full = FALSE]) /\ Prompt([mode EXCEPT !.full = TRUE])
    BY <1>1, <2>2 DEF Prompt, ModeRec, Browse, Typing
  <2>4. mode.name \in NameOrNone  BY <1>1 DEF ModeRec
  <2>5. CASE \E m \in {mode, Browse, [Browse EXCEPT !.is = "importPath", !.full = TRUE],
                       [mode EXCEPT !.full = FALSE], [mode EXCEPT !.full = TRUE]} :
               Look(m, selected, query)
    BY <1>1, <1>2, <2>1, <2>3, <2>5
  <2>6. CASE \/ Run([NoTask EXCEPT !.op = "export", !.name = mode.name], Browse)
             \/ Run([NoTask EXCEPT !.op = "preview"], mode)
             \/ Run([NoTask EXCEPT !.op = "import", !.name = Imported], Browse)
    BY <1>1, <2>1, <2>4, <2>6, BegunTasks, RunKeeps
  <2>7. k \in Moves \cup {"ctrlC", "back"} /\ Look(mode, selected, query) => DashIInv'  BY <2>5
  <2>. QED
    <3>1. CASE k = "enter" /\ mode.full
      <4>1. CASE mode.is = "export"  BY <1>4, <2>1, <2>5, <2>6, <3>1, <4>1 DEF PromptKey, Moves, Text
      <4>2. CASE mode.is = "importPath"  BY <1>4, <2>1, <2>5, <2>6, <3>1, <4>2 DEF PromptKey, Moves, Text
      <4>3. CASE mode.is = "importName"  BY <1>4, <2>1, <2>5, <2>6, <3>1, <4>3 DEF PromptKey, Moves, Text
      <4>. QED  BY <2>2, <4>1, <4>2, <4>3
    <3>2. CASE ~(k = "enter" /\ mode.full)  BY <1>4, <2>5, <3>2 DEF PromptKey
    <3>. QED  BY <3>1, <3>2
<1>5. CASE Decline(k)
  <2>1. Turn(k, Confirming)  BY <1>5 DEF Decline
  <2>2. Look(Browse, selected, query) \/ Look(mode, selected, query)  BY <1>5 DEF Decline
  <2>. QED  BY <1>1, <1>2, <2>1, <2>2
<1>. QED  BY <1>3, <1>4, <1>5

\* Keys that only change the screen.
LEMMA LookKeyKeeps ==
  ASSUME DashIInv, NEW k \in Keys, LookKey(k)
  PROVE  DashIInv'
<1>1. Prompt(mode) /\ Prompt(Browse) /\ mode \in ModeRec  BY Prompts, Stays
<1>2. Turn(k, {"browse"})  BY DEF LookKey
<1>. DEFINE asks == {[Browse EXCEPT !.is = "filter"], [Browse EXCEPT !.is = "importPath"],
                     [Browse EXCEPT !.is = "relaunch", !.name = Row]}
            row == [Browse EXCEPT !.is = "export", !.name = Row, !.full = TRUE]
            gone == [Browse EXCEPT !.is = "delete", !.name = Row]
<1>3. \A m \in asks : Prompt(m)
  BY <1>1, Stays DEF Prompt, ModeRec, Browse, Typing, Confirming
<1>4. Row \notin {None, Proxy} => Prompt(row) /\ Prompt(gone)
  BY <1>1, Stays DEF Prompt, ModeRec, Browse, Typing, Confirming
<1>5. \/ Look(mode, Moved(k), query)
      \/ \E m \in asks \cup {mode} : Look(m, selected, query)
      \/ Row \notin {None, Proxy} /\ (Look(row, selected, query) \/ Look(gone, selected, query))
  BY DEF LookKey
<1>. HIDE DEF asks, row, gone
<1>6. CASE Look(mode, Moved(k), query)
  <2>1. ScreenType /\ SelectionIn  BY DEF DashIInv
  <2>. QED  BY <1>1, <1>2, <1>6, <2>1, MovedIn, LookKeeps
<1>7. CASE \E m \in asks \cup {mode} : Look(m, selected, query)
  BY <1>1, <1>2, <1>3, <1>7, Stays, LookKeeps
<1>8. CASE Row \notin {None, Proxy} /\ (Look(row, selected, query) \/ Look(gone, selected, query))
  BY <1>2, <1>4, <1>8, Stays, LookKeeps
<1>. QED  BY <1>5, <1>6, <1>7, <1>8

\* Keys that begin an operation or end the dashboard.
LEMMA RunKeysKeep ==
  ASSUME DashIInv,
         ConfirmCleanup \/ SwitchKeys \/ \E k \in Keys : ToggleKey(k) \/ Quit(k)
  PROVE  DashIInv'
<1>1. Prompt(mode) /\ Prompt(Browse) /\ mode \in ModeRec  BY Prompts, Stays
<1>2. Row \in NameOrNone /\ None \in NameOrNone  BY Stays, NoneTypes
<1>3. ASSUME NEW action, action # "signal", Finish(action), NEW k, NEW modes, Turn(k, modes)
      PROVE  DashIInv'
  <2>1. Shown  BY <1>3, TurnFacts
  <2>2. End(action) /\ UNCHANGED <<screen, task, refresh, monitor, agreed, lost>>  BY <1>3 DEF Finish
  <2>. QED  BY <1>3, <2>1, <2>2, ExitKeeps
<1>4. CASE ConfirmCleanup
  <2>1. Turn("y", {"stale"})  BY <1>4 DEF ConfirmCleanup
  <2>2. mode.force \in BOOLEAN /\ mode.after \in Afters  BY <1>1 DEF ModeRec
  <2>3. Run([NoTask EXCEPT !.op = "cleanup", !.force = mode.force, !.after = mode.after], Browse)
    BY <1>4 DEF ConfirmCleanup
  <2>. QED  BY <1>1, <1>2, <2>1, <2>2, <2>3, BegunTasks, RunKeeps
<1>5. ASSUME NEW k, NEW force \in BOOLEAN, NEW after \in Afters, SwitchKey(k, force, after)
      PROVE  DashIInv'
  <2>1. Turn(k, {"browse"})  BY <1>5 DEF SwitchKey
  <2>2. after # "signal"  BY DEF Afters
  <2>3. Begun(SwitchRow(Row, force, after))  BY <1>2, BegunTasks
  <2>4. Finish(after) \/ Run(SwitchRow(Row, force, after), mode)  BY <1>5 DEF SwitchKey
  <2>. QED  BY <1>1, <1>3, <2>1, <2>2, <2>3, <2>4, RunKeeps
<1>6. CASE SwitchKeys  BY <1>5, <1>6 DEF SwitchKeys, Afters
<1>7. ASSUME NEW k \in Keys, ToggleKey(k) PROVE DashIInv'
  <2>1. Turn(k, {"browse"})  BY <1>7 DEF ToggleKey
  <2>2. \/ Run([NoTask EXCEPT !.op = "auto"], mode)
        \/ Run(IF Row \in {None, Proxy} THEN NoTask ELSE [NoTask EXCEPT !.op = "protect", !.name = Row], mode)
    BY <1>7 DEF ToggleKey
  <2>3. /\ Begun([NoTask EXCEPT !.op = "auto"])
        /\ Begun(IF Row \in {None, Proxy} THEN NoTask ELSE [NoTask EXCEPT !.op = "protect", !.name = Row])
    BY <1>2, BegunTasks
  <2>. QED  BY <1>1, <2>1, <2>2, <2>3, RunKeeps
<1>8. ASSUME NEW k \in Keys, Quit(k) PROVE DashIInv'
  <2>1. Turn(k, {"browse"} \cup Confirming) /\ Finish("quit")  BY <1>8 DEF Quit
  <2>. QED  BY <1>3, <2>1
<1>. QED  BY <1>4, <1>6, <1>7, <1>8

-----------------------------------------------------------------------------
(* Operations *)

\* An operation runs: the dashboard has not returned, but after a signal.
LEMMA Running ==
  ASSUME DashIInv, task.op # "none"
  PROVE  /\ phase # "closed" \/ exit = "signal"
         /\ task \in TaskRec /\ refresh \in RefreshRec /\ disk \in DiskRec /\ undo \in UndoRec
         /\ mode \in ModeRec /\ snap \in SnapRec /\ watch \in WatchRec
         /\ task.name \in NameOrNone
         /\ Shown /\ refresh.queued /\ ~task.active => refresh.at # "none"
         /\ Label \in NameOrNone
BY LabelType DEF DashIInv, EndInv, QuietExit, StoreType, ScreenType, WorkType, TaskRec, RefreshOwned, NameOrNone

\* What the simple operations do to the accounts and the backups.
LEMMA SimpleDone ==
  ASSUME DashIInv, task.op \in Simple
  PROVE  /\ ~task.active /\ Done \in DiskRec /\ Undoing \in UndoRec
         /\ Undoing.does \in {"restore", "unimport"} => Undoing.name \in Store
         /\ Done.backups \subseteq disk.backups \cup Backup(Undoing)
         /\ task.op = "restore" => Done.backups = disk.backups \ {task.name}
         /\ task.op # "delete" /\ task.op # "unimport" => disk.accounts \subseteq Done.accounts
         /\ task.op = "delete" => Done.accounts = disk.accounts \ {task.name}
<1>1. task \in TaskRec /\ disk \in DiskRec /\ task.name \in NameOrNone
  BY Running DEF Simple
<1>2. ~task.active  BY DEF DashIInv, TaskInv, Simple
<1>3. task.op \in {"delete", "import", "unimport", "restore"} => task.name \in Store  BY DEF DashIInv, TaskInv
<1>4. CASE task.op = "delete"
  <2>1. Undoing = [does |-> "restore", name |-> task.name]  BY <1>4 DEF Undoing
  <2>2. Backup(Undoing) = {task.name} /\ Undoing \in UndoRec  BY <1>1, <2>1 DEF Backup, UndoRec
  <2>3. Done = [disk EXCEPT !.accounts = @ \ {task.name}, !.backups = @ \cup {task.name}]  BY <1>4 DEF Done
  <2>. QED  BY <1>1, <1>2, <1>3, <1>4, <2>1, <2>2, <2>3 DEF DiskRec
<1>5. CASE task.op = "import"
  <2>1. Undoing = [does |-> "unimport", name |-> task.name]  BY <1>5 DEF Undoing
  <2>2. Done = [disk EXCEPT !.accounts = @ \cup {task.name}]  BY <1>5 DEF Done
  <2>. QED  BY <1>1, <1>2, <1>3, <1>5, <2>1, <2>2 DEF DiskRec, UndoRec
<1>6. CASE task.op = "unimport"
  <2>1. Undoing = NoUndo  BY <1>6 DEF Undoing
  <2>2. Done = [disk EXCEPT !.accounts = @ \ {task.name}]  BY <1>6 DEF Done
  <2>. QED  BY <1>1, <1>2, <1>3, <1>6, <2>1, <2>2, NoneTypes DEF DiskRec, NoUndo
<1>7. CASE task.op = "restore"
  <2>1. Undoing = NoUndo  BY <1>7 DEF Undoing
  <2>2. Done = [disk EXCEPT !.accounts = @ \cup {task.name}, !.backups = @ \ {task.name}]  BY <1>7 DEF Done
  <2>. QED  BY <1>1, <1>2, <1>3, <1>7, <2>1, <2>2, NoneTypes DEF DiskRec, NoUndo
<1>8. CASE task.op \in {"export", "auto", "protect", "unexport"}
  <2>1. Undoing \in {NoUndo, [does |-> "unexport", name |-> task.name]}  BY <1>8 DEF Undoing
  <2>2. Done = disk  BY <1>8 DEF Done
  <2>3. Undoing \in UndoRec /\ Undoing.does \in {"none", "unexport"}
    BY <1>1, <2>1, NoneTypes DEF UndoRec, NoUndo
  <2>. QED  BY <1>1, <1>2, <1>8, <2>2, <2>3
<1>. QED  BY <1>4, <1>5, <1>6, <1>7, <1>8 DEF Simple

\* A simple operation ends: its undo replaces the one before, whose backup goes.
LEMMA SimpleEndsKeeps ==
  ASSUME DashIInv, SimpleEnds
  PROVE  DashIInv'
<1>1. task.op \in Simple /\ task.op # "none"  BY DEF SimpleEnds, Simple
<1>2. /\ disk' = [Done EXCEPT !.backups = Done.backups \ Backup(undo)] /\ undo' = Undoing /\ task' = NoTask
      /\ refresh' = IF task.op \in Refreshing THEN Asked(task.name) ELSE refresh
      /\ UNCHANGED <<screen, queue, phase, exit, monitor, agreed, lost>>
  BY DEF SimpleEnds
<1>3. disk' \in DiskRec /\ disk'.backups = Done.backups \ Backup(undo)
  BY <1>1, <1>2, SimpleDone DEF DiskRec
<1>4. refresh' \in RefreshRec /\ (Shown /\ refresh'.queued => refresh'.at # "none")
  BY <1>1, <1>2, SimpleDone, Running, AskedType
<1>5. StoreType' /\ ScreenType'  BY <1>2, <1>3 DEF DashIInv, StoreType, ScreenType, screen, monitor
<1>6. WorkType'  BY <1>1, <1>2, <1>4, SimpleDone, NoneTypes DEF DashIInv, WorkType, monitor
<1>7. SelectionIn'  BY <1>2, SameRows DEF DashIInv, screen
<1>8. RefreshOwned'  BY <1>2, <1>4 DEF RefreshOwned, Shown
<1>9. TaskInv'
  <2>1. NoTask.op = "none" /\ ~NoTask.active  BY DEF NoTask
  <2>. QED  BY <1>1, <1>2, <2>1, SimpleDone DEF DashIInv, TaskInv, screen
<1>10. EndInv'
  <2>1. exit # "signal" =>
          disk.backups \subseteq lost \cup Backup(undo) \cup (IF task.op = "restore" THEN {task.name} ELSE {})
    BY DEF DashIInv, EndInv, UndoAccounted
  <2>2. /\ Done.backups \subseteq disk.backups \cup Backup(Undoing)
        /\ task.op = "restore" => Done.backups = disk.backups \ {task.name}
    BY <1>1, SimpleDone
  <2>3. exit # "signal" => Done.backups \ Backup(undo) \subseteq lost \cup Backup(Undoing)
    BY <2>1, <2>2
  <2>4. UndoAccounted'  BY <1>2, <1>3, <2>3 DEF UndoAccounted, Backup
  <2>5. QuietExit' /\ (exit' = "signal" => phase' \in {"closing", "closed"})
    BY <1>1, <1>2, Running DEF QuietExit, DashIInv, EndInv
  <2>. QED  BY <2>4, <2>5 DEF EndInv
<1>. QED  BY <1>5, <1>6, <1>7, <1>8, <1>9, <1>10 DEF DashIInv

\* Operations that end with a task or without, and leave the store and the undo.
LEMMA TaskEndsKeeps ==
  ASSUME DashIInv, task.op # "none", UNCHANGED <<disk, snap, selected, query, queue, undo, phase, exit, monitor, agreed>>,
         Begun(task'), Prompt(mode'),
         refresh' \in RefreshRec, Shown /\ refresh'.queued => refresh'.at # "none" \/ task'.active,
         lost' = lost \cup (IF task.op = "restore" THEN {task.name} ELSE {})
  PROVE  DashIInv'
<1>1. StoreType' /\ ScreenType'  BY DEF DashIInv, StoreType, ScreenType, monitor, Prompt
<1>2. /\ task' \in TaskRec /\ (task'.active => task'.op \in {"switch", "desktop"}) /\ task'.op # "delete"
      /\ task'.op \in {"import", "unimport", "restore"} => task'.name \in Store
  BY Running DEF Begun, TaskRec
<1>3. WorkType'  BY <1>2 DEF DashIInv, WorkType, monitor
<1>4. SelectionIn'  BY SameRows DEF DashIInv
<1>5. RefreshOwned' /\ TaskInv'  BY <1>2 DEF DashIInv, RefreshOwned, TaskInv, Shown, Prompt
<1>6. EndInv'
  <2>1. UndoAccounted'  BY DEF DashIInv, EndInv, UndoAccounted, Backup
  <2>2. QuietExit' /\ (exit' = "signal" => phase' \in {"closing", "closed"})
    BY Running DEF QuietExit, DashIInv, EndInv
  <2>. QED  BY <2>1, <2>2 DEF EndInv
<1>. QED  BY <1>1, <1>3, <1>4, <1>5, <1>6 DEF DashIInv

\* Operations that end without an effect on the store.
LEMMA FailsKeep ==
  ASSUME DashIInv, SimpleFails \/ PreviewEnds \/ SwitchFails \/ DesktopEnds \/ CleanupFails
  PROVE  DashIInv'
<1>1. Begun(NoTask) /\ Prompt(mode) /\ Prompt(Browse)  BY BegunTasks, Prompts
<1>2. task.op # "none"  BY DEF SimpleFails, PreviewEnds, SwitchFails, DesktopEnds, CleanupFails, Simple
<1>3. task.active => task.op \in {"switch", "desktop"}  BY DEF DashIInv, TaskInv
<1>4. refresh \in RefreshRec /\ task \in TaskRec /\ task.name \in NameOrNone  BY <1>2, Running
<1>5. ~task.active /\ Shown /\ refresh.queued => refresh.at # "none"  BY <1>2, Running
<1>6. /\ task' = NoTask
      /\ UNCHANGED <<disk, snap, selected, query, queue, undo, phase, exit, monitor, agreed>>
  BY DEF SimpleFails, PreviewEnds, SwitchFails, DesktopEnds, CleanupFails, screen
<1>7. lost' = lost \cup (IF task.op = "restore" THEN {task.name} ELSE {})
  BY DEF SimpleFails, PreviewEnds, SwitchFails, DesktopEnds, CleanupFails
<1>8. Prompt(mode')
  <2>1. CASE SimpleFails \/ DesktopEnds \/ CleanupFails
    BY <1>1, <2>1 DEF SimpleFails, DesktopEnds, CleanupFails, screen
  <2>2. CASE PreviewEnds
    <3>1. Prompt([Browse EXCEPT !.is = "importName"])  BY <1>1 DEF Prompt, ModeRec, Browse, Typing
    <3>. QED  BY <1>1, <2>2, <3>1 DEF PreviewEnds
  <2>3. CASE SwitchFails
    <3>1. Prompt([Browse EXCEPT !.is = "stale", !.name = Proxy, !.force = task.force, !.after = task.after])
      BY <1>1, <1>4, NoneTypes DEF Prompt, ModeRec, Browse, Confirming, TaskRec
    <3>. QED  BY <1>1, <2>3, <3>1 DEF SwitchFails
  <2>. QED  BY <2>1, <2>2, <2>3
<1>9. refresh' \in RefreshRec /\ (Shown /\ refresh'.queued => refresh'.at # "none")
  <2>1. CASE SimpleFails \/ PreviewEnds \/ CleanupFails
    <3>1. refresh' = refresh /\ ~task.active
      BY <1>3, <2>1 DEF SimpleFails, PreviewEnds, CleanupFails, Simple
    <3>. QED  BY <1>4, <1>5, <3>1
  <2>2. CASE SwitchFails  BY <1>4, <2>2, ResumeType DEF SwitchFails
  <2>3. CASE DesktopEnds
    <3>1. \/ refresh' = IF task.active THEN AskedByOperation(task.name) ELSE Asked(task.name)
          \/ refresh' = IF Shown /\ task.active THEN Resume(refresh) ELSE refresh
      BY <2>3 DEF DesktopEnds
    <3>. QED  BY <1>4, <1>5, <3>1, AskedType, ResumeType
  <2>. QED  BY <2>1, <2>2, <2>3
<1>10. Begun(task')  BY <1>1, <1>6
<1>. QED  BY <1>2, <1>6, <1>7, <1>8, <1>9, <1>10, TaskEndsKeeps

\* The effect of a switch.
LEMMA SwitchActsKeeps ==
  ASSUME DashIInv, SwitchActs
  PROVE  DashIInv'
<1>1. task.op = "switch" /\ task.name \in disk.accounts \cup {Proxy}  BY DEF SwitchActs
<1>2. task \in TaskRec /\ disk \in DiskRec /\ watch \in WatchRec  BY <1>1, Running
<1>. DEFINE on == IF task.name = Proxy THEN ref # Proxy \/ task.force ELSE disk.on
            direct == IF task.name = Proxy THEN disk.direct ELSE task.name
            gives == IF on THEN Proxy ELSE IF task.name = Proxy THEN None ELSE direct
<1>3. /\ disk' = [disk EXCEPT !.on = on, !.direct = direct]
      /\ watch' = IF disk.on /\ on THEN watch ELSE Wake(watch)
      /\ task' = [task EXCEPT !.done = TRUE, !.gives = gives]
      /\ UNCHANGED <<screen, queue, undo, refresh, phase, exit, ref, feed, crossed, agreed, lost>>
  BY DEF SwitchActs
<1>4. direct \in Store  BY <1>1, <1>2 DEF DiskRec
<1>5. on \in BOOLEAN  BY <1>2 DEF DiskRec, TaskRec
<1>6. gives \in NameOrNone  BY <1>4, NoneTypes, NameFacts DEF NameOrNone
<1>. HIDE DEF on, direct, gives
<1>7. disk' \in DiskRec /\ disk'.backups = disk.backups  BY <1>2, <1>3, <1>4, <1>5 DEF DiskRec
<1>8. watch' \in WatchRec  BY <1>2, <1>3 DEF Wake, WatchRec
<1>9. task' \in TaskRec /\ task'.op = "switch" /\ task'.name = task.name /\ task'.active = task.active
  BY <1>1, <1>2, <1>3, <1>6 DEF TaskRec
<1>10. StoreType' /\ ScreenType'  BY <1>3, <1>7, <1>8 DEF DashIInv, StoreType, ScreenType, screen
<1>11. WorkType'  BY <1>3, <1>9 DEF DashIInv, WorkType
<1>12. SelectionIn'  BY <1>3, SameRows DEF DashIInv, screen
<1>13. RefreshOwned' /\ TaskInv'  BY <1>3, <1>9 DEF DashIInv, RefreshOwned, TaskInv, Shown, screen
<1>14. EndInv'  BY <1>1, <1>3, <1>7, <1>9 DEF DashIInv, EndInv, UndoAccounted, QuietExit, Backup
<1>. QED  BY <1>10, <1>11, <1>12, <1>13, <1>14 DEF DashIInv

\* The switch's row is selected; it may end the dashboard.
LEMMA SwitchReturnsKeeps ==
  ASSUME DashIInv, SwitchReturns
  PROVE  DashIInv'
<1>1. task.op = "switch"  BY DEF SwitchReturns
<1>2. /\ task \in TaskRec /\ disk \in DiskRec /\ snap \in SnapRec /\ refresh \in RefreshRec
      /\ undo \in UndoRec /\ task.name \in NameOrNone /\ Label \in NameOrNone
  BY <1>1, Running
<1>3. /\ ref' = IF task.gives = None THEN Label ELSE task.gives
      /\ snap' = [snap EXCEPT !.current = IF ref' = None THEN task.name ELSE ref']
      /\ selected' = Preferred(Rows, snap'.current, task.name)
      /\ task' = IF task.after \in {"desktop", "desktopForce"} THEN [task EXCEPT !.op = "desktop"] ELSE NoTask
      /\ IF task.after \in {"open", "isolated"} /\ Shown
           THEN End(task.after)
           ELSE UNCHANGED <<exit, phase, queue, undo, disk>>
      /\ refresh' = IF task.after = "stay" THEN AskedByOperation(task.name) ELSE refresh
      /\ UNCHANGED <<query, mode, watch, feed, agreed, lost>>
  BY DEF SwitchReturns
<1>4. ref' \in NameOrNone  BY <1>2, <1>3 DEF TaskRec
<1>5. snap' \in SnapRec /\ snap'.rows = snap.rows  BY <1>2, <1>3, <1>4 DEF SnapRec
<1>6. Rows \in Lists /\ Rows' = Rows
  <2>1. Rows \in Lists  BY RowsLists DEF DashIInv
  <2>2. query' = query  BY <1>3
  <2>. QED  BY <1>5, <2>1, <2>2 DEF Rows, Filtered
<1>7. selected' \in 1..(Cardinality(Names) + 1) /\ SelectionIn'
  BY <1>3, <1>6, PreferredIn DEF SelectionIn
<1>8. /\ task' \in TaskRec /\ task'.op \in {"none", "desktop"}
      /\ task'.active => task'.op = "desktop"
      /\ task.after \in {"desktop", "desktopForce"} => task'.active = task.active
  BY <1>2, <1>3, NoneTypes DEF TaskRec, NoTask
<1>9. /\ disk' \in DiskRec /\ queue' \in Seq(Item) /\ undo' \in UndoRec /\ EndInv'
      /\ phase' \in {"opening", "started", "run", "closing", "closed"}
      /\ undo' \in {undo, NoUndo} /\ (phase' = "run" => phase = "run")
      /\ task.after \in {"open", "isolated"} => phase' # "run"
  <2>1. CASE task.after \in {"open", "isolated"} /\ Shown
    <3>1. End(task.after) /\ Shown /\ UNCHANGED lost  BY <1>3, <2>1
    <3>2. /\ disk' \in DiskRec /\ queue' \in Seq(Item) /\ undo' = NoUndo /\ phase' = "closing" /\ EndInv'
      BY <1>1, <1>8, <3>1, Ended
    <3>. QED  BY <3>2, NoneTypes
  <2>2. CASE ~(task.after \in {"open", "isolated"} /\ Shown)
    <3>1. UNCHANGED <<exit, phase, queue, undo, disk, lost>>  BY <1>3, <2>2
    <3>2. EndInv'
      <4>1. UndoAccounted'  BY <1>1, <3>1 DEF DashIInv, EndInv, UndoAccounted, Backup
      <4>2. QuietExit' /\ (exit' = "signal" => phase' \in {"closing", "closed"})
        BY <1>1, <3>1, Running DEF QuietExit, DashIInv, EndInv
      <4>. QED  BY <4>1, <4>2 DEF EndInv
    <3>. QED  BY <1>2, <2>2, <3>1, <3>2 DEF DashIInv, WorkType, Shown
  <2>. QED  BY <2>1, <2>2
<1>10. refresh' \in RefreshRec  BY <1>2, <1>3, AskedType
<1>11. RefreshOwned'
  <2>1. CASE task.after = "stay"  BY <1>2, <1>3, <1>9, <2>1, AskedType DEF RefreshOwned, Shown
  <2>2. CASE task.after \in {"open", "isolated"}  BY <1>9, <2>2 DEF RefreshOwned, Shown
  <2>3. CASE task.after \in {"desktop", "desktopForce"}
    BY <1>3, <1>8, <1>9, <2>3 DEF DashIInv, RefreshOwned, Shown
  <2>. QED  BY <1>2, <2>1, <2>2, <2>3 DEF TaskRec, Afters
<1>12. TaskInv'  BY <1>3, <1>8, <1>9 DEF DashIInv, TaskInv, NoUndo
<1>13. StoreType' /\ ScreenType'  BY <1>3, <1>4, <1>5, <1>7, <1>9 DEF DashIInv, StoreType, ScreenType
<1>14. WorkType'  BY <1>3, <1>8, <1>9, <1>10 DEF DashIInv, WorkType
<1>. QED  BY <1>7, <1>9, <1>11, <1>12, <1>13, <1>14 DEF DashIInv

\* A switch tried again after the stale daemon was stopped.
LEMMA CleanupEndsKeeps ==
  ASSUME DashIInv, CleanupEnds
  PROVE  DashIInv'
<1>1. task.op = "cleanup"  BY DEF CleanupEnds
<1>2. task \in TaskRec /\ refresh \in RefreshRec  BY <1>1, Running
<1>3. ~task.active  BY <1>1 DEF DashIInv, TaskInv
<1>4. UNCHANGED <<screen, refresh, monitor, agreed, lost>>  BY DEF CleanupEnds
<1>5. Begun(NoTask) /\ Begun(SwitchRow(Row, task.force, task.after)) /\ Prompt(mode)
  BY <1>2, BegunTasks, Prompts, Stays DEF TaskRec
<1>6. Shown /\ refresh.queued => refresh.at # "none"  BY <1>1, <1>3, Running
<1>7. CASE UNCHANGED <<exit, phase, queue, undo, disk>>
  <2>1. Begun(task')  BY <1>5 DEF CleanupEnds
  <2>2. UNCHANGED <<disk, snap, selected, query, queue, undo, phase, exit, monitor, agreed>>
        /\ mode' = mode /\ refresh' = refresh /\ lost' = lost
    BY <1>4, <1>7 DEF screen
  <2>3. lost' = lost \cup (IF task.op = "restore" THEN {task.name} ELSE {})  BY <1>1, <2>2
  <2>4. Prompt(mode') /\ refresh' \in RefreshRec /\ (Shown /\ refresh'.queued => refresh'.at # "none")
    BY <1>2, <1>5, <1>6, <2>2
  <2>. QED  BY <1>1, <2>1, <2>2, <2>3, <2>4, TaskEndsKeeps
<1>8. CASE task' = NoTask /\ Shown /\ End(task.after)
  <2>1. task'.op = "none" /\ ~task'.active  BY <1>8 DEF NoTask
  <2>2. /\ disk' \in DiskRec /\ queue' \in Seq(Item) /\ undo' = NoUndo /\ phase' = "closing" /\ EndInv'
    BY <1>1, <1>4, <1>8, <2>1, Ended
  <2>3. StoreType' /\ ScreenType'  BY <1>4, <2>2 DEF DashIInv, StoreType, ScreenType, screen, monitor
  <2>4. WorkType'  BY <1>4, <1>8, <2>2, NoneTypes DEF DashIInv, WorkType, monitor
  <2>5. SelectionIn'  BY <1>4, SameRows DEF DashIInv, screen
  <2>6. RefreshOwned' /\ TaskInv'  BY <1>4, <2>1, <2>2 DEF DashIInv, RefreshOwned, TaskInv, Shown, screen, NoUndo
  <2>. QED  BY <2>2, <2>3, <2>4, <2>5, <2>6 DEF DashIInv
<1>. QED  BY <1>7, <1>8 DEF CleanupEnds

-----------------------------------------------------------------------------
(* The theorems *)

\* The inductive invariant holds at first ...
LEMMA DashInitHolds ==
  ASSUME DashInit
  PROVE  DashIInv
<1>1. PICK direct \in Accounts :
        disk = [accounts |-> Accounts, direct |-> direct, on |-> load.on, backups |-> {}]
  BY DEF DashInit
<1>2. load.on \in BOOLEAN  BY DashboardAssumption DEF DashInit
<1>3. disk \in DiskRec /\ disk.backups = {}  BY <1>1, <1>2 DEF DiskRec, Store
<1>4. PICK rows \in Listings : snap = [rows |-> rows, current |-> Label]  BY DEF DashInit
<1>5. rows \in Lists /\ rows # <<>> /\ Label \in NameOrNone  BY <1>3, ListingLists, LabelType DEF NameOrNone
<1>6. /\ selected = 1 /\ query = "" /\ mode = Browse /\ queue = <<>> /\ task = NoTask /\ undo = NoUndo
      /\ refresh = NoRefresh /\ phase = "opening" /\ exit = "none" /\ ref = None /\ watch = NoWatch /\ feed = <<>>
  BY DEF DashInit
<1>7. SelectionIn  BY <1>4, <1>5, <1>6, Places DEF SelectionIn, Rows, Filtered
<1>8. ScreenType
  <2>1. snap \in SnapRec  BY <1>4, <1>5 DEF SnapRec
  <2>2. 1 \in 1..(Cardinality(Names) + 1)  BY <1>5, Places
  <2>. QED  BY <1>6, <2>1, <2>2, NoneTypes DEF ScreenType
<1>9. StoreType /\ WorkType
  <2>1. StoreType  BY <1>3, <1>6, NoneTypes DEF StoreType
  <2>2. <<>> \in Seq(Item)
    OBVIOUS
  <2>3. /\ queue \in Seq(Item) /\ feed \in Seq(Item) /\ task \in TaskRec /\ undo \in UndoRec
        /\ refresh \in RefreshRec
    BY <1>6, <2>2, NoneTypes
  <2>4. phase \in {"opening", "started", "run", "closing", "closed"}  BY <1>6
  <2>. QED  BY <2>1, <2>3, <2>4 DEF WorkType
<1>10. RefreshOwned /\ TaskInv  BY <1>6 DEF RefreshOwned, TaskInv, Shown, Browse, NoTask, NoUndo
<1>11. EndInv  BY <1>3, <1>6 DEF EndInv, UndoAccounted, QuietExit
<1>. QED  BY <1>7, <1>8, <1>9, <1>10, <1>11 DEF DashIInv

\* ... and every step keeps it.
LEMMA DashNextKeeps ==
  ASSUME DashIInv, [DashNext]_dashVars
  PROVE  DashIInv'
<1>1. CASE UNCHANGED dashVars
  <2>1. UNCHANGED <<disk, snap, selected, query, mode, queue, task, undo, refresh, phase, exit, ref, watch,
                    feed, agreed, lost>>
    BY <1>1 DEF dashVars, screen, monitor
  <2>2. SelectionIn'  BY <2>1, SameRows DEF DashIInv
  <2>3. StoreType' /\ ScreenType' /\ WorkType'  BY <2>1 DEF DashIInv, StoreType, ScreenType, WorkType
  <2>4. RefreshOwned' /\ TaskInv'  BY <2>1 DEF DashIInv, RefreshOwned, TaskInv, Shown
  <2>5. EndInv'  BY <2>1 DEF DashIInv, EndInv, UndoAccounted, QuietExit, Backup
  <2>. QED  BY <2>2, <2>3, <2>4, <2>5 DEF DashIInv
<1>2. CASE RefreshStep  BY <1>2, RefreshKeeps, LoadReturnsKeeps DEF RefreshStep
<1>3. CASE PhaseStep  BY <1>3, PhaseKeeps DEF PhaseStep
<1>4. CASE SyncStep  BY <1>4, WatcherKeeps DEF SyncStep
<1>5. CASE OperationStep
  BY <1>5, SimpleEndsKeeps, FailsKeep, SwitchActsKeeps, SwitchReturnsKeeps, CleanupEndsKeeps DEF OperationStep
<1>6. CASE KeyStep
  BY <1>6, RefreshKeysKeep, UndoKeyKeeps, ConfirmDeleteKeeps, ConfirmRelaunchKeeps, PromptKeysKeep,
     LookKeyKeeps, RunKeysKeep DEF KeyStep
<1>7. CASE LoadFails \/ Tick  BY <1>7, RefreshKeeps
<1>8. CASE CleanupFails  BY <1>8, FailsKeep
<1>9. CASE Signal
  <2>1. /\ Shown /\ End("signal") /\ task' = [task EXCEPT !.aborted = task.active]
        /\ UNCHANGED <<screen, refresh, monitor, agreed, lost>>
    BY <1>9 DEF Signal
  <2>. QED  BY <2>1, ExitKeeps
<1>10. CASE Reopen  BY <1>10, ReopenKeeps
<1>11. CASE SwitchedByOther  BY <1>11, WatcherKeeps
<1>12. CASE \E k \in Keys : Press(k)  BY <1>12, PressKeeps
<1>. QED  BY <1>1, <1>2, <1>3, <1>4, <1>5, <1>6, <1>7, <1>8, <1>9, <1>10, <1>11, <1>12 DEF DashNext

\* What the screen shows and what is pending is accounted for: the row that keys
\* act on, a refresh that was put off, an undo and its backup, and what an orderly
\* exit leaves (ScreenInv); for any accounts, keys, filters and workloads.
THEOREM ScreenSound == DashSpec => []ScreenInv
<1>1. DashIInv => ScreenInv
  <2>. SUFFICES ASSUME DashIInv PROVE ScreenInv
    OBVIOUS
  <2>1. DashTypeOK
    <3>1. snap.rows \in Seq(Names)  BY DEF DashIInv, ScreenType, SnapRec, Lists
    <3>2. Range(snap.rows) \subseteq Names  BY <3>1 DEF Range
    <3>3. disk \in DiskRec /\ ref \in NameOrNone /\ watch.fired \in BOOLEAN
      BY DEF DashIInv, StoreType, WatchRec
    <3>4. snap.current \in NameOrNone /\ mode.is \in {"browse"} \cup Typing \cup Confirming
          /\ selected \in 1..(Cardinality(Names) + 1) /\ query \in {"", "text"}
      BY DEF DashIInv, ScreenType, SnapRec, ModeRec
    <3>5. /\ task.op \in Simple \cup {"none", "switch", "desktop", "preview", "cleanup"}
          /\ undo.does \in {"none", "restore", "unimport", "unexport"}
          /\ refresh.at \in {"none", "begun", "listed", "read"}
          /\ phase \in {"opening", "started", "run", "closing", "closed"}
      BY DEF DashIInv, WorkType, TaskRec, UndoRec, RefreshRec
    <3>. QED  BY <3>2, <3>3, <3>4, <3>5 DEF DashTypeOK, DiskRec, Store, NameOrNone
  <2>2. RowSelected
    <3>1. Rows \in Lists /\ Rows \in Seq(Names)  BY RowsLists DEF DashIInv, Lists
    <3>2. Rows # <<>> => Row \in Names  BY <3>1 DEF DashIInv, SelectionIn, Row
    <3>. QED  BY <3>2, NameFacts DEF RowSelected
  <2>. QED  BY <2>1, <2>2 DEF DashIInv, EndInv, ScreenInv
<1>. QED  BY <1>1, DashInitHolds, DashNextKeeps, PTL DEF DashSpec

\* Only a finished delete or an undone import takes accounts from the store.
LEMMA OnlyDeletes ==
  ASSUME DashIInv, [DashNext]_dashVars
  PROVE  \A name \in disk.accounts \ disk'.accounts : task.op = "unimport" \/ name = agreed
<1>1. disk \in DiskRec  BY DEF DashIInv, StoreType
<1>2. CASE SimpleEnds
  <2>1. task.op \in Simple /\ disk' = [Done EXCEPT !.backups = Done.backups \ Backup(undo)]
    BY <1>2 DEF SimpleEnds
  <2>2. disk'.accounts = Done.accounts  BY <2>1, SimpleDone DEF DiskRec
  <2>3. task.op = "delete" => task.name = agreed  BY DEF DashIInv, TaskInv
  <2>. QED  BY <2>1, <2>2, <2>3, SimpleDone
<1>3. CASE \E action : End(action)
  <2>1. disk' = [disk EXCEPT !.backups = disk.backups \ Backup(undo)]  BY <1>3 DEF End, Discards
  <2>. QED  BY <1>1, <2>1 DEF DiskRec
<1>4. CASE SwitchedByOther \/ SwitchActs
  <2>1. disk'.accounts = disk.accounts  BY <1>1, <1>4 DEF SwitchedByOther, SwitchActs, DiskRec
  <2>. QED  BY <2>1
<1>5. CASE UNCHANGED disk  BY <1>5
<1>6. ASSUME NEW k, SwitchKey(k, FALSE, "stay") \/ SwitchKey(k, TRUE, "stay") \/ SwitchKey(k, FALSE, "open")
                    \/ SwitchKey(k, FALSE, "isolated") \/ SwitchKey(k, FALSE, "desktop")
      PROVE  UNCHANGED disk \/ \E action : End(action)
  BY <1>6 DEF SwitchKey, Finish, Run
<1>7. CASE KeyStep
  <2>1. SwitchKeys => UNCHANGED disk \/ \E action : End(action)  BY <1>6 DEF SwitchKeys
  <2>2. ASSUME NEW k \in Keys, FilterKey(k) \/ PromptKey(k) \/ Decline(k) \/ LookKey(k) \/ ToggleKey(k)
        PROVE  UNCHANGED disk
    <3>1. CASE FilterKey(k)  BY <3>1 DEF FilterKey, Look
    <3>2. CASE PromptKey(k)
      <4>1. mode.is \in {"export", "importPath", "importName"}  BY <3>2 DEF PromptKey, Turn
      <4>. QED  BY <3>2, <4>1 DEF PromptKey, Look, Run
    <3>3. CASE Decline(k) \/ LookKey(k)  BY <3>3 DEF Decline, LookKey, Look
    <3>4. CASE ToggleKey(k)  BY <3>4 DEF ToggleKey, Run
    <3>. QED  BY <2>2, <3>1, <3>2, <3>3, <3>4
  <2>3. ASSUME NEW k \in Keys, Quit(k) PROVE \E action : End(action)  BY <2>3 DEF Quit, Finish
  <2>4. ApplyUpdate \/ RefreshKey \/ UndoKey \/ ConfirmDelete \/ ConfirmCleanup \/ ConfirmRelaunch
          => UNCHANGED disk
    BY DEF ApplyUpdate, RefreshKey, UndoKey, ConfirmDelete, ConfirmCleanup, ConfirmRelaunch, Run
  <2>. QED  BY <1>3, <1>5, <1>7, <2>1, <2>2, <2>3, <2>4 DEF KeyStep
<1>8. RefreshStep \/ PhaseStep \/ SyncReads \/ (\E i \in DOMAIN watch.syncs : SyncEnds(i)) \/ LoadFails \/ Tick
        \/ Reopen \/ (\E k \in Keys : Press(k)) \/ UNCHANGED dashVars
        => UNCHANGED disk
  BY DEF RefreshStep, LoadLists, LoadReadsCurrent, LoadReturns, PhaseStep, Return, StartMonitors, Subscribe,
         SyncReads, SyncEnds, LoadFails, Tick, Reopen, Press, dashVars
<1>9. SimpleFails \/ PreviewEnds \/ SwitchFails \/ DesktopEnds \/ CleanupFails => UNCHANGED disk
  BY DEF SimpleFails, PreviewEnds, SwitchFails, DesktopEnds, CleanupFails
<1>10. SwitchReturns \/ CleanupEnds \/ Signal => UNCHANGED disk \/ \E action : End(action)
  BY DEF SwitchReturns, CleanupEnds, Signal
<1>. QED  BY <1>2, <1>3, <1>4, <1>5, <1>7, <1>8, <1>9, <1>10 DEF DashNext, OperationStep, SyncStep

\* An account is deleted only after its own name was confirmed, whatever was
\* selected, listed or switched in between (DeletedAsAgreed).
THEOREM DeletesAgreed == DashSpec => DeletedAsAgreed
<1>1. DashIInv /\ [DashNext]_dashVars =>
        [\A name \in disk.accounts \ disk'.accounts : task.op = "unimport" \/ name = agreed]_dashVars
  BY OnlyDeletes
<1>. QED  BY <1>1, DashInitHolds, DashNextKeeps, PTL DEF DashSpec, DeletedAsAgreed
=============================================================================
