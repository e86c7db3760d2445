----------------------- MODULE LockRunnerConsoleProofs -----------------------
(***************************************************************************)
(* Proofs about three components that share no variable:                   *)
(*  - the switch lock (SwitchLock), for any set of processes and any       *)
(*    bounds;                                                              *)
(*  - the runner of codex (CliRunner), for any number of replacements of   *)
(*    auth.json and of watcher errors;                                     *)
(*  - the console (Console, with AccountAdd and SyncPass), for any pages,  *)
(*    names, identities, logins and workloads.                             *)
(***************************************************************************)
EXTENDS SwitchLock, CliRunner, Console, TLAPS, FiniteSetTheorems, SequenceTheorems

-----------------------------------------------------------------------------
(* The switch lock *)

\* The states from a successful mkdir to the end of the matching rm.
Owning == {"created", "writing", "undo1", "undo2", "held", "free1", "free2"}
Stealing == {"steal1", "steal2", "recreate"}

\* What keeps the lock exclusive before a takeover: nobody is removing another
\* process's lock, one process at most is between its mkdir and the end of its
\* rm (dead or alive), the directory exists exactly then, and owner.json is
\* in the state that process has brought it to.
Exclusive ==
  /\ \A p \in Procs : pc[p] \notin Stealing
  /\ \A p, q \in Procs : pc[p] \in Owning /\ pc[q] \in Owning => p = q
  /\ \A p \in Procs : pc[p] \in Owning => dir
  /\ dir => \E p \in Procs : pc[p] \in Owning
  /\ ~dir => owner = NoPid
  /\ \A p \in Procs : pc[p] = "writing" => p \in handles
  /\ \A p \in Procs : pc[p] \in {"undo2", "free2"} => owner = NoPid
  /\ \A p \in Procs : pc[p] \in {"held", "free1"} => owner = p

LockIInv == LockTypeOK /\ (judged = {} => Exclusive)

\* The initial state satisfies the inductive invariant.
LEMMA LockBegins == LockInit => LockIInv
<1> SUFFICES ASSUME LockInit PROVE LockIInv
  OBVIOUS
<1>1. LockTypeOK
  BY SwitchLockAssumption DEF LockInit, LockTypeOK, PCs
<1>2. Exclusive
  <2>1. \A p \in Procs : pc[p] = "idle"
    BY DEF LockInit
  <2> QED
    BY <2>1 DEF LockInit, Exclusive, Owning, Stealing
<1> QED
  BY <1>1, <1>2 DEF LockIInv

\* Every variable keeps its type.
LEMMA LockTypeStep == LockTypeOK /\ [LockNext]_lockVars => LockTypeOK'
<1> SUFFICES ASSUME LockTypeOK, [LockNext]_lockVars PROVE LockTypeOK'
  OBVIOUS
<1> USE SwitchLockAssumption DEF LockTypeOK, PCs, LockGoto
<1>1. ASSUME NEW p \in Procs, LockStep(p) PROVE LockTypeOK'
  <2>1. CASE TryCreate(p)
    BY <2>1 DEF TryCreate
  <2>2. CASE ReadOwner(p)
    BY <2>2 DEF ReadOwner
  <2>3. CASE ProbeOwner(p)
    BY <2>3 DEF ProbeOwner
  <2>4. ASSUME NEW from \in PCs, NEW to \in PCs, Unlink(p, from, to) PROVE LockTypeOK'
    BY <2>4 DEF Unlink
  <2>5. ASSUME NEW from \in PCs, NEW to \in PCs, Rmdir(p, from, to) PROVE LockTypeOK'
    BY <2>5 DEF Rmdir
  <2>6. CASE Recreate(p)
    BY <2>6 DEF Recreate
  <2>7. CASE OpenOwner(p)
    BY <2>7 DEF OpenOwner
  <2>8. CASE WriteOwner(p)
    BY <2>8 DEF WriteOwner
  <2>9. CASE WriteOwnerFails(p)
    BY <2>9 DEF WriteOwnerFails
  <2>10. CASE Release(p)
    BY <2>10 DEF Release
  <2> QED
    BY <1>1, <2>1, <2>2, <2>3, <2>4, <2>5, <2>6, <2>7, <2>8, <2>9, <2>10 DEF LockStep
<1>2. ASSUME NEW p \in Procs, Exit(p) PROVE LockTypeOK'
  BY <1>2 DEF Exit
<1>3. CASE UNCHANGED lockVars
  BY <1>3 DEF lockVars
<1> QED
  BY <1>1, <1>2, <1>3 DEF LockNext

\* A step before the first takeover, other than the judgement that starts it,
\* keeps the lock exclusive.
LEMMA ExclusiveStep ==
  LockTypeOK /\ Exclusive /\ [LockNext]_lockVars /\ judged' = {} => Exclusive'
<1> SUFFICES ASSUME LockTypeOK, Exclusive, [LockNext]_lockVars, judged' = {} PROVE Exclusive'
  OBVIOUS
<1> USE SwitchLockAssumption DEF LockTypeOK, PCs, LockGoto, Exclusive, Owning, Stealing
<1>1. ASSUME NEW p \in Procs, LockStep(p) PROVE Exclusive'
  <2>1. CASE TryCreate(p)
    BY <2>1 DEF TryCreate
  <2>2. CASE ReadOwner(p)
    BY <2>2 DEF ReadOwner
  <2>3. CASE ProbeOwner(p)
    BY <2>3 DEF ProbeOwner
  <2>4. CASE Unlink(p, "undo1", "undo2") \/ Unlink(p, "free1", "free2")
    BY <2>4 DEF Unlink
  <2>5. CASE Rmdir(p, "undo2", "idle") \/ Rmdir(p, "free2", "idle")
    BY <2>5 DEF Rmdir
  <2>6. CASE Unlink(p, "steal1", "steal2") \/ Rmdir(p, "steal2", "recreate") \/ Recreate(p)
    BY <2>6 DEF Unlink, Rmdir, Recreate
  <2>7. CASE OpenOwner(p)
    BY <2>7 DEF OpenOwner
  <2>8. CASE WriteOwner(p)
    BY <2>8 DEF WriteOwner
  <2>9. CASE WriteOwnerFails(p)
    BY <2>9 DEF WriteOwnerFails
  <2>10. CASE Release(p)
    BY <2>10 DEF Release
  <2> QED
    BY <1>1, <2>1, <2>2, <2>3, <2>4, <2>5, <2>6, <2>7, <2>8, <2>9, <2>10 DEF LockStep
<1>2. ASSUME NEW p \in Procs, Exit(p) PROVE Exclusive'
  BY <1>2 DEF Exit
<1>3. CASE UNCHANGED lockVars
  BY <1>3 DEF lockVars
<1> QED
  BY <1>1, <1>2, <1>3 DEF LockNext

\* The set of contenders that judged an owner dead only grows.
LEMMA JudgedGrows == [LockNext]_lockVars => judged \subseteq judged'
BY DEF LockNext, LockStep, lockVars, TryCreate, ReadOwner, ProbeOwner, Unlink, Rmdir, Recreate,
       OpenOwner, WriteOwner, WriteOwnerFails, Release, Exit

\* The inductive invariant holds in every reachable state.
LEMMA LockInvariant == LockSpec => []LockIInv
<1>1. LockIInv /\ [LockNext]_lockVars => LockIInv'
  <2> SUFFICES ASSUME LockIInv, [LockNext]_lockVars PROVE LockIInv'
    OBVIOUS
  <2>1. LockTypeOK'
    BY LockTypeStep DEF LockIInv
  <2>2. ASSUME judged' = {} PROVE Exclusive'
    <3>1. judged = {}
      BY <2>2, JudgedGrows
    <3> QED
      BY <2>2, <3>1, ExclusiveStep DEF LockIInv
  <2> QED
    BY <2>1, <2>2 DEF LockIInv
<1> QED
  BY LockBegins, <1>1, PTL DEF LockSpec

\* Until a contender has judged an owner dead, at most one live process has
\* been told that it owns the lock: however slow, refused or interrupted the
\* owner.json writes and the removals are.
THEOREM Mutex == LockSpec => []MutexUntilTakeover
<1>1. LockIInv => MutexUntilTakeover
  BY DEF LockIInv, Exclusive, Owning, MutexUntilTakeover, MutualExclusion, Holders, LockTypeOK
<1> QED
  BY <1>1, LockInvariant, PTL

\* Until then, the lock of a live owner is in place and names it; the lock's files and
\* the processes at it are what tryAcquireSwitchLock can have made of them at any time.
THEOREM Recorded == LockSpec => []LockInv
<1>1. LockIInv => LockInv
  BY DEF LockIInv, LockInv, Exclusive, Owning, HolderRecorded, Holders, LockTypeOK
<1> QED
  BY <1>1, LockInvariant, PTL

-----------------------------------------------------------------------------
(* The runner: where the restart is, which children it has dealt with, and who   *)
(* may still end the run.                                                      *)

\* A child process, as RunnerTypeOK has it.
Child == [st : {"starting", "running", "exited", "reaped"}, auth : Contents \cup {NotRead},
          told : BOOLEAN, killed : BOOLEAN, expected : BOOLEAN]

\* killAndRestart has told its old child before it waits, has sent SIGKILL before
\* the second wait, and has no current child when it spawns one.
RestartInv ==
  /\ restart \in {"term", "kill"} => old # 0 /\ child \in {0, old} /\ kids[old].expected
  /\ restart = "kill" => kids[old].killed
  /\ restart \in {"hash", "args"} => child = 0

\* A child that runs is the current one, or it is expected to exit and was killed.
FamilyInv ==
  /\ child \in {0, Len(kids)}
  /\ \A c \in Kids :
       /\ Running(c) /\ c # child => kids[c].killed /\ kids[c].expected
       /\ kids[c].expected => kids[c].told

\* A run that cannot be resumed ends between two restarts.
EndInv ==
  /\ ending # {} => resumable
  /\ resolved => stopped
  /\ resolved /\ ~aborted /\ ~resumable =>
       restart = "idle" /\ \A c \in Kids : Running(c) => kids[c].told

RunnerIInv == RunnerTypeOK /\ RestartInv /\ FamilyInv /\ EndInv

-----------------------------------------------------------------------------

\* The children when one of them changes.
LEMMA Changed ==
  ASSUME kids \in Seq(Child), NEW c \in Kids, NEW e \in Child, kids' = [kids EXCEPT ![c] = e]
  PROVE  /\ kids' \in Seq(Child) /\ Len(kids') = Len(kids) /\ Kids' = Kids
         /\ kids'[c] = e
         /\ \A d \in Kids \ {c} : kids'[d] = kids[d]
<1>1. Kids = 1..Len(kids)
  BY LenProperties DEF Kids
<1>2. /\ kids' \in Seq(Child) /\ Len(kids') = Len(kids)
      /\ \A d \in 1..Len(kids) : kids'[d] = IF d = c THEN e ELSE kids[d]
  BY <1>1, ExceptSeq
<1>3. Kids' = 1..Len(kids')
  BY <1>2, LenProperties DEF Kids
<1> QED
  BY <1>1, <1>2, <1>3

\* The children when one is spawned.
LEMMA Spawned ==
  ASSUME kids \in Seq(Child), kids' = Append(kids, NewChild)
  PROVE  /\ kids' \in Seq(Child) /\ Len(kids') = Len(kids) + 1 /\ Kids \subseteq Kids'
         /\ Kids' = Kids \cup {Len(kids')}
         /\ kids'[Len(kids')] = NewChild
         /\ \A d \in Kids : kids'[d] = kids[d]
<1>1. NewChild \in Child
  BY CliRunnerAssumption DEF NewChild, Child, NotRead
<1>2. Kids = 1..Len(kids) /\ Len(kids) \in Nat
  BY LenProperties DEF Kids
<1>3. /\ kids' \in Seq(Child) /\ Len(kids') = Len(kids) + 1
      /\ kids'[Len(kids) + 1] = NewChild
      /\ \A d \in 1..Len(kids) : kids'[d] = kids[d]
  BY <1>1, AppendProperties
<1>4. Kids' = 1..Len(kids')
  BY <1>3, LenProperties DEF Kids
<1> QED
  BY <1>2, <1>3, <1>4

\* What a child is, and where the pointers of the runner point.
LEMMA Types ==
  RunnerTypeOK =>
            /\ kids \in Seq(Child) /\ Kids = 1..Len(kids) /\ Len(kids) \in Nat
            /\ \A c \in Kids : kids[c] \in Child
            /\ child \in Kids \cup {0} /\ old \in Kids \cup {0}
<1> SUFFICES ASSUME RunnerTypeOK PROVE
      /\ kids \in Seq(Child) /\ Kids = 1..Len(kids) /\ Len(kids) \in Nat
      /\ \A c \in Kids : kids[c] \in Child
      /\ child \in Kids \cup {0} /\ old \in Kids \cup {0}
  OBVIOUS
<1>1. kids \in Seq(Child)
  BY DEF RunnerTypeOK, Child
<1>2. Kids = 1..Len(kids) /\ Len(kids) \in Nat
  BY <1>1, LenProperties DEF Kids
<1>3. \A c \in Kids : kids[c] \in Child
  BY <1>1, <1>2, ElementOfSeq
<1> QED
  BY <1>1, <1>2, <1>3 DEF RunnerTypeOK

\* The initial state satisfies the inductive invariant.
LEMMA RunnerBegins == RunnerInit => RunnerIInv
<1> SUFFICES ASSUME RunnerInit PROVE RunnerIInv
  OBVIOUS
<1>1. NewChild \in Child
  BY CliRunnerAssumption DEF NewChild, Child, NotRead
<1>2. kids \in Seq(Child) /\ Len(kids) = 1 /\ Kids = {1} /\ kids[1] = NewChild
  BY <1>1 DEF RunnerInit, Kids
<1>3. RunnerTypeOK
  <2>1. known \in BOOLEAN
    BY DEF RunnerInit
  <2>2. file \in Contents /\ hash \in Contents /\ errors \in 0..MaxErrors /\ switches \in 0..MaxSwitches
    BY CliRunnerAssumption DEF RunnerInit
  <2>3. child \in 0..Len(kids) /\ old \in 0..Len(kids)
    BY <1>2 DEF RunnerInit
  <2> QED
    BY <1>2, <2>1, <2>2, <2>3 DEF RunnerInit, RunnerTypeOK, Child
<1>4. RestartInv /\ FamilyInv /\ EndInv
  BY <1>2 DEF RunnerInit, RestartInv, FamilyInv, EndInv, Running, NewChild
<1> QED
  BY <1>3, <1>4 DEF RunnerIInv

\* The inductive invariant is preserved by every step.
LEMMA RunnerMoves == RunnerIInv /\ [RunnerNext]_runnerVars => RunnerIInv'
<1> SUFFICES ASSUME RunnerTypeOK, RestartInv, FamilyInv, EndInv, [RunnerNext]_runnerVars PROVE RunnerIInv'
  BY DEF RunnerIInv
<1>t. /\ kids \in Seq(Child) /\ Kids = 1..Len(kids) /\ Len(kids) \in Nat
      /\ \A c \in Kids : kids[c] \in Child
      /\ child \in Kids \cup {0} /\ old \in Kids \cup {0}
  BY Types
<1> USE DEF checkVars, replacedVars, endVars, Running, Kids
<1>1. CASE Debounced
  <2>1. RunnerTypeOK'
    BY <1>1, <1>t DEF RunnerTypeOK, Debounced
  <2>2. RestartInv'
    BY <1>1, <1>t DEF RestartInv, Debounced
  <2>3. FamilyInv'
    BY <1>1, <1>t DEF FamilyInv, Debounced
  <2>4. EndInv'
    BY <1>1, <1>t DEF EndInv, Debounced
  <2> QED
    BY <2>1, <2>2, <2>3, <2>4 DEF RunnerIInv
<1>2. CASE ReadAuthHash
  <2>1. RunnerTypeOK'
    BY <1>2, <1>t DEF RunnerTypeOK, ReadAuthHash
  <2>2. RestartInv'
    BY <1>2, <1>t DEF RestartInv, ReadAuthHash
  <2>3. FamilyInv'
    BY <1>2, <1>t DEF FamilyInv, ReadAuthHash
  <2>4. EndInv'
    BY <1>2, <1>t DEF EndInv, ReadAuthHash
  <2> QED
    BY <2>1, <2>2, <2>3, <2>4 DEF RunnerIInv
<1>3. CASE ExitSeen
  <2>1. RunnerTypeOK'
    BY <1>3, <1>t DEF RunnerTypeOK, ExitSeen, AfterWait
  <2>2. RestartInv'
    BY <1>3, <1>t DEF RestartInv, ExitSeen, AfterWait
  <2>3. FamilyInv'
    BY <1>3, <1>t DEF FamilyInv, ExitSeen, AfterWait
  <2>4. EndInv'
    BY <1>3, <1>t DEF EndInv, ExitSeen, AfterWait
  <2> QED
    BY <2>1, <2>2, <2>3, <2>4 DEF RunnerIInv
<1>4. CASE KillTimeout
  <2>1. RunnerTypeOK'
    BY <1>4, <1>t DEF RunnerTypeOK, KillTimeout, AfterWait
  <2>2. RestartInv'
    BY <1>4, <1>t DEF RestartInv, KillTimeout, AfterWait
  <2>3. FamilyInv'
    BY <1>4, <1>t DEF FamilyInv, RestartInv, KillTimeout, AfterWait
  <2>4. EndInv'
    BY <1>4, <1>t DEF EndInv, KillTimeout, AfterWait
  <2> QED
    BY <2>1, <2>2, <2>3, <2>4 DEF RunnerIInv
<1>5. CASE RereadHash
  <2>1. RunnerTypeOK'
    BY <1>5, <1>t DEF RunnerTypeOK, RereadHash
  <2>2. RestartInv'
    BY <1>5, <1>t DEF RestartInv, RereadHash
  <2>3. FamilyInv'
    BY <1>5, <1>t DEF FamilyInv, RereadHash
  <2>4. EndInv'
    BY <1>5, <1>t DEF EndInv, RereadHash
  <2> QED
    BY <2>1, <2>2, <2>3, <2>4 DEF RunnerIInv
<1>6. CASE WatchAgain
  <2>1. RunnerTypeOK'
    BY <1>6, <1>t DEF RunnerTypeOK, WatchAgain
  <2>2. RestartInv'
    BY <1>6, <1>t DEF RestartInv, WatchAgain
  <2>3. FamilyInv'
    BY <1>6, <1>t DEF FamilyInv, WatchAgain
  <2>4. EndInv'
    BY <1>6, <1>t DEF EndInv, WatchAgain
  <2> QED
    BY <2>1, <2>2, <2>3, <2>4 DEF RunnerIInv
<1>7. ASSUME NEW v \in Contents, Replace(v) PROVE RunnerIInv'
  <2>1. RunnerTypeOK'
    BY <1>7, <1>t, CliRunnerAssumption DEF RunnerTypeOK, Replace, NewContent
  <2>2. RestartInv'
    BY <1>7, <1>t DEF RestartInv, Replace, NewContent
  <2>3. FamilyInv'
    BY <1>7, <1>t DEF FamilyInv, Replace, NewContent
  <2>4. EndInv'
    BY <1>7, <1>t DEF EndInv, Replace, NewContent
  <2> QED
    BY <2>1, <2>2, <2>3, <2>4 DEF RunnerIInv
<1>8. CASE DiscoverSession
  <2>1. RunnerTypeOK'
    BY <1>8, <1>t DEF RunnerTypeOK, DiscoverSession
  <2>2. RestartInv'
    BY <1>8, <1>t DEF RestartInv, DiscoverSession
  <2>3. FamilyInv'
    BY <1>8, <1>t DEF FamilyInv, DiscoverSession
  <2>4. EndInv'
    BY <1>8, <1>t DEF EndInv, DiscoverSession
  <2> QED
    BY <2>1, <2>2, <2>3, <2>4 DEF RunnerIInv
<1>9. CASE WatchError
  <2>1. RunnerTypeOK'
    BY <1>9, <1>t, CliRunnerAssumption DEF RunnerTypeOK, WatchError
  <2>2. RestartInv'
    BY <1>9, <1>t DEF RestartInv, WatchError
  <2>3. FamilyInv'
    BY <1>9, <1>t DEF FamilyInv, WatchError
  <2>4. EndInv'
    BY <1>9, <1>t DEF EndInv, WatchError
  <2> QED
    BY <2>1, <2>2, <2>3, <2>4 DEF RunnerIInv
<1>10. ASSUME NEW v \in reads, CompareHash(v) PROVE RunnerIInv'
  <2> DEFINE told == [kids[child] EXCEPT !.told = TRUE, !.expected = TRUE]
  <2>1. CASE UNCHANGED <<kids, child, old, restart>>
    <3>1. RunnerTypeOK'
      BY <1>10, <2>1, <1>t DEF RunnerTypeOK, CompareHash
    <3>2. RestartInv' /\ FamilyInv' /\ EndInv'
      BY <1>10, <2>1, <1>t DEF CompareHash, RestartInv, FamilyInv, EndInv
    <3> QED
      BY <3>1, <3>2 DEF RunnerIInv
  <2>2. CASE KillAndRestart /\ child = 0
    <3>1. RunnerTypeOK'
      BY <1>10, <2>2, <1>t DEF RunnerTypeOK, CompareHash, KillAndRestart
    <3>2. RestartInv' /\ FamilyInv' /\ EndInv'
      BY <1>10, <2>2, <1>t DEF CompareHash, KillAndRestart, RestartInv, FamilyInv, EndInv
    <3> QED
      BY <3>1, <3>2 DEF RunnerIInv
  <2>3. CASE KillAndRestart /\ child # 0
    <3>1. child \in Kids /\ told \in Child /\ kids' = [kids EXCEPT ![child] = told]
      BY <2>3, <1>t DEF KillAndRestart, Child
    <3> HIDE DEF told
    <3>2. /\ kids' \in Seq(Child) /\ Len(kids') = Len(kids) /\ Kids' = Kids
          /\ kids'[child] = told
          /\ \A d \in Kids \ {child} : kids'[d] = kids[d]
      BY <3>1, <1>t, Changed
    <3>3. told.expected /\ told.told
      BY <3>1, <1>t DEF told, Child
    <3>4. RunnerTypeOK'
      BY <1>10, <2>3, <3>2, <1>t DEF RunnerTypeOK, Child, CompareHash, KillAndRestart
    <3>5. RestartInv' /\ FamilyInv' /\ EndInv'
      BY <1>10, <2>3, <3>1, <3>2, <3>3, <1>t
      DEF CompareHash, KillAndRestart, RestartInv, FamilyInv, EndInv
    <3> QED
      BY <3>4, <3>5 DEF RunnerIInv
  <2> QED
    BY <1>10, <2>1, <2>2, <2>3 DEF CompareHash
<1>11. CASE TermTimeout
  <2> DEFINE changed == [kids[old] EXCEPT !.killed = TRUE]
  <2>1. old \in Kids /\ changed \in Child /\ kids' = [kids EXCEPT ![old] = changed]
    BY <1>11, <1>t, CliRunnerAssumption DEF TermTimeout, Child, RunnerTypeOK, RestartInv
  <2>2. /\ changed.killed /\ changed.st = kids[old].st
        /\ changed.expected = kids[old].expected /\ changed.told = kids[old].told
    BY <1>11, <2>1, <1>t DEF TermTimeout, Child
  <2> HIDE DEF changed
  <2>3. /\ kids' \in Seq(Child) /\ Len(kids') = Len(kids) /\ Kids' = Kids
        /\ kids'[old] = changed
        /\ \A d \in Kids \ {old} : kids'[d] = kids[d]
    BY <2>1, <1>t, Changed
  <2>4. RunnerTypeOK'
    BY <1>11, <2>3, <1>t DEF RunnerTypeOK, Child, TermTimeout
  <2>5. RestartInv'
    BY <1>11, <2>1, <2>2, <2>3, <1>t DEF TermTimeout, RestartInv, FamilyInv
  <2>6. FamilyInv'
    BY <1>11, <2>1, <2>2, <2>3, <1>t DEF TermTimeout, RestartInv, FamilyInv
  <2>7. EndInv'
    BY <1>11, <2>1, <2>2, <2>3, <1>t DEF TermTimeout, EndInv, RestartInv, FamilyInv
  <2> QED
    BY <2>4, <2>5, <2>6, <2>7 DEF RunnerIInv
<1>12. ASSUME NEW c \in Kids, ChildReadsAuth(c) PROVE RunnerIInv'
  <2> DEFINE changed == [kids[c] EXCEPT !.st = "running", !.auth = file]
  <2>a. file \in Contents \cup {NotRead}
    BY CliRunnerAssumption DEF RunnerTypeOK
  <2>1. c \in Kids /\ changed \in Child /\ kids' = [kids EXCEPT ![c] = changed]
    BY <1>12, <2>a, <1>t DEF ChildReadsAuth, Child
  <2>2. /\ Running(c) /\ changed.killed = kids[c].killed
        /\ changed.expected = kids[c].expected /\ changed.told = kids[c].told
    BY <1>12, <2>1, <1>t DEF ChildReadsAuth, Child
  <2> HIDE DEF changed
  <2>3. /\ kids' \in Seq(Child) /\ Len(kids') = Len(kids) /\ Kids' = Kids
        /\ kids'[c] = changed
        /\ \A d \in Kids \ {c} : kids'[d] = kids[d]
    BY <2>1, <1>t, Changed
  <2>4. RunnerTypeOK'
    BY <1>12, <2>3, <1>t DEF RunnerTypeOK, Child, ChildReadsAuth
  <2>5. RestartInv'
    BY <1>12, <2>1, <2>2, <2>3, <1>t DEF ChildReadsAuth, RestartInv, FamilyInv
  <2>6. FamilyInv'
    BY <1>12, <2>1, <2>2, <2>3, <1>t DEF ChildReadsAuth, RestartInv, FamilyInv
  <2>7. EndInv'
    BY <1>12, <2>1, <2>2, <2>3, <1>t DEF ChildReadsAuth, EndInv, RestartInv, FamilyInv
  <2> QED
    BY <2>4, <2>5, <2>6, <2>7 DEF RunnerIInv
<1>13. ASSUME NEW c \in Kids, ChildExits(c) PROVE RunnerIInv'
  <2> DEFINE changed == [kids[c] EXCEPT !.st = "exited"]
  <2>1. c \in Kids /\ changed \in Child /\ kids' = [kids EXCEPT ![c] = changed]
    BY <1>13, <1>t, CliRunnerAssumption DEF ChildExits, Child, RunnerTypeOK, RestartInv
  <2>2. /\ changed.st = "exited" /\ changed.killed = kids[c].killed
        /\ changed.expected = kids[c].expected /\ changed.told = kids[c].told
    BY <1>13, <2>1, <1>t DEF ChildExits, Child
  <2> HIDE DEF changed
  <2>3. /\ kids' \in Seq(Child) /\ Len(kids') = Len(kids) /\ Kids' = Kids
        /\ kids'[c] = changed
        /\ \A d \in Kids \ {c} : kids'[d] = kids[d]
    BY <2>1, <1>t, Changed
  <2>4. RunnerTypeOK'
    BY <1>13, <2>3, <1>t DEF RunnerTypeOK, Child, ChildExits
  <2>5. RestartInv'
    BY <1>13, <2>1, <2>2, <2>3, <1>t DEF ChildExits, RestartInv, FamilyInv
  <2>6. FamilyInv'
    BY <1>13, <2>1, <2>2, <2>3, <1>t DEF ChildExits, RestartInv, FamilyInv
  <2>7. EndInv'
    BY <1>13, <2>1, <2>2, <2>3, <1>t DEF ChildExits, EndInv, RestartInv, FamilyInv
  <2> QED
    BY <2>4, <2>5, <2>6, <2>7 DEF RunnerIInv
<1>14. ASSUME NEW c \in Kids, HandleChildExit(c) PROVE RunnerIInv'
  <2> DEFINE changed == [kids[c] EXCEPT !.st = "reaped"]
  <2>1. c \in Kids /\ changed \in Child /\ kids' = [kids EXCEPT ![c] = changed]
    BY <1>14, <1>t, CliRunnerAssumption DEF HandleChildExit, Child, RunnerTypeOK, RestartInv
  <2>2. /\ changed.st = "reaped" /\ changed.killed = kids[c].killed
        /\ changed.expected = kids[c].expected /\ changed.told = kids[c].told
    BY <1>14, <2>1, <1>t DEF HandleChildExit, Child
  <2> HIDE DEF changed
  <2>3. /\ kids' \in Seq(Child) /\ Len(kids') = Len(kids) /\ Kids' = Kids
        /\ kids'[c] = changed
        /\ \A d \in Kids \ {c} : kids'[d] = kids[d]
    BY <2>1, <1>t, Changed
  <2>4. RunnerTypeOK'
    <3>1. child' \in 0..Len(kids)
      BY <1>14, <1>t DEF HandleChildExit
    <3>2. ending' \subseteq Kids
      BY <1>14 DEF RunnerTypeOK, HandleChildExit
    <3>3. /\ watch' \in {"on", "broken", "closed"}
          /\ timer' \in BOOLEAN /\ stopped' \in BOOLEAN
          /\ resolved' \in BOOLEAN /\ aborted' \in BOOLEAN
      BY <1>14 DEF RunnerTypeOK, HandleChildExit, Stop
    <3> QED
      BY <1>14, <2>3, <3>1, <3>2, <3>3, <1>t DEF RunnerTypeOK, Child, HandleChildExit
  <2>5. RestartInv'
    BY <1>14, <2>1, <2>2, <2>3, <1>t DEF HandleChildExit, Stop, RestartInv, FamilyInv
  <2>6. FamilyInv'
    BY <1>14, <2>1, <2>2, <2>3, <1>t DEF HandleChildExit, Stop, RestartInv, FamilyInv
  <2>7. EndInv'
    <3>1. CASE kids[c].expected \/ stopped \/ child # c
      BY <1>14, <3>1, <2>1, <2>2, <2>3, <1>t DEF HandleChildExit, EndInv
    <3>2. CASE ~(kids[c].expected \/ stopped \/ child # c) /\ resumable /\ ~known
      BY <1>14, <3>2, <2>1, <2>2, <2>3, <1>t DEF HandleChildExit, EndInv
    <3>3. CASE ~(kids[c].expected \/ stopped \/ child # c) /\ ~(resumable /\ ~known)
      <4>1. restart = "idle" /\ restart' = "idle"
        BY <1>14, <3>3, <1>t DEF HandleChildExit, RestartInv, RunnerTypeOK
      <4>2. \A d \in Kids' : Running(d)' => kids'[d].told
        BY <2>1, <2>2, <2>3, <3>3, <1>t DEF FamilyInv
      <4>3. stopped' /\ UNCHANGED <<ending, resumable>>
        BY <1>14, <3>3 DEF HandleChildExit, Stop
      <4> QED
        BY <4>1, <4>2, <4>3 DEF EndInv
    <3> QED
      BY <3>1, <3>2, <3>3
  <2> QED
    BY <2>4, <2>5, <2>6, <2>7 DEF RunnerIInv
<1>15. CASE SpawnAgain
  <2>1. /\ kids' \in Seq(Child) /\ Len(kids') = Len(kids) + 1 /\ Kids \subseteq Kids'
        /\ Kids' = Kids \cup {Len(kids')}
        /\ kids'[Len(kids')] = NewChild
        /\ \A d \in Kids : kids'[d] = kids[d]
    BY <1>15, <1>t, Spawned DEF SpawnAgain
  <2>2. NewChild.expected = FALSE
    BY DEF NewChild
  <2>3. RunnerTypeOK'
    <3>1. child' \in 0..Len(kids') /\ old' \in 0..Len(kids')
      BY <1>15, <2>1, <1>t DEF SpawnAgain
    <3>2. ending' \subseteq Kids'
      BY <1>15, <2>1 DEF RunnerTypeOK, SpawnAgain
    <3>3. known' \in BOOLEAN
      BY <1>15 DEF RunnerTypeOK, SpawnAgain
    <3> QED
      BY <1>15, <2>1, <3>1, <3>2, <3>3, <1>t DEF RunnerTypeOK, Child, SpawnAgain
  <2>4. RestartInv'
    BY <1>15 DEF SpawnAgain, RestartInv
  <2>5. FamilyInv'
    BY <1>15, <2>1, <2>2, <1>t DEF SpawnAgain, RestartInv, FamilyInv, Running
  <2>6. EndInv'
    BY <1>15, <2>1, <1>t DEF SpawnAgain, EndInv
  <2> QED
    BY <2>3, <2>4, <2>5, <2>6 DEF RunnerIInv
<1>16. ASSUME NEW c \in Kids, EndAfterLookup(c) PROVE RunnerIInv'
  <2>1. RunnerTypeOK'
    BY <1>16, <1>t DEF RunnerTypeOK, EndAfterLookup, Stop
  <2>2. RestartInv'
    BY <1>16, <1>t DEF RestartInv, EndAfterLookup, Stop
  <2>3. FamilyInv'
    BY <1>16, <1>t DEF FamilyInv, EndAfterLookup, Stop
  <2>4. EndInv'
    BY <1>16, <1>t DEF EndInv, EndAfterLookup, Stop
  <2> QED
    BY <2>1, <2>2, <2>3, <2>4 DEF RunnerIInv
<1>17. ASSUME NEW resolves \in BOOLEAN, Abort(resolves) PROVE RunnerIInv'
  <2>1. CASE child = 0 \/ kids[child].st = "reaped"
    <3>1. RunnerTypeOK'
      BY <1>17, <2>1, <1>t DEF RunnerTypeOK, Abort, Stop
    <3>2. RestartInv' /\ FamilyInv' /\ EndInv'
      BY <1>17, <2>1, <1>t DEF Abort, Stop, RestartInv, FamilyInv, EndInv
    <3> QED
      BY <3>1, <3>2 DEF RunnerIInv
  <2>2. CASE ~(child = 0 \/ kids[child].st = "reaped")
    <3> DEFINE told == [kids[child] EXCEPT !.told = TRUE, !.expected = TRUE]
    <3>1. child \in Kids /\ told \in Child /\ kids' = [kids EXCEPT ![child] = told]
      BY <1>17, <2>2, <1>t DEF Abort, Child
    <3>2. told.expected /\ told.told /\ told.killed = kids[child].killed
      BY <3>1, <1>t DEF Child
    <3> HIDE DEF told
    <3>3. /\ kids' \in Seq(Child) /\ Len(kids') = Len(kids) /\ Kids' = Kids
          /\ kids'[child] = told
          /\ \A d \in Kids \ {child} : kids'[d] = kids[d]
      BY <3>1, <1>t, Changed
    <3>4. RunnerTypeOK'
      BY <1>17, <3>3, <1>t DEF RunnerTypeOK, Child, Abort, Stop
    <3>5. RestartInv' /\ FamilyInv' /\ EndInv'
      BY <1>17, <3>1, <3>2, <3>3, <1>t DEF Abort, Stop, RestartInv, FamilyInv, EndInv
    <3> QED
      BY <3>4, <3>5 DEF RunnerIInv
  <2> QED
    BY <2>1, <2>2
<1>18. CASE UNCHANGED runnerVars
  BY <1>18 DEF RunnerIInv, RunnerTypeOK, RestartInv, FamilyInv, EndInv, runnerVars
<1> QED
  BY <1>1, <1>2, <1>3, <1>4, <1>5, <1>6, <1>7, <1>8, <1>9, <1>10, <1>11, <1>12, <1>13, <1>14, <1>15,
     <1>16, <1>17, <1>18 DEF RunnerNext, Runner

\* What the invariant promises.
LEMMA RunnerPromise == RunnerIInv => ChildInv
<1> SUFFICES ASSUME RunnerTypeOK, RestartInv, FamilyInv, EndInv PROVE ChildInv
  BY DEF RunnerIInv
<1>1. OneChild
  <2> DEFINE free == {c \in Kids : Running(c) /\ ~kids[c].killed}
  <2>1. free \subseteq {child}
    BY DEF FamilyInv
  <2>2. IsFiniteSet({child}) /\ Cardinality({child}) = 1
    BY FS_Singleton
  <2>3. Cardinality(free) <= 1
    BY <2>1, <2>2, FS_Subset
  <2> QED
    BY <2>3 DEF OneChild
<1>2. NoneForgotten /\ NoOrphan
  BY DEF FamilyInv, EndInv, NoneForgotten, NoOrphan
<1> QED
  BY <1>1, <1>2 DEF ChildInv

\* Two codex processes never share the terminal, the runner loses sight of none, and
\* a run that ended by itself leaves none behind: whatever replacements of auth.json,
\* failures of the watcher, timeouts, exits and aborts interleave with a restart
\* (runCodexWithAutoRestart, killAndRestart, handleChildExit).
THEOREM ChildrenCorrect == RunnerSpec => []ChildInv
<1>1. RunnerInit => RunnerIInv
  BY RunnerBegins
<1>2. RunnerIInv /\ [RunnerNext]_runnerVars => RunnerIInv'
  BY RunnerMoves
<1>3. RunnerIInv => ChildInv
  BY RunnerPromise
<1> QED
  BY <1>1, <1>2, <1>3, PTL DEF RunnerSpec

-----------------------------------------------------------------------------
(* The console.  Its inductive invariant has five parts: the types; the logins  *)
(* (LoginInv); Desktop and the lock a switch takes (DeskInv); the removals      *)
(* (RemInv); and, for the accounts switched to, SwitchInv.                      *)

\* A name or a login, or none.
NameOrNone == Names \cup {NoName}
FlowOrNone == Flows \cup {NoFlow}

\* The actions of a page, and how a request is answered.
ActDo == {"switch", "remove", "sync", "relaunch", "quit"}
Outs == {"none", "confirm", "pending", "failed", "done", "error", "missing", "unreachable", "ok"}

\* The types of the records: pages, requests, logins, passes and the bounds.
PageRec == [open : BOOLEAN, name : NameOrNone, who : Who \cup {NoTok}, forced : BOOLEAN,
            agreed : SUBSET NameOrNone, edited : BOOLEAN, over : NameOrNone, ready : BOOLEAN,
            flow : FlowOrNone, polling : BOOLEAN, win : Flows \cup {"none", "blank", "gone"},
            plan : Seq(Intent)]
ReqRec == [pc : {"idle", "sent", "started", "locked", "deleted", "syncing", "quitting", "opening", "answered"},
           do : ActDo \cup {"none", "add", "poll"}, n : NameOrNone, f : FlowOrNone,
           who : Who \cup {NoTok}, force : BOOLEAN, agreed : SUBSET NameOrNone, edited : BOOLEAN,
           out : {"none", "confirm", "pending", "failed", "done", "error", "missing", "unreachable", "ok"}]
FlowRec == [st : {"new", "starting", "wait", "exchange", "save", "sync", "done", "error"}, known : BOOLEAN,
            n : NameOrNone, who : Who \cup {NoTok}, force : BOOLEAN, agreed : SUBSET NameOrNone,
            edited : BOOLEAN, via : FlowOrNone, cancel : {"no", "early", "late"}, late : BOOLEAN]
PassRec == [pc : {"off", "list", "look", "visit", "save", "apply", "upload"}, adopts : SUBSET Names,
            pushes : SUBSET Names, seen : [Names -> TokOrNone], active : SUBSET Names,
            name : NameOrNone, got : TokOrNone, pull : BOOLEAN]
LeftRec == [loops : Nat, elsewhere : Nat, faults : Nat, clicks : Nat]

\* A pass that is off has nothing, and one that is about an account has its name and token.
PassFits(r) ==
  /\ pass[r].pc = "off" => pass[r] = OffPass
  /\ pass[r].pc \in {"save", "apply", "upload"} => pass[r].name \in Names /\ pass[r].got \in Tok

\* The types, by the module that has the variables.
SyncType ==
  /\ work \in Works /\ left \in LeftRec
  /\ store \in [Names -> TokOrNone] /\ reg \in [Names -> TokOrNone] /\ cur \in Tok
  /\ pass \in [Runners -> PassRec]
  /\ \A r \in Runners : PassFits(r)
AddType ==
  /\ tab \in [Actors -> PageRec] /\ req \in [Slots -> ReqRec] /\ flow \in [Flows -> FlowRec]
  /\ port \in FlowOrNone /\ up \in {"up", "closing", "closed"}
  /\ tells \in SUBSET Flows /\ pages \in SUBSET Flows /\ strayed \in SUBSET Flows
  /\ saved \in SUBSET Flows /\ overwritten \in SUBSET Flows
DeskType ==
  /\ lock \in Slots \cup {NoSlot} /\ app \in {"none", "ours", "theirs", "slipped"} /\ opens \in Nat
  /\ closed \in SUBSET {"none", "ours", "theirs", "slipped"}
HistType == gone \in SUBSET Names /\ busy \in SUBSET Slots /\ chosen \in Who \cup {NoTok}

\* What a request is, by its slot.
Kind(s, r) == r.pc # "idle" =>
  /\ s[2] = "add" => r.do = "add" /\ r.pc \in {"sent", "started", "answered"} /\ r.who \in Who
  /\ s[2] = "act" => r.do \in ActDo /\ r.pc # "started" /\ r.n \in Names
  /\ s[2] \in {"poll1", "poll2"} => r.do = "poll" /\ r.pc = "answered"

\* No request is in the server.
Over == \A s \in Slots : req[s].pc \in {"idle", "answered"}

\* Every request is one of its slot, and the server that has ended has none.
Kinds == (\A s \in Slots : Kind(s, req[s])) /\ (up = "closed" => Over)

\* What the operator agreed to.
Asked(x) == x.n \in x.agreed \/ x.edited
PageAsked(p, r) ==
  /\ p.open => p.who \in Who
  /\ p.forced => p.name \in p.agreed \/ p.edited
  /\ r.pc # "idle" => p.name = r.n \/ p.edited
  /\ r.pc # "idle" /\ r.force => Asked(r)

\* The logins that a page and its requests are about.
Begun(f) == f \in Flows /\ flow[f].st \notin {"new", "starting"}
AddLinks(p, r) ==
  /\ r.pc = "started" => r.f \in Flows /\ flow[r.f].st # "new"
  /\ r.pc = "answered" /\ r.out = "pending" => Begun(r.f)
  /\ r.pc \in {"idle", "sent"} \/ (r.pc = "answered" /\ r.out # "pending") => r.f = NoFlow
  /\ r.f # NoFlow => p.flow # port \/ port = NoFlow
PollLinks(q) ==
  q.pc # "idle" => /\ Begun(q.f)
                   /\ q.out \in {"done", "error", "missing"} => port # q.f
                   /\ q.out = "unreachable" => up # "up"

\* What a page knows of the logins is true of them.
PageInv(t) ==
  /\ PageAsked(tab[t], req[<<t, "add">>])
  /\ tab[t].flow # NoFlow => Begun(tab[t].flow)
  /\ tab[t].polling <=> tab[t].flow # NoFlow
  /\ AddLinks(tab[t], req[<<t, "add">>])
  /\ \A s \in Polls(t) : PollLinks(req[s])

\* A login: what was agreed, whose code completed it, and whether it has the port.
FlowInv(f) ==
  /\ flow[f].st # "new" => flow[f].who \in Who
  /\ flow[f].force => Asked(flow[f])
  /\ flow[f].st \in {"exchange", "save", "sync", "done"} => flow[f].via = f
  /\ flow[f].cancel = "early" => flow[f].st = "error"
  /\ f \in saved \cup overwritten => flow[f].st \in {"sync", "done"}
  /\ f \in overwritten => Asked(flow[f])
  /\ Waiting(f) <=> port = f
  /\ flow[f].st = "wait" => flow[f].known
  /\ flow[f].st = "wait" /\ up # "up" => flow[f].late

\* Who starts a login, and who watches it.
StartedBy(f) == \E t \in Tabs : req[<<t, "add">>].pc = "started" /\ req[<<t, "add">>].f = f
Watched(f) == \/ f \in tells \cup strayed
              \/ \E t \in Tabs : tab[t].flow = f /\ tab[t].polling
              \/ \E t \in Tabs : req[<<t, "add">>].f = f

\* The logins: every page, every login, and somebody for each login in progress.
LoginInv ==
  /\ AddType /\ Kinds
  /\ \A t \in Tabs : PageInv(t)
  /\ \A f \in Flows : /\ FlowInv(f)
                      /\ flow[f].st = "starting" => StartedBy(f)
                      /\ flow[f].st = "wait" /\ up = "up" => Watched(f)

\* The lock is a switch's, and a restart that has looked and was not confirmed has
\* not found the operator's own Desktop.
DeskInv == /\ lock # NoSlot => At(lock, "locked", "switch")
           /\ \A s \in Slots : At(s, "quitting", "relaunch") /\ ~req[s].force => app # "theirs"
           /\ DesktopSpared

\* What is left of an account on its way out.
NoMore(r, n) == /\ n \notin pass[r].adopts \cup pass[r].pushes
                /\ pass[r].pc \in {"save", "apply", "upload"} => pass[r].name # n

\* Gone: from here, from the registry and from every pass.
Gone(n) == store[n] = NoTok /\ reg[n] = NoTok /\ \A r \in Runners : NoMore(r, n)

\* How far a removal has come.
Cleared(s) == /\ req[s].out = "ok" => reg[req[s].n] = NoTok
              /\ req[s].pc = "syncing" => store[req[s].n] = NoTok /\ NoMore(s, req[s].n)

\* A pass runs for a page's action only while its request syncs, and a request on its
\* way has no answer yet.
SlotInv == \A s \in Slots : /\ ~Idle(s) => req[s].pc = "syncing"
                            /\ req[s].pc = "sent" => req[s].out # "ok"

\* A removal with nothing beside it goes on as it began, and what is gone is gone.
RemInv ==
  /\ SlotInv
  /\ \A s \in Removing \ busy : ~Others(s) /\ Cleared(s)
  /\ \A n \in gone : Gone(n)

\* The inductive invariant.
IInv == SyncType /\ HistType /\ LoginInv /\ DeskType /\ DeskInv /\ RemInv

-----------------------------------------------------------------------------
\* A runner with no pass has the type of a pass.
LEMMA OffTyped == OffPass \in PassRec
BY DEF OffPass, PassRec, TokOrNone, NameOrNone

\* So has one whose pass starts, or is refused.
LEMMA StartedTyped ==
  ASSUME NEW pull \in BOOLEAN
  PROVE  /\ Started(pull) \in PassRec
         /\ Started(pull).pc \in {"off", "list"}
         /\ Started(pull).pc = "off" => Started(pull) = OffPass
         /\ Started(pull).adopts = {} /\ Started(pull).pushes = {} /\ Started(pull).active = {}
         /\ ~work.registry => Started(pull) = OffPass
<1>1. OffPass \in PassRec  BY OffTyped
<1>2. OffPass.pc = "off" /\ OffPass.adopts = {} /\ OffPass.pushes = {} /\ OffPass.active = {}
  BY DEF OffPass
<1>. DEFINE p == [OffPass EXCEPT !.pc = "list", !.pull = pull]
<1>3. p \in PassRec /\ p.pc = "list" /\ p.adopts = {} /\ p.pushes = {} /\ p.active = {}
  BY <1>1, <1>2 DEF PassRec
<1>4. Started(pull) = IF work.registry THEN p ELSE OffPass  BY DEF Started
<1>5. CASE work.registry
  <2>1. Started(pull) = p  BY <1>4, <1>5
  <2>. HIDE DEF p
  <2>. QED  BY <2>1, <1>3, <1>5
<1>6. CASE ~work.registry
  <2>1. Started(pull) = OffPass  BY <1>4, <1>6
  <2>. QED  BY <2>1, <1>1, <1>2, <1>6
<1>. QED  BY <1>5, <1>6

\* A pass that changes to one with its type.
LEMMA SetPass ==
  ASSUME SyncType, NEW r \in Runners, NEW p \in PassRec, pass' = [pass EXCEPT ![r] = p],
         p.pc = "off" => p = OffPass,
         p.pc \in {"save", "apply", "upload"} => p.name \in Names /\ p.got \in Tok
  PROVE  pass' \in [Runners -> PassRec] /\ \A q \in Runners : PassFits(q)'
<1>1. pass' \in [Runners -> PassRec]  BY DEF SyncType
<1>2. ASSUME NEW q \in Runners PROVE PassFits(q)'
  <2>1. CASE q = r  BY <2>1 DEF SyncType, PassFits, OffPass
  <2>2. CASE q # r
    <3>1. pass'[q] = pass[q]  BY <2>2 DEF SyncType
    <3>. QED  BY <3>1 DEF SyncType, PassFits, OffPass
  <2>. QED  BY <2>1, <2>2
<1>. QED  BY <1>1, <1>2

\* A fault of the registry uses up one of the bound.
LEMMA FaultTyped ==
  ASSUME left \in LeftRec, Fault PROVE left' \in LeftRec
BY DEF Fault, LeftRec

\* A step of a pass keeps the types of the accounts and the passes.
LEMMA PassTyped ==
  ASSUME SyncType, NEW r \in Runners, PassStep(r)
  PROVE  SyncType'
<1>. DEFINE Own == \E p \in PassRec :
                     /\ pass' = [pass EXCEPT ![r] = p]
                     /\ p.pc = "off" => p = OffPass
                     /\ p.pc \in {"save", "apply", "upload"} => p.name \in Names /\ p.got \in Tok
<1>a. Own => pass' \in [Runners -> PassRec] /\ \A q \in Runners : PassFits(q)'
  BY SetPass
<1>b. pass[r] \in PassRec /\ PassFits(r)  BY DEF SyncType
<1>c. Saved \in SUBSET Names  BY DEF Saved
<1>1. CASE List(r)
  <2>1. Own
    <3>. DEFINE p == [pass[r] EXCEPT !.pc = "look", !.pushes = Saved, !.adopts = IF pass[r].pull THEN Saved ELSE {}]
    <3>1. p \in PassRec /\ p.pc = "look"  BY <1>b, <1>c DEF PassRec
    <3>2. pass' = [pass EXCEPT ![r] = p]  BY <1>1 DEF List, SyncType
    <3>. QED  BY <3>1, <3>2
  <2>. QED  BY <1>1, <1>a, <2>1 DEF List, SyncType
<1>2. CASE Look(r)
  <2>1. Own /\ left' \in LeftRec
    <3>1. CASE pass' = [pass EXCEPT ![r] = OffPass] /\ Fault
      BY <3>1, OffTyped, FaultTyped DEF OffPass, SyncType
    <3>2. CASE /\ pass' = [pass EXCEPT ![r] = [@ EXCEPT !.pc = "visit", !.seen = reg,
                                    !.active = {n \in Saved : store[n].who = cur.who}]]
               /\ UNCHANGED left
      <4>. DEFINE p == [pass[r] EXCEPT !.pc = "visit", !.seen = reg,
                                    !.active = {n \in Saved : store[n].who = cur.who}]
      <4>1. p \in PassRec /\ p.pc = "visit"  BY <1>b, <1>c DEF PassRec, SyncType
      <4>2. pass' = [pass EXCEPT ![r] = p]  BY <3>2 DEF SyncType
      <4>. QED  BY <4>1, <4>2, <3>2 DEF SyncType
    <3>. QED  BY <1>2, <3>1, <3>2 DEF Look
  <2>. QED  BY <1>2, <1>a, <2>1 DEF Look, SyncType
<1>3. CASE VisitFirst(r)
  <2>1. Own
    <3>1. PICK n \in pass[r].adopts :
       \/ pass' = [pass EXCEPT ![r] = [pass[r] EXCEPT !.adopts = @ \ {n}]]
       \/ /\ Newer(pass[r].seen[n], store[n]) /\ reg[n] # NoTok
          /\ pass' = [pass EXCEPT ![r] = [pass[r] EXCEPT !.adopts = @ \ {n}, !.pushes = @ \ {n},
                                                    !.pc = "save", !.name = n, !.got = reg[n]]]
      BY <1>3 DEF VisitFirst
    <3>2. n \in Names  BY <1>b DEF PassRec
    <3>3. reg[n] \in TokOrNone /\ (reg[n] # NoTok => reg[n] \in Tok)  BY <3>2 DEF SyncType, TokOrNone
    <3>. DEFINE skip == [pass[r] EXCEPT !.adopts = @ \ {n}]
                take == [pass[r] EXCEPT !.adopts = @ \ {n}, !.pushes = @ \ {n}, !.pc = "save", !.name = n, !.got = reg[n]]
    <3>4. \/ pass' = [pass EXCEPT ![r] = skip]
          \/ pass' = [pass EXCEPT ![r] = take] /\ reg[n] # NoTok
      BY <3>1
    <3>5. skip \in PassRec /\ skip.pc = "visit"  BY <1>b, <1>3 DEF PassRec, VisitFirst
    <3>6. take \in PassRec /\ take.pc = "save" /\ take.name = n /\ take.got = reg[n]
      BY <1>b, <3>2, <3>3 DEF PassRec, NameOrNone
    <3>. HIDE DEF skip, take
    <3>. QED  BY <3>2, <3>3, <3>4, <3>5, <3>6
  <2>. QED  BY <1>3, <1>a, <2>1 DEF VisitFirst, SyncType
<1>4. CASE SaveAdopted(r)
  <2>. DEFINE p == [pass[r] EXCEPT !.pc = "visit", !.name = NoName]
              q == [pass[r] EXCEPT !.pc = "apply"]
  <2>0. pass[r].name \in Names /\ pass[r].got \in Tok  BY <1>b, <1>4 DEF PassFits, SaveAdopted
  <2>1. p \in PassRec /\ p.pc = "visit"  BY <1>b DEF PassRec, NameOrNone
  <2>2. q \in PassRec /\ q.pc = "apply" /\ q.name = pass[r].name /\ q.got = pass[r].got  BY <1>b DEF PassRec
  <2>3. pass' = [pass EXCEPT ![r] = p] \/ pass' = [pass EXCEPT ![r] = q]
    BY <1>4, <1>b DEF SaveAdopted, SyncType, PassRec
  <2>4. Own
    <3>1. CASE pass' = [pass EXCEPT ![r] = p]  BY <3>1, <2>1
    <3>2. CASE pass' = [pass EXCEPT ![r] = q]  BY <3>2, <2>2, <2>0
    <3>. QED  BY <2>3, <3>1, <3>2
  <2>5. store' \in [Names -> TokOrNone]
    BY <2>0, <1>4 DEF SaveAdopted, SyncType, TokOrNone
  <2>. QED  BY <1>4, <1>a, <2>4, <2>5 DEF SaveAdopted, SyncType
<1>5. CASE ApplyAdopted(r)
  <2>. DEFINE p == [pass[r] EXCEPT !.pc = "visit", !.name = NoName]
  <2>0. pass[r].name \in Names /\ pass[r].got \in Tok  BY <1>b, <1>5 DEF PassFits, ApplyAdopted
  <2>1. p \in PassRec /\ p.pc = "visit"  BY <1>b DEF PassRec, NameOrNone
  <2>3. pass' = [pass EXCEPT ![r] = p]  BY <1>5, <1>b DEF ApplyAdopted, SyncType, PassRec
  <2>4. Own  BY <2>1, <2>3
  <2>5. cur' \in Tok  BY <2>0, <1>5 DEF ApplyAdopted, SyncType, TokOrNone
  <2>. QED  BY <1>5, <1>a, <2>4, <2>5 DEF ApplyAdopted, SyncType
<1>6. CASE VisitNext(r)
  <2>1. Own
    <3>1. PICK n \in pass[r].pushes :
       \/ pass' = [pass EXCEPT ![r] = [pass[r] EXCEPT !.pushes = @ \ {n}]]
       \/ /\ store[n] # NoTok
          /\ pass' = [pass EXCEPT ![r] = [pass[r] EXCEPT !.pushes = @ \ {n}, !.pc = "upload",
                                                    !.name = n, !.got = store[n]]]
      BY <1>6 DEF VisitNext, Pushable
    <3>2. n \in Names  BY <1>b DEF PassRec
    <3>3. store[n] \in TokOrNone /\ (store[n] # NoTok => store[n] \in Tok)  BY <3>2 DEF SyncType, TokOrNone
    <3>. DEFINE skip == [pass[r] EXCEPT !.pushes = @ \ {n}]
                take == [pass[r] EXCEPT !.pushes = @ \ {n}, !.pc = "upload", !.name = n, !.got = store[n]]
    <3>4. \/ pass' = [pass EXCEPT ![r] = skip]
          \/ pass' = [pass EXCEPT ![r] = take] /\ store[n] # NoTok
      BY <3>1
    <3>5. skip \in PassRec /\ skip.pc = "visit"  BY <1>b, <1>6 DEF PassRec, VisitNext
    <3>6. take \in PassRec /\ take.pc = "upload" /\ take.name = n /\ take.got = store[n]
      BY <1>b, <3>2, <3>3 DEF PassRec, NameOrNone
    <3>. HIDE DEF skip, take
    <3>. QED  BY <3>2, <3>3, <3>4, <3>5, <3>6
  <2>. QED  BY <1>6, <1>a, <2>1 DEF VisitNext, SyncType
<1>7. CASE Upload(r)
  <2>. DEFINE p == [pass[r] EXCEPT !.pc = "visit", !.name = NoName]
  <2>0. pass[r].name \in Names /\ pass[r].got \in Tok  BY <1>b, <1>7 DEF PassFits, Upload
  <2>1. p \in PassRec /\ p.pc = "visit"  BY <1>b DEF PassRec, NameOrNone
  <2>3. pass' = [pass EXCEPT ![r] = p]  BY <1>7, <1>b DEF Upload, SyncType, PassRec
  <2>4. Own  BY <2>1, <2>3
  <2>5. reg' \in [Names -> TokOrNone]  BY <2>0, <1>7 DEF Upload, SyncType, TokOrNone
  <2>6. left' \in LeftRec  BY <1>7, FaultTyped DEF Upload, SyncType
  <2>. QED  BY <1>7, <1>a, <2>4, <2>5, <2>6 DEF Upload, SyncType
<1>8. CASE Visited(r)
  <2>1. Own  BY <1>8, OffTyped DEF Visited, OffPass
  <2>. QED  BY <1>8, <1>a, <2>1 DEF Visited, SyncType
<1>. QED  BY <1>1, <1>2, <1>3, <1>4, <1>5, <1>6, <1>7, <1>8 DEF PassStep

-----------------------------------------------------------------------------
\* The slots of the actors: one action each, and for a page a login and two polls.
LEMMA SlotFacts ==
  /\ Tabs \subseteq Actors /\ Tray \in Actors
  /\ \A t \in Actors : Act(t) \in Slots /\ Act(t)[1] = t /\ Act(t)[2] = "act"
  /\ \A t \in Tabs : <<t, "add">> \in Slots /\ <<t, "add">>[1] = t /\ <<t, "add">>[2] = "add"
  /\ \A t \in Tabs : \A s \in Polls(t) : s \in Slots /\ s[1] = t /\ s[2] \in {"poll1", "poll2"}
  /\ \A s \in Slots : /\ s[1] \in Actors
                      /\ \/ s[2] = "act" /\ s = Act(s[1])
                         \/ s[2] = "add" /\ s[1] \in Tabs /\ s = <<s[1], "add">>
                         \/ s[2] \in {"poll1", "poll2"} /\ s[1] \in Tabs /\ s \in Polls(s[1])
<1>1. Tabs \subseteq Actors /\ Tray \in Actors  BY DEF Actors
<1>2. \A t \in Actors : Act(t) \in Slots /\ Act(t)[1] = t /\ Act(t)[2] = "act"
  BY DEF Slots, Actors, Act
<1>3. \A t \in Tabs : <<t, "add">> \in Slots /\ <<t, "add">>[1] = t /\ <<t, "add">>[2] = "add"
  BY DEF Slots
<1>4. \A t \in Tabs : \A s \in Polls(t) : s \in Slots /\ s[1] = t /\ s[2] \in {"poll1", "poll2"}
  BY DEF Slots, Polls
<1>5. ASSUME NEW s \in Slots
      PROVE  /\ s[1] \in Actors
             /\ \/ s[2] = "act" /\ s = Act(s[1])
                \/ s[2] = "add" /\ s[1] \in Tabs /\ s = <<s[1], "add">>
                \/ s[2] \in {"poll1", "poll2"} /\ s[1] \in Tabs /\ s \in Polls(s[1])
  <2>1. CASE s = <<Tray, "act">>  BY <2>1, <1>1 DEF Act
  <2>2. CASE s \in Tabs \X {"act", "add", "poll1", "poll2"}
    <3>1. PICK t \in Tabs, k \in {"act", "add", "poll1", "poll2"} : s = <<t, k>>  BY <2>2
    <3>2. s[1] = t /\ s[2] = k  BY <3>1
    <3>. QED  BY <1>1, <3>1, <3>2 DEF Act, Polls
  <2>. QED  BY <2>1, <2>2 DEF Slots
<1>. QED  BY <1>1, <1>2, <1>3, <1>4, <1>5

\* A step changes one page and its requests, and takes logins forward.
Onward ==
  /\ \A f \in Flows : flow[f].st # "new" => flow'[f].st # "new"
  /\ \A f \in Flows : Begun(f) => Begun(f)'
  /\ port' \in {port, NoFlow} \cup Unused
  /\ up' = "up" => up = "up"

\* A page that a step leaves alone is still sound.
LEMMA PageKept ==
  ASSUME LoginInv, Onward, NEW u \in Tabs, tab'[u] = tab[u], req'[<<u, "add">>] = req[<<u, "add">>],
         \A s \in Polls(u) : req'[s] = req[s]
  PROVE  PageInv(u)'
<1>1. PageInv(u)  BY DEF LoginInv
<1>2. ASSUME NEW f, Begun(f) PROVE Begun(f)' /\ f # NoFlow /\ (port' = f => port = f)
  <2>1. f \in Flows /\ f # NoFlow /\ f \notin Unused  BY <1>2, AddAssumption DEF Begun, Unused
  <2>. QED  BY <1>2, <2>1 DEF Onward
<1>3. AddLinks(tab[u], req[<<u, "add">>])'
  <2>1. AddLinks(tab[u], req[<<u, "add">>]) /\ (tab[u].flow # NoFlow => Begun(tab[u].flow))  BY <1>1 DEF PageInv
  <2>0. PICK r, p : r = req[<<u, "add">>] /\ p = tab[u]
    OBVIOUS
  <2>2. r.pc = "started" => r.f \in Flows /\ flow'[r.f].st # "new"  BY <2>0, <2>1 DEF AddLinks, Onward
  <2>3. r.pc = "answered" /\ r.out = "pending" => Begun(r.f)'  BY <2>0, <2>1, <1>2 DEF AddLinks, Begun
  <2>4. r.f # NoFlow => p.flow # port' \/ port' = NoFlow  BY <2>0, <2>1, <1>2 DEF AddLinks, Begun
  <2>5. AddLinks(p, r)'
    BY <2>0, <2>1, <2>2, <2>3, <2>4 DEF AddLinks
  <2>. QED  BY <2>0, <2>5 DEF AddLinks, Begun
<1>4. ASSUME NEW s \in Polls(u) PROVE PollLinks(req[s])'
  <2>1. PollLinks(req[s]) /\ req'[s] = req[s]  BY <1>1 DEF PageInv
  <2>2. PICK q : q = req[s]
    OBVIOUS
  <2>3. PollLinks(q)'
    BY <2>1, <2>2, <1>2 DEF PollLinks, Onward
  <2>. QED  BY <2>1, <2>2, <2>3 DEF PollLinks, Begun
<1>5. tab[u].flow # NoFlow => Begun(tab[u].flow)'  BY <1>1, <1>2 DEF PageInv, Begun
<1>6. Polls(u)' = Polls(u)  BY DEF Polls
<1>. QED  BY <1>1, <1>3, <1>4, <1>5, <1>6 DEF PageInv, Begun, PageAsked, Asked

\* A step that is sound for its own page, its logins and their watchers keeps LoginInv.
LEMMA LoginStep ==
  ASSUME LoginInv, NEW t \in Actors, AddType', Onward,
         \A u \in Actors \ {t} : tab'[u] = tab[u],
         \A s \in Slots : s[1] # t => req'[s] = req[s],
         \A s \in Slots : s[1] = t => Kind(s, req'[s]),
         up' = "closed" => Over',
         t \in Tabs => PageInv(t)',
         \A f \in Flows : FlowInv(f)',
         \A f \in Flows : flow'[f].st = "starting" => StartedBy(f)',
         \A f \in Flows : flow'[f].st = "wait" /\ up' = "up" => Watched(f)'
  PROVE  LoginInv'
<1>1. Kinds'
  <2>1. ASSUME NEW s \in Slots PROVE Kind(s, req'[s])
    <3>1. CASE s[1] = t  BY <3>1
    <3>2. CASE s[1] # t  BY <3>2 DEF LoginInv, Kinds
    <3>. QED  BY <3>1, <3>2
  <2>. QED  BY <2>1 DEF Kinds
<1>2. ASSUME NEW u \in Tabs, u # t PROVE PageInv(u)'
  <2>1. u \in Actors /\ <<u, "add">> \in Slots /\ <<u, "add">>[1] = u
        /\ \A s \in Polls(u) : s \in Slots /\ s[1] = u
    BY SlotFacts
  <2>2. tab'[u] = tab[u] /\ req'[<<u, "add">>] = req[<<u, "add">>] /\ \A s \in Polls(u) : req'[s] = req[s]
    BY <1>2, <2>1
  <2>. QED  BY <2>2, PageKept
<1>. QED  BY <1>1, <1>2 DEF LoginInv

\* A step of one page.
LEMMA OnePage ==
  ASSUME LoginInv, NEW t \in Actors, AddType',
         UNCHANGED <<flow, port, up, saved, overwritten>>,
         tells \subseteq tells', strayed \subseteq strayed',
         \A u \in Actors \ {t} : tab'[u] = tab[u],
         \A s \in Slots : s[1] # t => req'[s] = req[s],
         \A s \in Slots : s[1] = t => Kind(s, req'[s]) /\ (up = "closed" => req'[s].pc \in {"idle", "answered"}),
         t \in Tabs => /\ PageInv(t)'
                       /\ req[<<t, "add">>].pc = "started" => req'[<<t, "add">>] = req[<<t, "add">>]
                       /\ \A f \in Flows : (tab[t].flow = f \/ req[<<t, "add">>].f = f) /\ flow[f].st = "wait" /\ up = "up"
                            => f \in tells' \cup strayed' \/ tab'[t].flow = f \/ req'[<<t, "add">>].f = f
  PROVE  LoginInv'
<1>1. Onward  BY DEF Onward, Begun, LoginInv, AddType
<1>2. up' = "closed" => Over'
  <2>1. ASSUME up' = "closed", NEW s \in Slots PROVE req'[s].pc \in {"idle", "answered"}
    <3>1. up = "closed" /\ Over  BY <2>1 DEF LoginInv, Kinds
    <3>. QED  BY <3>1 DEF Over
  <2>. QED  BY <2>1 DEF Over
<1>3. ASSUME NEW f \in Flows PROVE FlowInv(f)'
  <2>1. FlowInv(f)  BY DEF LoginInv
  <2>. QED  BY <2>1 DEF FlowInv, Waiting, Asked
<1>s. \A u \in Tabs : u \in Actors /\ <<u, "add">> \in Slots /\ <<u, "add">>[1] = u  BY SlotFacts
<1>4. ASSUME NEW f \in Flows, flow'[f].st = "starting" PROVE StartedBy(f)'
  <2>1. PICK u \in Tabs : req[<<u, "add">>].pc = "started" /\ req[<<u, "add">>].f = f
    BY <1>4 DEF LoginInv, StartedBy
  <2>2. req'[<<u, "add">>] = req[<<u, "add">>]  BY <2>1, <1>s
  <2>. QED  BY <2>1, <2>2 DEF StartedBy
<1>5. ASSUME NEW f \in Flows, flow'[f].st = "wait", up' = "up" PROVE Watched(f)'
  <2>1. Watched(f) /\ flow[f].st = "wait" /\ up = "up"  BY <1>5 DEF LoginInv
  <2>2. CASE f \in tells \cup strayed  BY <2>2 DEF Watched
  <2>3. ASSUME NEW u \in Tabs, (tab[u].flow = f /\ tab[u].polling) \/ req[<<u, "add">>].f = f PROVE Watched(f)'
    <3>1. CASE u # t
      <4>1. tab'[u] = tab[u] /\ req'[<<u, "add">>] = req[<<u, "add">>]  BY <3>1, <1>s
      <4>. QED  BY <2>3, <4>1 DEF Watched
    <3>2. CASE u = t
      <4>1. f # NoFlow  BY AddAssumption
      <4>2. f \in tells' \cup strayed' \/ tab'[u].flow = f \/ req'[<<u, "add">>].f = f  BY <2>1, <2>3, <3>2
      <4>3. tab'[u].flow = f => tab'[u].polling  BY <3>2, <4>1 DEF PageInv
      <4>. QED  BY <4>2, <4>3 DEF Watched
    <3>. QED  BY <3>1, <3>2
  <2>. QED  BY <2>1, <2>2, <2>3 DEF Watched
<1>6. \A s \in Slots : s[1] = t => Kind(s, req'[s])  OBVIOUS
<1>7. t \in Tabs => PageInv(t)'  OBVIOUS
<1>. QED  BY <1>1, <1>2, <1>3, <1>4, <1>5, <1>6, <1>7, LoginStep

\* A step of the server or the browser that changes logins only.
LEMMA OnlyFlows ==
  ASSUME LoginInv, AddType', Onward, UNCHANGED <<tab, req, strayed>>,
         up' = "closed" => Over,
         \A f \in Flows : FlowInv(f)',
         \A f \in Flows : flow'[f].st = "starting" => flow[f].st = "starting",
         \A f \in Flows : flow'[f].st = "wait" => flow[f].st = "wait" /\ (f \in tells => f \in tells')
  PROVE  LoginInv'
<1>1. Tray \in Actors /\ Tray \notin Tabs  BY SlotFacts, AddAssumption
<1>2. up' = "closed" => Over'  BY DEF Over
<1>3. \A s \in Slots : Kind(s, req'[s])  BY DEF LoginInv, Kinds
<1>4. ASSUME NEW f \in Flows, flow'[f].st = "starting" PROVE StartedBy(f)'
  <2>1. StartedBy(f)  BY <1>4 DEF LoginInv
  <2>. QED  BY <2>1 DEF StartedBy
<1>5. ASSUME NEW f \in Flows, flow'[f].st = "wait", up' = "up" PROVE Watched(f)'
  <2>1. Watched(f) /\ up = "up"  BY <1>5 DEF LoginInv, Onward
  <2>. QED  BY <1>5, <2>1 DEF Watched
<1>. QED  BY <1>1, <1>2, <1>3, <1>4, <1>5, LoginStep

\* A step of an action's request.
LEMMA ActOnly ==
  ASSUME LoginInv, NEW t \in Actors, NEW r \in ReqRec, req' = [req EXCEPT ![Act(t)] = r],
         tab' \in [Actors -> PageRec],
         \A u \in Actors : tab'[u] = [tab[u] EXCEPT !.plan = tab'[u].plan],
         \A u \in Actors \ {t} : tab'[u] = tab[u],
         UNCHANGED pageVars,
         Kind(Act(t), r), up = "closed" => r.pc \in {"idle", "answered"}
  PROVE  LoginInv'
<1>1. Act(t) \in Slots /\ Act(t)[1] = t /\ Act(t)[2] = "act"  BY SlotFacts
<1>2. AddType'  BY <1>1 DEF LoginInv, AddType, pageVars
<1>3. \A s \in Slots : req'[s] = IF s = Act(t) THEN r ELSE req[s]  BY <1>1 DEF LoginInv, AddType
<1>4. \A s \in Slots : Kind(s, req'[s]) /\ (up = "closed" => req'[s].pc \in {"idle", "answered"})
  BY <1>3 DEF LoginInv, Kinds, Over
<1>5. ASSUME t \in Tabs
      PROVE  /\ PageInv(t)' /\ req'[<<t, "add">>] = req[<<t, "add">>] /\ tab'[t].flow = tab[t].flow
  <2>0. <<t, "add">> \in Slots /\ <<t, "add">>[2] = "add" /\ \A s \in Polls(t) : s \in Slots /\ s[2] \in {"poll1", "poll2"}
    BY <1>5, SlotFacts
  <2>1. req'[<<t, "add">>] = req[<<t, "add">>] /\ \A s \in Polls(t) : req'[s] = req[s]
    BY <1>1, <1>3, <2>0
  <2>2. tab[t] \in PageRec  BY DEF LoginInv, AddType
  <2>3. tab'[t] = [tab[t] EXCEPT !.plan = tab'[t].plan]  OBVIOUS
  <2>4. /\ tab'[t].open = tab[t].open /\ tab'[t].who = tab[t].who /\ tab'[t].forced = tab[t].forced
        /\ tab'[t].name = tab[t].name /\ tab'[t].agreed = tab[t].agreed /\ tab'[t].edited = tab[t].edited
        /\ tab'[t].flow = tab[t].flow /\ tab'[t].polling = tab[t].polling
    BY <2>2, <2>3 DEF PageRec
  <2>5. PageInv(t)  BY <1>5 DEF LoginInv
  <2>6. PageAsked(tab[t], req[<<t, "add">>])'  BY <2>1, <2>4, <2>5 DEF PageInv, PageAsked, Asked
  <2>7. AddLinks(tab[t], req[<<t, "add">>])'  BY <2>1, <2>4, <2>5 DEF PageInv, AddLinks, Begun, pageVars
  <2>8. Polls(t)' = Polls(t)  BY DEF Polls
  <2>9. ASSUME NEW s \in Polls(t) PROVE PollLinks(req[s])'  BY <2>1, <2>5 DEF PageInv, PollLinks, Begun, pageVars
  <2>10. (tab[t].flow # NoFlow => Begun(tab[t].flow))' /\ (tab[t].polling <=> tab[t].flow # NoFlow)'
    BY <2>4, <2>5 DEF PageInv, Begun, pageVars
  <2>. QED  BY <2>1, <2>4, <2>6, <2>7, <2>8, <2>9, <2>10 DEF PageInv
<1>6. UNCHANGED <<flow, port, up, saved, overwritten>> /\ tells \subseteq tells' /\ strayed \subseteq strayed'
  BY DEF pageVars
<1>7. \A s \in Slots : s[1] # t => req'[s] = req[s]  BY <1>1, <1>3
<1>. QED  BY <1>2, <1>4, <1>5, <1>6, <1>7, OnePage

-----------------------------------------------------------------------------
\* The requests other than those of the dialog keep LoginInv.
LEMMA ActSlot ==
  ASSUME LoginInv, NEW s \in Slots, req[s].pc # "idle", req[s].do \in ActDo
  PROVE  /\ s[1] \in Actors /\ s = Act(s[1]) /\ s[2] = "act" /\ req[s].n \in Names /\ req[s] \in ReqRec
         /\ req[s].pc # "answered" => up # "closed"
<1>1. Kind(s, req[s])  BY DEF LoginInv, Kinds
<1>2. s[2] = "act"
  <2>1. s[2] \in {"act", "add", "poll1", "poll2"}  BY SlotFacts
  <2>. QED  BY <1>1, <2>1 DEF Kind, ActDo
<1>3. s[1] \in Actors /\ s = Act(s[1])  BY <1>2, SlotFacts
<1>4. up = "closed" => req[s].pc = "answered"  BY DEF LoginInv, Kinds, Over
<1>. QED  BY <1>1, <1>2, <1>3, <1>4 DEF Kind, LoginInv, AddType

\* What the server makes of an action's request keeps LoginInv.
LEMMA ServerAct ==
  ASSUME LoginInv, NEW s \in Slots, req[s].do \in ActDo,
         NEW c \in {"locked", "deleted", "syncing", "quitting", "opening", "answered"}, NEW o \in Outs,
         req[s].pc \notin {"idle", "answered"},
         req' = [req EXCEPT ![s] = [req[s] EXCEPT !.pc = c, !.out = o]],
         UNCHANGED <<tab, pageVars>>
  PROVE  LoginInv'
<1>. DEFINE r == [req[s] EXCEPT !.pc = c, !.out = o]
<1>1. /\ s[1] \in Actors /\ s = Act(s[1]) /\ s[2] = "act" /\ req[s].n \in Names /\ req[s] \in ReqRec
      /\ up # "closed"
  BY ActSlot
<1>2. r \in ReqRec /\ r.do = req[s].do /\ r.n = req[s].n /\ r.pc = c  BY <1>1 DEF ReqRec, Outs
<1>3. Kind(s, r)  BY <1>1, <1>2 DEF Kind
<1>4. tab' \in [Actors -> PageRec] /\ \A u \in Actors : tab'[u] = [tab[u] EXCEPT !.plan = tab'[u].plan]
  <2>1. tab \in [Actors -> PageRec]  BY DEF LoginInv, AddType
  <2>2. tab' = tab  OBVIOUS
  <2>. QED  BY <2>1, <2>2 DEF PageRec
<1>5. PICK q \in ReqRec : q = r  BY <1>2
<1>6. req' = [req EXCEPT ![Act(s[1])] = q]  BY <1>1, <1>5
<1>7. Kind(Act(s[1]), q) /\ (up = "closed" => q.pc \in {"idle", "answered"})
  BY <1>1, <1>3, <1>5
<1>8. PICK t \in Actors : t = s[1]
  BY <1>1
<1>9. req' = [req EXCEPT ![Act(t)] = q] /\ Kind(Act(t), q)
  BY <1>6, <1>7, <1>8
<1>. HIDE DEF r
<1>. QED  BY <1>4, <1>7, <1>9, ActOnly

\* So does taking that request further, or answering it.
LEMMA GoesAnswers ==
  ASSUME LoginInv, NEW s \in Slots, req[s].do \in ActDo, req[s].pc \notin {"idle", "answered"},
         UNCHANGED <<tab, pageVars>>,
         \/ \E o \in Outs : Answer(s, o)
         \/ \E c \in {"locked", "deleted", "syncing", "quitting", "opening"} : Goto(s, c)
         \/ SetReq(s, [req[s] EXCEPT !.pc = "deleted", !.out = "ok"])
  PROVE  LoginInv'
<1>0. req[s] \in ReqRec  BY DEF LoginInv, AddType
<1>1. CASE \E o \in Outs : Answer(s, o)  BY <1>1, ServerAct DEF Answer, SetReq
<1>2. ASSUME NEW c \in {"locked", "deleted", "syncing", "quitting", "opening"}, Goto(s, c) PROVE LoginInv'
  <2>1. [req[s] EXCEPT !.pc = c] = [req[s] EXCEPT !.pc = c, !.out = req[s].out] /\ req[s].out \in Outs
    BY <1>0 DEF ReqRec, Outs
  <2>2. req' = [req EXCEPT ![s] = [req[s] EXCEPT !.pc = c, !.out = req[s].out]]
    BY <1>2, <2>1 DEF Goto, SetReq
  <2>. QED  BY <2>1, <2>2, ServerAct
<1>3. CASE SetReq(s, [req[s] EXCEPT !.pc = "deleted", !.out = "ok"])  BY <1>3, ServerAct DEF Outs, SetReq
<1>. QED  BY <1>1, <1>2, <1>3

\* The operations of the server keep LoginInv.
LEMMA ActLogin ==
  ASSUME LoginInv, NEW s \in Slots,
         \/ Locks(s) \/ Switches(s) \/ DeletesRecord(s) \/ Removes(s) \/ Removed(s)
         \/ Pushes(s) \/ Pushed(s) \/ Looks(s) \/ Quits(s) \/ Opens(s)
  PROVE  LoginInv'
<1>1. /\ req[s].do \in ActDo /\ req[s].pc \notin {"idle", "answered"}
      /\ UNCHANGED <<tab, pageVars>>
      /\ \/ \E o \in Outs : Answer(s, o)
         \/ \E c \in {"locked", "deleted", "syncing", "quitting", "opening"} : Goto(s, c)
         \/ SetReq(s, [req[s] EXCEPT !.pc = "deleted", !.out = "ok"])
  <2>1. CASE Locks(s)  BY <2>1 DEF Locks, At, ActDo, Add, Outs
  <2>2. CASE Switches(s)  BY <2>2 DEF Switches, At, ActDo, Add, Outs
  <2>3. CASE DeletesRecord(s)  BY <2>3 DEF DeletesRecord, At, ActDo, Add, Outs
  <2>4. CASE Removes(s)  BY <2>4 DEF Removes, At, ActDo, Add, Outs
  <2>5. CASE Removed(s)  BY <2>5 DEF Removed, At, ActDo, Add, Outs
  <2>6. CASE Pushes(s)  BY <2>6 DEF Pushes, At, ActDo, Add, Outs
  <2>7. CASE Pushed(s)  BY <2>7 DEF Pushed, At, ActDo, Add, Outs
  <2>8. CASE Looks(s)  BY <2>8 DEF Looks, At, ActDo, Add, Outs
  <2>9. CASE Quits(s)  BY <2>9 DEF Quits, At, ActDo, Add, Outs
  <2>10. CASE Opens(s)  BY <2>10 DEF Opens, At, ActDo, Add, Outs
  <2>. QED  BY <2>1, <2>2, <2>3, <2>4, <2>5, <2>6, <2>7, <2>8, <2>9, <2>10
<1>. QED  BY <1>1, GoesAnswers

\* The next intent of an actor is one.
LEMMA IntentTyped ==
  ASSUME AddType, NEW t \in Actors, tab[t].plan # <<>>
  PROVE  Head(tab[t].plan) \in Intent /\ Tail(tab[t].plan) \in Seq(Intent)
<1>1. tab[t].plan \in Seq(Intent)  BY DEF AddType, PageRec
<1>. QED  BY <1>1, HeadTailProperties

\* An unused slot has the type of a request, and is about no login.
LEMMA NoReqTyped == NoReq \in ReqRec /\ NoReq.pc = "idle" /\ NoReq.f = NoFlow
BY DEF NoReq, ReqRec, NameOrNone, FlowOrNone

\* Where a request that is sent gets to.
SentAs(r) == IF up = "up" THEN [r EXCEPT !.pc = "sent"] ELSE [r EXCEPT !.pc = "answered", !.out = "unreachable"]

\* A request that is sent has the type of a request.
LEMMA SentTyped ==
  ASSUME NEW r \in ReqRec
  PROVE  /\ SentAs(r) \in ReqRec /\ SentAs(r).pc = (IF up = "up" THEN "sent" ELSE "answered")
         /\ SentAs(r).out = (IF up = "up" THEN r.out ELSE "unreachable")
         /\ SentAs(r).do = r.do /\ SentAs(r).n = r.n /\ SentAs(r).f = r.f /\ SentAs(r).who = r.who
         /\ SentAs(r).force = r.force /\ SentAs(r).agreed = r.agreed /\ SentAs(r).edited = r.edited
<1>. DEFINE p == [r EXCEPT !.pc = "sent"]
            q == [r EXCEPT !.pc = "answered", !.out = "unreachable"]
<1>1. /\ p \in ReqRec /\ p.pc = "sent" /\ p.out = r.out /\ p.do = r.do /\ p.n = r.n /\ p.f = r.f /\ p.who = r.who
      /\ p.force = r.force /\ p.agreed = r.agreed /\ p.edited = r.edited
  BY DEF ReqRec
<1>2. /\ q \in ReqRec /\ q.pc = "answered" /\ q.out = "unreachable" /\ q.do = r.do /\ q.n = r.n /\ q.f = r.f /\ q.who = r.who
      /\ q.force = r.force /\ q.agreed = r.agreed /\ q.edited = r.edited
  BY DEF ReqRec
<1>3. SentAs(r) = IF up = "up" THEN p ELSE q  BY DEF SentAs
<1>. HIDE DEF p, q
<1>. QED  BY <1>1, <1>2, <1>3

\* An action of a page or of the tray keeps LoginInv.
LEMMA SendLogin ==
  ASSUME LoginInv, NEW t \in Actors, Send(t)
  PROVE  LoginInv'
<1>. DEFINE i == Head(tab[t].plan)
            r == [NoReq EXCEPT !.do = i.do, !.n = i.n, !.force = (t = Tray)]
            p == [tab[t] EXCEPT !.plan = Tail(@)]
<1>0. AddType /\ tab \in [Actors -> PageRec]  BY DEF LoginInv, AddType
<1>1. i \in Intent /\ Tail(tab[t].plan) \in Seq(Intent) /\ i.do \in ActDo
  BY <1>0, IntentTyped DEF Send, Wants, ActDo
<1>2. r \in ReqRec /\ r.do = i.do /\ r.n = i.n /\ i.n \in Names
  BY <1>1, NoReqTyped DEF ReqRec, NoReq, NameOrNone, Intent
<1>3. PICK q \in ReqRec : q = SentAs(r)  BY <1>2, SentTyped
<1>4. q.do \in ActDo /\ q.n \in Names /\ q.pc = (IF up = "up" THEN "sent" ELSE "answered")
  BY <1>1, <1>2, <1>3, SentTyped
<1>5. req' = [req EXCEPT ![Act(t)] = q]  BY <1>3 DEF Send, Sent, SetReq, SentAs
<1>6. tab' = [tab EXCEPT ![t] = p] /\ p \in PageRec
  <2>1. p \in PageRec  BY <1>0, <1>1 DEF PageRec
  <2>. QED  BY <2>1 DEF Send
<1>7. /\ tab' \in [Actors -> PageRec]
      /\ \A u \in Actors \ {t} : tab'[u] = tab[u]
      /\ \A u \in Actors : tab'[u] = [tab[u] EXCEPT !.plan = tab'[u].plan]
  <2>1. ASSUME NEW u \in Actors PROVE tab'[u] = [tab[u] EXCEPT !.plan = tab'[u].plan]
    <3>0. tab[u] \in PageRec  BY <1>0
    <3>1. CASE u = t
      <4>1. tab'[u] = p /\ p.plan = Tail(tab[t].plan)  BY <1>0, <1>6, <3>1 DEF PageRec
      <4>2. [tab[u] EXCEPT !.plan = Tail(tab[t].plan)] = p  BY <3>1
      <4>. QED  BY <4>1, <4>2
    <3>2. CASE u # t
      <4>1. tab'[u] = tab[u]  BY <1>0, <1>6, <3>2
      <4>. QED  BY <3>0, <4>1 DEF PageRec
    <3>. QED  BY <3>1, <3>2
  <2>. QED  BY <1>0, <1>6, <2>1
<1>8. Kind(Act(t), q) /\ (up = "closed" => q.pc \in {"idle", "answered"})
  BY <1>4, SlotFacts DEF Kind
<1>9. UNCHANGED pageVars  BY DEF Send
<1>. HIDE DEF i, r, p
<1>. QED  BY <1>5, <1>7, <1>8, <1>9, ActOnly

\* So does the use of its answer.
LEMMA UseLogin ==
  ASSUME LoginInv, NEW t \in Actors, Use(t)
  PROVE  LoginInv'
<1>0. AddType /\ tab \in [Actors -> PageRec] /\ Act(t) \in Slots /\ req[Act(t)] \in ReqRec
  BY SlotFacts DEF LoginInv, AddType
<1>. DEFINE r == [req[Act(t)] EXCEPT !.force = TRUE, !.out = "none"]
<1>1. r \in ReqRec /\ r.do = req[Act(t)].do /\ r.n = req[Act(t)].n  BY <1>0 DEF ReqRec
<1>2. Kind(Act(t), req[Act(t)]) /\ Act(t)[2] = "act" /\ req[Act(t)].pc = "answered"
  BY <1>0, SlotFacts DEF LoginInv, Kinds, Use
<1>3. PICK q \in ReqRec : /\ q = NoReq \/ q = SentAs(r)
                          /\ req' = [req EXCEPT ![Act(t)] = q]
  <2>1. CASE SetReq(Act(t), NoReq)  BY <2>1, NoReqTyped DEF SetReq
  <2>2. CASE Sent(Act(t), r)
    <3>1. SentAs(r) \in ReqRec  BY <1>1, SentTyped
    <3>. QED  BY <2>2, <3>1 DEF Sent, SetReq, SentAs
  <2>. QED  BY <2>1, <2>2 DEF Use
<1>4. Kind(Act(t), q) /\ (up = "closed" => q.pc \in {"idle", "answered"})
  <2>1. CASE q = NoReq  BY <2>1, NoReqTyped DEF Kind
  <2>2. CASE q = SentAs(r)
    <3>1. q.do = req[Act(t)].do /\ q.n = req[Act(t)].n /\ q.pc = (IF up = "up" THEN "sent" ELSE "answered")
      BY <1>1, <2>2, SentTyped
    <3>. QED  BY <1>2, <3>1 DEF Kind
  <2>. QED  BY <1>3, <2>1, <2>2
<1>5. UNCHANGED <<tab, pageVars>>  BY DEF Use, Add
<1>6. \A u \in Actors : tab'[u] = [tab[u] EXCEPT !.plan = tab'[u].plan]  BY <1>0, <1>5 DEF PageRec
<1>. QED  BY <1>0, <1>3, <1>4, <1>5, <1>6, ActOnly

-----------------------------------------------------------------------------
\* The operator and the answers at a page keep LoginInv.
LEMMA OnlyTab ==
  ASSUME LoginInv, NEW t \in Tabs, NEW p \in PageRec, tab' = [tab EXCEPT ![t] = p],
         UNCHANGED <<req, flow, port, up, saved, overwritten, strayed>>,
         pages' \in SUBSET Flows, tells' \in SUBSET Flows, tells \subseteq tells',
         PageAsked(p, req[<<t, "add">>]),
         p.polling <=> p.flow # NoFlow,
         p.flow # tab[t].flow => p.flow = NoFlow /\ tab[t].flow \in tells'
  PROVE  LoginInv'
<1>0. t \in Actors /\ AddType /\ PageInv(t)  BY SlotFacts DEF LoginInv
<1>1. AddType' /\ tab'[t] = p /\ \A u \in Actors \ {t} : tab'[u] = tab[u]  BY <1>0 DEF AddType
<1>2. UNCHANGED <<flow, port, up, saved, overwritten>> /\ tells \subseteq tells' /\ strayed \subseteq strayed'
  OBVIOUS
<1>3. \A s \in Slots : /\ req'[s] = req[s] /\ Kind(s, req'[s])
                       /\ up = "closed" => req'[s].pc \in {"idle", "answered"}
  BY DEF LoginInv, Kinds, Over
<1>4. PageInv(t)'
  <2>0. PICK r : r = req[<<t, "add">>]  OBVIOUS
  <2>1. PageAsked(p, r)' /\ r' = r /\ r = req'[<<t, "add">>]  BY <2>0 DEF PageAsked, Asked
  <2>2. AddLinks(p, r)
    <3>1. AddLinks(tab[t], r)  BY <1>0, <2>0 DEF PageInv
    <3>2. port # NoFlow => NoFlow # port  OBVIOUS
    <3>. QED  BY <3>1 DEF AddLinks
  <2>3. AddLinks(p, r)'  BY <2>2 DEF AddLinks, Begun
  <2>4. (p.flow # NoFlow => Begun(p.flow))'  BY <1>0 DEF PageInv, Begun
  <2>5. Polls(t)' = Polls(t)  BY DEF Polls
  <2>6. ASSUME NEW s \in Polls(t) PROVE PollLinks(req[s])'  BY <1>0 DEF PageInv, PollLinks, Begun
  <2>. QED  BY <1>1, <2>1, <2>3, <2>4, <2>5, <2>6 DEF PageInv, PageAsked, AddLinks, Begun
<1>5. \A f \in Flows : (tab[t].flow = f \/ req[<<t, "add">>].f = f) /\ flow[f].st = "wait" /\ up = "up"
                         => f \in tells' \cup strayed' \/ tab'[t].flow = f \/ req'[<<t, "add">>].f = f
  BY <1>1
<1>. QED  BY <1>0, <1>1, <1>2, <1>3, <1>4, <1>5, OnePage

\* A page and its login request have their types.
LEMMA TabTyped ==
  ASSUME LoginInv, NEW t \in Tabs
  PROVE  /\ t \in Actors /\ AddType /\ PageInv(t) /\ tab[t] \in PageRec /\ req[<<t, "add">>] \in ReqRec
         /\ <<t, "add">> \in Slots
BY SlotFacts DEF LoginInv, AddType

\* Opening, editing and leaving the dialog keep LoginInv.
LEMMA DialogLogin ==
  ASSUME LoginInv, NEW t \in Tabs, OpenDialog(t) \/ EditName(t) \/ CancelDialog(t) \/ CloseTab(t)
  PROVE  LoginInv'
<1>0. t \in Actors /\ AddType /\ PageInv(t) /\ tab[t] \in PageRec  BY TabTyped
<1>w. tells \in SUBSET Flows /\ pages \in SUBSET Flows  BY <1>0 DEF AddType
<1>1. CASE OpenDialog(t)
  <2>. DEFINE i == Head(tab[t].plan)
              again == i.do = "relogin"
              p == [tab[t] EXCEPT !.open = TRUE, !.ready = TRUE, !.who = i.who, !.forced = again,
          !.name = IF again /\ i.over # NoName THEN i.over ELSE i.n, !.agreed = IF again THEN {i.n} ELSE {},
          !.edited = (again /\ i.over # NoName) \/ req[<<t, "add">>].pc # "idle",
          !.over = IF again THEN NoName ELSE i.over, !.plan = Tail(@)]
  <2>1. i \in Intent /\ Tail(tab[t].plan) \in Seq(Intent)  BY <1>0, <1>1, IntentTyped DEF OpenDialog, Wants
  <2>2. i.n \in Names /\ i.over \in NameOrNone /\ i.who \in Who  BY <2>1 DEF Intent, NameOrNone
  <2>a. PICK na \in NameOrNone : na = IF again /\ i.over # NoName THEN i.over ELSE i.n
    BY <2>2 DEF NameOrNone
  <2>b. PICK ag \in SUBSET NameOrNone : ag = IF again THEN {i.n} ELSE {}
    BY <2>2 DEF NameOrNone
  <2>c. PICK ed \in BOOLEAN : ed <=> (again /\ i.over # NoName) \/ req[<<t, "add">>].pc # "idle"
    OBVIOUS
  <2>d. PICK ov \in NameOrNone : ov = IF again THEN NoName ELSE i.over
    BY <2>2 DEF NameOrNone
  <2>e. PICK fo \in BOOLEAN : fo <=> again
    OBVIOUS
  <2>. DEFINE q == [tab[t] EXCEPT !.open = TRUE, !.ready = TRUE, !.who = i.who, !.forced = fo, !.name = na,
                      !.agreed = ag, !.edited = ed, !.over = ov, !.plan = Tail(tab[t].plan)]
  <2>f. p = q  BY <2>a, <2>b, <2>c, <2>d, <2>e
  <2>g. q \in PageRec
    <3>. HIDE DEF i
    <3>. QED  BY <1>0, <2>1, <2>2 DEF PageRec
  <2>h. /\ q.open /\ q.who = i.who /\ q.forced = fo /\ q.name = na /\ q.agreed = ag /\ q.edited = ed
        /\ q.flow = tab[t].flow /\ q.polling = tab[t].polling
    <3>. HIDE DEF i
    <3>. QED  BY <1>0 DEF PageRec
  <2>3. p \in PageRec  BY <2>f, <2>g
  <2>4. /\ p.open /\ p.who = i.who /\ p.forced = fo /\ p.name = na /\ p.agreed = ag /\ p.edited = ed
        /\ p.flow = tab[t].flow /\ p.polling = tab[t].polling
    <3>. HIDE DEF i, p, q
    <3>. QED  BY <2>f, <2>h
  <2>5. tab' = [tab EXCEPT ![t] = p]  BY <1>1 DEF OpenDialog, SetTab
  <2>6. UNCHANGED <<req, pageVars>>  BY <1>1 DEF OpenDialog
  <2>7. PageAsked(p, req[<<t, "add">>])
    <3>1. PageAsked(tab[t], req[<<t, "add">>])  BY <1>0 DEF PageInv
    <3>. HIDE DEF p, q, i
    <3>2. p.forced => p.name \in p.agreed \/ p.edited  BY <2>4, <2>a, <2>b, <2>c, <2>e
    <3>3. req[<<t, "add">>].pc # "idle" => p.edited  BY <2>4, <2>c
    <3>. QED  BY <2>2, <2>4, <3>1, <3>2, <3>3 DEF PageAsked
  <2>8. p.polling <=> p.flow # NoFlow  BY <1>0, <2>4 DEF PageInv
  <2>9. p.flow = tab[t].flow  BY <2>4
  <2>. HIDE DEF p, i
  <2>. QED  BY <2>3, <2>5, <2>6, <2>7, <2>8, <2>9, <1>w, OnlyTab DEF pageVars
<1>2. CASE EditName(t)
  <2>. DEFINE p == [tab[t] EXCEPT !.name = tab[t].over, !.edited = TRUE, !.over = NoName]
  <2>1. p \in PageRec  BY <1>0 DEF PageRec, NameOrNone
  <2>2. /\ p.open = tab[t].open /\ p.who = tab[t].who /\ p.edited = TRUE
        /\ p.flow = tab[t].flow /\ p.polling = tab[t].polling
    BY <1>0 DEF PageRec
  <2>3. tab' = [tab EXCEPT ![t] = p] /\ UNCHANGED <<req, pageVars>>  BY <1>2 DEF EditName, SetTab
  <2>4. PageAsked(p, req[<<t, "add">>]) /\ (p.polling <=> p.flow # NoFlow)
    BY <1>0, <2>2 DEF PageInv, PageAsked
  <2>. HIDE DEF p
  <2>. QED  BY <2>1, <2>2, <2>3, <2>4, <1>w, OnlyTab DEF pageVars
<1>3. CASE CancelDialog(t)
  <2>. DEFINE p == [tab[t] EXCEPT !.open = FALSE, !.flow = NoFlow, !.polling = FALSE, !.win = "none"]
  <2>1. p \in PageRec  BY <1>0 DEF PageRec, FlowOrNone
  <2>2. /\ p.open = FALSE /\ p.forced = tab[t].forced /\ p.name = tab[t].name /\ p.agreed = tab[t].agreed
        /\ p.edited = tab[t].edited /\ p.flow = NoFlow /\ p.polling = FALSE
    BY <1>0 DEF PageRec
  <2>3. /\ tab' = [tab EXCEPT ![t] = p] /\ tells' = tells \cup ({tab[t].flow} \ {NoFlow})
        /\ UNCHANGED <<req, flow, port, pages, up, saved, overwritten, strayed>>
    BY <1>3 DEF CancelDialog, SetTab
  <2>4. PageAsked(p, req[<<t, "add">>]) /\ (p.polling <=> p.flow # NoFlow)
    BY <1>0, <2>2 DEF PageInv, PageAsked
  <2>5. tells' \in SUBSET Flows /\ tells \subseteq tells' /\ (tab[t].flow # NoFlow => tab[t].flow \in tells')
    BY <1>0, <1>w, <2>3 DEF PageRec, FlowOrNone
  <2>. HIDE DEF p
  <2>. QED  BY <2>1, <2>2, <2>3, <2>4, <2>5, <1>w, OnlyTab
<1>4. CASE CloseTab(t)
  <2>. DEFINE p == [tab[t] EXCEPT !.win = "gone"]
  <2>1. p \in PageRec  BY <1>0 DEF PageRec
  <2>2. /\ p.open = tab[t].open /\ p.who = tab[t].who /\ p.forced = tab[t].forced /\ p.name = tab[t].name
        /\ p.agreed = tab[t].agreed /\ p.edited = tab[t].edited /\ p.flow = tab[t].flow
        /\ p.polling = tab[t].polling
    BY <1>0 DEF PageRec
  <2>3. /\ tab' = [tab EXCEPT ![t] = p] /\ pages' = pages \ {tab[t].win}
        /\ UNCHANGED <<req, tells, flow, port, up, saved, overwritten, strayed>>
    BY <1>4 DEF CloseTab, SetTab
  <2>4. PageAsked(p, req[<<t, "add">>]) /\ (p.polling <=> p.flow # NoFlow)
    BY <1>0, <2>2 DEF PageInv, PageAsked
  <2>. HIDE DEF p
  <2>. QED  BY <2>1, <2>2, <2>3, <2>4, <1>w, OnlyTab
<1>. QED  BY <1>1, <1>2, <1>3, <1>4

\* A step of the dialog's page and its login request keeps LoginInv.
LEMMA OnlyDialog ==
  ASSUME LoginInv, NEW t \in Tabs, NEW p \in PageRec, NEW r \in ReqRec,
         tab' = [tab EXCEPT ![t] = p], req' = [req EXCEPT ![<<t, "add">>] = r],
         UNCHANGED <<tells, flow, port, up, saved, overwritten, strayed>>, pages' \in SUBSET Flows,
         req[<<t, "add">>].pc # "started",
         r.pc # "idle" => r.do = "add" /\ r.pc \in {"sent", "started", "answered"} /\ r.who \in Who,
         up = "closed" => r.pc \in {"idle", "answered"},
         PageAsked(p, r), AddLinks(p, r), p.flow # NoFlow => Begun(p.flow), p.polling <=> p.flow # NoFlow,
         \A f \in Flows : (tab[t].flow = f \/ req[<<t, "add">>].f = f) /\ flow[f].st = "wait" /\ up = "up"
                            => p.flow = f \/ r.f = f
  PROVE  LoginInv'
<1>0. t \in Actors /\ AddType /\ PageInv(t) /\ <<t, "add">> \in Slots  BY TabTyped
<1>1. AddType' /\ tab'[t] = p /\ \A u \in Actors \ {t} : tab'[u] = tab[u]  BY <1>0 DEF AddType
<1>2. UNCHANGED <<flow, port, up, saved, overwritten>> /\ tells \subseteq tells' /\ strayed \subseteq strayed'
  OBVIOUS
<1>3. \A s \in Slots : req'[s] = IF s = <<t, "add">> THEN r ELSE req[s]  BY <1>0 DEF AddType
<1>4. \A s \in Slots : s[1] # t => req'[s] = req[s]  BY <1>3, SlotFacts
<1>5. \A s \in Slots : Kind(s, req'[s]) /\ (up = "closed" => req'[s].pc \in {"idle", "answered"})
  <2>1. Kind(<<t, "add">>, r)  BY DEF Kind
  <2>. QED  BY <1>3, <2>1 DEF LoginInv, Kinds, Over
<1>6. req'[<<t, "add">>] = r /\ \A s \in Polls(t) : req'[s] = req[s]  BY <1>0, <1>3, SlotFacts
<1>7. PageInv(t)'
  <2>1. PageAsked(p, r)'  BY DEF PageAsked, Asked
  <2>2. AddLinks(p, r)'  BY DEF AddLinks, Begun
  <2>3. (p.flow # NoFlow => Begun(p.flow))'  BY DEF Begun
  <2>4. Polls(t)' = Polls(t)  BY DEF Polls
  <2>5. ASSUME NEW s \in Polls(t) PROVE PollLinks(req[s])'  BY <1>0, <1>6 DEF PageInv, PollLinks, Begun
  <2>. QED  BY <1>1, <1>6, <2>1, <2>2, <2>3, <2>4, <2>5 DEF PageInv, PageAsked, AddLinks, Begun, Asked
<1>8. \A f \in Flows : (tab[t].flow = f \/ req[<<t, "add">>].f = f) /\ flow[f].st = "wait" /\ up = "up"
                         => f \in tells' \cup strayed' \/ tab'[t].flow = f \/ req'[<<t, "add">>].f = f
  BY <1>1, <1>6
<1>. QED  BY <1>0, <1>1, <1>2, <1>4, <1>5, <1>7, <1>8, OnePage

\* Submitting the dialog keeps LoginInv.
LEMMA SubmitLogin ==
  ASSUME LoginInv, NEW t \in Tabs, Submit(t)
  PROVE  LoginInv'
<1>0. t \in Actors /\ AddType /\ PageInv(t) /\ tab[t] \in PageRec /\ req[<<t, "add">>] \in ReqRec  BY TabTyped
<1>. DEFINE p == [tab[t] EXCEPT !.ready = FALSE, !.win = "blank"]
            q == [NoReq EXCEPT !.do = "add", !.n = tab[t].name, !.who = tab[t].who,
                    !.force = tab[t].forced, !.agreed = tab[t].agreed, !.edited = tab[t].edited]
<1>1. p \in PageRec  BY <1>0 DEF PageRec
<1>2. /\ p.open = tab[t].open /\ p.who = tab[t].who /\ p.forced = tab[t].forced /\ p.name = tab[t].name
      /\ p.agreed = tab[t].agreed /\ p.edited = tab[t].edited /\ p.flow = tab[t].flow
      /\ p.polling = tab[t].polling
  BY <1>0 DEF PageRec
<1>3. /\ q \in ReqRec /\ q.do = "add" /\ q.n = tab[t].name /\ q.who = tab[t].who /\ q.force = tab[t].forced
      /\ q.agreed = tab[t].agreed /\ q.edited = tab[t].edited /\ q.f = NoFlow /\ q.out = "none"
  <2>1. /\ tab[t].name \in NameOrNone /\ tab[t].who \in Who \cup {NoTok} /\ tab[t].forced \in BOOLEAN
        /\ tab[t].agreed \in SUBSET NameOrNone /\ tab[t].edited \in BOOLEAN
    BY <1>0 DEF PageRec
  <2>2. NoReq \in ReqRec /\ NoReq.f = NoFlow /\ NoReq.out = "none"  BY NoReqTyped DEF NoReq
  <2>. QED  BY <2>1, <2>2 DEF ReqRec
<1>4. PICK r \in ReqRec : r = SentAs(q)  BY <1>3, SentTyped
<1>5. /\ r.do = "add" /\ r.n = tab[t].name /\ r.who = tab[t].who /\ r.force = tab[t].forced
      /\ r.agreed = tab[t].agreed /\ r.edited = tab[t].edited /\ r.f = NoFlow
      /\ r.pc = (IF up = "up" THEN "sent" ELSE "answered") /\ r.out = (IF up = "up" THEN "none" ELSE "unreachable")
  <2>. HIDE DEF q
  <2>. QED  BY <1>3, <1>4, SentTyped
<1>6. /\ tab' = [tab EXCEPT ![t] = p] /\ req' = [req EXCEPT ![<<t, "add">>] = r]
      /\ UNCHANGED pageVars /\ tab[t].open /\ req[<<t, "add">>].pc = "idle"
  BY <1>4 DEF Submit, SetTab, Sent, SetReq, SentAs
<1>7. PageAsked(p, r)  BY <1>0, <1>2, <1>5 DEF PageInv, PageAsked, Asked
<1>8. AddLinks(p, r)  BY <1>5 DEF AddLinks
<1>9. tab[t].who \in Who /\ req[<<t, "add">>].f = NoFlow
  BY <1>0, <1>6 DEF PageInv, PageAsked, AddLinks
<1>10. (p.flow # NoFlow => Begun(p.flow)) /\ (p.polling <=> p.flow # NoFlow)  BY <1>0, <1>2 DEF PageInv
<1>11. UNCHANGED <<tells, flow, port, up, saved, overwritten, strayed>> /\ pages' \in SUBSET Flows
  BY <1>0, <1>6 DEF pageVars, AddType
<1>12. \A f \in Flows : (tab[t].flow = f \/ req[<<t, "add">>].f = f) /\ flow[f].st = "wait" /\ up = "up"
                            => p.flow = f \/ r.f = f
  BY <1>2, <1>9, AddAssumption
<1>13. r.pc # "idle" => r.do = "add" /\ r.pc \in {"sent", "started", "answered"} /\ r.who \in Who
  BY <1>5, <1>9
<1>14. up = "closed" => r.pc \in {"idle", "answered"}  BY <1>5
<1>. HIDE DEF p, q
<1>. QED  BY <1>1, <1>6, <1>7, <1>8, <1>10, <1>11, <1>12, <1>13, <1>14, OnlyDialog

\* The answer to a login's request keeps LoginInv.
LEMMA UseAddedLogin ==
  ASSUME LoginInv, NEW t \in Tabs, UseAdded(t)
  PROVE  LoginInv'
<1>0. t \in Actors /\ AddType /\ PageInv(t) /\ tab[t] \in PageRec /\ req[<<t, "add">>] \in ReqRec
      /\ <<t, "add">> \in Slots
  BY TabTyped
<1>. DEFINE o == req[<<t, "add">>]
<1>a. o.pc = "answered" /\ UNCHANGED <<tells, flow, port, up, saved, overwritten, strayed>>
  BY DEF UseAdded
<1>b. /\ PageAsked(tab[t], o) /\ AddLinks(tab[t], o)
      /\ tab[t].flow # NoFlow => Begun(tab[t].flow)
      /\ tab[t].polling <=> tab[t].flow # NoFlow
  BY <1>0 DEF PageInv
<1>c. o.do = "add" /\ o.who \in Who
  <2>1. Kind(<<t, "add">>, o) /\ <<t, "add">>[2] = "add"  BY <1>0 DEF LoginInv, Kinds
  <2>. QED  BY <2>1, <1>a DEF Kind
<1>d. NoReq \in ReqRec /\ NoReq.pc = "idle" /\ NoReq.f = NoFlow  BY NoReqTyped
<1>e. pages \in SUBSET Flows  BY <1>0 DEF AddType
<1>1. CASE SetTab(t, [tab[t] EXCEPT !.ready = TRUE, !.win = "none"]) /\ SetReq(<<t, "add">>, NoReq)
           /\ UNCHANGED pages /\ o.out # "pending"
  <2>. DEFINE p == [tab[t] EXCEPT !.ready = TRUE, !.win = "none"]
  <2>1. p \in PageRec  BY <1>0 DEF PageRec
  <2>2. /\ p.open = tab[t].open /\ p.who = tab[t].who /\ p.forced = tab[t].forced /\ p.name = tab[t].name
        /\ p.agreed = tab[t].agreed /\ p.edited = tab[t].edited /\ p.flow = tab[t].flow
        /\ p.polling = tab[t].polling
    BY <1>0 DEF PageRec
  <2>3. PageAsked(p, NoReq) /\ AddLinks(p, NoReq)  BY <2>2, <1>b, <1>d DEF PageAsked, AddLinks
  <2>4. o.f = NoFlow  BY <1>1, <1>a, <1>b DEF AddLinks
  <2>5. tab' = [tab EXCEPT ![t] = p] /\ req' = [req EXCEPT ![<<t, "add">>] = NoReq]  BY <1>1 DEF SetTab, SetReq
  <2>6. (p.flow # NoFlow => Begun(p.flow)) /\ (p.polling <=> p.flow # NoFlow)  BY <1>b, <2>2
  <2>7. \A f \in Flows : (tab[t].flow = f \/ req[<<t, "add">>].f = f) /\ flow[f].st = "wait" /\ up = "up"
                            => p.flow = f \/ NoReq.f = f
    BY <2>2, <2>4, AddAssumption
  <2>. HIDE DEF p
  <2>. QED  BY <1>1, <1>a, <1>d, <1>e, <2>1, <2>3, <2>5, <2>6, <2>7, OnlyDialog
<1>2. CASE /\ Sent(<<t, "add">>, [o EXCEPT !.n = tab[t].name, !.force = TRUE, !.agreed = @ \cup {o.n}, !.edited = tab[t].edited])
           /\ UNCHANGED <<tab, pages>> /\ o.out = "confirm"
  <2>. DEFINE q == [o EXCEPT !.n = tab[t].name, !.force = TRUE, !.agreed = @ \cup {o.n}, !.edited = tab[t].edited]
  <2>0. /\ tab[t].name \in NameOrNone /\ tab[t].edited \in BOOLEAN /\ o.n \in NameOrNone
        /\ o.agreed \in SUBSET NameOrNone
    BY <1>0 DEF PageRec, ReqRec
  <2>1. q \in ReqRec  BY <1>0, <2>0 DEF ReqRec
  <2>2. /\ q.do = o.do /\ q.n = tab[t].name /\ q.who = o.who /\ q.force = TRUE /\ q.out = o.out
        /\ q.agreed = o.agreed \cup {o.n} /\ q.edited = tab[t].edited /\ q.f = o.f
    BY <1>0 DEF ReqRec
  <2>3. PICK r \in ReqRec : r = SentAs(q)  BY <2>1, SentTyped
  <2>4. /\ r.do = o.do /\ r.n = tab[t].name /\ r.who = o.who /\ r.force = TRUE
        /\ r.agreed = o.agreed \cup {o.n} /\ r.edited = tab[t].edited /\ r.f = o.f
        /\ r.pc = (IF up = "up" THEN "sent" ELSE "answered") /\ r.out = (IF up = "up" THEN o.out ELSE "unreachable")
    <3>. HIDE DEF q
    <3>. QED  BY <2>1, <2>2, <2>3, SentTyped
  <2>5. o.f = NoFlow  BY <1>2, <1>a, <1>b DEF AddLinks
  <2>6. req' = [req EXCEPT ![<<t, "add">>] = r]  BY <1>2, <2>3 DEF Sent, SetReq, SentAs
  <2>7. tab' = [tab EXCEPT ![t] = tab[t]]  BY <1>0, <1>2 DEF AddType
  <2>8. PageAsked(tab[t], r)  BY <1>a, <1>b, <2>4 DEF PageAsked, Asked
  <2>9. AddLinks(tab[t], r)  BY <2>4, <2>5, <1>2 DEF AddLinks
  <2>10. \A f \in Flows : (tab[t].flow = f \/ req[<<t, "add">>].f = f) /\ flow[f].st = "wait" /\ up = "up"
                            => tab[t].flow = f \/ r.f = f
    BY <2>4
  <2>11. r.pc # "idle" => r.do = "add" /\ r.pc \in {"sent", "started", "answered"} /\ r.who \in Who
    BY <2>4, <1>c
  <2>12. up = "closed" => r.pc \in {"idle", "answered"}  BY <2>4
  <2>. HIDE DEF q
  <2>. QED  BY <1>0, <1>2, <1>a, <1>b, <1>e, <2>6, <2>7, <2>8, <2>9, <2>10, <2>11, <2>12, OnlyDialog
<1>3. CASE /\ o.out = "pending" /\ SetTab(t, [tab[t] EXCEPT !.flow = o.f, !.polling = TRUE, !.win = o.f])
           /\ SetReq(<<t, "add">>, NoReq) /\ pages' = pages \cup {o.f}
  <2>. DEFINE p == [tab[t] EXCEPT !.flow = o.f, !.polling = TRUE, !.win = o.f]
  <2>0. Begun(o.f) /\ o.f \in Flows /\ o.f # NoFlow /\ (tab[t].flow # port \/ port = NoFlow)
    BY <1>3, <1>a, <1>b, AddAssumption DEF AddLinks, Begun
  <2>1. p \in PageRec  BY <1>0, <2>0 DEF PageRec, FlowOrNone
  <2>2. /\ p.open = tab[t].open /\ p.who = tab[t].who /\ p.forced = tab[t].forced /\ p.name = tab[t].name
        /\ p.agreed = tab[t].agreed /\ p.edited = tab[t].edited /\ p.flow = o.f /\ p.polling = TRUE
    BY <1>0 DEF PageRec
  <2>3. PageAsked(p, NoReq) /\ AddLinks(p, NoReq)  BY <2>2, <1>b, <1>d DEF PageAsked, AddLinks
  <2>4. tab' = [tab EXCEPT ![t] = p] /\ req' = [req EXCEPT ![<<t, "add">>] = NoReq]  BY <1>3 DEF SetTab, SetReq
  <2>5. (p.flow # NoFlow => Begun(p.flow)) /\ (p.polling <=> p.flow # NoFlow)  BY <2>0, <2>2
  <2>6. \A f \in Flows : (tab[t].flow = f \/ req[<<t, "add">>].f = f) /\ flow[f].st = "wait" /\ up = "up"
                            => p.flow = f \/ NoReq.f = f
    <3>1. ASSUME NEW f \in Flows, tab[t].flow = f, flow[f].st = "wait" PROVE FALSE
      <4>1. port = f  BY <3>1 DEF LoginInv, FlowInv, Waiting
      <4>2. f # NoFlow  BY AddAssumption
      <4>. QED  BY <2>0, <3>1, <4>1, <4>2
    <3>. QED  BY <2>2, <3>1
  <2>7. pages' \in SUBSET Flows  BY <1>3, <1>e, <2>0
  <2>. HIDE DEF p
  <2>. QED  BY <1>a, <1>d, <2>1, <2>3, <2>4, <2>5, <2>6, <2>7, OnlyDialog
<1>. QED  BY <1>1, <1>2, <1>3 DEF UseAdded

\* The page of a login that is tried again, or that has ended, keeps what was agreed.
LEMMA RetryTyped ==
  ASSUME NEW p \in PageRec, NEW out
  PROVE  \A q \in {Retry(p), Ended(p, out)} :
           /\ q \in PageRec /\ q.flow = NoFlow /\ q.polling = FALSE /\ q.open \in {p.open, FALSE} /\ q.who = p.who
           /\ q.forced = p.forced /\ q.name = p.name /\ q.agreed = p.agreed /\ q.edited = p.edited
<1>1. /\ Retry(p) \in PageRec /\ Retry(p).flow = NoFlow /\ Retry(p).polling = FALSE /\ Retry(p).open = p.open
      /\ Retry(p).who = p.who /\ Retry(p).forced = p.forced /\ Retry(p).name = p.name
      /\ Retry(p).agreed = p.agreed /\ Retry(p).edited = p.edited
  BY DEF Retry, PageRec, FlowOrNone
<1>. DEFINE q == [Retry(p) EXCEPT !.open = FALSE, !.ready = p.ready]
<1>2. /\ q \in PageRec /\ q.flow = NoFlow /\ q.polling = FALSE /\ q.open = FALSE
      /\ q.who = p.who /\ q.forced = p.forced /\ q.name = p.name /\ q.agreed = p.agreed /\ q.edited = p.edited
  BY <1>1 DEF PageRec
<1>3. Ended(p, out) = IF out = "done" THEN q ELSE Retry(p)  BY DEF Ended
<1>. HIDE DEF q
<1>. QED  BY <1>1, <1>2, <1>3

\* The answer to a poll keeps LoginInv, also when it is about another login.
LEMMA UsePollLogin ==
  ASSUME LoginInv, NEW t \in Tabs, NEW s \in Polls(t), UsePoll(t, s)
  PROVE  LoginInv'
<1>0. t \in Actors /\ AddType /\ PageInv(t) /\ tab[t] \in PageRec /\ s \in Slots /\ s[1] = t
      /\ s[2] \in {"poll1", "poll2"}
  BY TabTyped, SlotFacts
<1>. DEFINE o == req[s]
<1>1. /\ req' = [req EXCEPT ![s] = NoReq] /\ o.pc = "answered"
      /\ UNCHANGED <<flow, port, pages, up, saved, overwritten>>
  BY DEF UsePoll, SetReq
<1>2. NoReq \in ReqRec /\ NoReq.pc = "idle"  BY NoReqTyped
<1>3. PollLinks(o)  BY <1>0 DEF PageInv
<1>4. PICK p \in PageRec :
        /\ tab' = [tab EXCEPT ![t] = p]
        /\ p.open \in {tab[t].open, FALSE} /\ p.who = tab[t].who /\ p.forced = tab[t].forced
        /\ p.name = tab[t].name /\ p.agreed = tab[t].agreed /\ p.edited = tab[t].edited
        /\ \/ /\ p.flow = tab[t].flow /\ p.polling = tab[t].polling /\ UNCHANGED <<tells, strayed>>
           \/ /\ p.flow = NoFlow /\ p.polling = FALSE
              /\ tells' = tells \cup ({tab[t].flow} \ {NoFlow}) /\ UNCHANGED strayed
           \/ /\ p.flow = NoFlow /\ p.polling = FALSE /\ o.out \in {"done", "error", "missing", "unreachable"}
              /\ strayed' = strayed \cup ({tab[t].flow} \ {o.f, NoFlow}) /\ UNCHANGED tells
  <2>1. CASE UNCHANGED <<tab, tells, strayed>>
    <3>1. tab' = [tab EXCEPT ![t] = tab[t]]  BY <1>0, <2>1 DEF AddType
    <3>. QED  BY <1>0, <2>1, <3>1
  <2>2. CASE /\ SetTab(t, Retry(tab[t])) /\ UNCHANGED strayed
             /\ tells' = tells \cup ({tab[t].flow} \ {NoFlow})
    BY <1>0, <2>2, RetryTyped DEF SetTab
  <2>3. CASE /\ SetTab(t, Ended(tab[t], o.out)) /\ UNCHANGED tells
             /\ strayed' = strayed \cup ({tab[t].flow} \ {o.f, NoFlow})
             /\ o.out \in {"done", "error", "missing", "unreachable"}
    BY <1>0, <2>3, RetryTyped DEF SetTab
  <2>. QED  BY <2>1, <2>2, <2>3 DEF UsePoll
<1>5. AddType' /\ tells \subseteq tells' /\ strayed \subseteq strayed' /\ tab'[t] = p
      /\ \A u \in Actors \ {t} : tab'[u] = tab[u]
  <2>1. tab[t].flow \in Flows \cup {NoFlow}  BY <1>0 DEF PageRec, FlowOrNone
  <2>. QED  BY <1>0, <1>1, <1>2, <1>4, <2>1 DEF AddType
<1>6. \A x \in Slots : req'[x] = IF x = s THEN NoReq ELSE req[x]  BY <1>0, <1>1 DEF AddType
<1>7. \A x \in Slots : Kind(x, req'[x]) /\ (up = "closed" => req'[x].pc \in {"idle", "answered"})
  <2>1. Kind(s, NoReq)  BY <1>2 DEF Kind
  <2>. QED  BY <1>2, <1>6, <2>1 DEF LoginInv, Kinds, Over
<1>8. req'[<<t, "add">>] = req[<<t, "add">>]  BY <1>0, <1>6, SlotFacts
<1>9. PageInv(t)'
  <2>0. PICK r : r = req[<<t, "add">>]  OBVIOUS
  <2>a. PageAsked(tab[t], r) /\ AddLinks(tab[t], r)  BY <1>0, <2>0 DEF PageInv
  <2>1. PageAsked(p, r)'  BY <1>4, <2>a DEF PageAsked, Asked
  <2>2. AddLinks(p, r)'  BY <1>1, <1>4, <2>a DEF AddLinks, Begun
  <2>3. (p.flow # NoFlow => Begun(p.flow))'  BY <1>0, <1>1, <1>4 DEF PageInv, Begun
  <2>4. Polls(t)' = Polls(t)  BY DEF Polls
  <2>5. ASSUME NEW x \in Polls(t) PROVE PollLinks(req[x])'
    <3>1. x \in Slots /\ PollLinks(req[x])  BY <1>0, SlotFacts DEF PageInv
    <3>2. CASE x = s  BY <1>2, <1>6, <3>1, <3>2 DEF PollLinks
    <3>3. CASE x # s
      <4>1. req'[x] = req[x]  BY <1>6, <3>1, <3>3
      <4>. QED  BY <1>1, <3>1, <4>1 DEF PollLinks, Begun
    <3>. QED  BY <3>2, <3>3
  <2>6. p.polling <=> p.flow # NoFlow  BY <1>0, <1>4 DEF PageInv
  <2>. QED  BY <1>5, <1>8, <2>0, <2>1, <2>2, <2>3, <2>4, <2>5, <2>6 DEF PageInv, PageAsked, AddLinks, Begun, Asked
<1>10. \A f \in Flows : (tab[t].flow = f \/ req[<<t, "add">>].f = f) /\ flow[f].st = "wait" /\ up = "up"
                         => f \in tells' \cup strayed' \/ tab'[t].flow = f \/ req'[<<t, "add">>].f = f
  <2>1. ASSUME NEW f \in Flows, tab[t].flow = f, flow[f].st = "wait", up = "up", f \notin tells' \cup strayed'
        PROVE  p.flow = f
    <3>1. port = f /\ f # NoFlow  BY <2>1, AddAssumption DEF LoginInv, FlowInv, Waiting
    <3>2. f = o.f /\ o.out \in {"done", "error", "missing", "unreachable"} => FALSE
      BY <1>1, <1>3, <2>1, <3>1 DEF PollLinks
    <3>. QED  BY <1>4, <2>1, <3>1, <3>2
  <2>. QED  BY <1>5, <1>8, <2>1
<1>11. UNCHANGED <<flow, port, up, saved, overwritten>>  BY <1>1
<1>12. \A x \in Slots : x[1] # t => req'[x] = req[x]  BY <1>0, <1>6
<1>. QED  BY <1>0, <1>5, <1>7, <1>8, <1>9, <1>10, <1>11, <1>12, OnePage

-----------------------------------------------------------------------------
\* The browser, the timers and the logins keep LoginInv.
LEMMA SameLogins ==
  ASSUME LoginInv, UNCHANGED <<tab, req, flow, port, up, saved, overwritten, strayed>>,
         pages' \in SUBSET Flows, tells' \in SUBSET Flows,
         \A f \in Flows : flow[f].st = "wait" => (f \in tells => f \in tells')
  PROVE  LoginInv'
<1>1. AddType' /\ Onward  BY DEF LoginInv, AddType, Onward, Begun
<1>2. up' = "closed" => Over  BY DEF LoginInv, Kinds
<1>3. ASSUME NEW f \in Flows PROVE FlowInv(f)'
  <2>1. FlowInv(f)  BY DEF LoginInv
  <2>. QED  BY <2>1 DEF FlowInv, Waiting, Asked
<1>. QED  BY <1>1, <1>2, <1>3, OnlyFlows

\* A login that changes leaves the others as they were.
LEMMA OneFlow ==
  ASSUME LoginInv, NEW f \in Flows, NEW e \in FlowRec, flow' = [flow EXCEPT ![f] = e],
         port' \in {port, NoFlow}, UNCHANGED <<tab, req, up, strayed>>,
         pages' \in SUBSET Flows, tells' \in SUBSET Flows, saved' \in SUBSET Flows, overwritten' \in SUBSET Flows,
         \A g \in Flows \ {f} : /\ g \in saved' <=> g \in saved
                                /\ g \in overwritten' <=> g \in overwritten
                                /\ port' = g <=> port = g
                                /\ g \in tells => g \in tells',
         e.st = flow[f].st \/ (flow[f].st # "new" /\ e.st \notin {"new", "starting", "wait"}),
         e.st = "wait" => (f \in tells => f \in tells'),
         FlowInv(f)'
  PROVE  LoginInv'
<1>0. AddType  BY DEF LoginInv
<1>1. AddType'  BY <1>0 DEF AddType, FlowOrNone
<1>2. \A g \in Flows : flow'[g] = IF g = f THEN e ELSE flow[g]  BY <1>0 DEF AddType
<1>3. Onward  BY <1>2 DEF Onward, Begun
<1>4. up' = "closed" => Over  BY DEF LoginInv, Kinds
<1>5. ASSUME NEW g \in Flows PROVE FlowInv(g)'
  <2>1. CASE g = f  BY <2>1
  <2>2. CASE g # f
    <3>1. flow'[g] = flow[g] /\ FlowInv(g)  BY <1>2, <2>2 DEF LoginInv
    <3>. QED  BY <2>2, <3>1 DEF FlowInv, Waiting, Asked
  <2>. QED  BY <2>1, <2>2
<1>6. \A g \in Flows : flow'[g].st = "starting" => flow[g].st = "starting"  BY <1>2
<1>7. \A g \in Flows : flow'[g].st = "wait" => flow[g].st = "wait" /\ (g \in tells => g \in tells')
  BY <1>2
<1>. QED  BY <1>1, <1>3, <1>4, <1>5, <1>6, <1>7, OnlyFlows

\* A login has its type.
LEMMA FlowTyped ==
  ASSUME LoginInv, NEW f \in Flows
  PROVE  /\ flow[f] \in FlowRec /\ FlowInv(f) /\ flow \in [Flows -> FlowRec] /\ f # NoFlow
         /\ tells \in SUBSET Flows /\ pages \in SUBSET Flows /\ saved \in SUBSET Flows /\ overwritten \in SUBSET Flows
         /\ port \in Flows \cup {NoFlow}
BY AddAssumption DEF LoginInv, AddType, FlowOrNone

\* A wait that ends without a code, or with one for this login.
LEMMA WaitEnds ==
  ASSUME LoginInv, NEW f \in Flows, port = f, port' = NoFlow, pages' \in SUBSET Flows,
         \/ flow' = [flow EXCEPT ![f] = [flow[f] EXCEPT !.st = "error"]]
         \/ flow' = [flow EXCEPT ![f] = [flow[f] EXCEPT !.st = "exchange", !.via = f]],
         UNCHANGED <<tab, req, tells, up, saved, overwritten, strayed>>
  PROVE  LoginInv'
<1>0. /\ flow[f] \in FlowRec /\ FlowInv(f) /\ flow \in [Flows -> FlowRec] /\ f # NoFlow
      /\ tells \in SUBSET Flows /\ pages \in SUBSET Flows /\ saved \in SUBSET Flows /\ overwritten \in SUBSET Flows
  BY FlowTyped
<1>1. PICK e \in FlowRec :
        /\ flow' = [flow EXCEPT ![f] = e]
        /\ e.who = flow[f].who /\ e.force = flow[f].force /\ e.n = flow[f].n /\ e.agreed = flow[f].agreed
        /\ e.edited = flow[f].edited /\ e.cancel = flow[f].cancel
        /\ e.st = "error" \/ (e.st = "exchange" /\ e.via = f)
  <2>. DEFINE x == [flow[f] EXCEPT !.st = "error"]
              y == [flow[f] EXCEPT !.st = "exchange", !.via = f]
  <2>1. /\ x \in FlowRec /\ x.who = flow[f].who /\ x.force = flow[f].force /\ x.n = flow[f].n
        /\ x.agreed = flow[f].agreed /\ x.edited = flow[f].edited /\ x.cancel = flow[f].cancel /\ x.st = "error"
    BY <1>0 DEF FlowRec
  <2>2. /\ y \in FlowRec /\ y.who = flow[f].who /\ y.force = flow[f].force /\ y.n = flow[f].n
        /\ y.agreed = flow[f].agreed /\ y.edited = flow[f].edited /\ y.cancel = flow[f].cancel
        /\ y.st = "exchange" /\ y.via = f
    BY <1>0 DEF FlowRec, FlowOrNone
  <2>3. flow' = [flow EXCEPT ![f] = x] \/ flow' = [flow EXCEPT ![f] = y]  OBVIOUS
  <2>. HIDE DEF x, y
  <2>. QED  BY <2>1, <2>2, <2>3
<1>2. Waiting(f)  BY <1>0 DEF FlowInv
<1>3. flow'[f] = e  BY <1>0, <1>1
<1>4. FlowInv(f)'  BY <1>0, <1>1, <1>2, <1>3 DEF FlowInv, Waiting, Asked
<1>5. flow[f].st # "new" /\ e.st \notin {"new", "starting", "wait"}  BY <1>1, <1>2 DEF Waiting
<1>6. \A g \in Flows \ {f} : (port' = g <=> port = g)  BY AddAssumption
<1>. QED  BY <1>0, <1>1, <1>4, <1>5, <1>6, OneFlow

\* What the browser sends to the callback port, or a timeout, keeps LoginInv.
LEMMA BrowserLogin ==
  ASSUME LoginInv, NEW f \in Flows, Authorize(f) \/ Decline(f) \/ TimesOut(f)
  PROVE  LoginInv'
<1>0. /\ flow[f] \in FlowRec /\ FlowInv(f) /\ flow \in [Flows -> FlowRec] /\ f # NoFlow
      /\ tells \in SUBSET Flows /\ pages \in SUBSET Flows /\ saved \in SUBSET Flows /\ overwritten \in SUBSET Flows
      /\ port \in Flows \cup {NoFlow}
  BY FlowTyped
<1>1. CASE Authorize(f)
  <2>1. pages' \in SUBSET Flows /\ UNCHANGED <<tab, req, tells, up, saved, overwritten, strayed>>
    BY <1>0, <1>1 DEF Authorize
  <2>2. CASE port = NoFlow
    <3>1. UNCHANGED <<flow, port>>  BY <1>1, <2>2 DEF Authorize
    <3>. QED  BY <1>0, <2>1, <3>1, SameLogins
  <2>3. CASE port # NoFlow
    <3>1. port' = NoFlow /\ port \in Flows  BY <1>0, <1>1, <2>3 DEF Authorize
    <3>2. \/ flow' = [flow EXCEPT ![port] = [flow[port] EXCEPT !.st = "error"]]
          \/ flow' = [flow EXCEPT ![port] = [flow[port] EXCEPT !.st = "exchange", !.via = port]]
      <4>1. CASE port = f  BY <1>1, <2>3, <4>1 DEF Authorize, Accepts
      <4>2. CASE port # f  BY <1>1, <2>3, <4>2 DEF Authorize, Accepts
      <4>. QED  BY <4>1, <4>2
    <3>3. PICK g \in Flows : g = port  BY <3>1
    <3>. QED  BY <2>1, <3>1, <3>2, <3>3, WaitEnds
  <2>. QED  BY <2>2, <2>3
<1>2. CASE Decline(f)
  <2>1. pages' \in SUBSET Flows /\ UNCHANGED <<tab, req, tells, up, saved, overwritten, strayed>>
    BY <1>0, <1>2 DEF Decline
  <2>2. CASE port = NoFlow
    <3>1. UNCHANGED <<flow, port>>  BY <1>2, <2>2 DEF Decline
    <3>. QED  BY <1>0, <2>1, <3>1, SameLogins
  <2>3. CASE port # NoFlow
    <3>1. port' = NoFlow /\ port \in Flows  BY <1>0, <1>2, <2>3 DEF Decline
    <3>2. flow' = [flow EXCEPT ![port] = [flow[port] EXCEPT !.st = "error"]]
      BY <1>2, <2>3 DEF Decline
    <3>3. PICK g \in Flows : g = port  BY <3>1
    <3>. QED  BY <2>1, <3>1, <3>2, <3>3, WaitEnds
  <2>. QED  BY <2>2, <2>3
<1>3. CASE TimesOut(f)
  <2>1. port = f  BY <1>0, <1>3 DEF TimesOut, FlowInv, Waiting
  <2>2. port' = NoFlow  BY <1>3, <2>1 DEF TimesOut, Free
  <2>3. UNCHANGED <<tab, req, tells, pages, up, saved, overwritten, strayed>>  BY <1>3 DEF TimesOut
  <2>4. flow' = [flow EXCEPT ![f] = [flow[f] EXCEPT !.st = "error"]]  BY <1>3 DEF TimesOut
  <2>. QED  BY <1>0, <2>1, <2>2, <2>3, <2>4, WaitEnds
<1>. QED  BY <1>1, <1>2, <1>3

\* So do the exchange of a code and the saving and pushing of the account.
LEMMA WorkLogin ==
  ASSUME LoginInv, NEW f \in Flows, Exchange(f) \/ Save(f) \/ Settle(f)
  PROVE  LoginInv'
<1>0. /\ flow[f] \in FlowRec /\ FlowInv(f) /\ flow \in [Flows -> FlowRec] /\ f # NoFlow
      /\ tells \in SUBSET Flows /\ pages \in SUBSET Flows /\ saved \in SUBSET Flows /\ overwritten \in SUBSET Flows
  BY FlowTyped
<1>1. ASSUME NEW c \in {"save", "sync", "done", "error"},
             flow' = [flow EXCEPT ![f] = [flow[f] EXCEPT !.st = c]],
             flow[f].st \in {"exchange", "save", "sync"},
             UNCHANGED <<tab, req, tells, port, pages, up, strayed>>,
             c \in {"save", "error"} => flow[f].st \in {"exchange", "save"} /\ UNCHANGED <<saved, overwritten>>,
             saved' \in {saved, saved \cup {f}}, overwritten' \in {overwritten, overwritten \cup {f}},
             f \in overwritten' => f \in overwritten \/ Asked(flow[f])
      PROVE  LoginInv'
  <2>. DEFINE e == [flow[f] EXCEPT !.st = c]
  <2>1. /\ e \in FlowRec /\ e.st = c /\ e.who = flow[f].who /\ e.force = flow[f].force /\ e.n = flow[f].n
        /\ e.agreed = flow[f].agreed /\ e.edited = flow[f].edited /\ e.cancel = flow[f].cancel
        /\ e.via = flow[f].via
    BY <1>0 DEF FlowRec
  <2>2. flow' = [flow EXCEPT ![f] = e] /\ flow'[f] = e  BY <1>0, <1>1
  <2>. HIDE DEF e
  <2>3. FlowInv(f)'  BY <1>0, <1>1, <2>1, <2>2 DEF FlowInv, Waiting, Asked
  <2>4. saved' \in SUBSET Flows /\ overwritten' \in SUBSET Flows  BY <1>0, <1>1
  <2>. QED  BY <1>0, <1>1, <2>1, <2>2, <2>3, <2>4, OneFlow
<1>2. CASE Exchange(f)
  <2>1. PICK c \in {"save", "error"} : flow' = [flow EXCEPT ![f] = [flow[f] EXCEPT !.st = c]]
    BY <1>2 DEF Exchange
  <2>. QED  BY <1>1, <1>2, <2>1 DEF Exchange
<1>3. CASE Save(f)
  <2>1. CASE /\ flow' = [flow EXCEPT ![f].st = "error"]
             /\ UNCHANGED <<store, pass, saved, overwritten>>
    BY <1>1, <1>3, <2>1 DEF Save
  <2>2. CASE /\ ~((store[flow[f].n] # NoTok /\ ~Forced(f)) \/ Managed(flow[f].who, flow[f].n))
             /\ overwritten' = IF store[flow[f].n] = NoTok THEN overwritten ELSE overwritten \cup {f}
             /\ saved' = saved \cup {f}
             /\ flow' = [flow EXCEPT ![f].st = "sync"]
    <3>1. f \in overwritten' => f \in overwritten \/ Asked(flow[f])
      BY <1>0, <2>2 DEF Forced, FlowInv
    <3>. QED  BY <1>1, <1>3, <2>2, <3>1 DEF Save
  <2>. QED  BY <1>3, <2>1, <2>2 DEF Save
<1>4. CASE Settle(f)  BY <1>1, <1>4 DEF Settle
<1>. QED  BY <1>2, <1>3, <1>4

\* A login that is ended as an error is sound.
LEMMA EndingFits ==
  ASSUME NEW f, flow[f] \in FlowRec
  PROVE  /\ Ending(f) \in FlowRec /\ Ending(f).who = flow[f].who /\ Ending(f).force = flow[f].force
         /\ Ending(f).n = flow[f].n /\ Ending(f).agreed = flow[f].agreed /\ Ending(f).edited = flow[f].edited
         /\ Ending(f).via = flow[f].via /\ Ending(f).known = flow[f].known /\ Ending(f).late = flow[f].late
         /\ Waiting(f) => Ending(f).st = "error"
         /\ ~Waiting(f) => Ending(f).st = flow[f].st /\ (Ending(f).cancel = "early" => flow[f].cancel = "early")
<1>. DEFINE x == [flow[f] EXCEPT !.st = "error", !.cancel = "early"]
<1>1. /\ x \in FlowRec /\ x.who = flow[f].who /\ x.force = flow[f].force /\ x.n = flow[f].n
      /\ x.agreed = flow[f].agreed /\ x.edited = flow[f].edited /\ x.via = flow[f].via /\ x.st = "error"
      /\ x.known = flow[f].known /\ x.late = flow[f].late
  BY DEF FlowRec
<1>2. PICK c \in {"no", "early", "late"} :
        c = IF flow[f].cancel = "no" /\ flow[f].st = "exchange" THEN "late" ELSE flow[f].cancel
  BY DEF FlowRec
<1>. DEFINE y == [flow[f] EXCEPT !.cancel = c]
<1>3. /\ y \in FlowRec /\ y.who = flow[f].who /\ y.force = flow[f].force /\ y.n = flow[f].n
      /\ y.agreed = flow[f].agreed /\ y.edited = flow[f].edited /\ y.via = flow[f].via
      /\ y.st = flow[f].st /\ y.cancel = c /\ y.known = flow[f].known /\ y.late = flow[f].late
  BY DEF FlowRec
<1>4. Ending(f) = IF Waiting(f) THEN x ELSE y  BY <1>2 DEF Ending
<1>. HIDE DEF x, y
<1>. QED  BY <1>1, <1>2, <1>3, <1>4

\* A cancel that reaches the server keeps LoginInv.
LEMMA CancelLogin ==
  ASSUME LoginInv, ServeCancel
  PROVE  LoginInv'
<1>1. PICK f \in tells : /\ tells' = tells \ {f}
                         /\ IF flow[f].known THEN port' = Free(f) /\ flow' = [flow EXCEPT ![f] = Ending(f)]
                            ELSE UNCHANGED <<port, flow>>
  BY DEF ServeCancel
<1>2. f \in Flows  BY <1>1 DEF LoginInv, AddType
<1>0. /\ flow[f] \in FlowRec /\ FlowInv(f) /\ flow \in [Flows -> FlowRec] /\ f # NoFlow
      /\ tells \in SUBSET Flows /\ pages \in SUBSET Flows /\ saved \in SUBSET Flows /\ overwritten \in SUBSET Flows
  BY <1>2, FlowTyped
<1>3. UNCHANGED <<tab, req, pages, up, saved, overwritten, strayed>>  BY DEF ServeCancel
<1>4. CASE ~flow[f].known
  <2>1. flow[f].st # "wait" /\ UNCHANGED <<port, flow>>  BY <1>0, <1>1, <1>4 DEF FlowInv
  <2>. QED  BY <1>0, <1>1, <1>3, <2>1, SameLogins
<1>5. CASE flow[f].known
  <2>1. PICK e \in FlowRec : e = Ending(f)  BY <1>0, EndingFits
  <2>2. /\ e.who = flow[f].who /\ e.force = flow[f].force /\ e.n = flow[f].n /\ e.agreed = flow[f].agreed
        /\ e.edited = flow[f].edited /\ e.via = flow[f].via
        /\ Waiting(f) => e.st = "error"
        /\ ~Waiting(f) => e.st = flow[f].st /\ (e.cancel = "early" => flow[f].cancel = "early")
    BY <1>0, <2>1, EndingFits
  <2>3. flow' = [flow EXCEPT ![f] = e] /\ flow'[f] = e /\ port' = (IF port = f THEN NoFlow ELSE port)
    BY <1>0, <1>1, <1>5, <2>1 DEF Free
  <2>4. FlowInv(f)'  BY <1>0, <1>3, <2>2, <2>3 DEF FlowInv, Waiting, Asked
  <2>5. /\ e.st = flow[f].st \/ (flow[f].st # "new" /\ e.st \notin {"new", "starting", "wait"})
        /\ e.st # "wait"
    BY <2>2 DEF Waiting
  <2>6. \A g \in Flows \ {f} : (port' = g <=> port = g)  BY <2>3, AddAssumption
  <2>. QED  BY <1>0, <1>1, <1>2, <1>3, <2>3, <2>4, <2>5, <2>6, OneFlow
<1>. QED  BY <1>4, <1>5

\* The end of the console's process keeps LoginInv.
LEMMA ClosesLogin ==
  ASSUME LoginInv, Closes
  PROVE  LoginInv'
<1>1. /\ UNCHANGED <<tab, req, tells, flow, port, pages, saved, overwritten, strayed>>
      /\ up = "closing" /\ up' = "closed" /\ Over
  BY DEF Closes, Over
<1>2. AddType' /\ Onward  BY <1>1 DEF LoginInv, AddType, Onward, Begun
<1>3. ASSUME NEW f \in Flows PROVE FlowInv(f)'
  <2>1. FlowInv(f)  BY DEF LoginInv
  <2>. QED  BY <1>1, <2>1 DEF FlowInv, Waiting, Asked
<1>. QED  BY <1>1, <1>2, <1>3, OnlyFlows

\* So does its shutdown, which ends the logins that wait.
LEMMA QuitLogin ==
  ASSUME LoginInv, NEW s \in Slots, Quit(s)
  PROVE  LoginInv'
<1>a. At(s, "sent", "quit") /\ Answer(s, "ok")
      /\ UNCHANGED <<tab, tells, pages, saved, overwritten, strayed>>
  BY DEF Quit
<1>1. CASE up # "up"
  <2>1. UNCHANGED <<tab, pageVars>>  BY <1>1, <1>a DEF Quit, pageVars
  <2>. QED  BY <1>a, <2>1, GoesAnswers DEF At, ActDo, Outs
<1>2. CASE up = "up"
  <2>0. /\ s[1] \in Actors /\ s = Act(s[1]) /\ s[2] = "act" /\ AddType /\ req[s] \in ReqRec
    BY <1>a, ActSlot DEF At, ActDo, LoginInv
  <2>1. up' = "closing" /\ flow' = Cancelled
        /\ port' = IF port # NoFlow /\ Cancelled[port].st = "error" THEN NoFlow ELSE port
    BY <1>2 DEF Quit
  <2>2. \A x \in Slots : req'[x] = IF x = s THEN [req[s] EXCEPT !.pc = "answered", !.out = "ok"] ELSE req[x]
    BY <1>a, <2>0 DEF Answer, SetReq, AddType
  <2>r. [req[s] EXCEPT !.pc = "answered", !.out = "ok"] \in ReqRec
        /\ [req[s] EXCEPT !.pc = "answered", !.out = "ok"].do = req[s].do
        /\ [req[s] EXCEPT !.pc = "answered", !.out = "ok"].pc = "answered"
        /\ [req[s] EXCEPT !.pc = "answered", !.out = "ok"].n = req[s].n
    BY <2>0 DEF ReqRec
  <2>3. ASSUME NEW f \in Flows
        PROVE  /\ flow'[f] \in FlowRec /\ FlowInv(f)' /\ flow'[f].st # "wait"
               /\ flow'[f].st = "starting" => flow[f].st = "starting"
               /\ flow[f].st # "new" => flow'[f].st # "new"
               /\ Begun(f) => Begun(f)'
    <3>0. flow[f] \in FlowRec /\ FlowInv(f) /\ f # NoFlow  BY FlowTyped
    <3>1. flow'[f] = IF flow[f].known THEN [Ending(f) EXCEPT !.known = FALSE] ELSE flow[f]
      BY <2>1 DEF Cancelled
    <3>2. PICK e \in FlowRec : e = Ending(f)  BY <3>0, EndingFits
    <3>3. /\ e.who = flow[f].who /\ e.force = flow[f].force /\ e.n = flow[f].n /\ e.agreed = flow[f].agreed
          /\ e.edited = flow[f].edited /\ e.via = flow[f].via
          /\ Waiting(f) => e.st = "error"
          /\ ~Waiting(f) => e.st = flow[f].st /\ (e.cancel = "early" => flow[f].cancel = "early")
      BY <3>0, <3>2, EndingFits
    <3>4. PICK d \in FlowRec : d = [e EXCEPT !.known = FALSE]  BY DEF FlowRec
    <3>5. /\ d.who = e.who /\ d.force = e.force /\ d.n = e.n /\ d.agreed = e.agreed
          /\ d.edited = e.edited /\ d.via = e.via /\ d.st = e.st /\ d.cancel = e.cancel
      BY <3>4 DEF FlowRec
    <3>6. flow'[f] = IF flow[f].known THEN d ELSE flow[f]  BY <3>1, <3>2, <3>4
    <3>7. port' = f <=> port = f /\ flow'[f].st # "error"
      BY <2>1, <3>0, AddAssumption
    <3>8. CASE flow[f].known
      <4>1. flow'[f] = d  BY <3>6, <3>8
      <4>2. FlowInv(f)'  BY <1>a, <3>0, <3>3, <3>5, <3>7, <4>1 DEF FlowInv, Waiting, Asked
      <4>. QED  BY <3>3, <3>5, <4>1, <4>2 DEF Waiting, Begun
    <3>9. CASE ~flow[f].known
      <4>1. flow'[f] = flow[f] /\ flow[f].st # "wait"  BY <3>0, <3>6, <3>9 DEF FlowInv
      <4>2. FlowInv(f)'  BY <1>a, <3>0, <3>7, <4>1 DEF FlowInv, Waiting, Asked
      <4>. QED  BY <3>0, <4>1, <4>2 DEF Begun
    <3>. QED  BY <3>8, <3>9
  <2>4. Onward  BY <1>2, <2>1, <2>3 DEF Onward
  <2>5. AddType'
    <3>1. flow' \in [Flows -> FlowRec]  BY <2>1, <2>3 DEF Cancelled
    <3>2. req' \in [Slots -> ReqRec]
      <4>1. PICK q \in ReqRec : q = [req[s] EXCEPT !.pc = "answered", !.out = "ok"]  BY <2>r
      <4>2. req' = [req EXCEPT ![s] = q]  BY <1>a, <4>1 DEF Answer, SetReq
      <4>. QED  BY <2>0, <4>2 DEF AddType
    <3>3. port' \in FlowOrNone  BY <2>0, <2>1 DEF AddType, FlowOrNone
    <3>. QED  BY <1>a, <2>0, <2>1, <3>1, <3>2, <3>3 DEF AddType
  <2>6. \A x \in Slots : Kind(x, req'[x])
    <3>1. Kind(s, req[s])  BY DEF LoginInv, Kinds
    <3>2. Kind(s, req'[s])
      <4>1. PICK q \in ReqRec : q = [req[s] EXCEPT !.pc = "answered", !.out = "ok"]  BY <2>r
      <4>2. q.do = req[s].do /\ q.n = req[s].n /\ q.pc = "answered"  BY <2>r, <4>1
      <4>3. req'[s] = q  BY <2>2, <4>1
      <4>. QED  BY <1>a, <2>0, <3>1, <4>2, <4>3 DEF Kind, At
    <3>. QED  BY <2>2, <3>2 DEF LoginInv, Kinds
  <2>7. \A x \in Slots : x[1] # s[1] => req'[x] = req[x]  BY <2>2
  <2>s. \A u \in Tabs : <<u, "add">> \in Slots /\ <<u, "add">>[2] = "add"  BY SlotFacts
  <2>8. \A u \in Tabs : req'[<<u, "add">>] = req[<<u, "add">>]
    BY <2>0, <2>2, <2>s
  <2>9. ASSUME NEW u \in Tabs PROVE PageInv(u)'
    <3>1. \A x \in Polls(u) : req'[x] = req[x]  BY <2>0, <2>2, SlotFacts
    <3>2. tab'[u] = tab[u]  BY <1>a
    <3>. QED  BY <2>4, <2>8, <3>1, <3>2, PageKept
  <2>10. ASSUME NEW f \in Flows, flow'[f].st = "starting" PROVE StartedBy(f)'
    <3>1. StartedBy(f)  BY <2>3, <2>10 DEF LoginInv
    <3>. QED  BY <3>1, <2>8 DEF StartedBy
  <2>11. PICK t \in Actors : t = s[1]  BY <2>0
  <2>12. \A u \in Actors \ {t} : tab'[u] = tab[u]  BY <1>a
  <2>. QED  BY <2>1, <2>3, <2>4, <2>5, <2>6, <2>7, <2>9, <2>10, <2>11, <2>12, LoginStep
<1>. QED  BY <1>1, <1>2

\* A poll of a login keeps LoginInv.
LEMMA PollLogin ==
  ASSUME LoginInv, NEW t \in Tabs, Poll(t)
  PROVE  LoginInv'
<1>0. t \in Actors /\ AddType /\ PageInv(t) /\ tab[t] \in PageRec /\ <<t, "add">> \in Slots
      /\ <<t, "add">>[2] = "add"
  BY TabTyped, SlotFacts
<1>. DEFINE f == tab[t].flow
<1>1. Begun(f) /\ f \in Flows  BY <1>0 DEF Poll, PageInv, Begun
<1>2. flow[f] \in FlowRec /\ FlowInv(f) /\ f # NoFlow /\ flow \in [Flows -> FlowRec]  BY <1>1, FlowTyped
<1>3. PICK s \in Polls(t) :
        SetReq(s, [NoReq EXCEPT !.do = "poll", !.f = f, !.pc = "answered", !.out = Status(f)])
  BY DEF Poll
<1>4. /\ flow' = IF up = "up" THEN [flow EXCEPT ![f].known = @ /\ Underway(f)] ELSE flow
      /\ UNCHANGED <<tab, tells, port, pages, up, saved, overwritten, strayed>>
  BY DEF Poll
<1>5. s \in Slots /\ s[1] = t /\ s[2] \in {"poll1", "poll2"}  BY <1>3, SlotFacts
<1>6. PICK o \in {"unreachable", "missing", "pending", "done", "error"} :
        /\ o = Status(f)
        /\ o = "unreachable" => up # "up"
        /\ o \in {"missing", "done", "error"} => port # f
  <2>1. flow[f].st \in {"wait", "exchange", "save", "sync", "done", "error"}  BY <1>1, <1>2 DEF Begun, FlowRec
  <2>2. port = f <=> flow[f].st = "wait"  BY <1>2, <2>1 DEF FlowInv, Waiting
  <2>3. flow[f].st = "wait" => flow[f].known  BY <1>2 DEF FlowInv
  <2>4. CASE up # "up"  BY <2>4 DEF Status
  <2>5. CASE up = "up" /\ ~flow[f].known  BY <2>2, <2>3, <2>5 DEF Status
  <2>6. CASE up = "up" /\ flow[f].known /\ Underway(f)  BY <2>6 DEF Status
  <2>7. CASE up = "up" /\ flow[f].known /\ ~Underway(f)
    <3>1. Status(f) = flow[f].st /\ flow[f].st \in {"done", "error"}  BY <2>1, <2>7 DEF Status, Underway
    <3>. QED  BY <2>2, <3>1
  <2>. QED  BY <2>4, <2>5, <2>6, <2>7
<1>7. PICK r \in ReqRec : /\ req' = [req EXCEPT ![s] = r]
                          /\ r.do = "poll" /\ r.f = f /\ r.pc = "answered" /\ r.out = o
  <2>. DEFINE x == [NoReq EXCEPT !.do = "poll", !.f = f, !.pc = "answered", !.out = o]
  <2>1. x \in ReqRec /\ x.do = "poll" /\ x.f = f /\ x.pc = "answered" /\ x.out = o
    BY <1>1, NoReqTyped DEF ReqRec, FlowOrNone
  <2>2. req' = [req EXCEPT ![s] = x]  BY <1>3, <1>6 DEF SetReq
  <2>. HIDE DEF x
  <2>. QED  BY <2>1, <2>2
<1>8. PICK e \in FlowRec :
        /\ flow' = [flow EXCEPT ![f] = e]
        /\ e.st = flow[f].st /\ e.who = flow[f].who /\ e.force = flow[f].force /\ e.n = flow[f].n
        /\ e.agreed = flow[f].agreed /\ e.edited = flow[f].edited /\ e.via = flow[f].via
        /\ e.cancel = flow[f].cancel /\ e.late = flow[f].late
        /\ flow[f].st = "wait" => e.known
  <2>1. PICK k \in BOOLEAN : k <=> flow[f].known /\ Underway(f)  OBVIOUS
  <2>. DEFINE x == [flow[f] EXCEPT !.known = k]
  <2>2. /\ x \in FlowRec
        /\ x.st = flow[f].st /\ x.who = flow[f].who /\ x.force = flow[f].force /\ x.n = flow[f].n
        /\ x.agreed = flow[f].agreed /\ x.edited = flow[f].edited /\ x.via = flow[f].via
        /\ x.cancel = flow[f].cancel /\ x.late = flow[f].late /\ x.known = k
    BY <1>2 DEF FlowRec
  <2>3. flow[f].st = "wait" => flow[f].known /\ Underway(f)  BY <1>2 DEF FlowInv, Underway
  <2>4. flow' = [flow EXCEPT ![f] = x] \/ flow' = [flow EXCEPT ![f] = flow[f]]
    <3>1. CASE up = "up"
      <4>1. [flow EXCEPT ![f].known = flow[f].known /\ Underway(f)] = [flow EXCEPT ![f] = x]  BY <2>1
      <4>. QED  BY <1>4, <3>1, <4>1
    <3>2. CASE up # "up"
      <4>1. flow = [flow EXCEPT ![f] = flow[f]]  BY <1>1, <1>2
      <4>. QED  BY <1>4, <3>2, <4>1
    <3>. QED  BY <3>1, <3>2
  <2>. HIDE DEF x
  <2>. QED  BY <1>2, <2>1, <2>2, <2>3, <2>4
<1>9. \A g \in Flows : flow'[g] = IF g = f THEN e ELSE flow[g]  BY <1>2, <1>8
<1>10. \A x \in Slots : req'[x] = IF x = s THEN r ELSE req[x]  BY <1>0, <1>7 DEF AddType
<1>11. AddType'  BY <1>0, <1>1, <1>4, <1>5, <1>7, <1>8 DEF AddType
<1>12. Onward  BY <1>4, <1>8, <1>9 DEF Onward, Begun
<1>13. \A x \in Slots : Kind(x, req'[x])
  <2>1. Kind(s, r)  BY <1>5, <1>7 DEF Kind
  <2>. QED  BY <1>10, <2>1 DEF LoginInv, Kinds
<1>14. \A x \in Slots : x[1] # t => req'[x] = req[x]  BY <1>5, <1>10
<1>15. up' = "closed" => Over'  BY <1>4, <1>7, <1>10 DEF LoginInv, Kinds, Over
<1>16. req'[<<t, "add">>] = req[<<t, "add">>]  BY <1>0, <1>5, <1>10
<1>17. PageInv(t)'
  <2>1. \A g : Begun(g) => Begun(g)'  BY <1>12 DEF Onward, Begun
  <2>2. ASSUME NEW x \in Polls(t) PROVE PollLinks(req[x])'
    <3>1. x \in Slots /\ PollLinks(req[x])  BY <1>0, SlotFacts DEF PageInv
    <3>2. CASE x # s
      <4>1. req'[x] = req[x]  BY <1>10, <3>1, <3>2
      <4>. QED  BY <1>4, <2>1, <3>1, <4>1 DEF PollLinks, Begun
    <3>3. CASE x = s
      <4>1. req'[x] = r  BY <1>10, <3>1, <3>3
      <4>2. Begun(f)'  BY <1>1, <1>8, <1>9, <1>4 DEF Begun
      <4>. QED  BY <1>4, <1>6, <1>7, <4>1, <4>2 DEF PollLinks, Begun
    <3>. QED  BY <3>2, <3>3
  <2>3. Polls(t)' = Polls(t)  BY DEF Polls
  <2>4. tab'[t] = tab[t] /\ port' = port  BY <1>4
  <2>0. PICK q, p : q = req[<<t, "add">>] /\ p = tab[t]  OBVIOUS
  <2>5. PageAsked(p, q)' /\ AddLinks(p, q)'
    <3>1. PageAsked(p, q) /\ AddLinks(p, q)  BY <1>0, <2>0 DEF PageInv
    <3>. QED  BY <2>1, <2>4, <3>1, <1>9, <1>8 DEF PageAsked, AddLinks, Asked, Begun
  <2>6. tab[t].flow # NoFlow => Begun(tab[t].flow)'  BY <1>1, <1>4, <1>8, <1>9 DEF Begun
  <2>. QED  BY <1>0, <1>16, <2>0, <2>2, <2>3, <2>4, <2>5, <2>6 DEF PageInv, PageAsked, AddLinks, Asked, Begun
<1>18. ASSUME NEW g \in Flows PROVE FlowInv(g)'
  <2>1. FlowInv(g)  BY FlowTyped
  <2>2. CASE g = f
    <3>1. flow'[g] = e  BY <1>9, <2>2
    <3>. QED  BY <1>4, <1>8, <2>1, <2>2, <3>1 DEF FlowInv, Waiting, Asked
  <2>3. CASE g # f
    <3>1. flow'[g] = flow[g]  BY <1>9, <2>3
    <3>. QED  BY <1>4, <2>1, <3>1 DEF FlowInv, Waiting, Asked
  <2>. QED  BY <2>2, <2>3
<1>s. \A u \in Tabs : req'[<<u, "add">>] = req[<<u, "add">>]  BY <1>5, <1>10, SlotFacts
<1>19. \A g \in Flows : flow'[g].st = flow[g].st  BY <1>8, <1>9
<1>20. ASSUME NEW g \in Flows, flow'[g].st = "starting" PROVE StartedBy(g)'
  <2>1. StartedBy(g)  BY <1>19, <1>20 DEF LoginInv
  <2>. QED  BY <2>1, <1>s DEF StartedBy
<1>21. ASSUME NEW g \in Flows, flow'[g].st = "wait", up' = "up" PROVE Watched(g)'
  <2>1. Watched(g)  BY <1>4, <1>19, <1>21 DEF LoginInv
  <2>. QED  BY <2>1, <1>s, <1>4 DEF Watched
<1>. QED  BY <1>0, <1>4, <1>11, <1>12, <1>13, <1>14, <1>15, <1>17, <1>18, <1>20, <1>21, LoginStep

\* The server takes a login's request: an answer, or a listener that starts.
LEMMA AddSlot ==
  ASSUME LoginInv, NEW s \in Slots, req[s].pc = "started" \/ (req[s].pc = "sent" /\ req[s].do = "add")
  PROVE  \E t \in Tabs : /\ s = <<t, "add">> /\ req[s].do = "add" /\ req[s].who \in Who /\ req[s] \in ReqRec
                        /\ up # "closed"
<1>1. Kind(s, req[s]) /\ req[s] \in ReqRec  BY DEF LoginInv, Kinds, AddType
<1>2. s[2] = "add" /\ req[s].do = "add" /\ req[s].who \in Who
  <2>1. s[2] \in {"act", "add", "poll1", "poll2"}  BY SlotFacts
  <2>. QED  BY <1>1, <2>1 DEF Kind, ActDo
<1>3. s[1] \in Tabs /\ s = <<s[1], "add">>  BY <1>2, SlotFacts
<1>4. up # "closed"  BY DEF LoginInv, Kinds, Over
<1>. QED  BY <1>1, <1>2, <1>3, <1>4

\* The server's first look at a login's request keeps LoginInv.
LEMMA ServeAddLogin ==
  ASSUME LoginInv, NEW s \in Slots, ServeAdd(s)
  PROVE  LoginInv'
<1>1. PICK t \in Tabs : /\ s = <<t, "add">> /\ req[s].do = "add" /\ req[s].who \in Who /\ req[s] \in ReqRec
                       /\ up # "closed"
  BY AddSlot DEF ServeAdd
<1>2. /\ t \in Actors /\ AddType /\ PageInv(t) /\ tab[t] \in PageRec /\ req[<<t, "add">>] \in ReqRec
      /\ <<t, "add">> \in Slots
  BY TabTyped
<1>o. PICK o : o = req[s]  OBVIOUS
<1>3. /\ o \in ReqRec /\ o.pc = "sent" /\ o.do = "add" /\ o.who \in Who /\ o.f = NoFlow
      /\ PageAsked(tab[t], o) /\ AddLinks(tab[t], o)
      /\ tab[t].flow # NoFlow => Begun(tab[t].flow)
      /\ tab[t].polling <=> tab[t].flow # NoFlow
  BY <1>1, <1>2, <1>o DEF ServeAdd, PageInv, AddLinks
<1>4. UNCHANGED <<tab, tells, pages, up, saved, overwritten, strayed>>  BY DEF ServeAdd
<1>5. ASSUME NEW a \in {"confirm", "failed"}, Answer(s, a), UNCHANGED <<flow, port>> PROVE LoginInv'
  <2>1. PICK r \in ReqRec : r = [o EXCEPT !.pc = "answered", !.out = a]  BY <1>3 DEF ReqRec
  <2>2. /\ r.pc = "answered" /\ r.out = a /\ r.do = o.do /\ r.n = o.n /\ r.f = o.f /\ r.who = o.who
        /\ r.force = o.force /\ r.agreed = o.agreed /\ r.edited = o.edited
    BY <1>3, <2>1 DEF ReqRec
  <2>3. req' = [req EXCEPT ![<<t, "add">>] = r]  BY <1>1, <1>5, <1>o, <2>1 DEF Answer, SetReq
  <2>4. tab' = [tab EXCEPT ![t] = tab[t]] /\ pages' \in SUBSET Flows  BY <1>2, <1>4 DEF AddType
  <2>5. PageAsked(tab[t], r) /\ AddLinks(tab[t], r)  BY <1>3, <2>2 DEF PageAsked, AddLinks, Asked
  <2>6. req[<<t, "add">>].pc # "started"  BY <1>1, <1>3, <1>o
  <2>7. \A f \in Flows : (tab[t].flow = f \/ req[<<t, "add">>].f = f) /\ flow[f].st = "wait" /\ up = "up"
                            => tab[t].flow = f \/ r.f = f
    BY <1>1, <1>o, <2>2
  <2>8. UNCHANGED <<tells, flow, port, up, saved, overwritten, strayed>>  BY <1>4, <1>5
  <2>9. r.pc # "idle" => r.do = "add" /\ r.pc \in {"sent", "started", "answered"} /\ r.who \in Who
    BY <1>3, <2>2
  <2>10. up = "closed" => r.pc \in {"idle", "answered"}  BY <2>2
  <2>. QED  BY <1>2, <1>3, <2>3, <2>4, <2>5, <2>6, <2>7, <2>8, <2>9, <2>10, OnlyDialog
<1>6. ASSUME NEW f \in Unused, port = NoFlow, port' = f,
             flow' = [flow EXCEPT ![f] = [@ EXCEPT !.st = "starting", !.n = req[s].n, !.who = req[s].who,
                              !.force = req[s].force, !.agreed = req[s].agreed, !.edited = req[s].edited]],
             SetReq(s, [req[s] EXCEPT !.pc = "started", !.f = f])
      PROVE  LoginInv'
  <2>1. f \in Flows /\ flow[f].st = "new"  BY <1>6 DEF Unused
  <2>2. flow[f] \in FlowRec /\ FlowInv(f) /\ f # NoFlow /\ flow \in [Flows -> FlowRec]  BY <2>1, FlowTyped
  <2>3. PICK e \in FlowRec : e = [flow[f] EXCEPT !.st = "starting", !.n = o.n, !.who = o.who,
                              !.force = o.force, !.agreed = o.agreed, !.edited = o.edited]
    BY <1>3, <2>2 DEF ReqRec, FlowRec
  <2>4. /\ e.st = "starting" /\ e.n = o.n /\ e.who = o.who /\ e.force = o.force /\ e.agreed = o.agreed
        /\ e.edited = o.edited /\ e.cancel = flow[f].cancel
    BY <2>2, <2>3 DEF FlowRec
  <2>5. flow' = [flow EXCEPT ![f] = e]  BY <1>6, <1>o, <2>3
  <2>6. \A g \in Flows : flow'[g] = IF g = f THEN e ELSE flow[g]  BY <2>2, <2>5
  <2>7. PICK r \in ReqRec : r = [o EXCEPT !.pc = "started", !.f = f]  BY <1>3, <2>1 DEF ReqRec, FlowOrNone
  <2>8. /\ r.pc = "started" /\ r.do = o.do /\ r.n = o.n /\ r.f = f /\ r.who = o.who
        /\ r.force = o.force /\ r.agreed = o.agreed /\ r.edited = o.edited
    BY <1>3, <2>7 DEF ReqRec
  <2>9. req' = [req EXCEPT ![<<t, "add">>] = r]  BY <1>1, <1>6, <1>o, <2>7 DEF SetReq
  <2>10. \A x \in Slots : req'[x] = IF x = <<t, "add">> THEN r ELSE req[x]  BY <1>2, <2>9 DEF AddType
  <2>11. AddType'  BY <1>2, <1>4, <1>6, <2>1, <2>5, <2>9 DEF AddType, FlowOrNone
  <2>12. Onward  BY <1>4, <1>6, <2>1, <2>4, <2>6 DEF Onward, Begun
  <2>13. \A g \in Flows : ~Waiting(g)
    <3>1. ASSUME NEW g \in Flows PROVE ~Waiting(g)
      BY <1>6, FlowTyped DEF FlowInv
    <3>. QED  BY <3>1
  <2>14. ASSUME NEW g \in Flows PROVE FlowInv(g)'
    <3>1. FlowInv(g)  BY FlowTyped
    <3>2. CASE g = f
      <4>1. flow'[g] = e  BY <2>6, <3>2
      <4>2. o.force => Asked(o)  BY <1>3 DEF PageAsked
      <4>. QED  BY <1>3, <1>4, <1>6, <2>1, <2>4, <3>1, <3>2, <4>1, <4>2 DEF FlowInv, Waiting, Asked
    <3>3. CASE g # f
      <4>1. flow'[g] = flow[g] /\ ~Waiting(g)  BY <2>6, <2>13, <3>3
      <4>. QED  BY <1>4, <1>6, <3>1, <3>3, <4>1 DEF FlowInv, Waiting, Asked
    <3>. QED  BY <3>2, <3>3
  <2>15. PageInv(t)'
    <3>1. tab'[t] = tab[t] /\ req'[<<t, "add">>] = r /\ \A x \in Polls(t) : req'[x] = req[x]
      BY <1>2, <1>4, <2>10, SlotFacts
    <3>2. ASSUME NEW g, Begun(g) PROVE Begun(g)' /\ g # f
      BY <2>1, <2>12, <3>2 DEF Onward, Begun
    <3>0. PICK p : p = tab[t]  OBVIOUS
    <3>3. PageAsked(p, r)'  BY <1>3, <2>8, <3>0 DEF PageAsked, Asked
    <3>4. p.flow # f  BY <1>3, <2>2, <3>0, <3>2
    <3>5. AddLinks(p, r)'
      <4>1. flow'[f].st = "starting"  BY <2>1, <2>4, <2>6
      <4>. QED  BY <1>6, <2>1, <2>8, <3>4, <4>1 DEF AddLinks
    <3>6. tab[t].flow # NoFlow => Begun(tab[t].flow)'  BY <1>3, <1>4, <3>2 DEF Begun
    <3>7. Polls(t)' = Polls(t)  BY DEF Polls
    <3>8. ASSUME NEW x \in Polls(t) PROVE PollLinks(req[x])'
      <4>1. PICK q : q = req[x]  OBVIOUS
      <4>2. PollLinks(q) /\ req'[x] = q  BY <1>2, <3>1, <4>1 DEF PageInv
      <4>3. PollLinks(q)'  BY <1>4, <1>6, <3>2, <4>2 DEF PollLinks
      <4>. QED  BY <4>2, <4>3 DEF PollLinks, Begun
    <3>. QED  BY <1>3, <3>0, <3>1, <3>3, <3>5, <3>6, <3>7, <3>8 DEF PageInv, PageAsked, AddLinks, Begun, Asked
  <2>16. ASSUME NEW g \in Flows, flow'[g].st = "starting" PROVE StartedBy(g)'
    <3>1. g = f  BY <2>6, <2>13, <2>16 DEF Waiting
    <3>. QED  BY <1>2, <2>8, <2>10, <3>1 DEF StartedBy
  <2>17. \A g \in Flows : flow'[g].st # "wait"  BY <2>4, <2>6, <2>13 DEF Waiting
  <2>18. \A x \in Slots : x[1] # t => req'[x] = req[x]  BY <1>2, <2>10, SlotFacts
  <2>19. \A x \in Slots : Kind(x, req'[x])
    <3>1. Kind(<<t, "add">>, r)  BY <1>3, <2>8 DEF Kind
    <3>. QED  BY <2>10, <3>1 DEF LoginInv, Kinds
  <2>20. \A y \in Actors \ {t} : tab'[y] = tab[y]  BY <1>4
  <2>21. up' # "closed"  BY <1>1, <1>4
  <2>. QED  BY <1>2, <2>11, <2>12, <2>14, <2>15, <2>16, <2>17, <2>18, <2>19, <2>20, <2>21, LoginStep
<1>. QED  BY <1>5, <1>6 DEF ServeAdd

\* So does its answer when the listener has started.
LEMMA ServeStartedLogin ==
  ASSUME LoginInv, NEW s \in Slots, ServeStarted(s)
  PROVE  LoginInv'
<1>1. PICK t \in Tabs : /\ s = <<t, "add">> /\ req[s].do = "add" /\ req[s].who \in Who /\ req[s] \in ReqRec
                       /\ up # "closed"
  BY AddSlot DEF ServeStarted
<1>2. /\ t \in Actors /\ AddType /\ PageInv(t) /\ tab[t] \in PageRec /\ req[<<t, "add">>] \in ReqRec
      /\ <<t, "add">> \in Slots
  BY TabTyped
<1>o. PICK o : o = req[s]  OBVIOUS
<1>f. PICK f : f = o.f  OBVIOUS
<1>3. /\ o \in ReqRec /\ o.pc = "started" /\ o.do = "add" /\ o.who \in Who /\ f \in Flows /\ flow[f].st # "new"
      /\ PageAsked(tab[t], o) /\ AddLinks(tab[t], o)
      /\ tab[t].flow # NoFlow => Begun(tab[t].flow)
      /\ tab[t].polling <=> tab[t].flow # NoFlow
  BY <1>1, <1>2, <1>o, <1>f DEF ServeStarted, PageInv, AddLinks
<1>4. UNCHANGED <<tab, tells, port, pages, up, saved, overwritten, strayed>>  BY DEF ServeStarted
<1>5. flow[f] \in FlowRec /\ FlowInv(f) /\ f # NoFlow /\ flow \in [Flows -> FlowRec]  BY <1>3, FlowTyped
<1>c. PICK c \in {"wait", "exchange", "save", "sync", "done", "error"} :
        c = IF flow[f].st = "starting" THEN "wait" ELSE flow[f].st
  BY <1>3, <1>5 DEF FlowRec
<1>l. PICK l \in BOOLEAN : l <=> up # "up"  OBVIOUS
<1>6. PICK e \in FlowRec : e = [flow[f] EXCEPT !.known = TRUE, !.late = l, !.st = c]
  BY <1>5 DEF FlowRec
<1>7. /\ e.st = c /\ e.known = TRUE /\ e.late = l /\ e.n = flow[f].n /\ e.who = flow[f].who
      /\ e.force = flow[f].force /\ e.agreed = flow[f].agreed /\ e.edited = flow[f].edited
      /\ e.via = flow[f].via /\ e.cancel = flow[f].cancel
  BY <1>5, <1>6 DEF FlowRec
<1>8. flow' = [flow EXCEPT ![f] = e]
  <2>1. flow' = [flow EXCEPT ![f] = [@ EXCEPT !.known = TRUE, !.late = (up # "up"),
                                     !.st = IF flow[f].st = "starting" THEN "wait" ELSE flow[f].st]]
    BY <1>o, <1>f DEF ServeStarted
  <2>2. (up # "up") = l  BY <1>l
  <2>. QED  BY <1>c, <1>6, <2>1, <2>2
<1>9. \A g \in Flows : flow'[g] = IF g = f THEN e ELSE flow[g]  BY <1>5, <1>8
<1>10. PICK r \in ReqRec : r = [o EXCEPT !.pc = "answered", !.out = "pending"]  BY <1>3 DEF ReqRec
<1>11. /\ r.pc = "answered" /\ r.out = "pending" /\ r.do = o.do /\ r.n = o.n /\ r.f = f /\ r.who = o.who
       /\ r.force = o.force /\ r.agreed = o.agreed /\ r.edited = o.edited
  BY <1>3, <1>f, <1>10 DEF ReqRec
<1>12. req' = [req EXCEPT ![<<t, "add">>] = r]  BY <1>1, <1>o, <1>10 DEF ServeStarted, Answer, SetReq
<1>13. \A x \in Slots : req'[x] = IF x = <<t, "add">> THEN r ELSE req[x]  BY <1>2, <1>12 DEF AddType
<1>14. AddType'  BY <1>2, <1>4, <1>8, <1>12, <1>3 DEF AddType
<1>15. Onward  BY <1>4, <1>3, <1>c, <1>7, <1>9 DEF Onward, Begun
<1>16. ASSUME NEW g \in Flows PROVE FlowInv(g)'
  <2>1. FlowInv(g)  BY FlowTyped
  <2>2. CASE g = f
    <3>1. flow'[g] = e  BY <1>9, <2>2
    <3>2. Waiting(g)' <=> Waiting(g)  BY <1>c, <1>7, <2>2, <3>1 DEF Waiting
    <3>3. c = "wait" \/ c = flow[f].st  BY <1>c
    <3>4. flow[f].st = "starting" => c = "wait"  BY <1>c
    <3>. QED  BY <1>3, <1>4, <1>l, <1>7, <2>1, <2>2, <3>1, <3>2, <3>3, <3>4 DEF FlowInv, Asked, Waiting
  <2>3. CASE g # f
    <3>1. flow'[g] = flow[g]  BY <1>9, <2>3
    <3>. QED  BY <1>4, <2>1, <3>1 DEF FlowInv, Waiting, Asked
  <2>. QED  BY <2>2, <2>3
<1>17. PageInv(t)'
  <2>1. tab'[t] = tab[t] /\ req'[<<t, "add">>] = r /\ \A x \in Polls(t) : req'[x] = req[x]
    BY <1>2, <1>4, <1>13, SlotFacts
  <2>2. ASSUME NEW g, Begun(g) PROVE Begun(g)'
    BY <1>15, <2>2 DEF Onward, Begun
  <2>3. Begun(f)'  BY <1>3, <1>c, <1>7, <1>9 DEF Begun
  <2>0. PICK p : p = tab[t]  OBVIOUS
  <2>4. PageAsked(p, r)'  BY <1>3, <1>11, <2>0 DEF PageAsked, Asked
  <2>5. AddLinks(p, r)'
    <3>1. p.flow # port \/ port = NoFlow  BY <1>3, <1>5, <1>f, <2>0 DEF AddLinks
    <3>. QED  BY <1>4, <1>11, <2>3, <3>1 DEF AddLinks
  <2>6. tab[t].flow # NoFlow => Begun(tab[t].flow)'  BY <1>3, <1>4, <2>2 DEF Begun
  <2>7. Polls(t)' = Polls(t)  BY DEF Polls
  <2>8. ASSUME NEW x \in Polls(t) PROVE PollLinks(req[x])'
    <3>1. PICK q : q = req[x]  OBVIOUS
    <3>2. PollLinks(q) /\ req'[x] = q  BY <1>2, <2>1, <3>1 DEF PageInv
    <3>3. PollLinks(q)'  BY <1>4, <2>2, <3>2 DEF PollLinks
    <3>. QED  BY <3>2, <3>3 DEF PollLinks, Begun
  <2>. QED  BY <1>3, <2>0, <2>1, <2>4, <2>5, <2>6, <2>7, <2>8 DEF PageInv, PageAsked, AddLinks, Begun, Asked
<1>18. ASSUME NEW g \in Flows, flow'[g].st = "starting" PROVE StartedBy(g)'
  <2>1. g # f /\ flow[g].st = "starting"  BY <1>7, <1>9, <1>18
  <2>2. PICK y \in Tabs : req[<<y, "add">>].pc = "started" /\ req[<<y, "add">>].f = g
    BY <2>1 DEF LoginInv, StartedBy
  <2>3. <<y, "add">> \in Slots /\ <<y, "add">> # <<t, "add">>  BY <1>1, <1>o, <1>f, <2>1, <2>2, SlotFacts
  <2>. QED  BY <1>13, <2>2, <2>3 DEF StartedBy
<1>19. ASSUME NEW g \in Flows, flow'[g].st = "wait", up' = "up" PROVE Watched(g)'
  <2>1. CASE g = f  BY <1>2, <1>11, <1>13, <2>1 DEF Watched
  <2>2. CASE g # f
    <3>1. Watched(g)  BY <1>4, <1>9, <1>19, <2>2 DEF LoginInv
    <3>2. ASSUME NEW y \in Tabs, req[<<y, "add">>].f = g PROVE req'[<<y, "add">>].f = g
      <4>1. <<y, "add">> \in Slots /\ <<y, "add">> # <<t, "add">>  BY <1>1, <1>o, <1>f, <2>2, <3>2, SlotFacts
      <4>. QED  BY <1>13, <3>2, <4>1
    <3>. QED  BY <1>4, <3>1, <3>2 DEF Watched
  <2>. QED  BY <2>1, <2>2
<1>20. \A x \in Slots : x[1] # t => req'[x] = req[x]  BY <1>2, <1>13, SlotFacts
<1>21. \A x \in Slots : Kind(x, req'[x])
  <2>1. Kind(<<t, "add">>, r)  BY <1>3, <1>11 DEF Kind
  <2>. QED  BY <1>13, <2>1 DEF LoginInv, Kinds
<1>22. \A y \in Actors \ {t} : tab'[y] = tab[y]  BY <1>4
<1>23. up' # "closed"  BY <1>1, <1>4
<1>. QED  BY <1>2, <1>14, <1>15, <1>16, <1>17, <1>18, <1>19, <1>20, <1>21, <1>22, <1>23, LoginStep

-----------------------------------------------------------------------------
\* LoginInv is an invariant.
LEMMA IdleLogin ==
  ASSUME LoginInv, UNCHANGED addVars
  PROVE  LoginInv'
<1>1. UNCHANGED <<tab, req, flow, port, up, saved, overwritten, strayed>> /\ tells' = tells /\ pages' = pages
  BY DEF addVars
<1>2. tells' \in SUBSET Flows /\ pages' \in SUBSET Flows  BY <1>1 DEF LoginInv, AddType
<1>. QED  BY <1>1, <1>2, SameLogins

\* Every step of the console keeps LoginInv.
LEMMA LoginNext ==
  ASSUME LoginInv, Step
  PROVE  LoginInv'
<1>1. CASE Operator
  <2>1. ASSUME NEW t \in Actors, Send(t) PROVE LoginInv'  BY <2>1, SendLogin
  <2>2. ASSUME NEW t \in Tabs, Adding(OpenDialog(t) \/ Submit(t) \/ EditName(t) \/ CancelDialog(t) \/ CloseTab(t))
        PROVE  LoginInv'
    BY <2>2, DialogLogin, SubmitLogin DEF Adding
  <2>3. ASSUME NEW f \in Flows, Adding(Authorize(f) \/ Decline(f)) PROVE LoginInv'
    BY <2>3, BrowserLogin DEF Adding
  <2>4. CASE OpensOwn
    <3>1. UNCHANGED addVars  BY <2>4 DEF OpensOwn, Add, addVars, pageVars
    <3>. QED  BY <3>1, IdleLogin
  <2>. QED  BY <1>1, <2>1, <2>2, <2>3, <2>4 DEF Operator
<1>2. CASE Closes  BY <1>2, ClosesLogin
<1>3. CASE Adding(ServeCancel)  BY <1>3, CancelLogin DEF Adding
<1>4. ASSUME NEW s \in Slots, SlotStep(s) PROVE LoginInv'
  <2>1. CASE Quit(s)  BY <2>1, QuitLogin
  <2>2. CASE Passing(s)  BY <2>2, IdleLogin DEF Passing
  <2>3. CASE AddStep(s)  BY <2>3, ServeAddLogin, ServeStartedLogin DEF AddStep, Adding
  <2>. QED  BY <1>4, <2>1, <2>2, <2>3, ActLogin DEF SlotStep, ActStep
<1>5. ASSUME NEW t \in Actors, PageStep(t) PROVE LoginInv'
  <2>1. CASE Use(t)  BY <2>1, UseLogin
  <2>2. CASE t \in Tabs /\ Adding(UseAdded(t) \/ Poll(t) \/ \E s \in Polls(t) : UsePoll(t, s))
    BY <2>2, UseAddedLogin, PollLogin, UsePollLogin DEF Adding
  <2>. QED  BY <1>5, <2>1, <2>2 DEF PageStep
<1>6. ASSUME NEW f \in Flows, Adding(FlowStep(f)) PROVE LoginInv'
  <2>1. CASE PassStep(f) /\ UNCHANGED addVars  BY <2>1, IdleLogin
  <2>. QED  BY <1>6, <2>1, BrowserLogin, WorkLogin DEF FlowStep, Adding
<1>7. CASE Passing(Loop)  BY <1>7, IdleLogin DEF Passing
<1>8. CASE Adding(LoopStarts /\ UNCHANGED addVars) \/ Adding(Elsewhere /\ UNCHANGED addVars)
  BY <1>8, IdleLogin DEF Adding
<1>. QED  BY <1>1, <1>2, <1>3, <1>4, <1>5, <1>6, <1>7, <1>8 DEF Step

\* LoginInv holds when the console starts.
LEMMA LoginInit ==
  ASSUME ConsoleInit
  PROVE  LoginInv
<1>1. /\ work \in Works
      /\ tab = [t \in Actors |-> NewPage(t)] /\ req = [s \in Slots |-> NoReq]
      /\ tells = {} /\ port = NoFlow /\ pages = {} /\ up = "up"
      /\ flow = [f \in Flows |-> NewFlow] /\ saved = {} /\ overwritten = {} /\ strayed = {}
  BY DEF ConsoleInit, SyncInit, AddInit
<1>2. \A t \in Actors : NewPage(t) \in PageRec
  <2>1. \A t \in Actors : work.plan[t] \in Seq(Intent)  BY <1>1, AddAssumption
  <2>. QED  BY <2>1 DEF NewPage, PageRec, NameOrNone, FlowOrNone
<1>3. NewFlow \in FlowRec  BY DEF NewFlow, FlowRec, NameOrNone, FlowOrNone
<1>4. NoReq \in ReqRec /\ NoReq.pc = "idle" /\ NoReq.f = NoFlow  BY NoReqTyped
<1>5. AddType  BY <1>1, <1>2, <1>3, <1>4 DEF AddType, FlowOrNone
<1>6. Kinds  BY <1>1, <1>4 DEF Kinds, Kind
<1>7. ASSUME NEW t \in Tabs PROVE PageInv(t)
  <2>1. t \in Actors /\ <<t, "add">> \in Slots /\ Polls(t) \subseteq Slots  BY SlotFacts
  <2>2. req[<<t, "add">>] = NoReq /\ \A s \in Polls(t) : req[s] = NoReq  BY <1>1, <2>1
  <2>3. tab[t].flow = NoFlow /\ tab[t].polling = FALSE /\ tab[t].open = FALSE /\ tab[t].forced = FALSE
    BY <1>1, <2>1 DEF NewPage
  <2>. QED  BY <1>4, <2>2, <2>3 DEF PageInv, PageAsked, AddLinks, PollLinks
<1>8. ASSUME NEW f \in Flows PROVE FlowInv(f) /\ flow[f].st = "new"
  <2>1. flow[f] = NewFlow /\ f # NoFlow  BY <1>1, AddAssumption
  <2>. QED  BY <1>1, <2>1 DEF FlowInv, NewFlow, Waiting
<1>. QED  BY <1>5, <1>6, <1>7, <1>8 DEF LoginInv

\* LoginInv holds in every reachable state.
LEMMA LoginSpec == Spec => []LoginInv
<1>1. ConsoleInit => LoginInv  BY LoginInit
<1>2. LoginInv /\ [Next]_vars => LoginInv'
  <2>1. ASSUME LoginInv, UNCHANGED vars PROVE LoginInv'  BY <2>1, IdleLogin DEF vars
  <2>. QED  BY <2>1, LoginNext DEF Next
<1>. QED  BY <1>1, <1>2, PTL DEF Spec

\* A login overwrites an account only when the operator was asked, or asked for it
\* (or typed the name afterwards), is completed with its own code, and saves nothing
\* once it was cancelled: AddInv, in every console.
THEOREM AddSound == Spec => []AddInv
<1>1. LoginInv => AddInv
  <2>. SUFFICES ASSUME LoginInv PROVE AddInv
    OBVIOUS
  <2>0. saved \subseteq Flows /\ overwritten \subseteq Flows  BY DEF LoginInv, AddType
  <2>1. OverwriteAgreed  BY <2>0 DEF OverwriteAgreed, LoginInv, FlowInv, Asked
  <2>2. OwnCode  BY <2>0 DEF OwnCode, LoginInv, FlowInv
  <2>3. CancelledNotSaved  BY <2>0 DEF CancelledNotSaved, LoginInv, FlowInv
  <2>. QED  BY <2>1, <2>2, <2>3 DEF AddInv
<1>. QED  BY <1>1, LoginSpec, PTL

\* Whoever has the callback port waits for its callback, every login that waits is
\* watched, and none but one that was just starting is left waiting when the console
\* has ended: PortInv.
THEOREM PortSound == Spec => []PortInv
<1>1. LoginInv => PortInv
  <2>. SUFFICES ASSUME LoginInv PROVE PortInv
    OBVIOUS
  <2>1. PortHeld  BY DEF PortHeld, LoginInv, AddType, FlowInv, FlowOrNone
  <2>2. FlowWatched
    <3>1. ASSUME NEW f \in Flows, flow[f].st = "wait" /\ up = "up" PROVE Watched(f)
      BY <3>1 DEF LoginInv
    <3>. QED  BY <3>1 DEF FlowWatched, Watched
  <2>3. QuietExit
    <3>1. ASSUME up = "closed", NEW f \in Flows, Waiting(f) PROVE flow[f].late
      <4>1. CASE flow[f].st = "starting"
        <5>1. PICK t \in Tabs : req[<<t, "add">>].pc = "started"  BY <4>1 DEF LoginInv, StartedBy
        <5>2. <<t, "add">> \in Slots /\ Over  BY <3>1, SlotFacts DEF LoginInv, Kinds
        <5>. QED  BY <5>1, <5>2 DEF Over
      <4>2. CASE flow[f].st = "wait"  BY <3>1, <4>2 DEF LoginInv, FlowInv
      <4>. QED  BY <3>1, <4>1, <4>2 DEF Waiting
    <3>. QED  BY <3>1 DEF QuietExit
  <2>. QED  BY <2>1, <2>2, <2>3 DEF PortInv
<1>. QED  BY <1>1, LoginSpec, PTL

-----------------------------------------------------------------------------
(* The accounts, the registry and the passes *)

\* A step that leaves the accounts and Desktop alone, and takes no request into an
\* operation of the server or out of one.
Early == {"idle", "sent", "started", "answered"}
EarlyReqs == \A x \in Slots : \/ req'[x] = req[x]
                              \/ /\ req[x].pc \in Early /\ req'[x].pc \in Early
                                 /\ req'[x].pc = "sent" => req'[x].out # "ok"
Quiet == UNCHANGED <<work, store, reg, cur, pass, lock, desk>> /\ left' \in LeftRec /\ EarlyReqs

\* A request that stays early is quiet.
LEMMA SetEarly ==
  ASSUME AddType, NEW s \in Slots, NEW r \in ReqRec, SetReq(s, r), req[s].pc \in Early, r.pc \in Early,
         r.pc = "sent" => r.out # "ok"
  PROVE  EarlyReqs
BY DEF AddType, SetReq, EarlyReqs

\* An early request that is answered is quiet.
LEMMA AnswerEarly ==
  ASSUME AddType, NEW s \in Slots, NEW o \in Outs, Answer(s, o), req[s].pc \in Early
  PROVE  EarlyReqs
<1>1. req[s] \in ReqRec  BY DEF AddType
<1>2. PICK r \in ReqRec : r = [req[s] EXCEPT !.pc = "answered", !.out = o]  BY <1>1 DEF ReqRec, Outs
<1>3. r.pc = "answered"  BY <1>1, <1>2 DEF ReqRec
<1>. QED  BY <1>2, <1>3, SetEarly DEF Answer, Early

\* A request that is sent is quiet.
LEMMA SentEarly ==
  ASSUME AddType, NEW s \in Slots, NEW r \in ReqRec, Sent(s, r), req[s].pc \in Early, r.out # "ok"
  PROVE  EarlyReqs
<1>1. PICK q \in ReqRec : q = SentAs(r)  BY SentTyped
<1>2. q.pc = (IF up = "up" THEN "sent" ELSE "answered") /\ (q.pc = "sent" => q.out # "ok")
  BY <1>1, SentTyped
<1>. QED  BY <1>1, <1>2, SetEarly DEF Sent, SentAs, Early

\* A click uses up one of the bound.
LEMMA ClickTyped ==
  ASSUME left \in LeftRec, left.clicks > 0, left' = [left EXCEPT !.clicks = @ - 1]
  PROVE  left' \in LeftRec
BY DEF LeftRec

\* What the operator does at the pages is quiet.
LEMMA OperatorQuiet ==
  ASSUME SyncType, LoginInv,
         \/ \E t \in Actors : Send(t) \/ Use(t)
         \/ \E t \in Tabs : Adding(OpenDialog(t) \/ Submit(t) \/ EditName(t) \/ CancelDialog(t) \/ CloseTab(t))
         \/ \E f \in Flows : Adding(Authorize(f) \/ Decline(f))
  PROVE  Quiet
<1>0. left \in LeftRec /\ AddType /\ (req' = req => EarlyReqs)  BY DEF SyncType, LoginInv, EarlyReqs
<1>n. NoReq \in ReqRec /\ NoReq.pc = "idle"  BY NoReqTyped
<1>1. ASSUME NEW t \in Actors, Send(t) PROVE Quiet
  <2>. DEFINE i == Head(tab[t].plan)
              r == [NoReq EXCEPT !.do = i.do, !.n = i.n, !.force = (t = Tray)]
  <2>1. i \in Intent /\ i.do \in ActDo  BY <1>0, <1>1, IntentTyped DEF Send, Wants, ActDo
  <2>2. r \in ReqRec /\ r.out = "none"  BY <2>1, <1>n DEF ReqRec, NoReq, NameOrNone, Intent
  <2>3. Sent(Act(t), r) /\ req[Act(t)].pc = "idle" /\ Act(t) \in Slots  BY <1>1, SlotFacts DEF Send
  <2>. HIDE DEF r
  <2>4. EarlyReqs  BY <1>0, <2>2, <2>3, SentEarly DEF Early
  <2>. QED  BY <1>0, <1>1, <2>4 DEF Quiet, Send, Sync, syncVars
<1>2. ASSUME NEW t \in Actors, Use(t) PROVE Quiet
  <2>0. Act(t) \in Slots /\ req[Act(t)] \in ReqRec /\ req[Act(t)].pc \in Early
    BY <1>0, <1>2, SlotFacts DEF AddType, Use, Early
  <2>1. CASE SetReq(Act(t), NoReq)
    <3>1. EarlyReqs  BY <1>0, <1>n, <2>0, <2>1, SetEarly DEF Early
    <3>. QED  BY <1>0, <1>2, <3>1 DEF Quiet, Use, Sync, syncVars
  <2>2. CASE Sent(Act(t), [req[Act(t)] EXCEPT !.force = TRUE, !.out = "none"])
    <3>1. PICK r \in ReqRec : r = [req[Act(t)] EXCEPT !.force = TRUE, !.out = "none"]  BY <2>0 DEF ReqRec
    <3>2. r.out = "none"  BY <2>0, <3>1 DEF ReqRec
    <3>3. EarlyReqs  BY <1>0, <2>0, <2>2, <3>1, <3>2, SentEarly
    <3>. QED  BY <1>0, <1>2, <3>3 DEF Quiet, Use, Sync, syncVars
  <2>. QED  BY <1>2, <2>1, <2>2 DEF Use
<1>3. ASSUME NEW t \in Tabs, Adding(OpenDialog(t) \/ EditName(t)) PROVE Quiet
  BY <1>0, <1>3 DEF Adding, OpenDialog, EditName, Quiet, Sync, syncVars
<1>4. ASSUME NEW t \in Tabs, Adding(CancelDialog(t) \/ CloseTab(t)) PROVE Quiet
  BY <1>0, <1>4, ClickTyped DEF Adding, CancelDialog, CloseTab, Quiet
<1>5. ASSUME NEW t \in Tabs, Adding(Submit(t)) PROVE Quiet
  <2>. DEFINE q == [NoReq EXCEPT !.do = "add", !.n = tab[t].name, !.who = tab[t].who,
                      !.force = tab[t].forced, !.agreed = tab[t].agreed, !.edited = tab[t].edited]
  <2>0. t \in Actors /\ tab[t] \in PageRec /\ <<t, "add">> \in Slots  BY TabTyped
  <2>1. q \in ReqRec /\ q.out = "none"
    <3>1. /\ tab[t].name \in NameOrNone /\ tab[t].who \in Who \cup {NoTok} /\ tab[t].forced \in BOOLEAN
          /\ tab[t].agreed \in SUBSET NameOrNone /\ tab[t].edited \in BOOLEAN
      BY <2>0 DEF PageRec
    <3>2. NoReq.out = "none"  BY DEF NoReq
    <3>. QED  BY <1>n, <3>1, <3>2 DEF ReqRec
  <2>2. Sent(<<t, "add">>, q) /\ req[<<t, "add">>].pc = "idle"  BY <1>5 DEF Adding, Submit
  <2>. HIDE DEF q
  <2>3. EarlyReqs  BY <1>0, <2>0, <2>1, <2>2, SentEarly DEF Early
  <2>. QED  BY <1>0, <1>5, <2>3 DEF Quiet, Adding, Submit, Sync, syncVars
<1>6. ASSUME NEW f \in Flows, Adding(Authorize(f)) PROVE Quiet
  BY <1>0, <1>6 DEF Adding, Authorize, Quiet, Sync, syncVars
<1>7. ASSUME NEW f \in Flows, Adding(Decline(f)) PROVE Quiet
  BY <1>0, <1>7, ClickTyped DEF Adding, Decline, Quiet
<1>. QED  BY <1>1, <1>2, <1>3, <1>4, <1>5, <1>6, <1>7 DEF Adding

\* So are the answers, the polls, and the login itself except where it saves.
LEMMA AnswersQuiet ==
  ASSUME SyncType, LoginInv,
         \/ \E t \in Tabs : Adding(UseAdded(t) \/ Poll(t) \/ \E s \in Polls(t) : UsePoll(t, s))
         \/ \E s \in Slots : AddStep(s) \/ Quit(s)
         \/ \E f \in Flows : Adding(TimesOut(f) \/ Exchange(f) \/ Settle(f))
         \/ Adding(ServeCancel) \/ Closes
  PROVE  Quiet
<1>0. left \in LeftRec /\ AddType /\ (req' = req => EarlyReqs)  BY DEF SyncType, LoginInv, EarlyReqs
<1>n. NoReq \in ReqRec /\ NoReq.pc = "idle"  BY NoReqTyped
<1>1. ASSUME NEW t \in Tabs, Adding(UseAdded(t)) PROVE Quiet
  <2>. DEFINE o == req[<<t, "add">>]
  <2>0. tab[t] \in PageRec /\ <<t, "add">> \in Slots /\ o \in ReqRec  BY TabTyped
  <2>a. o.pc = "answered" /\ Sync /\ UNCHANGED <<lock, desk>>  BY <1>1 DEF Adding, UseAdded
  <2>1. EarlyReqs
    <3>1. CASE SetReq(<<t, "add">>, NoReq)  BY <1>0, <1>n, <2>0, <2>a, <3>1, SetEarly DEF Early
    <3>2. CASE /\ Sent(<<t, "add">>, [o EXCEPT !.n = tab[t].name, !.force = TRUE, !.agreed = @ \cup {o.n}, !.edited = tab[t].edited])
               /\ o.out = "confirm"
      <4>1. /\ tab[t].name \in NameOrNone /\ tab[t].edited \in BOOLEAN /\ o.n \in NameOrNone
            /\ o.agreed \in SUBSET NameOrNone
        BY <2>0 DEF PageRec, ReqRec
      <4>2. PICK q \in ReqRec :
              q = [o EXCEPT !.n = tab[t].name, !.force = TRUE, !.agreed = @ \cup {o.n}, !.edited = tab[t].edited]
        BY <2>0, <4>1 DEF ReqRec
      <4>3. q.out = "confirm"  BY <2>0, <3>2, <4>2 DEF ReqRec
      <4>4. Sent(<<t, "add">>, q)  BY <3>2, <4>2
      <4>. QED  BY <1>0, <2>0, <2>a, <4>3, <4>4, SentEarly DEF Early
    <3>. QED  BY <1>1, <3>1, <3>2 DEF Adding, UseAdded
  <2>. QED  BY <1>0, <2>a, <2>1 DEF Quiet, Sync, syncVars
<1>2. ASSUME NEW t \in Tabs, Adding(Poll(t)) PROVE Quiet
  <2>1. PICK s \in Polls(t) :
          /\ req[s].pc = "idle"
          /\ SetReq(s, [NoReq EXCEPT !.do = "poll", !.f = tab[t].flow, !.pc = "answered", !.out = Status(tab[t].flow)])
    BY <1>2 DEF Adding, Poll
  <2>2. s \in Slots  BY SlotFacts
  <2>3. req'[s].pc = "answered" /\ \A x \in Slots \ {s} : req'[x] = req[x]
    BY <1>0, <2>1, <2>2 DEF SetReq, AddType, NoReq
  <2>4. EarlyReqs  BY <2>1, <2>3 DEF EarlyReqs, Early
  <2>. QED  BY <1>0, <1>2, <2>4 DEF Quiet, Adding, Poll, Sync, syncVars
<1>3. ASSUME NEW t \in Tabs, NEW s \in Polls(t), Adding(UsePoll(t, s)) PROVE Quiet
  <2>1. req[s].pc = "answered" /\ SetReq(s, NoReq) /\ s \in Slots /\ Sync
    BY <1>3, SlotFacts DEF Adding, UsePoll
  <2>2. EarlyReqs  BY <1>0, <1>n, <2>1, SetEarly DEF Early
  <2>. QED  BY <1>0, <1>3, <2>1, <2>2 DEF Quiet, Adding, Sync, syncVars
<1>4. ASSUME NEW s \in Slots, Adding(ServeAdd(s)) PROVE Quiet
  <2>0. req[s] \in ReqRec /\ req[s].pc = "sent"  BY <1>0, <1>4 DEF AddType, Adding, ServeAdd
  <2>1. EarlyReqs
    <3>1. CASE \E o \in Outs : Answer(s, o)  BY <1>0, <2>0, <3>1, AnswerEarly DEF Early
    <3>2. CASE \E f \in Unused : SetReq(s, [req[s] EXCEPT !.pc = "started", !.f = f])
      <4>1. req'[s].pc = "started" /\ \A x \in Slots \ {s} : req'[x] = req[x]
        BY <1>0, <2>0, <3>2 DEF SetReq, AddType, ReqRec
      <4>. QED  BY <2>0, <4>1 DEF EarlyReqs, Early
    <3>. QED  BY <1>4, <3>1, <3>2 DEF Adding, ServeAdd, Outs
  <2>. QED  BY <1>0, <1>4, <2>1 DEF Quiet, Adding, ServeAdd, Sync, syncVars
<1>5. ASSUME NEW s \in Slots, Adding(ServeStarted(s)) PROVE Quiet
  <2>1. EarlyReqs  BY <1>0, <1>5, AnswerEarly DEF Adding, ServeStarted, Early, Outs
  <2>. QED  BY <1>0, <1>5, <2>1 DEF Quiet, Adding, ServeStarted, Sync, syncVars
<1>6. ASSUME NEW s \in Slots, Quit(s) PROVE Quiet
  <2>1. EarlyReqs  BY <1>0, <1>6, AnswerEarly DEF Quit, At, Early, Outs
  <2>. QED  BY <1>0, <1>6, <2>1 DEF Quiet, Quit, Sync, syncVars
<1>7. ASSUME NEW f \in Flows, Adding(TimesOut(f) \/ Settle(f)) PROVE Quiet
  BY <1>0, <1>7 DEF Adding, TimesOut, Settle, Quiet, Sync, syncVars
<1>8. ASSUME NEW f \in Flows, Adding(Exchange(f)) PROVE Quiet
  BY <1>0, <1>8, FaultTyped DEF Adding, Exchange, Quiet
<1>9. CASE Adding(ServeCancel)  BY <1>0, <1>9 DEF Adding, ServeCancel, Quiet, Sync, syncVars
<1>10. CASE Closes  BY <1>0, <1>10 DEF Closes, Quiet, Sync, syncVars
<1>. QED  BY <1>1, <1>2, <1>3, <1>4, <1>5, <1>6, <1>7, <1>8, <1>9, <1>10 DEF AddStep, Adding

\* The steps that are not quiet.
Same == UNCHANGED <<addVars, lock, desk>>
Operates(s) == \/ Locks(s) \/ Switches(s) \/ DeletesRecord(s) \/ Removes(s) \/ Removed(s)
               \/ Pushes(s) \/ Pushed(s) \/ Looks(s) \/ Quits(s) \/ Opens(s)

\* Every step is quiet or one of the others.
LEMMA StepKinds ==
  ASSUME SyncType, LoginInv, Step
  PROVE  \/ Quiet \/ OpensOwn
         \/ \E s \in Slots : Operates(s)
         \/ \E r \in Runners : Passing(r)
         \/ \E f \in Flows : Adding(Save(f))
         \/ (LoopStarts \/ Elsewhere) /\ Same
<1>0. Flows \subseteq Runners /\ Slots \subseteq Runners /\ Loop \in Runners  BY AddAssumption, SyncAssumption
<1>1. CASE Operator  BY <1>1, OperatorQuiet DEF Operator
<1>2. CASE Closes \/ Adding(ServeCancel)  BY <1>2, AnswersQuiet
<1>3. ASSUME NEW s \in Slots, SlotStep(s)
      PROVE  Quiet \/ Operates(s) \/ Passing(s)
  BY <1>3, AnswersQuiet DEF SlotStep, ActStep, Operates
<1>4. ASSUME NEW t \in Actors, PageStep(t) PROVE Quiet
  BY <1>4, OperatorQuiet, AnswersQuiet DEF PageStep
<1>5. ASSUME NEW f \in Flows, Adding(FlowStep(f))
      PROVE  Quiet \/ Adding(Save(f)) \/ Passing(f)
  <2>1. CASE Adding(TimesOut(f) \/ Exchange(f) \/ Settle(f))  BY <2>1, AnswersQuiet
  <2>2. CASE PassStep(f) /\ UNCHANGED addVars  BY <1>5, <2>2 DEF Adding, Passing
  <2>. QED  BY <1>5, <2>1, <2>2 DEF FlowStep, Adding
<1>6. CASE Adding(LoopStarts /\ UNCHANGED addVars) \/ Adding(Elsewhere /\ UNCHANGED addVars)
  BY <1>6 DEF Adding, Same
<1>. QED  BY <1>0, <1>1, <1>2, <1>3, <1>4, <1>5, <1>6 DEF Step

\* What an operation of the server makes of its request.
LEMMA GotoFacts ==
  ASSUME AddType, NEW s \in Slots, NEW c, Goto(s, c)
  PROVE  /\ req'[s].pc = c /\ req'[s].do = req[s].do /\ req'[s].n = req[s].n /\ req'[s].force = req[s].force
         /\ req'[s].out = req[s].out /\ \A x \in Slots \ {s} : req'[x] = req[x]
BY DEF AddType, ReqRec, Goto, SetReq

\* A request that is answered.
LEMMA AnswerFacts ==
  ASSUME AddType, NEW s \in Slots, NEW o, Answer(s, o)
  PROVE  /\ req'[s].pc = "answered" /\ req'[s].do = req[s].do /\ req'[s].n = req[s].n
         /\ req'[s].force = req[s].force
         /\ req'[s].out = o /\ \A x \in Slots \ {s} : req'[x] = req[x]
BY DEF AddType, ReqRec, Answer, SetReq

\* A removal after the registry's record is deleted.
LEMMA DeletedFacts ==
  ASSUME AddType, NEW s \in Slots, SetReq(s, [req[s] EXCEPT !.pc = "deleted", !.out = "ok"])
  PROVE  /\ req'[s].pc = "deleted" /\ req'[s].do = req[s].do /\ req'[s].n = req[s].n
         /\ req'[s].force = req[s].force
         /\ req'[s].out = "ok" /\ \A x \in Slots \ {s} : req'[x] = req[x]
BY DEF AddType, ReqRec, SetReq

\* Every step keeps the types of the accounts and the passes.
LEMMA SyncNext ==
  ASSUME SyncType, LoginInv, Step
  PROVE  SyncType'
<1>0. Flows \subseteq Runners /\ Slots \subseteq Runners /\ Loop \in Runners  BY AddAssumption, SyncAssumption
<1>s. ASSUME UNCHANGED <<work, store, reg, cur, pass>>, left' \in LeftRec PROVE SyncType'
  BY <1>s DEF SyncType, PassFits, OffPass
<1>p. ASSUME NEW r \in Runners, NEW b \in BOOLEAN, pass' = [pass EXCEPT ![r] = Started(b)]
      PROVE  pass' \in [Runners -> PassRec] /\ \A q \in Runners : PassFits(q)'
  <2>1. PICK p \in PassRec : p = Started(b)  BY StartedTyped
  <2>2. (p.pc = "off" => p = OffPass) /\ p.pc \in {"off", "list"}  BY <2>1, StartedTyped
  <2>. QED  BY <1>p, <2>1, <2>2, SetPass
<1>q. ASSUME UNCHANGED pass PROVE pass' \in [Runners -> PassRec] /\ \A q \in Runners : PassFits(q)'
  BY <1>q DEF SyncType, PassFits, OffPass
<1>a. ASSUME NEW s \in Slots, req[s].do \in ActDo, req[s].pc # "idle" PROVE req[s].n \in Names
  BY <1>a, ActSlot
<1>1. CASE Quiet  BY <1>1, <1>s DEF Quiet
<1>2. CASE OpensOwn  BY <1>2, <1>s DEF OpensOwn, Sync, syncVars, SyncType
<1>3. ASSUME NEW s \in Slots, Operates(s) PROVE SyncType'
  <2>1. CASE Locks(s) \/ Removed(s) \/ Pushed(s) \/ Looks(s) \/ Quits(s)
    <3>1. Sync  BY <2>1 DEF Locks, Removed, Pushed, Looks, Quits
    <3>. QED  BY <3>1, <1>s DEF Sync, syncVars, SyncType
  <2>2. CASE Opens(s)
    <3>1. left' \in LeftRec  BY <2>2, FaultTyped DEF Opens, SyncType
    <3>. QED  BY <2>2, <3>1, <1>s DEF Opens
  <2>3. CASE Switches(s)
    <3>1. req[s].n \in Names  BY <1>a, <2>3 DEF Switches, At, ActDo
    <3>2. cur' \in Tok  BY <2>3, <3>1 DEF Switches, SyncType, TokOrNone
    <3>. QED  BY <2>3, <3>2, <1>q DEF Switches, SyncType
  <2>4. CASE DeletesRecord(s)
    <3>1. req[s].n \in Names  BY <1>a, <2>4 DEF DeletesRecord, At, ActDo
    <3>2. reg' \in [Names -> TokOrNone] /\ left' \in LeftRec
      BY <2>4, <3>1, FaultTyped DEF DeletesRecord, SyncType, TokOrNone
    <3>. QED  BY <2>4, <3>2, <1>q DEF DeletesRecord, SyncType
  <2>5. CASE Removes(s)
    <3>1. req[s].n \in Names  BY <1>a, <2>5 DEF Removes, At, ActDo
    <3>2. store' \in [Names -> TokOrNone]  BY <2>5, <3>1 DEF Removes, SyncType, TokOrNone
    <3>3. pass' \in [Runners -> PassRec] /\ \A q \in Runners : PassFits(q)'
      BY <2>5, <1>0, <1>p, <1>q DEF Removes
    <3>. QED  BY <2>5, <3>2, <3>3 DEF Removes, SyncType
  <2>6. CASE Pushes(s)
    <3>1. pass' \in [Runners -> PassRec] /\ \A q \in Runners : PassFits(q)'
      BY <2>6, <1>0, <1>p DEF Pushes
    <3>. QED  BY <2>6, <3>1 DEF Pushes, SyncType
  <2>. QED  BY <1>3, <2>1, <2>2, <2>3, <2>4, <2>5, <2>6 DEF Operates
<1>4. ASSUME NEW r \in Runners, Passing(r) PROVE SyncType'  BY <1>4, PassTyped DEF Passing
<1>5. ASSUME NEW f \in Flows, Adding(Save(f)) PROVE SyncType'
  <2>0. Save(f)  BY <1>5 DEF Adding
  <2>1. CASE UNCHANGED <<store, pass>>  BY <2>0, <2>1, <1>s DEF Save, SyncType
  <2>2. CASE /\ store' = [store EXCEPT ![flow[f].n] = [who |-> flow[f].who, gen |-> LoginGen]]
             /\ pass' = [pass EXCEPT ![f] = Started(TRUE)]
    <3>1. flow[f].who \in Who  BY <2>0, FlowTyped DEF Save, FlowInv
    <3>2. [who |-> flow[f].who, gen |-> LoginGen] \in Tok  BY <3>1 DEF Tok, LoginGen, MaxGen
    <3>3. store' \in [Names -> TokOrNone]  BY <2>2, <3>2 DEF SyncType, TokOrNone
    <3>4. pass' \in [Runners -> PassRec] /\ \A q \in Runners : PassFits(q)'  BY <2>2, <1>0, <1>p
    <3>. QED  BY <2>0, <3>3, <3>4 DEF Save, SyncType
  <2>. QED  BY <2>0, <2>1, <2>2 DEF Save
<1>6. CASE LoopStarts /\ Same
  <2>1. left' \in LeftRec  BY <1>6 DEF LoopStarts, LeftRec, SyncType
  <2>2. pass' \in [Runners -> PassRec] /\ \A q \in Runners : PassFits(q)'  BY <1>6, <1>0, <1>p DEF LoopStarts
  <2>. QED  BY <1>6, <2>1, <2>2 DEF LoopStarts, SyncType
<1>7. CASE Elsewhere /\ Same
  <2>1. left' \in LeftRec  BY <1>7 DEF Elsewhere, LeftRec, SyncType
  <2>2. reg' \in [Names -> TokOrNone]
    <3>1. PICK n \in Names : reg[n] # NoTok /\ reg' = [reg EXCEPT ![n].gen = MaxGen]  BY <1>7 DEF Elsewhere
    <3>2. reg[n] \in Tok  BY <3>1 DEF SyncType, TokOrNone
    <3>3. PICK x \in Tok : x = [reg[n] EXCEPT !.gen = MaxGen]
      <4>1. MaxGen \in 1..MaxGen  BY DEF MaxGen
      <4>2. [reg[n] EXCEPT !.gen = MaxGen] \in Tok  BY <3>2, <4>1 DEF Tok
      <4>. QED  BY <4>2
    <3>4. reg' = [reg EXCEPT ![n] = x]  BY <3>1, <3>3
    <3>. QED  BY <3>4 DEF SyncType, TokOrNone
  <2>. QED  BY <1>7, <2>1, <2>2, <1>q DEF Elsewhere, SyncType
<1>. QED  BY <1>1, <1>2, <1>3, <1>4, <1>5, <1>6, <1>7, StepKinds

-----------------------------------------------------------------------------
(* Desktop and the switch lock *)

\* A quiet step keeps DeskInv.
LEMMA DeskSame ==
  ASSUME DeskType, DeskInv, UNCHANGED <<lock, desk>>, EarlyReqs
  PROVE  DeskType' /\ DeskInv'
<1>1. \A x \in Slots : req[x].pc \notin Early \/ req'[x].pc \notin Early => req'[x] = req[x]  BY DEF EarlyReqs
<1>2. lock' # NoSlot => At(lock, "locked", "switch")'
  <2>1. ASSUME lock' # NoSlot PROVE At(lock, "locked", "switch")'
    <3>1. At(lock, "locked", "switch") /\ lock \in Slots  BY <2>1 DEF DeskInv, DeskType
    <3>2. req'[lock] = req[lock]  BY <1>1, <3>1 DEF At, Early
    <3>. QED  BY <3>1, <3>2 DEF At
  <2>. QED  BY <2>1
<1>3. ASSUME NEW s \in Slots, At(s, "quitting", "relaunch")', ~req'[s].force PROVE app' # "theirs"
  <2>1. req'[s] = req[s]  BY <1>1, <1>3 DEF At, Early
  <2>. QED  BY <1>3, <2>1 DEF At, DeskInv, desk
<1>4. DeskType' /\ DesktopSpared'  BY DEF DeskType, desk, DeskInv, DesktopSpared
<1>. QED  BY <1>2, <1>3, <1>4 DEF DeskInv

\* So does an operation that has neither the lock nor Desktop to do with.
LEMMA DeskSlot ==
  ASSUME DeskType, DeskInv, UNCHANGED <<lock, desk>>, NEW s \in Slots, req[s].pc # "locked", req'[s].pc # "quitting",
         \A x \in Slots \ {s} : req'[x] = req[x]
  PROVE  DeskType' /\ DeskInv'
<1>2. lock' # NoSlot => At(lock, "locked", "switch")'
  <2>1. ASSUME lock' # NoSlot PROVE At(lock, "locked", "switch")'
    <3>1. At(lock, "locked", "switch") /\ lock \in Slots  BY <2>1 DEF DeskInv, DeskType
    <3>2. req'[lock] = req[lock]  BY <3>1 DEF At
    <3>. QED  BY <3>1, <3>2 DEF At
  <2>. QED  BY <2>1
<1>3. ASSUME NEW x \in Slots, At(x, "quitting", "relaunch")', ~req'[x].force PROVE app' # "theirs"
  <2>1. req'[x] = req[x]  BY <1>3 DEF At
  <2>. QED  BY <1>3, <2>1 DEF At, DeskInv, desk
<1>4. DeskType' /\ DesktopSpared'  BY DEF DeskType, desk, DeskInv, DesktopSpared
<1>. QED  BY <1>2, <1>3, <1>4 DEF DeskInv

\* Every step keeps DeskInv.
LEMMA DeskNext ==
  ASSUME SyncType, LoginInv, DeskType, DeskInv, Step
  PROVE  DeskType' /\ DeskInv'
<1>0. AddType /\ (UNCHANGED req => EarlyReqs)  BY DEF LoginInv, EarlyReqs
<1>1. CASE Quiet  BY <1>1, DeskSame DEF Quiet
<1>2. CASE \/ \E r \in Runners : Passing(r)
           \/ \E f \in Flows : Adding(Save(f))
           \/ (LoopStarts \/ Elsewhere) /\ Same
  <2>1. UNCHANGED <<lock, desk>> /\ UNCHANGED req
    BY <1>2 DEF Passing, Adding, Save, Same, addVars
  <2>. QED  BY <1>0, <2>1, DeskSame
<1>3. CASE OpensOwn
  <2>1. /\ UNCHANGED <<lock, closed, req>> /\ opens' = opens - 1 /\ opens > 0
        /\ app' = IF \E s \in Slots : At(s, "quitting", "relaunch") THEN "slipped" ELSE "theirs"
    BY <1>3 DEF OpensOwn
  <2>2. DeskType'  BY <2>1 DEF DeskType
  <2>3. lock' # NoSlot => At(lock, "locked", "switch")'  BY <2>1 DEF DeskInv, At
  <2>4. \A s \in Slots : At(s, "quitting", "relaunch")' /\ ~req'[s].force => app' # "theirs"
    BY <2>1 DEF At
  <2>5. DesktopSpared'  BY <2>1 DEF DeskInv, DesktopSpared
  <2>. QED  BY <2>2, <2>3, <2>4, <2>5 DEF DeskInv
<1>4. ASSUME NEW s \in Slots, Operates(s) PROVE DeskType' /\ DeskInv'
  <2>1. CASE DeletesRecord(s) \/ Removes(s) \/ Removed(s) \/ Pushes(s) \/ Pushed(s)
    <3>1. UNCHANGED <<lock, desk>> /\ req[s].pc # "locked"
      BY <2>1 DEF DeletesRecord, Removes, Removed, Pushes, Pushed, At
    <3>2. \/ \E c \in {"deleted", "syncing"} : Goto(s, c)
          \/ \E o \in Outs : Answer(s, o)
          \/ SetReq(s, [req[s] EXCEPT !.pc = "deleted", !.out = "ok"])
      BY <2>1 DEF DeletesRecord, Removes, Removed, Pushes, Pushed, Outs
    <3>3. req'[s].pc # "quitting" /\ \A x \in Slots \ {s} : req'[x] = req[x]
      BY <1>0, <3>2, GotoFacts, AnswerFacts, DeletedFacts
    <3>. QED  BY <3>1, <3>3, DeskSlot
  <2>2. CASE Locks(s)
    <3>1. At(s, "sent", "switch") /\ UNCHANGED desk  BY <2>2 DEF Locks
    <3>2. CASE lock = NoSlot /\ lock' = s /\ Goto(s, "locked")
      <4>1. At(s, "locked", "switch")' /\ \A x \in Slots \ {s} : req'[x] = req[x]
        BY <1>0, <3>1, <3>2, GotoFacts DEF At
      <4>2. DeskType' /\ DesktopSpared'  BY <3>1, <3>2 DEF DeskType, desk, DeskInv, DesktopSpared
      <4>3. ASSUME NEW x \in Slots, At(x, "quitting", "relaunch")', ~req'[x].force PROVE app' # "theirs"
        BY <3>1, <4>1, <4>3 DEF At, DeskInv, desk
      <4>4. At(lock, "locked", "switch")'  BY <3>2, <4>1 DEF At
      <4>. QED  BY <4>2, <4>3, <4>4 DEF DeskInv
    <3>3. CASE Answer(s, "failed") /\ UNCHANGED lock
      BY <1>0, <3>1, <3>3, AnswerFacts, DeskSlot DEF At
    <3>. QED  BY <2>2, <3>2, <3>3 DEF Locks
  <2>3. CASE Switches(s)
    <3>1. UNCHANGED desk /\ lock' = NoSlot /\ \E o \in Outs : Answer(s, o)  BY <2>3 DEF Switches, Outs
    <3>2. req'[s].pc = "answered" /\ \A x \in Slots \ {s} : req'[x] = req[x]  BY <1>0, <3>1, AnswerFacts
    <3>3. DeskType' /\ DesktopSpared'  BY <3>1 DEF DeskType, desk, DeskInv, DesktopSpared
    <3>4. ASSUME NEW x \in Slots, At(x, "quitting", "relaunch")', ~req'[x].force PROVE app' # "theirs"
      BY <3>1, <3>2, <3>4 DEF At, DeskInv, desk
    <3>. QED  BY <3>1, <3>3, <3>4 DEF DeskInv
  <2>4. CASE Looks(s)
    <3>1. At(s, "sent", "relaunch") /\ UNCHANGED <<lock, desk>>  BY <2>4 DEF Looks
    <3>2. CASE Answer(s, "confirm") \/ Goto(s, "opening")
      BY <1>0, <3>1, <3>2, AnswerFacts, GotoFacts, DeskSlot DEF At
    <3>3. CASE MayQuit(s) /\ app # "none" /\ Goto(s, "quitting")
      <4>1. /\ req'[s].force = req[s].force /\ req'[s].pc = "quitting"
            /\ \A x \in Slots \ {s} : req'[x] = req[x]
        BY <1>0, <3>3, GotoFacts
      <4>2. lock' # NoSlot => At(lock, "locked", "switch")'
        <5>1. ASSUME lock' # NoSlot PROVE At(lock, "locked", "switch")'
          <6>1. At(lock, "locked", "switch") /\ lock \in Slots  BY <3>1, <5>1 DEF DeskInv, DeskType
          <6>2. req'[lock] = req[lock]  BY <3>1, <4>1, <6>1 DEF At
          <6>. QED  BY <3>1, <6>1, <6>2 DEF At
        <5>. QED  BY <5>1
      <4>3. ASSUME NEW x \in Slots, At(x, "quitting", "relaunch")', ~req'[x].force PROVE app' # "theirs"
        <5>1. CASE x = s  BY <3>1, <3>3, <4>1, <4>3, <5>1 DEF MayQuit, desk
        <5>2. CASE x # s  BY <3>1, <4>1, <4>3, <5>2 DEF At, DeskInv, desk
        <5>. QED  BY <5>1, <5>2
      <4>4. DeskType' /\ DesktopSpared'  BY <3>1 DEF DeskType, desk, DeskInv, DesktopSpared
      <4>. QED  BY <4>2, <4>3, <4>4 DEF DeskInv
    <3>. QED  BY <2>4, <3>2, <3>3 DEF Looks
  <2>5. CASE Quits(s)
    <3>1. /\ At(s, "quitting", "relaunch") /\ closed' = (IF req[s].force THEN closed ELSE closed \cup {app})
          /\ app' = "none" /\ UNCHANGED <<lock, opens>> /\ Goto(s, "opening")
      BY <2>5 DEF Quits
    <3>2. req'[s].pc = "opening" /\ \A x \in Slots \ {s} : req'[x] = req[x]  BY <1>0, <3>1, GotoFacts
    <3>3. ~req[s].force => app # "theirs"  BY <3>1 DEF DeskInv
    <3>4. DesktopSpared'  BY <3>1, <3>3 DEF DeskInv, DesktopSpared
    <3>5. DeskType'  BY <3>1 DEF DeskType
    <3>6. lock' # NoSlot => At(lock, "locked", "switch")'
      <4>1. ASSUME lock' # NoSlot PROVE At(lock, "locked", "switch")'
        <5>1. At(lock, "locked", "switch") /\ lock \in Slots  BY <3>1, <4>1 DEF DeskInv, DeskType
        <5>2. req'[lock] = req[lock]  BY <3>1, <3>2, <5>1 DEF At
        <5>. QED  BY <3>1, <5>1, <5>2 DEF At
      <4>. QED  BY <4>1
    <3>. QED  BY <3>1, <3>4, <3>5, <3>6 DEF DeskInv
  <2>6. CASE Opens(s)
    <3>1. /\ At(s, "opening", "relaunch") /\ app' \in {app, "ours"} /\ UNCHANGED <<lock, opens, closed>>
          /\ Answer(s, "ok")
      BY <2>6 DEF Opens
    <3>2. req'[s].pc = "answered" /\ \A x \in Slots \ {s} : req'[x] = req[x]  BY <1>0, <3>1, AnswerFacts
    <3>3. DeskType' /\ DesktopSpared'  BY <3>1 DEF DeskType, DeskInv, DesktopSpared
    <3>4. ASSUME NEW x \in Slots, At(x, "quitting", "relaunch")', ~req'[x].force PROVE app' # "theirs"
      <4>1. req'[x] = req[x]  BY <3>2, <3>4 DEF At
      <4>2. app # "theirs"  BY <3>4, <4>1 DEF At, DeskInv
      <4>. QED  BY <3>1, <4>2
    <3>5. lock' # NoSlot => At(lock, "locked", "switch")'
      <4>1. ASSUME lock' # NoSlot PROVE At(lock, "locked", "switch")'
        <5>1. At(lock, "locked", "switch") /\ lock \in Slots  BY <3>1, <4>1 DEF DeskInv, DeskType
        <5>2. req'[lock] = req[lock]  BY <3>1, <3>2, <5>1 DEF At
        <5>. QED  BY <3>1, <5>1, <5>2 DEF At
      <4>. QED  BY <4>1
    <3>. QED  BY <3>3, <3>4, <3>5 DEF DeskInv
  <2>. QED  BY <1>4, <2>1, <2>2, <2>3, <2>4, <2>5, <2>6 DEF Operates
<1>. QED  BY <1>1, <1>2, <1>3, <1>4, StepKinds

-----------------------------------------------------------------------------
(* Removals *)

\* A pass that starts is about no account.
LEMMA StartClean ==
  ASSUME NEW r, NEW b \in BOOLEAN, NEW n, pass'[r] = Started(b)
  PROVE  NoMore(r, n)'
BY StartedTyped DEF NoMore

\* Neither is one that is off.
LEMMA OffClean ==
  ASSUME SyncType, NEW r \in Runners, NEW n, Idle(r)
  PROVE  NoMore(r, n)
BY DEF SyncType, PassFits, Idle, NoMore, OffPass

\* A pass that is not about an account leaves it alone.
LEMMA PassClean ==
  ASSUME SyncType, NEW r \in Runners, PassStep(r), NEW n \in Names, store[n] = NoTok, NoMore(r, n)
  PROVE  /\ store'[n] = NoTok /\ (reg[n] = NoTok => reg'[n] = NoTok) /\ NoMore(r, n)'
<1>0. /\ pass \in [Runners -> PassRec] /\ pass[r] \in PassRec /\ PassFits(r)
      /\ store \in [Names -> TokOrNone] /\ reg \in [Names -> TokOrNone]
  BY DEF SyncType
<1>s. Saved \in SUBSET Names /\ n \notin Saved  BY DEF Saved
<1>m. ASSUME NEW p \in PassRec, pass' = [pass EXCEPT ![r] = p],
             n \notin p.adopts \cup p.pushes, p.pc \in {"save", "apply", "upload"} => p.name # n
      PROVE  NoMore(r, n)'
  BY <1>0, <1>m DEF NoMore
<1>1. CASE List(r)
  <2>. DEFINE p == [pass[r] EXCEPT !.pc = "look", !.pushes = Saved, !.adopts = IF pass[r].pull THEN Saved ELSE {}]
  <2>1. p \in PassRec /\ p.pc = "look" /\ p.pushes = Saved /\ p.adopts \in {Saved, {}}
    BY <1>0, <1>s DEF PassRec
  <2>2. pass' = [pass EXCEPT ![r] = p]  BY <1>0, <1>1 DEF List
  <2>. HIDE DEF p
  <2>3. NoMore(r, n)'  BY <1>s, <1>m, <2>1, <2>2
  <2>. QED  BY <1>1, <2>3 DEF List
<1>2. CASE Look(r)
  <2>1. CASE pass' = [pass EXCEPT ![r] = OffPass]
    <3>1. NoMore(r, n)'  BY <1>m, <2>1, OffTyped DEF OffPass
    <3>. QED  BY <1>2, <3>1 DEF Look
  <2>2. CASE pass' = [pass EXCEPT ![r] = [@ EXCEPT !.pc = "visit", !.seen = reg,
                                    !.active = {m \in Saved : store[m].who = cur.who}]]
    <3>. DEFINE p == [pass[r] EXCEPT !.pc = "visit", !.seen = reg,
                                    !.active = {m \in Saved : store[m].who = cur.who}]
    <3>1. p \in PassRec /\ p.pc = "visit" /\ p.adopts = pass[r].adopts /\ p.pushes = pass[r].pushes
      BY <1>0, <1>s DEF PassRec
    <3>2. pass' = [pass EXCEPT ![r] = p]  BY <1>0, <2>2
    <3>. HIDE DEF p
    <3>3. NoMore(r, n)'  BY <1>m, <3>1, <3>2 DEF NoMore
    <3>. QED  BY <1>2, <3>3 DEF Look
  <2>. QED  BY <1>2, <2>1, <2>2 DEF Look
<1>3. CASE VisitFirst(r)
  <2>1. PICK m \in pass[r].adopts :
       \/ pass' = [pass EXCEPT ![r] = [pass[r] EXCEPT !.adopts = @ \ {m}]]
       \/ pass' = [pass EXCEPT ![r] = [pass[r] EXCEPT !.adopts = @ \ {m}, !.pushes = @ \ {m},
                                                    !.pc = "save", !.name = m, !.got = reg[m]]]
    BY <1>3 DEF VisitFirst
  <2>2. m \in Names /\ m # n /\ reg[m] \in TokOrNone  BY <1>0 DEF PassRec, NoMore
  <2>. DEFINE skip == [pass[r] EXCEPT !.adopts = @ \ {m}]
              take == [pass[r] EXCEPT !.adopts = @ \ {m}, !.pushes = @ \ {m}, !.pc = "save", !.name = m, !.got = reg[m]]
  <2>3. skip \in PassRec /\ skip.pc = "visit" /\ skip.adopts \subseteq pass[r].adopts /\ skip.pushes = pass[r].pushes
    BY <1>0, <1>3 DEF PassRec, VisitFirst
  <2>4. take \in PassRec /\ take.name = m /\ take.adopts \subseteq pass[r].adopts /\ take.pushes \subseteq pass[r].pushes
    BY <1>0, <2>2 DEF PassRec, NameOrNone
  <2>5. pass' = [pass EXCEPT ![r] = skip] \/ pass' = [pass EXCEPT ![r] = take]  BY <2>1
  <2>. HIDE DEF skip, take
  <2>6. NoMore(r, n)'  BY <1>m, <2>2, <2>3, <2>4, <2>5 DEF NoMore
  <2>. QED  BY <1>3, <2>6 DEF VisitFirst
<1>4. CASE SaveAdopted(r)
  <2>. DEFINE p == [pass[r] EXCEPT !.pc = "visit", !.name = NoName]
              q == [pass[r] EXCEPT !.pc = "apply"]
  <2>0. pass[r].name # n  BY <1>4 DEF SaveAdopted, NoMore
  <2>1. p \in PassRec /\ p.pc = "visit" /\ p.adopts = pass[r].adopts /\ p.pushes = pass[r].pushes
    BY <1>0 DEF PassRec, NameOrNone
  <2>2. q \in PassRec /\ q.name = pass[r].name /\ q.adopts = pass[r].adopts /\ q.pushes = pass[r].pushes
    BY <1>0 DEF PassRec
  <2>3. pass' = [pass EXCEPT ![r] = p] \/ pass' = [pass EXCEPT ![r] = q]
    BY <1>4, <1>0 DEF SaveAdopted, PassRec
  <2>. HIDE DEF p, q
  <2>4. NoMore(r, n)'  BY <1>m, <2>0, <2>1, <2>2, <2>3 DEF NoMore
  <2>5. store'[n] = NoTok  BY <1>0, <1>4, <2>0 DEF SaveAdopted
  <2>. QED  BY <1>4, <2>4, <2>5 DEF SaveAdopted
<1>v. ASSUME pass' = [pass EXCEPT ![r].pc = "visit", ![r].name = NoName] PROVE NoMore(r, n)'
  <2>. DEFINE p == [pass[r] EXCEPT !.pc = "visit", !.name = NoName]
  <2>1. p \in PassRec /\ p.pc = "visit" /\ p.adopts = pass[r].adopts /\ p.pushes = pass[r].pushes
    BY <1>0 DEF PassRec, NameOrNone
  <2>2. pass' = [pass EXCEPT ![r] = p]  BY <1>v, <1>0 DEF PassRec
  <2>. HIDE DEF p
  <2>. QED  BY <1>m, <2>1, <2>2 DEF NoMore
<1>5. CASE ApplyAdopted(r)  BY <1>5, <1>v DEF ApplyAdopted
<1>6. CASE VisitNext(r)
  <2>1. PICK m \in pass[r].pushes :
       \/ pass' = [pass EXCEPT ![r] = [pass[r] EXCEPT !.pushes = @ \ {m}]]
       \/ pass' = [pass EXCEPT ![r] = [pass[r] EXCEPT !.pushes = @ \ {m}, !.pc = "upload",
                                                    !.name = m, !.got = store[m]]]
    BY <1>6 DEF VisitNext
  <2>2. m \in Names /\ m # n /\ store[m] \in TokOrNone  BY <1>0 DEF PassRec, NoMore
  <2>. DEFINE skip == [pass[r] EXCEPT !.pushes = @ \ {m}]
              take == [pass[r] EXCEPT !.pushes = @ \ {m}, !.pc = "upload", !.name = m, !.got = store[m]]
  <2>3. skip \in PassRec /\ skip.pc = "visit" /\ skip.pushes \subseteq pass[r].pushes /\ skip.adopts = pass[r].adopts
    BY <1>0, <1>6 DEF PassRec, VisitNext
  <2>4. take \in PassRec /\ take.name = m /\ take.adopts = pass[r].adopts /\ take.pushes \subseteq pass[r].pushes
    BY <1>0, <2>2 DEF PassRec, NameOrNone
  <2>5. pass' = [pass EXCEPT ![r] = skip] \/ pass' = [pass EXCEPT ![r] = take]  BY <2>1
  <2>. HIDE DEF skip, take
  <2>6. NoMore(r, n)'  BY <1>m, <2>2, <2>3, <2>4, <2>5 DEF NoMore
  <2>. QED  BY <1>6, <2>6 DEF VisitNext
<1>7. CASE Upload(r)
  <2>1. pass[r].name # n  BY <1>7 DEF Upload, NoMore
  <2>2. reg'[n] = reg[n]  BY <1>0, <1>7, <2>1 DEF Upload
  <2>. QED  BY <1>7, <1>v, <2>2 DEF Upload
<1>8. CASE Visited(r)
  <2>1. NoMore(r, n)'  BY <1>8, <1>m, OffTyped DEF Visited, OffPass
  <2>. QED  BY <1>8, <2>1 DEF Visited
<1>. QED  BY <1>1, <1>2, <1>3, <1>4, <1>5, <1>6, <1>7, <1>8 DEF PassStep

\* A pass leaves the others alone.
LEMMA PassAlone ==
  ASSUME SyncType, NEW r \in Runners, PassStep(r)
  PROVE  ~Idle(r) /\ \A q \in Runners \ {r} : pass'[q] = pass[q]
<1>1. CASE List(r) \/ Look(r)  BY <1>1 DEF SyncType, List, Look, Idle
<1>2. CASE VisitFirst(r)  BY <1>2 DEF SyncType, VisitFirst, Idle
<1>3. CASE SaveAdopted(r)  BY <1>3 DEF SyncType, SaveAdopted, Idle
<1>4. CASE ApplyAdopted(r) \/ Upload(r)  BY <1>4 DEF SyncType, ApplyAdopted, Upload, Idle
<1>5. CASE VisitNext(r)  BY <1>5 DEF SyncType, VisitNext, Idle
<1>6. CASE Visited(r)  BY <1>6 DEF SyncType, Visited, Idle
<1>. QED  BY <1>1, <1>2, <1>3, <1>4, <1>5, <1>6 DEF PassStep

\* What an operation of the server does to the accounts: nothing comes back.
LEMMA WorksFacts ==
  ASSUME SyncType, LoginInv, NEW s \in Slots, Operates(s)
  PROVE  /\ req[s].pc \notin {"idle", "answered"} /\ req[s].do \in ActDo /\ req[s].n \in Names
         /\ req'[s].do = req[s].do /\ req'[s].n = req[s].n /\ req'[s].pc # "sent"
         /\ \A x \in Slots \ {s} : req'[x] = req[x]
         /\ \A m \in Names : (store[m] = NoTok => store'[m] = NoTok) /\ (reg[m] = NoTok => reg'[m] = NoTok)
         /\ \A r \in Runners \ {s} : pass'[r] = pass[r]
         /\ UNCHANGED flow
<1>0. AddType /\ store \in [Names -> TokOrNone] /\ reg \in [Names -> TokOrNone] /\ pass \in [Runners -> PassRec]
  BY DEF LoginInv, SyncType
<1>1. /\ req[s].do \in ActDo /\ req[s].pc \notin {"idle", "answered"}
      /\ \/ \E o \in Outs : Answer(s, o)
         \/ \E c \in {"locked", "deleted", "syncing", "quitting", "opening"} : Goto(s, c)
         \/ SetReq(s, [req[s] EXCEPT !.pc = "deleted", !.out = "ok"])
      /\ Add
  <2>1. CASE Locks(s)  BY <2>1 DEF Locks, At, ActDo, Outs
  <2>2. CASE Switches(s)  BY <2>2 DEF Switches, At, ActDo, Outs
  <2>3. CASE DeletesRecord(s)  BY <2>3 DEF DeletesRecord, At, ActDo, Outs
  <2>4. CASE Removes(s)  BY <2>4 DEF Removes, At, ActDo, Outs
  <2>5. CASE Removed(s)  BY <2>5 DEF Removed, At, ActDo, Outs
  <2>6. CASE Pushes(s)  BY <2>6 DEF Pushes, At, ActDo, Outs
  <2>7. CASE Pushed(s)  BY <2>7 DEF Pushed, At, ActDo, Outs
  <2>8. CASE Looks(s)  BY <2>8 DEF Looks, At, ActDo, Outs
  <2>9. CASE Quits(s)  BY <2>9 DEF Quits, At, ActDo, Outs
  <2>10. CASE Opens(s)  BY <2>10 DEF Opens, At, ActDo, Outs
  <2>. QED  BY <2>1, <2>2, <2>3, <2>4, <2>5, <2>6, <2>7, <2>8, <2>9, <2>10 DEF Operates
<1>2. /\ req'[s].do = req[s].do /\ req'[s].n = req[s].n /\ req'[s].pc # "sent"
      /\ \A x \in Slots \ {s} : req'[x] = req[x]
  BY <1>0, <1>1, AnswerFacts, GotoFacts, DeletedFacts
<1>3. req[s].n \in Names  BY <1>1, ActSlot
<1>4. /\ \A m \in Names : (store[m] = NoTok => store'[m] = NoTok) /\ (reg[m] = NoTok => reg'[m] = NoTok)
      /\ \A r \in Runners \ {s} : pass'[r] = pass[r]
  <2>1. CASE Locks(s) \/ Switches(s) \/ Removed(s) \/ Pushed(s) \/ Looks(s) \/ Quits(s) \/ Opens(s)
    <3>1. UNCHANGED <<store, reg, pass>>
      BY <2>1 DEF Locks, Switches, Removed, Pushed, Looks, Quits, Opens, Sync, syncVars
    <3>. QED  BY <3>1
  <2>2. CASE DeletesRecord(s)
    <3>1. UNCHANGED <<store, pass>> /\ reg' \in {reg, [reg EXCEPT ![req[s].n] = NoTok]}
      BY <2>2 DEF DeletesRecord
    <3>. QED  BY <1>0, <1>3, <3>1
  <2>3. CASE Removes(s)
    <3>1. /\ store' \in {store, [store EXCEPT ![req[s].n] = NoTok]} /\ UNCHANGED reg
          /\ pass' \in {pass, [pass EXCEPT ![s] = Started(TRUE)]}
      BY <2>3 DEF Removes
    <3>. QED  BY <1>0, <1>3, <3>1
  <2>4. CASE Pushes(s)
    <3>1. UNCHANGED <<store, reg>> /\ pass' = [pass EXCEPT ![s] = Started(FALSE)]  BY <2>4 DEF Pushes
    <3>. QED  BY <1>0, <3>1
  <2>. QED  BY <2>1, <2>2, <2>3, <2>4 DEF Operates
<1>. QED  BY <1>1, <1>2, <1>3, <1>4 DEF Add, pageVars

\* The passes and the logins leave the requests alone.
LEMMA ElseFacts ==
  ASSUME SyncType, LoginInv,
         \/ OpensOwn
         \/ \E r \in Runners : Passing(r)
         \/ \E f \in Flows : Adding(Save(f))
         \/ (LoopStarts \/ Elsewhere) /\ Same
  PROVE  UNCHANGED req
BY DEF OpensOwn, Passing, Adding, Save, Same, addVars

\* A runner of a page's action has a pass only while its request syncs.
LEMMA SlotKept ==
  ASSUME SyncType, LoginInv, SlotInv, Step
  PROVE  SlotInv'
<1>0. /\ Flows \subseteq Runners /\ Slots \subseteq Runners /\ Loop \in Runners /\ Flows \cap Slots = {} /\ Loop \notin Slots
      /\ pass \in [Runners -> PassRec] /\ AddType
  BY AddAssumption, SyncAssumption DEF SyncType, LoginInv
<1>1. CASE Quiet
  <2>1. ASSUME NEW s \in Slots
        PROVE  (~Idle(s)' => req'[s].pc = "syncing") /\ (req'[s].pc = "sent" => req'[s].out # "ok")
    <3>1. req'[s] = req[s] \/ (req[s].pc \in Early /\ (req'[s].pc = "sent" => req'[s].out # "ok"))
      BY <1>1 DEF Quiet, EarlyReqs
    <3>. QED  BY <1>1, <3>1 DEF Quiet, SlotInv, Idle, Early
  <2>. QED  BY <2>1 DEF SlotInv
<1>2. ASSUME NEW s \in Slots, Operates(s) PROVE SlotInv'
  <2>1. ASSUME NEW x \in Slots \ {s}
        PROVE  (~Idle(x)' => req'[x].pc = "syncing") /\ (req'[x].pc = "sent" => req'[x].out # "ok")
    BY <1>0, <1>2, WorksFacts DEF SlotInv, Idle
  <2>2. req'[s].pc # "sent"  BY <1>2, WorksFacts
  <2>3. ~Idle(s)' => req'[s].pc = "syncing"
    <3>1. CASE Removes(s)
      <4>1. CASE Answer(s, "failed") /\ UNCHANGED pass
        <5>1. req[s].pc # "syncing"  BY <3>1 DEF Removes, At
        <5>. QED  BY <4>1, <5>1 DEF SlotInv, Idle
      <4>2. CASE Goto(s, "syncing")  BY <1>0, <4>2, GotoFacts
      <4>. QED  BY <3>1, <4>1, <4>2 DEF Removes
    <3>2. CASE Pushes(s)  BY <1>0, <3>2, GotoFacts DEF Pushes
    <3>3. CASE Removed(s) \/ Pushed(s)  BY <3>3 DEF Removed, Pushed, Idle, Sync, syncVars
    <3>4. CASE Locks(s) \/ Switches(s) \/ DeletesRecord(s) \/ Looks(s) \/ Quits(s) \/ Opens(s)
      <4>1. UNCHANGED pass /\ req[s].pc # "syncing"
        BY <3>4 DEF Locks, Switches, DeletesRecord, Looks, Quits, Opens, At, Sync, syncVars
      <4>. QED  BY <4>1 DEF SlotInv, Idle
    <3>. QED  BY <1>2, <3>1, <3>2, <3>3, <3>4 DEF Operates
  <2>. QED  BY <2>1, <2>2, <2>3 DEF SlotInv
<1>3. ASSUME UNCHANGED req, \A s \in Slots : Idle(s) => Idle(s)' PROVE SlotInv'
  BY <1>3 DEF SlotInv, Idle
<1>4. CASE OpensOwn  BY <1>4, <1>3 DEF OpensOwn, Sync, syncVars, Idle
<1>5. ASSUME NEW r \in Runners, Passing(r) PROVE SlotInv'
  <2>1. UNCHANGED req /\ ~Idle(r) /\ \A q \in Runners \ {r} : pass'[q] = pass[q]
    BY <1>5, ElseFacts, PassAlone DEF Passing
  <2>. QED  BY <1>0, <1>3, <2>1 DEF Idle
<1>6. ASSUME NEW f \in Flows, Adding(Save(f)) PROVE SlotInv'
  <2>1. UNCHANGED req /\ \A q \in Runners \ {f} : pass'[q] = pass[q]
    BY <1>0, <1>6, ElseFacts DEF Adding, Save
  <2>. QED  BY <1>0, <1>3, <2>1 DEF Idle
<1>7. CASE (LoopStarts \/ Elsewhere) /\ Same
  <2>1. UNCHANGED req /\ \A q \in Runners \ {Loop} : pass'[q] = pass[q]
    BY <1>0, <1>7, ElseFacts DEF LoopStarts, Elsewhere
  <2>. QED  BY <1>0, <1>3, <2>1 DEF Idle
<1>. QED  BY <1>1, <1>2, <1>4, <1>5, <1>6, <1>7, StepKinds

\* An account that is gone stays gone, whatever the step, unless a login saves it.
LEMMA GoneKept ==
  ASSUME SyncType, LoginInv, Step, NEW n \in Names, Gone(n), ~Saving(n)
  PROVE  Gone(n)'
<1>0. /\ Flows \subseteq Runners /\ Slots \subseteq Runners /\ Loop \in Runners
      /\ pass \in [Runners -> PassRec] /\ store \in [Names -> TokOrNone] /\ reg \in [Names -> TokOrNone]
      /\ Runners' = Runners
  BY AddAssumption, SyncAssumption DEF SyncType
<1>1. ASSUME store'[n] = NoTok, reg'[n] = NoTok, NEW r, NoMore(r, n)',
             \A q \in Runners \ {r} : pass'[q] = pass[q]
      PROVE  Gone(n)'
  <2>1. ASSUME NEW q \in Runners, q # r PROVE NoMore(q, n)'
    <3>1. pass'[q] = pass[q]  BY <1>1, <2>1
    <3>. QED  BY <3>1 DEF NoMore, Gone
  <2>. QED  BY <1>1, <2>1 DEF Gone
<1>2. ASSUME UNCHANGED <<store, reg, pass>> PROVE Gone(n)'  BY <1>2 DEF Gone, NoMore
<1>3. CASE Quiet \/ OpensOwn  BY <1>2, <1>3 DEF Quiet, OpensOwn, Sync, syncVars
<1>4. ASSUME NEW s \in Slots, Operates(s) PROVE Gone(n)'
  <2>1. /\ store'[n] = NoTok /\ reg'[n] = NoTok /\ \A r \in Runners \ {s} : pass'[r] = pass[r]
    BY <1>4, WorksFacts DEF Gone
  <2>2. NoMore(s, n)'
    <3>1. CASE pass'[s] = pass[s]  BY <1>0, <3>1 DEF NoMore, Gone
    <3>2. CASE \E b \in BOOLEAN : pass' = [pass EXCEPT ![s] = Started(b)]
      <4>1. PICK b \in BOOLEAN : pass'[s] = Started(b)  BY <1>0, <3>2
      <4>. QED  BY <4>1, StartClean
    <3>3. pass' = pass \/ \E b \in BOOLEAN : pass' = [pass EXCEPT ![s] = Started(b)]
      BY <1>4 DEF Operates, Locks, Switches, DeletesRecord, Removes, Removed, Pushes, Pushed, Looks, Quits, Opens, Sync, syncVars
    <3>. QED  BY <3>1, <3>2, <3>3
  <2>. QED  BY <1>1, <2>1, <2>2
<1>5. ASSUME NEW r \in Runners, Passing(r) PROVE Gone(n)'
  BY <1>1, <1>5, PassClean, PassAlone DEF Passing, Gone
<1>6. ASSUME NEW f \in Flows, Adding(Save(f)) PROVE Gone(n)'
  <2>1. CASE UNCHANGED <<store, pass>>  BY <1>2, <1>6, <2>1 DEF Adding, Save
  <2>2. CASE /\ store' = [store EXCEPT ![flow[f].n] = [who |-> flow[f].who, gen |-> LoginGen]]
             /\ pass' = [pass EXCEPT ![f] = Started(TRUE)]
    <3>1. flow[f].n # n  BY <1>6 DEF Saving, Adding, Save
    <3>2. store'[n] = NoTok /\ reg'[n] = NoTok  BY <1>0, <1>6, <2>2, <3>1 DEF Gone, Adding, Save
    <3>3. pass'[f] = Started(TRUE) /\ \A q \in Runners \ {f} : pass'[q] = pass[q]  BY <1>0, <2>2
    <3>4. NoMore(f, n)'  BY <3>3, StartClean
    <3>. QED  BY <1>1, <3>2, <3>3, <3>4
  <2>. QED  BY <1>6, <2>1, <2>2 DEF Adding, Save
<1>7. CASE LoopStarts
  <2>1. pass'[Loop] = Started(TRUE) /\ \A q \in Runners \ {Loop} : pass'[q] = pass[q]  BY <1>0, <1>7 DEF LoopStarts
  <2>2. NoMore(Loop, n)'  BY <2>1, StartClean
  <2>. QED  BY <1>1, <1>7, <2>1, <2>2 DEF LoopStarts, Gone
<1>8. CASE Elsewhere
  <2>1. PICK m \in Names : reg[m] # NoTok /\ reg' = [reg EXCEPT ![m].gen = MaxGen]  BY <1>8 DEF Elsewhere
  <2>2. reg'[n] = NoTok  BY <1>0, <2>1 DEF Gone
  <2>. QED  BY <1>8, <2>2 DEF Elsewhere, Gone, NoMore
<1>. QED  BY <1>3, <1>4, <1>5, <1>6, <1>7, <1>8, StepKinds

\* A removal that nothing ran beside goes on as it began.
LEMMA ClearedKept ==
  ASSUME SyncType, LoginInv, RemInv, Step, NEW s \in Slots, s \in Removing', s \notin busy
  PROVE  Cleared(s)'
<1>0. /\ Flows \subseteq Runners /\ Slots \subseteq Runners /\ Loop \in Runners /\ Flows \cap Slots = {} /\ Loop \notin Slots
      /\ pass \in [Runners -> PassRec] /\ store \in [Names -> TokOrNone] /\ reg \in [Names -> TokOrNone] /\ AddType
      /\ req'[s].do = "remove" /\ req'[s].pc \in {"deleted", "syncing"}
  BY AddAssumption, SyncAssumption DEF SyncType, LoginInv, Removing
<1>k. ASSUME req'[s] = req[s]
      PROVE  /\ s \in Removing \ busy /\ ~Others(s) /\ Cleared(s) /\ req[s].n \in Names
             /\ req[s].pc = "deleted" => Idle(s)
  <2>1. s \in Removing \ busy  BY <1>0, <1>k DEF Removing
  <2>2. req[s].n \in Names  BY <1>0, <1>k, ActSlot DEF ActDo
  <2>. QED  BY <2>1, <2>2 DEF RemInv, SlotInv
<1>m. ASSUME req'[s] = req[s], pass'[s] = pass[s],
             store[req[s].n] = NoTok => store'[req[s].n] = NoTok,
             reg[req[s].n] = NoTok => reg'[req[s].n] = NoTok
      PROVE  Cleared(s)'
  BY <1>k, <1>m DEF Cleared, NoMore
<1>1. CASE Quiet
  <2>1. req'[s] = req[s]  BY <1>0, <1>1 DEF Quiet, EarlyReqs, Early
  <2>. QED  BY <1>1, <1>m, <2>1 DEF Quiet
<1>2. CASE OpensOwn  BY <1>2, <1>m DEF OpensOwn, Sync, syncVars
<1>3. ASSUME NEW x \in Slots, Operates(x) PROVE Cleared(s)'
  <2>0. /\ req'[x].do = req[x].do /\ req'[x].n = req[x].n /\ req[x].n \in Names
        /\ \A y \in Slots \ {x} : req'[y] = req[y]
        /\ \A m \in Names : (store[m] = NoTok => store'[m] = NoTok) /\ (reg[m] = NoTok => reg'[m] = NoTok)
        /\ \A r \in Runners \ {x} : pass'[r] = pass[r]
    BY <1>3, WorksFacts
  <2>1. CASE x # s
    <3>1. req'[s] = req[s] /\ pass'[s] = pass[s]  BY <1>0, <2>0, <2>1
    <3>. QED  BY <1>k, <1>m, <2>0, <3>1
  <2>2. CASE x = s /\ DeletesRecord(s)
    <3>1. req[s].out # "ok"  BY <2>2 DEF RemInv, SlotInv, DeletesRecord, At
    <3>2. CASE /\ reg' = [reg EXCEPT ![req[s].n] = NoTok]
               /\ SetReq(s, [req[s] EXCEPT !.pc = "deleted", !.out = "ok"])
      <4>1. req'[s].pc = "deleted" /\ req'[s].n = req[s].n  BY <1>0, <3>2, DeletedFacts
      <4>2. reg'[req[s].n] = NoTok  BY <1>0, <2>0, <2>2, <3>2
      <4>. QED  BY <4>1, <4>2 DEF Cleared
    <3>3. CASE Goto(s, "deleted")
      <4>1. req'[s].pc = "deleted" /\ req'[s].out # "ok"  BY <1>0, <3>1, <3>3, GotoFacts
      <4>. QED  BY <4>1 DEF Cleared
    <3>. QED  BY <2>2, <3>2, <3>3 DEF DeletesRecord
  <2>3. CASE x = s /\ Removes(s)
    <3>1. CASE Answer(s, "failed")  BY <1>0, <3>1, AnswerFacts
    <3>2. CASE /\ store' = [store EXCEPT ![req[s].n] = NoTok] /\ UNCHANGED reg
               /\ pass' = [pass EXCEPT ![s] = Started(TRUE)]
               /\ Goto(s, "syncing")
      <4>1. req'[s].n = req[s].n /\ req'[s].out = req[s].out  BY <1>0, <3>2, GotoFacts
      <4>2. s \in Removing \ busy  BY <2>3 DEF Removes, At, Removing
      <4>3. req[s].out = "ok" => reg'[req[s].n] = NoTok  BY <3>2, <4>2 DEF RemInv, Cleared
      <4>4. store'[req[s].n] = NoTok /\ pass'[s] = Started(TRUE)  BY <1>0, <2>0, <2>3, <3>2
      <4>5. NoMore(s, req[s].n)'
        <5>1. PICK m : m = req'[s].n  OBVIOUS
        <5>2. NoMore(s, m)'  BY <4>4, StartClean
        <5>. QED  BY <5>1, <5>2 DEF NoMore
      <4>. QED  BY <4>1, <4>3, <4>4, <4>5 DEF Cleared
    <3>. QED  BY <2>3, <3>1, <3>2 DEF Removes
  <2>4. CASE x = s /\ Removed(s)  BY <1>0, <2>4, AnswerFacts DEF Removed
  <2>5. CASE x = s /\ (Locks(s) \/ Switches(s) \/ Pushes(s) \/ Pushed(s) \/ Looks(s) \/ Quits(s) \/ Opens(s))
    BY <1>0, <2>0, <2>5 DEF Locks, Switches, Pushes, Pushed, Looks, Quits, Opens, At
  <2>. QED  BY <1>3, <2>1, <2>2, <2>3, <2>4, <2>5 DEF Operates
<1>4. ASSUME NEW r \in Runners, Passing(r) PROVE Cleared(s)'
  <2>1. req'[s] = req[s] /\ ~Idle(r)  BY <1>4, ElseFacts, PassAlone DEF Passing
  <2>2. r = s  BY <1>k, <2>1 DEF Others
  <2>3. req[s].pc = "syncing" /\ store[req[s].n] = NoTok /\ NoMore(s, req[s].n)
    BY <1>0, <1>k, <2>1, <2>2 DEF Cleared
  <2>4. PICK n \in Names : n = req[s].n  BY <1>k, <2>1
  <2>5. store'[n] = NoTok /\ (reg[n] = NoTok => reg'[n] = NoTok) /\ NoMore(s, n)'
    BY <1>0, <1>4, <2>2, <2>3, <2>4, PassClean DEF Passing
  <2>. QED  BY <1>k, <2>1, <2>4, <2>5 DEF Cleared, NoMore
<1>5. ASSUME NEW f \in Flows, Adding(Save(f)) PROVE Cleared(s)'
  <2>1. req'[s] = req[s] /\ f # s  BY <1>0, <1>5, ElseFacts
  <2>2. flow[f].n # req[s].n  BY <1>5, <1>k, <2>1 DEF Others, Saving, Adding, Save
  <2>3. /\ pass'[s] = pass[s] /\ store'[req[s].n] = store[req[s].n] /\ UNCHANGED reg
    BY <1>0, <1>5, <1>k, <2>1, <2>2 DEF Adding, Save
  <2>. QED  BY <1>m, <2>1, <2>3
<1>6. CASE LoopStarts /\ Same
  <2>1. req'[s] = req[s] /\ pass'[s] = pass[s] /\ UNCHANGED <<store, reg>>
    BY <1>0, <1>6, ElseFacts DEF LoopStarts
  <2>. QED  BY <1>m, <2>1
<1>7. CASE Elsewhere /\ Same
  <2>1. PICK m \in Names : reg[m] # NoTok /\ reg' = [reg EXCEPT ![m].gen = MaxGen]  BY <1>7 DEF Elsewhere
  <2>2. req'[s] = req[s] /\ UNCHANGED <<store, pass>>  BY <1>7, ElseFacts DEF Elsewhere
  <2>3. \A n \in Names : reg[n] = NoTok => reg'[n] = NoTok  BY <1>0, <2>1
  <2>. QED  BY <1>k, <1>m, <2>2, <2>3
<1>. QED  BY <1>1, <1>2, <1>3, <1>4, <1>5, <1>6, <1>7, StepKinds

\* A removal that ends well, with nothing beside it, leaves the account gone.
LEMMA RemovalEnds ==
  ASSUME SyncType, LoginInv, RemInv, Step, NEW s \in Removing \ (Removing' \cup busy),
         req[s].out = "ok", req'[s].out = "ok"
  PROVE  Gone(req[s].n) /\ req[s].n \in Names /\ ~Saving(req[s].n)
<1>0. s \in Slots /\ req[s].do = "remove" /\ req[s].pc \in {"deleted", "syncing"} /\ AddType
  BY DEF Removing, LoginInv
<1>1. req'[s] # req[s]  BY <1>0 DEF Removing
<1>2. ~Quiet  BY <1>0, <1>1 DEF Quiet, EarlyReqs, Early
<1>3. PICK x \in Slots : Operates(x)  BY <1>1, <1>2, ElseFacts, StepKinds
<1>4. x = s /\ req'[s].do = req[s].do  BY <1>0, <1>1, <1>3, WorksFacts
<1>5. req'[s].pc \notin {"deleted", "syncing"}  BY <1>0, <1>4 DEF Removing
<1>6. Removed(s)
  <2>1. ~Removes(s)
    <3>1. SUFFICES ASSUME Removes(s) PROVE FALSE
      OBVIOUS
    <3>2. Answer(s, "failed") \/ Goto(s, "syncing")  BY <3>1 DEF Removes
    <3>. QED  BY <1>0, <1>5, <3>2, AnswerFacts, GotoFacts
  <2>. QED  BY <1>0, <1>3, <1>4, <2>1
         DEF Operates, Locks, Switches, DeletesRecord, Pushes, Pushed, Looks, Quits, Opens, At
<1>7. ~Others(s) /\ Cleared(s) /\ req[s].pc = "syncing" /\ Idle(s)  BY <1>6 DEF RemInv, Removed, At
<1>8. \A r \in Runners : NoMore(r, req[s].n)
  <2>1. \A r \in Runners : Idle(r)  BY <1>7 DEF Others
  <2>. QED  BY <2>1, OffClean
<1>9. req[s].n \in Names  BY <1>0, ActSlot DEF ActDo
<1>. QED  BY <1>7, <1>8, <1>9 DEF Gone, Cleared, Others

\* Every step keeps RemInv.
LEMMA RemNext ==
  ASSUME SyncType, LoginInv, HistType, RemInv, Step, History
  PROVE  RemInv' /\ HistType'
<1>1. SlotInv'  BY SlotKept DEF RemInv
<1>2. busy' = {s \in Removing' : s \in busy \/ Others(s)'}  BY DEF History
<1>3. ASSUME NEW s, s \in (Removing \ busy)' PROVE (~Others(s) /\ Cleared(s))'
  <2>1. s \in Slots /\ s \in Removing'  BY <1>3 DEF Removing
  <2>2. s \notin busy /\ ~Others(s)'  BY <1>2, <1>3
  <2>. QED  BY <2>1, <2>2, ClearedKept
<1>4. ASSUME NEW n, n \in gone' PROVE Gone(n)' /\ n \in Names
  <2>1. Gone(n) /\ n \in Names /\ ~Saving(n)
    <3>1. CASE n \in gone /\ ~Saving(n)  BY <3>1 DEF RemInv, HistType
    <3>2. CASE \E s \in Removing \ (Removing' \cup busy) : n = req[s].n /\ req[s].out = "ok" /\ req'[s].out = "ok"
      BY <3>2, RemovalEnds
    <3>. QED  BY <1>4, <3>1, <3>2 DEF History
  <2>. QED  BY <2>1, GoneKept
<1>5. chosen' \in Who \cup {NoTok}
  <2>1. cur' \in Tok  BY SyncNext DEF SyncType
  <2>2. cur'.who \in Who  BY <2>1 DEF Tok
  <2>. QED  BY <2>2 DEF History, HistType
<1>6. busy' \in SUBSET Slots /\ gone' \in SUBSET Names  BY <1>2, <1>4 DEF Removing
<1>7. RemInv'  BY <1>1, <1>3, <1>4 DEF RemInv
<1>. QED  BY <1>5, <1>6, <1>7 DEF HistType

-----------------------------------------------------------------------------
(* Switches *)

\* A name that a machine syncs is used for one identity, own[name].
OneOwner(own) == work.registry => \A n \in Names : store[n] # NoTok => store[n].who = own[n]
SwitchInv(own) ==
  /\ ~work.registry => \A r \in Runners : Idle(r)
  /\ \A r \in Runners : pass[r].pc = "apply" => pass[r].name \in pass[r].active
  /\ chosen # NoTok => \A r \in Runners : \A n \in pass[r].active : own[n] = chosen
  /\ SwitchKept

\* What a pass takes for the account in use, and when it replaces auth.json.
LEMMA PassActive ==
  ASSUME SyncType, NEW r \in Runners, PassStep(r)
  PROVE  /\ pass'[r].active \in {pass[r].active, {}, {n \in Saved : store[n].who = cur.who}}
         /\ pass'[r].pc = "apply" => pass'[r].name \in pass'[r].active
         /\ \/ UNCHANGED cur
            \/ pass[r].pc = "apply" /\ store[pass[r].name] # NoTok /\ cur' = store[pass[r].name]
         /\ UNCHANGED work
<1>0. pass \in [Runners -> PassRec] /\ pass[r] \in PassRec  BY DEF SyncType
<1>m. ASSUME NEW p, pass' = [pass EXCEPT ![r] = p],
             p.active \in {pass[r].active, {}, {n \in Saved : store[n].who = cur.who}},
             p.pc = "apply" => p.name \in p.active
      PROVE  /\ pass'[r].active \in {pass[r].active, {}, {n \in Saved : store[n].who = cur.who}}
             /\ pass'[r].pc = "apply" => pass'[r].name \in pass'[r].active
  <2>1. pass'[r] = p  BY <1>0, <1>m
  <2>. QED  BY <1>m, <2>1
<1>1. CASE List(r)
  <2>. DEFINE p == [pass[r] EXCEPT !.pc = "look", !.pushes = Saved, !.adopts = IF pass[r].pull THEN Saved ELSE {}]
  <2>1. p.pc = "look" /\ p.active = pass[r].active  BY <1>0 DEF PassRec
  <2>2. pass' = [pass EXCEPT ![r] = p]  BY <1>0, <1>1 DEF List
  <2>. HIDE DEF p
  <2>. QED  BY <1>1, <1>m, <2>1, <2>2 DEF List
<1>2. CASE Look(r)
  <2>1. CASE pass' = [pass EXCEPT ![r] = OffPass]
    <3>1. OffPass.pc = "off" /\ OffPass.active = {}  BY DEF OffPass
    <3>. QED  BY <1>2, <1>m, <2>1, <3>1 DEF Look
  <2>2. CASE pass' = [pass EXCEPT ![r] = [@ EXCEPT !.pc = "visit", !.seen = reg,
                                    !.active = {n \in Saved : store[n].who = cur.who}]]
    <3>. DEFINE p == [pass[r] EXCEPT !.pc = "visit", !.seen = reg,
                                    !.active = {n \in Saved : store[n].who = cur.who}]
    <3>1. p.pc = "visit" /\ p.active = {n \in Saved : store[n].who = cur.who}  BY <1>0 DEF PassRec
    <3>2. pass' = [pass EXCEPT ![r] = p]  BY <1>0, <2>2
    <3>. HIDE DEF p
    <3>. QED  BY <1>2, <1>m, <3>1, <3>2 DEF Look
  <2>. QED  BY <1>2, <2>1, <2>2 DEF Look
<1>3. CASE VisitFirst(r)
  <2>1. PICK m \in pass[r].adopts :
       \/ pass' = [pass EXCEPT ![r] = [pass[r] EXCEPT !.adopts = @ \ {m}]]
       \/ pass' = [pass EXCEPT ![r] = [pass[r] EXCEPT !.adopts = @ \ {m}, !.pushes = @ \ {m},
                                                    !.pc = "save", !.name = m, !.got = reg[m]]]
    BY <1>3 DEF VisitFirst
  <2>. DEFINE skip == [pass[r] EXCEPT !.adopts = @ \ {m}]
              take == [pass[r] EXCEPT !.adopts = @ \ {m}, !.pushes = @ \ {m}, !.pc = "save", !.name = m, !.got = reg[m]]
  <2>2. skip.pc = "visit" /\ skip.active = pass[r].active  BY <1>0, <1>3 DEF PassRec, VisitFirst
  <2>3. take.pc = "save" /\ take.active = pass[r].active  BY <1>0 DEF PassRec
  <2>4. pass' = [pass EXCEPT ![r] = skip] \/ pass' = [pass EXCEPT ![r] = take]  BY <2>1
  <2>. HIDE DEF skip, take
  <2>. QED  BY <1>3, <1>m, <2>2, <2>3, <2>4 DEF VisitFirst
<1>v. ASSUME pass' = [pass EXCEPT ![r].pc = "visit", ![r].name = NoName]
      PROVE  \E p : pass' = [pass EXCEPT ![r] = p] /\ p.pc = "visit" /\ p.active = pass[r].active
  <2>. DEFINE p == [pass[r] EXCEPT !.pc = "visit", !.name = NoName]
  <2>1. p.pc = "visit" /\ p.active = pass[r].active  BY <1>0 DEF PassRec
  <2>2. pass' = [pass EXCEPT ![r] = p]  BY <1>v, <1>0 DEF PassRec
  <2>. HIDE DEF p
  <2>. QED  BY <2>1, <2>2
<1>4. CASE SaveAdopted(r)
  <2>. DEFINE p == [pass[r] EXCEPT !.pc = "visit", !.name = NoName]
              q == [pass[r] EXCEPT !.pc = "apply"]
  <2>1. p.pc = "visit" /\ p.active = pass[r].active  BY <1>0 DEF PassRec
  <2>2. q.pc = "apply" /\ q.name = pass[r].name /\ q.active = pass[r].active  BY <1>0 DEF PassRec
  <2>3. pass' = [pass EXCEPT ![r] = p] \/ (pass' = [pass EXCEPT ![r] = q] /\ WasCurrent(r))
    BY <1>4, <1>0 DEF SaveAdopted, PassRec
  <2>. HIDE DEF p, q
  <2>. QED  BY <1>4, <1>m, <2>1, <2>2, <2>3 DEF SaveAdopted, WasCurrent
<1>5. CASE ApplyAdopted(r)
  <2>1. PICK p : pass' = [pass EXCEPT ![r] = p] /\ p.pc = "visit" /\ p.active = pass[r].active
    BY <1>5, <1>v DEF ApplyAdopted
  <2>. QED  BY <1>5, <1>m, <2>1 DEF ApplyAdopted
<1>6. CASE VisitNext(r)
  <2>1. PICK m \in pass[r].pushes :
       \/ pass' = [pass EXCEPT ![r] = [pass[r] EXCEPT !.pushes = @ \ {m}]]
       \/ pass' = [pass EXCEPT ![r] = [pass[r] EXCEPT !.pushes = @ \ {m}, !.pc = "upload",
                                                    !.name = m, !.got = store[m]]]
    BY <1>6 DEF VisitNext
  <2>. DEFINE skip == [pass[r] EXCEPT !.pushes = @ \ {m}]
              take == [pass[r] EXCEPT !.pushes = @ \ {m}, !.pc = "upload", !.name = m, !.got = store[m]]
  <2>2. skip.pc = "visit" /\ skip.active = pass[r].active  BY <1>0, <1>6 DEF PassRec, VisitNext
  <2>3. take.pc = "upload" /\ take.active = pass[r].active  BY <1>0 DEF PassRec
  <2>4. pass' = [pass EXCEPT ![r] = skip] \/ pass' = [pass EXCEPT ![r] = take]  BY <2>1
  <2>. HIDE DEF skip, take
  <2>. QED  BY <1>6, <1>m, <2>2, <2>3, <2>4 DEF VisitNext
<1>7. CASE Upload(r)
  <2>1. PICK p : pass' = [pass EXCEPT ![r] = p] /\ p.pc = "visit" /\ p.active = pass[r].active
    BY <1>7, <1>v DEF Upload
  <2>. QED  BY <1>7, <1>m, <2>1 DEF Upload
<1>8. CASE Visited(r)
  <2>1. OffPass.pc = "off" /\ OffPass.active = {}  BY DEF OffPass
  <2>. QED  BY <1>8, <1>m, <2>1 DEF Visited
<1>. QED  BY <1>1, <1>2, <1>3, <1>4, <1>5, <1>6, <1>7, <1>8 DEF PassStep

\* The steps by what they do to the passes and the current account.
LEMMA PassKinds ==
  ASSUME SyncType, LoginInv, Step
  PROVE  /\ UNCHANGED work
         /\ \/ \E s \in Slots : Switches(s)
            \/ /\ \A s \in Slots : ~(req[s].pc = "locked" /\ req'[s].pc = "answered")
               /\ \/ \E r \in Runners : PassStep(r)
                  \/ UNCHANGED <<cur, pass>>
                  \/ UNCHANGED cur /\ \E r \in Runners, b \in BOOLEAN : pass' = [pass EXCEPT ![r] = Started(b)]
<1>0. Flows \subseteq Runners /\ Slots \subseteq Runners /\ Loop \in Runners  BY AddAssumption, SyncAssumption
<1>1. CASE Quiet
  <2>1. ASSUME NEW s \in Slots, req[s].pc = "locked" PROVE req'[s].pc # "answered"
    BY <1>1, <2>1 DEF Quiet, EarlyReqs, Early
  <2>. QED  BY <1>1, <2>1 DEF Quiet
<1>2. ASSUME UNCHANGED req PROVE \A s \in Slots : ~(req[s].pc = "locked" /\ req'[s].pc = "answered")
  BY <1>2
<1>3. CASE OpensOwn  BY <1>2, <1>3, ElseFacts DEF OpensOwn, Sync, syncVars
<1>4. ASSUME NEW r \in Runners, Passing(r) PROVE UNCHANGED work /\ UNCHANGED req
  BY <1>4, PassActive, ElseFacts DEF Passing
<1>5. ASSUME NEW f \in Flows, Adding(Save(f))
      PROVE  /\ UNCHANGED <<work, cur, req>>
             /\ UNCHANGED pass \/ \E b \in BOOLEAN : pass' = [pass EXCEPT ![f] = Started(b)]
  BY <1>5 DEF Adding, Save
<1>6. CASE (LoopStarts \/ Elsewhere) /\ Same
  <2>1. UNCHANGED <<work, cur, req>> /\ (UNCHANGED pass \/ \E b \in BOOLEAN : pass' = [pass EXCEPT ![Loop] = Started(b)])
    BY <1>6, ElseFacts DEF LoopStarts, Elsewhere
  <2>. QED  BY <1>0, <1>2, <2>1
<1>7. ASSUME NEW s \in Slots, Operates(s), ~Switches(s)
      PROVE  /\ UNCHANGED <<work, cur>>
             /\ UNCHANGED pass \/ \E b \in BOOLEAN : pass' = [pass EXCEPT ![s] = Started(b)]
             /\ \A x \in Slots : ~(req[x].pc = "locked" /\ req'[x].pc = "answered")
  <2>1. \A x \in Slots \ {s} : req'[x] = req[x]  BY <1>7, WorksFacts
  <2>2. req[s].pc # "locked"
    BY <1>7 DEF Operates, Locks, DeletesRecord, Removes, Removed, Pushes, Pushed, Looks, Quits, Opens, At
  <2>3. UNCHANGED <<work, cur>> /\ (UNCHANGED pass \/ \E b \in BOOLEAN : pass' = [pass EXCEPT ![s] = Started(b)])
    BY <1>7 DEF Operates, Locks, DeletesRecord, Removes, Removed, Pushes, Pushed, Looks, Quits, Opens, Sync, syncVars
  <2>. QED  BY <2>1, <2>2, <2>3
<1>8. ASSUME NEW s \in Slots, Switches(s) PROVE UNCHANGED work  BY <1>8 DEF Switches
<1>9. ASSUME NEW s \in Slots, Operates(s) PROVE UNCHANGED work  BY <1>7, <1>8, <1>9
<1>10. UNCHANGED work  BY <1>1, <1>3, <1>4, <1>5, <1>6, <1>9, StepKinds DEF Quiet, OpensOwn, Sync, syncVars
<1>. QED
  <2>1. CASE Quiet  BY <1>1, <2>1
  <2>2. CASE OpensOwn  BY <1>3, <2>2
  <2>3. CASE \E s \in Slots : Operates(s)  BY <1>0, <1>7, <1>10, <2>3
  <2>4. CASE \E r \in Runners : Passing(r)  BY <1>2, <1>4, <2>4 DEF Passing
  <2>5. CASE \E f \in Flows : Adding(Save(f))  BY <1>0, <1>2, <1>5, <2>5
  <2>6. CASE (LoopStarts \/ Elsewhere) /\ Same  BY <1>6, <2>6
  <2>. QED  BY <2>1, <2>2, <2>3, <2>4, <2>5, <2>6, StepKinds

\* Every step keeps the account switched to, as long as a synced name keeps its owner.
LEMMA SwitchNext ==
  ASSUME NEW own, SyncType, LoginInv, SwitchInv(own), OneOwner(own), Step, History
  PROVE  SwitchInv(own)'
<1>0. pass \in [Runners -> PassRec] /\ UNCHANGED work /\ \A r \in Runners : PassFits(r)
  BY PassKinds DEF SyncType
<1>1. ASSUME NEW s \in Slots, Switches(s) PROVE SwitchInv(own)'
  <2>0. UNCHANGED pass /\ AddType /\ req[s].pc = "locked"  BY <1>1 DEF Switches, LoginInv, At
  <2>1. CASE Answer(s, "failed") /\ UNCHANGED cur
    <3>1. req'[s].out = "failed" /\ \A x \in Slots \ {s} : req'[x] = req[x]  BY <2>0, <2>1, AnswerFacts
    <3>2. UNCHANGED chosen  BY <3>1 DEF History
    <3>. QED  BY <1>0, <2>0, <2>1, <3>2 DEF SwitchInv, SwitchKept, Idle
  <2>2. CASE Answer(s, "ok")
    <3>1. req'[s].out = "ok" /\ req'[s].pc = "answered"  BY <2>0, <2>2, AnswerFacts
    <3>2. chosen' = IF \A r \in Runners : Idle(r) THEN cur'.who ELSE NoTok  BY <2>0, <3>1 DEF History
    <3>3. ASSUME chosen' # NoTok, NEW r \in Runners PROVE pass'[r].active = {}
      <4>1. pass[r] = OffPass  BY <1>0, <3>2, <3>3 DEF Idle, PassFits
      <4>. QED  BY <2>0, <4>1 DEF OffPass
    <3>. QED  BY <1>0, <2>0, <3>2, <3>3 DEF SwitchInv, SwitchKept, Idle
  <2>. QED  BY <1>1, <2>1, <2>2 DEF Switches
<1>2. ASSUME \A s \in Slots : ~(req[s].pc = "locked" /\ req'[s].pc = "answered") PROVE UNCHANGED chosen
  BY <1>2 DEF History
<1>3. ASSUME NEW r \in Runners, PassStep(r), UNCHANGED chosen PROVE SwitchInv(own)'
  <2>1. /\ pass'[r].active \in {pass[r].active, {}, {n \in Saved : store[n].who = cur.who}}
        /\ pass'[r].pc = "apply" => pass'[r].name \in pass'[r].active
        /\ \/ UNCHANGED cur
           \/ pass[r].pc = "apply" /\ store[pass[r].name] # NoTok /\ cur' = store[pass[r].name]
    BY <1>3, PassActive
  <2>2. ~Idle(r) /\ \A q \in Runners \ {r} : pass'[q] = pass[q]  BY <1>3, PassAlone
  <2>3. work.registry  BY <2>2 DEF SwitchInv
  <2>4. \A n \in Saved : store[n].who = own[n]  BY <2>3 DEF OneOwner, Saved
  <2>5. chosen # NoTok => \A n \in pass'[r].active : own[n] = chosen
    BY <2>1, <2>4 DEF SwitchInv, SwitchKept
  <2>6. SwitchKept'
    <3>1. CASE UNCHANGED cur  BY <1>3, <3>1 DEF SwitchInv, SwitchKept
    <3>2. CASE pass[r].pc = "apply" /\ store[pass[r].name] # NoTok /\ cur' = store[pass[r].name]
      <4>1. pass[r].name \in pass[r].active /\ pass[r].name \in Names  BY <1>0, <3>2 DEF SwitchInv, PassFits
      <4>2. store[pass[r].name].who = own[pass[r].name]  BY <2>4, <3>2, <4>1 DEF Saved
      <4>. QED  BY <1>3, <3>2, <4>1, <4>2 DEF SwitchInv, SwitchKept
    <3>. QED  BY <2>1, <3>1, <3>2
  <2>7. ~work'.registry => FALSE  BY <1>0, <2>3
  <2>. QED  BY <1>3, <2>1, <2>2, <2>5, <2>6, <2>7 DEF SwitchInv
<1>4. ASSUME UNCHANGED <<cur, pass, chosen>> PROVE SwitchInv(own)'
  BY <1>0, <1>4 DEF SwitchInv, SwitchKept, Idle
<1>5. ASSUME UNCHANGED <<cur, chosen>>, NEW r \in Runners, NEW b \in BOOLEAN, pass' = [pass EXCEPT ![r] = Started(b)]
      PROVE  SwitchInv(own)'
  <2>1. pass'[r] = Started(b) /\ \A q \in Runners \ {r} : pass'[q] = pass[q]  BY <1>0, <1>5
  <2>2. /\ pass'[r].active = {} /\ pass'[r].pc # "apply"
        /\ ~work.registry => pass'[r].pc = "off"
    BY <2>1, StartedTyped DEF OffPass
  <2>. QED  BY <1>0, <1>5, <2>1, <2>2 DEF SwitchInv, SwitchKept, Idle
<1>. QED  BY <1>1, <1>2, <1>3, <1>4, <1>5, PassKinds

-----------------------------------------------------------------------------
(* The inductive invariant *)

\* The tray icon opens no dialog.
TrayIdle == tab[Tray].polling = FALSE

\* And it never does.
LEMMA TrayKept ==
  ASSUME AddType, TrayIdle, Step
  PROVE  TrayIdle'
<1>0. tab \in [Actors -> PageRec] /\ Tray \in Actors /\ Tray \notin Tabs
  BY SlotFacts, AddAssumption DEF AddType
<1>1. ASSUME UNCHANGED tab PROVE TrayIdle'  BY <1>1 DEF TrayIdle
<1>2. ASSUME NEW t \in Tabs, NEW p, SetTab(t, p) PROVE TrayIdle'  BY <1>0, <1>2 DEF TrayIdle, SetTab
<1>3. CASE Operator
  <2>1. ASSUME NEW t \in Actors, Send(t) PROVE TrayIdle'
    <3>1. tab' = [tab EXCEPT ![t].plan = Tail(@)]  BY <2>1 DEF Send
    <3>. QED  BY <1>0, <3>1 DEF TrayIdle, PageRec
  <2>2. ASSUME NEW t \in Tabs, Adding(OpenDialog(t) \/ Submit(t) \/ EditName(t) \/ CancelDialog(t) \/ CloseTab(t))
        PROVE  TrayIdle'
    BY <1>2, <2>2 DEF Adding, OpenDialog, Submit, EditName, CancelDialog, CloseTab
  <2>3. CASE OpensOwn \/ \E f \in Flows : Adding(Authorize(f) \/ Decline(f))
    BY <1>1, <2>3 DEF OpensOwn, Add, Adding, Authorize, Decline
  <2>. QED  BY <1>3, <2>1, <2>2, <2>3 DEF Operator
<1>4. ASSUME NEW s \in Slots, SlotStep(s) PROVE UNCHANGED tab
  <2>1. CASE Quit(s) \/ Passing(s) \/ AddStep(s)
    BY <2>1 DEF Quit, Passing, AddStep, Adding, ServeAdd, ServeStarted, addVars
  <2>2. CASE Operates(s)
    BY <2>2 DEF Operates, Locks, Switches, DeletesRecord, Removes, Removed, Pushes, Pushed, Looks, Quits, Opens, Add
  <2>. QED  BY <1>4, <2>1, <2>2 DEF SlotStep, ActStep, Operates
<1>5. ASSUME NEW t \in Actors, PageStep(t) PROVE TrayIdle'
  <2>1. CASE Use(t)  BY <1>1, <2>1 DEF Use, Add
  <2>2. CASE t \in Tabs /\ Adding(UseAdded(t) \/ Poll(t) \/ \E s \in Polls(t) : UsePoll(t, s))
    BY <1>1, <1>2, <2>2 DEF Adding, UseAdded, Poll, UsePoll
  <2>. QED  BY <1>5, <2>1, <2>2 DEF PageStep
<1>6. CASE \/ Closes \/ Adding(ServeCancel) \/ \E f \in Flows : Adding(FlowStep(f))
           \/ Passing(Loop) \/ Adding(LoopStarts /\ UNCHANGED addVars) \/ Adding(Elsewhere /\ UNCHANGED addVars)
  <2>1. UNCHANGED tab
    BY <1>6 DEF Closes, Adding, ServeCancel, FlowStep, TimesOut, Exchange, Save, Settle, Passing, addVars
  <2>. QED  BY <1>1, <2>1
<1>. QED  BY <1>1, <1>3, <1>4, <1>5, <1>6 DEF Step

\* The console starts in the inductive invariant.
LEMMA Starts ==
  ASSUME ConsoleInit
  PROVE  IInv /\ TrayIdle /\ \A own : SwitchInv(own)
<1>0. /\ work \in Works /\ SyncWork(work)
      /\ store = [n \in Names |-> First(work.saved[n])] /\ reg = [n \in Names |-> First(work.listed[n])]
      /\ cur = First(work.active) /\ pass = [r \in Runners |-> OffPass] /\ left = work.bounds
      /\ lock = NoSlot /\ app = work.app /\ opens = work.opens
      /\ gone = {} /\ busy = {} /\ chosen = NoTok /\ closed = {}
      /\ req = [s \in Slots |-> NoReq] /\ tab = [t \in Actors |-> NewPage(t)]
  BY SyncAssumption DEF ConsoleInit, SyncInit, AddInit
<1>1. \A w \in Who \cup {NoTok} : First(w) \in TokOrNone /\ (w \in Who => First(w) \in Tok)
  <2>1. ASSUME NEW w \in Who PROVE First(w) \in Tok
    <3>1. w # NoTok /\ 1 \in 1..MaxGen  BY SyncAssumption DEF MaxGen
    <3>. QED  BY <3>1 DEF First, Tok
  <2>. QED  BY <2>1 DEF First, TokOrNone
<1>2. SyncType
  <2>1. \A n \in Names : work.saved[n] \in Who \cup {NoTok} /\ work.listed[n] \in Who \cup {NoTok}
    BY <1>0 DEF SyncWork
  <2>2. store \in [Names -> TokOrNone] /\ reg \in [Names -> TokOrNone]  BY <1>0, <1>1, <2>1
  <2>3. cur \in Tok /\ left \in LeftRec  BY <1>0, <1>1 DEF SyncWork, LeftRec
  <2>4. pass \in [Runners -> PassRec] /\ \A r \in Runners : PassFits(r)
    BY <1>0, OffTyped DEF PassFits, OffPass
  <2>. QED  BY <1>0, <2>2, <2>3, <2>4 DEF SyncType
<1>3. HistType  BY <1>0 DEF HistType
<1>4. DeskType  BY <1>0, ConsoleAssumption DEF DeskType
<1>5. \A s \in Slots : req[s].pc = "idle"  BY <1>0 DEF NoReq
<1>6. DeskInv  BY <1>0, <1>5 DEF DeskInv, At, DesktopSpared
<1>7. \A r \in Runners : Idle(r) /\ pass[r].active = {}  BY <1>0 DEF Idle, OffPass
<1>8. RemInv
  <2>1. SlotInv  BY <1>0, <1>5, <1>7, AddAssumption DEF SlotInv
  <2>2. Removing = {}  BY <1>5 DEF Removing
  <2>. QED  BY <1>0, <2>1, <2>2 DEF RemInv
<1>9. TrayIdle  BY <1>0, SlotFacts DEF TrayIdle, NewPage
<1>10. ASSUME NEW own PROVE SwitchInv(own)  BY <1>0, <1>7 DEF SwitchInv, SwitchKept, Idle
<1>. QED  BY <1>2, <1>3, <1>4, <1>6, <1>8, <1>9, <1>10, LoginInit DEF IInv

\* Every step keeps the inductive invariant.
LEMMA InvNext ==
  ASSUME IInv, TrayIdle, [Next]_vars
  PROVE  IInv' /\ TrayIdle'
<1>1. CASE Next
  <2>1. SyncType' /\ LoginInv' /\ DeskType' /\ DeskInv'
    BY <1>1, SyncNext, LoginNext, DeskNext DEF IInv, Next
  <2>2. RemInv' /\ HistType'  BY <1>1, RemNext DEF IInv, Next
  <2>3. TrayIdle'  BY <1>1, TrayKept DEF IInv, LoginInv, Next
  <2>. QED  BY <2>1, <2>2, <2>3 DEF IInv
<1>2. CASE UNCHANGED vars
  <2>0. UNCHANGED <<work, store, reg, cur, pass, left, tab, req, flow, lock, app, opens, closed, gone, busy, chosen>>
        /\ UNCHANGED addVars
    BY <1>2 DEF vars, syncVars, addVars
  <2>1. LoginInv'  BY <2>0, IdleLogin DEF IInv
  <2>2. SyncType'  BY <2>0 DEF IInv, SyncType, PassFits, OffPass
  <2>3. HistType' /\ DeskType'  BY <2>0 DEF IInv, HistType, DeskType
  <2>4. DeskInv'  BY <2>0 DEF IInv, DeskInv, At, DesktopSpared
  <2>5. RemInv'
    <3>1. Removing' = Removing  BY <2>0 DEF Removing
    <3>2. \A s \in Slots : (Others(s)' <=> Others(s)) /\ (Cleared(s)' <=> Cleared(s))
      BY <2>0 DEF Others, Cleared, Saving, Idle, NoMore
    <3>3. \A n : Gone(n)' <=> Gone(n)  BY <2>0 DEF Gone, NoMore
    <3>4. SlotInv'  BY <2>0 DEF IInv, RemInv, SlotInv, Idle
    <3>5. \A s \in Removing : s \in Slots  BY DEF Removing
    <3>. QED  BY <2>0, <3>1, <3>2, <3>3, <3>4, <3>5 DEF IInv, RemInv
  <2>6. TrayIdle'  BY <2>0 DEF TrayIdle
  <2>. QED  BY <2>1, <2>2, <2>3, <2>4, <2>5, <2>6 DEF IInv
<1>. QED  BY <1>1, <1>2

\* It holds in every reachable state.
LEMMA InvSpec == Spec => [](IInv /\ TrayIdle)
<1>1. ConsoleInit => IInv /\ TrayIdle  BY Starts
<1>2. IInv /\ TrayIdle /\ [Next]_vars => (IInv /\ TrayIdle)'  BY InvNext
<1>. QED  BY <1>1, <1>2, PTL DEF Spec

\* It implies the types and the properties of removals and Desktop.
LEMMA InvTyped ==
  ASSUME IInv, TrayIdle
  PROVE  TypeOK /\ RemovedStays /\ DesktopSpared
<1>0. /\ store \in [Names -> TokOrNone] /\ reg \in [Names -> TokOrNone] /\ cur \in Tok
      /\ \A r \in Runners : pass[r] \in PassRec /\ PassFits(r)
      /\ AddType /\ DeskType /\ HistType /\ DeskInv /\ RemInv
      /\ \A t \in Tabs : PageInv(t)
  BY DEF IInv, SyncType, LoginInv
<1>1. NoTok \notin Tok /\ NoName \notin Names  BY SyncAssumption DEF Tok, MaxGen
<1>2. SyncTypeOK
  <2>1. ASSUME NEW r \in Runners
        PROVE  /\ pass[r].pc \in {"off", "list", "look", "visit", "save", "apply", "upload"}
               /\ (pass[r].adopts \cup pass[r].pushes \cup pass[r].active) \subseteq Names
               /\ pass[r].got \in TokOrNone /\ pass[r].name \in Names \cup {NoName}
               /\ pass[r].pc \in {"save", "apply", "upload"} => pass[r].name # NoName /\ pass[r].got # NoTok
    <3>1. pass[r] \in PassRec /\ PassFits(r)  BY <1>0
    <3>2. /\ pass[r].pc \in {"off", "list", "look", "visit", "save", "apply", "upload"}
          /\ pass[r].adopts \in SUBSET Names /\ pass[r].pushes \in SUBSET Names /\ pass[r].active \in SUBSET Names
          /\ pass[r].got \in TokOrNone /\ pass[r].name \in NameOrNone
      BY <3>1 DEF PassRec
    <3>3. pass[r].pc \in {"save", "apply", "upload"} => pass[r].name # NoName /\ pass[r].got # NoTok
      BY <1>1, <3>1 DEF PassFits
    <3>. QED  BY <3>2, <3>3 DEF NameOrNone
  <2>. QED  BY <1>0, <2>1 DEF SyncTypeOK
<1>3. AddTypeOK
  <2>1. ASSUME NEW t \in Actors
        PROVE  /\ tab[t].name \in Names \cup {NoName} /\ tab[t].flow \in Flows \cup {NoFlow}
               /\ tab[t].win \in Flows \cup {"none", "blank", "gone"}
               /\ tab[t].polling => tab[t].flow # NoFlow
    <3>1. tab[t] \in PageRec  BY <1>0 DEF AddType
    <3>2. tab[t].polling => tab[t].flow # NoFlow
      <4>1. CASE t \in Tabs  BY <1>0, <4>1 DEF PageInv
      <4>2. CASE t = Tray  BY <4>2 DEF TrayIdle
      <4>. QED  BY <4>1, <4>2 DEF Actors
    <3>. QED  BY <3>1, <3>2 DEF PageRec, NameOrNone, FlowOrNone
  <2>2. \A s \in Slots : req[s].f \in Flows \cup {NoFlow} /\ req[s].out \in
       {"none", "confirm", "pending", "failed", "done", "error", "missing", "unreachable", "ok"}
    <3>1. \A s \in Slots : req[s] \in ReqRec  BY <1>0 DEF AddType
    <3>. QED  BY <3>1 DEF ReqRec, FlowOrNone
  <2>3. \A f \in Flows : flow[f].st \in
       {"new", "starting", "wait", "exchange", "save", "sync", "done", "error"}
    <3>1. \A f \in Flows : flow[f] \in FlowRec  BY <1>0 DEF AddType
    <3>. QED  BY <3>1 DEF FlowRec
  <2>. QED  BY <1>0, <2>1, <2>2, <2>3 DEF AddTypeOK, AddType, FlowOrNone
<1>4. \A s \in Slots : req[s].pc \in {"idle", "sent", "started", "locked", "deleted", "syncing",
                                     "quitting", "opening", "answered"}
  <2>1. \A s \in Slots : req[s] \in ReqRec  BY <1>0 DEF AddType
  <2>. QED  BY <2>1 DEF ReqRec
<1>5. TypeOK  BY <1>0, <1>2, <1>3, <1>4 DEF TypeOK, DeskType, DeskInv, HistType
<1>6. RemovedStays  BY <1>0 DEF RemovedStays, RemInv, Gone
<1>. QED  BY <1>0, <1>5, <1>6 DEF DeskInv

\* An account that was removed stays removed, unless a pass or a login ran besides the
\* removal, and without the operator's word no Desktop is closed that codexm did not
\* start, in every console; with the types of its state.
THEOREM ConsoleSafe == Spec => [](TypeOK /\ RemovedStays /\ DesktopSpared)
<1>1. IInv /\ TrayIdle => TypeOK /\ RemovedStays /\ DesktopSpared  BY InvTyped
<1>. QED  BY <1>1, InvSpec, PTL

\* The whole of ConsoleInv, with the account switched to, which no pass replaces as
\* long as no name that is synced is given to another identity: a login may do that,
\* and a pass that had looked before it then puts the new one in effect.
THEOREM ConsoleSound ==
  ASSUME NEW CONSTANT own
  PROVE  Spec /\ []OneOwner(own) => []ConsoleInv
<1>1. ConsoleInit => SwitchInv(own)  BY Starts
<1>2. IInv /\ SwitchInv(own) /\ OneOwner(own) /\ [Next]_vars => SwitchInv(own)'
  <2>1. ASSUME IInv, SwitchInv(own), OneOwner(own), Next PROVE SwitchInv(own)'
    BY <2>1, SwitchNext DEF IInv, Next
  <2>2. ASSUME SwitchInv(own), UNCHANGED vars PROVE SwitchInv(own)'
    <3>1. UNCHANGED <<work, pass, cur, chosen>>  BY <2>2 DEF vars, syncVars
    <3>. QED  BY <2>2, <3>1 DEF SwitchInv, SwitchKept, Idle
  <2>. QED  BY <2>1, <2>2
<1>3. Spec /\ []OneOwner(own) => []SwitchInv(own)
  BY <1>1, <1>2, InvSpec, PTL DEF Spec
<1>4. SwitchInv(own) /\ TypeOK /\ RemovedStays /\ DesktopSpared => ConsoleInv
  BY DEF SwitchInv, ConsoleInv
<1>. QED  BY <1>3, <1>4, ConsoleSafe, PTL
=============================================================================
