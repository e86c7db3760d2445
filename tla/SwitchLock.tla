----------------------------- MODULE SwitchLock -----------------------------
(***************************************************************************)
(* The switch/launch lock of codexm (src/src/switching.ts, from            *)
(* readSwitchLockOwner to the release closure of tryAcquireSwitchLock): a  *)
(* directory <codexTeamDir>/locks/switch.lock that mkdir creates           *)
(* exclusively, holding an owner.json that names the pid of the owner.     *)
(* `codexm switch`, `launch`, `proxy enable`, `proxy disable`, the watch   *)
(* sessions, the TUI and the UI server take it around every change of the  *)
(* current account, and give up when it is busy.                           *)
(*                                                                         *)
(* Every file-system call and every process.kill(pid, 0) is a step of its  *)
(* own, because another process may run between any two of them.  A        *)
(* recursive rm is two steps (owner.json, then the directory).             *)
(***************************************************************************)
EXTENDS Naturals, FiniteSets

CONSTANTS Procs,      \* operating-system processes; a pid is never reused
          NoPid,      \* owner.json does not exist
          Partial,    \* owner.json exists and is not (completely) written
          MaxExits,   \* bound: processes that exit or are killed in a behaviour
          MaxIoErrors \* bound: owner.json writes the file system refuses

ASSUME SwitchLockAssumption ==
  /\ NoPid \notin Procs /\ Partial \notin Procs /\ NoPid # Partial
  /\ MaxExits \in Nat /\ MaxIoErrors \in Nat

VARIABLES dir,      \* does the lock directory exist
          owner,    \* content of owner.json: a pid, Partial or NoPid
          handles,  \* processes whose open file is the one under owner.json
          pc,       \* where each process is in tryAcquireSwitchLock / release
          read,     \* the pid a process read from owner.json
          alive,    \* the processes that have not exited
          ioErrors, \* refused writes so far
          judged    \* history: processes that found a lock's owner dead

lockVars == <<dir, owner, handles, pc, read, alive, ioErrors, judged>>

\* idle      not in a lock operation
\* inspect   tryCreateLock returned false: about to read owner.json
\* probe     read a pid: about to ask whether it runs
\* steal1,2  rm of the dead owner's lock: owner.json, then the directory
\* recreate  the second tryCreateLock
\* created   mkdir succeeded: about to open owner.json
\* writing   owner.json opened and truncated, content not yet written
\* undo1,2   rm after a failed write of owner.json
\* held      acquired: true was returned
\* free1,2   rm of the release closure
PCs == {"idle", "inspect", "probe", "steal1", "steal2", "recreate", "created",
        "writing", "undo1", "undo2", "held", "free1", "free2"}

LockGoto(p, to) == pc' = [pc EXCEPT ![p] = to]

-----------------------------------------------------------------------------

LockInit ==
  /\ dir = FALSE
  /\ owner = NoPid
  /\ handles = {}
  /\ pc = [p \in Procs |-> "idle"]
  /\ read = [p \in Procs |-> NoPid]
  /\ alive = Procs
  /\ ioErrors = 0
  /\ judged = {}

\* Mutant of TryCreate: mkdir with recursive: true does not fail with EEXIST.
TryCreateRecursive(p) ==
  /\ pc[p] = "idle"
  /\ dir' = TRUE
  /\ LockGoto(p, "created")
  /\ UNCHANGED <<owner, handles, read, alive, ioErrors, judged>>

\* mkdir(lockPath): exclusive creation; EEXIST leads to the owner inspection.
TryCreate(p) ==
  /\ pc[p] = "idle"
  /\ dir' = TRUE
  /\ LockGoto(p, IF dir THEN "inspect" ELSE "created")
  /\ UNCHANGED <<owner, handles, read, alive, ioErrors, judged>>

\* Mutant of ReadOwner: the pid of an owner.json that did not parse is used.
ReadOwnerUnparsed(p) ==
  /\ pc[p] = "inspect"
  /\ read' = [read EXCEPT ![p] = owner] /\ LockGoto(p, "probe")
  /\ UNCHANGED <<dir, owner, handles, alive, ioErrors, judged>>

\* readSwitchLockOwner: only a complete owner.json ("ok") is acted upon;
\* "missing" and "invalid" make the caller report the lock busy.
ReadOwner(p) ==
  /\ pc[p] = "inspect"
  /\ IF owner \in Procs
       THEN read' = [read EXCEPT ![p] = owner] /\ LockGoto(p, "probe")
       ELSE UNCHANGED read /\ LockGoto(p, "idle")
  /\ UNCHANGED <<dir, owner, handles, alive, ioErrors, judged>>

\* Mutant of ProbeOwner: ESRCH is taken for a process that is alive.
ProbeOwnerNeverDead(p) ==
  /\ pc[p] = "probe"
  /\ LockGoto(p, "idle")
  /\ read' = [read EXCEPT ![p] = NoPid]
  /\ UNCHANGED <<dir, owner, handles, alive, ioErrors, judged>>

\* isProcessAlive(owner.pid), after the read returned.
ProbeOwner(p) ==
  /\ pc[p] = "probe"
  /\ LET dead == read[p] \notin alive
     IN  /\ LockGoto(p, IF dead THEN "steal1" ELSE "idle")
         /\ judged' = IF dead THEN judged \cup {p} ELSE judged
  /\ read' = [read EXCEPT ![p] = NoPid]
  /\ UNCHANGED <<dir, owner, handles, alive, ioErrors>>

\* rm(lockPath, {recursive, force}), first half: unlink owner.json.
Unlink(p, from, to) ==
  /\ pc[p] = from
  /\ owner' = NoPid
  /\ handles' = {}
  /\ LockGoto(p, to)
  /\ UNCHANGED <<dir, read, alive, ioErrors, judged>>

\* Second half: rmdir.  A directory that is not empty any more refuses
\* (ENOTEMPTY), and the error ends the caller's operation; the directory
\* being gone already is not an error (force).
Rmdir(p, from, to) ==
  /\ pc[p] = from
  /\ IF owner = NoPid
       THEN dir' = FALSE /\ LockGoto(p, to)
       ELSE UNCHANGED dir /\ LockGoto(p, "idle")
  /\ UNCHANGED <<owner, handles, read, alive, ioErrors, judged>>

\* The second mkdir, after the dead owner's lock was removed; if somebody
\* else was faster the lock is reported busy.
Recreate(p) ==
  /\ pc[p] = "recreate"
  /\ dir' = TRUE
  /\ LockGoto(p, IF dir THEN "idle" ELSE "created")
  /\ UNCHANGED <<owner, handles, read, alive, ioErrors, judged>>

\* writeFile(owner.json): open and truncate, then the content.  Without its
\* directory (ENOENT) the open fails.
OpenOwner(p) ==
  /\ pc[p] = "created"
  /\ IF dir
       THEN owner' = Partial /\ handles' = handles \cup {p} /\ LockGoto(p, "writing")
       ELSE UNCHANGED <<owner, handles>> /\ LockGoto(p, "undo1")
  /\ UNCHANGED <<dir, read, alive, ioErrors, judged>>

\* The content goes to the file that was opened: if that was unlinked since,
\* nothing is seen of it under the path.
WriteOwner(p) ==
  /\ pc[p] = "writing"
  /\ owner' = IF p \in handles THEN p ELSE owner
  /\ handles' = handles \ {p}
  /\ LockGoto(p, "held")
  /\ UNCHANGED <<dir, read, alive, ioErrors, judged>>

\* Mutant of WriteOwnerFails: the error is swallowed and the lock reported held.
WriteOwnerFailsSilently(p) ==
  /\ pc[p] \in {"created", "writing"}
  /\ ioErrors < MaxIoErrors
  /\ ioErrors' = ioErrors + 1
  /\ handles' = handles \ {p}
  /\ LockGoto(p, "held")
  /\ UNCHANGED <<dir, owner, read, alive, judged>>

\* The file system refuses the open or the write; the caller removes its lock.
WriteOwnerFails(p) ==
  /\ pc[p] \in {"created", "writing"}
  /\ ioErrors < MaxIoErrors
  /\ ioErrors' = ioErrors + 1
  /\ handles' = handles \ {p}
  /\ LockGoto(p, "undo1")
  /\ UNCHANGED <<dir, owner, read, alive, judged>>

\* The operation under the lock ends: its finally block calls release().
Release(p) ==
  /\ pc[p] = "held"
  /\ LockGoto(p, "free1")
  /\ UNCHANGED <<dir, owner, handles, read, alive, ioErrors, judged>>

\* The process ends: a CLI command that has finished, or a kill anywhere.
Exit(p) ==
  /\ p \in alive
  /\ Cardinality(Procs \ alive) < MaxExits
  /\ alive' = alive \ {p}
  /\ UNCHANGED <<dir, owner, handles, pc, read, ioErrors, judged>>

LockStep(p) ==
  /\ p \in alive
  /\ \/ TryCreate(p) \/ ReadOwner(p) \/ ProbeOwner(p)
     \/ Unlink(p, "steal1", "steal2") \/ Rmdir(p, "steal2", "recreate")
     \/ Recreate(p) \/ OpenOwner(p) \/ WriteOwner(p) \/ WriteOwnerFails(p)
     \/ Unlink(p, "undo1", "undo2") \/ Rmdir(p, "undo2", "idle")
     \/ Release(p)
     \/ Unlink(p, "free1", "free2") \/ Rmdir(p, "free2", "idle")

LockNext == \E p \in Procs : LockStep(p) \/ Exit(p)

LockSpec == LockInit /\ [][LockNext]_lockVars

\* A live process goes on with the operation it is in, and the watch sessions
\* keep trying for the lock (one attempt per quota event).
LockFairSpec == LockSpec /\ \A p \in Procs : WF_lockVars(LockStep(p))

-----------------------------------------------------------------------------
(* Properties *)

LockTypeOK ==
  /\ dir \in BOOLEAN
  /\ owner \in Procs \cup {NoPid, Partial}
  /\ handles \subseteq Procs
  /\ pc \in [Procs -> PCs]
  /\ read \in [Procs -> Procs \cup {NoPid}]
  /\ alive \subseteq Procs
  /\ ioErrors \in Nat
  /\ judged \subseteq Procs

\* The live processes tryAcquireSwitchLock has told that they own the lock.
Holders == {p \in alive : pc[p] = "held"}

\* At most one running process is between acquired: true and release(): what
\* describeBusySwitchLock tells the losers ("another codexm switch or launch
\* operation is already in progress").
MutualExclusion == \A p, q \in Holders : p = q

\* Until some contender has judged a lock's owner dead, the lock excludes:
\* neither a slow owner.json write, nor a refused one, nor the two-step rm of
\* release() lets a second process in.
MutexUntilTakeover == judged = {} => MutualExclusion

\* Until then the lock of a live owner is also intact, so that contenders see
\* whom they wait for: directory present, owner.json naming the owner.
HolderRecorded ==
  judged = {} => \A p \in Holders : dir /\ owner = p

\* The lock's files and its processes, and a holder that contenders can see
\* (tryAcquireSwitchLock).
LockInv == LockTypeOK /\ HolderRecorded

\* A lock whose recorded owner has died does not stay: some live contender
\* removes it.
DeadOwnerRecovered ==
  (dir /\ owner \in Procs \ alive) ~> ~(dir /\ owner \in Procs \ alive)
=============================================================================
