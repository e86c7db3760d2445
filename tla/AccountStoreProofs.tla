------------------------- MODULE AccountStoreProofs -------------------------
(***************************************************************************)
(* What the store guarantees for every number of accounts, identities,     *)
(* tokens, processes and crashes, when its operations do not overlap, or   *)
(* when only switches, refreshes and protections do: accounts are readable *)
(* but for what a crash left, no identity is saved twice, tokens in use    *)
(* are live, and a reported switch stays in effect, up to the exceptions   *)
(* that TokensLive and SwitchSticks name.  The two disciplines have an     *)
(* inductive invariant each: AloneInv, TameInv.                            *)
(***************************************************************************)
EXTENDS AccountStore, TLAPS, FiniteSetTheorems

\* The operations that tolerate one another.
TameOps == {"switch", "refresh", "quota", "protect"}

\* In every workload one process performs operations, or only those are performed.
\* Operations that overlap otherwise can undo one another (README, disagreements).
Disciplined == \A l \in Loads :
  (\A p, q \in l.procs : p = q) \/ l.ops \subseteq TameOps

Alone == \A p, q \in load.procs : p = q
Tame == load.ops \subseteq TameOps

\* The snapshots that a refresh has not consumed, or whose successor was dropped.
Usable == live \cup dropped

-----------------------------------------------------------------------------

\* An auth or a quota refresh.
Refreshing(p) == mem[p].op \in {"refresh", "quota"}

USE DEF past, Usable, Refreshing

\* Where an operation can be.
Placed(p) ==
  \/ mem[p].op \in {"save", "add"} /\ pc[p] \in {"dup", "auth", "meta"}
  \/ mem[p].op = "update" /\ pc[p] \in {"reread", "auth", "meta"}
  \/ mem[p].op = "switch" /\ pc[p] \in {"backup", "copy", "current", "verify", "meta", "state"}
  \/ Refreshing(p) /\ pc[p] \in {"request", "auth", "sync", "syncWrite", "meta"}
  \/ mem[p].op = "protect" /\ pc[p] = "meta"
  \/ mem[p].op = "remove" /\ pc[p] = "unlink"
  \/ mem[p].op = "rename" /\ pc[p] \in {"remeta", "meta"}
PlaceOf(p) ==
  /\ pc[p] = "idle" => mem[p] = NoMem
  /\ pc[p] # "idle" => /\ p \in load.procs /\ mem[p].op \in load.ops
                       /\ mem[p].name \in Names /\ Placed(p)
  /\ switchLock = p <=> mem[p].op = "switch"
PlaceInv == \A p \in Procs : PlaceOf(p)

-----------------------------------------------------------------------------
(* What every step does to the processes *)

Places == {"idle", "dup", "auth", "meta", "reread", "backup", "copy", "current", "verify",
           "state", "request", "sync", "syncWrite", "unlink", "remeta"}
Mems == [op : AllOps \cup {"none"}, name : Names \cup {NoName}, auth : Auths, meta : Metas]

\* p moves: its place and its local variables, and the switch lock if it takes or
\* releases it.
Moves(p) ==
  /\ p \in load.procs /\ load' = load
  /\ mem' = [mem EXCEPT ![p] = mem'[p]]
  /\ pc' = [pc EXCEPT ![p] = pc'[p]]
  /\ \/ switchLock' = switchLock
     \/ switchLock = NoProc /\ switchLock' = p
     \/ switchLock = p /\ switchLock' = NoProc

\* A step of p leaves the others where they are.
Apart(p) ==
  /\ load' = load
  /\ \A q \in Procs \ {p} : /\ pc'[q] = pc[q] /\ mem'[q] = mem[q]
                            /\ switchLock' = q <=> switchLock = q

LEMMA MovesAlone ==
  ASSUME TypeOK, NEW p \in Procs, Moves(p)
  PROVE  Apart(p)
<1>1. \A q \in Procs \ {p} : pc'[q] = pc[q] /\ mem'[q] = mem[q]  BY DEF Moves, TypeOK
<1>2. \A q \in Procs \ {p} : switchLock' = q <=> switchLock = q
  BY AccountStoreAssumption DEF Moves
<1> QED  BY <1>1, <1>2 DEF Apart, Moves

\* The local part of the type invariant.
LocalTypes ==
  /\ pc \in [Procs -> Places] /\ mem \in [Procs -> Mems]
  /\ switchLock \in Procs \cup {NoProc} /\ load \in Loads

LEMMA MovesTyped ==
  ASSUME TypeOK, NEW p \in Procs, Moves(p), mem'[p] \in Mems, pc'[p] \in Places
  PROVE  LocalTypes'
<1>1. pc \in [Procs -> Places] /\ mem \in [Procs -> Mems]
  BY DEF TypeOK, Places, Mems
<1>2. pc' \in [Procs -> Places]  BY <1>1 DEF Moves
<1>3. mem' \in [Procs -> Mems]  BY <1>1 DEF Moves
<1>4. switchLock' \in Procs \cup {NoProc} /\ load' \in Loads  BY DEF Moves, TypeOK
<1> QED  BY <1>2, <1>3, <1>4 DEF LocalTypes

\* What p looks like when its operation has ended.
Ended(p) == pc'[p] = "idle" /\ mem'[p] = NoMem /\ switchLock' # p

LEMMA Starting ==
  ASSUME TypeOK, PlaceInv, NEW p \in Procs, NEW op \in AllOps, NEW to \in Places,
         pc[p] = "idle", p \in load.procs, op \in load.ops, load' = load,
         mem' = [mem EXCEPT ![p] = mem'[p]], mem'[p] \in Mems, mem'[p].op = op,
         Goto(p, to),
         IF op = "switch" THEN switchLock = NoProc /\ switchLock' = p
                          ELSE switchLock' = switchLock
  PROVE  /\ Moves(p) /\ LocalTypes' /\ mem[p] = NoMem /\ pc'[p] = to
         /\ switchLock' = p <=> mem'[p].op = "switch"
<1>1. pc' = [pc EXCEPT ![p] = to] /\ pc'[p] = to  BY DEF Goto, TypeOK
<1>2. Moves(p)  BY <1>1 DEF Moves
<1>3. LocalTypes'  BY <1>1, <1>2, MovesTyped
<1>4. mem[p] = NoMem /\ switchLock # p  BY DEF PlaceInv, PlaceOf, NoMem
<1> QED  BY <1>1, <1>2, <1>3, <1>4

\* An operation that goes on keeps its kind and its name.
LEMMA Continuing ==
  ASSUME TypeOK, PlaceInv, NEW p \in Procs, pc[p] # "idle", NEW to \in Places \ {"idle"},
         Goto(p, to), UNCHANGED <<switchLock, load>>,
         mem' = [mem EXCEPT ![p] = mem'[p]], mem'[p] \in Mems,
         mem'[p].op = mem[p].op, mem'[p].name = mem[p].name
  PROVE  /\ Moves(p) /\ LocalTypes' /\ pc'[p] = to
         /\ Placed(p)' => PlaceOf(p)'
<1>1. pc' = [pc EXCEPT ![p] = to] /\ pc'[p] = to  BY DEF Goto, TypeOK
<1>2. p \in load.procs /\ PlaceOf(p)  BY DEF PlaceInv, PlaceOf
<1>3. Moves(p)  BY <1>1, <1>2 DEF Moves
<1>4. LocalTypes'  BY <1>1, <1>3, MovesTyped
<1>5. Placed(p)' => PlaceOf(p)'  BY <1>1, <1>2 DEF PlaceOf
<1> QED  BY <1>1, <1>3, <1>4, <1>5

LEMMA Ending ==
  ASSUME TypeOK, PlaceInv, NEW p \in Procs, pc[p] # "idle", load' = load, Finish(p)
  PROVE  Ended(p) /\ Moves(p) /\ LocalTypes' /\ PlaceOf(p)'
<1>1. p \in load.procs  BY DEF PlaceInv, PlaceOf
<1>2. pc' = [pc EXCEPT ![p] = "idle"] /\ mem' = [mem EXCEPT ![p] = NoMem]
  BY DEF Finish, Goto
<1>3. pc'[p] = "idle" /\ mem'[p] = NoMem  BY <1>2 DEF TypeOK
<1>4. switchLock' = IF switchLock = p THEN NoProc ELSE switchLock  BY DEF Finish
<1>5. Moves(p) /\ switchLock' # p  BY <1>1, <1>2, <1>3, <1>4, AccountStoreAssumption DEF Moves
<1>6. mem'[p] \in Mems /\ pc'[p] \in Places
  BY <1>3 DEF NoMem, Mems, Auths, Metas, Places
<1>7. LocalTypes'  BY <1>5, <1>6, MovesTyped
<1>8. PlaceOf(p)'  BY <1>3, <1>5 DEF PlaceOf, NoMem
<1> QED  BY <1>3, <1>5, <1>7, <1>8 DEF Ended

LEMMA FilesTyped ==
  ASSUME TypeOK, LocalTypes', UNCHANGED <<files, oauth, crashes, past>>
  PROVE  TypeOK'
BY DEF TypeOK, LocalTypes, files, oauth, Places, Mems

LEMMA ValidMeta ==
  ASSUME TypeOK, NEW n \in Names, Valid(n)
  PROVE  /\ auth[n] \in [id : Ids, tok : 1..MaxTokens]
         /\ meta[n] \in [name : Names, id : Ids, eligible : BOOLEAN]
         /\ meta[n] # NoMeta /\ meta[n].name = n /\ meta[n].id = auth[n].id
BY DEF TypeOK, Valid, Auths, Metas

-----------------------------------------------------------------------------
(* One process performs operations: its invariant *)

\* An operation that puts a snapshot and a new meta under its name; one that keeps
\* an account that can be read.
Saving(p) == mem[p].op \in {"save", "add", "update"} /\ pc[p] \in {"dup", "auth", "meta"}
Keeping(p) == mem[p].op \in {"switch", "quota", "protect", "refresh"}

\* Snapshot and meta agree, whatever name the meta has.
Fixable(n) == auth[n] # NoAuth /\ meta[n] # NoMeta /\ meta[n].id = auth[n].id

\* What the local variables of an operation hold.
Knows(p) == LET n == mem[p].name IN
  /\ Keeping(p) => /\ Valid(n) /\ mem[p].meta # NoMeta
                   /\ mem[p].meta.name = n /\ mem[p].meta.id = auth[n].id
  /\ mem[p].op \in {"switch", "quota", "refresh"} =>
       mem[p].auth # NoAuth /\ mem[p].auth.id = auth[n].id
  /\ mem[p].op = "switch" /\ pc[p] \in {"verify", "meta", "state"} => current.id = mem[p].auth.id
  /\ pc[p] = "syncWrite" => current.id = mem[p].auth.id
  /\ pc[p] = "reread" => Valid(n) /\ current # NoAuth /\ auth[n].id = current.id
  /\ Saving(p) => mem[p].auth # NoAuth /\ mem[p].meta = NewMeta(n, mem[p].auth)
  /\ Saving(p) /\ pc[p] = "meta" => n \in dirs /\ auth[n] = mem[p].auth
  /\ pc[p] = "unlink" => auth[n] = NoAuth
  /\ mem[p].op = "rename" => n \in dirs
  /\ mem[p].op = "rename" /\ pc[p] = "meta" =>
       meta[n] # NoMeta /\ mem[p].meta = [meta[n] EXCEPT !.name = n]

\* Until a crash: the identity that is being saved is not that of another account,
\* and what is going to be written is live.
Claims(p) == LET n == mem[p].name IN
  /\ Saving(p) /\ pc[p] \in {"auth", "meta"} =>
       \A m \in Names \ {n} : Valid(m) => auth[m].id # mem[p].auth.id
  /\ mem[p].op = "rename" => \A m \in Names \ {n} : Valid(m) => auth[m].id # auth[n].id
  /\ Saving(p) => mem[p].auth \in Usable
  /\ pc[p] \in {"sync", "syncWrite"} \/ (Refreshing(p) /\ pc[p] = "auth") =>
       mem[p].auth \in Usable
  /\ pc[p] = "current" => mem[p].auth \in Usable

\* The accounts that cannot be read, but for the one that an operation is about to
\* make readable or remove: at most one for each crash.
Fixing(p) ==
  \/ mem[p].op \in {"save", "add", "update"} /\ pc[p] \in {"auth", "meta"}
  \/ pc[p] = "unlink"
  \/ mem[p].op = "rename" /\ Fixable(mem[p].name)
Broken == {n \in dirs : ~Valid(n)}
Bad == {n \in Broken : \A p \in Procs : Fixing(p) => mem[p].name # n}
BrokenInv == IsFiniteSet(Bad) /\ Cardinality(Bad) <= crashes

\* Until a crash: the tokens in use are live, but for a refresh that has not written
\* its new one everywhere yet, and the account that is being removed.
Outdates(p) == /\ Refreshing(p) /\ pc[p] \in {"auth", "sync", "syncWrite"}
               /\ current.id = mem[p].auth.id
Replaces(p) == pc[p] = "unlink" \/ (Refreshing(p) /\ pc[p] = "auth")
CurrentLive == current \in Usable \/ \E p \in Procs : Outdates(p)
SavedLive == \A n \in dirs :
  auth[n] \in Usable \/ \E p \in Procs : Replaces(p) /\ mem[p].name = n

\* Until a crash: the last switch is in effect, unless one is under way.
Switching(p) == mem[p].op = "switch" /\ pc[p] \in {"verify", "meta", "state"}
Sticks == switched = NoId \/ current.id = switched \/ \E p \in Procs : Switching(p)

OneEach == \A m, n \in Names : Valid(m) /\ Valid(n) /\ auth[m].id = auth[n].id => m = n

NoCrashInv == /\ \A p \in Procs : Claims(p)
              /\ OneEach /\ CurrentLive /\ SavedLive /\ Sticks

AloneInv ==
  /\ TypeOK /\ PlaceInv /\ BrokenInv
  /\ \A p \in Procs : Knows(p)
  /\ crashes = 0 => NoCrashInv

-----------------------------------------------------------------------------
(* The other processes *)

\* The processes other than p rest.
Solo(p) == \A q \in Procs \ {p} : pc[q] = "idle" /\ mem[q] = NoMem

LEMMA OthersRest ==
  ASSUME Alone, PlaceInv, NEW p \in Procs, p \in load.procs
  PROVE  Solo(p)
<1> SUFFICES ASSUME NEW q \in Procs \ {p}, pc[q] # "idle" PROVE FALSE
  BY DEF Solo, PlaceInv, PlaceOf
<1>1. q \in load.procs  BY DEF PlaceInv, PlaceOf
<1> QED  BY <1>1 DEF Alone

LEMMA OthersKeep ==
  ASSUME PlaceInv, NEW p \in Procs, NEW q \in Procs \ {p}, Apart(p), Solo(p)
  PROVE  PlaceOf(q)' /\ Knows(q)' /\ Claims(q)'
<1>1. pc'[q] = "idle" /\ mem'[q] = NoMem /\ (switchLock' = q <=> switchLock = q)
  BY DEF Apart, Solo
<1>2. PlaceOf(q)'  BY <1>1 DEF PlaceInv, PlaceOf, Solo
<1> QED  BY <1>1, <1>2 DEF Knows, Claims, NoMem, Keeping, Saving

-----------------------------------------------------------------------------
(* The invariant, seen from the process that performs the step *)

BadOf(p) == {n \in Broken : Fixing(p) => mem[p].name # n}
Fine(p) ==
  /\ Claims(p) /\ OneEach /\ Sticks
  /\ current \in Usable \/ Outdates(p)
  /\ \A n \in dirs : auth[n] \in Usable \/ (Replaces(p) /\ mem[p].name = n)
Sound(p) ==
  /\ PlaceOf(p) /\ Knows(p)
  /\ IsFiniteSet(BadOf(p)) /\ Cardinality(BadOf(p)) <= crashes
  /\ crashes = 0 => Fine(p)

LEMMA Narrow ==
  ASSUME AloneInv, NEW p \in Procs, Solo(p)
  PROVE  Sound(p)
<1>1. \A q \in Procs \ {p} : ~Fixing(q) /\ ~Outdates(q) /\ ~Replaces(q)
  BY DEF Solo, NoMem, Fixing, Outdates, Replaces
<1>2. Bad = BadOf(p)  BY <1>1 DEF Bad, BadOf
<1>3. PlaceOf(p) /\ Knows(p)  BY DEF AloneInv, PlaceInv
<1>4. IsFiniteSet(BadOf(p)) /\ Cardinality(BadOf(p)) <= crashes
  BY <1>2 DEF AloneInv, BrokenInv
<1>5. ASSUME crashes = 0 PROVE Fine(p)
  BY <1>1, <1>5 DEF AloneInv, NoCrashInv, Fine, CurrentLive, SavedLive
<1> QED  BY <1>3, <1>4, <1>5 DEF Sound

LEMMA Widen ==
  ASSUME AloneInv, TypeOK', NEW p \in Procs, Solo(p), Apart(p),
         crashes' = 0 => crashes = 0, Sound(p)'
  PROVE  AloneInv'
<1>1. ASSUME NEW q \in Procs \ {p} PROVE PlaceOf(q)' /\ Knows(q)' /\ Claims(q)'
  BY OthersKeep DEF AloneInv
<1>2. \A q \in Procs \ {p} : ~Fixing(q)' /\ ~Outdates(q)' /\ ~Replaces(q)'
  BY DEF Apart, Solo, NoMem, Fixing, Outdates, Replaces
<1>3. PlaceInv' /\ (\A q \in Procs : Knows(q)')
  BY <1>1 DEF PlaceInv, Sound
<1>4. Bad' = BadOf(p)'  BY <1>2 DEF Bad, BadOf
<1>5. BrokenInv'  BY <1>4 DEF BrokenInv, Sound
<1>6. ASSUME crashes' = 0 PROVE NoCrashInv'
  <2>1. Fine(p)'  BY <1>6 DEF Sound
  <2>3. \A q \in Procs : Claims(q)'  BY <1>1, <2>1 DEF Fine
  <2>4. CurrentLive' /\ SavedLive'  BY <2>1 DEF Fine, CurrentLive, SavedLive
  <2> QED  BY <2>1, <2>3, <2>4 DEF Fine, NoCrashInv
<1> QED  BY <1>3, <1>5, <1>6 DEF AloneInv

\* A step that writes no file and takes no token: only the local state of p moves.
Still(p) ==
  /\ dirs' = dirs /\ auth' = auth /\ meta' = meta /\ current' = current
  /\ Usable \subseteq Usable' /\ switched' = switched /\ crashes' = crashes
  /\ Apart(p)

LEMMA Ends ==
  ASSUME NEW p \in Procs, Ended(p)
  PROVE  PlaceOf(p)' /\ Knows(p)' /\ Claims(p)' /\ ~Fixing(p)'
BY DEF Ended, PlaceOf, Knows, Claims, Fixing, NoMem, Keeping, Saving

LEMMA StillKeeps ==
  ASSUME AloneInv, TypeOK', NEW p \in Procs, Solo(p), Still(p),
         PlaceOf(p)', Knows(p)', Claims(p) /\ crashes = 0 => Claims(p)',
         Fixing(p) => Fixing(p)' /\ mem'[p].name = mem[p].name,
         Outdates(p) => Outdates(p)', ~Replaces(p), Switching(p) => Switching(p)'
  PROVE  AloneInv'
<1>1. Sound(p)  BY Narrow
<1>2. Apart(p)  BY DEF Still
<1>3. BadOf(p)' \subseteq BadOf(p)
  <2>1. Broken' = Broken  BY DEF Still, Broken, Valid
  <2> QED  BY <2>1 DEF BadOf
<1>4. IsFiniteSet(BadOf(p)') /\ Cardinality(BadOf(p)') <= crashes'
  <2>1. IsFiniteSet(BadOf(p)) /\ Cardinality(BadOf(p)) <= crashes  BY <1>1 DEF Sound
  <2>2. IsFiniteSet(BadOf(p)') /\ Cardinality(BadOf(p)') <= Cardinality(BadOf(p))
    BY <2>1, <1>3, FS_Subset
  <2>3. Cardinality(BadOf(p)') \in Nat /\ Cardinality(BadOf(p)) \in Nat
    BY <2>1, <2>2, FS_CardinalityType
  <2>4. crashes \in Nat /\ crashes' = crashes  BY DEF AloneInv, TypeOK, Still
  <2> QED  BY <2>1, <2>2, <2>3, <2>4
<1>5. ASSUME crashes' = 0 PROVE Fine(p)'
  <2>1. Fine(p)  BY <1>1, <1>5 DEF Sound, Still
  <2>2. Claims(p)'  BY <2>1, <1>5 DEF Fine, Still
  <2>3. OneEach'  BY <2>1 DEF Fine, OneEach, Still, Valid
  <2>4. Sticks'
    <3>1. \A q \in Procs \ {p} : Switching(q) => Switching(q)'
      BY <1>2 DEF Apart, Switching
    <3> QED  BY <2>1, <3>1 DEF Fine, Sticks, Still
  <2>5. current' \in Usable' \/ Outdates(p)'  BY <2>1 DEF Fine, Still
  <2>6. \A n \in dirs' : auth'[n] \in Usable'  BY <2>1 DEF Fine, Still
  <2> QED  BY <2>2, <2>3, <2>4, <2>5, <2>6 DEF Fine
<1>6. Sound(p)'  BY <1>4, <1>5 DEF Sound
<1> QED  BY <1>2, <1>6, Widen DEF Still

\* What is known of a process in the middle of an operation.
LEMMA Busy ==
  ASSUME AloneInv, NEW p \in Procs, pc[p] # "idle"
  PROVE  /\ p \in load.procs /\ mem[p].op \in load.ops /\ mem[p].name \in Names
         /\ Placed(p) /\ PlaceOf(p) /\ Knows(p) /\ mem[p] \in Mems
         /\ switchLock = p <=> mem[p].op = "switch"
         /\ crashes = 0 => Claims(p)
<1>1. PlaceOf(p) /\ Knows(p)  BY DEF AloneInv, PlaceInv
<1>2. mem[p] \in Mems  BY DEF AloneInv, TypeOK, Mems
<1>3. crashes = 0 => Claims(p)  BY DEF AloneInv, NoCrashInv
<1> QED  BY <1>1, <1>2, <1>3 DEF PlaceOf

LEMMA MovesApart ==
  ASSUME Alone, AloneInv, NEW p \in Procs, Moves(p)
  PROVE  Apart(p) /\ Solo(p)
BY MovesAlone, OthersRest DEF AloneInv, Moves

\* The end of an operation.
LEMMA Finishes ==
  ASSUME AloneInv, NEW p \in Procs, pc[p] # "idle", load' = load, Finish(p)
  PROVE  Ended(p) /\ Moves(p) /\ LocalTypes'
BY Ending DEF AloneInv

\* The beginning of an operation; what it stores in mem[p] is said where it is used.
LEMMA Begins ==
  ASSUME Alone, AloneInv, NEW p \in Procs, NEW op \in AllOps, NEW to \in Places,
         pc[p] = "idle", p \in load.procs, op \in load.ops, load' = load,
         mem' = [mem EXCEPT ![p] = mem'[p]], mem'[p] \in Mems, mem'[p].op = op,
         Goto(p, to),
         IF op = "switch" THEN switchLock = NoProc /\ switchLock' = p
                          ELSE switchLock' = switchLock
  PROVE  /\ Moves(p) /\ LocalTypes' /\ mem[p] = NoMem /\ pc'[p] = to
         /\ switchLock' = p <=> mem'[p].op = "switch"
         /\ Claims(p) /\ ~Fixing(p) /\ ~Outdates(p) /\ ~Replaces(p) /\ ~Switching(p)
<1>1. /\ Moves(p) /\ LocalTypes' /\ mem[p] = NoMem /\ pc'[p] = to
      /\ switchLock' = p <=> mem'[p].op = "switch"
  BY Starting DEF AloneInv
<1>2. Claims(p) /\ ~Fixing(p) /\ ~Outdates(p) /\ ~Replaces(p) /\ ~Switching(p)
  BY <1>1 DEF Claims, Fixing, Outdates, Replaces, Switching, NoMem, Saving
<1> QED  BY <1>1, <1>2

-----------------------------------------------------------------------------
(* The beginnings that write no file *)

\* A lemma for each: what the process stores, then StillKeeps.
LEMMA SaveBegins ==
  ASSUME Alone, AloneInv, NEW p \in Procs, NEW n \in Names, SaveBegin(p, n)
  PROVE  AloneInv'
<1>1. /\ pc[p] = "idle" /\ p \in load.procs /\ "save" \in load.ops
      /\ mem' = [mem EXCEPT ![p] = [op |-> "save", name |-> n, auth |-> current,
                                    meta |-> NewMeta(n, current)]]
      /\ Goto(p, "dup") /\ current # NoAuth
  BY DEF SaveBegin, Begin
<1>2. UNCHANGED <<files, oauth, switchLock, load, crashes, past>>  BY DEF SaveBegin
<1>3. mem'[p] = [op |-> "save", name |-> n, auth |-> current, meta |-> NewMeta(n, current)]
  BY <1>1 DEF AloneInv, TypeOK
<1>4. current \in Auths /\ NewMeta(n, current) \in Metas
  BY <1>1 DEF AloneInv, TypeOK, NewMeta, Auths, Metas
<1>5. mem'[p] \in Mems /\ mem'[p].op = "save"  BY <1>3, <1>4 DEF Mems, AllOps
<1>6. /\ Moves(p) /\ LocalTypes' /\ mem[p] = NoMem /\ pc'[p] = "dup"
      /\ switchLock' = p <=> mem'[p].op = "switch"
      /\ ~Fixing(p) /\ ~Outdates(p) /\ ~Replaces(p) /\ ~Switching(p)
  BY <1>1, <1>2, <1>3, <1>5, Begins DEF AllOps, Places
<1>7. Apart(p) /\ Solo(p)  BY <1>6, MovesApart
<1>8. Still(p)  BY <1>2, <1>7 DEF Still, files, oauth
<1>9. TypeOK'  BY <1>2, <1>6, FilesTyped DEF AloneInv
<1>10. PlaceOf(p)'  BY <1>1, <1>2, <1>3, <1>6 DEF PlaceOf, Placed
<1>11. Knows(p)'
  <2>1. /\ mem'[p].op = "save" /\ mem'[p].name = n /\ mem'[p].auth = current
        /\ mem'[p].meta = NewMeta(n, current)
    BY <1>3
  <2>2. mem'[p].meta = NewMeta(n, mem'[p].auth) /\ mem'[p].auth # NoAuth  BY <1>1, <2>1
  <2> QED  BY <1>6, <2>1, <2>2 DEF Knows, Keeping, Saving
<1>12. ASSUME crashes = 0 PROVE Claims(p)'
  <2>1. \A q \in Procs \ {p} : ~Outdates(q)
    <3>1. Solo(p)  BY <1>1, OthersRest DEF AloneInv
    <3> QED  BY <3>1 DEF Solo, Outdates, NoMem
  <2>2. current \in Usable  BY <1>6, <1>12, <2>1 DEF AloneInv, NoCrashInv, CurrentLive
  <2> QED  BY <1>2, <1>3, <1>6, <2>2 DEF Claims, Saving, oauth
<1> QED  BY <1>6, <1>7, <1>8, <1>9, <1>10, <1>11, <1>12, StillKeeps

LEMMA AddBegins ==
  ASSUME Alone, AloneInv, NEW p \in Procs, NEW n \in Names, NEW i \in Ids, AddBegin(p, n, i)
  PROVE  AloneInv'
<1> DEFINE new == [id |-> i, tok |-> issued']
<1>1. /\ pc[p] = "idle" /\ p \in load.procs /\ "add" \in load.ops
      /\ mem' = [mem EXCEPT ![p] = [op |-> "add", name |-> n, auth |-> new,
                                    meta |-> NewMeta(n, new)]]
      /\ Goto(p, "dup")
  BY DEF AddBegin, Begin
<1>2. UNCHANGED <<files, switchLock, load, crashes, past>>  BY DEF AddBegin
<1>3. mem'[p] = [op |-> "add", name |-> n, auth |-> new, meta |-> NewMeta(n, new)]
  BY <1>1 DEF AloneInv, TypeOK
<1>4. issued' = issued + 1 /\ issued' \in 1..MaxTokens /\ live' = (live \ {}) \cup {new}
  BY AccountStoreAssumption DEF AddBegin, Issue, AloneInv, TypeOK
<1>5. new \in Auths /\ NewMeta(n, new) \in Metas /\ new # NoAuth
  BY <1>4, AccountStoreAssumption DEF NewMeta, Auths, Metas, NoAuth
<1>6. mem'[p] \in Mems /\ mem'[p].op = "add"  BY <1>3, <1>5 DEF Mems, AllOps
<1>7. /\ Moves(p) /\ LocalTypes' /\ mem[p] = NoMem /\ pc'[p] = "dup"
      /\ switchLock' = p <=> mem'[p].op = "switch"
      /\ ~Fixing(p) /\ ~Outdates(p) /\ ~Replaces(p) /\ ~Switching(p)
  BY <1>1, <1>2, <1>3, <1>6, Begins DEF AllOps, Places
<1>8. Apart(p) /\ Solo(p)  BY <1>7, MovesApart
<1>9. Still(p)  BY <1>2, <1>4, <1>8 DEF Still, files
<1>10. TypeOK'
  <2>1. live' \subseteq Auths /\ issued' \in 0..MaxTokens  BY <1>4, <1>5 DEF AloneInv, TypeOK
  <2> QED  BY <2>1, <1>2, <1>7 DEF AloneInv, TypeOK, LocalTypes, files, Places, Mems
<1>11. PlaceOf(p)'  BY <1>1, <1>2, <1>3, <1>7 DEF PlaceOf, Placed
<1>12. Knows(p)'
  <2>1. /\ mem'[p].op = "add" /\ mem'[p].name = n /\ mem'[p].auth = new
        /\ mem'[p].meta = NewMeta(n, new)
    BY <1>3
  <2>2. mem'[p].meta = NewMeta(n, mem'[p].auth) /\ mem'[p].auth # NoAuth  BY <1>5, <2>1
  <2> HIDE DEF new
  <2> QED  BY <1>7, <2>1, <2>2 DEF Knows, Keeping, Saving
<1>13. Claims(p)'  BY <1>3, <1>4, <1>7 DEF Claims, Saving
<1> QED  BY <1>7, <1>8, <1>9, <1>10, <1>11, <1>12, <1>13, StillKeeps

LEMMA UpdateBegins ==
  ASSUME Alone, AloneInv, NEW p \in Procs, NEW n \in Names, UpdateBegin(p, n)
  PROVE  AloneInv'
<1>1. /\ pc[p] = "idle" /\ p \in load.procs /\ "update" \in load.ops
      /\ mem' = [mem EXCEPT ![p] = [op |-> "update", name |-> n, auth |-> NoAuth, meta |-> NoMeta]]
      /\ Goto(p, "reread") /\ current # NoAuth /\ Valid(n) /\ auth[n].id = current.id
  BY DEF UpdateBegin, Begin
<1>2. UNCHANGED <<files, oauth, switchLock, load, crashes, past>>  BY DEF UpdateBegin
<1>3. mem'[p] = [op |-> "update", name |-> n, auth |-> NoAuth, meta |-> NoMeta]
  BY <1>1 DEF AloneInv, TypeOK
<1>4. mem'[p] \in Mems /\ mem'[p].op = "update"  BY <1>3 DEF Mems, AllOps, Auths, Metas
<1>5. /\ Moves(p) /\ LocalTypes' /\ mem[p] = NoMem /\ pc'[p] = "reread"
      /\ switchLock' = p <=> mem'[p].op = "switch"
      /\ ~Fixing(p) /\ ~Outdates(p) /\ ~Replaces(p) /\ ~Switching(p)
  BY <1>1, <1>2, <1>3, <1>4, Begins DEF AllOps, Places
<1>6. Apart(p) /\ Solo(p)  BY <1>5, MovesApart
<1>7. Still(p)  BY <1>2, <1>6 DEF Still, files, oauth
<1>8. TypeOK'  BY <1>2, <1>5, FilesTyped DEF AloneInv
<1>9. PlaceOf(p)'  BY <1>1, <1>2, <1>3, <1>5 DEF PlaceOf, Placed
<1>10. Valid(n)' /\ current' = current /\ auth' = auth  BY <1>1, <1>2 DEF Valid, files
<1>11. Knows(p)'  BY <1>1, <1>3, <1>5, <1>10 DEF Knows, Keeping, Saving
<1>12. Claims(p)'  BY <1>3, <1>5 DEF Claims, Saving
<1> QED  BY <1>5, <1>6, <1>7, <1>8, <1>9, <1>11, <1>12, StillKeeps

\* The three operations that read an account and keep its meta: op is what it is.
LEMMA ReadBegins ==
  ASSUME Alone, AloneInv, NEW p \in Procs, NEW n \in Names,
         NEW op \in {"switch", "refresh", "quota", "protect"},
         NEW to \in {"backup", "request", "meta"},
         pc[p] = "idle", p \in load.procs, op \in load.ops, Valid(n), Goto(p, to),
         mem' = [mem EXCEPT ![p] = mem'[p]],
         mem'[p] = [op |-> op, name |-> n, auth |-> mem'[p].auth, meta |-> mem'[p].meta],
         mem'[p].auth = IF op = "protect" THEN NoAuth ELSE auth[n],
         mem'[p].meta \in Metas \ {NoMeta}, mem'[p].meta.name = n, mem'[p].meta.id = meta[n].id,
         to = IF op = "switch" THEN "backup" ELSE IF op = "protect" THEN "meta" ELSE "request",
         IF op = "switch" THEN switchLock = NoProc /\ switchLock' = p
                          ELSE switchLock' = switchLock,
         UNCHANGED <<files, oauth, load, crashes, past>>
  PROVE  AloneInv'
<1>1. auth[n] \in Auths /\ NoAuth \in Auths  BY DEF AloneInv, TypeOK, Auths
<1>2. mem'[p].auth \in Auths  BY <1>1
<1>3. mem'[p] \in Mems /\ mem'[p].op = op /\ mem'[p].name = n
  BY <1>2 DEF Mems, AllOps
<1>4. op \in AllOps /\ to \in Places  BY DEF AllOps, Places
<1>5. /\ Moves(p) /\ LocalTypes' /\ mem[p] = NoMem /\ pc'[p] = to
      /\ switchLock' = p <=> mem'[p].op = "switch"
      /\ ~Fixing(p) /\ ~Outdates(p) /\ ~Replaces(p) /\ ~Switching(p)
  BY <1>3, <1>4, Begins
<1>6. Apart(p) /\ Solo(p)  BY <1>5, MovesApart
<1>7. Still(p)  BY <1>6 DEF Still, files, oauth
<1>8. TypeOK'  BY <1>5, FilesTyped DEF AloneInv
<1>9. PlaceOf(p)'  BY <1>3, <1>5 DEF PlaceOf, Placed
<1>10. Valid(n)' /\ auth' = auth /\ meta[n].id = auth[n].id /\ auth[n] # NoAuth
  BY DEF Valid, files
<1>11. Knows(p)'  BY <1>3, <1>5, <1>10 DEF Knows, Keeping, Saving
<1>12. Claims(p)'  BY <1>3, <1>5 DEF Claims, Saving
<1> QED  BY <1>5, <1>6, <1>7, <1>8, <1>9, <1>11, <1>12, StillKeeps

LEMMA SwitchBegins ==
  ASSUME Alone, AloneInv, NEW p \in Procs, NEW n \in Names, SwitchBegin(p, n)
  PROVE  AloneInv'
<1>1. /\ pc[p] = "idle" /\ p \in load.procs /\ "switch" \in load.ops /\ Valid(n)
      /\ mem' = [mem EXCEPT ![p] = [op |-> "switch", name |-> n, auth |-> auth[n], meta |-> meta[n]]]
      /\ Goto(p, "backup") /\ switchLock = NoProc /\ switchLock' = p
      /\ UNCHANGED <<files, oauth, load, crashes, past>>
  BY DEF SwitchBegin, Begin
<1>2. mem'[p] = [op |-> "switch", name |-> n, auth |-> auth[n], meta |-> meta[n]]
  BY <1>1 DEF AloneInv, TypeOK
<1>3. /\ mem'[p].meta \in Metas \ {NoMeta} /\ mem'[p].meta.name = n /\ mem'[p].meta.id = meta[n].id
      /\ mem'[p].auth = auth[n]
  BY <1>1, <1>2, ValidMeta DEF AloneInv, Metas
<1>4. mem' = [mem EXCEPT ![p] = mem'[p]]  BY <1>1, <1>2
<1>5. mem'[p].meta = meta[n]  BY <1>2
<1>6. mem'[p] = [op |-> "switch", name |-> n, auth |-> mem'[p].auth, meta |-> mem'[p].meta]
  BY <1>2, <1>3, <1>5
<1> QED  BY <1>1, <1>3, <1>4, <1>6, ReadBegins

LEMMA RefreshBegins ==
  ASSUME Alone, AloneInv, NEW p \in Procs, NEW n \in Names, NEW op \in AllOps,
         RefreshBegin(p, n, op)
  PROVE  AloneInv'
<1>1. /\ pc[p] = "idle" /\ p \in load.procs /\ op \in load.ops /\ Valid(n)
      /\ op \in {"refresh", "quota"}
      /\ mem' = [mem EXCEPT ![p] = [op |-> op, name |-> n, auth |-> auth[n], meta |-> meta[n]]]
      /\ Goto(p, "request") /\ UNCHANGED <<files, oauth, switchLock, load, crashes, past>>
  BY DEF RefreshBegin, Begin
<1>2. mem'[p] = [op |-> op, name |-> n, auth |-> auth[n], meta |-> meta[n]]
  BY <1>1 DEF AloneInv, TypeOK
<1>3. /\ mem'[p].meta \in Metas \ {NoMeta} /\ mem'[p].meta.name = n /\ mem'[p].meta.id = meta[n].id
      /\ mem'[p].auth = auth[n]
  BY <1>1, <1>2, ValidMeta DEF AloneInv, Metas
<1>4. mem' = [mem EXCEPT ![p] = mem'[p]]  BY <1>1, <1>2
<1>5. mem'[p].meta = meta[n]  BY <1>2
<1>6. mem'[p] = [op |-> op, name |-> n, auth |-> mem'[p].auth, meta |-> mem'[p].meta]
  BY <1>2, <1>3, <1>5
<1> QED  BY <1>1, <1>3, <1>4, <1>6, ReadBegins

LEMMA ProtectBegins ==
  ASSUME Alone, AloneInv, NEW p \in Procs, NEW n \in Names, NEW e \in BOOLEAN,
         ProtectBegin(p, n, e)
  PROVE  AloneInv'
<1> DEFINE new == [meta[n] EXCEPT !.eligible = e]
<1>1. /\ pc[p] = "idle" /\ p \in load.procs /\ "protect" \in load.ops /\ Valid(n)
      /\ mem' = [mem EXCEPT ![p] = [op |-> "protect", name |-> n, auth |-> NoAuth, meta |-> new]]
      /\ Goto(p, "meta") /\ UNCHANGED <<files, oauth, switchLock, load, crashes, past>>
  BY DEF ProtectBegin, Begin
<1>2. mem'[p] = [op |-> "protect", name |-> n, auth |-> NoAuth, meta |-> new]
  BY <1>1 DEF AloneInv, TypeOK
<1>3. meta[n] \in [name : Names, id : Ids, eligible : BOOLEAN] /\ meta[n].name = n
  BY <1>1, ValidMeta DEF AloneInv
<1>4. /\ new \in [name : Names, id : Ids, eligible : BOOLEAN]
      /\ new.name = n /\ new.id = meta[n].id
  BY <1>3
<1>5. new \in Metas \ {NoMeta}  BY <1>4, AccountStoreAssumption DEF Metas, NoMeta
<1>6. /\ mem'[p].meta \in Metas \ {NoMeta} /\ mem'[p].meta.name = n /\ mem'[p].meta.id = meta[n].id
      /\ mem'[p].auth = NoAuth
  BY <1>2, <1>4, <1>5
<1>7. mem' = [mem EXCEPT ![p] = mem'[p]]  BY <1>1, <1>2
<1>8. mem'[p].meta = new  BY <1>2
<1>9. mem'[p] = [op |-> "protect", name |-> n, auth |-> mem'[p].auth, meta |-> mem'[p].meta]
  BY <1>2, <1>6, <1>8
<1> QED  BY <1>1, <1>6, <1>7, <1>9, ReadBegins

-----------------------------------------------------------------------------
(* The steps in the middle that write no account file *)

LEMMA GoesOn ==
  ASSUME Alone, AloneInv, NEW p \in Procs, pc[p] # "idle", NEW to \in Places \ {"idle"},
         Goto(p, to), UNCHANGED <<switchLock, load>>,
         mem' = [mem EXCEPT ![p] = mem'[p]], mem'[p] \in Mems,
         mem'[p].op = mem[p].op, mem'[p].name = mem[p].name
  PROVE  /\ Moves(p) /\ LocalTypes' /\ Apart(p) /\ Solo(p) /\ pc'[p] = to
         /\ Placed(p)' => PlaceOf(p)'
<1>1. Moves(p) /\ LocalTypes' /\ pc'[p] = to /\ (Placed(p)' => PlaceOf(p)')
  BY Continuing DEF AloneInv
<1> QED  BY <1>1, MovesApart

LEMMA GoesOnSame ==
  ASSUME Alone, AloneInv, NEW p \in Procs, pc[p] # "idle", NEW to \in Places \ {"idle"},
         Goto(p, to), UNCHANGED <<switchLock, load, mem>>
  PROVE  /\ Moves(p) /\ LocalTypes' /\ Apart(p) /\ Solo(p) /\ pc'[p] = to /\ mem'[p] = mem[p]
         /\ Placed(p)' => PlaceOf(p)'
<1>1. mem' = [mem EXCEPT ![p] = mem'[p]] /\ mem'[p] = mem[p]  BY DEF AloneInv, TypeOK
<1>2. mem'[p] \in Mems  BY <1>1, Busy
<1> QED  BY <1>1, <1>2, GoesOn

\* An operation that ends without having written anything.
LEMMA GivesUp ==
  ASSUME Alone, AloneInv, NEW p \in Procs, pc[p] # "idle", Finish(p),
         UNCHANGED <<files, oauth, load, crashes, past>>,
         ~Fixing(p), ~Outdates(p), ~Replaces(p), ~Switching(p)
  PROVE  AloneInv'
<1>1. Ended(p) /\ Moves(p) /\ LocalTypes'  BY Finishes
<1>2. Apart(p) /\ Solo(p)  BY <1>1, MovesApart
<1>3. Still(p)  BY <1>2 DEF Still, files, oauth
<1>4. TypeOK'  BY <1>1, FilesTyped DEF AloneInv
<1>5. PlaceOf(p)' /\ Knows(p)' /\ Claims(p)'  BY <1>1, Ends
<1> QED  BY <1>2, <1>3, <1>4, <1>5, StillKeeps

LEMMA DupChecks ==
  ASSUME Alone, AloneInv, NEW p \in Procs, NEW force \in BOOLEAN, DupCheck(p, force)
  PROVE  AloneInv'
<1>1. /\ pc[p] = "dup" /\ pc[p] # "idle"
      /\ UNCHANGED <<files, oauth, load, crashes, past>>
  BY DEF DupCheck
<1>2. /\ Placed(p) /\ Knows(p) /\ mem[p].name \in Names
      /\ crashes = 0 => Claims(p)
      /\ mem[p].op \in load.ops /\ p \in load.procs
  BY <1>1, Busy
<1>3. mem[p].op \in {"save", "add"}  BY <1>1, <1>2 DEF Placed
<1>4. ~Fixing(p) /\ ~Outdates(p) /\ ~Replaces(p) /\ ~Switching(p)
  BY <1>1, <1>3 DEF Fixing, Outdates, Replaces, Switching
<1>5. CASE Finish(p)  BY <1>1, <1>4, <1>5, GivesUp
<1>6. CASE /\ Goto(p, "auth") /\ UNCHANGED <<mem, switchLock>>
           /\ ~\E n \in Names \ {mem[p].name} : Valid(n) /\ auth[n].id = mem[p].auth.id
  <2>1. /\ Moves(p) /\ LocalTypes' /\ Apart(p) /\ Solo(p) /\ pc'[p] = "auth" /\ mem'[p] = mem[p]
        /\ Placed(p)' => PlaceOf(p)'
    BY <1>1, <1>6, GoesOnSame DEF Places
  <2>2. Still(p) /\ TypeOK'  BY <1>1, <2>1, FilesTyped DEF Still, files, oauth, AloneInv
  <2>3. PlaceOf(p)'  BY <1>3, <2>1 DEF Placed
  <2>4. Knows(p)'  BY <1>1, <1>2, <1>3, <2>1 DEF Knows, Keeping, Saving
  <2>5. ASSUME crashes = 0 PROVE Claims(p)'
    <3>1. mem[p].auth \in Usable  BY <1>1, <1>2, <1>3, <2>5 DEF Claims, Saving
    <3>2. \A m \in Names : Valid(m)' => Valid(m)  BY <1>1 DEF Valid, files
    <3>3. \A m \in Names \ {mem[p].name} : Valid(m)' => auth'[m].id # mem[p].auth.id
      BY <1>1, <1>6, <3>2 DEF files
    <3> QED  BY <1>1, <1>3, <2>1, <3>1, <3>3 DEF Claims, Saving, oauth
  <2> QED  BY <1>4, <2>1, <2>2, <2>3, <2>4, <2>5, StillKeeps
<1> QED  BY <1>5, <1>6 DEF DupCheck

LEMMA UpdateReads ==
  ASSUME Alone, AloneInv, NEW p \in Procs, UpdateRead(p)
  PROVE  AloneInv'
<1> DEFINE n == mem[p].name
<1>1. /\ pc[p] = "reread" /\ pc[p] # "idle"
      /\ UNCHANGED <<files, oauth, load, crashes, past>>
  BY DEF UpdateRead
<1>2. /\ Placed(p) /\ Knows(p) /\ n \in Names /\ mem[p] \in Mems
      /\ mem[p].op \in load.ops /\ p \in load.procs
  BY <1>1, Busy
<1>3. mem[p].op = "update"  BY <1>1, <1>2 DEF Placed
<1>4. Valid(n) /\ current # NoAuth /\ auth[n].id = current.id
  BY <1>1, <1>2 DEF Knows
<1>5. ~Fixing(p) /\ ~Outdates(p) /\ ~Replaces(p) /\ ~Switching(p)
  BY <1>1, <1>3 DEF Fixing, Outdates, Replaces, Switching
<1>6. /\ mem' = [mem EXCEPT ![p].auth = current, ![p].meta = NewMeta(n, current)]
      /\ Goto(p, "auth") /\ UNCHANGED switchLock
  BY <1>4 DEF UpdateRead, Valid
<1>7. current \in Auths /\ NewMeta(n, current) \in Metas
  BY <1>2, <1>4 DEF AloneInv, TypeOK, NewMeta, Auths, Metas
<1>8. /\ mem'[p] = [mem[p] EXCEPT !.auth = current, !.meta = NewMeta(n, current)]
      /\ mem' = [mem EXCEPT ![p] = mem'[p]]
  BY <1>6 DEF AloneInv, TypeOK
<1>9. /\ mem'[p] \in Mems /\ mem'[p].op = mem[p].op /\ mem'[p].name = n
      /\ mem'[p].auth = current /\ mem'[p].meta = NewMeta(n, current)
  BY <1>2, <1>7, <1>8 DEF Mems
<1>10. /\ Moves(p) /\ LocalTypes' /\ Apart(p) /\ Solo(p) /\ pc'[p] = "auth"
       /\ Placed(p)' => PlaceOf(p)'
  BY <1>1, <1>6, <1>8, <1>9, GoesOn DEF Places
<1>11. Still(p) /\ TypeOK'  BY <1>1, <1>10, FilesTyped DEF Still, files, oauth, AloneInv
<1>12. PlaceOf(p)'  BY <1>3, <1>9, <1>10 DEF Placed
<1>13. Knows(p)'
  <2>1. mem'[p].meta = NewMeta(mem'[p].name, mem'[p].auth)  BY <1>9
  <2> QED  BY <1>3, <1>4, <1>9, <1>10, <2>1 DEF Knows, Keeping, Saving
<1>14. ASSUME crashes = 0 PROVE Claims(p)'
  <2>1. \A q \in Procs \ {p} : ~Outdates(q)
    <3>1. Solo(p)  BY <1>2, <1>3, OthersRest DEF AloneInv
    <3> QED  BY <3>1 DEF Solo, Outdates, NoMem
  <2>2. current \in Usable /\ OneEach
    BY <1>5, <1>14, <2>1 DEF AloneInv, NoCrashInv, CurrentLive
  <2>3. \A m \in Names : Valid(m)' => Valid(m)  BY <1>1 DEF Valid, files
  <2>4. \A m \in Names \ {n} : Valid(m)' => auth'[m].id # current.id
    BY <1>1, <1>2, <1>4, <2>2, <2>3 DEF OneEach, files
  <2> QED  BY <1>1, <1>3, <1>9, <1>10, <2>2, <2>4 DEF Claims, Saving, oauth
<1> QED  BY <1>5, <1>10, <1>11, <1>12, <1>13, <1>14, StillKeeps

LEMMA SwitchBackups ==
  ASSUME Alone, AloneInv, NEW p \in Procs, SwitchBackup(p)
  PROVE  AloneInv'
<1>1. /\ pc[p] = "backup" /\ pc[p] # "idle" /\ Goto(p, "copy")
      /\ UNCHANGED <<dirs, auth, meta, current, state, oauth, switchLock, mem, load, crashes, past>>
  BY DEF SwitchBackup
<1>2. Placed(p) /\ Knows(p)  BY <1>1, Busy
<1>3. mem[p].op = "switch"  BY <1>1, <1>2 DEF Placed
<1>4. ~Fixing(p) /\ ~Outdates(p) /\ ~Replaces(p) /\ ~Switching(p)
  BY <1>1, <1>3 DEF Fixing, Outdates, Replaces, Switching
<1>5. /\ Moves(p) /\ LocalTypes' /\ Apart(p) /\ Solo(p) /\ pc'[p] = "copy" /\ mem'[p] = mem[p]
      /\ Placed(p)' => PlaceOf(p)'
  BY <1>1, GoesOnSame DEF Places
<1>6. Still(p)  BY <1>1, <1>5 DEF Still, oauth
<1>7. TypeOK'
  <2>1. backup' \in Auths  BY DEF SwitchBackup, AloneInv, TypeOK
  <2> QED  BY <2>1, <1>1, <1>5 DEF AloneInv, TypeOK, LocalTypes, oauth, Places, Mems
<1>8. PlaceOf(p)'  BY <1>3, <1>5 DEF Placed
<1>9. Knows(p)'  BY <1>1, <1>2, <1>3, <1>5 DEF Knows, Keeping, Saving, Valid
<1>10. Claims(p)'  BY <1>3, <1>5 DEF Claims, Saving
<1> QED  BY <1>4, <1>5, <1>6, <1>7, <1>8, <1>9, <1>10, StillKeeps

LEMMA SwitchCopies ==
  ASSUME Alone, AloneInv, NEW p \in Procs, SwitchCopy(p)
  PROVE  AloneInv'
<1> DEFINE n == mem[p].name
<1>1. /\ pc[p] = "copy" /\ pc[p] # "idle"
      /\ UNCHANGED <<files, oauth, load, crashes, switched, undone, dropped>>
  BY DEF SwitchCopy
<1>2. Placed(p) /\ Knows(p) /\ n \in Names /\ mem[p] \in Mems  BY <1>1, Busy
<1>3. mem[p].op = "switch"  BY <1>1, <1>2 DEF Placed
<1>4. /\ Valid(n) /\ mem[p].meta # NoMeta /\ mem[p].meta.name = n
      /\ mem[p].meta.id = auth[n].id
  BY <1>2, <1>3 DEF Knows, Keeping
<1>5. ~Fixing(p) /\ ~Outdates(p) /\ ~Replaces(p) /\ ~Switching(p)
  BY <1>1, <1>3 DEF Fixing, Outdates, Replaces, Switching
<1>6. mem' = [mem EXCEPT ![p].auth = auth[n]] /\ Goto(p, "current") /\ UNCHANGED switchLock
  BY <1>4 DEF SwitchCopy, Valid
<1>7. auth[n] \in Auths  BY <1>2 DEF AloneInv, TypeOK
<1>8. mem'[p] = [mem[p] EXCEPT !.auth = auth[n]] /\ mem' = [mem EXCEPT ![p] = mem'[p]]
  BY <1>6 DEF AloneInv, TypeOK
<1>9. /\ mem'[p] \in Mems /\ mem'[p].op = mem[p].op /\ mem'[p].name = n
      /\ mem'[p].auth = auth[n] /\ mem'[p].meta = mem[p].meta
  BY <1>2, <1>7, <1>8 DEF Mems
<1>10. /\ Moves(p) /\ LocalTypes' /\ Apart(p) /\ Solo(p) /\ pc'[p] = "current"
       /\ Placed(p)' => PlaceOf(p)'
  BY <1>1, <1>6, <1>8, <1>9, GoesOn DEF Places
<1>11. Still(p) /\ TypeOK'
  <2>1. Still(p)  BY <1>1, <1>10 DEF Still, files, oauth
  <2>2. crossed' \in BOOLEAN  BY DEF SwitchCopy, AloneInv, TypeOK
  <2> QED  BY <1>1, <1>10, <2>1, <2>2 DEF AloneInv, TypeOK, LocalTypes, files, oauth, Places, Mems
<1>12. PlaceOf(p)'  BY <1>3, <1>9, <1>10 DEF Placed
<1>13. Knows(p)'
  <2>1. Valid(n)' /\ auth' = auth /\ auth[n] # NoAuth  BY <1>1, <1>4, <1>9 DEF Valid, files
  <2> QED  BY <1>3, <1>4, <1>9, <1>10, <2>1 DEF Knows, Keeping, Saving
<1>14. ASSUME crashes = 0 PROVE Claims(p)'
  <2>1. auth[n] \in Usable
    <3>1. \A q \in Procs : ~Replaces(q)
      BY <1>5, <1>10 DEF Solo, Replaces, NoMem
    <3> QED  BY <1>4, <1>14, <3>1 DEF AloneInv, NoCrashInv, SavedLive, Valid
  <2> QED  BY <1>1, <1>3, <1>9, <1>10, <2>1 DEF Claims, Saving, oauth
<1> QED  BY <1>5, <1>10, <1>11, <1>12, <1>13, <1>14, StillKeeps

LEMMA SwitchVerifies ==
  ASSUME Alone, AloneInv, NEW p \in Procs, SwitchVerify(p)
  PROVE  AloneInv'
<1> DEFINE n == mem[p].name
<1>1. /\ pc[p] = "verify" /\ pc[p] # "idle"
      /\ UNCHANGED <<files, oauth, load, crashes, past>>
  BY DEF SwitchVerify
<1>2. Placed(p) /\ Knows(p) /\ n \in Names /\ mem[p] \in Mems  BY <1>1, Busy
<1>3. mem[p].op = "switch"  BY <1>1, <1>2 DEF Placed
<1>4. /\ Valid(n) /\ mem[p].meta.id = auth[n].id
      /\ mem[p].auth # NoAuth /\ mem[p].auth.id = auth[n].id /\ current.id = mem[p].auth.id
  BY <1>1, <1>2, <1>3 DEF Knows, Keeping
<1>5. ~Fixing(p) /\ ~Outdates(p) /\ ~Replaces(p)
  BY <1>1, <1>3 DEF Fixing, Outdates, Replaces
\* The verification of a switch that keeps the discipline succeeds.
<1>6. mem' = [mem EXCEPT ![p].meta = meta[n]] /\ Goto(p, "meta") /\ UNCHANGED switchLock
  BY <1>4 DEF SwitchVerify, Valid
<1>7. meta[n] \in Metas /\ meta[n] # NoMeta /\ meta[n].name = n /\ meta[n].id = auth[n].id
  BY <1>2, <1>4 DEF AloneInv, TypeOK, Valid
<1>8. mem'[p] = [mem[p] EXCEPT !.meta = meta[n]] /\ mem' = [mem EXCEPT ![p] = mem'[p]]
  BY <1>6 DEF AloneInv, TypeOK
<1>9. /\ mem'[p] \in Mems /\ mem'[p].op = mem[p].op /\ mem'[p].name = n
      /\ mem'[p].auth = mem[p].auth /\ mem'[p].meta = meta[n]
  BY <1>2, <1>7, <1>8 DEF Mems
<1>10. /\ Moves(p) /\ LocalTypes' /\ Apart(p) /\ Solo(p) /\ pc'[p] = "meta"
       /\ Placed(p)' => PlaceOf(p)'
  BY <1>1, <1>6, <1>8, <1>9, GoesOn DEF Places
<1>11. Still(p) /\ TypeOK'  BY <1>1, <1>10, FilesTyped DEF Still, files, oauth, AloneInv
<1>12. PlaceOf(p)'  BY <1>3, <1>9, <1>10 DEF Placed
<1>13. Knows(p)'
  <2>1. Valid(n)' /\ auth' = auth /\ current' = current  BY <1>1, <1>4, <1>9 DEF Valid, files
  <2> QED  BY <1>3, <1>4, <1>7, <1>9, <1>10, <2>1 DEF Knows, Keeping, Saving
<1>14. Claims(p)'  BY <1>3, <1>9, <1>10 DEF Claims, Saving
<1>15. Switching(p)'  BY <1>3, <1>9, <1>10 DEF Switching
<1> QED  BY <1>5, <1>10, <1>11, <1>12, <1>13, <1>14, <1>15, StillKeeps

LEMMA RefreshReplies ==
  ASSUME Alone, AloneInv, NEW p \in Procs, RefreshReply(p)
  PROVE  AloneInv'
<1>1. /\ pc[p] = "request" /\ pc[p] # "idle" /\ Goto(p, "meta")
      /\ UNCHANGED <<files, oauth, switchLock, mem, load, crashes, past>>
  BY DEF RefreshReply
<1>2. Placed(p) /\ Knows(p)  BY <1>1, Busy
<1>3. mem[p].op \in {"refresh", "quota"}  BY <1>1, <1>2 DEF Placed
<1>4. ~Fixing(p) /\ ~Outdates(p) /\ ~Replaces(p) /\ ~Switching(p)
  BY <1>1, <1>3 DEF Fixing, Outdates, Replaces, Switching
<1>5. /\ Moves(p) /\ LocalTypes' /\ Apart(p) /\ Solo(p) /\ pc'[p] = "meta" /\ mem'[p] = mem[p]
      /\ Placed(p)' => PlaceOf(p)'
  BY <1>1, GoesOnSame DEF Places
<1>6. Still(p) /\ TypeOK'  BY <1>1, <1>5, FilesTyped DEF Still, files, oauth, AloneInv
<1>7. PlaceOf(p)'  BY <1>3, <1>5 DEF Placed
<1>8. Knows(p)'  BY <1>1, <1>2, <1>3, <1>5 DEF Knows, Keeping, Saving, Valid, files
<1>9. Claims(p)'  BY <1>3, <1>5 DEF Claims, Saving
<1> QED  BY <1>4, <1>5, <1>6, <1>7, <1>8, <1>9, StillKeeps

LEMMA SyncCompares ==
  ASSUME Alone, AloneInv, NEW p \in Procs, SyncCompare(p)
  PROVE  AloneInv'
<1> DEFINE to == IF current.id = mem[p].auth.id THEN "syncWrite" ELSE "meta"
<1>1. /\ pc[p] = "sync" /\ pc[p] # "idle" /\ Goto(p, to)
      /\ UNCHANGED <<files, oauth, switchLock, mem, load, crashes, past>>
  BY DEF SyncCompare
<1>2. /\ Placed(p) /\ Knows(p)
      /\ crashes = 0 => Claims(p)
  BY <1>1, Busy
<1>3. Refreshing(p)  BY <1>1, <1>2 DEF Placed
<1>4. ~Fixing(p) /\ ~Replaces(p) /\ ~Switching(p)
  BY <1>1, <1>3 DEF Fixing, Replaces, Switching
<1>5. PICK there \in {"syncWrite", "meta"} : there = to  OBVIOUS
<1>6. /\ Moves(p) /\ LocalTypes' /\ Apart(p) /\ Solo(p) /\ pc'[p] = there /\ mem'[p] = mem[p]
      /\ Placed(p)' => PlaceOf(p)'
  <2>1. there \in Places \ {"idle"}  BY DEF Places
  <2>2. Goto(p, there)  BY <1>1, <1>5
  <2> QED  BY <1>1, <2>1, <2>2, GoesOnSame
<1>7. Still(p) /\ TypeOK'  BY <1>1, <1>6, FilesTyped DEF Still, files, oauth, AloneInv
<1>8. PlaceOf(p)'  BY <1>3, <1>6 DEF Placed
<1>9. Knows(p)'  BY <1>1, <1>2, <1>3, <1>5, <1>6 DEF Knows, Keeping, Saving, Valid, files
<1>10. Claims(p) => Claims(p)'  BY <1>1, <1>3, <1>6 DEF Claims, Saving, oauth
<1>11. Outdates(p) => Outdates(p)'  BY <1>1, <1>3, <1>5, <1>6 DEF Outdates, files
<1> QED  BY <1>4, <1>6, <1>7, <1>8, <1>9, <1>10, <1>11, StillKeeps

LEMMA RenameReads ==
  ASSUME Alone, AloneInv, NEW p \in Procs, RenameRead(p)
  PROVE  AloneInv'
<1> DEFINE n == mem[p].name
           new == [meta[n] EXCEPT !.name = n]
<1>1. /\ pc[p] = "remeta" /\ pc[p] # "idle"
      /\ UNCHANGED <<files, oauth, load, crashes, past>>
  BY DEF RenameRead
<1>2. Placed(p) /\ Knows(p) /\ n \in Names /\ mem[p] \in Mems  BY <1>1, Busy
<1>3. mem[p].op = "rename" /\ n \in dirs  BY <1>1, <1>2 DEF Placed, Knows
<1>4. ~Outdates(p) /\ ~Replaces(p) /\ ~Switching(p)
  BY <1>1, <1>3 DEF Outdates, Replaces, Switching
<1>5. CASE meta[n] = NoMeta
  <2>1. ~Fixing(p)  BY <1>1, <1>3, <1>5 DEF Fixing, Fixable
  <2> QED  BY <1>1, <1>4, <1>5, <2>1, GivesUp DEF RenameRead
<1>6. CASE meta[n] # NoMeta
  <2>1. mem' = [mem EXCEPT ![p].meta = new] /\ Goto(p, "meta") /\ UNCHANGED switchLock
    BY <1>6 DEF RenameRead
  <2>2. meta[n] \in [name : Names, id : Ids, eligible : BOOLEAN]
    BY <1>2, <1>6 DEF AloneInv, TypeOK, Metas
  <2>3. new \in Metas  BY <1>2, <2>2 DEF Metas
  <2>4. mem'[p] = [mem[p] EXCEPT !.meta = new] /\ mem' = [mem EXCEPT ![p] = mem'[p]]
    BY <2>1 DEF AloneInv, TypeOK
  <2> HIDE DEF new
  <2>5. /\ mem'[p] \in Mems /\ mem'[p].op = mem[p].op /\ mem'[p].name = n
        /\ mem'[p].meta = new
    BY <1>2, <2>3, <2>4 DEF Mems
  <2>6. /\ Moves(p) /\ LocalTypes' /\ Apart(p) /\ Solo(p) /\ pc'[p] = "meta"
        /\ Placed(p)' => PlaceOf(p)'
    BY <1>1, <2>1, <2>4, <2>5, GoesOn DEF Places
  <2>7. Still(p) /\ TypeOK'  BY <1>1, <2>6, FilesTyped DEF Still, files, oauth, AloneInv
  <2>8. PlaceOf(p)'  BY <1>3, <2>5, <2>6 DEF Placed
  <2>9. Knows(p)'
    <3>1. mem'[p].meta = [meta'[n] EXCEPT !.name = n] /\ meta'[n] # NoMeta /\ n \in dirs'
      BY <1>1, <1>3, <1>6, <2>5 DEF new, files
    <3> QED  BY <1>3, <2>5, <2>6, <3>1 DEF Knows, Keeping, Saving
  <2>10. Fixing(p) => Fixing(p)'
    BY <1>1, <1>3, <2>5, <2>6 DEF Fixing, Fixable, files
  <2>11. Claims(p) => Claims(p)'
    BY <1>1, <1>3, <2>5, <2>6 DEF Claims, Saving, files, Valid
  <2> QED  BY <1>4, <2>5, <2>6, <2>7, <2>8, <2>9, <2>10, <2>11, StillKeeps
<1> QED  BY <1>5, <1>6

-----------------------------------------------------------------------------
(* The steps that write *)

\* While no process has been killed every account can be read, but for the one that
\* an operation is about to make readable or to remove.
LEMMA AllReadable ==
  ASSUME AloneInv, NEW p \in Procs, Solo(p), crashes = 0
  PROVE  \A n \in dirs : Valid(n) \/ (Fixing(p) /\ mem[p].name = n)
<1>1. IsFiniteSet(BadOf(p)) /\ Cardinality(BadOf(p)) <= 0  BY Narrow DEF Sound
<1>2. Cardinality(BadOf(p)) = 0  BY <1>1, FS_CardinalityType
<1>3. BadOf(p) = {}  BY <1>1, <1>2, FS_EmptySet
<1> QED  BY <1>3 DEF BadOf, Broken

LEMMA WriteKeeps ==
  ASSUME AloneInv, TypeOK', NEW p \in Procs, Solo(p), Apart(p),
         crashes' = crashes, BadOf(p)' \subseteq BadOf(p), PlaceOf(p)', Knows(p)',
         crashes = 0 /\ Fine(p) => Fine(p)'
  PROVE  AloneInv'
<1>1. Sound(p)  BY Narrow
<1>2. IsFiniteSet(BadOf(p)) /\ Cardinality(BadOf(p)) <= crashes  BY <1>1 DEF Sound
<1>3. IsFiniteSet(BadOf(p)') /\ Cardinality(BadOf(p)') <= Cardinality(BadOf(p))
  BY <1>2, FS_Subset
<1>4. Cardinality(BadOf(p)') \in Nat /\ Cardinality(BadOf(p)) \in Nat /\ crashes \in Nat
  BY <1>2, <1>3, FS_CardinalityType DEF AloneInv, TypeOK
<1>5. Cardinality(BadOf(p)') <= crashes'  BY <1>2, <1>3, <1>4
<1>6. crashes' = 0 => Fine(p)'  BY <1>1 DEF Sound
<1>7. Sound(p)'  BY <1>3, <1>5, <1>6 DEF Sound
<1> QED  BY <1>7, Widen

\* The switch that p is in the middle of is the one the others are not in.
LEMMA StillSwitching ==
  ASSUME NEW p \in Procs, Apart(p), NEW q \in Procs \ {p}, Switching(q)
  PROVE  Switching(q)'
BY DEF Apart, Switching

LEMMA WriteAuths ==
  ASSUME Alone, AloneInv, NEW p \in Procs, WriteAuth(p)
  PROVE  AloneInv'
<1> DEFINE n == mem[p].name
           to == IF mem[p].op \in {"refresh", "quota"} THEN "sync" ELSE "meta"
<1>1. /\ pc[p] = "auth" /\ pc[p] # "idle" /\ Goto(p, to)
      /\ dirs' = dirs \cup {n} /\ auth' = [auth EXCEPT ![n] = mem[p].auth]
      /\ UNCHANGED <<meta, current, backup, state, oauth, switchLock, mem, load, crashes, past>>
  BY DEF WriteAuth
<1>2. /\ Placed(p) /\ Knows(p) /\ n \in Names /\ mem[p] \in Mems
      /\ mem[p].op \in load.ops /\ p \in load.procs
  BY <1>1, Busy
<1>3. mem[p].op \in {"save", "add", "update", "refresh", "quota"}  BY <1>1, <1>2 DEF Placed
<1>4. Solo(p)  BY <1>2, <1>3, OthersRest DEF AloneInv
<1>5. PICK there \in {"sync", "meta"} : there = to  OBVIOUS
<1>6. /\ Moves(p) /\ LocalTypes' /\ Apart(p) /\ Solo(p) /\ pc'[p] = there /\ mem'[p] = mem[p]
      /\ Placed(p)' => PlaceOf(p)'
  <2>1. there \in Places \ {"idle"}  BY DEF Places
  <2>2. Goto(p, there)  BY <1>1, <1>5
  <2> QED  BY <1>1, <2>1, <2>2, GoesOnSame
<1>7. TypeOK'
  <2>1. mem[p].auth \in Auths  BY <1>2 DEF Mems
  <2>2. auth' \in [Names -> Auths] /\ dirs' \subseteq Names  BY <1>1, <1>2, <2>1 DEF AloneInv, TypeOK
  <2> QED  BY <2>2, <1>1, <1>6 DEF AloneInv, TypeOK, LocalTypes, oauth, Places, Mems
<1>8. PlaceOf(p)'  BY <1>3, <1>5, <1>6 DEF Placed
<1>9. auth'[n] = mem[p].auth /\ \A m \in Names \ {n} : auth'[m] = auth[m]
  BY <1>1, <1>2 DEF AloneInv, TypeOK
<1>10. \A m \in Names \ {n} : Valid(m)' <=> Valid(m)  BY <1>1, <1>9 DEF Valid
<1>11. CASE Refreshing(p)
  <2>1. /\ Valid(n) /\ mem[p].auth # NoAuth /\ mem[p].auth.id = auth[n].id
        /\ mem[p].meta # NoMeta /\ mem[p].meta.name = n /\ mem[p].meta.id = auth[n].id
    BY <1>2, <1>11 DEF Knows, Keeping
  <2>2. dirs' = dirs  BY <2>1 DEF Valid, WriteAuth
  <2>3. \A m \in {n} : Valid(m)'  BY <1>1, <1>9, <2>1 DEF Valid
  <2>4. Knows(p)'
    BY <2>3, <1>5, <1>6, <1>9, <1>11, <2>1, <2>2 DEF Knows, Keeping, Saving
  <2>5. BadOf(p)' \subseteq BadOf(p)
    <3>1. Broken' \subseteq Broken
      <4> SUFFICES ASSUME NEW m \in Broken' PROVE m \in Broken  OBVIOUS
      <4>1. m \in dirs /\ m \in Names /\ m # n  BY <1>7, <2>2, <2>3 DEF Broken, TypeOK
      <4> QED  BY <4>1, <1>10 DEF Broken
    <3>2. ~Fixing(p) /\ ~Fixing(p)'  BY <1>1, <1>5, <1>6, <1>11 DEF Fixing
    <3> QED  BY <3>1, <3>2 DEF BadOf
  <2>6. ASSUME crashes = 0, Fine(p) PROVE Fine(p)'
    <3>1. mem[p].auth \in Usable  BY <1>1, <1>11, <2>6 DEF Fine, Claims
    <3>2. Claims(p)'  BY <1>1, <1>5, <1>6, <1>11, <3>1 DEF Claims, Saving, oauth
    <3>3. \A m \in Names : (Valid(m)' <=> Valid(m)) /\ auth'[m].id = auth[m].id
      BY <1>9, <1>10, <2>1, <2>3
    <3>4. OneEach'  BY <2>6, <3>3 DEF Fine, OneEach
    <3>5. current' \in Usable' \/ Outdates(p)'
      BY <1>1, <1>5, <1>6, <1>11, <2>6 DEF Fine, Outdates, oauth
    <3>6. \A m \in dirs' : auth'[m] \in Usable'
      BY <1>1, <1>2, <1>9, <2>2, <2>6, <3>1 DEF Fine, oauth, AloneInv, TypeOK
    <3>7. Sticks'
      BY <1>1, <1>6, <1>11, <2>6, StillSwitching DEF Fine, Sticks, Switching
    <3> QED  BY <3>2, <3>4, <3>5, <3>6, <3>7 DEF Fine
  <2> QED  BY <1>1, <1>4, <1>6, <1>7, <1>8, <2>4, <2>5, <2>6, WriteKeeps
<1>12. CASE mem[p].op \in {"save", "add", "update"}
  <2>1. there = "meta"  BY <1>5, <1>12
  <2>2. mem[p].auth # NoAuth /\ mem[p].meta = NewMeta(n, mem[p].auth)
    BY <1>1, <1>2, <1>12 DEF Knows, Saving
  <2>3. Knows(p)'
    <3>1. /\ mem'[p].auth # NoAuth /\ mem'[p].meta = NewMeta(mem'[p].name, mem'[p].auth)
          /\ mem'[p].name \in dirs' /\ auth'[mem'[p].name] = mem'[p].auth
      BY <1>1, <1>6, <1>9, <2>2
    <3> QED  BY <1>6, <1>12, <2>1, <3>1 DEF Knows, Keeping, Saving
  <2>4. Fixing(p) /\ Fixing(p)'  BY <1>1, <1>6, <1>12, <2>1 DEF Fixing
  <2>5. BadOf(p)' \subseteq BadOf(p)
    <3> SUFFICES ASSUME NEW m \in BadOf(p)' PROVE m \in BadOf(p)  OBVIOUS
    <3>1. m \in dirs' /\ ~Valid(m)' /\ m # n  BY <1>6, <2>4 DEF BadOf, Broken
    <3>2. m \in dirs /\ m \in Names  BY <1>1, <3>1 DEF AloneInv, TypeOK
    <3> QED  BY <1>10, <3>1, <3>2 DEF BadOf, Broken
  <2>6. ASSUME crashes = 0, Fine(p) PROVE Fine(p)'
    <3>1. /\ mem[p].auth \in Usable
          /\ \A m \in Names \ {n} : Valid(m) => auth[m].id # mem[p].auth.id
      BY <1>1, <1>12, <2>6 DEF Fine, Claims, Saving
    <3>2. \A m \in Names \ {n} : Valid(m)' => auth'[m].id # mem[p].auth.id
      BY <1>9, <1>10, <3>1
    <3>3. Claims(p)'  BY <1>1, <1>6, <1>12, <2>1, <3>1, <3>2 DEF Claims, Saving, oauth
    <3>4. OneEach'
      <4> SUFFICES ASSUME NEW m1 \in Names, NEW m2 \in Names, Valid(m1)', Valid(m2)',
                          auth'[m1].id = auth'[m2].id, m1 # m2
                   PROVE  FALSE
        BY DEF OneEach
      <4>1. CASE m1 = n  BY <4>1, <1>9, <3>2
      <4>2. CASE m2 = n  BY <4>2, <1>9, <3>2
      <4>3. CASE m1 # n /\ m2 # n  BY <4>3, <1>9, <1>10, <2>6 DEF Fine, OneEach
      <4> QED  BY <4>1, <4>2, <4>3
    <3>5. current' \in Usable'
      BY <1>1, <1>12, <2>6 DEF Fine, Outdates, oauth
    <3>6. \A m \in dirs' : auth'[m] \in Usable'
      <4>1. ~Replaces(p)  BY <1>1, <1>12 DEF Replaces
      <4>2. dirs \subseteq Names  BY DEF AloneInv, TypeOK
      <4> QED  BY <1>1, <1>2, <1>9, <2>6, <3>1, <4>1, <4>2 DEF Fine, oauth
    <3>7. Sticks'
      BY <1>1, <1>6, <1>12, <2>6, StillSwitching DEF Fine, Sticks, Switching
    <3> QED  BY <3>3, <3>4, <3>5, <3>6, <3>7 DEF Fine
  <2> QED  BY <1>1, <1>4, <1>6, <1>7, <1>8, <2>3, <2>5, <2>6, WriteKeeps
<1> QED  BY <1>3, <1>11, <1>12

\* The three cases of WriteMeta: an account that keeps its meta's identity, a new one,
\* a renamed one.
LEMMA WriteMetaPlace ==
  ASSUME Alone, AloneInv, NEW p \in Procs, WriteMeta(p)
  PROVE  /\ Moves(p) /\ LocalTypes' /\ Apart(p) /\ Solo(p) /\ TypeOK' /\ PlaceOf(p)'
         /\ mem[p].op = "switch" => pc'[p] = "state" /\ mem'[p] = mem[p]
         /\ mem[p].op # "switch" => Ended(p)
         /\ mem[p].name \in Names
         /\ meta'[mem[p].name] = mem[p].meta
         /\ \A m \in Names \ {mem[p].name} : meta'[m] = meta[m] /\ (Valid(m)' <=> Valid(m))
<1> DEFINE n == mem[p].name
<1>1. /\ pc[p] = "meta" /\ pc[p] # "idle"
      /\ dirs' = dirs \cup {n} /\ meta' = [meta EXCEPT ![n] = mem[p].meta]
      /\ UNCHANGED <<auth, current, backup, state, oauth, load, crashes, past>>
  BY DEF WriteMeta
<1>2. Placed(p) /\ n \in Names /\ mem[p] \in Mems  BY <1>1, Busy
<1>3. /\ Moves(p) /\ LocalTypes' /\ Apart(p) /\ Solo(p) /\ PlaceOf(p)'
      /\ mem[p].op = "switch" => pc'[p] = "state" /\ mem'[p] = mem[p]
      /\ mem[p].op # "switch" => Ended(p)
  <2>1. CASE mem[p].op = "switch"
    <3>1. Goto(p, "state") /\ UNCHANGED <<mem, switchLock>>  BY <2>1 DEF WriteMeta
    <3>2. /\ Moves(p) /\ LocalTypes' /\ Apart(p) /\ Solo(p) /\ pc'[p] = "state" /\ mem'[p] = mem[p]
          /\ Placed(p)' => PlaceOf(p)'
      BY <1>1, <3>1, GoesOnSame DEF Places
    <3>3. PlaceOf(p)'  BY <2>1, <3>2 DEF Placed
    <3> QED  BY <2>1, <3>2, <3>3
  <2>2. CASE mem[p].op # "switch"
    <3>1. Finish(p)  BY <2>2 DEF WriteMeta
    <3>2. Ended(p) /\ Moves(p) /\ LocalTypes'  BY <1>1, <3>1, Finishes
    <3>3. Apart(p) /\ Solo(p) /\ PlaceOf(p)'  BY <3>2, MovesApart, Ends
    <3> QED  BY <2>2, <3>2, <3>3
  <2> QED  BY <2>1, <2>2
<1>4. mem[p].meta \in Metas  BY <1>2 DEF Mems
<1>5. meta' \in [Names -> Metas] /\ dirs' \subseteq Names
  BY <1>1, <1>2, <1>4 DEF AloneInv, TypeOK
<1>6. TypeOK'  BY <1>1, <1>3, <1>5 DEF AloneInv, TypeOK, LocalTypes, oauth, Places, Mems
<1>7. meta'[n] = mem[p].meta /\ \A m \in Names \ {n} : meta'[m] = meta[m]
  BY <1>1, <1>2 DEF AloneInv, TypeOK
<1>8. \A m \in Names \ {n} : Valid(m)' <=> Valid(m)
  <2> SUFFICES ASSUME NEW m \in Names \ {mem[p].name} PROVE Valid(m)' <=> Valid(m)  OBVIOUS
  <2> QED  BY <1>1, <1>7 DEF Valid
<1> QED  BY <1>2, <1>3, <1>6, <1>7, <1>8

LEMMA WriteMetasKept ==
  ASSUME Alone, AloneInv, NEW p \in Procs, WriteMeta(p), Keeping(p)
  PROVE  AloneInv'
<1> DEFINE n == mem[p].name
<1>1. /\ pc[p] = "meta" /\ pc[p] # "idle" /\ dirs' = dirs \cup {n}
      /\ UNCHANGED <<auth, current, backup, state, oauth, load, crashes, past>>
  BY DEF WriteMeta
<1>2. /\ Moves(p) /\ Apart(p) /\ Solo(p) /\ TypeOK' /\ PlaceOf(p)'
      /\ mem[p].op = "switch" => pc'[p] = "state" /\ mem'[p] = mem[p]
      /\ mem[p].op # "switch" => Ended(p)
      /\ mem[p].name \in Names
      /\ meta'[mem[p].name] = mem[p].meta
      /\ \A m \in Names \ {mem[p].name} : meta'[m] = meta[m] /\ (Valid(m)' <=> Valid(m))
  BY WriteMetaPlace
<1>3. Knows(p) /\ mem[p].op \in load.ops /\ p \in load.procs  BY <1>1, Busy
<1>4. /\ Valid(n) /\ mem[p].meta # NoMeta /\ mem[p].meta.name = n /\ mem[p].meta.id = auth[n].id
  BY <1>3 DEF Knows
<1>5. \A m \in Names : Valid(m)' <=> Valid(m)
  <2>1. \A m \in {n} : Valid(m)' /\ Valid(m)  BY <1>1, <1>2, <1>4 DEF Valid
  <2> QED  BY <1>2, <2>1
<1>6. dirs' = dirs  BY <1>1, <1>4 DEF Valid
<1>7. /\ Knows(p)' /\ Claims(p)' /\ ~Fixing(p)' /\ ~Fixing(p) /\ ~Outdates(p) /\ ~Replaces(p)
      /\ Switching(p) => Switching(p)'
  <2>1. ~Fixing(p) /\ ~Outdates(p) /\ ~Replaces(p)
    BY <1>1 DEF Keeping, Fixing, Outdates, Replaces
  <2>2. CASE mem[p].op = "switch"
    <3>1. pc'[p] = "state" /\ mem'[p] = mem[p]  BY <1>2, <2>2
    <3>2. \A m \in {n} : Valid(m)'  BY <1>2, <1>4, <1>5
    <3>3. Knows(p)'  BY <1>1, <1>3, <1>4, <2>2, <3>1, <3>2 DEF Knows, Keeping, Saving
    <3>4. Claims(p)' /\ ~Fixing(p)' /\ Switching(p)'
      BY <2>2, <3>1 DEF Claims, Saving, Fixing, Switching
    <3> QED  BY <2>1, <3>3, <3>4
  <2>3. CASE mem[p].op # "switch"
    <3>1. Ended(p)  BY <1>2, <2>3
    <3>2. Knows(p)' /\ Claims(p)' /\ ~Fixing(p)'  BY <3>1, Ends
    <3> QED  BY <2>1, <2>3, <3>2 DEF Switching
  <2> QED  BY <2>2, <2>3
<1>8. BadOf(p)' \subseteq BadOf(p)
  <2>1. Broken' = Broken
    <3>1. dirs \subseteq Names  BY DEF AloneInv, TypeOK
    <3> QED  BY <1>5, <1>6, <3>1 DEF Broken
  <2> QED  BY <1>7, <2>1 DEF BadOf
<1>9. ASSUME Fine(p) PROVE Fine(p)'
  <2>1. OneEach'  BY <1>1, <1>5, <1>9 DEF Fine, OneEach
  <2>2. current' \in Usable' /\ \A m \in dirs' : auth'[m] \in Usable'
    BY <1>1, <1>6, <1>7, <1>9 DEF Fine, oauth
  <2>3. Sticks'  BY <1>1, <1>2, <1>7, <1>9, StillSwitching DEF Fine, Sticks
  <2> QED  BY <1>7, <2>1, <2>2, <2>3 DEF Fine
<1> QED  BY <1>1, <1>2, <1>7, <1>8, <1>9, WriteKeeps

LEMMA WriteMetasNew ==
  ASSUME Alone, AloneInv, NEW p \in Procs, WriteMeta(p),
         mem[p].op \in {"save", "add", "update"}
  PROVE  AloneInv'
<1> DEFINE n == mem[p].name
<1>1. /\ pc[p] = "meta" /\ pc[p] # "idle" /\ dirs' = dirs \cup {n}
      /\ UNCHANGED <<auth, current, backup, state, oauth, load, crashes, past>>
  BY DEF WriteMeta
<1>2. /\ Apart(p) /\ Solo(p) /\ TypeOK' /\ PlaceOf(p)' /\ Ended(p) /\ n \in Names
      /\ meta'[n] = mem[p].meta
      /\ \A m \in Names \ {n} : Valid(m)' <=> Valid(m)
  BY WriteMetaPlace
<1>3. Knows(p) /\ mem[p].op \in load.ops /\ p \in load.procs /\ mem[p] \in Mems
  BY <1>1, Busy
<1>4. Solo(p)  BY <1>3, OthersRest DEF AloneInv
<1>5. /\ mem[p].auth # NoAuth /\ mem[p].meta = NewMeta(n, mem[p].auth)
      /\ n \in dirs /\ auth[n] = mem[p].auth
  BY <1>1, <1>3 DEF Knows, Saving
<1>6. \A m \in {n} : Valid(m)'
  <2>1. /\ mem[p].meta.name = n /\ mem[p].meta.id = mem[p].auth.id /\ mem[p].meta # NoMeta
    BY <1>2, <1>5, AccountStoreAssumption DEF NewMeta, NoMeta
  <2> QED  BY <1>1, <1>2, <1>5, <2>1 DEF Valid
<1>7. /\ Knows(p)' /\ Claims(p)' /\ ~Fixing(p)' /\ ~Outdates(p) /\ ~Replaces(p)
      /\ ~Switching(p) /\ Fixing(p)
  BY <1>1, <1>2, Ends DEF Fixing, Outdates, Replaces, Switching
<1>8. dirs' = dirs  BY <1>1, <1>5
<1>9. BadOf(p)' \subseteq BadOf(p)
  <2> SUFFICES ASSUME NEW m \in BadOf(p)' PROVE m \in BadOf(p)  OBVIOUS
  <2>1. m \in dirs /\ ~Valid(m)' /\ m \in Names  BY <1>8 DEF BadOf, Broken, AloneInv, TypeOK
  <2>2. m # n  BY <1>6, <2>1
  <2>3. ~Valid(m)  BY <1>2, <2>1, <2>2
  <2> QED  BY <2>1, <2>2, <2>3 DEF BadOf, Broken
<1>10. ASSUME Fine(p) PROVE Fine(p)'
  <2>1. \A m \in Names \ {n} : Valid(m) => auth[m].id # auth[n].id
    BY <1>1, <1>5, <1>10 DEF Fine, Claims, Saving
  <2>2. OneEach'
    <3> SUFFICES ASSUME NEW m1 \in Names, NEW m2 \in Names, Valid(m1)', Valid(m2)',
                        auth[m1].id = auth[m2].id, m1 # m2
                 PROVE  FALSE
      BY <1>1 DEF OneEach
    <3>1. CASE m1 = n  BY <3>1, <1>2, <2>1
    <3>2. CASE m2 = n  BY <3>2, <1>2, <2>1
    <3>3. CASE m1 # n /\ m2 # n  BY <3>3, <1>2, <1>10 DEF Fine, OneEach
    <3> QED  BY <3>1, <3>2, <3>3
  <2>3. current' \in Usable' /\ \A m \in dirs' : auth'[m] \in Usable'
    BY <1>1, <1>7, <1>8, <1>10 DEF Fine, oauth
  <2>4. Sticks'  BY <1>1, <1>2, <1>7, <1>10, StillSwitching DEF Fine, Sticks
  <2> QED  BY <1>7, <2>2, <2>3, <2>4 DEF Fine
<1> QED  BY <1>1, <1>2, <1>4, <1>7, <1>9, <1>10, WriteKeeps

LEMMA WriteMetasRenamed ==
  ASSUME Alone, AloneInv, NEW p \in Procs, WriteMeta(p), mem[p].op = "rename"
  PROVE  AloneInv'
<1> DEFINE n == mem[p].name
<1>1. /\ pc[p] = "meta" /\ pc[p] # "idle" /\ dirs' = dirs \cup {n}
      /\ UNCHANGED <<auth, current, backup, state, oauth, load, crashes, past>>
  BY DEF WriteMeta
<1>2. /\ Apart(p) /\ Solo(p) /\ TypeOK' /\ PlaceOf(p)' /\ Ended(p) /\ n \in Names
      /\ meta'[n] = mem[p].meta
      /\ \A m \in Names \ {n} : Valid(m)' <=> Valid(m)
  BY WriteMetaPlace
<1>3. Knows(p) /\ mem[p].op \in load.ops /\ p \in load.procs  BY <1>1, Busy
<1>4. Solo(p)  BY <1>3, OthersRest DEF AloneInv
<1>5. n \in dirs /\ meta[n] # NoMeta /\ mem[p].meta = [meta[n] EXCEPT !.name = n]
  BY <1>1, <1>3 DEF Knows, Keeping, Saving
<1>6. Fixable(n) => \A m \in {n} : Valid(m)'
  <2>1. meta[n] \in [name : Names, id : Ids, eligible : BOOLEAN]
    BY <1>2, <1>5 DEF AloneInv, TypeOK, Metas
  <2>2. /\ mem[p].meta.name = n /\ mem[p].meta.id = meta[n].id
        /\ mem[p].meta.name # NoName
    BY <1>2, <1>5, <2>1, AccountStoreAssumption
  <2>3. mem[p].meta # NoMeta  BY <2>2 DEF NoMeta
  <2>4. meta'[n] # NoMeta /\ meta'[n].name = n /\ meta'[n].id = meta[n].id /\ n \in dirs'
    BY <1>1, <1>2, <2>2, <2>3
  <2> HIDE DEF n
  <2> SUFFICES ASSUME Fixable(n) PROVE \A m \in {n} : Valid(m)'  OBVIOUS
  <2> QED  BY <1>1, <2>4 DEF Valid, Fixable
<1>7. /\ Knows(p)' /\ Claims(p)' /\ ~Fixing(p)' /\ ~Outdates(p) /\ ~Replaces(p)
      /\ ~Switching(p) /\ (Fixing(p) <=> Fixable(n))
  BY <1>1, <1>2, Ends DEF Fixing, Outdates, Replaces, Switching
<1>8. dirs' = dirs  BY <1>1, <1>5
<1>9. BadOf(p)' \subseteq BadOf(p)
  <2> SUFFICES ASSUME NEW m \in BadOf(p)' PROVE m \in BadOf(p)  OBVIOUS
  <2>1. m \in dirs /\ ~Valid(m)' /\ m \in Names  BY <1>8 DEF BadOf, Broken, AloneInv, TypeOK
  <2>2. CASE m # n
    <3>1. ~Valid(m)  BY <1>2, <2>1, <2>2
    <3> QED  BY <2>1, <2>2, <3>1 DEF BadOf, Broken
  <2>3. CASE m = n
    <3>1. ~Fixable(m)  BY <1>6, <2>1, <2>3
    <3>2. ~Valid(m)  BY <3>1 DEF Valid, Fixable
    <3> QED  BY <1>7, <2>1, <2>3, <3>1, <3>2 DEF BadOf, Broken
  <2> QED  BY <2>2, <2>3
<1>10. ASSUME Fine(p) PROVE Fine(p)'
  <2>1. \A m \in Names \ {n} : Valid(m) => auth[m].id # auth[n].id
    BY <1>10 DEF Fine, Claims
  <2>2. OneEach'
    <3> SUFFICES ASSUME NEW m1 \in Names, NEW m2 \in Names, Valid(m1)', Valid(m2)',
                        auth[m1].id = auth[m2].id, m1 # m2
                 PROVE  FALSE
      BY <1>1 DEF OneEach
    <3>1. CASE m1 = n  BY <3>1, <1>2, <2>1
    <3>2. CASE m2 = n  BY <3>2, <1>2, <2>1
    <3>3. CASE m1 # n /\ m2 # n  BY <3>3, <1>2, <1>10 DEF Fine, OneEach
    <3> QED  BY <3>1, <3>2, <3>3
  <2>3. current' \in Usable' /\ \A m \in dirs' : auth'[m] \in Usable'
    BY <1>1, <1>7, <1>8, <1>10 DEF Fine, oauth
  <2>4. Sticks'  BY <1>1, <1>2, <1>7, <1>10, StillSwitching DEF Fine, Sticks
  <2> QED  BY <1>7, <2>2, <2>3, <2>4 DEF Fine
<1> QED  BY <1>1, <1>2, <1>4, <1>7, <1>9, <1>10, WriteKeeps

LEMMA WriteMetas ==
  ASSUME Alone, AloneInv, NEW p \in Procs, WriteMeta(p)
  PROVE  AloneInv'
<1>1. pc[p] = "meta" /\ pc[p] # "idle"  BY DEF WriteMeta
<1>2. Placed(p)  BY <1>1, Busy
<1>3. \/ Keeping(p) \/ mem[p].op \in {"save", "add", "update"} \/ mem[p].op = "rename"
  BY <1>1, <1>2 DEF Placed, Keeping
<1> QED  BY <1>3, WriteMetasKept, WriteMetasNew, WriteMetasRenamed

\* current = the snapshot that p holds: the switch, and the end of a refresh.
LEMMA SwitchWrites ==
  ASSUME Alone, AloneInv, NEW p \in Procs, SwitchWrite(p)
  PROVE  AloneInv'
<1> DEFINE n == mem[p].name
<1>1. /\ pc[p] = "current" /\ pc[p] # "idle" /\ Goto(p, "verify") /\ current' = mem[p].auth
      /\ undone' = FALSE
      /\ UNCHANGED <<dirs, auth, meta, backup, state, oauth, switchLock, mem, load, crashes,
                     switched, dropped, crossed>>
  BY DEF SwitchWrite
<1>2. /\ Placed(p) /\ Knows(p) /\ mem[p] \in Mems
      /\ switchLock = p <=> mem[p].op = "switch"
  BY <1>1, Busy
<1>3. mem[p].op = "switch" /\ switchLock = p  BY <1>1, <1>2 DEF Placed
<1>4. /\ Moves(p) /\ LocalTypes' /\ Apart(p) /\ Solo(p) /\ pc'[p] = "verify" /\ mem'[p] = mem[p]
      /\ Placed(p)' => PlaceOf(p)'
  BY <1>1, GoesOnSame DEF Places
<1>5. TypeOK'
  <2>1. current' \in Auths  BY <1>1, <1>2 DEF Mems
  <2> QED  BY <2>1, <1>1, <1>4 DEF AloneInv, TypeOK, LocalTypes, oauth, Places, Mems
<1>6. PlaceOf(p)'  BY <1>3, <1>4 DEF Placed
<1>7. \A m \in Names : Valid(m)' <=> Valid(m)  BY <1>1 DEF Valid
<1>8. Knows(p)'
  <2>1. Valid(n) => \A m \in {n} : Valid(m)'  BY <1>1 DEF Valid
  <2> QED  BY <1>1, <1>2, <1>3, <1>4, <2>1 DEF Knows, Keeping, Saving
<1>9. /\ Claims(p)' /\ ~Fixing(p)' /\ ~Fixing(p) /\ ~Outdates(p) /\ ~Replaces(p)
       /\ Switching(p)'
  BY <1>1, <1>3, <1>4 DEF Claims, Saving, Fixing, Outdates, Replaces, Switching
<1>10. BadOf(p)' \subseteq BadOf(p)  BY <1>1, <1>9 DEF BadOf, Broken, Valid
<1>11. ASSUME Fine(p) PROVE Fine(p)'
  <2>1. OneEach'  BY <1>1, <1>7, <1>11 DEF Fine, OneEach
  <2>2. current' \in Usable'  BY <1>1, <1>11 DEF Fine, Claims, oauth
  <2>3. \A m \in dirs' : auth'[m] \in Usable'  BY <1>1, <1>9, <1>11 DEF Fine, oauth
  <2>4. Sticks'  BY <1>9 DEF Sticks
  <2> QED  BY <1>9, <2>1, <2>2, <2>3, <2>4 DEF Fine
<1> QED  BY <1>1, <1>4, <1>5, <1>6, <1>8, <1>10, <1>11, WriteKeeps

LEMMA SyncWrites ==
  ASSUME Alone, AloneInv, NEW p \in Procs, SyncWrite(p)
  PROVE  AloneInv'
<1> DEFINE n == mem[p].name
<1>1. /\ pc[p] = "syncWrite" /\ pc[p] # "idle" /\ Goto(p, "meta") /\ current' = mem[p].auth
      /\ undone' = (undone \/ current.id # mem[p].auth.id)
      /\ UNCHANGED <<dirs, auth, meta, backup, state, oauth, switchLock, mem, load, crashes,
                     switched, dropped, crossed>>
  BY DEF SyncWrite
<1>2. /\ Placed(p) /\ Knows(p) /\ mem[p] \in Mems
      /\ mem[p].op \in load.ops /\ p \in load.procs
  BY <1>1, Busy
<1>3. Refreshing(p)  BY <1>1, <1>2 DEF Placed
<1>4. Solo(p)  BY <1>2, <1>3, OthersRest DEF AloneInv
<1>5. /\ Moves(p) /\ LocalTypes' /\ Apart(p) /\ Solo(p) /\ pc'[p] = "meta" /\ mem'[p] = mem[p]
      /\ Placed(p)' => PlaceOf(p)'
  BY <1>1, GoesOnSame DEF Places
<1>6. TypeOK'
  <2>1. current' \in Auths /\ undone' \in BOOLEAN  BY <1>1, <1>2 DEF Mems, AloneInv, TypeOK
  <2> QED  BY <2>1, <1>1, <1>5 DEF AloneInv, TypeOK, LocalTypes, oauth, Places, Mems
<1>7. PlaceOf(p)'  BY <1>3, <1>5 DEF Placed
<1>8. \A m \in Names : Valid(m)' <=> Valid(m)  BY <1>1 DEF Valid
<1>9. Knows(p)'
  <2>1. Valid(n) => \A m \in {n} : Valid(m)'  BY <1>1 DEF Valid
  <2> QED  BY <1>1, <1>2, <1>3, <1>5, <2>1 DEF Knows, Keeping, Saving
<1>10. /\ Claims(p)' /\ ~Fixing(p)' /\ ~Fixing(p) /\ ~Replaces(p) /\ ~Switching(p)
       /\ current'.id = current.id
  BY <1>1, <1>2, <1>3, <1>5 DEF Claims, Saving, Fixing, Replaces, Switching, Knows
<1>11. BadOf(p)' \subseteq BadOf(p)  BY <1>1, <1>10 DEF BadOf, Broken, Valid
<1>12. ASSUME Fine(p) PROVE Fine(p)'
  <2>1. OneEach'  BY <1>1, <1>8, <1>12 DEF Fine, OneEach
  <2>2. current' \in Usable'  BY <1>1, <1>12 DEF Fine, Claims, oauth
  <2>3. \A m \in dirs' : auth'[m] \in Usable'  BY <1>1, <1>10, <1>12 DEF Fine, oauth
  <2>4. Sticks'  BY <1>1, <1>5, <1>10, <1>12, StillSwitching DEF Fine, Sticks
  <2> QED  BY <1>10, <2>1, <2>2, <2>3, <2>4 DEF Fine
<1> QED  BY <1>1, <1>4, <1>5, <1>6, <1>7, <1>9, <1>11, <1>12, WriteKeeps

LEMMA SwitchStates ==
  ASSUME Alone, AloneInv, NEW p \in Procs, SwitchState(p)
  PROVE  AloneInv'
<1>1. /\ pc[p] = "state" /\ pc[p] # "idle" /\ Finish(p)
      /\ state' = mem[p].name /\ switched' = mem[p].auth.id
      /\ UNCHANGED <<dirs, auth, meta, current, backup, oauth, load, crashes,
                     undone, dropped, crossed>>
  BY DEF SwitchState
<1>2. Placed(p) /\ Knows(p) /\ mem[p].name \in Names /\ mem[p] \in Mems  BY <1>1, Busy
<1>3. mem[p].op = "switch"  BY <1>1, <1>2 DEF Placed
<1>4. current.id = mem[p].auth.id  BY <1>1, <1>2, <1>3 DEF Knows
<1>5. Ended(p) /\ Moves(p) /\ LocalTypes'  BY <1>1, Finishes
<1>6. Apart(p) /\ Solo(p)  BY <1>5, MovesApart
<1>7. PlaceOf(p)' /\ Knows(p)' /\ Claims(p)' /\ ~Fixing(p)'  BY <1>5, Ends
<1>8. TypeOK'
  <2>1. mem[p].auth \in Auths  BY <1>2 DEF Mems
  <2>2. mem[p].auth.id \in Ids \cup {NoId}  BY <2>1 DEF Auths, NoAuth
  <2> QED  BY <1>1, <1>2, <1>5, <2>2 DEF AloneInv, TypeOK, LocalTypes, oauth, Places, Mems
<1>9. \A m \in Names : Valid(m)' <=> Valid(m)  BY <1>1 DEF Valid
<1>10. ~Fixing(p) /\ ~Outdates(p) /\ ~Replaces(p)
  BY <1>1, <1>3 DEF Fixing, Outdates, Replaces
<1>11. BadOf(p)' \subseteq BadOf(p)  BY <1>1, <1>7, <1>10 DEF BadOf, Broken, Valid
<1>12. ASSUME Fine(p) PROVE Fine(p)'
  <2>1. OneEach'  BY <1>1, <1>9, <1>12 DEF Fine, OneEach
  <2>2. current' \in Usable' /\ \A m \in dirs' : auth'[m] \in Usable'
    BY <1>1, <1>10, <1>12 DEF Fine, oauth
  <2>3. Sticks'  BY <1>1, <1>4 DEF Sticks
  <2> QED  BY <1>7, <2>1, <2>2, <2>3 DEF Fine
<1> QED  BY <1>1, <1>6, <1>7, <1>8, <1>11, <1>12, WriteKeeps

\* A process is killed: the account of its operation may stay unreadable.
LEMMA Crashes ==
  ASSUME Alone, AloneInv, NEW p \in Procs, Crash(p)
  PROVE  AloneInv'
<1> DEFINE n == mem[p].name
<1>1. /\ pc[p] # "idle" /\ Finish(p) /\ crashes' = crashes + 1
      /\ UNCHANGED <<files, oauth, load, past>>
  BY DEF Crash
<1>2. Ended(p) /\ Moves(p) /\ LocalTypes'  BY <1>1, Finishes
<1>3. Apart(p) /\ Solo(p)  BY <1>2, MovesApart
<1>4. PlaceOf(p)' /\ Knows(p)' /\ ~Fixing(p)'  BY <1>2, Ends
<1>5. crashes \in Nat /\ crashes' \in Nat /\ crashes' # 0  BY <1>1 DEF AloneInv, TypeOK
<1>6. TypeOK'
  BY <1>1, <1>2, <1>5 DEF AloneInv, TypeOK, LocalTypes, files, oauth, Places, Mems
<1>7. BadOf(p)' \subseteq BadOf(p) \cup {n}  BY <1>1 DEF BadOf, Broken, Valid, files
<1>8. IsFiniteSet(BadOf(p)) /\ Cardinality(BadOf(p)) <= crashes  BY <1>3, Narrow DEF Sound
<1>9. IsFiniteSet(BadOf(p)') /\ Cardinality(BadOf(p)') <= crashes'
  <2>1. /\ IsFiniteSet(BadOf(p) \cup {n})
        /\ Cardinality(BadOf(p) \cup {n}) <= Cardinality(BadOf(p)) + 1
    <3>1. /\ IsFiniteSet(BadOf(p) \cup {n})
          /\ Cardinality(BadOf(p) \cup {n}) =
               IF n \in BadOf(p) THEN Cardinality(BadOf(p)) ELSE Cardinality(BadOf(p)) + 1
      BY <1>8, FS_AddElement
    <3>2. Cardinality(BadOf(p)) \in Nat  BY <1>8, FS_CardinalityType
    <3> QED  BY <3>1, <3>2
  <2>2. /\ IsFiniteSet(BadOf(p)')
        /\ Cardinality(BadOf(p)') <= Cardinality(BadOf(p) \cup {n})
    BY <1>7, <2>1, FS_Subset
  <2>3. /\ Cardinality(BadOf(p)) \in Nat /\ Cardinality(BadOf(p)') \in Nat
        /\ Cardinality(BadOf(p) \cup {n}) \in Nat
    BY <1>8, <2>1, <2>2, FS_CardinalityType
  <2> QED  BY <1>1, <1>5, <1>8, <2>1, <2>2, <2>3
<1>10. Sound(p)'  BY <1>4, <1>5, <1>9 DEF Sound
<1> QED  BY <1>3, <1>5, <1>6, <1>10, Widen

LEMMA RemoveBegins ==
  ASSUME Alone, AloneInv, NEW p \in Procs, NEW n \in Names, RemoveBegin(p, n)
  PROVE  AloneInv'
<1>1. /\ pc[p] = "idle" /\ p \in load.procs /\ "remove" \in load.ops /\ n \in dirs
      /\ mem' = [mem EXCEPT ![p] = [op |-> "remove", name |-> n, auth |-> NoAuth, meta |-> NoMeta]]
      /\ Goto(p, "unlink") /\ auth' = [auth EXCEPT ![n] = NoAuth]
      /\ UNCHANGED <<dirs, meta, current, backup, state, oauth, switchLock, load, crashes, past>>
  BY DEF RemoveBegin, Begin
<1>2. mem'[p] = [op |-> "remove", name |-> n, auth |-> NoAuth, meta |-> NoMeta]
  BY <1>1 DEF AloneInv, TypeOK
<1>3. mem'[p] \in Mems /\ mem'[p].op = "remove" /\ mem'[p].name = n
  BY <1>2 DEF Mems, AllOps, Auths, Metas
<1>4. mem' = [mem EXCEPT ![p] = mem'[p]]  BY <1>1, <1>2
<1>5. /\ Moves(p) /\ LocalTypes' /\ mem[p] = NoMem /\ pc'[p] = "unlink"
      /\ switchLock' = p <=> mem'[p].op = "switch"
      /\ ~Fixing(p) /\ ~Outdates(p) /\ ~Replaces(p) /\ ~Switching(p)
  BY <1>1, <1>3, <1>4, Begins DEF AllOps, Places
<1>6. Apart(p) /\ Solo(p)  BY <1>5, MovesApart
<1>7. TypeOK'
  <2>1. auth' \in [Names -> Auths]  BY <1>1 DEF AloneInv, TypeOK, Auths
  <2> QED  BY <2>1, <1>1, <1>5 DEF AloneInv, TypeOK, LocalTypes, oauth, Places, Mems
<1>8. PlaceOf(p)'  BY <1>1, <1>3, <1>5 DEF PlaceOf, Placed
<1>9. auth'[n] = NoAuth /\ \A m \in Names \ {n} : auth'[m] = auth[m]
  BY <1>1 DEF AloneInv, TypeOK
<1>10. \A m \in Names : Valid(m)' => Valid(m) /\ m # n /\ auth'[m] = auth[m]
  BY <1>1, <1>9 DEF Valid
<1>11. \A m \in Names \ {n} : Valid(m)' <=> Valid(m)  BY <1>1, <1>9 DEF Valid
<1>12. Knows(p)'  BY <1>3, <1>5, <1>9 DEF Knows, Keeping, Saving
<1>13. Claims(p)' /\ Fixing(p)' /\ Replaces(p)'
  BY <1>3, <1>5 DEF Claims, Saving, Fixing, Replaces
<1>14. BadOf(p)' \subseteq BadOf(p)
  <2> SUFFICES ASSUME NEW m \in BadOf(p)' PROVE m \in BadOf(p)  OBVIOUS
  <2>1. m \in dirs /\ ~Valid(m)' /\ m # n /\ m \in Names
    BY <1>1, <1>3, <1>13 DEF BadOf, Broken, AloneInv, TypeOK
  <2>2. ~Valid(m)  BY <1>11, <2>1
  <2> QED  BY <1>5, <2>1, <2>2 DEF BadOf, Broken
<1>15. ASSUME Fine(p) PROVE Fine(p)'
  <2>1. OneEach'  BY <1>10, <1>15 DEF Fine, OneEach
  <2>2. current' \in Usable'  BY <1>1, <1>5, <1>15 DEF Fine, oauth
  <2>3. \A m \in dirs' : auth'[m] \in Usable' \/ (Replaces(p)' /\ mem'[p].name = m)
    <3>1. dirs \subseteq Names  BY DEF AloneInv, TypeOK
    <3> QED  BY <1>1, <1>3, <1>5, <1>9, <1>13, <1>15, <3>1 DEF Fine, oauth
  <2>4. Sticks'  BY <1>1, <1>5, <1>6, <1>15, StillSwitching DEF Fine, Sticks
  <2> QED  BY <1>13, <2>1, <2>2, <2>3, <2>4 DEF Fine
<1> QED  BY <1>1, <1>6, <1>7, <1>8, <1>12, <1>14, <1>15, WriteKeeps

LEMMA RemoveRests ==
  ASSUME Alone, AloneInv, NEW p \in Procs, RemoveRest(p)
  PROVE  AloneInv'
<1> DEFINE n == mem[p].name
<1>1. /\ pc[p] = "unlink" /\ pc[p] # "idle" /\ Finish(p)
      /\ meta' = [meta EXCEPT ![n] = NoMeta]
      /\ UNCHANGED <<auth, current, backup, state, oauth, load, crashes, past>>
  BY DEF RemoveRest
<1>2. /\ Placed(p) /\ Knows(p) /\ n \in Names
      /\ mem[p].op \in load.ops /\ p \in load.procs
  BY <1>1, Busy
<1>3. mem[p].op = "remove" /\ auth[n] = NoAuth  BY <1>1, <1>2 DEF Placed, Knows
<1>4. dirs' = dirs \ {n}  BY <1>3 DEF RemoveRest
<1>5. Ended(p) /\ Moves(p) /\ LocalTypes'  BY <1>1, Finishes
<1>6. Apart(p) /\ Solo(p)  BY <1>5, MovesApart
<1>7. Solo(p)  BY <1>2, <1>3, OthersRest DEF AloneInv
<1>8. PlaceOf(p)' /\ Knows(p)' /\ Claims(p)' /\ ~Fixing(p)'  BY <1>5, Ends
<1>9. TypeOK'
  <2>1. meta' \in [Names -> Metas] /\ dirs' \subseteq Names
    BY <1>1, <1>2, <1>4 DEF AloneInv, TypeOK, Metas
  <2> QED  BY <2>1, <1>1, <1>5 DEF AloneInv, TypeOK, LocalTypes, oauth, Places, Mems
<1>10. \A m \in Names \ {n} : Valid(m)' <=> Valid(m)
  <2> SUFFICES ASSUME NEW m \in Names \ {mem[p].name} PROVE Valid(m)' <=> Valid(m)  OBVIOUS
  <2>1. meta'[m] = meta[m] /\ (m \in dirs' <=> m \in dirs)  BY <1>1, <1>4 DEF AloneInv, TypeOK
  <2> QED  BY <1>1, <2>1 DEF Valid
<1>11. \A m \in {n} : ~Valid(m)'  BY <1>1, <1>3 DEF Valid
<1>12. ~Outdates(p) /\ ~Switching(p) /\ Fixing(p)
  BY <1>1, <1>3 DEF Outdates, Switching, Fixing
<1>13. BadOf(p)' \subseteq BadOf(p)
  <2> SUFFICES ASSUME NEW m \in BadOf(p)' PROVE m \in BadOf(p)  OBVIOUS
  <2>1. m \in dirs /\ m # n /\ ~Valid(m)' /\ m \in Names
    BY <1>4 DEF BadOf, Broken, AloneInv, TypeOK
  <2>2. ~Valid(m)  BY <1>10, <2>1
  <2> QED  BY <2>1, <2>2 DEF BadOf, Broken
<1>14. ASSUME Fine(p) PROVE Fine(p)'
  <2>1. \A m \in Names : Valid(m)' => Valid(m)  BY <1>10, <1>11
  <2>2. OneEach'  BY <1>1, <1>14, <2>1 DEF Fine, OneEach
  <2>3. current' \in Usable' /\ \A m \in dirs' : auth'[m] \in Usable'
    BY <1>1, <1>4, <1>12, <1>14 DEF Fine, oauth
  <2>4. Sticks'  BY <1>1, <1>6, <1>12, <1>14, StillSwitching DEF Fine, Sticks
  <2> QED  BY <1>8, <2>2, <2>3, <2>4 DEF Fine
<1> QED  BY <1>1, <1>6, <1>7, <1>8, <1>9, <1>13, <1>14, WriteKeeps

\* The directory moves; an account that could not be read cannot be read under its
\* new name either, unless what was wrong was the name in its meta.
LEMMA RenameBegins ==
  ASSUME Alone, AloneInv, NEW p \in Procs, NEW old \in Names, NEW new \in Names,
         RenameBegin(p, old, new)
  PROVE  AloneInv'
<1>1. /\ pc[p] = "idle" /\ p \in load.procs /\ "rename" \in load.ops
      /\ old \in dirs /\ new \notin dirs
      /\ mem' = [mem EXCEPT ![p] = [op |-> "rename", name |-> new, auth |-> NoAuth, meta |-> NoMeta]]
      /\ Goto(p, "remeta") /\ dirs' = (dirs \ {old}) \cup {new}
      /\ auth' = [auth EXCEPT ![new] = auth[old], ![old] = NoAuth]
      /\ meta' = [meta EXCEPT ![new] = meta[old], ![old] = NoMeta]
      /\ UNCHANGED <<current, backup, state, oauth, switchLock, load, crashes, past>>
  BY DEF RenameBegin, Begin
<1>2. mem'[p] = [op |-> "rename", name |-> new, auth |-> NoAuth, meta |-> NoMeta]
  BY <1>1 DEF AloneInv, TypeOK
<1>3. mem'[p] \in Mems /\ mem'[p].op = "rename" /\ mem'[p].name = new
  BY <1>2 DEF Mems, AllOps, Auths, Metas
<1>4. mem' = [mem EXCEPT ![p] = mem'[p]]  BY <1>1, <1>2
<1>5. /\ Moves(p) /\ LocalTypes' /\ mem[p] = NoMem /\ pc'[p] = "remeta"
      /\ switchLock' = p <=> mem'[p].op = "switch"
      /\ ~Fixing(p) /\ ~Outdates(p) /\ ~Replaces(p) /\ ~Switching(p)
  BY <1>1, <1>3, <1>4, Begins DEF AllOps, Places
<1>6. Apart(p) /\ Solo(p)  BY <1>5, MovesApart
<1>7. TypeOK'
  <2>1. auth' \in [Names -> Auths] /\ meta' \in [Names -> Metas] /\ dirs' \subseteq Names
    BY <1>1 DEF AloneInv, TypeOK, Auths, Metas
  <2> QED  BY <2>1, <1>1, <1>5 DEF AloneInv, TypeOK, LocalTypes, oauth, Places, Mems
<1>8. PlaceOf(p)'  BY <1>1, <1>3, <1>5 DEF PlaceOf, Placed
<1>9. /\ old # new /\ auth'[new] = auth[old] /\ meta'[new] = meta[old]
      /\ \A m \in Names \ {old, new} : auth'[m] = auth[m] /\ meta'[m] = meta[m]
  BY <1>1 DEF AloneInv, TypeOK
<1>10. \A m \in Names \ {old, new} : Valid(m)' <=> Valid(m)  BY <1>1, <1>9 DEF Valid
<1>11. ~Valid(old)'  BY <1>1, <1>9 DEF Valid
<1>12. Knows(p)'  BY <1>1, <1>3, <1>5 DEF Knows, Keeping, Saving
<1>13. Fixing(p)' <=> Fixable(new)'  BY <1>3, <1>5 DEF Fixing
<1>14. Fixable(new)' <=> Fixable(old)  BY <1>9 DEF Fixable
<1>15. IsFiniteSet(BadOf(p)') /\ Cardinality(BadOf(p)') <= crashes'
  <2>1. IsFiniteSet(BadOf(p)) /\ Cardinality(BadOf(p)) <= crashes  BY <1>6, Narrow DEF Sound
  <2>2. crashes' = crashes /\ crashes \in Nat  BY <1>1 DEF AloneInv, TypeOK
  <2>3. \A m \in BadOf(p)' : m # new => m \in BadOf(p) \ {old}
    <3> SUFFICES ASSUME NEW m \in BadOf(p)', m # new PROVE m \in BadOf(p) \ {old}  OBVIOUS
    <3>1. m \in dirs /\ m # old /\ ~Valid(m)' /\ m \in Names
      BY <1>1 DEF BadOf, Broken, AloneInv, TypeOK
    <3>2. ~Valid(m)  BY <1>10, <3>1
    <3> QED  BY <1>5, <3>1, <3>2 DEF BadOf, Broken
  <2>4. CASE Fixable(old)
    <3>1. new \notin BadOf(p)'  BY <1>3, <1>13, <1>14, <2>4 DEF BadOf
    <3>2. BadOf(p)' \subseteq BadOf(p)  BY <2>3, <3>1
    <3>3. IsFiniteSet(BadOf(p)') /\ Cardinality(BadOf(p)') <= Cardinality(BadOf(p))
      BY <2>1, <3>2, FS_Subset
    <3>4. Cardinality(BadOf(p)') \in Nat /\ Cardinality(BadOf(p)) \in Nat
      BY <2>1, <3>3, FS_CardinalityType
    <3> QED  BY <2>1, <2>2, <3>3, <3>4
  <2>5. CASE ~Fixable(old)
    <3> DEFINE rest == BadOf(p) \ {old}
    <3>1. old \in BadOf(p)  BY <1>1, <1>5, <2>5 DEF BadOf, Broken, Valid, Fixable
    <3>2. IsFiniteSet(rest) /\ Cardinality(rest) = Cardinality(BadOf(p)) - 1
      BY <2>1, <3>1, FS_RemoveElement
    <3>3. new \notin rest  BY <1>1 DEF BadOf, Broken
    <3>4. IsFiniteSet(rest \cup {new}) /\ Cardinality(rest \cup {new}) = Cardinality(rest) + 1
      BY <3>2, <3>3, FS_AddElement
    <3>5. BadOf(p)' \subseteq rest \cup {new}  BY <2>3
    <3>6. /\ IsFiniteSet(BadOf(p)')
          /\ Cardinality(BadOf(p)') <= Cardinality(rest \cup {new})
      BY <3>4, <3>5, FS_Subset
    <3>7. /\ Cardinality(BadOf(p)) \in Nat /\ Cardinality(rest) \in Nat
          /\ Cardinality(rest \cup {new}) \in Nat /\ Cardinality(BadOf(p)') \in Nat
      BY <2>1, <3>2, <3>4, <3>6, FS_CardinalityType
    <3> HIDE DEF rest
    <3> QED  BY <2>1, <2>2, <3>2, <3>4, <3>6, <3>7
  <2> QED  BY <2>4, <2>5
<1>16. ASSUME crashes = 0, Fine(p) PROVE Fine(p)'
  <2>1. \A m \in dirs : Valid(m)  BY <1>5, <1>6, <1>16, AllReadable
  <2>2. \A m \in Names \ {new} : Valid(m)' => Valid(m) /\ m # old /\ auth'[m] = auth[m]
    BY <1>9, <1>10, <1>11
  <2>3. \A m \in Names \ {new} : Valid(m)' => auth'[m].id # auth'[new].id
    <3> SUFFICES ASSUME NEW m \in Names \ {new}, Valid(m)'
                 PROVE  auth[m].id # auth[old].id
      BY <1>9, <2>2
    <3>1. Valid(m) /\ Valid(old) /\ m # old  BY <1>1, <2>1, <2>2
    <3> QED  BY <3>1, <1>16 DEF Fine, OneEach
  <2>4. Claims(p)'  BY <1>3, <1>5, <2>3 DEF Claims, Saving
  <2>5. OneEach'
    <3> SUFFICES ASSUME NEW m1 \in Names, NEW m2 \in Names, Valid(m1)', Valid(m2)',
                        auth'[m1].id = auth'[m2].id, m1 # m2
                 PROVE  FALSE
      BY DEF OneEach
    <3>1. CASE m1 = new  BY <3>1, <2>3
    <3>2. CASE m2 = new  BY <3>2, <2>3
    <3>3. CASE m1 # new /\ m2 # new  BY <3>3, <2>2, <1>16 DEF Fine, OneEach
    <3> QED  BY <3>1, <3>2, <3>3
  <2>6. current' \in Usable'  BY <1>1, <1>5, <1>16 DEF Fine, oauth
  <2>7. \A m \in dirs' : auth'[m] \in Usable'
    <3>1. \A m \in dirs : m \in Names /\ auth[m] \in Usable
      BY <1>5, <1>16 DEF Fine, AloneInv, TypeOK
    <3>2. \A m \in dirs' : m = new \/ (m \in dirs /\ m # old /\ m # new)  BY <1>1
    <3>3. live' = live /\ dropped' = dropped  BY <1>1 DEF oauth
    <3>4. auth'[new] \in Usable  BY <1>1, <1>9, <3>1
    <3>5. \A m \in dirs : m # old /\ m # new => auth'[m] \in Usable  BY <1>9, <3>1
    <3> QED  BY <3>2, <3>3, <3>4, <3>5
  <2>8. Sticks'  BY <1>1, <1>5, <1>6, <1>16, StillSwitching DEF Fine, Sticks
  <2> QED  BY <2>4, <2>5, <2>6, <2>7, <2>8 DEF Fine
<1>17. crashes' = 0 => crashes = 0 /\ Fine(p)  BY <1>1, <1>6, Narrow DEF Sound
<1>18. Sound(p)'  BY <1>8, <1>12, <1>15, <1>16, <1>17 DEF Sound
<1> QED  BY <1>6, <1>7, <1>17, <1>18, Widen

LEMMA RefreshRotates ==
  ASSUME Alone, AloneInv, NEW p \in Procs, RefreshRotate(p)
  PROVE  AloneInv'
<1> DEFINE n == mem[p].name
           a == mem[p].auth
           new == [id |-> a.id, tok |-> issued']
<1>1. /\ pc[p] = "request" /\ pc[p] # "idle" /\ Refreshing(p) /\ a \in live
      /\ mem' = [mem EXCEPT ![p].auth.tok = issued'] /\ Goto(p, "auth")
      /\ UNCHANGED <<files, switchLock, load, crashes, switched, undone, dropped>>
  <2>1. pc[p] = "request" /\ pc[p] # "idle"  BY DEF RefreshRotate
  <2>2. Placed(p)  BY <2>1, Busy
  <2> QED  BY <2>1, <2>2 DEF RefreshRotate, Placed
<1>2. /\ Knows(p) /\ n \in Names /\ mem[p] \in Mems
      /\ mem[p].op \in load.ops /\ p \in load.procs
  BY <1>1, Busy
<1>3. /\ Valid(n) /\ a # NoAuth /\ a.id = auth[n].id
      /\ mem[p].meta # NoMeta /\ mem[p].meta.name = n /\ mem[p].meta.id = auth[n].id
  BY <1>1, <1>2 DEF Knows, Keeping
<1>4. issued' = issued + 1 /\ issued' \in 1..MaxTokens /\ live' = (live \ {a}) \cup {new}
  BY AccountStoreAssumption DEF RefreshRotate, Issue, AloneInv, TypeOK
<1>5. a \in [id : Ids, tok : 1..MaxTokens]  BY <1>2, <1>3 DEF Mems, Auths
<1>6. new \in [id : Ids, tok : 1..MaxTokens]  BY <1>4, <1>5
<1>7. new \in Auths /\ new # NoAuth /\ new.id = a.id
  BY <1>6, AccountStoreAssumption DEF Auths, NoAuth
<1>8. mem'[p] = [mem[p] EXCEPT !.auth.tok = issued']  BY <1>1 DEF AloneInv, TypeOK
<1>9. mem' = [mem EXCEPT ![p] = mem'[p]]  BY <1>1, <1>8 DEF AloneInv, TypeOK
<1>10. /\ mem'[p].op = mem[p].op /\ mem'[p].name = n /\ mem'[p].meta = mem[p].meta
       /\ mem'[p].auth = [a EXCEPT !.tok = issued']
  BY <1>2, <1>8 DEF Mems
<1>11. mem'[p].auth = new  BY <1>5, <1>10
<1>12. mem'[p] \in Mems
  <2>1. mem'[p] = [mem[p] EXCEPT !.auth = [a EXCEPT !.tok = issued']]  BY <1>2, <1>8 DEF Mems
  <2>2. [a EXCEPT !.tok = issued'] \in Auths  BY <1>7, <1>10, <1>11
  <2> HIDE DEF a
  <2> QED  BY <1>2, <2>1, <2>2 DEF Mems
<1>13. /\ Moves(p) /\ LocalTypes' /\ Apart(p) /\ Solo(p) /\ pc'[p] = "auth"
       /\ Placed(p)' => PlaceOf(p)'
  BY <1>1, <1>9, <1>10, <1>12, GoesOn DEF Places
<1>14. Solo(p)  BY <1>1, <1>2, OthersRest DEF AloneInv
<1>15. TypeOK'
  <2>1. live' \subseteq Auths /\ issued' \in 0..MaxTokens  BY <1>4, <1>7 DEF AloneInv, TypeOK
  <2>2. crossed' \in BOOLEAN  BY DEF RefreshRotate, AloneInv, TypeOK
  <2> QED  BY <2>1, <2>2, <1>1, <1>13 DEF AloneInv, TypeOK, LocalTypes, files, Places, Mems
<1>16. PlaceOf(p)'  BY <1>1, <1>10, <1>13 DEF Placed
<1> HIDE DEF new
<1>17. \A m \in Names : Valid(m)' <=> Valid(m)  BY <1>1 DEF Valid, files
<1>18. Knows(p)'
  <2>1. Valid(n) => \A m \in {n} : Valid(m)'  BY <1>1 DEF Valid, files
  <2> QED  BY <1>1, <1>3, <1>7, <1>10, <1>11, <1>13, <2>1 DEF Knows, Keeping, Saving, files
<1>19. ~Fixing(p) /\ ~Outdates(p) /\ ~Replaces(p) /\ ~Switching(p) /\ ~Fixing(p)' /\ Replaces(p)'
  BY <1>1, <1>10, <1>13 DEF Fixing, Outdates, Replaces, Switching
<1>20. BadOf(p)' \subseteq BadOf(p)  BY <1>1, <1>19 DEF BadOf, Broken, Valid, files
<1>21. ASSUME crashes = 0, Fine(p) PROVE Fine(p)'
  <2>1. \A m \in dirs : Valid(m)  BY <1>13, <1>19, <1>21, AllReadable
  <2>2. Claims(p)'  BY <1>1, <1>4, <1>10, <1>11, <1>13 DEF Claims, Saving
  <2>3. OneEach'  BY <1>1, <1>17, <1>21 DEF Fine, OneEach, files
  <2>4. current' \in Usable' \/ Outdates(p)'
    <3>1. current \in Usable  BY <1>19, <1>21 DEF Fine
    <3>2. CASE current = a  BY <1>1, <1>7, <1>10, <1>11, <1>13, <3>2 DEF Outdates, files
    <3>3. CASE current # a  BY <1>1, <1>4, <3>1, <3>3 DEF files
    <3> QED  BY <3>2, <3>3
  <2>5. \A m \in dirs' : auth'[m] \in Usable' \/ (Replaces(p)' /\ mem'[p].name = m)
    <3> SUFFICES ASSUME NEW m \in dirs, m # mem[p].name PROVE auth[m] \in Usable'
      BY <1>1, <1>10, <1>19 DEF files
    <3>1. auth[m] \in Usable  BY <1>19, <1>21 DEF Fine
    <3>2. m \in Names  BY DEF AloneInv, TypeOK
    <3>3. auth[m].id # auth[n].id
      BY <1>2, <1>3, <1>21, <2>1, <3>2 DEF Fine, OneEach
    <3> QED  BY <1>1, <1>3, <1>4, <3>1, <3>3
  <2>6. Sticks'  BY <1>1, <1>13, <1>19, <1>21, StillSwitching DEF Fine, Sticks, files
  <2> QED  BY <2>2, <2>3, <2>4, <2>5, <2>6 DEF Fine
<1> QED  BY <1>1, <1>13, <1>14, <1>15, <1>16, <1>18, <1>20, <1>21, WriteKeeps

LEMMA RotationsDropped ==
  ASSUME Alone, AloneInv, NEW p \in Procs, RotationDropped(p)
  PROVE  AloneInv'
<1> DEFINE a == mem[p].auth
           new == [id |-> a.id, tok |-> issued']
<1>1. /\ pc[p] = "request" /\ pc[p] # "idle" /\ Goto(p, "meta") /\ a \in live
      /\ dropped' = dropped \cup {a}
      /\ UNCHANGED <<files, switchLock, mem, load, crashes, switched, undone, crossed>>
  BY DEF RotationDropped
<1>2. Placed(p) /\ Knows(p) /\ mem[p] \in Mems  BY <1>1, Busy
<1>3. Refreshing(p)  BY <1>1, <1>2 DEF Placed
<1>4. ~Fixing(p) /\ ~Outdates(p) /\ ~Replaces(p) /\ ~Switching(p)
  BY <1>1, <1>3 DEF Fixing, Outdates, Replaces, Switching
<1>5. /\ Moves(p) /\ LocalTypes' /\ Apart(p) /\ Solo(p) /\ pc'[p] = "meta" /\ mem'[p] = mem[p]
      /\ Placed(p)' => PlaceOf(p)'
  BY <1>1, GoesOnSame DEF Places
<1>6. issued' = issued + 1 /\ issued' \in 1..MaxTokens /\ live' = (live \ {a}) \cup {new}
  BY AccountStoreAssumption DEF RotationDropped, Issue, AloneInv, TypeOK
<1>7. a \in [id : Ids, tok : 1..MaxTokens]
  BY <1>2, <1>3 DEF Mems, Auths, Knows
<1>8. new \in Auths  BY <1>6, <1>7 DEF Auths
<1>9. Usable \subseteq Usable'  BY <1>1, <1>6
<1>10. Still(p)  BY <1>1, <1>5, <1>9 DEF Still, files
<1>11. TypeOK'
  <2>1. live' \subseteq Auths /\ dropped' \subseteq Auths /\ issued' \in 0..MaxTokens
    BY <1>1, <1>2, <1>6, <1>8 DEF AloneInv, TypeOK, Mems
  <2> QED  BY <2>1, <1>1, <1>5 DEF AloneInv, TypeOK, LocalTypes, files, Places, Mems
<1>12. PlaceOf(p)'  BY <1>3, <1>5 DEF Placed
<1>13. Knows(p)'  BY <1>1, <1>2, <1>3, <1>5 DEF Knows, Keeping, Saving, Valid, files
<1>14. Claims(p)'  BY <1>3, <1>5 DEF Claims, Saving
<1> QED  BY <1>4, <1>5, <1>10, <1>11, <1>12, <1>13, <1>14, StillKeeps

-----------------------------------------------------------------------------
(* The invariant, and what it gives *)

LEMMA Initially ==
  ASSUME Init
  PROVE  AloneInv
<1>1. PICK saved \in SUBSET Names, of \in [Names -> Ids] :
        /\ \A m, n \in saved : of[m] = of[n] => m = n
        /\ dirs = saved
        /\ auth = [n \in Names |-> IF n \in saved THEN [id |-> of[n], tok |-> 1] ELSE NoAuth]
        /\ meta = [n \in Names |-> IF n \in saved THEN NewMeta(n, auth[n]) ELSE NoMeta]
        /\ \E n \in saved : current = auth[n]
        /\ live = {auth[n] : n \in saved}
  BY DEF Init
<1>2. /\ backup = NoAuth /\ state = NoName /\ issued = 1 /\ switchLock = NoProc
      /\ pc = [p \in Procs |-> "idle"] /\ mem = [p \in Procs |-> NoMem]
      /\ load \in Loads /\ crashes = 0 /\ switched = NoId
      /\ undone = FALSE /\ dropped = {} /\ crossed = FALSE
  BY DEF Init
<1>3. 1 \in 1..MaxTokens /\ 1 \in 0..MaxTokens  BY AccountStoreAssumption
<1>4. \A n \in saved : /\ auth[n] = [id |-> of[n], tok |-> 1]
                       /\ auth[n] \in Auths /\ auth[n] # NoAuth /\ auth[n].id = of[n]
  BY <1>1, <1>3, AccountStoreAssumption DEF Auths, NoAuth
<1>5. \A n \in saved : /\ meta[n] \in Metas /\ meta[n] # NoMeta
                       /\ meta[n].name = n /\ meta[n].id = auth[n].id
  <2> SUFFICES ASSUME NEW n \in saved
               PROVE  /\ meta[n] \in Metas /\ meta[n] # NoMeta
                      /\ meta[n].name = n /\ meta[n].id = auth[n].id
    OBVIOUS
  <2>1. meta[n] = [name |-> n, id |-> auth[n].id, eligible |-> TRUE]
    BY <1>1 DEF NewMeta
  <2>2. auth[n].id \in Ids /\ n \in Names  BY <1>4
  <2> QED  BY <2>1, <2>2, AccountStoreAssumption DEF Metas, NoMeta
<1>6. \A n \in Names \ saved : auth[n] = NoAuth /\ meta[n] = NoMeta  BY <1>1
<1>7. auth \in [Names -> Auths] /\ meta \in [Names -> Metas]
  <2>1. \A n \in Names : auth[n] \in Auths /\ meta[n] \in Metas
    BY <1>4, <1>5, <1>6 DEF Auths, Metas
  <2> QED  BY <1>1, <2>1
<1>8. \A n \in Names : Valid(n) <=> n \in saved  BY <1>1, <1>4, <1>5 DEF Valid
<1>9. current \in Usable /\ current \in Auths /\ live \subseteq Auths  BY <1>1, <1>4
<1>10. NoMem \in Mems  BY DEF NoMem, Mems, Auths, Metas
<1>11. TypeOK
  BY <1>1, <1>2, <1>3, <1>7, <1>9, <1>10 DEF TypeOK, Auths, Mems
<1>12. \A p \in Procs : pc[p] = "idle" /\ mem[p] = NoMem /\ switchLock # p
  BY <1>2, AccountStoreAssumption
<1>13. PlaceInv  BY <1>12 DEF PlaceInv, PlaceOf, NoMem
<1>14. \A p \in Procs : Knows(p) /\ Claims(p)
  BY <1>12 DEF Knows, Claims, Keeping, Saving, NoMem
<1>15. BrokenInv
  <2>1. Bad = {}  BY <1>1, <1>8 DEF Bad, Broken
  <2> QED  BY <1>2, <2>1, FS_EmptySet DEF BrokenInv
<1>16. NoCrashInv
  <2>1. OneEach  BY <1>1, <1>4, <1>8 DEF OneEach
  <2>2. CurrentLive /\ SavedLive /\ Sticks
    BY <1>1, <1>2, <1>9 DEF CurrentLive, SavedLive, Sticks
  <2> QED  BY <1>14, <2>1, <2>2 DEF NoCrashInv
<1> QED  BY <1>11, <1>13, <1>14, <1>15, <1>16 DEF AloneInv

LEMMA Stutters ==
  ASSUME AloneInv, UNCHANGED vars
  PROVE  AloneInv'
<1> USE DEF vars, files, oauth
<1>1. TypeOK'  BY DEF AloneInv, TypeOK
<1>2. PlaceInv'  BY DEF AloneInv, PlaceInv, PlaceOf, Placed
<1>3. BrokenInv'  BY DEF AloneInv, BrokenInv, Bad, Broken, Fixing, Fixable, Valid
<1>4. ASSUME NEW p \in Procs PROVE Knows(p)'
  <2>1. Knows(p)  BY DEF AloneInv
  <2> QED  BY <2>1 DEF Knows, Keeping, Saving, Valid
<1>5. ASSUME NEW p \in Procs, Claims(p) PROVE Claims(p)'
  BY <1>5 DEF Claims, Saving, Valid
<1>6. crashes' = 0 => NoCrashInv'
  BY <1>5 DEF AloneInv, NoCrashInv, OneEach, Valid, CurrentLive, Outdates, SavedLive, Replaces,
     Sticks, Switching
<1> QED  BY <1>1, <1>2, <1>3, <1>4, <1>6 DEF AloneInv

LEMMA EveryStep ==
  ASSUME Alone, AloneInv, [Next]_vars
  PROVE  AloneInv'
<1>1. CASE UNCHANGED vars  BY <1>1, Stutters
<1>2. ASSUME NEW p \in Procs, Start(p) PROVE AloneInv'
  <2>1. PICK n \in Names :
          \/ SaveBegin(p, n) \/ UpdateBegin(p, n) \/ SwitchBegin(p, n) \/ RemoveBegin(p, n)
          \/ \E i \in Ids : AddBegin(p, n, i)
          \/ \E op \in AllOps : RefreshBegin(p, n, op)
          \/ \E e \in BOOLEAN : ProtectBegin(p, n, e)
          \/ \E old \in Names : RenameBegin(p, old, n)
    BY <1>2 DEF Start
  <2> QED
    BY <2>1, SaveBegins, UpdateBegins, SwitchBegins, RemoveBegins, AddBegins, RefreshBegins,
       ProtectBegins, RenameBegins
<1>3. ASSUME NEW p \in Procs, Continue(p) PROVE AloneInv'
  BY <1>3, WriteAuths, WriteMetas, DupChecks, UpdateReads, SwitchBackups, SwitchCopies,
     SwitchWrites, SwitchVerifies, SwitchStates, RefreshRotates, RotationsDropped, RefreshReplies,
     SyncCompares, SyncWrites, RemoveRests, RenameReads
     DEF Continue
<1>4. ASSUME NEW p \in Procs, Crash(p) PROVE AloneInv'  BY <1>4, Crashes
<1> QED  BY <1>1, <1>2, <1>3, <1>4 DEF Next

\* What the inductive invariant is for: in a quiet state the exceptions it makes for
\* operations under way are void.
LEMMA Consequences ==
  ASSUME AloneInv
  PROVE  StoreInv /\ TokensLive /\ SwitchSticks
<1>1. Quiet => \A p \in Procs : ~Fixing(p) /\ ~Outdates(p) /\ ~Replaces(p) /\ ~Switching(p)
  BY DEF Quiet, AloneInv, PlaceInv, PlaceOf, NoMem, Fixing, Outdates, Replaces, Switching
<1>2. CrashContained
  <2> SUFFICES ASSUME Quiet PROVE Cardinality(Broken) <= crashes
    BY DEF CrashContained, Broken
  <2>1. Bad = Broken  BY <1>1 DEF Bad
  <2> QED  BY <2>1 DEF AloneInv, BrokenInv
<1>3. UniqueIdentity  BY DEF UniqueIdentity, AloneInv, NoCrashInv, OneEach
<1>4. TokensLive  BY <1>1 DEF TokensLive, AloneInv, NoCrashInv, CurrentLive, SavedLive
<1>5. SwitchSticks  BY <1>1 DEF SwitchSticks, AloneInv, NoCrashInv, Sticks
<1> QED  BY <1>2, <1>3, <1>4, <1>5 DEF StoreInv, AloneInv

-----------------------------------------------------------------------------
(* Switches, refreshes and protections of any number of processes *)

\* No account goes or gets another identity; what an operation holds is its account's,
\* and a switch that has written is in effect until a refresh undoes it.
Holds(p) == pc[p] # "idle" =>
  LET n == mem[p].name IN
  /\ n \in dirs /\ mem[p].meta # NoMeta /\ mem[p].meta.name = n /\ mem[p].meta.id = auth[n].id
  /\ mem[p].op # "protect" => mem[p].auth # NoAuth /\ mem[p].auth.id = auth[n].id
  /\ Switching(p) => current.id = mem[p].auth.id \/ undone

\* The tokens in the accounts and in the processes are not those still to be issued.
IssuedInv ==
  /\ \A n \in Names : auth[n].tok <= issued
  /\ \A p \in Procs : mem[p].auth.tok <= issued

\* p has a new token that is in no file, and that no other process asks with or writes.
Bearing(p) == Refreshing(p) /\ pc[p] = "auth"
Bears(p) == Bearing(p) =>
  /\ mem[p].auth \in live
  /\ \A m \in Names : auth[m] # mem[p].auth
  /\ \A q \in Procs \ {p} : pc[q] \in {"request", "auth"} => mem[q].auth # mem[p].auth

\* What is going to be written over the current snapshot.
Brings(p) == pc[p] \in {"sync", "syncWrite", "current"} => mem[p].auth \in Usable \/ crossed

SavedTame == \A n \in dirs :
  auth[n] \in Usable \/ \E p \in Procs : Bearing(p) /\ mem[p].name = n
CurrentTame ==
  \/ crossed \/ current \in Usable
  \/ \E p \in Procs : Rotating(p) /\ mem[p].auth.id = current.id
SticksTame ==
  switched = NoId \/ undone \/ current.id = switched \/ \E p \in Procs : Switching(p)

TokenInv == /\ IssuedInv /\ SavedTame /\ CurrentTame /\ SticksTame
            /\ \A p \in Procs : Bears(p) /\ Brings(p)

TameInv ==
  /\ TypeOK /\ PlaceInv /\ OneEach
  /\ \A n \in dirs : Valid(n)
  /\ \A p \in Procs : Holds(p)
  /\ crashes = 0 => TokenInv

\* What is known of a process in the middle of an operation.
LEMMA TameBusy ==
  ASSUME Tame, TameInv, NEW p \in Procs, pc[p] # "idle"
  PROVE  /\ mem[p].op \in TameOps /\ p \in load.procs /\ mem[p] \in Mems
         /\ mem[p].name \in Names /\ mem[p].name \in dirs /\ Valid(mem[p].name)
         /\ Placed(p) /\ Holds(p) /\ PlaceOf(p)
<1>1. PlaceOf(p) /\ Holds(p)  BY DEF TameInv, PlaceInv
<1>2. mem[p].op \in TameOps /\ p \in load.procs /\ mem[p].name \in Names /\ Placed(p)
  BY <1>1 DEF PlaceOf, Tame
<1>3. mem[p] \in Mems  BY DEF TameInv, TypeOK, Mems
<1>4. mem[p].name \in dirs /\ Valid(mem[p].name)  BY <1>1 DEF Holds, TameInv
<1> QED  BY <1>1, <1>2, <1>3, <1>4

\* A step of p that keeps the accounts' identities, and does not take the current
\* snapshot from a switch unseen.
Firm == /\ dirs' = dirs
        /\ \A n \in dirs : Valid(n)' /\ auth'[n].id = auth[n].id

LEMMA TameRest ==
  ASSUME TameInv, TypeOK', NEW p \in Procs, Moves(p), Firm,
         switchLock = p \/ undone' \/ (current'.id = current.id /\ undone' = undone),
         PlaceOf(p)', Holds(p)', crashes' = 0 => TokenInv'
  PROVE  TameInv'
<1>1. Apart(p)  BY MovesAlone DEF TameInv
<1>2. ASSUME NEW q \in Procs \ {p} PROVE PlaceOf(q)' /\ Holds(q)'
  <2>1. pc'[q] = pc[q] /\ mem'[q] = mem[q] /\ load' = load /\ (switchLock' = q <=> switchLock = q)
    BY <1>1 DEF Apart
  <2>2. PlaceOf(q) /\ Holds(q)  BY DEF TameInv, PlaceInv
  <2>3. PlaceOf(q)'  BY <2>1, <2>2 DEF PlaceOf, Placed
  <2>4. Switching(q) => switchLock # p  BY <2>2 DEF Switching, PlaceOf
  <2> QED  BY <2>1, <2>2, <2>3, <2>4 DEF Holds, Firm, Switching
<1>3. PlaceInv' /\ \A q \in Procs : Holds(q)'  BY <1>2 DEF PlaceInv
<1>4. (\A n \in dirs : Valid(n))'  BY DEF Firm
<1>5. OneEach'  BY DEF TameInv, Firm, OneEach, Valid
<1> QED  BY <1>3, <1>4, <1>5 DEF TameInv

\* The tokens after a step of p that writes no snapshot and takes no token.
LEMMA TameStill ==
  ASSUME TameInv, TypeOK', NEW p \in Procs, Moves(p), TokenInv,
         UNCHANGED <<dirs, auth, current, issued, live, dropped, switched, undone>>,
         crossed => crossed',
         ~Bearing(p), pc'[p] # "auth", mem'[p].auth.tok <= issued,
         pc'[p] = "request" => \E m \in Names : mem'[p].auth = auth[m],
         Brings(p)',
         Rotating(p) /\ mem[p].auth.id = current.id =>
           Rotating(p)' /\ mem'[p].auth.id = current.id,
         Switching(p) => Switching(p)' \/ undone
  PROVE  TokenInv'
<1>1. \A q \in Procs \ {p} : pc'[q] = pc[q] /\ mem'[q] = mem[q]
  BY MovesAlone DEF Apart, TameInv
<1>2. IssuedInv'  BY <1>1 DEF TokenInv, IssuedInv
<1>3. \A q \in Procs \ {p} : /\ Bearing(q)' <=> Bearing(q)
                             /\ Rotating(q)' <=> Rotating(q)
                             /\ Switching(q)' <=> Switching(q)
  BY <1>1 DEF Bearing, Rotating, Switching
<1>4. SavedTame'  BY <1>1, <1>3 DEF TokenInv, SavedTame
<1>5. CurrentTame'  BY <1>1, <1>3 DEF TokenInv, CurrentTame
<1>6. SticksTame'  BY <1>3 DEF TokenInv, SticksTame
<1>7. ASSUME NEW q \in Procs \ {p} PROVE Bears(q)' /\ Brings(q)'
  <2>1. Bears(q) /\ Brings(q)  BY DEF TokenInv
  <2>2. Brings(q)'  BY <1>1, <2>1 DEF Brings
  <2>3. Bearing(q) /\ pc'[p] = "request" => mem'[p].auth # mem[q].auth
    BY <2>1 DEF Bears
  <2>4. Bears(q)'  BY <1>1, <1>3, <2>1, <2>3 DEF Bears
  <2> QED  BY <2>2, <2>4
<1>8. Bears(p)'  BY DEF Bears, Bearing
<1> QED  BY <1>2, <1>4, <1>5, <1>6, <1>7, <1>8 DEF TokenInv

\* Such a step keeps the accounts too.
LEMMA FirmStill ==
  ASSUME TameInv, UNCHANGED <<dirs, auth, meta>>
  PROVE  Firm
BY DEF TameInv, Firm, Valid

-----------------------------------------------------------------------------
(* The beginnings *)

LEMMA TameBegins ==
  ASSUME Tame, TameInv, NEW p \in Procs, NEW n \in Names, NEW op \in TameOps,
         NEW to \in {"backup", "request", "meta"},
         pc[p] = "idle", p \in load.procs, op \in load.ops, Valid(n), Goto(p, to),
         mem' = [mem EXCEPT ![p] = mem'[p]],
         mem'[p] = [op |-> op, name |-> n, auth |-> mem'[p].auth, meta |-> mem'[p].meta],
         mem'[p].auth = IF op = "protect" THEN NoAuth ELSE auth[n],
         mem'[p].meta \in Metas \ {NoMeta}, mem'[p].meta.name = n, mem'[p].meta.id = meta[n].id,
         to = IF op = "switch" THEN "backup" ELSE IF op = "protect" THEN "meta" ELSE "request",
         IF op = "switch" THEN switchLock = NoProc /\ switchLock' = p
                          ELSE switchLock' = switchLock,
         UNCHANGED <<files, oauth, load, crashes, past>>
  PROVE  TameInv'
<1>1. /\ auth[n] \in Auths /\ NoAuth \in Auths /\ auth[n] # NoAuth
      /\ n \in dirs /\ meta[n].id = auth[n].id
  BY DEF TameInv, TypeOK, Auths, Valid
<1>2. mem'[p] \in Mems /\ mem'[p].op = op /\ mem'[p].name = n
  BY <1>1 DEF Mems, AllOps, TameOps
<1>3. /\ Moves(p) /\ LocalTypes' /\ mem[p] = NoMem /\ pc'[p] = to
      /\ switchLock' = p <=> mem'[p].op = "switch"
  BY <1>2, Starting DEF TameInv, AllOps, TameOps, Places
<1>4. TypeOK'  BY <1>3, FilesTyped DEF TameInv
<1>5. PlaceOf(p)'  BY <1>2, <1>3 DEF PlaceOf, Placed, TameOps
<1>6. Firm  BY FirmStill DEF files
<1>7. Holds(p)'  BY <1>1, <1>2, <1>3 DEF Holds, Switching, files
<1>8. ASSUME crashes = 0 PROVE TokenInv'
  <2>1. TokenInv  BY <1>8 DEF TameInv
  <2>2. ~Bearing(p) /\ ~Rotating(p) /\ ~Switching(p)
    BY <1>3 DEF NoMem, Bearing, Rotating, Switching
  <2>3. mem'[p].auth.tok <= issued
    <3>1. auth[n].tok <= issued  BY <2>1 DEF TokenInv, IssuedInv
    <3>2. NoAuth.tok = 0 /\ issued \in Nat  BY DEF NoAuth, TameInv, TypeOK
    <3> QED  BY <3>1, <3>2
  <2>4. pc'[p] = "request" => mem'[p].auth = auth[n]  BY <1>3 DEF TameOps
  <2>5. Brings(p)'  BY <1>3 DEF Brings
  <2> QED  BY <1>3, <1>4, <2>1, <2>2, <2>3, <2>4, <2>5, TameStill DEF files, oauth
<1> QED  BY <1>3, <1>4, <1>5, <1>6, <1>7, <1>8, TameRest DEF files

LEMMA TameSwitchBegins ==
  ASSUME Tame, TameInv, NEW p \in Procs, NEW n \in Names, SwitchBegin(p, n)
  PROVE  TameInv'
<1>1. /\ pc[p] = "idle" /\ p \in load.procs /\ "switch" \in load.ops /\ Valid(n)
      /\ mem' = [mem EXCEPT ![p] = [op |-> "switch", name |-> n, auth |-> auth[n], meta |-> meta[n]]]
      /\ Goto(p, "backup") /\ switchLock = NoProc /\ switchLock' = p
      /\ UNCHANGED <<files, oauth, load, crashes, past>>
  BY DEF SwitchBegin, Begin
<1>2. mem'[p] = [op |-> "switch", name |-> n, auth |-> auth[n], meta |-> meta[n]]
  BY <1>1 DEF TameInv, TypeOK
<1>3. /\ mem'[p].meta \in Metas \ {NoMeta} /\ mem'[p].meta.name = n /\ mem'[p].meta.id = meta[n].id
      /\ mem'[p].auth = auth[n] /\ mem'[p].meta = meta[n]
  BY <1>1, <1>2, ValidMeta DEF TameInv, Metas
<1>4. mem' = [mem EXCEPT ![p] = mem'[p]]  BY <1>1, <1>2
<1>5. mem'[p] = [op |-> "switch", name |-> n, auth |-> mem'[p].auth, meta |-> mem'[p].meta]
  BY <1>2, <1>3
<1> QED  BY <1>1, <1>3, <1>4, <1>5, TameBegins DEF TameOps

LEMMA TameRefreshBegins ==
  ASSUME Tame, TameInv, NEW p \in Procs, NEW n \in Names, NEW op \in AllOps,
         RefreshBegin(p, n, op)
  PROVE  TameInv'
<1>1. /\ pc[p] = "idle" /\ p \in load.procs /\ op \in load.ops /\ Valid(n)
      /\ op \in {"refresh", "quota"}
      /\ mem' = [mem EXCEPT ![p] = [op |-> op, name |-> n, auth |-> auth[n], meta |-> meta[n]]]
      /\ Goto(p, "request") /\ UNCHANGED <<files, oauth, switchLock, load, crashes, past>>
  BY DEF RefreshBegin, Begin
<1>2. mem'[p] = [op |-> op, name |-> n, auth |-> auth[n], meta |-> meta[n]]
  BY <1>1 DEF TameInv, TypeOK
<1>3. /\ mem'[p].meta \in Metas \ {NoMeta} /\ mem'[p].meta.name = n /\ mem'[p].meta.id = meta[n].id
      /\ mem'[p].auth = auth[n] /\ mem'[p].meta = meta[n]
  BY <1>1, <1>2, ValidMeta DEF TameInv, Metas
<1>4. mem' = [mem EXCEPT ![p] = mem'[p]]  BY <1>1, <1>2
<1>5. mem'[p] = [op |-> op, name |-> n, auth |-> mem'[p].auth, meta |-> mem'[p].meta]
  BY <1>2, <1>3
<1> QED  BY <1>1, <1>3, <1>4, <1>5, TameBegins DEF TameOps

LEMMA TameProtectBegins ==
  ASSUME Tame, TameInv, NEW p \in Procs, NEW n \in Names, NEW e \in BOOLEAN,
         ProtectBegin(p, n, e)
  PROVE  TameInv'
<1> DEFINE new == [meta[n] EXCEPT !.eligible = e]
<1>1. /\ pc[p] = "idle" /\ p \in load.procs /\ "protect" \in load.ops /\ Valid(n)
      /\ mem' = [mem EXCEPT ![p] = [op |-> "protect", name |-> n, auth |-> NoAuth, meta |-> new]]
      /\ Goto(p, "meta") /\ UNCHANGED <<files, oauth, switchLock, load, crashes, past>>
  BY DEF ProtectBegin, Begin
<1>2. mem'[p] = [op |-> "protect", name |-> n, auth |-> NoAuth, meta |-> new]
  BY <1>1 DEF TameInv, TypeOK
<1>3. meta[n] \in [name : Names, id : Ids, eligible : BOOLEAN] /\ meta[n].name = n
  BY <1>1, ValidMeta DEF TameInv
<1>4. /\ new \in [name : Names, id : Ids, eligible : BOOLEAN]
      /\ new.name = n /\ new.id = meta[n].id
  BY <1>3
<1>5. new \in Metas \ {NoMeta}  BY <1>4, AccountStoreAssumption DEF Metas, NoMeta
<1>6. /\ mem'[p].meta \in Metas \ {NoMeta} /\ mem'[p].meta.name = n /\ mem'[p].meta.id = meta[n].id
      /\ mem'[p].auth = NoAuth /\ mem'[p].meta = new
  BY <1>2, <1>4, <1>5
<1>7. mem' = [mem EXCEPT ![p] = mem'[p]]  BY <1>1, <1>2
<1>8. mem'[p] = [op |-> "protect", name |-> n, auth |-> mem'[p].auth, meta |-> mem'[p].meta]
  BY <1>2, <1>6
<1> QED  BY <1>1, <1>6, <1>7, <1>8, TameBegins DEF TameOps

-----------------------------------------------------------------------------
(* The steps in the middle that write no snapshot *)

\* p goes on with what it holds; only crossed may change beside it.
LEMMA TameMoves ==
  ASSUME Tame, TameInv, NEW p \in Procs, pc[p] # "idle", NEW to \in Places \ {"idle", "auth"},
         Goto(p, to), UNCHANGED <<dirs, auth, meta, current, oauth, switchLock, mem, load,
                                  crashes, past>>,
         backup' \in Auths, state' \in Names \cup {NoName},
         Placed(p)', pc[p] \notin {"auth", "state"}, to # "request",
         to = "verify" => pc[p] \in {"verify", "meta", "state"},
         to \in {"meta", "state"} /\ mem[p].op = "switch" => pc[p] \in {"verify", "meta"},
         Switching(p) => to \in {"verify", "meta", "state"},
         to \in {"sync", "syncWrite", "current"} => pc[p] \in {"sync", "syncWrite", "current"},
         Rotating(p) => to \in {"sync", "syncWrite"} \/ mem[p].auth.id # current.id
  PROVE  TameInv'
<1>1. /\ mem[p].op \in TameOps /\ p \in load.procs /\ mem[p] \in Mems
      /\ Holds(p) /\ PlaceOf(p)
  BY TameBusy
<1>2. mem' = [mem EXCEPT ![p] = mem'[p]] /\ mem'[p] = mem[p]  BY DEF TameInv, TypeOK
<1>3. Moves(p) /\ LocalTypes' /\ pc'[p] = to /\ PlaceOf(p)'
  BY <1>1, <1>2, Continuing DEF TameInv
<1>4. TypeOK'  BY <1>3 DEF TameInv, TypeOK, LocalTypes, oauth, Places, Mems
<1>5. Firm  BY FirmStill
<1>6. Holds(p)'  BY <1>1, <1>2, <1>3 DEF Holds, Switching
<1>7. ASSUME crashes = 0 PROVE TokenInv'
  <2>1. TokenInv  BY <1>7 DEF TameInv
  <2>2. Brings(p)  BY <2>1 DEF TokenInv
  <2>3. mem'[p].auth.tok <= issued  BY <1>2, <2>1 DEF TokenInv, IssuedInv
  <2>4. Brings(p)'  BY <1>2, <1>3, <2>2 DEF Brings, oauth
  <2>5. ~Bearing(p)  BY DEF Bearing
  <2>6. Rotating(p) /\ mem[p].auth.id = current.id =>
          Rotating(p)' /\ mem'[p].auth.id = current.id
    BY <1>2, <1>3 DEF Rotating
  <2>7. Switching(p) => Switching(p)'  BY <1>2, <1>3 DEF Switching
  <2> QED  BY <1>3, <1>4, <2>1, <2>3, <2>4, <2>5, <2>6, <2>7, TameStill DEF oauth
<1> QED  BY <1>3, <1>4, <1>5, <1>6, <1>7, TameRest

LEMMA TameBackups ==
  ASSUME Tame, TameInv, NEW p \in Procs, SwitchBackup(p)
  PROVE  TameInv'
<1>1. /\ pc[p] = "backup" /\ pc[p] # "idle" /\ Goto(p, "copy")
      /\ UNCHANGED <<dirs, auth, meta, current, state, oauth, switchLock, mem, load, crashes, past>>
      /\ backup' \in Auths /\ state' \in Names \cup {NoName}
  BY DEF SwitchBackup, TameInv, TypeOK
<1>2. Placed(p)  BY <1>1, TameBusy
<1>3. mem[p].op = "switch"  BY <1>1, <1>2 DEF Placed
<1>4. Placed(p)'  BY <1>1, <1>3 DEF Placed, Goto, TameInv, TypeOK
<1>5. ~Switching(p) /\ ~Rotating(p)  BY <1>1 DEF Switching, Rotating
<1> QED  BY <1>1, <1>4, <1>5, TameMoves DEF Places

LEMMA TameReplies ==
  ASSUME Tame, TameInv, NEW p \in Procs, RefreshReply(p)
  PROVE  TameInv'
<1>1. /\ pc[p] = "request" /\ pc[p] # "idle" /\ Goto(p, "meta")
      /\ UNCHANGED <<dirs, auth, meta, current, state, oauth, switchLock, mem, load, crashes, past>>
      /\ backup' \in Auths /\ state' \in Names \cup {NoName}
  BY DEF RefreshReply, TameInv, TypeOK, files
<1>2. Placed(p)  BY <1>1, TameBusy
<1>3. Refreshing(p) /\ mem[p].op # "switch"  BY <1>1, <1>2 DEF Placed
<1>4. Placed(p)'  BY <1>1, <1>3 DEF Placed, Goto, TameInv, TypeOK
<1>5. ~Switching(p) /\ ~Rotating(p)  BY <1>1 DEF Switching, Rotating
<1> QED  BY <1>1, <1>3, <1>4, <1>5, TameMoves DEF Places

LEMMA TameCompares ==
  ASSUME Tame, TameInv, NEW p \in Procs, SyncCompare(p)
  PROVE  TameInv'
<1> DEFINE to == IF current.id = mem[p].auth.id THEN "syncWrite" ELSE "meta"
<1>1. /\ pc[p] = "sync" /\ pc[p] # "idle" /\ Goto(p, to)
      /\ UNCHANGED <<dirs, auth, meta, current, state, oauth, switchLock, mem, load, crashes, past>>
      /\ backup' \in Auths /\ state' \in Names \cup {NoName}
  BY DEF SyncCompare, TameInv, TypeOK, files
<1>2. Placed(p)  BY <1>1, TameBusy
<1>3. Refreshing(p) /\ mem[p].op # "switch"  BY <1>1, <1>2 DEF Placed
<1>4. Placed(p)'  BY <1>1, <1>3 DEF Placed, Goto, TameInv, TypeOK
<1>5. ~Switching(p)  BY <1>1 DEF Switching
<1>6. PICK there \in {"syncWrite", "meta"} : there = to  OBVIOUS
<1>7. Goto(p, there) /\ there \in Places \ {"idle", "auth"}  BY <1>1, <1>6 DEF Places
<1> QED  BY <1>1, <1>3, <1>4, <1>5, <1>6, <1>7, TameMoves

\* readJsonFile of the account's snapshot: the token may be on its way to another's.
LEMMA TameCopies ==
  ASSUME Tame, TameInv, NEW p \in Procs, SwitchCopy(p)
  PROVE  TameInv'
<1> DEFINE n == mem[p].name
<1>1. /\ pc[p] = "copy" /\ pc[p] # "idle"
      /\ UNCHANGED <<files, oauth, load, crashes, switched, undone, dropped>>
  BY DEF SwitchCopy
<1>2. /\ Placed(p) /\ Holds(p) /\ n \in Names /\ n \in dirs /\ mem[p] \in Mems /\ Valid(n)
  BY <1>1, TameBusy
<1>3. mem[p].op = "switch"  BY <1>1, <1>2 DEF Placed
<1>4. /\ mem' = [mem EXCEPT ![p].auth = auth[n]] /\ Goto(p, "current") /\ UNCHANGED switchLock
      /\ crossed' = (crossed \/ RotatingOther(p, auth[n].id))
  BY <1>2 DEF SwitchCopy, Valid
<1>5. auth[n] \in Auths  BY <1>2 DEF TameInv, TypeOK
<1>6. mem'[p] = [mem[p] EXCEPT !.auth = auth[n]] /\ mem' = [mem EXCEPT ![p] = mem'[p]]
  BY <1>4 DEF TameInv, TypeOK
<1>7. /\ mem'[p] \in Mems /\ mem'[p].op = mem[p].op /\ mem'[p].name = n
      /\ mem'[p].auth = auth[n] /\ mem'[p].meta = mem[p].meta
  BY <1>2, <1>5, <1>6 DEF Mems
<1>8. Moves(p) /\ LocalTypes' /\ pc'[p] = "current" /\ (Placed(p)' => PlaceOf(p)')
  BY <1>1, <1>4, <1>6, <1>7, Continuing DEF TameInv, Places
<1>9. PlaceOf(p)'  BY <1>3, <1>7, <1>8 DEF Placed
<1>10. TypeOK'
  <2>1. crossed' \in BOOLEAN  BY <1>4 DEF TameInv, TypeOK
  <2> QED  BY <1>1, <1>8, <2>1 DEF TameInv, TypeOK, LocalTypes, files, oauth, Places, Mems
<1>11. Firm  BY <1>1, FirmStill DEF files
<1>12. Holds(p)'  BY <1>1, <1>2, <1>7, <1>8 DEF Holds, Switching, Valid, files
<1>13. ASSUME crashes = 0 PROVE TokenInv'
  <2>1. TokenInv  BY <1>13 DEF TameInv
  <2>2. ~Bearing(p) /\ ~Rotating(p) /\ ~Switching(p)
    BY <1>1 DEF Bearing, Rotating, Switching
  <2>3. mem'[p].auth.tok <= issued  BY <1>2, <1>7, <2>1 DEF TokenInv, IssuedInv
  <2>4. auth[n] \in Usable \/ crossed'
    <3> SUFFICES ASSUME NEW q \in Procs, Bearing(q), mem[q].name = n PROVE crossed'
      BY <1>2, <2>1 DEF TokenInv, SavedTame
    <3>1. q # p /\ pc[q] # "idle" /\ Rotating(q)  BY <1>1 DEF Bearing, Rotating
    <3>2. mem[q].auth.id = auth[n].id  BY <3>1 DEF TameInv, Holds, Bearing
    <3> QED  BY <1>4, <3>1, <3>2 DEF RotatingOther
  <2>5. Brings(p)'  BY <1>1, <1>7, <1>8, <2>4 DEF Brings, oauth
  <2>6. crossed => crossed'  BY <1>4
  <2> QED
    BY <1>1, <1>8, <1>10, <2>1, <2>2, <2>3, <2>5, <2>6, TameStill DEF files, oauth
<1> QED  BY <1>1, <1>8, <1>9, <1>10, <1>11, <1>12, <1>13, TameRest DEF files

LEMMA TameVerifies ==
  ASSUME Tame, TameInv, NEW p \in Procs, SwitchVerify(p)
  PROVE  TameInv'
<1> DEFINE n == mem[p].name
<1>1. /\ pc[p] = "verify" /\ pc[p] # "idle"
      /\ UNCHANGED <<files, oauth, load, crashes, past>>
  BY DEF SwitchVerify
<1>2. /\ Placed(p) /\ Holds(p) /\ n \in Names /\ n \in dirs /\ mem[p] \in Mems /\ Valid(n)
  BY <1>1, TameBusy
<1>3. mem[p].op = "switch" /\ Switching(p)  BY <1>1, <1>2 DEF Placed, Switching
<1>4. /\ mem[p].meta.id = mem[p].auth.id /\ meta[n] # NoMeta /\ meta[n].name = n
      /\ meta[n].id = auth[n].id /\ mem[p].auth # NoAuth /\ mem[p].auth.id = auth[n].id
      /\ current.id = mem[p].auth.id \/ undone
  BY <1>1, <1>2, <1>3 DEF Holds, Valid
<1>5. Firm  BY <1>1, FirmStill DEF files
<1>6. ~Bearing(p) /\ ~Rotating(p)  BY <1>1 DEF Bearing, Rotating
<1>7. CASE current.id # mem[p].meta.id
  <2>1. Finish(p)  BY <1>7 DEF SwitchVerify
  <2>2. Ended(p) /\ Moves(p) /\ LocalTypes' /\ PlaceOf(p)'
    BY <1>1, <2>1, Ending DEF TameInv
  <2>3. TypeOK'  BY <1>1, <2>2, FilesTyped DEF TameInv
  <2>4. Holds(p)'  BY <2>2 DEF Holds, Ended
  <2>5. ASSUME crashes = 0 PROVE TokenInv'
    <3>1. TokenInv /\ issued \in Nat  BY <2>5 DEF TameInv, TypeOK
    <3>2. mem'[p].auth.tok <= issued /\ Brings(p)' /\ pc'[p] = "idle"
      BY <2>2, <3>1 DEF Ended, NoMem, NoAuth, Brings
    <3>3. undone  BY <1>4, <1>7
    <3> QED  BY <1>1, <1>6, <2>2, <2>3, <3>1, <3>2, <3>3, TameStill DEF files, oauth
  <2> QED  BY <1>1, <1>5, <2>2, <2>3, <2>4, <2>5, TameRest DEF files
<1>8. CASE current.id = mem[p].meta.id
  <2>1. mem' = [mem EXCEPT ![p].meta = meta[n]] /\ Goto(p, "meta") /\ UNCHANGED switchLock
    BY <1>4, <1>8 DEF SwitchVerify
  <2>2. meta[n] \in Metas  BY <1>2 DEF TameInv, TypeOK
  <2>3. mem'[p] = [mem[p] EXCEPT !.meta = meta[n]] /\ mem' = [mem EXCEPT ![p] = mem'[p]]
    BY <2>1 DEF TameInv, TypeOK
  <2>4. /\ mem'[p] \in Mems /\ mem'[p].op = mem[p].op /\ mem'[p].name = n
        /\ mem'[p].auth = mem[p].auth /\ mem'[p].meta = meta[n]
    BY <1>2, <2>2, <2>3 DEF Mems
  <2>5. Moves(p) /\ LocalTypes' /\ pc'[p] = "meta" /\ (Placed(p)' => PlaceOf(p)')
    BY <1>1, <2>1, <2>3, <2>4, Continuing DEF TameInv, Places
  <2>6. PlaceOf(p)'  BY <1>3, <2>4, <2>5 DEF Placed
  <2>7. TypeOK'  BY <1>1, <2>5, FilesTyped DEF TameInv
  <2>8. Holds(p)'  BY <1>1, <1>2, <1>4, <2>4, <2>5 DEF Holds, files
  <2>9. ASSUME crashes = 0 PROVE TokenInv'
    <3>1. TokenInv  BY <2>9 DEF TameInv
    <3>2. mem'[p].auth.tok <= issued  BY <2>4, <3>1 DEF TokenInv, IssuedInv
    <3>3. Brings(p)' /\ Switching(p)'  BY <1>3, <2>4, <2>5 DEF Brings, Switching
    <3> QED  BY <1>1, <1>6, <2>5, <2>7, <3>1, <3>2, <3>3, TameStill DEF files, oauth
  <2> QED  BY <1>1, <1>5, <2>5, <2>6, <2>7, <2>8, <2>9, TameRest DEF files
<1> QED  BY <1>7, <1>8

LEMMA TameMetas ==
  ASSUME Tame, TameInv, NEW p \in Procs, WriteMeta(p)
  PROVE  TameInv'
<1> DEFINE n == mem[p].name
<1>1. /\ pc[p] = "meta" /\ pc[p] # "idle"
      /\ dirs' = dirs \cup {n} /\ meta' = [meta EXCEPT ![n] = mem[p].meta]
      /\ UNCHANGED <<auth, current, backup, state, oauth, load, crashes, past>>
  BY DEF WriteMeta
<1>2. /\ Placed(p) /\ Holds(p) /\ n \in Names /\ n \in dirs /\ mem[p] \in Mems /\ Valid(n)
      /\ mem[p].op \in TameOps
  BY <1>1, TameBusy
<1>3. dirs' = dirs  BY <1>1, <1>2
<1>4. /\ mem[p].meta # NoMeta /\ mem[p].meta.name = n /\ mem[p].meta.id = auth[n].id
  BY <1>1, <1>2 DEF Holds
<1>5. meta'[n] = mem[p].meta /\ \A m \in Names \ {n} : meta'[m] = meta[m]
  BY <1>1, <1>2 DEF TameInv, TypeOK
<1>6. Firm
  <2> SUFFICES ASSUME NEW m \in dirs PROVE Valid(m)'
    BY <1>1, <1>3 DEF Firm
  <2>1. Valid(m) /\ m \in Names  BY DEF TameInv, TypeOK
  <2>2. CASE m = mem[p].name  BY <1>1, <1>3, <1>4, <1>5, <2>1, <2>2 DEF Valid
  <2>3. CASE m # mem[p].name  BY <1>1, <1>3, <1>5, <2>1, <2>3 DEF Valid
  <2> QED  BY <2>2, <2>3
<1>7. /\ Moves(p) /\ LocalTypes' /\ PlaceOf(p)'
      /\ \/ pc'[p] = "state" /\ mem'[p] = mem[p] /\ mem[p].op = "switch"
         \/ Ended(p) /\ ~Switching(p)
  <2>1. CASE mem[p].op = "switch"
    <3>1. Goto(p, "state") /\ UNCHANGED <<mem, switchLock>>  BY <2>1 DEF WriteMeta
    <3>2. mem' = [mem EXCEPT ![p] = mem'[p]] /\ mem'[p] = mem[p]  BY <3>1 DEF TameInv, TypeOK
    <3>3. Moves(p) /\ LocalTypes' /\ pc'[p] = "state" /\ (Placed(p)' => PlaceOf(p)')
      BY <1>1, <1>2, <3>1, <3>2, Continuing DEF TameInv, Places
    <3>4. PlaceOf(p)'  BY <2>1, <3>2, <3>3 DEF Placed
    <3> QED  BY <2>1, <3>2, <3>3, <3>4
  <2>2. CASE mem[p].op # "switch"
    <3>1. Finish(p)  BY <2>2 DEF WriteMeta
    <3>2. Ended(p) /\ Moves(p) /\ LocalTypes' /\ PlaceOf(p)'
      BY <1>1, <3>1, Ending DEF TameInv
    <3> QED  BY <2>2, <3>2 DEF Switching
  <2> QED  BY <2>1, <2>2
<1>8. TypeOK'
  <2>1. meta' \in [Names -> Metas]  BY <1>1, <1>2 DEF TameInv, TypeOK, Mems
  <2> QED  BY <1>1, <1>3, <1>7, <2>1 DEF TameInv, TypeOK, LocalTypes, oauth, Places, Mems
<1>9. Holds(p)'  BY <1>1, <1>2, <1>3, <1>7 DEF Holds, Ended, Switching
<1>10. ASSUME crashes = 0 PROVE TokenInv'
  <2>1. TokenInv /\ issued \in Nat  BY <1>10 DEF TameInv, TypeOK
  <2>2. ~Bearing(p) /\ ~Rotating(p)  BY <1>1 DEF Bearing, Rotating
  <2>3. mem'[p].auth.tok <= issued
    BY <1>7, <2>1 DEF TokenInv, IssuedInv, Ended, NoMem, NoAuth
  <2>4. Brings(p)' /\ pc'[p] \notin {"auth", "request"} /\ (Switching(p) => Switching(p)')
    BY <1>7 DEF Brings, Ended, Switching
  <2> QED  BY <1>1, <1>3, <1>7, <1>8, <2>1, <2>2, <2>3, <2>4, TameStill DEF oauth
<1> QED  BY <1>1, <1>6, <1>7, <1>8, <1>9, <1>10, TameRest

-----------------------------------------------------------------------------
(* The steps that write the current snapshot *)

\* The tokens after a step of p that writes the current snapshot with what it holds.
LEMMA TameCurrent ==
  ASSUME TameInv, TypeOK', NEW p \in Procs, pc[p] \in {"current", "syncWrite"}, Moves(p),
         TokenInv, current' = mem[p].auth, mem'[p] = mem[p], pc'[p] \in {"verify", "meta"},
         UNCHANGED <<dirs, auth, issued, live, dropped, switched, crossed>>,
         Switching(p)' \/ (~Switching(p) /\ (undone' \/ (undone' = undone /\ current'.id = current.id)))
  PROVE  TokenInv'
<1>1. \A q \in Procs \ {p} : pc'[q] = pc[q] /\ mem'[q] = mem[q]
  BY MovesAlone DEF Apart, TameInv
<1>2. IssuedInv'  BY <1>1 DEF TokenInv, IssuedInv
<1>3. \A q \in Procs : Bearing(q)' <=> Bearing(q)  BY <1>1 DEF Bearing
<1>4. SavedTame'  BY <1>1, <1>3 DEF TokenInv, SavedTame
<1>5. CurrentTame'
  <2>1. mem[p].auth \in Usable \/ crossed  BY DEF TokenInv, Brings
  <2> QED  BY <2>1 DEF CurrentTame
<1>6. SticksTame'
  <2>1. \A q \in Procs \ {p} : Switching(q)' <=> Switching(q)  BY <1>1 DEF Switching
  <2> QED  BY <2>1 DEF TokenInv, SticksTame
<1>7. ASSUME NEW q \in Procs \ {p} PROVE Bears(q)' /\ Brings(q)'
  <2>1. Bears(q) /\ Brings(q)  BY DEF TokenInv
  <2> QED  BY <1>1, <1>3, <2>1 DEF Bears, Brings
<1>8. Bears(p)' /\ Brings(p)'  BY DEF Bears, Bearing, Brings
<1> QED  BY <1>2, <1>4, <1>5, <1>6, <1>7, <1>8 DEF TokenInv

LEMMA TameWrites ==
  ASSUME Tame, TameInv, NEW p \in Procs, SwitchWrite(p)
  PROVE  TameInv'
<1>1. /\ pc[p] = "current" /\ pc[p] # "idle" /\ Goto(p, "verify") /\ current' = mem[p].auth
      /\ undone' = FALSE
      /\ UNCHANGED <<dirs, auth, meta, backup, state, oauth, switchLock, mem, load, crashes,
                     switched, dropped, crossed>>
  BY DEF SwitchWrite
<1>2. Placed(p) /\ Holds(p) /\ mem[p] \in Mems /\ PlaceOf(p)  BY <1>1, TameBusy
<1>3. mem[p].op = "switch" /\ switchLock = p  BY <1>1, <1>2 DEF Placed, PlaceOf
<1>4. mem' = [mem EXCEPT ![p] = mem'[p]] /\ mem'[p] = mem[p]  BY <1>1 DEF TameInv, TypeOK
<1>5. Moves(p) /\ LocalTypes' /\ pc'[p] = "verify" /\ (Placed(p)' => PlaceOf(p)')
  BY <1>1, <1>2, <1>4, Continuing DEF TameInv, Places
<1>6. PlaceOf(p)'  BY <1>3, <1>4, <1>5 DEF Placed
<1>7. TypeOK'
  <2>1. current' \in Auths  BY <1>1, <1>2 DEF Mems
  <2> QED  BY <2>1, <1>1, <1>5 DEF TameInv, TypeOK, LocalTypes, oauth, Places, Mems
<1>8. Firm  BY <1>1, FirmStill
<1>9. Holds(p)' /\ Switching(p)'  BY <1>1, <1>2, <1>3, <1>4, <1>5 DEF Holds, Switching
<1>10. crashes = 0 => TokenInv'
  BY <1>1, <1>4, <1>5, <1>7, <1>9, TameCurrent DEF TameInv, oauth
<1> QED  BY <1>1, <1>3, <1>5, <1>6, <1>7, <1>8, <1>9, <1>10, TameRest

LEMMA TameSyncs ==
  ASSUME Tame, TameInv, NEW p \in Procs, SyncWrite(p)
  PROVE  TameInv'
<1>1. /\ pc[p] = "syncWrite" /\ pc[p] # "idle" /\ Goto(p, "meta") /\ current' = mem[p].auth
      /\ undone' = (undone \/ current.id # mem[p].auth.id)
      /\ UNCHANGED <<dirs, auth, meta, backup, state, oauth, switchLock, mem, load, crashes,
                     switched, dropped, crossed>>
  BY DEF SyncWrite
<1>2. Placed(p) /\ Holds(p) /\ mem[p] \in Mems /\ PlaceOf(p)  BY <1>1, TameBusy
<1>3. Refreshing(p) /\ ~Switching(p)  BY <1>1, <1>2 DEF Placed, Switching
<1>4. mem' = [mem EXCEPT ![p] = mem'[p]] /\ mem'[p] = mem[p]  BY <1>1 DEF TameInv, TypeOK
<1>5. Moves(p) /\ LocalTypes' /\ pc'[p] = "meta" /\ (Placed(p)' => PlaceOf(p)')
  BY <1>1, <1>2, <1>4, Continuing DEF TameInv, Places
<1>6. PlaceOf(p)'  BY <1>3, <1>4, <1>5 DEF Placed
<1>7. undone \in BOOLEAN /\ undone' \in BOOLEAN  BY <1>1 DEF TameInv, TypeOK
<1>8. TypeOK'
  <2>1. current' \in Auths  BY <1>1, <1>2 DEF Mems
  <2> QED  BY <2>1, <1>1, <1>5, <1>7 DEF TameInv, TypeOK, LocalTypes, oauth, Places, Mems
<1>9. undone' \/ (undone' = undone /\ current'.id = current.id)  BY <1>1, <1>7
<1>10. Firm  BY <1>1, FirmStill
<1>11. Holds(p)'  BY <1>1, <1>2, <1>3, <1>4, <1>5 DEF Holds, Switching
<1>12. crashes = 0 => TokenInv'
  BY <1>1, <1>3, <1>4, <1>5, <1>8, <1>9, TameCurrent DEF TameInv, oauth
<1> QED  BY <1>1, <1>5, <1>6, <1>8, <1>9, <1>10, <1>11, <1>12, TameRest

-----------------------------------------------------------------------------
(* The end of a switch; the steps of a refresh that have to do with its token *)

LEMMA TameStates ==
  ASSUME Tame, TameInv, NEW p \in Procs, SwitchState(p)
  PROVE  TameInv'
<1>1. /\ pc[p] = "state" /\ pc[p] # "idle" /\ Finish(p)
      /\ state' = mem[p].name /\ switched' = mem[p].auth.id
      /\ UNCHANGED <<dirs, auth, meta, current, backup, oauth, load, crashes,
                     undone, dropped, crossed>>
  BY DEF SwitchState
<1>2. Placed(p) /\ Holds(p) /\ mem[p].name \in Names /\ mem[p] \in Mems  BY <1>1, TameBusy
<1>3. mem[p].op = "switch"  BY <1>1, <1>2 DEF Placed
<1>4. current.id = mem[p].auth.id \/ undone  BY <1>1, <1>2, <1>3 DEF Holds, Switching
<1>5. Ended(p) /\ Moves(p) /\ LocalTypes' /\ PlaceOf(p)'  BY <1>1, Ending DEF TameInv
<1>6. TypeOK'
  <2>1. mem[p].auth \in Auths  BY <1>2 DEF Mems
  <2>2. mem[p].auth.id \in Ids \cup {NoId}  BY <2>1 DEF Auths, NoAuth
  <2> QED  BY <1>1, <1>2, <1>5, <2>2 DEF TameInv, TypeOK, LocalTypes, oauth, Places, Mems
<1>7. Firm  BY <1>1, FirmStill
<1>8. Holds(p)'  BY <1>5 DEF Holds, Ended
<1>9. ASSUME crashes = 0 PROVE TokenInv'
  <2>1. TokenInv /\ issued \in Nat  BY <1>9 DEF TameInv, TypeOK
  <2>2. \A q \in Procs \ {p} : pc'[q] = pc[q] /\ mem'[q] = mem[q]
    BY <1>5, MovesAlone DEF Apart, TameInv
  <2>3. IssuedInv'
    BY <1>1, <1>5, <2>1, <2>2 DEF TokenInv, IssuedInv, Ended, NoMem, NoAuth, oauth
  <2>4. \A q \in Procs : (Bearing(q)' <=> Bearing(q)) /\ (Rotating(q)' <=> Rotating(q))
    BY <1>1, <1>5, <2>2 DEF Ended, Bearing, Rotating
  <2>5. /\ \A q \in Procs : Bearing(q) => mem'[q] = mem[q]
        /\ \A q \in Procs : Rotating(q) => mem'[q] = mem[q]
    BY <1>1, <2>2 DEF Bearing, Rotating
  <2>6. SavedTame' /\ CurrentTame'
    BY <1>1, <2>1, <2>4, <2>5 DEF TokenInv, SavedTame, CurrentTame, oauth
  <2>7. SticksTame'  BY <1>1, <1>4 DEF SticksTame
  <2>8. ASSUME NEW q \in Procs \ {p} PROVE Bears(q)' /\ Brings(q)'
    <3>1. Bears(q) /\ Brings(q)  BY <2>1 DEF TokenInv
    <3> QED  BY <1>1, <1>5, <2>2, <2>4, <3>1 DEF Ended, Bears, Brings, oauth
  <2>9. Bears(p)' /\ Brings(p)'  BY <1>5 DEF Ended, Bears, Bearing, Brings
  <2> QED  BY <2>3, <2>6, <2>7, <2>8, <2>9 DEF TokenInv
<1> QED  BY <1>1, <1>5, <1>6, <1>7, <1>8, <1>9, TameRest

LEMMA TameAuths ==
  ASSUME Tame, TameInv, NEW p \in Procs, WriteAuth(p)
  PROVE  TameInv'
<1> DEFINE n == mem[p].name
<1>1. /\ pc[p] = "auth" /\ pc[p] # "idle"
      /\ dirs' = dirs \cup {n} /\ auth' = [auth EXCEPT ![n] = mem[p].auth]
      /\ Goto(p, IF Refreshing(p) THEN "sync" ELSE "meta")
      /\ UNCHANGED <<meta, current, backup, state, oauth, switchLock, mem, load, crashes, past>>
  BY DEF WriteAuth
<1>2. /\ Placed(p) /\ Holds(p) /\ n \in Names /\ n \in dirs /\ mem[p] \in Mems /\ Valid(n)
      /\ mem[p].op \in TameOps
  BY <1>1, TameBusy
<1>3. Refreshing(p) /\ Bearing(p) /\ dirs' = dirs
  BY <1>1, <1>2 DEF Placed, TameOps, Bearing
<1>4. mem[p].auth # NoAuth /\ mem[p].auth.id = auth[n].id
  BY <1>1, <1>2, <1>3 DEF Holds
<1>5. mem' = [mem EXCEPT ![p] = mem'[p]] /\ mem'[p] = mem[p]  BY <1>1 DEF TameInv, TypeOK
<1>6. Moves(p) /\ LocalTypes' /\ pc'[p] = "sync" /\ (Placed(p)' => PlaceOf(p)')
  BY <1>1, <1>2, <1>3, <1>5, Continuing DEF TameInv, Places
<1>7. PlaceOf(p)'  BY <1>3, <1>5, <1>6 DEF Placed
<1>8. auth'[n] = mem[p].auth /\ \A m \in Names \ {n} : auth'[m] = auth[m]
  BY <1>1, <1>2 DEF TameInv, TypeOK
<1>9. TypeOK'
  <2>1. auth' \in [Names -> Auths]  BY <1>1, <1>2 DEF TameInv, TypeOK, Mems
  <2> QED  BY <2>1, <1>1, <1>3, <1>6 DEF TameInv, TypeOK, LocalTypes, oauth, Places, Mems
<1>10. Firm
  <2> SUFFICES ASSUME NEW m \in dirs PROVE Valid(m)' /\ auth'[m].id = auth[m].id
    BY <1>3 DEF Firm
  <2>1. Valid(m) /\ m \in Names  BY DEF TameInv, TypeOK
  <2>2. CASE m = mem[p].name  BY <1>1, <1>3, <1>4, <1>8, <2>1, <2>2 DEF Valid
  <2>3. CASE m # mem[p].name  BY <1>1, <1>3, <1>8, <2>1, <2>3 DEF Valid
  <2> QED  BY <2>2, <2>3
<1>11. Holds(p)'  BY <1>1, <1>2, <1>3, <1>4, <1>5, <1>6, <1>8 DEF Holds, Switching
<1>12. ASSUME crashes = 0 PROVE TokenInv'
  <2>1. TokenInv  BY <1>12 DEF TameInv
  <2>2. \A q \in Procs \ {p} : pc'[q] = pc[q] /\ mem'[q] = mem[q]
    BY <1>6, MovesAlone DEF Apart, TameInv
  <2>3. mem[p].auth \in live  BY <1>3, <2>1 DEF TokenInv, Bears
  <2>4. IssuedInv'
    <3>1. \A q \in Procs : mem'[q].auth.tok <= issued  BY <1>5, <2>1, <2>2 DEF TokenInv, IssuedInv
    <3>2. \A m \in Names : auth'[m].tok <= issued  BY <1>8, <2>1 DEF TokenInv, IssuedInv
    <3> QED  BY <1>1, <3>1, <3>2 DEF IssuedInv, oauth
  <2>5. \A q \in Procs \ {p} : Bearing(q)' <=> Bearing(q)  BY <2>2 DEF Bearing
  <2>6. SavedTame'
    <3> SUFFICES ASSUME NEW m \in dirs
                 PROVE  auth'[m] \in Usable' \/ \E q \in Procs : Bearing(q)' /\ mem'[q].name = m
      BY <1>3 DEF SavedTame
    <3>1. m \in Names  BY DEF TameInv, TypeOK
    <3>2. CASE m = n  BY <1>1, <1>8, <2>3, <3>2 DEF oauth
    <3>3. CASE m # n
      <4>1. auth[m] \in Usable \/ \E q \in Procs : Bearing(q) /\ mem[q].name = m
        BY <2>1 DEF TokenInv, SavedTame
      <4> QED  BY <1>1, <1>8, <2>2, <2>5, <3>1, <3>3, <4>1 DEF oauth
    <3> QED  BY <3>2, <3>3
  <2>7. CurrentTame'
    <3>1. \A q \in Procs : Rotating(q) => Rotating(q)' /\ mem'[q] = mem[q]
      BY <1>5, <1>6, <2>2 DEF Rotating
    <3> QED  BY <1>1, <2>1, <3>1 DEF TokenInv, CurrentTame, oauth
  <2>8. SticksTame'
    <3>1. \A q \in Procs : Switching(q) => Switching(q)'
      BY <1>3, <2>2 DEF Switching
    <3> QED  BY <1>1, <2>1, <3>1 DEF TokenInv, SticksTame
  <2>9. ASSUME NEW q \in Procs \ {p} PROVE Bears(q)' /\ Brings(q)'
    <3>1. Bears(q) /\ Brings(q)  BY <2>1 DEF TokenInv
    <3>2. Brings(q)'  BY <1>1, <2>2, <3>1 DEF Brings, oauth
    <3>3. ASSUME Bearing(q) PROVE \A m \in Names : auth'[m] # mem[q].auth
      <4>1. mem[p].auth # mem[q].auth  BY <1>1, <3>1, <3>3 DEF Bears
      <4> QED  BY <1>8, <3>1, <3>3, <4>1 DEF Bears
    <3>4. Bears(q)'  BY <1>1, <1>6, <2>2, <2>5, <3>1, <3>3 DEF Bears, oauth
    <3> QED  BY <3>2, <3>4
  <2>10. Bears(p)' /\ Brings(p)'
    BY <1>1, <1>5, <1>6, <2>3 DEF Bears, Bearing, Brings, oauth
  <2> QED  BY <2>4, <2>6, <2>7, <2>8, <2>9, <2>10 DEF TokenInv
<1> QED  BY <1>1, <1>6, <1>7, <1>9, <1>10, <1>11, <1>12, TameRest

\* A token is consumed: who else had it in mind for the current snapshot has crossed it.
LEMMA Consumed ==
  ASSUME TameInv, TokenInv, NEW p \in Procs, pc[p] = "request",
         NEW q \in Procs \ {p}, pc'[q] = pc[q], mem'[q] = mem[q],
         live \ {mem[p].auth} \subseteq live', dropped \subseteq dropped',
         crossed' \/ mem[p].auth \in dropped' \/
           ~(crossed \/ RotatingOther(p, mem[p].auth.id) \/ Copying(mem[p].auth.id)),
         crossed => crossed',
         auth' = auth, pc'[p] = "auth" => \A r \in Procs \ {p} : mem'[p].auth # mem[r].auth,
         pc'[p] # "request", \A r \in Procs \ {p} : pc'[r] = pc[r] /\ mem'[r] = mem[r]
  PROVE  Bears(q)' /\ Brings(q)'
<1>1. Bears(q) /\ Brings(q)  BY DEF TokenInv
<1>2. PlaceOf(q)  BY DEF TameInv, PlaceInv
<1>3. Bears(q)'
  <2> SUFFICES ASSUME Bearing(q) PROVE Bears(q)'
    BY DEF Bears, Bearing
  <2>1. mem[q].auth # mem[p].auth /\ mem[q].auth \in live  BY <1>1 DEF Bears
  <2> QED  BY <1>1, <2>1 DEF Bears
<1>4. Brings(q)'
  <2> SUFFICES ASSUME pc[q] \in {"sync", "syncWrite", "current"}, mem[q].auth = mem[p].auth
               PROVE  mem[p].auth \in Usable' \/ crossed'
    BY <1>1 DEF Brings
  <2>1. RotatingOther(p, mem[p].auth.id) \/ Copying(mem[p].auth.id)
    BY <1>2 DEF PlaceOf, Placed, RotatingOther, Rotating, Copying
  <2> QED  BY <2>1
<1> QED  BY <1>3, <1>4

LEMMA TameRotates ==
  ASSUME Tame, TameInv, NEW p \in Procs, RefreshRotate(p)
  PROVE  TameInv'
<1> DEFINE n == mem[p].name
           a == mem[p].auth
           new == [id |-> a.id, tok |-> issued']
<1>1. /\ pc[p] = "request" /\ pc[p] # "idle" /\ a \in live
      /\ mem' = [mem EXCEPT ![p].auth.tok = issued'] /\ Goto(p, "auth")
      /\ UNCHANGED <<files, switchLock, load, crashes, switched, undone, dropped>>
      /\ crossed' = (crossed \/ RotatingOther(p, a.id) \/ Copying(a.id))
  BY DEF RefreshRotate
<1>2. /\ Placed(p) /\ Holds(p) /\ n \in Names /\ n \in dirs /\ mem[p] \in Mems /\ Valid(n)
  BY <1>1, TameBusy
<1>3. Refreshing(p) /\ a # NoAuth /\ a.id = auth[n].id
  BY <1>1, <1>2 DEF Placed, Holds
<1>4. issued' = issued + 1 /\ issued' \in 1..MaxTokens /\ live' = (live \ {a}) \cup {new}
      /\ issued \in Nat
  BY AccountStoreAssumption DEF RefreshRotate, Issue, TameInv, TypeOK
<1>5. a \in [id : Ids, tok : 1..MaxTokens]  BY <1>2, <1>3 DEF Mems, Auths
<1>6. new \in Auths /\ new # NoAuth /\ new.id = a.id /\ new.tok = issued'
  BY <1>4, <1>5, AccountStoreAssumption DEF Auths, NoAuth
<1>7. mem'[p] = [mem[p] EXCEPT !.auth.tok = issued']  BY <1>1 DEF TameInv, TypeOK
<1>8. mem' = [mem EXCEPT ![p] = mem'[p]]  BY <1>1, <1>7 DEF TameInv, TypeOK
<1>9. /\ mem'[p].op = mem[p].op /\ mem'[p].name = n /\ mem'[p].meta = mem[p].meta
      /\ mem'[p].auth = [a EXCEPT !.tok = issued']
  BY <1>2, <1>7 DEF Mems
<1>10. mem'[p].auth = new  BY <1>5, <1>9
<1>11. mem'[p] \in Mems
  <2>1. mem'[p] = [mem[p] EXCEPT !.auth = [a EXCEPT !.tok = issued']]  BY <1>2, <1>7 DEF Mems
  <2>2. [a EXCEPT !.tok = issued'] \in Auths  BY <1>6, <1>9, <1>10
  <2> HIDE DEF a
  <2> QED  BY <1>2, <2>1, <2>2 DEF Mems
<1>12. Moves(p) /\ LocalTypes' /\ pc'[p] = "auth" /\ (Placed(p)' => PlaceOf(p)')
  BY <1>1, <1>8, <1>9, <1>11, Continuing DEF TameInv, Places
<1>13. PlaceOf(p)'  BY <1>3, <1>9, <1>12 DEF Placed
<1>14. TypeOK'
  <2>1. live' \subseteq Auths /\ issued' \in 0..MaxTokens  BY <1>4, <1>6 DEF TameInv, TypeOK
  <2>2. crossed' \in BOOLEAN  BY <1>1 DEF TameInv, TypeOK
  <2> QED  BY <2>1, <2>2, <1>1, <1>12 DEF TameInv, TypeOK, LocalTypes, files, Places, Mems
<1> HIDE DEF new
<1>15. Firm  BY <1>1, FirmStill DEF files
<1>16. Holds(p)'
  BY <1>1, <1>2, <1>3, <1>6, <1>9, <1>10, <1>12 DEF Holds, Switching, files
<1>17. ASSUME crashes = 0 PROVE TokenInv'
  <2>1. TokenInv  BY <1>17 DEF TameInv
  <2>2. \A q \in Procs \ {p} : pc'[q] = pc[q] /\ mem'[q] = mem[q]
    BY <1>12, MovesAlone DEF Apart, TameInv
  <2>3. /\ \A m \in Names : auth[m].tok <= issued /\ auth[m] # new
        /\ \A q \in Procs : mem[q].auth.tok <= issued /\ mem[q].auth # new
    <3>1. /\ \A m \in Names : auth[m].tok <= issued
          /\ \A q \in Procs : mem[q].auth.tok <= issued
      BY <2>1 DEF TokenInv, IssuedInv
    <3>2. ~(new.tok <= issued)  BY <1>4, <1>6
    <3> QED  BY <3>1, <3>2
  <2>4. IssuedInv'
    <3>1. \A m \in Names : auth[m].tok \in Nat  BY DEF TameInv, TypeOK, Auths, NoAuth
    <3>2. \A q \in Procs : mem[q].auth.tok \in Nat  BY DEF TameInv, TypeOK, Auths, NoAuth
    <3>3. \A m \in Names : auth'[m].tok <= issued'  BY <1>1, <1>4, <2>3, <3>1 DEF files
    <3>4. \A q \in Procs \ {p} : mem'[q].auth.tok <= issued'  BY <1>4, <2>2, <2>3, <3>2
    <3>5. mem'[p].auth.tok <= issued'  BY <1>4, <1>6, <1>10
    <3> QED  BY <3>3, <3>4, <3>5 DEF IssuedInv
  <2>5. Bearing(p)' /\ Rotating(p)' /\ ~Bearing(p) /\ ~Rotating(p) /\ ~Switching(p)
    BY <1>1, <1>3, <1>9, <1>12 DEF Bearing, Rotating, Switching
  <2>6. SavedTame'
    <3> SUFFICES ASSUME NEW m \in dirs
                 PROVE  auth[m] \in Usable' \/ \E q \in Procs : Bearing(q)' /\ mem'[q].name = m
      BY <1>1 DEF SavedTame, files
    <3>1. m \in Names /\ Valid(m)  BY DEF TameInv, TypeOK
    <3>2. CASE auth[m] = a
      <4>1. m = n  BY <1>2, <1>3, <3>1, <3>2 DEF TameInv, OneEach
      <4> QED  BY <1>9, <2>5, <4>1
    <3>3. CASE auth[m] # a
      <4>1. auth[m] \in Usable \/ \E q \in Procs : Bearing(q) /\ mem[q].name = m
        BY <2>1 DEF TokenInv, SavedTame
      <4>2. \A q \in Procs : Bearing(q) => Bearing(q)' /\ mem'[q].name = mem[q].name
        BY <2>2, <2>5 DEF Bearing
      <4>3. auth[m] \in Usable => auth[m] \in Usable'  BY <1>1, <1>4, <3>3
      <4> QED  BY <4>1, <4>2, <4>3
    <3> QED  BY <3>2, <3>3
  <2>7. CurrentTame'
    <3>1. \A q \in Procs : Rotating(q) => Rotating(q)' /\ mem'[q] = mem[q]
      BY <2>2, <2>5 DEF Rotating
    <3>2. CASE current = a  BY <1>1, <1>6, <1>10, <2>5, <3>2 DEF CurrentTame, files
    <3>3. CASE current # a
      <4>1. current \in Usable => current \in Usable'  BY <1>1, <1>4, <3>3
      <4> QED  BY <1>1, <2>1, <3>1, <4>1 DEF TokenInv, CurrentTame, files
    <3> QED  BY <3>2, <3>3
  <2>8. SticksTame'
    <3>1. \A q \in Procs : Switching(q) => Switching(q)'  BY <2>2, <2>5 DEF Switching
    <3> QED  BY <1>1, <2>1, <3>1 DEF TokenInv, SticksTame, files
  <2>9. \A q \in Procs \ {p} : Bears(q)' /\ Brings(q)'
    <3>1. live \ {a} \subseteq live' /\ dropped' = dropped /\ (crossed => crossed')
      BY <1>1, <1>4
    <3>2. \A r \in Procs \ {p} : mem'[p].auth # mem[r].auth  BY <1>10, <2>3
    <3> QED  BY <1>1, <1>12, <2>1, <2>2, <3>1, <3>2, Consumed DEF files
  <2>10. Bears(p)' /\ Brings(p)'
    <3>1. Brings(p)'  BY <1>12 DEF Brings
    <3>2. new \in live'  BY <1>4
    <3> QED  BY <1>1, <1>10, <2>2, <2>3, <3>1, <3>2 DEF Bears, files
  <2> QED  BY <2>4, <2>6, <2>7, <2>8, <2>9, <2>10 DEF TokenInv
<1> QED  BY <1>1, <1>12, <1>13, <1>14, <1>15, <1>16, <1>17, TameRest DEF files

LEMMA TameDrops ==
  ASSUME Tame, TameInv, NEW p \in Procs, RotationDropped(p)
  PROVE  TameInv'
<1> DEFINE a == mem[p].auth
           new == [id |-> a.id, tok |-> issued']
<1>1. /\ pc[p] = "request" /\ pc[p] # "idle" /\ Goto(p, "meta") /\ a \in live
      /\ dropped' = dropped \cup {a}
      /\ UNCHANGED <<files, switchLock, mem, load, crashes, switched, undone, crossed>>
  BY DEF RotationDropped
<1>2. Placed(p) /\ Holds(p) /\ mem[p] \in Mems  BY <1>1, TameBusy
<1>3. Refreshing(p) /\ a # NoAuth  BY <1>1, <1>2 DEF Placed, Holds
<1>4. issued' = issued + 1 /\ issued' \in 1..MaxTokens /\ live' = (live \ {a}) \cup {new}
      /\ issued \in Nat
  BY AccountStoreAssumption DEF RotationDropped, Issue, TameInv, TypeOK
<1>5. a \in [id : Ids, tok : 1..MaxTokens]  BY <1>2, <1>3 DEF Mems, Auths
<1>6. new \in Auths  BY <1>4, <1>5 DEF Auths
<1>7. mem' = [mem EXCEPT ![p] = mem'[p]] /\ mem'[p] = mem[p]  BY <1>1 DEF TameInv, TypeOK
<1>8. Moves(p) /\ LocalTypes' /\ pc'[p] = "meta" /\ (Placed(p)' => PlaceOf(p)')
  BY <1>1, <1>2, <1>7, Continuing DEF TameInv, Places
<1>9. PlaceOf(p)'  BY <1>3, <1>7, <1>8 DEF Placed
<1>10. TypeOK'
  <2>1. live' \subseteq Auths /\ dropped' \subseteq Auths /\ issued' \in 0..MaxTokens
    BY <1>1, <1>2, <1>4, <1>6 DEF TameInv, TypeOK, Mems
  <2> QED  BY <2>1, <1>1, <1>8 DEF TameInv, TypeOK, LocalTypes, files, Places, Mems
<1>11. Firm  BY <1>1, FirmStill DEF files
<1>12. Holds(p)'  BY <1>1, <1>2, <1>3, <1>7, <1>8 DEF Holds, Switching, files
<1>13. ASSUME crashes = 0 PROVE TokenInv'
  <2>1. TokenInv  BY <1>13 DEF TameInv
  <2>2. \A q \in Procs \ {p} : pc'[q] = pc[q] /\ mem'[q] = mem[q]
    BY <1>8, MovesAlone DEF Apart, TameInv
  <2>3. Usable \subseteq Usable'  BY <1>1, <1>4
  <2>4. IssuedInv'
    <3>1. \A m \in Names : auth[m].tok \in Nat  BY DEF TameInv, TypeOK, Auths, NoAuth
    <3>2. \A q \in Procs : mem[q].auth.tok \in Nat  BY DEF TameInv, TypeOK, Auths, NoAuth
    <3> QED  BY <1>1, <1>4, <2>1, <3>1, <3>2 DEF TokenInv, IssuedInv, files
  <2>5. ~Bearing(p) /\ ~Rotating(p) /\ ~Switching(p)
    BY <1>1 DEF Bearing, Rotating, Switching
  <2>6. \A q \in Procs : /\ Bearing(q) => Bearing(q)'
                         /\ Rotating(q) => Rotating(q)'
                         /\ Switching(q) => Switching(q)'
    BY <2>2, <2>5 DEF Bearing, Rotating, Switching
  <2>7. SavedTame' /\ CurrentTame'
    BY <1>1, <2>1, <2>3, <2>6 DEF TokenInv, SavedTame, CurrentTame, files
  <2>8. SticksTame'  BY <1>1, <2>1, <2>6 DEF TokenInv, SticksTame, files
  <2>9. \A q \in Procs \ {p} : Bears(q)' /\ Brings(q)'
    <3>1. live \ {a} \subseteq live' /\ dropped \subseteq dropped' /\ a \in dropped'
      BY <1>1, <1>4
    <3> QED  BY <1>1, <1>8, <2>1, <2>2, <3>1, Consumed DEF files
  <2>10. Bears(p)' /\ Brings(p)'  BY <1>8 DEF Bears, Bearing, Brings
  <2> QED  BY <2>4, <2>7, <2>8, <2>9, <2>10 DEF TokenInv
<1> QED  BY <1>1, <1>8, <1>9, <1>10, <1>11, <1>12, <1>13, TameRest DEF files

LEMMA TameCrashes ==
  ASSUME Tame, TameInv, NEW p \in Procs, Crash(p)
  PROVE  TameInv'
<1>1. /\ pc[p] # "idle" /\ Finish(p) /\ crashes' = crashes + 1
      /\ UNCHANGED <<files, oauth, load, past>>
  BY DEF Crash
<1>2. Ended(p) /\ Moves(p) /\ LocalTypes' /\ PlaceOf(p)'  BY <1>1, Ending DEF TameInv
<1>3. crashes' \in Nat /\ crashes' # 0  BY <1>1 DEF TameInv, TypeOK
<1>4. TypeOK'
  BY <1>1, <1>2, <1>3 DEF TameInv, TypeOK, LocalTypes, files, oauth, Places, Mems
<1>5. Firm  BY <1>1, FirmStill DEF files
<1>6. Holds(p)'  BY <1>2 DEF Holds, Ended
<1> QED  BY <1>1, <1>2, <1>3, <1>4, <1>5, <1>6, TameRest DEF files

LEMMA TameStutters ==
  ASSUME TameInv, UNCHANGED vars
  PROVE  TameInv'
<1> USE DEF vars, files, oauth
<1>1. TypeOK'  BY DEF TameInv, TypeOK
<1>2. PlaceInv' /\ OneEach' /\ (\A n \in dirs : Valid(n))'
  BY DEF TameInv, PlaceInv, PlaceOf, Placed, OneEach, Valid
<1>3. (\A p \in Procs : Holds(p))'  BY DEF TameInv, Holds, Switching
<1>4. TokenInv => TokenInv'
  <2>1. IssuedInv => IssuedInv'  BY DEF IssuedInv
  <2>2. SavedTame /\ CurrentTame /\ SticksTame => SavedTame' /\ CurrentTame' /\ SticksTame'
    BY DEF SavedTame, CurrentTame, SticksTame, Bearing, Rotating, Switching
  <2>3. \A p \in Procs : Bears(p) /\ Brings(p) => Bears(p)' /\ Brings(p)'
    BY DEF Bears, Bearing, Brings
  <2> QED  BY <2>1, <2>2, <2>3 DEF TokenInv
<1> QED  BY <1>1, <1>2, <1>3, <1>4 DEF TameInv

LEMMA TameStep ==
  ASSUME Tame, TameInv, [Next]_vars
  PROVE  TameInv'
<1>1. CASE UNCHANGED vars  BY <1>1, TameStutters
<1>2. ASSUME NEW p \in Procs, Start(p) PROVE TameInv'
  <2>1. PICK n \in Names :
          \/ SaveBegin(p, n) \/ UpdateBegin(p, n) \/ SwitchBegin(p, n) \/ RemoveBegin(p, n)
          \/ \E i \in Ids : AddBegin(p, n, i)
          \/ \E op \in AllOps : RefreshBegin(p, n, op)
          \/ \E e \in BOOLEAN : ProtectBegin(p, n, e)
          \/ \E old \in Names : RenameBegin(p, old, n)
    BY <1>2 DEF Start
  <2>2. ~SaveBegin(p, n) /\ ~UpdateBegin(p, n) /\ ~RemoveBegin(p, n)
    BY DEF Tame, TameOps, SaveBegin, UpdateBegin, RemoveBegin, Begin
  <2>3. /\ \A i \in Ids : ~AddBegin(p, n, i)
        /\ \A old \in Names : ~RenameBegin(p, old, n)
    BY DEF Tame, TameOps, AddBegin, RenameBegin, Begin
  <2> QED
    BY <2>1, <2>2, <2>3, TameSwitchBegins, TameRefreshBegins, TameProtectBegins
<1>3. ASSUME NEW p \in Procs, Continue(p) PROVE TameInv'
  <2>1. pc[p] \notin {"dup", "reread", "unlink", "remeta"}
    <3>1. pc[p] # "idle" => Placed(p) /\ mem[p].op \in TameOps  BY TameBusy
    <3> QED  BY <3>1 DEF Placed, TameOps
  <2>2. /\ \A force \in BOOLEAN : ~DupCheck(p, force)
        /\ ~UpdateRead(p) /\ ~RemoveRest(p) /\ ~RenameRead(p)
    BY <2>1 DEF DupCheck, UpdateRead, RemoveRest, RenameRead
  <2> QED
    BY <1>3, <2>2, TameAuths, TameMetas, TameBackups, TameCopies, TameWrites, TameVerifies,
       TameStates, TameRotates, TameDrops, TameReplies, TameCompares, TameSyncs
       DEF Continue
<1>4. ASSUME NEW p \in Procs, Crash(p) PROVE TameInv'  BY <1>4, TameCrashes
<1> QED  BY <1>1, <1>2, <1>3, <1>4 DEF Next

LEMMA TameInitially ==
  ASSUME Init
  PROVE  TameInv
<1>1. AloneInv  BY Initially
<1>2. /\ \A p \in Procs : pc[p] = "idle" /\ mem[p] = NoMem
      /\ issued = 1 /\ switched = NoId /\ crashes = 0
  BY DEF Init
<1>3. /\ \A n \in dirs : Valid(n)
      /\ \A n \in Names : auth[n].tok <= issued
  <2>1. PICK saved \in SUBSET Names, of \in [Names -> Ids] :
          /\ dirs = saved
          /\ auth = [n \in Names |-> IF n \in saved THEN [id |-> of[n], tok |-> 1] ELSE NoAuth]
          /\ meta = [n \in Names |-> IF n \in saved THEN NewMeta(n, auth[n]) ELSE NoMeta]
    BY DEF Init
  <2>2. \A n \in Names : auth[n].tok <= 1  BY <2>1 DEF NoAuth
  <2>3. ASSUME NEW n \in dirs PROVE Valid(n)
    <3>1. auth[n] = [id |-> of[n], tok |-> 1] /\ of[n] \in Ids /\ n \in Names  BY <2>1
    <3>2. meta[n] = [name |-> n, id |-> auth[n].id, eligible |-> TRUE]
      BY <2>1, <3>1 DEF NewMeta
    <3>3. auth[n] # NoAuth  BY <3>1 DEF NoAuth
    <3>4. meta[n].name = n /\ meta[n].id = auth[n].id  BY <3>2
    <3>5. meta[n] # NoMeta  BY <3>1, <3>4, AccountStoreAssumption DEF NoMeta
    <3> QED  BY <3>3, <3>4, <3>5 DEF Valid
  <2> QED  BY <1>2, <2>2, <2>3
<1>4. \A p \in Procs : Holds(p) /\ Bears(p) /\ Brings(p)
  BY <1>2 DEF Holds, Bears, Bearing, Brings
<1>5. IssuedInv  BY <1>2, <1>3 DEF IssuedInv, NoMem, NoAuth
<1>6. SavedTame /\ CurrentTame /\ SticksTame
  <2>1. /\ \A p \in Procs : ~Replaces(p) /\ ~Outdates(p)
        /\ CurrentLive /\ SavedLive
    BY <1>1, <1>2 DEF Replaces, Outdates, AloneInv, NoCrashInv
  <2> QED  BY <1>2, <2>1 DEF SavedTame, CurrentTame, SticksTame, CurrentLive, SavedLive
<1>7. TypeOK /\ PlaceInv /\ OneEach  BY <1>1, <1>2 DEF AloneInv, NoCrashInv
<1> QED  BY <1>3, <1>4, <1>5, <1>6, <1>7 DEF TameInv, TokenInv

LEMMA TameConsequences ==
  ASSUME TameInv
  PROVE  StoreInv /\ TokensLive /\ SwitchSticks
<1>1. CrashContained
  <2>1. {n \in dirs : ~Valid(n)} = {}  BY DEF TameInv
  <2>2. Cardinality({n \in dirs : ~Valid(n)}) = 0  BY <2>1, FS_EmptySet
  <2>3. crashes \in Nat  BY DEF TameInv, TypeOK
  <2> QED  BY <2>2, <2>3 DEF CrashContained
<1>2. UniqueIdentity  BY DEF UniqueIdentity, TameInv, OneEach
<1>3. Quiet => \A p \in Procs : ~Bearing(p) /\ ~Rotating(p) /\ ~Switching(p)
  BY DEF Quiet, Bearing, Rotating, Switching
<1>4. TokensLive  BY <1>3 DEF TokensLive, TameInv, TokenInv, CurrentTame, SavedTame
<1>5. SwitchSticks  BY <1>3 DEF SwitchSticks, TameInv, TokenInv, SticksTame
<1> QED  BY <1>1, <1>2, <1>4, <1>5 DEF StoreInv, TameInv

-----------------------------------------------------------------------------
(* What both disciplines give *)

IInv == /\ load \in Loads
        /\ Alone => AloneInv
        /\ Tame => TameInv

LEMMA Always ==
  ASSUME Disciplined
  PROVE  Spec => []IInv
<1>1. Init => IInv
  <2>1. Init => load \in Loads  BY DEF Init
  <2> QED  BY <2>1, Initially, TameInitially DEF IInv
<1>2. ASSUME IInv, [Next]_vars PROVE IInv'
  <2>1. load' = load
    <3>1. CASE UNCHANGED vars  BY <3>1 DEF vars
    <3>2. ASSUME NEW p \in Procs, Start(p) PROVE load' = load
      BY <3>2 DEF Start, SaveBegin, UpdateBegin, SwitchBegin, RemoveBegin, AddBegin,
         RefreshBegin, ProtectBegin, RenameBegin
    <3>3. ASSUME NEW p \in Procs, Continue(p) PROVE load' = load
      BY <3>3 DEF Continue, WriteAuth, WriteMeta, DupCheck, UpdateRead, SwitchBackup,
         SwitchCopy, SwitchWrite, SwitchVerify, SwitchState, RefreshRotate, RotationDropped,
         RefreshReply, SyncCompare, SyncWrite, RemoveRest, RenameRead
    <3>4. ASSUME NEW p \in Procs, Crash(p) PROVE load' = load  BY <3>4 DEF Crash
    <3> QED  BY <1>2, <3>1, <3>2, <3>3, <3>4 DEF Next
  <2>2. (Alone' <=> Alone) /\ (Tame' <=> Tame)  BY <2>1 DEF Alone, Tame
  <2> QED  BY <1>2, <2>1, <2>2, EveryStep, TameStep DEF IInv
<1> QED  BY <1>1, <1>2, PTL DEF Spec

LEMMA InvGives ==
  ASSUME Disciplined, IInv
  PROVE  StoreInv /\ TokensLive /\ SwitchSticks
<1>1. Alone \/ Tame  BY DEF Disciplined, IInv, Alone, Tame
<1> QED  BY <1>1, Consequences, TameConsequences DEF IInv

\* Where operations do not overlap, or only switches, refreshes, quota refreshes and
\* protections do, and processes may be killed between any two writes: whenever no
\* operation is under way, at most one account for each crash cannot be read, and until
\* a crash no identity is saved twice.
THEOREM StoreSound ==
  ASSUME Disciplined
  PROVE  Spec => []StoreInv
<1>1. IInv => StoreInv  BY InvGives
<1> QED  BY <1>1, Always, PTL

\* There, until a crash, no refresh leaves a consumed token in an account, unless its
\* successor was dropped with an error, whatever saves, updates, renames, switches and
\* refreshes follow one another or switches and refreshes overlap; nor in the current
\* snapshot, until a rotation overlaps another one or a switch of its identity.
THEOREM NoTokenLost ==
  ASSUME Disciplined
  PROVE  Spec => []TokensLive
<1>1. IInv => TokensLive  BY InvGives
<1> QED  BY <1>1, Always, PTL

\* There, until a crash, the last switch that reported success is in effect, or a
\* refresh that had found its own identity before the switch has undone it.
THEOREM SwitchesStick ==
  ASSUME Disciplined
  PROVE  Spec => []SwitchSticks
<1>1. IInv => SwitchSticks  BY InvGives
<1> QED  BY <1>1, Always, PTL

=============================================================================
