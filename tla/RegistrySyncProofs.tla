------------------------- MODULE RegistrySyncProofs -------------------------
(***************************************************************************)
(* What the synchronisation guarantees for every number of machines,       *)
(* sweeps, tokens, lost messages and killed passes, as long as no machine  *)
(* runs two autosync passes at once: leases exclude while they last, the   *)
(* registry never goes back, and no token is lost.                         *)
(***************************************************************************)
EXTENDS RegistrySync, TLAPS

\* At most one autosync pass per machine, besides any number of sweeps.  The loop
\* and a pass started from a page share their client_id: README, section 6.
OnePerMachine ==
  \A p, q \in Passes \ Sweepers : MachineOf[p] = MachineOf[q] => p = q

\* What the local variables of a pass hold when they are going to be used.
LocalInv ==
  /\ entry.version = 0 => entry.exp = 0
  /\ \A p \in Passes :
       /\ pass[p].at \in {"idle", "list", "compare", "download", "adopt", "decide"} =>
            pass[p].lid = 0
       /\ pass[p].listed > 0 => entry.exp > 0
       /\ pass[p].at = "download" => pass[p].listed > 0
       /\ pass[p].at \in {"adopt", "rotate", "store", "upload"} => pass[p].mem > 0
       /\ p \in Sweepers => pass[p].lid = 0 /\ pass[p].at \in {"idle", "read", "rotate", "store"}

\* A lease id belongs to one machine, for ever; the live one to its client.
IdsInv ==
  /\ lease.id <= lastLease
  /\ \A p \in Passes :
       /\ pass[p].lid <= lastLease
       /\ pass[p].lid # 0 /\ pass[p].lid = lease.id => lease.client = MachineOf[p]

\* A pass that is refreshing holds the live lease.
HoldsLease ==
  route /\ ~cut => \A p \in Passes : Leased(p) =>
    pass[p].lid # 0 /\ pass[p].lid = lease.id /\ lease.client = MachineOf[p]

LeaseIInv == TypeOK /\ LocalInv /\ IdsInv /\ HoldsLease

-----------------------------------------------------------------------------

\* The tokens of one login form a chain: only the newest is live, and what a machine
\* saves, the registry stores and a pass has in memory are links of it.
Links ==
  /\ live = {issued}
  /\ entry.exp <= issued
  /\ \A m \in Clients : token[m] <= issued
  /\ \A p \in Passes : pass[p].listed <= entry.exp

\* The newest token that is not saved yet is known to one pass only, which
\* obtained it for the token that is still saved.
Fresh == \A p \in Passes : At(p, "store") =>
  /\ pass[p].mem = issued /\ Saved(p) = issued - 1
  /\ entry.exp < issued
  /\ \A m \in Clients : token[m] < issued
  /\ \A q \in Passes : At(q, "store") => q = p

\* What a pass has read from its store was not newer than what is saved now.
ReadInv == \A p \in Passes : pass[p].at \in {"rotate", "upload"} => pass[p].mem <= Saved(p)

\* What is adopted is newer than what is saved, and nobody is about to change that.
Adopting(p) == pass[p].at \in {"download", "adopt"}
AdoptInv == \A p \in Passes : Adopting(p) =>
  /\ Saved(p) < (IF At(p, "adopt") THEN pass[p].mem ELSE pass[p].listed)
  /\ At(p, "adopt") => pass[p].mem <= entry.exp
  /\ \A q \in Passes : At(q, "store") => MachineOf[q] # MachineOf[p]

\* The upload of a refresh is ahead of the registry and of all other machines.
Refreshed(p) == IF At(p, "export") THEN Saved(p) ELSE pass[p].mem
AheadInv == \A p \in Passes : pass[p].at \in {"export", "upload"} /\ pass[p].lid # 0 =>
  /\ entry.exp < Refreshed(p)
  /\ \A m \in Clients : m # MachineOf[p] => token[m] < Refreshed(p)

Chain == Links /\ Fresh /\ ReadInv /\ AdoptInv /\ AheadInv
ChainIInv == TypeOK /\ LocalInv /\ (~relogin => Chain)

-----------------------------------------------------------------------------

\* The local variables of a pass.
Labels == {"idle", "list", "compare", "download", "adopt", "decide", "read",
           "rotate", "store", "export", "upload", "release"}
Locals == [at : Labels, seen : Lasts, listed : 0..MaxExp, mem : 0..MaxExp, lid : 0..MaxLeases]

\* The type invariant, the local variables apart.
RestOK ==
  /\ entry \in [exp : 0..MaxExp, version : Nat]
  /\ lease \in [client : Clients \cup {NoClient}, id : 0..MaxLeases]
  /\ lastLease \in 0..MaxLeases
  /\ token \in [Clients -> Exps] /\ last \in [Clients -> Lasts]
  /\ issued \in Exps /\ live \subseteq 1..issued
  /\ budget \in [{"day", "event"} -> Nat]
LEMMA TypeSplit == TypeOK <=> RestOK /\ pass \in [Passes -> Locals]
BY DEF TypeOK, RestOK, Locals, Labels

\* What is kept of the local variables at a label.
LEMMA NeededIs ==
  ASSUME NEW l \in Locals
  PROVE  /\ Needed(l) \in Locals
         /\ Needed(l).at = l.at
         /\ l.at = "idle" => Needed(l) = Idle
         /\ l.at = "release" => Needed(l).lid = l.lid /\ Needed(l).listed = 0
         /\ l.at \notin {"idle", "release"} => Needed(l) = l
<1>1. Idle \in Locals /\ Idle.at = "idle"
  BY RegistryApiAssumption DEF Idle, Locals, Lasts, Labels
<1>2. CASE l.at = "idle"
  BY <1>1, <1>2 DEF Needed
<1>3. CASE l.at = "release"
  <2>1. Needed(l) = [Idle EXCEPT !.at = "release", !.lid = l.lid]
    BY <1>3 DEF Needed
  <2>2. Needed(l) = [at |-> "release", seen |-> "recent", listed |-> 0, mem |-> 0, lid |-> l.lid]
    BY <2>1 DEF Idle
  <2> QED
    BY <1>3, <2>2, RegistryApiAssumption DEF Locals, Lasts, Labels
<1>4. CASE l.at \notin {"idle", "release"}
  BY <1>4 DEF Needed
<1> QED
  BY <1>2, <1>3, <1>4

\* Pass p goes to a label with these local variables; the other passes stay.
Moved(p, at, seen, listed, mem, lid) ==
  /\ pass' \in [Passes -> Locals]
  /\ \A q \in Passes : q # p => pass'[q] = pass[q]
  /\ pass'[p].at = at
  /\ at \notin {"idle", "release"} =>
       /\ pass'[p].seen = seen /\ pass'[p].listed = listed
       /\ pass'[p].mem = mem /\ pass'[p].lid = lid
  /\ at = "release" => pass'[p].listed = 0 /\ pass'[p].lid = lid
  /\ at = "idle" => pass'[p] = Idle

\* Pass p goes on to a label with the local variables it has.
Kept(p, to) == Moved(p, to, pass[p].seen, pass[p].listed, pass[p].mem, pass[p].lid)

\* Become and Goto, field by field.
LEMMA BecomeIs ==
  ASSUME pass \in [Passes -> Locals], NEW p \in Passes, NEW l \in Locals, Become(p, l)
  PROVE  Moved(p, l.at, l.seen, l.listed, l.mem, l.lid)
BY NeededIs DEF Become, Moved

LEMMA GotoIs ==
  ASSUME pass \in [Passes -> Locals], NEW p \in Passes, NEW to \in Labels, Goto(p, to)
  PROVE  Kept(p, to)
<1> DEFINE l == [pass[p] EXCEPT !.at = to]
<1>1. /\ l \in Locals /\ l.at = to /\ l.seen = pass[p].seen /\ l.listed = pass[p].listed
      /\ l.mem = pass[p].mem /\ l.lid = pass[p].lid
  BY DEF Locals
<1>2. Become(p, l)
  BY DEF Goto
<1> HIDE DEF l
<1> QED
  BY <1>1, <1>2, BecomeIs DEF Kept

\* A lease request is granted, denied, or has no route.
Acquires(p) ==
  \/ route /\ Acquire(MachineOf[p]) /\ Moved(p, "read", pass[p].seen, 0, pass[p].mem, lease'.id)
  \/ route /\ UNCHANGED apiVars /\ Kept(p, "idle")
  \/ ~route /\ UNCHANGED apiVars /\ Moved(p, "read", pass[p].seen, 0, pass[p].mem, pass[p].lid)

\* A request that gets lost ends the pass, the adoption, or the use of the lease.
Loses(p) ==
  \/ (pass[p].at \in {"list", "release", "decide"}) /\ Kept(p, "idle")
  \/ At(p, "download") /\ Kept(p, "decide")
  \/ At(p, "upload") /\ Kept(p, AfterUpload(p))
  \/ At(p, "rotate") /\ Kept(p, AfterRefresh(p))

\* Where each operation takes its pass.
LEMMA Moves ==
  ASSUME RestOK, pass \in [Passes -> Locals], NEW p \in Passes
  PROVE
    /\ AcquireLease(p) => Acquires(p)
    /\ Decide(p) => Kept(p, "export") \/ Kept(p, "idle")
    /\ RequestLost(p) => Loses(p)
    /\ Compare(p) => Kept(p, IF pass[p].listed > Saved(p) THEN "download" ELSE "decide")
    /\ Adopt(p) => Kept(p, "idle")
    /\ Sweep(p) => Kept(p, "read")
    /\ RotateFails(p) => Kept(p, AfterRefresh(p))
    /\ RotationLost(p) => Kept(p, AfterRefresh(p))
    /\ Store(p) => Kept(p, IF p \in Sweepers THEN "idle" ELSE "export")
    /\ Upload(p) => Kept(p, AfterUpload(p))
    /\ Release(p) => Kept(p, "idle")
    /\ GrantLost(p) => Kept(p, "idle")
    /\ Crash(p) => Kept(p, "idle")
    /\ Begin(p) => Moved(p, "list", last[MachineOf[p]], 0, 0, 0)
    /\ List(p) => Moved(p, "compare", pass[p].seen, entry.exp, pass[p].mem, pass[p].lid)
    /\ Download(p) => Moved(p, "adopt", pass[p].seen, pass[p].listed, entry.exp, pass[p].lid)
    /\ ReadToken(p) => Moved(p, "rotate", pass[p].seen, pass[p].listed, Saved(p), pass[p].lid)
    /\ Rotate(p) => Moved(p, "store", pass[p].seen, pass[p].listed, issued', pass[p].lid)
    /\ Export(p) => Moved(p, "upload", pass[p].seen, pass[p].listed, Saved(p), pass[p].lid)
<1> USE RegistryApiAssumption, RegistrySyncAssumption, GotoIs DEF Labels, Due
<1>a. /\ MachineOf[p] \in Clients /\ last[MachineOf[p]] \in Lasts
      /\ Saved(p) \in 0..MaxExp /\ entry.exp \in 0..MaxExp /\ pass[p] \in Locals
      /\ 0 \in 0..MaxExp /\ 0 \in 0..MaxLeases
  BY DEF RestOK, Saved, Exps
<1>1. Compare(p) => Kept(p, IF pass[p].listed > Saved(p) THEN "download" ELSE "decide")
  BY DEF Compare
<1>2. Adopt(p) => Kept(p, "idle")
  BY DEF Adopt
<1>3. Sweep(p) => Kept(p, "read")
  BY DEF Sweep
<1>4. RotateFails(p) => Kept(p, AfterRefresh(p))
  BY DEF RotateFails, AfterRefresh
<1>5. RotationLost(p) => Kept(p, AfterRefresh(p))
  BY DEF RotationLost, AfterRefresh
<1>6. Store(p) => Kept(p, IF p \in Sweepers THEN "idle" ELSE "export")
  BY DEF Store
<1>7. Upload(p) => Kept(p, AfterUpload(p))
  BY DEF Upload, AfterUpload
<1>8. Release(p) => Kept(p, "idle")
  BY DEF Release
<1>9. GrantLost(p) => Kept(p, "idle")
  BY DEF GrantLost
<1>10. Crash(p) => Kept(p, "idle")
  BY DEF Crash
<1>11. Begin(p) => Moved(p, "list", last[MachineOf[p]], 0, 0, 0)
  <2> DEFINE l == [Idle EXCEPT !.at = "list", !.seen = last[MachineOf[p]]]
  <2>1. l \in Locals /\ l.at = "list" /\ l.seen = last[MachineOf[p]] /\ l.listed = 0
        /\ l.mem = 0 /\ l.lid = 0
    <3>1. Idle \in Locals /\ Idle.listed = 0 /\ Idle.mem = 0 /\ Idle.lid = 0
      BY <1>a DEF Locals, Idle, Lasts
    <3> QED
      BY <1>a, <3>1 DEF Locals
  <2>2. Begin(p) => Become(p, l)
    BY DEF Begin
  <2> HIDE DEF l
  <2> QED
    BY <2>1, <2>2, BecomeIs
<1>12. List(p) => Moved(p, "compare", pass[p].seen, entry.exp, pass[p].mem, pass[p].lid)
  <2> DEFINE l == [pass[p] EXCEPT !.at = "compare", !.listed = entry.exp]
  <2>1. l \in Locals /\ l.at = "compare" /\ l.seen = pass[p].seen /\ l.listed = entry.exp
        /\ l.mem = pass[p].mem /\ l.lid = pass[p].lid
    BY <1>a DEF Locals
  <2>2. List(p) => Become(p, l)
    BY DEF List
  <2> HIDE DEF l
  <2> QED
    BY <2>1, <2>2, BecomeIs
<1>13. Download(p) => Moved(p, "adopt", pass[p].seen, pass[p].listed, entry.exp, pass[p].lid)
  <2> DEFINE l == [pass[p] EXCEPT !.at = "adopt", !.mem = entry.exp]
  <2>1. l \in Locals /\ l.at = "adopt" /\ l.seen = pass[p].seen /\ l.listed = pass[p].listed
        /\ l.mem = entry.exp /\ l.lid = pass[p].lid
    BY <1>a DEF Locals
  <2>2. Download(p) => Become(p, l)
    BY DEF Download
  <2> HIDE DEF l
  <2> QED
    BY <2>1, <2>2, BecomeIs
<1>14. ReadToken(p) => Moved(p, "rotate", pass[p].seen, pass[p].listed, Saved(p), pass[p].lid)
  <2> DEFINE l == [pass[p] EXCEPT !.at = "rotate", !.mem = Saved(p)]
  <2>1. l \in Locals /\ l.at = "rotate" /\ l.seen = pass[p].seen /\ l.listed = pass[p].listed
        /\ l.mem = Saved(p) /\ l.lid = pass[p].lid
    BY <1>a DEF Locals
  <2>2. ReadToken(p) => Become(p, l)
    BY DEF ReadToken
  <2> HIDE DEF l
  <2> QED
    BY <2>1, <2>2, BecomeIs
<1>15. Export(p) => Moved(p, "upload", pass[p].seen, pass[p].listed, Saved(p), pass[p].lid)
  <2> DEFINE l == [pass[p] EXCEPT !.at = "upload", !.mem = Saved(p)]
  <2>1. l \in Locals /\ l.at = "upload" /\ l.seen = pass[p].seen /\ l.listed = pass[p].listed
        /\ l.mem = Saved(p) /\ l.lid = pass[p].lid
    BY <1>a DEF Locals
  <2>2. Export(p) => Become(p, l)
    BY DEF Export
  <2> HIDE DEF l
  <2> QED
    BY <2>1, <2>2, BecomeIs
<1>19. Rotate(p) => Moved(p, "store", pass[p].seen, pass[p].listed, issued', pass[p].lid)
  <2> SUFFICES ASSUME Rotate(p)
               PROVE  Moved(p, "store", pass[p].seen, pass[p].listed, issued', pass[p].lid)
    OBVIOUS
  <2> DEFINE l == [pass[p] EXCEPT !.at = "store", !.mem = issued']
  <2>0. issued' \in 0..MaxExp
    BY DEF Rotate, Rotates, RestOK, Exps
  <2>1. l \in Locals /\ l.at = "store" /\ l.seen = pass[p].seen /\ l.listed = pass[p].listed
        /\ l.mem = issued' /\ l.lid = pass[p].lid
    BY <1>a, <2>0 DEF Locals
  <2>2. Become(p, l)
    BY DEF Rotate
  <2> HIDE DEF l
  <2> QED
    BY <2>1, <2>2, BecomeIs
<1>16. ASSUME AcquireLease(p) PROVE Acquires(p)
  <2>1. pass[p].lid \in 0..MaxLeases
    BY <1>a DEF Locals
  <2>2. ASSUME Acquire(MachineOf[p]) PROVE lease'.id \in 0..MaxLeases
    BY <2>2 DEF Acquire, RestOK
  <2>3. ASSUME NEW i \in 0..MaxLeases,
               Become(p, [pass[p] EXCEPT !.at = "read", !.listed = 0, !.lid = i])
        PROVE  Moved(p, "read", pass[p].seen, 0, pass[p].mem, i)
    <3> DEFINE l == [pass[p] EXCEPT !.at = "read", !.listed = 0, !.lid = i]
    <3>1. l \in Locals /\ l.at = "read" /\ l.seen = pass[p].seen /\ l.listed = 0
          /\ l.mem = pass[p].mem /\ l.lid = i
      BY <1>a DEF Locals
    <3>2. Become(p, l)
      BY <2>3
    <3> HIDE DEF l
    <3> QED
      BY <3>1, <3>2, BecomeIs
  <2>4. ASSUME Become(p, [pass[p] EXCEPT !.at = "read", !.listed = 0])
        PROVE  Moved(p, "read", pass[p].seen, 0, pass[p].mem, pass[p].lid)
    <3> DEFINE l == [pass[p] EXCEPT !.at = "read", !.listed = 0]
    <3>1. l \in Locals /\ l.at = "read" /\ l.seen = pass[p].seen /\ l.listed = 0
          /\ l.mem = pass[p].mem /\ l.lid = pass[p].lid
      BY <1>a DEF Locals
    <3>2. Become(p, l)
      BY <2>4
    <3> HIDE DEF l
    <3> QED
      BY <3>1, <3>2, BecomeIs
  <2> QED
    BY <1>16, <2>2, <2>3, <2>4 DEF AcquireLease, Acquires
<1>17. Decide(p) => Kept(p, "export") \/ Kept(p, "idle")
  BY DEF Decide
<1>18. RequestLost(p) => Loses(p)
  BY DEF RequestLost, Loses, AfterRefresh, AfterUpload, Acquiring, At
<1> QED
  BY <1>1, <1>2, <1>3, <1>4, <1>5, <1>6, <1>7, <1>8, <1>9, <1>10, <1>11, <1>12, <1>13, <1>14, <1>15, <1>16, <1>17, <1>18, <1>19

\* The local variables keep their types.
LEMMA PassStep ==
  RestOK /\ pass \in [Passes -> Locals] /\ [Next]_vars => pass' \in [Passes -> Locals]
<1> SUFFICES ASSUME RestOK, pass \in [Passes -> Locals], [Next]_vars
             PROVE  pass' \in [Passes -> Locals]
  OBVIOUS
<1>1. ASSUME NEW p \in Passes, Step(p) PROVE pass' \in [Passes -> Locals]
  <2>1. CASE Begin(p)
    BY <2>1, Moves DEF Moved, Kept, Acquires, Loses
  <2>2. CASE List(p)
    BY <2>2, Moves DEF Moved, Kept, Acquires, Loses
  <2>3. CASE Compare(p)
    BY <2>3, Moves DEF Moved, Kept, Acquires, Loses
  <2>4. CASE Download(p)
    BY <2>4, Moves DEF Moved, Kept, Acquires, Loses
  <2>5. CASE Adopt(p)
    BY <2>5, Moves DEF Moved, Kept, Acquires, Loses
  <2>6. CASE Decide(p)
    BY <2>6, Moves DEF Moved, Kept, Acquires, Loses
  <2>7. CASE AcquireLease(p)
    BY <2>7, Moves DEF Moved, Kept, Acquires, Loses
  <2>8. CASE Sweep(p)
    BY <2>8, Moves DEF Moved, Kept, Acquires, Loses
  <2>9. CASE ReadToken(p)
    BY <2>9, Moves DEF Moved, Kept, Acquires, Loses
  <2>10. CASE Rotate(p)
    BY <2>10, Moves DEF Moved, Kept, Acquires, Loses
  <2>11. CASE RotateFails(p)
    BY <2>11, Moves DEF Moved, Kept, Acquires, Loses
  <2>12. CASE Store(p)
    BY <2>12, Moves DEF Moved, Kept, Acquires, Loses
  <2>13. CASE Export(p)
    BY <2>13, Moves DEF Moved, Kept, Acquires, Loses
  <2>14. CASE Upload(p)
    BY <2>14, Moves DEF Moved, Kept, Acquires, Loses
  <2>15. CASE Release(p)
    BY <2>15, Moves DEF Moved, Kept, Acquires, Loses
  <2> QED
    BY <1>1, <2>1, <2>2, <2>3, <2>4, <2>5, <2>6, <2>7, <2>8, <2>9, <2>10, <2>11, <2>12, <2>13, <2>14, <2>15 DEF Step
<1>2. ASSUME NEW p \in Passes, RequestLost(p) PROVE pass' \in [Passes -> Locals]
  BY <1>2, Moves DEF Moved, Kept, Acquires, Loses
<1>3. ASSUME NEW p \in Passes, GrantLost(p) PROVE pass' \in [Passes -> Locals]
  BY <1>3, Moves DEF Moved, Kept, Acquires, Loses
<1>4. ASSUME NEW p \in Passes, RotationLost(p) PROVE pass' \in [Passes -> Locals]
  BY <1>4, Moves DEF Moved, Kept, Acquires, Loses
<1>5. ASSUME NEW p \in Passes, Crash(p) PROVE pass' \in [Passes -> Locals]
  BY <1>5, Moves DEF Moved, Kept, Acquires, Loses
<1>6. ASSUME NEW m \in Clients, Login(m) PROVE pass' \in [Passes -> Locals]
  BY <1>6 DEF Login
<1>7. CASE NextDay
  BY <1>7 DEF NextDay
<1>8. CASE LeaseEnds
  BY <1>8 DEF LeaseEnds
<1>9. CASE UNCHANGED vars
  BY <1>9 DEF vars
<1> QED
  BY <1>1, <1>2, <1>3, <1>4, <1>5, <1>6, <1>7, <1>8, <1>9 DEF Next

\* What the provider issues is the next token.
LEMMA RotatesIs ==
  ASSUME RestOK, NEW t, Rotates(t)
  PROVE  issued' = issued + 1 /\ issued' \in Exps /\ live' \subseteq 1..issued'
BY RegistryApiAssumption DEF RestOK, Rotates, Exps

\* All the other variables keep theirs.
LEMMA RestStep ==
  RestOK /\ pass \in [Passes -> Locals] /\ LocalInv /\ [Next]_vars => RestOK'
<1> SUFFICES ASSUME RestOK, pass \in [Passes -> Locals], LocalInv, [Next]_vars PROVE RestOK'
  OBVIOUS
<1> USE RegistryApiAssumption, RegistrySyncAssumption
    DEF RestOK, Lasts, At, SetToken, SetLast, apiVars, localVars, oauthVars, envVars
<1>1. ASSUME NEW p \in Passes, Step(p) PROVE RestOK'
  <2>1. CASE Begin(p)
    BY <2>1 DEF Begin
  <2>2. CASE List(p)
    BY <2>2 DEF List
  <2>3. CASE Compare(p)
    BY <2>3 DEF Compare
  <2>4. CASE Download(p)
    BY <2>4 DEF Download
  <2>5. CASE Adopt(p)
    <3>1. pass[p].mem \in Exps /\ MachineOf[p] \in Clients
      BY <2>5 DEF LocalInv, Locals, Exps, Adopt
    <3> QED
      BY <2>5, <3>1 DEF Adopt
  <2>6. CASE Decide(p)
    BY <2>6 DEF Decide
  <2>7. CASE AcquireLease(p)
    BY <2>7 DEF AcquireLease, Acquiring, Acquire, Grantable
  <2>8. CASE Sweep(p)
    BY <2>8 DEF Sweep
  <2>9. CASE ReadToken(p)
    BY <2>9 DEF ReadToken
  <2>10. CASE Rotate(p)
    BY <2>10, RotatesIs DEF Rotate
  <2>11. CASE RotateFails(p)
    BY <2>11 DEF RotateFails, AfterRefresh
  <2>12. CASE Store(p)
    <3>1. pass[p].mem \in Exps /\ MachineOf[p] \in Clients
      BY <2>12 DEF LocalInv, Locals, Exps, Store
    <3> QED
      BY <2>12, <3>1 DEF Store
  <2>13. CASE Export(p)
    BY <2>13 DEF Export
  <2>14. CASE Upload(p)
    <3>1. pass[p].mem \in Exps
      BY <2>14 DEF LocalInv, Locals, Exps, Upload
    <3>2. entry' \in [exp : 0..MaxExp, version : Nat]
      <4>1. entry' = entry \/ entry' = [exp |-> pass[p].mem, version |-> entry.version + 1]
        BY <2>14 DEF Upload, PutAccepted
      <4> QED
        BY <3>1, <4>1 DEF Exps
    <3>3. lease' \in {lease, NoLease} /\ lastLease' = lastLease
      BY <2>14 DEF Upload, PutAccepted
    <3> QED
      BY <2>14, <3>2, <3>3 DEF Upload, NoLease
  <2>15. CASE Release(p)
    <3>1. lease' \in {lease, NoLease} /\ entry' = entry /\ lastLease' = lastLease
      BY <2>15 DEF Release, ReleaseLease
    <3> QED
      BY <2>15, <3>1 DEF Release, NoLease
  <2> QED
    BY <1>1, <2>1, <2>2, <2>3, <2>4, <2>5, <2>6, <2>7, <2>8, <2>9, <2>10, <2>11, <2>12, <2>13, <2>14, <2>15 DEF Step
<1>2. ASSUME NEW p \in Passes, RequestLost(p) PROVE RestOK'
  BY <1>2 DEF RequestLost, Spend, AfterRefresh, AfterUpload, Acquiring
<1>3. ASSUME NEW p \in Passes, GrantLost(p) PROVE RestOK'
  BY <1>3 DEF GrantLost, Spend, Acquiring, Acquire, Grantable
<1>4. ASSUME NEW p \in Passes, RotationLost(p) PROVE RestOK'
  BY <1>4, RotatesIs DEF RotationLost, Spend
<1>5. ASSUME NEW p \in Passes, Crash(p) PROVE RestOK'
  BY <1>5 DEF Crash, Spend
<1>6. ASSUME NEW m \in Clients, Login(m) PROVE RestOK'
  <2>1. issued' \in Exps /\ live' \subseteq 1..issued'
    BY <1>6 DEF Login, Exps
  <2> QED
    BY <1>6, <2>1 DEF Login, Spend
<1>7. CASE NextDay
  BY <1>7 DEF NextDay, Spend
<1>8. CASE LeaseEnds
  <2>1. lease' = NoLease /\ entry' = entry /\ lastLease' = lastLease
    BY <1>8 DEF LeaseEnds, ExpireLease
  <2> QED
    BY <1>8, <2>1 DEF LeaseEnds, Spend, NoLease
<1>9. CASE UNCHANGED vars
  BY <1>9 DEF vars
<1> QED
  BY <1>1, <1>2, <1>3, <1>4, <1>5, <1>6, <1>7, <1>8, <1>9 DEF Next

\* What the local variables hold when they are going to be used is kept.
LEMMA LocalStep ==
  RestOK /\ pass \in [Passes -> Locals] /\ LocalInv /\ [Next]_vars => LocalInv'
<1> SUFFICES ASSUME RestOK, pass \in [Passes -> Locals], LocalInv, [Next]_vars PROVE LocalInv'
  OBVIOUS
<1> USE RegistryApiAssumption, RegistrySyncAssumption
    DEF RestOK, Locals, LocalInv, At, Saved, SetToken, Idle, Moved, Kept, Acquires, Loses, apiVars
<1>1. ASSUME NEW p \in Passes, Step(p) PROVE LocalInv'
  <2>1. CASE Begin(p)
    <3>1. Moved(p, "list", last[MachineOf[p]], 0, 0, 0)
      BY <2>1, Moves
    <3> QED
      BY <2>1, <3>1 DEF Begin
  <2>2. CASE List(p)
    <3>1. Moved(p, "compare", pass[p].seen, entry.exp, pass[p].mem, pass[p].lid)
      BY <2>2, Moves
    <3> QED
      BY <2>2, <3>1 DEF List
  <2>3. CASE Compare(p)
    <3>1. Kept(p, IF pass[p].listed > Saved(p) THEN "download" ELSE "decide")
      BY <2>3, Moves
    <3>2. ASSUME pass[p].listed > Saved(p) PROVE LocalInv'
      <4>1. pass[p].listed > 0 /\ pass'[p].at = "download" /\ pass'[p].listed = pass[p].listed
        BY <3>1, <3>2 DEF Exps
      <4> QED
        BY <2>3, <3>1, <3>2, <4>1 DEF Compare
    <3>3. CASE ~(pass[p].listed > Saved(p))
      BY <2>3, <3>1, <3>3 DEF Compare
    <3> QED
      BY <3>2, <3>3
  <2>4. CASE Download(p)
    <3>1. Moved(p, "adopt", pass[p].seen, pass[p].listed, entry.exp, pass[p].lid)
      BY <2>4, Moves
    <3> QED
      BY <2>4, <3>1 DEF Download
  <2>5. CASE Adopt(p)
    <3>1. Kept(p, "idle")
      BY <2>5, Moves
    <3> QED
      BY <2>5, <3>1 DEF Adopt
  <2>6. CASE Decide(p)
    <3>1. Kept(p, "export") \/ Kept(p, "idle")
      BY <2>6, Moves
    <3> QED
      BY <2>6, <3>1 DEF Decide
  <2>7. CASE AcquireLease(p)
    <3>1. Acquires(p)
      BY <2>7, Moves
    <3> QED
      BY <2>7, <3>1 DEF AcquireLease, Acquiring, Acquire, Grantable
  <2>8. CASE Sweep(p)
    <3>1. Kept(p, "read")
      BY <2>8, Moves
    <3> QED
      BY <2>8, <3>1, ZenonT(30) DEF Sweep
  <2>9. CASE ReadToken(p)
    <3>1. Moved(p, "rotate", pass[p].seen, pass[p].listed, Saved(p), pass[p].lid)
      BY <2>9, Moves
    <3>2. Saved(p) > 0
      BY DEF Exps
    <3> HIDE DEF Saved
    <3> QED
      BY <2>9, <3>1, <3>2 DEF ReadToken
  <2>10. CASE Rotate(p)
    <3>1. Moved(p, "store", pass[p].seen, pass[p].listed, issued', pass[p].lid)
      BY <2>10, Moves
    <3>2. issued' > 0
      BY <2>10, RotatesIs DEF Rotate, Exps
    <3> QED
      BY <2>10, <3>1, <3>2 DEF Rotate
  <2>11. CASE RotateFails(p)
    <3>1. Kept(p, AfterRefresh(p))
      BY <2>11, Moves
    <3> QED
      BY <2>11, <3>1 DEF RotateFails, AfterRefresh
  <2>12. CASE Store(p)
    <3>1. Kept(p, IF p \in Sweepers THEN "idle" ELSE "export")
      BY <2>12, Moves
    <3> QED
      BY <2>12, <3>1 DEF Store
  <2>13. CASE Export(p)
    <3>1. Moved(p, "upload", pass[p].seen, pass[p].listed, Saved(p), pass[p].lid)
      BY <2>13, Moves
    <3>2. Saved(p) > 0
      BY DEF Exps
    <3> HIDE DEF Saved
    <3> QED
      BY <2>13, <3>1, <3>2 DEF Export
  <2>14. CASE Upload(p)
    <3>1. Kept(p, AfterUpload(p))
      BY <2>14, Moves
    <3> QED
      BY <2>14, <3>1, SMTT(30) DEF Upload, AfterUpload, PutAccepted, PutRejected, LeaseOk
  <2>15. CASE Release(p)
    <3>1. Kept(p, "idle")
      BY <2>15, Moves
    <3> QED
      BY <2>15, <3>1 DEF Release, ReleaseLease
  <2> QED
    BY <1>1, <2>1, <2>2, <2>3, <2>4, <2>5, <2>6, <2>7, <2>8, <2>9, <2>10, <2>11, <2>12, <2>13, <2>14, <2>15 DEF Step
<1>2. ASSUME NEW p \in Passes, RequestLost(p) PROVE LocalInv'
  <2>1. Loses(p)
    BY <1>2, Moves
  <2> QED
    BY <1>2, <2>1 DEF RequestLost, Spend, AfterRefresh, AfterUpload, Acquiring
<1>3. ASSUME NEW p \in Passes, GrantLost(p) PROVE LocalInv'
  <2>1. Kept(p, "idle")
    BY <1>3, Moves
  <2> QED
    BY <1>3, <2>1 DEF GrantLost, Spend, Acquiring, Acquire, Grantable
<1>4. ASSUME NEW p \in Passes, RotationLost(p) PROVE LocalInv'
  <2>1. Kept(p, AfterRefresh(p))
    BY <1>4, Moves
  <2> QED
    BY <1>4, <2>1 DEF RotationLost, Spend, Rotates, AfterRefresh
<1>5. ASSUME NEW p \in Passes, Crash(p) PROVE LocalInv'
  <2>1. Kept(p, "idle")
    BY <1>5, Moves
  <2> QED
    BY <1>5, <2>1 DEF Crash, Spend
<1>6. ASSUME NEW m \in Clients, Login(m) PROVE LocalInv'
  BY <1>6 DEF Login, Spend
<1>7. CASE NextDay
  BY <1>7 DEF NextDay, Spend
<1>8. CASE LeaseEnds
  BY <1>8 DEF LeaseEnds, ExpireLease, Spend
<1>9. CASE UNCHANGED vars
  BY <1>9 DEF vars
<1> QED
  BY <1>1, <1>2, <1>3, <1>4, <1>5, <1>6, <1>7, <1>8, <1>9 DEF Next

\* Lease ids stay with the machine they were given to.
LEMMA IdsStep ==
  RestOK /\ pass \in [Passes -> Locals] /\ LocalInv /\ IdsInv /\ [Next]_vars => IdsInv'
<1> SUFFICES ASSUME RestOK, pass \in [Passes -> Locals], LocalInv, IdsInv, [Next]_vars PROVE IdsInv'
  OBVIOUS
<1> USE RegistryApiAssumption, RegistrySyncAssumption
    DEF RestOK, Locals, LocalInv, IdsInv, At, NoLease, Idle, Moved, Kept, Acquires, Loses, apiVars
<1>1. ASSUME NEW p \in Passes, Step(p) PROVE IdsInv'
  <2>1. CASE Begin(p)
    <3>1. Moved(p, "list", last[MachineOf[p]], 0, 0, 0)
      BY <2>1, Moves
    <3> QED
      BY <2>1, <3>1 DEF Begin
  <2>2. CASE List(p)
    <3>1. Moved(p, "compare", pass[p].seen, entry.exp, pass[p].mem, pass[p].lid)
      BY <2>2, Moves
    <3> QED
      BY <2>2, <3>1 DEF List
  <2>3. CASE Compare(p)
    <3>1. Kept(p, IF pass[p].listed > Saved(p) THEN "download" ELSE "decide")
      BY <2>3, Moves
    <3> QED
      BY <2>3, <3>1 DEF Compare
  <2>4. CASE Download(p)
    <3>1. Moved(p, "adopt", pass[p].seen, pass[p].listed, entry.exp, pass[p].lid)
      BY <2>4, Moves
    <3> QED
      BY <2>4, <3>1 DEF Download
  <2>5. CASE Adopt(p)
    <3>1. Kept(p, "idle")
      BY <2>5, Moves
    <3> QED
      BY <2>5, <3>1 DEF Adopt
  <2>6. CASE Decide(p)
    <3>1. Kept(p, "export") \/ Kept(p, "idle")
      BY <2>6, Moves
    <3> QED
      BY <2>6, <3>1 DEF Decide
  <2>7. CASE AcquireLease(p)
    <3>1. Acquires(p)
      BY <2>7, Moves
    <3> QED
      BY <2>7, <3>1 DEF AcquireLease, Acquiring, Acquire, Grantable
  <2>8. CASE Sweep(p)
    <3>1. Kept(p, "read")
      BY <2>8, Moves
    <3> QED
      BY <2>8, <3>1 DEF Sweep
  <2>9. CASE ReadToken(p)
    <3>1. Moved(p, "rotate", pass[p].seen, pass[p].listed, Saved(p), pass[p].lid)
      BY <2>9, Moves
    <3> QED
      BY <2>9, <3>1 DEF ReadToken
  <2>10. CASE Rotate(p)
    <3>1. Moved(p, "store", pass[p].seen, pass[p].listed, issued', pass[p].lid)
      BY <2>10, Moves
    <3> QED
      BY <2>10, <3>1 DEF Rotate, Rotates
  <2>11. CASE RotateFails(p)
    <3>1. Kept(p, AfterRefresh(p))
      BY <2>11, Moves
    <3> QED
      BY <2>11, <3>1 DEF RotateFails, AfterRefresh
  <2>12. CASE Store(p)
    <3>1. Kept(p, IF p \in Sweepers THEN "idle" ELSE "export")
      BY <2>12, Moves
    <3> QED
      BY <2>12, <3>1 DEF Store
  <2>13. CASE Export(p)
    <3>1. Moved(p, "upload", pass[p].seen, pass[p].listed, Saved(p), pass[p].lid)
      BY <2>13, Moves
    <3> QED
      BY <2>13, <3>1 DEF Export
  <2>14. CASE Upload(p)
    <3>1. Kept(p, AfterUpload(p))
      BY <2>14, Moves
    <3> QED
      BY <2>14, <3>1 DEF Upload, AfterUpload, PutAccepted, PutRejected, LeaseOk
  <2>15. CASE Release(p)
    <3>1. Kept(p, "idle")
      BY <2>15, Moves
    <3> QED
      BY <2>15, <3>1 DEF Release, ReleaseLease
  <2> QED
    BY <1>1, <2>1, <2>2, <2>3, <2>4, <2>5, <2>6, <2>7, <2>8, <2>9, <2>10, <2>11, <2>12, <2>13, <2>14, <2>15 DEF Step
<1>2. ASSUME NEW p \in Passes, RequestLost(p) PROVE IdsInv'
  <2>1. Loses(p)
    BY <1>2, Moves
  <2> QED
    BY <1>2, <2>1 DEF RequestLost, Spend, AfterRefresh, AfterUpload, Acquiring
<1>3. ASSUME NEW p \in Passes, GrantLost(p) PROVE IdsInv'
  <2>1. Kept(p, "idle")
    BY <1>3, Moves
  <2> QED
    BY <1>3, <2>1 DEF GrantLost, Spend, Acquiring, Acquire, Grantable
<1>4. ASSUME NEW p \in Passes, RotationLost(p) PROVE IdsInv'
  <2>1. Kept(p, AfterRefresh(p))
    BY <1>4, Moves
  <2> QED
    BY <1>4, <2>1 DEF RotationLost, Spend, Rotates, AfterRefresh
<1>5. ASSUME NEW p \in Passes, Crash(p) PROVE IdsInv'
  <2>1. Kept(p, "idle")
    BY <1>5, Moves
  <2> QED
    BY <1>5, <2>1 DEF Crash, Spend
<1>6. ASSUME NEW m \in Clients, Login(m) PROVE IdsInv'
  BY <1>6 DEF Login, Spend
<1>7. CASE NextDay
  BY <1>7 DEF NextDay, Spend
<1>8. CASE LeaseEnds
  BY <1>8 DEF LeaseEnds, ExpireLease, Spend
<1>9. CASE UNCHANGED vars
  BY <1>9 DEF vars
<1> QED
  BY <1>1, <1>2, <1>3, <1>4, <1>5, <1>6, <1>7, <1>8, <1>9 DEF Next

\* A pass that refreshes keeps its lease, whatever the others do, unless its term
\* ends.
LEMMA HoldsStep ==
  ASSUME OnePerMachine
  PROVE  RestOK /\ pass \in [Passes -> Locals] /\ LocalInv /\ IdsInv /\ HoldsLease /\ [Next]_vars
           => HoldsLease'
<1> SUFFICES ASSUME RestOK, pass \in [Passes -> Locals], LocalInv, IdsInv, HoldsLease, [Next]_vars
             PROVE  HoldsLease'
  OBVIOUS
<1> USE RegistryApiAssumption, RegistrySyncAssumption
    DEF OnePerMachine, RestOK, Locals, LocalInv, IdsInv, HoldsLease, Leased, At, NoLease, Idle,
        Moved, Kept, Acquires, Loses, apiVars, envVars
<1>1. ASSUME NEW p \in Passes, Step(p) PROVE HoldsLease'
  <2>1. CASE Begin(p)
    <3>1. Moved(p, "list", last[MachineOf[p]], 0, 0, 0)
      BY <2>1, Moves
    <3> QED
      BY <2>1, <3>1 DEF Begin
  <2>2. CASE List(p)
    <3>1. Moved(p, "compare", pass[p].seen, entry.exp, pass[p].mem, pass[p].lid)
      BY <2>2, Moves
    <3> QED
      BY <2>2, <3>1 DEF List
  <2>3. CASE Compare(p)
    <3>1. Kept(p, IF pass[p].listed > Saved(p) THEN "download" ELSE "decide")
      BY <2>3, Moves
    <3> QED
      BY <2>3, <3>1 DEF Compare
  <2>4. CASE Download(p)
    <3>1. Moved(p, "adopt", pass[p].seen, pass[p].listed, entry.exp, pass[p].lid)
      BY <2>4, Moves
    <3> QED
      BY <2>4, <3>1 DEF Download
  <2>5. CASE Adopt(p)
    <3>1. Kept(p, "idle")
      BY <2>5, Moves
    <3> QED
      BY <2>5, <3>1 DEF Adopt
  <2>6. CASE Decide(p)
    <3>1. Kept(p, "export") \/ Kept(p, "idle")
      BY <2>6, Moves
    <3> QED
      BY <2>6, <3>1 DEF Decide
  <2>7. CASE AcquireLease(p)
    <3>1. Acquires(p)
      BY <2>7, Moves
    <3> QED
      BY <2>7, <3>1 DEF AcquireLease, Acquiring, Acquire, Grantable
  <2>8. CASE Sweep(p)
    <3>1. Kept(p, "read")
      BY <2>8, Moves
    <3> QED
      BY <2>8, <3>1 DEF Sweep
  <2>9. CASE ReadToken(p)
    <3>1. Moved(p, "rotate", pass[p].seen, pass[p].listed, Saved(p), pass[p].lid)
      BY <2>9, Moves
    <3> QED
      BY <2>9, <3>1 DEF ReadToken
  <2>10. CASE Rotate(p)
    <3>1. Moved(p, "store", pass[p].seen, pass[p].listed, issued', pass[p].lid)
      BY <2>10, Moves
    <3> QED
      BY <2>10, <3>1 DEF Rotate, Rotates
  <2>11. CASE RotateFails(p)
    <3>1. Kept(p, AfterRefresh(p))
      BY <2>11, Moves
    <3> QED
      BY <2>11, <3>1 DEF RotateFails, AfterRefresh
  <2>12. CASE Store(p)
    <3>1. Kept(p, IF p \in Sweepers THEN "idle" ELSE "export")
      BY <2>12, Moves
    <3> QED
      BY <2>12, <3>1 DEF Store
  <2>13. CASE Export(p)
    <3>1. Moved(p, "upload", pass[p].seen, pass[p].listed, Saved(p), pass[p].lid)
      BY <2>13, Moves
    <3> QED
      BY <2>13, <3>1 DEF Export
  <2>14. CASE Upload(p)
    <3>1. Kept(p, AfterUpload(p))
      BY <2>14, Moves
    <3> QED
      BY <2>14, <3>1 DEF Upload, AfterUpload, PutAccepted, PutRejected, LeaseOk
  <2>15. CASE Release(p)
    <3>1. Kept(p, "idle")
      BY <2>15, Moves
    <3> QED
      BY <2>15, <3>1 DEF Release, ReleaseLease
  <2> QED
    BY <1>1, <2>1, <2>2, <2>3, <2>4, <2>5, <2>6, <2>7, <2>8, <2>9, <2>10, <2>11, <2>12, <2>13, <2>14, <2>15 DEF Step
<1>2. ASSUME NEW p \in Passes, RequestLost(p) PROVE HoldsLease'
  <2>1. Loses(p)
    BY <1>2, Moves
  <2> QED
    BY <1>2, <2>1 DEF RequestLost, Spend, AfterRefresh, AfterUpload, Acquiring
<1>3. ASSUME NEW p \in Passes, GrantLost(p) PROVE HoldsLease'
  <2>1. Kept(p, "idle")
    BY <1>3, Moves
  <2> QED
    BY <1>3, <2>1 DEF GrantLost, Spend, Acquiring, Acquire, Grantable
<1>4. ASSUME NEW p \in Passes, RotationLost(p) PROVE HoldsLease'
  <2>1. Kept(p, AfterRefresh(p))
    BY <1>4, Moves
  <2> QED
    BY <1>4, <2>1 DEF RotationLost, Spend, Rotates, AfterRefresh
<1>5. ASSUME NEW p \in Passes, Crash(p) PROVE HoldsLease'
  <2>1. Kept(p, "idle")
    BY <1>5, Moves
  <2> QED
    BY <1>5, <2>1 DEF Crash, Spend
<1>6. ASSUME NEW m \in Clients, Login(m) PROVE HoldsLease'
  BY <1>6 DEF Login, Spend
<1>7. CASE NextDay
  BY <1>7 DEF NextDay, Spend
<1>8. CASE LeaseEnds
  BY <1>8 DEF LeaseEnds, ExpireLease, Spend
<1>9. CASE UNCHANGED vars
  BY <1>9 DEF vars
<1> QED
  BY <1>1, <1>2, <1>3, <1>4, <1>5, <1>6, <1>7, <1>8, <1>9 DEF Next

-----------------------------------------------------------------------------

\* Every machine starts with the first token, idle passes and no lease.
LEMMA InitInv == Init => LeaseIInv /\ Chain
<1> SUFFICES ASSUME Init PROVE LeaseIInv /\ Chain
  OBVIOUS
<1> USE RegistryApiAssumption, RegistrySyncAssumption DEF Init, Absent, NoLease
<1>1. pass \in [Passes -> Locals] /\ \A p \in Passes : pass[p] = Idle
  BY DEF Idle, Locals, Labels, Lasts
<1>2. RestOK
  <2>1. budget \in [{"day", "event"} -> Nat]
    OBVIOUS
  <2>2. entry \in [exp : 0..MaxExp, version : Nat]
    OBVIOUS
  <2> QED
    BY <2>1, <2>2 DEF RestOK, Exps, Lasts
<1>3. LocalInv /\ IdsInv /\ HoldsLease
  BY <1>1 DEF LocalInv, IdsInv, HoldsLease, Leased, Idle
<1>4. Chain
  BY <1>1 DEF Chain, Links, Fresh, ReadInv, AdoptInv, AheadInv, Adopting, At, Idle
<1> QED
  BY <1>1, <1>2, <1>3, <1>4, TypeSplit DEF LeaseIInv

\* Type correctness of the machines, the registry and the provider.
THEOREM TypeCorrect == Spec => [](TypeOK /\ LocalInv)
<1>1. Init => TypeOK /\ LocalInv
  BY InitInv DEF LeaseIInv
<1>2. TypeOK /\ LocalInv /\ [Next]_vars => (TypeOK /\ LocalInv)'
  <2>1. RestOK /\ pass \in [Passes -> Locals] /\ LocalInv /\ [Next]_vars =>
          (RestOK /\ pass \in [Passes -> Locals] /\ LocalInv)'
    BY PassStep, RestStep, LocalStep
  <2>2. TypeOK <=> RestOK /\ pass \in [Passes -> Locals]
    BY TypeSplit
  <2>3. TypeOK' <=> RestOK' /\ pass' \in [Passes -> Locals]
    BY DEF TypeOK, RestOK, Locals, Labels
  <2> QED
    BY <2>1, <2>2, <2>3
<1> QED
  BY <1>1, <1>2, PTL DEF Spec

\* While no lease runs out during the refresh it covers, two machines are never
\* both between the grant and the provider's answer: with any number of machines,
\* sweeps, crashed holders, lost grants and lost releases, and one pass per machine.
THEOREM Excludes == ASSUME OnePerMachine PROVE Spec => []LeaseExcludes
<1>1. Init => IdsInv /\ HoldsLease
  BY InitInv DEF LeaseIInv
<1>2. TypeOK /\ LocalInv /\ IdsInv /\ HoldsLease /\ [Next]_vars => (IdsInv /\ HoldsLease)'
  BY TypeSplit, IdsStep, HoldsStep
<1>3. HoldsLease => LeaseExcludes
  BY DEF HoldsLease, LeaseExcludes
<1> QED
  BY <1>1, <1>2, <1>3, TypeCorrect, PTL DEF Spec

-----------------------------------------------------------------------------

\* The registry's entry never gets older: a leased upload is ahead of it.
LEMMA EntryGrows ==
  ASSUME OnePerMachine, RestOK, pass \in [Passes -> Locals], LocalInv, Chain, ~relogin', [Next]_vars
  PROVE  entry'.exp >= entry.exp
<1> USE RegistryApiAssumption, RegistrySyncAssumption
    DEF RestOK, Locals, LocalInv, Chain, AheadInv, Refreshed, At, apiVars, Absent
<1>1. ASSUME NEW p \in Passes, Step(p) PROVE entry'.exp >= entry.exp
  <2>1. CASE Begin(p)
    BY <2>1 DEF Begin
  <2>2. CASE List(p)
    BY <2>2 DEF List
  <2>3. CASE Compare(p)
    BY <2>3 DEF Compare
  <2>4. CASE Download(p)
    BY <2>4 DEF Download
  <2>5. CASE Adopt(p)
    BY <2>5 DEF Adopt
  <2>6. CASE Decide(p)
    BY <2>6 DEF Decide
  <2>7. CASE AcquireLease(p)
    BY <2>7 DEF AcquireLease, Acquiring, Acquire, Grantable
  <2>8. CASE Sweep(p)
    BY <2>8 DEF Sweep
  <2>9. CASE ReadToken(p)
    BY <2>9 DEF ReadToken
  <2>10. CASE Rotate(p)
    BY <2>10 DEF Rotate, Rotates
  <2>11. CASE RotateFails(p)
    BY <2>11 DEF RotateFails, AfterRefresh
  <2>12. CASE Store(p)
    BY <2>12 DEF Store
  <2>13. CASE Export(p)
    BY <2>13 DEF Export
  <2>14. CASE Upload(p)
    BY <2>14 DEF Upload, AfterUpload, PutAccepted, PutRejected, LeaseOk
  <2>15. CASE Release(p)
    BY <2>15 DEF Release, ReleaseLease
  <2> QED
    BY <1>1, <2>1, <2>2, <2>3, <2>4, <2>5, <2>6, <2>7, <2>8, <2>9, <2>10, <2>11, <2>12, <2>13, <2>14, <2>15 DEF Step
<1>2. ASSUME NEW p \in Passes, RequestLost(p) PROVE entry'.exp >= entry.exp
  BY <1>2 DEF RequestLost, Spend, AfterRefresh, AfterUpload, Acquiring
<1>3. ASSUME NEW p \in Passes, GrantLost(p) PROVE entry'.exp >= entry.exp
  BY <1>3 DEF GrantLost, Spend, Acquiring, Acquire, Grantable
<1>4. ASSUME NEW p \in Passes, RotationLost(p) PROVE entry'.exp >= entry.exp
  BY <1>4 DEF RotationLost, Spend, Rotates, AfterRefresh
<1>5. ASSUME NEW p \in Passes, Crash(p) PROVE entry'.exp >= entry.exp
  BY <1>5 DEF Crash, Spend
<1>6. ASSUME NEW m \in Clients, Login(m) PROVE entry'.exp >= entry.exp
  BY <1>6 DEF Login
<1>7. CASE NextDay
  BY <1>7 DEF NextDay, Spend
<1>8. CASE LeaseEnds
  BY <1>8 DEF LeaseEnds, ExpireLease, Spend
<1>9. CASE UNCHANGED vars
  BY <1>9 DEF vars
<1> QED
  BY <1>1, <1>2, <1>3, <1>4, <1>5, <1>6, <1>7, <1>8, <1>9 DEF Next

\* Nor does what a machine has saved.
LEMMA TokensGrow ==
  ASSUME OnePerMachine, RestOK, pass \in [Passes -> Locals], LocalInv, Chain, ~relogin', [Next]_vars
  PROVE  \A c \in Clients : token'[c] >= token[c]
<1> USE RegistryApiAssumption, RegistrySyncAssumption
    DEF RestOK, Exps, Locals, Chain, AdoptInv, Adopting, Fresh, At, Saved, SetToken, apiVars, localVars
<1>1. ASSUME NEW p \in Passes, Step(p) PROVE \A c \in Clients : token'[c] >= token[c]
  <2>1. CASE Begin(p)
    BY <2>1 DEF Begin
  <2>2. CASE List(p)
    BY <2>2 DEF List
  <2>3. CASE Compare(p)
    BY <2>3 DEF Compare
  <2>4. CASE Download(p)
    BY <2>4 DEF Download
  <2>5. CASE Adopt(p)
    BY <2>5 DEF Adopt
  <2>6. CASE Decide(p)
    BY <2>6 DEF Decide
  <2>7. CASE AcquireLease(p)
    BY <2>7 DEF AcquireLease, Acquiring, Acquire, Grantable
  <2>8. CASE Sweep(p)
    BY <2>8 DEF Sweep
  <2>9. CASE ReadToken(p)
    BY <2>9 DEF ReadToken
  <2>10. CASE Rotate(p)
    BY <2>10 DEF Rotate, Rotates
  <2>11. CASE RotateFails(p)
    BY <2>11 DEF RotateFails, AfterRefresh
  <2>12. CASE Store(p)
    BY <2>12 DEF Store
  <2>13. CASE Export(p)
    BY <2>13 DEF Export
  <2>14. CASE Upload(p)
    BY <2>14 DEF Upload, AfterUpload, PutAccepted, PutRejected, LeaseOk
  <2>15. CASE Release(p)
    BY <2>15 DEF Release, ReleaseLease
  <2> QED
    BY <1>1, <2>1, <2>2, <2>3, <2>4, <2>5, <2>6, <2>7, <2>8, <2>9, <2>10, <2>11, <2>12, <2>13, <2>14, <2>15 DEF Step
<1>2. ASSUME NEW p \in Passes, RequestLost(p) PROVE \A c \in Clients : token'[c] >= token[c]
  BY <1>2 DEF RequestLost, Spend, AfterRefresh, AfterUpload, Acquiring
<1>3. ASSUME NEW p \in Passes, GrantLost(p) PROVE \A c \in Clients : token'[c] >= token[c]
  BY <1>3 DEF GrantLost, Spend, Acquiring, Acquire, Grantable
<1>4. ASSUME NEW p \in Passes, RotationLost(p) PROVE \A c \in Clients : token'[c] >= token[c]
  BY <1>4 DEF RotationLost, Spend, Rotates, AfterRefresh
<1>5. ASSUME NEW p \in Passes, Crash(p) PROVE \A c \in Clients : token'[c] >= token[c]
  BY <1>5 DEF Crash, Spend
<1>6. ASSUME NEW m \in Clients, Login(m) PROVE \A c \in Clients : token'[c] >= token[c]
  BY <1>6 DEF Login
<1>7. CASE NextDay
  BY <1>7 DEF NextDay, Spend
<1>8. CASE LeaseEnds
  BY <1>8 DEF LeaseEnds, ExpireLease, Spend
<1>9. CASE UNCHANGED vars
  BY <1>9 DEF vars
<1> QED
  BY <1>1, <1>2, <1>3, <1>4, <1>5, <1>6, <1>7, <1>8, <1>9 DEF Next

\* The tokens stay links of one chain.
LEMMA LinksStep ==
  ASSUME OnePerMachine, RestOK, pass \in [Passes -> Locals], LocalInv, Chain, ~relogin', [Next]_vars,
         entry'.exp >= entry.exp
  PROVE  Links'
<1> USE RegistryApiAssumption, RegistrySyncAssumption
    DEF RestOK, Exps, Locals, LocalInv, At, Saved, SetToken, Idle, Moved, Kept, Acquires, Loses, apiVars, localVars, oauthVars,
        Chain, Links, Fresh, ReadInv, AdoptInv, Adopting
<1>1. ASSUME NEW p \in Passes, Step(p) PROVE Links'
  <2>1. CASE Begin(p)
    <3>1. Moved(p, "list", last[MachineOf[p]], 0, 0, 0)
      BY <2>1, Moves
    <3> QED
      BY <2>1, <3>1 DEF Begin
  <2>2. CASE List(p)
    <3>1. Moved(p, "compare", pass[p].seen, entry.exp, pass[p].mem, pass[p].lid)
      BY <2>2, Moves
    <3> QED
      BY <2>2, <3>1 DEF List
  <2>3. CASE Compare(p)
    <3>1. Kept(p, IF pass[p].listed > Saved(p) THEN "download" ELSE "decide")
      BY <2>3, Moves
    <3> QED
      BY <2>3, <3>1 DEF Compare
  <2>4. CASE Download(p)
    <3>1. Moved(p, "adopt", pass[p].seen, pass[p].listed, entry.exp, pass[p].lid)
      BY <2>4, Moves
    <3> QED
      BY <2>4, <3>1 DEF Download
  <2>5. CASE Adopt(p)
    <3>1. Kept(p, "idle")
      BY <2>5, Moves
    <3> QED
      BY <2>5, <3>1, SMTT(30) DEF Adopt
  <2>6. CASE Decide(p)
    <3>1. Kept(p, "export") \/ Kept(p, "idle")
      BY <2>6, Moves
    <3> QED
      BY <2>6, <3>1 DEF Decide
  <2>7. CASE AcquireLease(p)
    <3>1. Acquires(p)
      BY <2>7, Moves
    <3> QED
      BY <2>7, <3>1 DEF AcquireLease, Acquiring, Acquire, Grantable
  <2>8. CASE Sweep(p)
    <3>1. Kept(p, "read")
      BY <2>8, Moves
    <3> QED
      BY <2>8, <3>1 DEF Sweep
  <2>9. CASE ReadToken(p)
    <3>1. Moved(p, "rotate", pass[p].seen, pass[p].listed, Saved(p), pass[p].lid)
      BY <2>9, Moves
    <3> QED
      BY <2>9, <3>1 DEF ReadToken
  <2>10. CASE Rotate(p)
    <3>1. Moved(p, "store", pass[p].seen, pass[p].listed, issued', pass[p].lid)
      BY <2>10, Moves
    <3> QED
      BY <2>10, <3>1 DEF Rotate, Rotates
  <2>11. CASE RotateFails(p)
    <3>1. Kept(p, AfterRefresh(p))
      BY <2>11, Moves
    <3> QED
      BY <2>11, <3>1 DEF RotateFails, AfterRefresh
  <2>12. CASE Store(p)
    <3>1. Kept(p, IF p \in Sweepers THEN "idle" ELSE "export")
      BY <2>12, Moves
    <3> QED
      BY <2>12, <3>1 DEF Store
  <2>13. CASE Export(p)
    <3>1. Moved(p, "upload", pass[p].seen, pass[p].listed, Saved(p), pass[p].lid)
      BY <2>13, Moves
    <3> QED
      BY <2>13, <3>1 DEF Export
  <2>14. CASE Upload(p)
    <3>1. Kept(p, AfterUpload(p))
      BY <2>14, Moves
    <3> QED
      BY <2>14, <3>1 DEF Upload, AfterUpload, PutAccepted, PutRejected, LeaseOk
  <2>15. CASE Release(p)
    <3>1. Kept(p, "idle")
      BY <2>15, Moves
    <3> QED
      BY <2>15, <3>1 DEF Release, ReleaseLease
  <2> QED
    BY <1>1, <2>1, <2>2, <2>3, <2>4, <2>5, <2>6, <2>7, <2>8, <2>9, <2>10, <2>11, <2>12, <2>13, <2>14, <2>15 DEF Step
<1>2. ASSUME NEW p \in Passes, RequestLost(p) PROVE Links'
  <2>1. Loses(p)
    BY <1>2, Moves
  <2> QED
    BY <1>2, <2>1, SMTT(30) DEF RequestLost, Spend, AfterRefresh, AfterUpload, Acquiring
<1>3. ASSUME NEW p \in Passes, GrantLost(p) PROVE Links'
  <2>1. Kept(p, "idle")
    BY <1>3, Moves
  <2> QED
    BY <1>3, <2>1 DEF GrantLost, Spend, Acquiring, Acquire, Grantable
<1>4. ASSUME NEW p \in Passes, RotationLost(p) PROVE Links'
  <2>1. Kept(p, AfterRefresh(p))
    BY <1>4, Moves
  <2>2. issued' = issued + 1 /\ live' = {issued'}
    BY <1>4, RotatesIs DEF RotationLost, Rotates
  <2> QED
    BY <1>4, <2>1, <2>2 DEF RotationLost, AfterRefresh
<1>5. ASSUME NEW p \in Passes, Crash(p) PROVE Links'
  <2>1. Kept(p, "idle")
    BY <1>5, Moves
  <2> QED
    BY <1>5, <2>1 DEF Crash, Spend
<1>6. ASSUME NEW m \in Clients, Login(m) PROVE Links'
  BY <1>6 DEF Login
<1>7. CASE NextDay
  BY <1>7 DEF NextDay, Spend
<1>8. CASE LeaseEnds
  BY <1>8 DEF LeaseEnds, ExpireLease, Spend
<1>9. CASE UNCHANGED vars
  BY <1>9 DEF vars
<1> QED
  BY <1>1, <1>2, <1>3, <1>4, <1>5, <1>6, <1>7, <1>8, <1>9 DEF Next

\* A token that is not saved yet stays the newest, and the only one of that kind.
LEMMA FreshStep ==
  ASSUME OnePerMachine, RestOK, pass \in [Passes -> Locals], LocalInv, Chain, ~relogin', [Next]_vars
  PROVE  Fresh'
<1> USE RegistryApiAssumption, RegistrySyncAssumption
    DEF RestOK, Exps, Locals, LocalInv, At, Saved, SetToken, Idle, Moved, Kept, Acquires, Loses, apiVars, localVars, oauthVars,
        Chain, Links, Fresh, ReadInv, AdoptInv, Adopting
<1>1. ASSUME NEW p \in Passes, Step(p) PROVE Fresh'
  <2>1. CASE Begin(p)
    <3>1. Moved(p, "list", last[MachineOf[p]], 0, 0, 0)
      BY <2>1, Moves
    <3> QED
      BY <2>1, <3>1, SMTT(30) DEF Begin
  <2>2. CASE List(p)
    <3>1. Moved(p, "compare", pass[p].seen, entry.exp, pass[p].mem, pass[p].lid)
      BY <2>2, Moves
    <3>2. UNCHANGED <<token, issued>> /\ entry' = entry
      BY <2>2 DEF List
    <3>3. \A q \in Passes : pass'[q].at = "store" => pass[q].at = "store" /\ pass'[q] = pass[q]
      BY <2>2, <3>1 DEF List
    <3> HIDE DEF Moved, Kept, Acquires, Loses, Idle, ReadInv, AdoptInv, Links
    <3> QED
      BY <3>2, <3>3
  <2>3. CASE Compare(p)
    <3>1. Kept(p, IF pass[p].listed > Saved(p) THEN "download" ELSE "decide")
      BY <2>3, Moves
    <3> QED
      BY <2>3, <3>1 DEF Compare
  <2>4. CASE Download(p)
    <3>1. Moved(p, "adopt", pass[p].seen, pass[p].listed, entry.exp, pass[p].lid)
      BY <2>4, Moves
    <3> QED
      BY <2>4, <3>1 DEF Download
  <2>5. CASE Adopt(p)
    <3>1. Kept(p, "idle")
      BY <2>5, Moves
    <3> QED
      BY <2>5, <3>1, SMTT(30) DEF Adopt
  <2>6. CASE Decide(p)
    <3>1. Kept(p, "export") \/ Kept(p, "idle")
      BY <2>6, Moves
    <3>2. UNCHANGED <<token, issued>> /\ entry' = entry
      BY <2>6 DEF Decide
    <3>3. \A q \in Passes : pass'[q].at = "store" => pass[q].at = "store" /\ pass'[q] = pass[q]
      BY <2>6, <3>1 DEF Decide
    <3> HIDE DEF Moved, Kept, Acquires, Loses, Idle, ReadInv, AdoptInv, Links
    <3> QED
      BY <3>2, <3>3
  <2>7. CASE AcquireLease(p)
    <3>1. Acquires(p)
      BY <2>7, Moves
    <3> QED
      BY <2>7, <3>1, SMTT(30) DEF AcquireLease, Acquiring, Acquire, Grantable
  <2>8. CASE Sweep(p)
    <3>1. Kept(p, "read")
      BY <2>8, Moves
    <3> QED
      BY <2>8, <3>1 DEF Sweep
  <2>9. CASE ReadToken(p)
    <3>1. Moved(p, "rotate", pass[p].seen, pass[p].listed, Saved(p), pass[p].lid)
      BY <2>9, Moves
    <3> QED
      BY <2>9, <3>1 DEF ReadToken
  <2>10. CASE Rotate(p)
    <3>1. Moved(p, "store", pass[p].seen, pass[p].listed, issued', pass[p].lid)
      BY <2>10, Moves
    <3> QED
      BY <2>10, <3>1 DEF Rotate, Rotates
  <2>11. CASE RotateFails(p)
    <3>1. Kept(p, AfterRefresh(p))
      BY <2>11, Moves
    <3> QED
      BY <2>11, <3>1 DEF RotateFails, AfterRefresh
  <2>12. CASE Store(p)
    <3>1. Kept(p, IF p \in Sweepers THEN "idle" ELSE "export")
      BY <2>12, Moves
    <3> QED
      BY <2>12, <3>1 DEF Store
  <2>13. CASE Export(p)
    <3>1. Moved(p, "upload", pass[p].seen, pass[p].listed, Saved(p), pass[p].lid)
      BY <2>13, Moves
    <3> QED
      BY <2>13, <3>1, SMTT(30) DEF Export
  <2>14. CASE Upload(p)
    <3>1. Kept(p, AfterUpload(p))
      BY <2>14, Moves
    <3> QED
      BY <2>14, <3>1 DEF Upload, AfterUpload, PutAccepted, PutRejected, LeaseOk
  <2>15. CASE Release(p)
    <3>1. Kept(p, "idle")
      BY <2>15, Moves
    <3> QED
      BY <2>15, <3>1, SMTT(30) DEF Release, ReleaseLease
  <2> QED
    BY <1>1, <2>1, <2>2, <2>3, <2>4, <2>5, <2>6, <2>7, <2>8, <2>9, <2>10, <2>11, <2>12, <2>13, <2>14, <2>15 DEF Step
<1>2. ASSUME NEW p \in Passes, RequestLost(p) PROVE Fresh'
  <2>1. Loses(p)
    BY <1>2, Moves
  <2>2. UNCHANGED <<token, issued>> /\ entry' = entry
    BY <1>2 DEF RequestLost, Spend, AfterRefresh, AfterUpload, Acquiring
  <2>3. \A q \in Passes : pass'[q].at = "store" => pass[q].at = "store" /\ pass'[q] = pass[q]
    BY <1>2, <2>1 DEF RequestLost, Spend, AfterRefresh, AfterUpload, Acquiring
  <2> HIDE DEF Moved, Kept, Acquires, Loses, Idle, ReadInv, AdoptInv, Links
  <2> QED
    BY <2>2, <2>3
<1>3. ASSUME NEW p \in Passes, GrantLost(p) PROVE Fresh'
  <2>1. Kept(p, "idle")
    BY <1>3, Moves
  <2>2. UNCHANGED <<token, issued>> /\ entry' = entry
    BY <1>3 DEF GrantLost, Spend, Acquiring, Acquire, Grantable
  <2>3. \A q \in Passes : pass'[q].at = "store" => pass[q].at = "store" /\ pass'[q] = pass[q]
    BY <1>3, <2>1 DEF GrantLost, Spend, Acquiring, Acquire, Grantable
  <2> HIDE DEF Moved, Kept, Acquires, Loses, Idle, ReadInv, AdoptInv, Links
  <2> QED
    BY <2>2, <2>3
<1>4. ASSUME NEW p \in Passes, RotationLost(p) PROVE Fresh'
  <2>1. Kept(p, AfterRefresh(p))
    BY <1>4, Moves
  <2> QED
    BY <1>4, <2>1 DEF RotationLost, Spend, Rotates, AfterRefresh
<1>5. ASSUME NEW p \in Passes, Crash(p) PROVE Fresh'
  <2>1. Kept(p, "idle")
    BY <1>5, Moves
  <2>2. UNCHANGED <<token, issued>> /\ entry' = entry
    BY <1>5 DEF Crash, Spend
  <2>3. \A q \in Passes : pass'[q].at = "store" => pass[q].at = "store" /\ pass'[q] = pass[q]
    BY <1>5, <2>1 DEF Crash, Spend
  <2> HIDE DEF Moved, Kept, Acquires, Loses, Idle, ReadInv, AdoptInv, Links
  <2> QED
    BY <2>2, <2>3
<1>6. ASSUME NEW m \in Clients, Login(m) PROVE Fresh'
  BY <1>6 DEF Login
<1>7. CASE NextDay
  BY <1>7 DEF NextDay, Spend
<1>8. CASE LeaseEnds
  BY <1>8 DEF LeaseEnds, ExpireLease, Spend
<1>9. CASE UNCHANGED vars
  BY <1>9 DEF vars
<1> QED
  BY <1>1, <1>2, <1>3, <1>4, <1>5, <1>6, <1>7, <1>8, <1>9 DEF Next

\* What was read from the store stays no newer than what is saved.
LEMMA ReadStep ==
  ASSUME OnePerMachine, RestOK, pass \in [Passes -> Locals], LocalInv, Chain, ~relogin', [Next]_vars,
         \A c \in Clients : token'[c] >= token[c]
  PROVE  ReadInv'
<1> USE RegistryApiAssumption, RegistrySyncAssumption
    DEF RestOK, Exps, Locals, LocalInv, At, Saved, SetToken, Idle, Moved, Kept, Acquires, Loses, apiVars, localVars, oauthVars,
        Chain, ReadInv
<1>1. ASSUME NEW p \in Passes, Step(p) PROVE ReadInv'
  <2>1. CASE Begin(p)
    <3>1. Moved(p, "list", last[MachineOf[p]], 0, 0, 0)
      BY <2>1, Moves
    <3> QED
      BY <2>1, <3>1 DEF Begin
  <2>2. CASE List(p)
    <3>1. Moved(p, "compare", pass[p].seen, entry.exp, pass[p].mem, pass[p].lid)
      BY <2>2, Moves
    <3> QED
      BY <2>2, <3>1 DEF List
  <2>3. CASE Compare(p)
    <3>1. Kept(p, IF pass[p].listed > Saved(p) THEN "download" ELSE "decide")
      BY <2>3, Moves
    <3> QED
      BY <2>3, <3>1 DEF Compare
  <2>4. CASE Download(p)
    <3>1. Moved(p, "adopt", pass[p].seen, pass[p].listed, entry.exp, pass[p].lid)
      BY <2>4, Moves
    <3> QED
      BY <2>4, <3>1 DEF Download
  <2>5. CASE Adopt(p)
    <3>1. Kept(p, "idle")
      BY <2>5, Moves
    <3> QED
      BY <2>5, <3>1 DEF Adopt
  <2>6. CASE Decide(p)
    <3>1. Kept(p, "export") \/ Kept(p, "idle")
      BY <2>6, Moves
    <3> QED
      BY <2>6, <3>1 DEF Decide
  <2>7. CASE AcquireLease(p)
    <3>1. Acquires(p)
      BY <2>7, Moves
    <3> QED
      BY <2>7, <3>1 DEF AcquireLease, Acquiring, Acquire, Grantable
  <2>8. CASE Sweep(p)
    <3>1. Kept(p, "read")
      BY <2>8, Moves
    <3> QED
      BY <2>8, <3>1 DEF Sweep
  <2>9. CASE ReadToken(p)
    <3>1. Moved(p, "rotate", pass[p].seen, pass[p].listed, Saved(p), pass[p].lid)
      BY <2>9, Moves
    <3> QED
      BY <2>9, <3>1 DEF ReadToken
  <2>10. CASE Rotate(p)
    <3>1. Moved(p, "store", pass[p].seen, pass[p].listed, issued', pass[p].lid)
      BY <2>10, Moves
    <3> QED
      BY <2>10, <3>1 DEF Rotate, Rotates
  <2>11. CASE RotateFails(p)
    <3>1. Kept(p, AfterRefresh(p))
      BY <2>11, Moves
    <3> QED
      BY <2>11, <3>1 DEF RotateFails, AfterRefresh
  <2>12. CASE Store(p)
    <3>1. Kept(p, IF p \in Sweepers THEN "idle" ELSE "export")
      BY <2>12, Moves
    <3> QED
      BY <2>12, <3>1 DEF Store
  <2>13. CASE Export(p)
    <3>1. Moved(p, "upload", pass[p].seen, pass[p].listed, Saved(p), pass[p].lid)
      BY <2>13, Moves
    <3> QED
      BY <2>13, <3>1 DEF Export
  <2>14. CASE Upload(p)
    <3>1. Kept(p, AfterUpload(p))
      BY <2>14, Moves
    <3> QED
      BY <2>14, <3>1 DEF Upload, AfterUpload, PutAccepted, PutRejected, LeaseOk
  <2>15. CASE Release(p)
    <3>1. Kept(p, "idle")
      BY <2>15, Moves
    <3> QED
      BY <2>15, <3>1 DEF Release, ReleaseLease
  <2> QED
    BY <1>1, <2>1, <2>2, <2>3, <2>4, <2>5, <2>6, <2>7, <2>8, <2>9, <2>10, <2>11, <2>12, <2>13, <2>14, <2>15 DEF Step
<1>2. ASSUME NEW p \in Passes, RequestLost(p) PROVE ReadInv'
  <2>1. Loses(p)
    BY <1>2, Moves
  <2> QED
    BY <1>2, <2>1 DEF RequestLost, Spend, AfterRefresh, AfterUpload, Acquiring
<1>3. ASSUME NEW p \in Passes, GrantLost(p) PROVE ReadInv'
  <2>1. Kept(p, "idle")
    BY <1>3, Moves
  <2> QED
    BY <1>3, <2>1 DEF GrantLost, Spend, Acquiring, Acquire, Grantable
<1>4. ASSUME NEW p \in Passes, RotationLost(p) PROVE ReadInv'
  <2>1. Kept(p, AfterRefresh(p))
    BY <1>4, Moves
  <2> QED
    BY <1>4, <2>1 DEF RotationLost, Spend, Rotates, AfterRefresh
<1>5. ASSUME NEW p \in Passes, Crash(p) PROVE ReadInv'
  <2>1. Kept(p, "idle")
    BY <1>5, Moves
  <2> QED
    BY <1>5, <2>1 DEF Crash, Spend
<1>6. ASSUME NEW m \in Clients, Login(m) PROVE ReadInv'
  BY <1>6 DEF Login
<1>7. CASE NextDay
  BY <1>7 DEF NextDay, Spend
<1>8. CASE LeaseEnds
  BY <1>8 DEF LeaseEnds, ExpireLease, Spend
<1>9. CASE UNCHANGED vars
  BY <1>9 DEF vars
<1> QED
  BY <1>1, <1>2, <1>3, <1>4, <1>5, <1>6, <1>7, <1>8, <1>9 DEF Next

\* What is being adopted stays newer than what is saved: the tokens the sweeps of
\* that machine have read are no longer live.
LEMMA AdoptStep ==
  ASSUME OnePerMachine, RestOK, pass \in [Passes -> Locals], LocalInv, Chain, ~relogin', [Next]_vars,
         entry'.exp >= entry.exp, entry'.exp \in Nat
  PROVE  AdoptInv'
<1> USE RegistryApiAssumption, RegistrySyncAssumption
    DEF RestOK, Exps, Locals, LocalInv, At, Saved, SetToken, Idle, Moved, Kept, Acquires, Loses, apiVars, localVars, oauthVars,
        OnePerMachine, Chain, Links, Fresh, ReadInv, AdoptInv, Adopting
<1>1. ASSUME NEW p \in Passes, Step(p) PROVE AdoptInv'
  <2>1. CASE Begin(p)
    <3>1. Moved(p, "list", last[MachineOf[p]], 0, 0, 0)
      BY <2>1, Moves
    <3> QED
      BY <2>1, <3>1, SMTT(30) DEF Begin
  <2>2. CASE List(p)
    <3>1. Moved(p, "compare", pass[p].seen, entry.exp, pass[p].mem, pass[p].lid)
      BY <2>2, Moves
    <3> QED
      BY <2>2, <3>1, SMTT(30) DEF List
  <2>3. CASE Compare(p)
    <3>1. Kept(p, IF pass[p].listed > Saved(p) THEN "download" ELSE "decide")
      BY <2>3, Moves
    <3> QED
      BY <2>3, <3>1 DEF Compare
  <2>4. CASE Download(p)
    <3>1. Moved(p, "adopt", pass[p].seen, pass[p].listed, entry.exp, pass[p].lid)
      BY <2>4, Moves
    <3>2. Saved(p) < entry.exp /\ UNCHANGED <<entry, token>>
      BY <2>4 DEF Download
    <3>3. \A q \in Passes : pass'[q].at = "store" => pass[q].at = "store"
      BY <3>1
    <3>4. pass'[p].at = "adopt" /\ pass'[p].mem = entry.exp /\ pass[p].at = "download"
      BY <2>4, <3>1 DEF Download
    <3>5. \A q \in Passes : q /= p => pass'[q] = pass[q]
      BY <3>1
    <3> HIDE DEF Links, Fresh, ReadInv, Moved, Kept, LocalInv, Locals
    <3> QED
      BY <3>2, <3>3, <3>4, <3>5
  <2>5. CASE Adopt(p)
    <3>1. Kept(p, "idle")
      BY <2>5, Moves
    <3> QED
      BY <2>5, <3>1, SMTT(30) DEF Adopt
  <2>6. CASE Decide(p)
    <3>1. Kept(p, "export") \/ Kept(p, "idle")
      BY <2>6, Moves
    <3>2. UNCHANGED <<entry, token>>
      BY <2>6 DEF Decide
    <3>3. \A q \in Passes : pass'[q].at = "store" => pass[q].at = "store"
      BY <3>1
    <3>4. pass'[p].at \in {"export", "idle"}
      BY <3>1
    <3>5. \A q \in Passes : q /= p => pass'[q] = pass[q]
      BY <3>1
    <3> HIDE DEF Links, Fresh, ReadInv, Moved, Kept, LocalInv, Locals
    <3> QED
      BY <3>2, <3>3, <3>4, <3>5
  <2>7. CASE AcquireLease(p)
    <3>1. Acquires(p)
      BY <2>7, Moves
    <3> QED
      BY <2>7, <3>1, SMTT(30) DEF AcquireLease, Acquiring, Acquire, Grantable
  <2>8. CASE Sweep(p)
    <3>1. Kept(p, "read")
      BY <2>8, Moves
    <3> QED
      BY <2>8, <3>1, ZenonT(30) DEF Sweep
  <2>9. CASE ReadToken(p)
    <3>1. Moved(p, "rotate", pass[p].seen, pass[p].listed, Saved(p), pass[p].lid)
      BY <2>9, Moves
    <3> QED
      BY <2>9, <3>1 DEF ReadToken
  <2>10. CASE Rotate(p)
    <3>1. Moved(p, "store", pass[p].seen, pass[p].listed, issued', pass[p].lid)
      BY <2>10, Moves
    <3> QED
      BY <2>10, <3>1, SMTT(30) DEF Rotate, Rotates
  <2>11. CASE RotateFails(p)
    <3>1. Kept(p, AfterRefresh(p))
      BY <2>11, Moves
    <3> QED
      BY <2>11, <3>1, SMTT(30) DEF RotateFails, AfterRefresh
  <2>12. CASE Store(p)
    <3>1. Kept(p, IF p \in Sweepers THEN "idle" ELSE "export")
      BY <2>12, Moves
    <3> QED
      BY <2>12, <3>1 DEF Store
  <2>13. CASE Export(p)
    <3>1. Moved(p, "upload", pass[p].seen, pass[p].listed, Saved(p), pass[p].lid)
      BY <2>13, Moves
    <3> QED
      BY <2>13, <3>1 DEF Export
  <2>14. CASE Upload(p)
    <3>1. Kept(p, AfterUpload(p))
      BY <2>14, Moves
    <3>2. UNCHANGED token /\ entry.exp <= entry'.exp
      BY <2>14 DEF Upload
    <3>3. pass'[p].at \in {"idle", "release"}
      BY <3>1 DEF AfterUpload
    <3>4. \A q \in Passes : pass'[q].at \notin {"idle", "release"} => pass'[q] = pass[q]
      BY <3>1, <3>3
    <3> HIDE DEF Links, Fresh, ReadInv, Moved, Kept, LocalInv
    <3> QED
      BY <3>2, <3>4
  <2>15. CASE Release(p)
    <3>1. Kept(p, "idle")
      BY <2>15, Moves
    <3> QED
      BY <2>15, <3>1, ZenonT(30) DEF Release, ReleaseLease
  <2> QED
    BY <1>1, <2>1, <2>2, <2>3, <2>4, <2>5, <2>6, <2>7, <2>8, <2>9, <2>10, <2>11, <2>12, <2>13, <2>14, <2>15 DEF Step
<1>2. ASSUME NEW p \in Passes, RequestLost(p) PROVE AdoptInv'
  <2>1. Loses(p)
    BY <1>2, Moves
  <2> QED
    BY <1>2, <2>1, SMTT(60) DEF RequestLost, Spend, AfterRefresh, AfterUpload, Acquiring
<1>3. ASSUME NEW p \in Passes, GrantLost(p) PROVE AdoptInv'
  <2>1. Kept(p, "idle")
    BY <1>3, Moves
  <2> QED
    BY <1>3, <2>1, SMTT(30) DEF GrantLost, Spend, Acquiring, Acquire, Grantable
<1>4. ASSUME NEW p \in Passes, RotationLost(p) PROVE AdoptInv'
  <2>1. Kept(p, AfterRefresh(p))
    BY <1>4, Moves
  <2> QED
    BY <1>4, <2>1, SMTT(30) DEF RotationLost, Spend, Rotates, AfterRefresh
<1>5. ASSUME NEW p \in Passes, Crash(p) PROVE AdoptInv'
  <2>1. Kept(p, "idle")
    BY <1>5, Moves
  <2> QED
    BY <1>5, <2>1 DEF Crash, Spend
<1>6. ASSUME NEW m \in Clients, Login(m) PROVE AdoptInv'
  BY <1>6 DEF Login
<1>7. CASE NextDay
  BY <1>7 DEF NextDay, Spend
<1>8. CASE LeaseEnds
  BY <1>8 DEF LeaseEnds, ExpireLease, Spend
<1>9. CASE UNCHANGED vars
  BY <1>9 DEF vars
<1> QED
  BY <1>1, <1>2, <1>3, <1>4, <1>5, <1>6, <1>7, <1>8, <1>9 DEF Next

\* The upload of a refresh stays ahead: nobody else can have got a newer token.
LEMMA AheadStep ==
  ASSUME OnePerMachine, RestOK, pass \in [Passes -> Locals], LocalInv, Chain, ~relogin', [Next]_vars
  PROVE  AheadInv'
<1> USE RegistryApiAssumption, RegistrySyncAssumption
    DEF RestOK, Exps, Locals, LocalInv, At, Saved, SetToken, Idle, Moved, Kept, Acquires, Loses, apiVars, localVars, oauthVars,
        OnePerMachine, Chain, Links, Fresh, ReadInv, AdoptInv, Adopting, AheadInv, Refreshed
<1>1. ASSUME NEW p \in Passes, Step(p) PROVE AheadInv'
  <2>1. CASE Begin(p)
    <3>1. Moved(p, "list", last[MachineOf[p]], 0, 0, 0)
      BY <2>1, Moves
    <3> QED
      BY <2>1, <3>1 DEF Begin
  <2>2. CASE List(p)
    <3>1. Moved(p, "compare", pass[p].seen, entry.exp, pass[p].mem, pass[p].lid)
      BY <2>2, Moves
    <3> QED
      BY <2>2, <3>1 DEF List
  <2>3. CASE Compare(p)
    <3>1. Kept(p, IF pass[p].listed > Saved(p) THEN "download" ELSE "decide")
      BY <2>3, Moves
    <3> QED
      BY <2>3, <3>1 DEF Compare
  <2>4. CASE Download(p)
    <3>1. Moved(p, "adopt", pass[p].seen, pass[p].listed, entry.exp, pass[p].lid)
      BY <2>4, Moves
    <3> QED
      BY <2>4, <3>1 DEF Download
  <2>5. CASE Adopt(p)
    <3>1. Kept(p, "idle")
      BY <2>5, Moves
    <3> QED
      BY <2>5, <3>1 DEF Adopt
  <2>6. CASE Decide(p)
    <3>1. Kept(p, "export") \/ Kept(p, "idle")
      BY <2>6, Moves
    <3> QED
      BY <2>6, <3>1 DEF Decide
  <2>7. CASE AcquireLease(p)
    <3>1. Acquires(p)
      BY <2>7, Moves
    <3>2. UNCHANGED <<token, entry>>
      BY <2>7 DEF AcquireLease, Acquire
    <3>3. \A q \in Passes : pass'[q].at \in {"export", "upload"} => pass'[q] = pass[q]
      BY <3>1
    <3> HIDE DEF Links, Fresh, ReadInv, AdoptInv, Moved, Kept, Acquires
    <3> QED
      BY <3>2, <3>3
  <2>8. CASE Sweep(p)
    <3>1. Kept(p, "read")
      BY <2>8, Moves
    <3> QED
      BY <2>8, <3>1 DEF Sweep
  <2>9. CASE ReadToken(p)
    <3>1. Moved(p, "rotate", pass[p].seen, pass[p].listed, Saved(p), pass[p].lid)
      BY <2>9, Moves
    <3> QED
      BY <2>9, <3>1 DEF ReadToken
  <2>10. CASE Rotate(p)
    <3>1. Moved(p, "store", pass[p].seen, pass[p].listed, issued', pass[p].lid)
      BY <2>10, Moves
    <3> QED
      BY <2>10, <3>1 DEF Rotate, Rotates
  <2>11. CASE RotateFails(p)
    <3>1. Kept(p, AfterRefresh(p))
      BY <2>11, Moves
    <3> QED
      BY <2>11, <3>1 DEF RotateFails, AfterRefresh
  <2>12. CASE Store(p)
    <3>1. Kept(p, IF p \in Sweepers THEN "idle" ELSE "export")
      BY <2>12, Moves
    <3> QED
      BY <2>12, <3>1 DEF Store
  <2>13. CASE Export(p)
    <3>1. Moved(p, "upload", pass[p].seen, pass[p].listed, Saved(p), pass[p].lid)
      BY <2>13, Moves
    <3> QED
      BY <2>13, <3>1 DEF Export
  <2>14. CASE Upload(p)
    <3>1. Kept(p, AfterUpload(p))
      BY <2>14, Moves
    <3> QED
      BY <2>14, <3>1 DEF Upload, AfterUpload, PutAccepted, PutRejected, LeaseOk
  <2>15. CASE Release(p)
    <3>1. Kept(p, "idle")
      BY <2>15, Moves
    <3> QED
      BY <2>15, <3>1 DEF Release, ReleaseLease
  <2> QED
    BY <1>1, <2>1, <2>2, <2>3, <2>4, <2>5, <2>6, <2>7, <2>8, <2>9, <2>10, <2>11, <2>12, <2>13, <2>14, <2>15 DEF Step
<1>2. ASSUME NEW p \in Passes, RequestLost(p) PROVE AheadInv'
  <2>1. Loses(p)
    BY <1>2, Moves
  <2> QED
    BY <1>2, <2>1 DEF RequestLost, Spend, AfterRefresh, AfterUpload, Acquiring
<1>3. ASSUME NEW p \in Passes, GrantLost(p) PROVE AheadInv'
  <2>1. Kept(p, "idle")
    BY <1>3, Moves
  <2> QED
    BY <1>3, <2>1 DEF GrantLost, Spend, Acquiring, Acquire, Grantable
<1>4. ASSUME NEW p \in Passes, RotationLost(p) PROVE AheadInv'
  <2>1. Kept(p, AfterRefresh(p))
    BY <1>4, Moves
  <2> QED
    BY <1>4, <2>1 DEF RotationLost, Spend, Rotates, AfterRefresh
<1>5. ASSUME NEW p \in Passes, Crash(p) PROVE AheadInv'
  <2>1. Kept(p, "idle")
    BY <1>5, Moves
  <2> QED
    BY <1>5, <2>1 DEF Crash, Spend
<1>6. ASSUME NEW m \in Clients, Login(m) PROVE AheadInv'
  BY <1>6 DEF Login
<1>7. CASE NextDay
  BY <1>7 DEF NextDay, Spend
<1>8. CASE LeaseEnds
  BY <1>8 DEF LeaseEnds, ExpireLease, Spend
<1>9. CASE UNCHANGED vars
  BY <1>9 DEF vars
<1> QED
  BY <1>1, <1>2, <1>3, <1>4, <1>5, <1>6, <1>7, <1>8, <1>9 DEF Next

\* The newest token is in the registry, saved on a machine, or about to be.
Held == \/ entry.exp = issued
        \/ \E m \in Clients : token[m] = issued
        \/ \E p \in Passes : pass[p].at = "store"

\* While nothing is issued, what is in the registry or saved can only be replaced
\* by something as new.
LEMMA HeldStays ==
  ASSUME RestOK, RestOK', Links, Links', issued' = issued, entry'.exp >= entry.exp,
         \A c \in Clients : token'[c] >= token[c],
         entry.exp = issued \/ \E m \in Clients : token[m] = issued
  PROVE  entry'.exp = issued' \/ \E m \in Clients : token'[m] = issued'
BY DEF RestOK, Links, Exps

\* The newest token is not lost, unless the provider's answer is.
LEMMA HeldStep ==
  ASSUME OnePerMachine, RestOK, pass \in [Passes -> Locals], LocalInv, Chain, ~relogin', [Next]_vars,
         RestOK', Links', ~doomed', Held, entry'.exp >= entry.exp,
         \A c \in Clients : token'[c] >= token[c]
  PROVE  Held'
<1>a. issued' = issued /\ (entry.exp = issued \/ \E m \in Clients : token[m] = issued) => Held'
  BY HeldStays DEF Held, Chain
<1> USE RegistryApiAssumption, RegistrySyncAssumption, <1>a
    DEF Held, At, Moved, Kept, Acquires, Loses, oauthVars
<1>1. ASSUME NEW p \in Passes, Step(p) PROVE Held'
  <2>1. CASE Begin(p)
    <3>1. Moved(p, "list", last[MachineOf[p]], 0, 0, 0)
      BY <2>1, Moves
    <3>2. issued' = issued /\ pass[p].at /= "store"
      BY <2>1 DEF Begin
    <3> QED
      BY <3>1, <3>2
  <2>2. CASE List(p)
    <3>1. Moved(p, "compare", pass[p].seen, entry.exp, pass[p].mem, pass[p].lid)
      BY <2>2, Moves
    <3>2. issued' = issued /\ pass[p].at /= "store"
      BY <2>2 DEF List
    <3> QED
      BY <3>1, <3>2
  <2>3. CASE Compare(p)
    <3>1. Kept(p, IF pass[p].listed > Saved(p) THEN "download" ELSE "decide")
      BY <2>3, Moves
    <3>2. issued' = issued /\ pass[p].at /= "store"
      BY <2>3 DEF Compare
    <3> QED
      BY <3>1, <3>2
  <2>4. CASE Download(p)
    <3>1. Moved(p, "adopt", pass[p].seen, pass[p].listed, entry.exp, pass[p].lid)
      BY <2>4, Moves
    <3>2. issued' = issued /\ pass[p].at /= "store"
      BY <2>4 DEF Download
    <3> QED
      BY <3>1, <3>2
  <2>5. CASE Adopt(p)
    <3>1. Kept(p, "idle")
      BY <2>5, Moves
    <3>2. issued' = issued /\ pass[p].at /= "store"
      BY <2>5 DEF Adopt
    <3> QED
      BY <3>1, <3>2
  <2>6. CASE Decide(p)
    <3>1. Kept(p, "export") \/ Kept(p, "idle")
      BY <2>6, Moves
    <3>2. issued' = issued /\ pass[p].at /= "store"
      BY <2>6 DEF Decide
    <3> QED
      BY <3>1, <3>2
  <2>7. CASE AcquireLease(p)
    <3>1. Acquires(p)
      BY <2>7, Moves
    <3>2. issued' = issued /\ pass[p].at /= "store"
      BY <2>7 DEF AcquireLease, Acquiring, Acquire, Grantable
    <3> QED
      BY <3>1, <3>2
  <2>8. CASE Sweep(p)
    <3>1. Kept(p, "read")
      BY <2>8, Moves
    <3>2. issued' = issued /\ pass[p].at /= "store"
      BY <2>8 DEF Sweep
    <3> QED
      BY <3>1, <3>2
  <2>9. CASE ReadToken(p)
    <3>1. Moved(p, "rotate", pass[p].seen, pass[p].listed, Saved(p), pass[p].lid)
      BY <2>9, Moves
    <3>2. issued' = issued /\ pass[p].at /= "store"
      BY <2>9 DEF ReadToken
    <3> QED
      BY <3>1, <3>2
  <2>10. CASE Rotate(p)
    <3>1. Moved(p, "store", pass[p].seen, pass[p].listed, issued', pass[p].lid)
      BY <2>10, Moves
    <3> QED
      BY <3>1
  <2>11. CASE RotateFails(p)
    <3>1. Kept(p, AfterRefresh(p))
      BY <2>11, Moves
    <3>2. issued' = issued /\ pass[p].at /= "store"
      BY <2>11 DEF RotateFails, AfterRefresh
    <3> QED
      BY <3>1, <3>2
  <2>12. CASE Store(p)
    <3>1. Kept(p, IF p \in Sweepers THEN "idle" ELSE "export")
      BY <2>12, Moves
    <3>2. pass[p].mem = issued /\ MachineOf[p] \in Clients
      BY <2>12 DEF Store, Chain, Fresh, At
    <3>3. token'[MachineOf[p]] = issued /\ issued' = issued
      BY <2>12, <3>2 DEF Store, SetToken, RestOK
    <3> QED
      BY <3>2, <3>3
  <2>13. CASE Export(p)
    <3>1. Moved(p, "upload", pass[p].seen, pass[p].listed, Saved(p), pass[p].lid)
      BY <2>13, Moves
    <3>2. issued' = issued /\ pass[p].at /= "store"
      BY <2>13 DEF Export
    <3> QED
      BY <3>1, <3>2
  <2>14. CASE Upload(p)
    <3>1. Kept(p, AfterUpload(p))
      BY <2>14, Moves
    <3>2. issued' = issued /\ pass[p].at /= "store"
      BY <2>14 DEF Upload, AfterUpload, PutAccepted, PutRejected, LeaseOk
    <3> QED
      BY <3>1, <3>2
  <2>15. CASE Release(p)
    <3>1. Kept(p, "idle")
      BY <2>15, Moves
    <3>2. issued' = issued /\ pass[p].at /= "store"
      BY <2>15 DEF Release, ReleaseLease
    <3> QED
      BY <3>1, <3>2
  <2> QED
    BY <1>1, <2>1, <2>2, <2>3, <2>4, <2>5, <2>6, <2>7, <2>8, <2>9, <2>10, <2>11, <2>12, <2>13, <2>14, <2>15 DEF Step
<1>2. ASSUME NEW p \in Passes, RequestLost(p) PROVE Held'
  <2>1. Loses(p)
    BY <1>2, Moves
  <2>2. issued' = issued /\ pass[p].at /= "store"
    BY <1>2 DEF RequestLost, Spend, AfterRefresh, AfterUpload, Acquiring
  <2> QED
    BY <2>1, <2>2
<1>3. ASSUME NEW p \in Passes, GrantLost(p) PROVE Held'
  <2>1. Kept(p, "idle")
    BY <1>3, Moves
  <2>2. issued' = issued /\ pass[p].at /= "store"
    BY <1>3 DEF GrantLost, Spend, Acquiring, Acquire, Grantable
  <2> QED
    BY <2>1, <2>2
<1>4. ASSUME NEW p \in Passes, RotationLost(p) PROVE Held'
  BY <1>4 DEF RotationLost
<1>5. ASSUME NEW p \in Passes, Crash(p) PROVE Held'
  <2>1. Kept(p, "idle") /\ issued' = issued /\ pass[p].at # "store"
    BY <1>5, Moves DEF Crash
  <2> QED
    BY <2>1
<1>6. ASSUME NEW m \in Clients, Login(m) PROVE Held'
  BY <1>6 DEF Login
<1>7. CASE NextDay
  BY <1>7 DEF NextDay, oauthVars
<1>8. CASE LeaseEnds
  BY <1>8 DEF LeaseEnds, oauthVars
<1>9. CASE UNCHANGED vars
  BY <1>9 DEF vars, oauthVars
<1> QED
  BY <1>1, <1>2, <1>3, <1>4, <1>5, <1>6, <1>7, <1>8, <1>9 DEF Next

\* A step of the synchronisation keeps the chain.
LEMMA ChainStep ==
  ASSUME OnePerMachine, RestOK, pass \in [Passes -> Locals], LocalInv, Chain, ~relogin', [Next]_vars
  PROVE  /\ entry'.exp >= entry.exp
         /\ Chain'
         /\ ~doomed' /\ Held => Held'
<1>1. entry'.exp >= entry.exp
  BY EntryGrows
<1>2. \A c \in Clients : token'[c] >= token[c]
  BY TokensGrow
<1>3. RestOK' /\ entry'.exp \in Nat
  BY RestStep DEF RestOK
<1>4. Links'
  BY <1>1, LinksStep
<1>5. Fresh'
  BY FreshStep
<1>6. ReadInv'
  BY <1>2, ReadStep
<1>7. AdoptInv'
  BY <1>1, <1>3, AdoptStep
<1>8. AheadInv'
  BY AheadStep
<1>9. ASSUME ~doomed', Held PROVE Held'
  BY <1>1, <1>2, <1>3, <1>4, <1>9, HeldStep
<1> QED
  BY <1>1, <1>4, <1>5, <1>6, <1>7, <1>8, <1>9 DEF Chain

\* Nobody forgets that there was a login or a lost answer.
LEMMA Remembered == [Next]_vars => (relogin => relogin') /\ (doomed => doomed')
<1> SUFFICES ASSUME [Next]_vars PROVE (relogin => relogin') /\ (doomed => doomed')
  OBVIOUS
<1>1. ASSUME NEW p \in Passes, Step(p) PROVE UNCHANGED <<relogin, doomed>>
  BY <1>1 DEF Step, oauthVars, Begin, List, Compare, Download, Adopt, Decide, AcquireLease,
              Sweep, ReadToken, Rotate, RotateFails, Store, Export, Upload, Release
<1>2. ASSUME NEW p \in Passes,
             RequestLost(p) \/ GrantLost(p) \/ RotationLost(p) \/ Crash(p)
      PROVE  (relogin => relogin') /\ (doomed => doomed')
  <2>1. CASE RequestLost(p)
    BY <2>1 DEF RequestLost, oauthVars
  <2>2. CASE GrantLost(p)
    BY <2>2 DEF GrantLost, oauthVars
  <2>3. CASE RotationLost(p)
    BY <2>3 DEF RotationLost
  <2>4. CASE Crash(p)
    BY <2>4 DEF Crash
  <2> QED
    BY <1>2, <2>1, <2>2, <2>3, <2>4
<1>3. ASSUME NEW m \in Clients, Login(m) PROVE relogin' /\ UNCHANGED doomed
  BY <1>3 DEF Login
<1>4. ASSUME NextDay \/ LeaseEnds \/ UNCHANGED vars PROVE UNCHANGED <<relogin, doomed>>
  BY <1>4 DEF NextDay, LeaseEnds, vars, oauthVars
<1> QED
  BY <1>1, <1>2, <1>3, <1>4 DEF Next

\* Until somebody logs in by hand, every reachable state is a state of the chain.
ChainInv == (~relogin => Chain) /\ (~relogin /\ ~doomed => Held)
LEMMA ChainInvariant == ASSUME OnePerMachine PROVE Spec => []ChainInv
<1>1. Init => ChainInv
  <2> SUFFICES ASSUME Init PROVE ChainInv
    OBVIOUS
  <2>1. Held
    BY SomeMachine DEF Init, Held
  <2>2. /\ \A p \in Passes : pass[p].at = "idle" /\ pass[p].listed = 0
        /\ \A m \in Clients : token[m] = 1
        /\ issued = 1 /\ live = {1} /\ entry.exp \in {0, 1}
    BY DEF Init, Idle, Absent
  <2>3. Links
    BY <2>2 DEF Links
  <2>4. Fresh /\ ReadInv /\ AdoptInv /\ AheadInv
    BY <2>2 DEF Fresh, ReadInv, AdoptInv, Adopting, AheadInv, At
  <2> QED
    BY <2>1, <2>3, <2>4 DEF ChainInv, Chain
<1>2. TypeOK /\ LocalInv /\ ChainInv /\ [Next]_vars => ChainInv'
  BY TypeSplit, ChainStep, Remembered DEF ChainInv
<1> QED
  BY <1>1, <1>2, TypeCorrect, PTL DEF Spec

\* Until somebody logs in by hand, the registry's entry never gets older, leased
\* uploads included, whatever passes, sweeps, lost messages and kills interleave.
THEOREM NoRewind == ASSUME OnePerMachine PROVE Spec => NeverRewound
<1>1. TypeOK /\ LocalInv /\ ChainInv /\ [Next]_vars => [~relogin => entry'.exp >= entry.exp]_vars
  <2> SUFFICES ASSUME TypeOK, LocalInv, ChainInv, Next, ~relogin PROVE entry'.exp >= entry.exp
    BY DEF vars
  <2>1. CASE relogin'
    <3>1. PICK m \in Clients : Login(m)
      BY <2>1 DEF Next, Step, oauthVars, Begin, List, Compare, Download, Adopt, Decide, AcquireLease,
                  Sweep, ReadToken, Rotate, RotateFails, Store, Export, Upload, Release, RequestLost,
                  GrantLost, RotationLost, Crash, NextDay, LeaseEnds
    <3> QED
      BY <3>1 DEF Login, apiVars, TypeOK
  <2>2. CASE ~relogin'
    BY <2>2, TypeSplit, ChainStep DEF ChainInv
  <2> QED
    BY <2>1, <2>2
<1> QED
  BY <1>1, TypeCorrect, ChainInvariant, PTL DEF Spec, NeverRewound

\* No token is lost in the synchronisation: the newest one of the chain is in the
\* registry, saved on some machine or about to be, unless the provider's answer itself
\* got lost.
THEOREM TokensHeld == ASSUME OnePerMachine PROVE Spec => []TokensInv
<1>1. TypeOK /\ ChainInv => TokensInv
  BY DEF ChainInv, Chain, Fresh, Held, TokensInv, NewestHeld, At
<1> QED
  BY <1>1, TypeCorrect, ChainInvariant, PTL
=============================================================================
