------------------------------ MODULE SyncPass ------------------------------
(***************************************************************************)
(* Passes over the saved accounts and the registry that one machine runs   *)
(* side by side: those of the console's auto-sync loop, those that follow  *)
(* an added or removed account, and the pushes of its sync button          *)
(* (src/src/commands/autosync.ts, remote.ts).  Nothing keeps two of them,  *)
(* or a pass and an operation on the accounts, apart.                      *)
(*                                                                         *)
(* A token is its owner and a generation, which stands for its expiry.     *)
(* Accounts are visited in any order; the refresh of a token that is due   *)
(* is left to RegistrySync.                                                *)
(***************************************************************************)
EXTENDS Naturals, FiniteSets

CONSTANTS Names, Who,     \* names of accounts and the identities behind them
          Runners, Loop,  \* who may run a pass, and the loop among them
          NoTok, NoName,
          Works           \* workloads

\* A workload: the tokens saved and registered at first and the current one, if
\* there is a registry, and bounds: how often the loop runs, another machine
\* refreshes a token, something fails, and the operator cancels or closes a tab.
SyncWork(x) ==
  /\ {x.saved[n] : n \in Names} \subseteq Who \cup {NoTok}
  /\ {x.listed[n] : n \in Names} \subseteq Who \cup {NoTok}
  /\ x.active \in Who /\ x.registry \in BOOLEAN
  /\ x.bounds \in [loops : Nat, elsewhere : Nat, faults : Nat, clicks : Nat]
ASSUME SyncAssumption ==
  /\ Loop \in Runners /\ \A x \in Works : SyncWork(x)
  /\ NoTok \notin Who \cup [who : Who, gen : 1..3] /\ NoName \notin Names

LoginGen == 2
MaxGen == 3
Tok == [who : Who, gen : 1..MaxGen]
TokOrNone == Tok \cup {NoTok}

VARIABLES work,   \* the workload
          store,  \* the saved accounts
          reg,    \* the registry's records
          cur,    \* the token in auth.json
          pass,   \* per runner: its pass
          left    \* what is left of the bounds
syncVars == <<work, store, reg, cur, pass, left>>

First(w) == IF w = NoTok THEN NoTok ELSE [who |-> w, gen |-> 1]
Saved == {n \in Names : store[n] # NoTok}
OffPass == [pc |-> "off", adopts |-> {}, pushes |-> {}, seen |-> [n \in Names |-> NoTok],
            active |-> {}, name |-> NoName, got |-> NoTok, pull |-> FALSE]
Newer(x, y) == x # NoTok /\ y # NoTok /\ x.gen > y.gen
Fault == left.faults > 0 /\ left' = [left EXCEPT !.faults = @ - 1]
Idle(r) == pass[r].pc = "off"
Started(pull) == IF work.registry THEN [OffPass EXCEPT !.pc = "list", !.pull = pull] ELSE OffPass

SyncInit ==
  /\ work \in Works
  /\ store = [n \in Names |-> First(work.saved[n])]
  /\ reg = [n \in Names |-> First(work.listed[n])]
  /\ cur = First(work.active)
  /\ pass = [r \in Runners |-> OffPass]
  /\ left = work.bounds

\* listAccounts: what is saved now is what the pass visits.
List(r) ==
  /\ pass[r].pc = "list"
  /\ pass' = [pass EXCEPT ![r] = [@ EXCEPT !.pc = "look", !.pushes = Saved,
                                           !.adopts = IF pass[r].pull THEN Saved ELSE {}]]
  /\ UNCHANGED <<work, store, reg, cur, left>>

\* listRemoteAccounts and getCurrentStatus; without an answer the pass is over.
Look(r) ==
  /\ pass[r].pc = "look"
  /\ \/ /\ pass' = [pass EXCEPT ![r] = [@ EXCEPT !.pc = "visit", !.seen = reg,
                                    !.active = {n \in Saved : store[n].who = cur.who}]]
        /\ UNCHANGED left
     \/ Fault /\ pass' = [pass EXCEPT ![r] = OffPass]
  /\ UNCHANGED <<work, store, reg, cur>>

\* The first loop of runAutoSyncOnce: a listed token newer than the saved one is
\* downloaded (adoptRemoteAccount); a record that is gone counts as a failure.
VisitFirst(r) ==
  /\ pass[r].pc = "visit"
  /\ \E n \in pass[r].adopts :
       \/ /\ ~Newer(pass[r].seen[n], store[n]) \/ reg[n] = NoTok
          /\ pass' = [pass EXCEPT ![r] = [pass[r] EXCEPT !.adopts = @ \ {n}]]
       \/ /\ Newer(pass[r].seen[n], store[n]) /\ reg[n] # NoTok
          /\ pass' = [pass EXCEPT ![r] = [pass[r] EXCEPT !.adopts = @ \ {n}, !.pushes = @ \ {n},
                                                    !.pc = "save", !.name = n, !.got = reg[n]]]
  /\ UNCHANGED <<work, store, reg, cur, left>>

\* addAccountSnapshot refuses an identity that is saved under another name.
Managed(w, n) == \E m \in Saved \ {n} : store[m].who = w

\* Mutant of WasCurrent: whatever is adopted is put in effect.
AlwaysCurrent(r) == TRUE

\* The adopted account was the current one when the pass looked (activeNames).
WasCurrent(r) == pass[r].name \in pass[r].active

\* addAccountSnapshot with force: the account is saved, removed meanwhile or not.
SaveAdopted(r) ==
  /\ pass[r].pc = "save"
  /\ IF Managed(pass[r].got.who, pass[r].name)
     THEN UNCHANGED store /\ pass' = [pass EXCEPT ![r].pc = "visit", ![r].name = NoName]
     ELSE /\ store' = [store EXCEPT ![pass[r].name] = pass[r].got]
          /\ pass' = [pass EXCEPT ![r] = IF WasCurrent(r) THEN [@ EXCEPT !.pc = "apply"]
                                         ELSE [@ EXCEPT !.pc = "visit", !.name = NoName]]
  /\ UNCHANGED <<work, reg, cur, left>>

\* switchAccountPreservingProxyRuntime, without the switch lock.
ApplyAdopted(r) ==
  /\ pass[r].pc = "apply"
  /\ cur' = IF store[pass[r].name] = NoTok THEN cur ELSE store[pass[r].name]
  /\ pass' = [pass EXCEPT ![r].pc = "visit", ![r].name = NoName]
  /\ UNCHANGED <<work, store, reg, left>>

\* readLocalTokenExpiry against the listed record's: is the saved account exported?
Pushable(r, n) == store[n] # NoTok /\ (pass[r].seen[n] = NoTok \/ Newer(store[n], pass[r].seen[n]))

\* The second loop: an account without a record, or newer than the listed one, is
\* exported (pushLocalBundle, syncAccountsToRemote).
VisitNext(r) ==
  /\ pass[r].pc = "visit" /\ pass[r].adopts = {}
  /\ \E n \in pass[r].pushes :
       \/ /\ ~Pushable(r, n)
          /\ pass' = [pass EXCEPT ![r] = [pass[r] EXCEPT !.pushes = @ \ {n}]]
       \/ /\ Pushable(r, n)
          /\ pass' = [pass EXCEPT ![r] = [pass[r] EXCEPT !.pushes = @ \ {n}, !.pc = "upload",
                                                    !.name = n, !.got = store[n]]]
  /\ UNCHANGED <<work, store, reg, cur, left>>

\* uploadBundle: the registry refuses what is older than its record.
Upload(r) ==
  /\ pass[r].pc = "upload"
  /\ \/ /\ reg' = IF Newer(reg[pass[r].name], pass[r].got) THEN reg
                  ELSE [reg EXCEPT ![pass[r].name] = pass[r].got]
        /\ UNCHANGED left
     \/ Fault /\ UNCHANGED reg
  /\ pass' = [pass EXCEPT ![r].pc = "visit", ![r].name = NoName]
  /\ UNCHANGED <<work, store, cur>>

Visited(r) ==
  /\ pass[r].pc = "visit" /\ pass[r].adopts = {} /\ pass[r].pushes = {}
  /\ pass' = [pass EXCEPT ![r] = OffPass]
  /\ UNCHANGED <<work, store, reg, cur, left>>

PassStep(r) == \/ List(r) \/ Look(r) \/ VisitFirst(r) \/ SaveAdopted(r) \/ ApplyAdopted(r)
               \/ VisitNext(r) \/ Upload(r) \/ Visited(r)

\* runAutoSyncLoop: the next pass, while the loop is not told to stop.
LoopStarts ==
  /\ left.loops > 0 /\ Idle(Loop)
  /\ left' = [left EXCEPT !.loops = @ - 1]
  /\ pass' = [pass EXCEPT ![Loop] = Started(TRUE)]
  /\ UNCHANGED <<work, store, reg, cur>>

\* Another machine refreshes a token and pushes it.
Elsewhere ==
  /\ left.elsewhere > 0
  /\ \E n \in Names : /\ reg[n] # NoTok /\ reg[n].gen < MaxGen
                      /\ reg' = [reg EXCEPT ![n].gen = MaxGen]
  /\ left' = [left EXCEPT !.elsewhere = @ - 1]
  /\ UNCHANGED <<work, store, cur, pass>>

SyncTypeOK ==
  /\ store \in [Names -> TokOrNone] /\ reg \in [Names -> TokOrNone] /\ cur \in Tok
  /\ \A r \in Runners :
       /\ pass[r].pc \in {"off", "list", "look", "visit", "save", "apply", "upload"}
       /\ (pass[r].adopts \cup pass[r].pushes \cup pass[r].active) \subseteq Names
       /\ pass[r].got \in TokOrNone /\ pass[r].name \in Names \cup {NoName}
       /\ pass[r].pc \in {"save", "apply", "upload"} => pass[r].name # NoName /\ pass[r].got # NoTok
=============================================================================
