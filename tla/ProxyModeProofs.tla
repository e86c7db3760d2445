-------------------------- MODULE ProxyModeProofs --------------------------
(***************************************************************************)
(* What a disable restores, for every number of processes, accounts,       *)
(* commands, selections, logins, crashes and deaths of the daemon: as long *)
(* as operations outside the switch lock do not overlap, auth.json is the  *)
(* auth last chosen, and config.toml has no address of the proxy and the   *)
(* lines of the user with other keys than the proxy's.                     *)
(***************************************************************************)
EXTENDS ProxyMode, TLAPS

-----------------------------------------------------------------------------
(* What holds of every workload, overlapping or not *)

\* Where each operation can be, and the local variables of an actor.
Sites ==
  [none    |-> {"idle"},
   enable  |-> {"start", "started", "inspect", "backupAuth", "backupConf", "raw", "synth",
                "live", "save"},
   tick    |-> {"look", "raw", "synth", "live", "save"},
   disable |-> {"restoreAuth", "restoreConf", "clean", "status", "off"},
   switch  |-> {"select", "selectAuth", "selectConf", "selectSave",
                "switch", "switchAuth", "switchConf"},
   select  |-> {"select", "selectAuth", "selectConf", "selectSave"},
   stop    |-> {"kill", "stopped", "reread", "rewrite"}]
Ops == {"none", "enable", "tick", "disable", "switch", "select", "stop"}
Places == {"idle", "start", "started", "inspect", "backupAuth", "backupConf", "raw",
           "synth", "live", "save", "look", "restoreAuth", "restoreConf", "clean",
           "status", "off", "select", "selectAuth", "selectConf", "selectSave",
           "switch", "switchAuth", "switchConf", "kill", "stopped", "reread", "rewrite"}
Mems == [op : Ops, to : Accounts \cup {NoFile}, state : States \cup {NoFile},
         was : BOOLEAN, auth : BOOLEAN, conf : BOOLEAN, raw : Configs]

FilesTyped ==
  /\ auth \in Auths /\ authBak \in Auths /\ conf \in Configs /\ confBak \in Configs
  /\ state \in States \cup {NoFile}
  /\ chosen \subseteq Accounts \cup {NoFile} /\ mode \in {"direct", "proxied", "half"}
ActorsTyped ==
  /\ pc \in [Actors -> Places] /\ mem \in [Actors -> Mems]
  /\ daemon \in {"off", "up", "down"} /\ lock \in Actors \cup {NoProc} /\ load \in Loads

\* With other lines of the user in config.toml at first, every file and every value
\* read from one has them, and no state says that there was no config.toml.
FilesOfUser ==
  custom => /\ conf # NoFile /\ conf.user
            /\ confBak # NoFile => confBak.user
            /\ state # NoFile => ~state.noConf

\* An actor is where its operation can be, what it holds can be used there, and it
\* has the lock if its operation takes it.
Fits(m, at) ==
  /\ at \in Sites[m.op]
  /\ at = "idle" => m = Idle
  /\ m.op = "tick" \/ at \in {"started", "selectSave", "kill", "stopped", "rewrite"} =>
       m.state # NoFile
  /\ m.op \in {"switch", "select"} => m.to \in Accounts
  /\ custom => /\ m.state # NoFile => ~m.state.noConf
               /\ at \in {"backupAuth", "backupConf", "raw", "synth", "live", "save"} => m.conf
               /\ at \in {"synth", "live"} => m.raw # NoFile /\ m.raw.user
Holds(p) ==
  /\ Fits(mem[p], pc[p])
  /\ pc[p] # "idle" /\ Locking(p, mem[p].op) => lock = p
  /\ mem[p].op = "enable" => p \notin {Daemon, Server}

Base ==
  /\ FilesTyped /\ ActorsTyped /\ FilesOfUser
  /\ \A p \in Actors : Holds(p)

-----------------------------------------------------------------------------
(* A step of one actor leaves the others as they are, or idle *)

Resting(q) == pc'[q] = "idle" /\ mem'[q] = Idle
Apart(p) ==
  /\ \A q \in Actors \ {p} : (pc'[q] = pc[q] /\ mem'[q] = mem[q]) \/ Resting(q)
  /\ \/ lock' = lock
     \/ lock = NoProc /\ lock' = p
     \/ lock = p /\ lock' = NoProc
  /\ custom' = custom

LEMMA OthersHold ==
  ASSUME Base, NEW p \in Actors, Apart(p), NEW q \in Actors \ {p}
  PROVE  Holds(q)'
<1>1. CASE Resting(q)
  BY <1>1 DEF Resting, Holds, Fits, Sites, Idle
<1>2. CASE pc'[q] = pc[q] /\ mem'[q] = mem[q]
  <2>1. Holds(q)  BY DEF Base
  <2>2. lock = q => lock' = q
    BY ProxyModeAssumption DEF Apart, Actors
  <2> QED  BY <1>2, <2>1, <2>2 DEF Holds, Fits, Apart, Locking
<1> QED  BY <1>1, <1>2 DEF Apart

LEMMA Together ==
  ASSUME Base, NEW p \in Actors, Apart(p), FilesTyped', ActorsTyped', FilesOfUser', Holds(p)'
  PROVE  Base'
BY OthersHold DEF Base

\* p moves: its place, its local variables and the lock, if it takes or releases it.
Moves(p, m, to) ==
  /\ mem' = [mem EXCEPT ![p] = m]
  /\ pc' = [pc EXCEPT ![p] = to]
  /\ \/ lock' = lock
     \/ lock = NoProc /\ lock' = p
     \/ lock = p /\ lock' = NoProc
  /\ load' = load /\ custom' = custom

LEMMA MovesOnly ==
  ASSUME Base, NEW p \in Actors, NEW m \in Mems, NEW to \in Places, Moves(p, m, to)
  PROVE  /\ Apart(p) /\ mem'[p] = m /\ pc'[p] = to
         /\ daemon' \in {"off", "up", "down"} => ActorsTyped'
         /\ \A q \in Actors \ {p} : pc'[q] = pc[q] /\ mem'[q] = mem[q]
<1>1. pc \in [Actors -> Places] /\ mem \in [Actors -> Mems]  BY DEF Base, ActorsTyped
<1>2. mem'[p] = m /\ pc'[p] = to  BY <1>1 DEF Moves
<1>3. \A q \in Actors \ {p} : pc'[q] = pc[q] /\ mem'[q] = mem[q]  BY <1>1 DEF Moves
<1>4. pc' \in [Actors -> Places] /\ mem' \in [Actors -> Mems]  BY <1>1 DEF Moves
<1>5. Apart(p)  BY <1>3 DEF Apart, Moves
<1> QED  BY <1>2, <1>3, <1>4, <1>5 DEF Base, ActorsTyped, Moves

\* What is known of an actor.
LEMMA Typed ==
  ASSUME Base, NEW p \in Actors
  PROVE  /\ mem[p] \in Mems /\ Holds(p) /\ FilesTyped /\ FilesOfUser
         /\ NoFile \notin States /\ NoFile \notin Toml
         /\ Idle \in Mems /\ Fresh \in States
         /\ Synth \notin Accounts \cup {NoFile} /\ NoFile \notin Accounts
BY ProxyModeAssumption, NoFileAssumption
   DEF Base, ActorsTyped, Idle, Mems, Ops, Configs, Fresh, States

-----------------------------------------------------------------------------
(* Every step keeps Base *)

\* An operation that ends, or goes on, without a write.
LEMMA FinishRests ==
  ASSUME Base, NEW p \in Actors, Finish(p), custom' = custom, load' = load
  PROVE  Moves(p, Idle, "idle")
BY DEF Finish, Moves, Goto, Base, ActorsTyped

LEMMA FinishKeeps ==
  ASSUME Base, NEW p \in Actors, Finish(p), FilesTyped', FilesOfUser',
         custom' = custom, load' = load, daemon' = daemon
  PROVE  Base'
<1>1. Moves(p, Idle, "idle")  BY FinishRests
<1>2. Idle \in Mems /\ "idle" \in Places  BY Typed DEF Places
<1>3. Apart(p) /\ mem'[p] = Idle /\ pc'[p] = "idle" /\ ActorsTyped'
  BY <1>1, <1>2, MovesOnly DEF Base, ActorsTyped
<1>4. Holds(p)'  BY <1>3 DEF Holds, Fits, Sites, Idle
<1> QED  BY <1>3, <1>4, Together

LEMMA GoesOnKeeps ==
  ASSUME Base, NEW p \in Actors, pc[p] # "idle",
         NEW m \in Mems, NEW to \in Places \ {"idle"}, Continue(p, m, to),
         m.op = mem[p].op, Fits(m, to), FilesTyped', FilesOfUser',
         custom' = custom, load' = load, daemon' = daemon
  PROVE  Base' /\ mem'[p] = m /\ pc'[p] = to
<1>1. Moves(p, m, to)  BY DEF Continue, Moves, Goto
<1>2. Apart(p) /\ mem'[p] = m /\ pc'[p] = to /\ lock' = lock /\ ActorsTyped'
  BY <1>1, MovesOnly DEF Continue, Base, ActorsTyped
<1>3. /\ Locking(p, mem[p].op) => lock = p
      /\ mem[p].op = "enable" => p \notin {Daemon, Server}
  BY DEF Base, Holds
<1>4. Fits(m, to)'  BY <1>2 DEF Fits, Apart
<1>5. Holds(p)'  BY <1>2, <1>3, <1>4 DEF Holds, Locking
<1> QED  BY <1>2, <1>5, Together

LEMMA StartsKeep ==
  ASSUME Base, NEW p \in Actors, NEW op \in Ops, NEW m \in Mems,
         NEW to \in Places \ {"idle"}, Begin(p, op, m, to),
         Fits([m EXCEPT !.op = op], to), FilesTyped', FilesOfUser',
         op = "enable" => p \notin {Daemon, Server},
         custom' = custom, load' = load, daemon' \in {"off", "up", "down"}
  PROVE  Base' /\ mem'[p] = [m EXCEPT !.op = op] /\ pc'[p] = to
<1> DEFINE n == [m EXCEPT !.op = op]
<1>1. n \in Mems /\ n.op = op  BY DEF Mems
<1>2. Moves(p, n, to)  BY DEF Begin, Moves, Goto
<1> HIDE DEF n
<1>3. Apart(p) /\ mem'[p] = n /\ pc'[p] = to /\ ActorsTyped'
  BY <1>1, <1>2, MovesOnly
<1>4. Locking(p, op) => lock' = p  BY DEF Begin
<1>5. Fits(n, to)  BY DEF n
<1>6. Fits(n, to)'  BY <1>3, <1>5 DEF Fits, Apart
<1>7. Holds(p)'  BY <1>1, <1>3, <1>4, <1>6 DEF Holds, Locking
<1>8. Base'  BY <1>3, <1>7, Together
<1> QED  BY <1>3, <1>8 DEF n

\* Files that a step leaves alone.
LEMMA SameFiles ==
  ASSUME Base, UNCHANGED <<files, custom>>,
         chosen' \subseteq Accounts \cup {NoFile}, mode' \in {"direct", "proxied", "half"}
  PROVE  FilesTyped' /\ FilesOfUser'
BY DEF Base, FilesTyped, FilesOfUser, files

\* What is done where.
LEMMA Doing ==
  ASSUME Base, NEW p \in Actors
  PROVE  /\ pc[p] \in {"start", "started", "inspect", "backupAuth", "backupConf"} =>
              mem[p].op = "enable"
         /\ pc[p] \in {"raw", "synth", "live", "save"} => mem[p].op \in {"enable", "tick"}
         /\ pc[p] = "look" => mem[p].op = "tick"
         /\ pc[p] \in {"restoreAuth", "restoreConf", "clean", "status", "off"} =>
              mem[p].op = "disable"
         /\ pc[p] \in {"select", "selectAuth", "selectConf", "selectSave"} =>
              mem[p].op \in {"switch", "select"}
         /\ pc[p] \in {"switch", "switchAuth", "switchConf"} => mem[p].op = "switch"
         /\ pc[p] \in {"kill", "stopped", "reread", "rewrite"} => mem[p].op = "stop"
<1>1. mem[p].op \in Ops  BY Typed DEF Mems
<1>2. pc[p] \in Sites[mem[p].op]  BY DEF Base, Holds, Fits
<1> QED  BY <1>1, <1>2 DEF Ops, Sites

LEMMA EnableBegins ==
  ASSUME Base, NEW p \in Actors, EnableBegin(p)
  PROVE  Base'
<1>1. Begin(p, "enable", Idle, "start") /\ daemon' = "up"
      /\ UNCHANGED <<files, load, history>>
  BY DEF EnableBegin
<1>2. FilesTyped' /\ FilesOfUser'
  BY <1>1, SameFiles DEF history, Base, FilesTyped
<1>3. Fits([Idle EXCEPT !.op = "enable"], "start")  BY Typed DEF Fits, Sites, Idle
<1>4. Idle \in Mems  BY Typed
<1>5. p \notin {Daemon, Server}
  BY ProxyModeAssumption DEF EnableBegin, Base, ActorsTyped
<1> QED  BY <1>1, <1>2, <1>3, <1>4, <1>5, StartsKeep DEF Ops, Places, history

LEMMA StartReads ==
  ASSUME Base, NEW p \in Actors, StartRead(p)
  PROVE  Base'
<1> DEFINE m == [mem[p] EXCEPT !.state = IF state = NoFile THEN Fresh ELSE state]
<1>1. pc[p] = "start" /\ Continue(p, m, "started")
      /\ UNCHANGED <<files, daemon, load, used, history>>
  BY DEF StartRead, At
<1>2. FilesTyped' /\ FilesOfUser'
  BY <1>1, SameFiles DEF history, Base, FilesTyped
<1>3. m \in Mems /\ m.op = mem[p].op  BY Typed DEF Mems, FilesTyped
<1>4. m.state # NoFile /\ (custom => ~m.state.noConf)
  BY Typed DEF Mems, FilesOfUser, Fresh
<1>5. mem[p].op = "enable"  BY <1>1, Doing
<1> HIDE DEF m
<1>6. Fits(m, "started")  BY <1>3, <1>4, <1>5 DEF Fits, Sites
<1> QED  BY <1>1, <1>2, <1>3, <1>6, GoesOnKeeps DEF Places, history

LEMMA StartWrites ==
  ASSUME Base, NEW p \in Actors, StartWrite(p)
  PROVE  Base'
<1>1. pc[p] = "started" /\ state' = mem[p].state /\ Continue(p, mem[p], "inspect")
      /\ UNCHANGED <<auth, conf, authBak, confBak, daemon, load, used, history>>
  BY DEF StartWrite, At
<1>2. mem[p] \in Mems /\ mem[p].op = "enable" /\ Fits(mem[p], "started")
  BY <1>1, Doing, Typed DEF Holds
<1>3. FilesTyped' /\ FilesOfUser'
  BY <1>1, <1>2 DEF history, Base, FilesTyped, FilesOfUser, Fits, Mems
<1>4. Fits(mem[p], "inspect")  BY <1>2 DEF Fits, Sites
<1> QED  BY <1>1, <1>2, <1>3, <1>4, GoesOnKeeps DEF Places, history

LEMMA Inspects ==
  ASSUME Base, NEW p \in Actors, Inspect(p)
  PROVE  Base'
<1> DEFINE m == [mem[p] EXCEPT !.was = auth = Synth, !.auth = auth # NoFile, !.conf = conf # NoFile]
           to == IF auth = Synth THEN "raw" ELSE "backupAuth"
<1>1. pc[p] = "inspect" /\ Continue(p, m, to)
      /\ UNCHANGED <<files, daemon, load, used, chosen, mode, custom>>
  BY DEF Inspect, At
<1>2. FilesTyped' /\ FilesOfUser'  BY <1>1, SameFiles DEF Base, FilesTyped
<1>3. mem[p].op = "enable" /\ Fits(mem[p], "inspect")  BY <1>1, Doing, Typed DEF Holds
<1>4. m \in Mems /\ m.op = mem[p].op /\ m.state = mem[p].state /\ (custom => m.conf)
  BY Typed DEF Mems, FilesOfUser
<1>5. to \in {"raw", "backupAuth"}  OBVIOUS
<1> HIDE DEF m, to
<1>6. Fits(m, to)  BY <1>3, <1>4, <1>5 DEF Fits, Sites
<1> QED  BY <1>1, <1>2, <1>4, <1>5, <1>6, GoesOnKeeps DEF Places

LEMMA BackupAuths ==
  ASSUME Base, NEW p \in Actors, BackupAuth(p)
  PROVE  Base'
<1>1. pc[p] = "backupAuth"
      /\ UNCHANGED <<auth, conf, confBak, state, daemon, load, used, mode, repeated, custom>>
  BY DEF BackupAuth, At
<1>2. CASE Finish(p) /\ UNCHANGED <<authBak, chosen>>
  <2>1. FilesTyped' /\ FilesOfUser'
    BY <1>1, <1>2, SameFiles DEF files, Base, FilesTyped
  <2> QED  BY <1>1, <1>2, <2>1, FinishKeeps
<1>3. CASE /\ authBak' = IF mem[p].auth THEN auth ELSE NoFile
           /\ chosen' = IF authBak' = Synth THEN chosen ELSE {authBak'}
           /\ Continue(p, mem[p], "backupConf")
  <2>1. authBak' \in Auths  BY <1>3 DEF Base, FilesTyped, Auths
  <2>2. FilesTyped' /\ FilesOfUser'
    BY <1>1, <1>3, <2>1 DEF Base, FilesTyped, FilesOfUser, Auths
  <2>3. mem[p] \in Mems /\ mem[p].op = "enable" /\ Fits(mem[p], "backupAuth")
    BY <1>1, Doing, Typed DEF Holds
  <2>4. Fits(mem[p], "backupConf")  BY <2>3 DEF Fits, Sites
  <2> QED  BY <1>1, <1>3, <2>2, <2>3, <2>4, GoesOnKeeps DEF Places
<1> QED  BY <1>2, <1>3 DEF BackupAuth

LEMMA BackupConfs ==
  ASSUME Base, NEW p \in Actors, BackupConf(p)
  PROVE  Base'
<1>1. pc[p] = "backupConf"
      /\ UNCHANGED <<auth, conf, authBak, state, daemon, load, used, chosen, mode, custom>>
  BY DEF BackupConf, At
<1>2. CASE Finish(p) /\ UNCHANGED confBak
  <2>1. FilesTyped' /\ FilesOfUser'
    BY <1>1, <1>2, SameFiles DEF files, Base, FilesTyped
  <2> QED  BY <1>1, <1>2, <2>1, FinishKeeps
<1>3. CASE /\ confBak' = IF mem[p].conf THEN conf ELSE NoFile
           /\ Continue(p, mem[p], "raw")
  <2>1. FilesTyped' /\ FilesOfUser'
    BY <1>1, <1>3 DEF Base, FilesTyped, FilesOfUser, Configs
  <2>2. mem[p] \in Mems /\ mem[p].op = "enable" /\ Fits(mem[p], "backupConf")
    BY <1>1, Doing, Typed DEF Holds
  <2>3. Fits(mem[p], "raw")  BY <2>2 DEF Fits, Sites
  <2> QED  BY <1>1, <1>3, <2>1, <2>2, <2>3, GoesOnKeeps DEF Places
<1> QED  BY <1>2, <1>3 DEF BackupConf

LEMMA ReadConfs ==
  ASSUME Base, NEW p \in Actors, ReadConf(p)
  PROVE  Base'
<1> DEFINE m == [mem[p] EXCEPT !.raw = IF mem[p].conf THEN conf ELSE NoFile]
<1>1. pc[p] = "raw" /\ UNCHANGED <<files, daemon, load, used, history>>
  BY DEF ReadConf, At
<1>2. FilesTyped' /\ FilesOfUser'  BY <1>1, SameFiles DEF history, Base, FilesTyped
<1>3. CASE Finish(p)
  BY <1>1, <1>2, <1>3, FinishKeeps DEF history
<1>4. CASE Continue(p, m, "synth")
  <2>1. mem[p] \in Mems /\ mem[p].op \in {"enable", "tick"} /\ Fits(mem[p], "raw")
    BY <1>1, Doing, Typed DEF Holds
  <2>2. m \in Mems /\ m.op = mem[p].op /\ m.state = mem[p].state /\ m.conf = mem[p].conf
        /\ (mem[p].conf => m.raw = conf)
    BY <2>1 DEF Base, FilesTyped, Mems, Configs
  <2> HIDE DEF m
  <2>3. Fits(m, "synth")  BY <2>1, <2>2 DEF Fits, Sites, Base, FilesOfUser
  <2> QED  BY <1>1, <1>2, <1>4, <2>2, <2>3, GoesOnKeeps DEF Places, history
<1> QED  BY <1>3, <1>4 DEF ReadConf

LEMMA WriteSynths ==
  ASSUME Base, NEW p \in Actors, WriteSynth(p)
  PROVE  Base'
<1>1. pc[p] = "synth" /\ auth' = Synth /\ Continue(p, mem[p], "live")
      /\ UNCHANGED <<conf, authBak, confBak, state, daemon, load, used, history>>
  BY DEF WriteSynth, At
<1>2. FilesTyped' /\ FilesOfUser'
  BY <1>1 DEF history, Base, FilesTyped, FilesOfUser, Auths
<1>3. mem[p] \in Mems /\ mem[p].op \in {"enable", "tick"} /\ Fits(mem[p], "synth")
  BY <1>1, Doing, Typed DEF Holds
<1>4. Fits(mem[p], "live")  BY <1>3 DEF Fits, Sites
<1> QED  BY <1>1, <1>2, <1>3, <1>4, GoesOnKeeps DEF Places, history

LEMMA WriteLives ==
  ASSUME Base, NEW p \in Actors, WriteLive(p)
  PROVE  Base'
<1>1. pc[p] = "live" /\ conf' = Live(mem[p].raw) /\ Continue(p, mem[p], "save")
      /\ UNCHANGED <<auth, authBak, confBak, state, daemon, load, used, history>>
  BY DEF WriteLive, At
<1>2. mem[p] \in Mems /\ mem[p].op \in {"enable", "tick"} /\ Fits(mem[p], "live")
  BY <1>1, Doing, Typed DEF Holds
<1>3. mem[p].raw \in Configs  BY <1>2 DEF Mems
<1>4. conf' \in Toml /\ (mem[p].raw # NoFile /\ mem[p].raw.user => conf'.user)
  BY <1>1, <1>3 DEF Live, Stripped, Empty, Configs, Toml
<1>5. FilesTyped'  BY <1>1, <1>4 DEF history, Base, FilesTyped, Configs
<1>6. FilesOfUser'
  BY <1>1, <1>2, <1>4, Typed DEF history, FilesOfUser, Fits
<1>7. Fits(mem[p], "save")  BY <1>2 DEF Fits, Sites
<1> QED  BY <1>1, <1>2, <1>5, <1>6, <1>7, GoesOnKeeps DEF Places, history

LEMMA SaveEnableds ==
  ASSUME Base, NEW p \in Actors, SaveEnabled(p)
  PROVE  Base'
<1>1. pc[p] = "save" /\ Finish(p)
      /\ UNCHANGED <<auth, conf, authBak, confBak, daemon, load, used, chosen, repeated, custom>>
      /\ mode' = IF mem[p].op = "enable" THEN "proxied" ELSE mode
  BY DEF SaveEnabled, At
<1>2. mem[p] \in Mems /\ mem[p].op \in {"enable", "tick"} /\ Fits(mem[p], "save")
  BY <1>1, Doing, Typed DEF Holds
<1>3. state' \in States /\ (custom => ~state'.noConf)
  <2>1. CASE mem[p].op = "tick"
    <3>1. mem[p].state \in States  BY <1>2, <2>1 DEF Fits, Mems
    <3>2. state' = [mem[p].state EXCEPT !.enabled = TRUE]  BY <2>1 DEF SaveEnabled
    <3>3. state' \in States /\ state'.noConf = mem[p].state.noConf
      BY <3>1, <3>2 DEF States
    <3> QED  BY <1>2, <2>1, <3>3 DEF Fits
  <2>2. CASE mem[p].op # "tick"
    BY <1>2, <2>2 DEF SaveEnabled, States, Mems, Fits
  <2> QED  BY <2>1, <2>2
<1>4. FilesTyped' /\ FilesOfUser'
  BY <1>1, <1>3 DEF Base, FilesTyped, FilesOfUser
<1> QED  BY <1>1, <1>4, FinishKeeps

LEMMA TickReads ==
  ASSUME Base, TickRead
  PROVE  Base'
<1> DEFINE m == [Idle EXCEPT !.state = state]
           n == [m EXCEPT !.op = "tick"]
<1>1. Enabled /\ Begin(Daemon, "tick", m, "look")
      /\ UNCHANGED <<files, daemon, load, used, history>>
  BY DEF TickRead
<1>2. FilesTyped' /\ FilesOfUser'  BY <1>1, SameFiles DEF history, Base, FilesTyped
<1>3. Daemon \in Actors  BY DEF Actors
<1>4. Idle \in Mems  BY <1>3, Typed
<1>5. m \in Mems  BY <1>4 DEF Mems, Base, FilesTyped
<1>6. n.op = "tick" /\ n.state = state  BY <1>4 DEF Mems
<1>7. Fits(n, "look")  BY <1>1, <1>6 DEF Fits, Sites, Enabled, Base, FilesOfUser
<1> QED  BY <1>1, <1>2, <1>3, <1>5, <1>7, StartsKeep DEF Ops, Places, history, Base, ActorsTyped

LEMMA TickLooks ==
  ASSUME Base, TickLook
  PROVE  Base'
<1> DEFINE p == Daemon
           m == [mem[p] EXCEPT !.conf = conf # NoFile]
<1>1. pc[p] = "look" /\ UNCHANGED <<files, daemon, load, used, history>>
  BY DEF TickLook, At
<1>2. FilesTyped' /\ FilesOfUser'  BY <1>1, SameFiles DEF history, Base, FilesTyped
<1>3. p \in Actors  BY DEF Actors
<1>4. CASE Finish(p)
  BY <1>1, <1>2, <1>3, <1>4, FinishKeeps DEF history
<1>5. CASE Continue(p, m, "raw")
  <2>1. mem[p] \in Mems /\ mem[p].op = "tick" /\ Fits(mem[p], "look")
    BY <1>1, <1>3, Doing, Typed DEF Holds
  <2>2. m \in Mems /\ m.op = mem[p].op /\ m.state = mem[p].state /\ (custom => m.conf)
    BY <2>1 DEF Base, FilesOfUser, Mems
  <2> HIDE DEF m
  <2>3. Fits(m, "raw")  BY <2>1, <2>2 DEF Fits, Sites
  <2> QED  BY <1>1, <1>2, <1>3, <1>5, <2>2, <2>3, GoesOnKeeps DEF Places, history
<1> QED  BY <1>4, <1>5 DEF TickLook

LEMMA DisableBegins ==
  ASSUME Base, NEW p \in Actors, DisableBegin(p)
  PROVE  Base'
<1> DEFINE m == [Idle EXCEPT !.state = state]
           n == [m EXCEPT !.op = "disable"]
<1>1. Begin(p, "disable", m, "restoreAuth")
      /\ UNCHANGED <<files, daemon, load, chosen, mode, custom>>
  BY DEF DisableBegin
<1>2. FilesTyped' /\ FilesOfUser'  BY <1>1, SameFiles DEF Base, FilesTyped
<1>3. Idle \in Mems  BY Typed
<1>4. m \in Mems  BY <1>3 DEF Mems, Base, FilesTyped
<1>5. n.op = "disable" /\ n.state = state  BY <1>3 DEF Mems
<1>6. Fits(n, "restoreAuth")  BY <1>5 DEF Fits, Sites, Base, FilesOfUser
<1> QED  BY <1>1, <1>2, <1>4, <1>6, StartsKeep DEF Ops, Places, Base, ActorsTyped

LEMMA RestoreAuths ==
  ASSUME Base, NEW p \in Actors, RestoreAuth(p)
  PROVE  Base'
<1>1. pc[p] = "restoreAuth" /\ Continue(p, mem[p], "restoreConf")
      /\ UNCHANGED <<conf, authBak, confBak, state, daemon, load, used, history>>
  BY DEF RestoreAuth, At
<1>2. auth' \in {NoFile, authBak, auth}  BY DEF RestoreAuth
<1>3. FilesTyped' /\ FilesOfUser'
  BY <1>1, <1>2 DEF history, Base, FilesTyped, FilesOfUser, Auths
<1>4. mem[p] \in Mems /\ mem[p].op = "disable" /\ Fits(mem[p], "restoreAuth")
  BY <1>1, Doing, Typed DEF Holds
<1>5. Fits(mem[p], "restoreConf")  BY <1>4 DEF Fits, Sites
<1> QED  BY <1>1, <1>3, <1>4, <1>5, GoesOnKeeps DEF Places, history

LEMMA RestoreConfs ==
  ASSUME Base, NEW p \in Actors, RestoreConf(p)
  PROVE  Base'
<1> DEFINE s == mem[p].state
           copied == s # NoFile /\ s.confBak /\ confBak # NoFile
           m == [mem[p] EXCEPT !.conf = copied]
<1>1. pc[p] = "restoreConf"
      /\ UNCHANGED <<auth, authBak, confBak, state, daemon, load, used, history>>
  BY DEF RestoreConf, At
<1>2. mem[p] \in Mems /\ mem[p].op = "disable" /\ Fits(mem[p], "restoreConf")
  BY <1>1, Doing, Typed DEF Holds
<1>3. CASE s # NoFile /\ s.noConf
  <2>1. conf' = NoFile /\ Continue(p, mem[p], "status")  BY <1>3 DEF RestoreConf
  <2>2. ~custom  BY <1>2, <1>3 DEF Fits
  <2>3. FilesTyped' /\ FilesOfUser'
    BY <1>1, <2>1, <2>2 DEF history, Base, FilesTyped, FilesOfUser, Configs
  <2>4. Fits(mem[p], "status")  BY <1>2 DEF Fits, Sites
  <2> QED  BY <1>1, <1>2, <2>1, <2>3, <2>4, GoesOnKeeps DEF Places, history
<1>4. CASE ~(s # NoFile /\ s.noConf)
  <2>1. conf' = (IF copied THEN confBak ELSE conf) /\ Continue(p, m, "clean")
    BY <1>4 DEF RestoreConf
  <2>2. FilesTyped' /\ FilesOfUser'
    BY <1>1, <2>1 DEF history, Base, FilesTyped, FilesOfUser
  <2>3. m \in Mems /\ m.op = mem[p].op /\ m.state = mem[p].state
    <3>1. copied \in BOOLEAN  BY <1>2 DEF Mems, States
    <3> QED  BY <1>2, <3>1 DEF Mems
  <2> HIDE DEF m
  <2>4. Fits(m, "clean")  BY <1>2, <2>3 DEF Fits, Sites
  <2> QED  BY <1>1, <2>1, <2>2, <2>3, <2>4, GoesOnKeeps DEF Places, history
<1> QED  BY <1>3, <1>4

\* What is written when the lines of the proxy are taken out, of a backup that was
\* restored or of the config.toml that is there.
Cleans(p) ==
  /\ mem[p].conf => conf # NoFile
  /\ conf' = IF mem[p].conf THEN SanitizedBackup(conf) ELSE Sanitized(conf)

LEMMA CleanOfUser ==
  ASSUME Base, NEW p \in Actors, Cleans(p)
  PROVE  /\ conf' \in Configs
         /\ conf # NoFile /\ conf.user => conf' # NoFile /\ conf'.user
         /\ conf' # NoFile => ~conf'.proxy
<1>1. CASE conf = NoFile
  BY <1>1 DEF Cleans, Sanitized, Configs
<1>2. CASE conf # NoFile
  <2> DEFINE kept == IF mem[p].conf THEN [conf EXCEPT !.proxy = FALSE] ELSE Stripped(conf)
  <2>1. conf \in Toml  BY <1>2 DEF Base, FilesTyped, Configs
  <2>2. kept \in Toml /\ kept.user = conf.user /\ ~kept.proxy
    BY <2>1 DEF Stripped, Toml
  <2>3. conf' = OrNoFile(kept)  BY <1>2 DEF Cleans, SanitizedBackup, Sanitized
  <2> HIDE DEF kept
  <2>4. kept.user => kept # Empty  BY DEF Empty
  <2>5. kept # NoFile  BY <2>2, Typed
  <2> QED  BY <2>2, <2>3, <2>4, <2>5 DEF OrNoFile, Configs
<1> QED  BY <1>1, <1>2

LEMMA CleanConfs ==
  ASSUME Base, NEW p \in Actors, CleanConf(p)
  PROVE  Base'
<1>1. pc[p] = "clean"
      /\ UNCHANGED <<auth, authBak, confBak, state, daemon, load, used, chosen, mode, custom>>
  BY DEF CleanConf, Cleaning, At
<1>2. CASE Finish(p) /\ UNCHANGED conf
  <2>1. FilesTyped' /\ FilesOfUser'
    BY <1>1, <1>2, SameFiles DEF files, Base, FilesTyped
  <2> QED  BY <1>1, <1>2, <2>1, FinishKeeps
<1>3. CASE Cleans(p) /\ Continue(p, mem[p], "status")
  <2>1. conf' \in Configs /\ (conf # NoFile /\ conf.user => conf' # NoFile /\ conf'.user)
    BY <1>3, CleanOfUser
  <2>2. FilesTyped' /\ FilesOfUser'
    BY <1>1, <2>1 DEF Base, FilesTyped, FilesOfUser
  <2>3. mem[p] \in Mems /\ mem[p].op = "disable" /\ Fits(mem[p], "clean")
    BY <1>1, Doing, Typed DEF Holds
  <2>4. Fits(mem[p], "status")  BY <2>3 DEF Fits, Sites
  <2> QED  BY <1>1, <1>3, <2>2, <2>3, <2>4, GoesOnKeeps DEF Places
<1> QED  BY <1>2, <1>3, <1>1 DEF CleanConf, Cleaning, Cleans

LEMMA StatusReads ==
  ASSUME Base, NEW p \in Actors, StatusRead(p)
  PROVE  Base'
<1> DEFINE found == IF state # NoFile THEN state
                    ELSE IF daemon = "up" THEN Fresh ELSE mem[p].state
           m == [mem[p] EXCEPT !.state = found]
<1>1. pc[p] = "status" /\ Continue(p, m, "off")
      /\ UNCHANGED <<files, daemon, load, used, history>>
  BY DEF StatusRead, At
<1>2. FilesTyped' /\ FilesOfUser'  BY <1>1, SameFiles DEF history, Base, FilesTyped
<1>3. mem[p] \in Mems /\ mem[p].op = "disable" /\ Fits(mem[p], "status")
  BY <1>1, Doing, Typed DEF Holds
<1>4. found \in States \cup {NoFile}  BY <1>3, Typed DEF Mems, FilesTyped
<1>5. custom /\ found # NoFile => ~found.noConf
  BY <1>3 DEF Fits, Base, FilesOfUser, Fresh
<1> HIDE DEF found
<1>6. m \in Mems /\ m.op = mem[p].op /\ m.state = found  BY <1>3, <1>4 DEF Mems
<1> HIDE DEF m
<1>7. Fits(m, "off")  BY <1>3, <1>5, <1>6 DEF Fits, Sites
<1> QED  BY <1>1, <1>2, <1>6, <1>7, GoesOnKeeps DEF Places, history

LEMMA SaveDisableds ==
  ASSUME Base, NEW p \in Actors, SaveDisabled(p)
  PROVE  Base'
<1>1. pc[p] = "off" /\ Finish(p)
      /\ UNCHANGED <<auth, conf, authBak, confBak, daemon, load, used, chosen, repeated, custom>>
      /\ mode' \in {"half", "direct"}
      /\ state' = IF mem[p].state = NoFile THEN state ELSE [mem[p].state EXCEPT !.enabled = FALSE]
  BY DEF SaveDisabled, At
<1>2. mem[p] \in Mems /\ Fits(mem[p], "off")  BY <1>1, Typed DEF Holds
<1>3. state' \in States \cup {NoFile} /\ (custom /\ state' # NoFile => ~state'.noConf)
  <2>1. CASE mem[p].state = NoFile  BY <1>1, <2>1 DEF Base, FilesTyped, FilesOfUser
  <2>2. CASE mem[p].state # NoFile
    <3>1. mem[p].state \in States  BY <1>2, <2>2 DEF Mems
    <3>2. state' \in States /\ state'.noConf = mem[p].state.noConf
      BY <1>1, <2>2, <3>1 DEF States
    <3> QED  BY <1>2, <2>2, <3>2 DEF Fits
  <2> QED  BY <2>1, <2>2
<1>4. FilesTyped' /\ FilesOfUser'
  BY <1>1, <1>3 DEF Base, FilesTyped, FilesOfUser
<1> QED  BY <1>1, <1>4, FinishKeeps

LEMMA SwitchBegins ==
  ASSUME Base, NEW p \in Actors, NEW a \in Accounts, SwitchBegin(p, a)
  PROVE  Base'
<1> DEFINE m == [Idle EXCEPT !.to = a]
           n == [m EXCEPT !.op = "switch"]
           to == IF auth = Synth THEN "select" ELSE "switch"
<1>1. Begin(p, "switch", m, to) /\ UNCHANGED <<files, daemon, load, history>>
  BY DEF SwitchBegin
<1>2. FilesTyped' /\ FilesOfUser'  BY <1>1, SameFiles DEF history, Base, FilesTyped
<1>3. Idle \in Mems  BY Typed
<1>4. m \in Mems  BY <1>3 DEF Mems
<1>5. n.op = "switch" /\ n.state = NoFile /\ n.to = a  BY <1>3 DEF Mems, Idle
<1>6. Fits(n, to)  BY <1>5 DEF Fits, Sites
<1> QED  BY <1>1, <1>2, <1>4, <1>6, StartsKeep DEF Ops, Places, history, Base, ActorsTyped

LEMMA SwitchLooks ==
  ASSUME Base, NEW p \in Actors, SwitchLook(p)
  PROVE  Base'
<1> DEFINE m == [mem[p] EXCEPT !.was = auth = Synth]
<1>1. pc[p] = "switch" /\ Continue(p, m, "switchAuth")
      /\ UNCHANGED <<files, daemon, load, used, history>>
  BY DEF SwitchLook, At
<1>2. FilesTyped' /\ FilesOfUser'  BY <1>1, SameFiles DEF history, Base, FilesTyped
<1>3. mem[p] \in Mems /\ mem[p].op = "switch" /\ Fits(mem[p], "switch")
  BY <1>1, Doing, Typed DEF Holds
<1>4. m \in Mems /\ m.op = mem[p].op /\ m.state = mem[p].state /\ m.to = mem[p].to
  BY <1>3 DEF Mems
<1> HIDE DEF m
<1>5. Fits(m, "switchAuth")  BY <1>3, <1>4 DEF Fits, Sites
<1> QED  BY <1>1, <1>2, <1>4, <1>5, GoesOnKeeps DEF Places, history

LEMMA SwitchAuths ==
  ASSUME Base, NEW p \in Actors, SwitchAuth(p)
  PROVE  Base'
<1>1. pc[p] = "switchAuth" /\ Continue(p, mem[p], "switchConf") /\ auth' = mem[p].to
      /\ chosen' \in {chosen, {mem[p].to}}
      /\ UNCHANGED <<conf, authBak, confBak, state, daemon, load, used, mode, repeated, custom>>
  BY DEF SwitchAuth, At
<1>2. mem[p] \in Mems /\ mem[p].op = "switch" /\ Fits(mem[p], "switchAuth")
  BY <1>1, Doing, Typed DEF Holds
<1>3. mem[p].to \in Accounts  BY <1>2 DEF Fits
<1>4. FilesTyped' /\ FilesOfUser'
  BY <1>1, <1>3 DEF Base, FilesTyped, FilesOfUser, Auths
<1>5. Fits(mem[p], "switchConf")  BY <1>2 DEF Fits, Sites
<1> QED  BY <1>1, <1>2, <1>4, <1>5, GoesOnKeeps DEF Places

LEMMA SwitchConfs ==
  ASSUME Base, NEW p \in Actors, SwitchConf(p)
  PROVE  Base'
<1> DEFINE source == IF mem[p].was /\ confBak # NoFile THEN confBak ELSE conf
<1>1. Finish(p) /\ UNCHANGED <<auth, authBak, confBak, state, daemon, load, used, history>>
      /\ conf' = IF conf = NoFile THEN NoFile
                 ELSE IF mem[p].was /\ source = conf THEN Stripped(source) ELSE source
  BY DEF SwitchConf
<1>2. source \in Configs /\ (custom => source # NoFile /\ source.user)
  BY DEF Base, FilesTyped, FilesOfUser
<1> HIDE DEF source
<1>3. conf' \in Configs /\ (custom => conf' # NoFile /\ conf'.user)
  BY <1>1, <1>2, Typed DEF Base, FilesTyped, FilesOfUser, Stripped, Configs, Toml
<1>4. FilesTyped' /\ FilesOfUser'
  BY <1>1, <1>3 DEF history, Base, FilesTyped, FilesOfUser
<1> QED  BY <1>1, <1>4, FinishKeeps DEF history

LEMMA ServerSelects ==
  ASSUME Base, NEW a \in Accounts, ServerSelect(a)
  PROVE  Base'
<1> DEFINE m == [Idle EXCEPT !.to = a]
           n == [m EXCEPT !.op = "select"]
<1>1. Begin(Server, "select", m, "select") /\ UNCHANGED <<files, daemon, load, history>>
  BY DEF ServerSelect
<1>2. FilesTyped' /\ FilesOfUser'  BY <1>1, SameFiles DEF history, Base, FilesTyped
<1>3. Server \in Actors  BY DEF Actors
<1>4. Idle \in Mems  BY <1>3, Typed
<1>5. m \in Mems  BY <1>4 DEF Mems
<1>6. n.op = "select" /\ n.state = NoFile /\ n.to = a  BY <1>4 DEF Mems, Idle
<1>7. Fits(n, "select")  BY <1>6 DEF Fits, Sites
<1> QED  BY <1>1, <1>2, <1>3, <1>5, <1>7, StartsKeep DEF Ops, Places, history, Base, ActorsTyped

LEMMA PersistReads ==
  ASSUME Base, NEW p \in Actors, PersistRead(p)
  PROVE  Base'
<1> DEFINE m == [mem[p] EXCEPT !.state = state]
<1>1. pc[p] = "select" /\ Continue(p, m, "selectAuth")
      /\ UNCHANGED <<files, daemon, load, used, history>>
  BY DEF PersistRead, At
<1>2. FilesTyped' /\ FilesOfUser'  BY <1>1, SameFiles DEF history, Base, FilesTyped
<1>3. mem[p] \in Mems /\ mem[p].op \in {"switch", "select"} /\ Fits(mem[p], "select")
  BY <1>1, Doing, Typed DEF Holds
<1>4. m \in Mems /\ m.op = mem[p].op /\ m.state = state /\ m.to = mem[p].to
  BY <1>3 DEF Mems, Base, FilesTyped
<1> HIDE DEF m
<1>5. Fits(m, "selectAuth")  BY <1>3, <1>4 DEF Fits, Sites, Base, FilesOfUser
<1> QED  BY <1>1, <1>2, <1>4, <1>5, GoesOnKeeps DEF Places, history

LEMMA PersistAuths ==
  ASSUME Base, NEW p \in Actors, PersistAuth(p)
  PROVE  Base'
<1>1. pc[p] = "selectAuth" /\ Continue(p, mem[p], "selectConf") /\ authBak' = mem[p].to
      /\ chosen' \in {chosen, chosen \cup {mem[p].to}}
      /\ UNCHANGED <<auth, conf, confBak, state, daemon, load, used, mode, repeated, custom>>
  BY DEF PersistAuth, At
<1>2. mem[p] \in Mems /\ mem[p].op \in {"switch", "select"} /\ Fits(mem[p], "selectAuth")
  BY <1>1, Doing, Typed DEF Holds
<1>3. mem[p].to \in Accounts  BY <1>2 DEF Fits
<1>4. FilesTyped' /\ FilesOfUser'
  BY <1>1, <1>3 DEF Base, FilesTyped, FilesOfUser, Auths
<1>5. Fits(mem[p], "selectConf")  BY <1>2 DEF Fits, Sites
<1> QED  BY <1>1, <1>2, <1>4, <1>5, GoesOnKeeps DEF Places

\* The config.toml a selection backs up has the other lines of the user.
Found(a) ==
  CASE a \in WithConfig -> [Empty EXCEPT !.user = TRUE]
    [] a \notin WithConfig /\ conf # NoFile -> Stripped(conf)
    [] a \notin WithConfig /\ conf = NoFile ->
         IF confBak = NoFile THEN NoFile ELSE Stripped(confBak)

LEMMA FoundOfUser ==
  ASSUME Base, NEW a
  PROVE  Found(a) \in Configs /\ (custom /\ Found(a) # NoFile => Found(a).user)
<1>1. CASE a \in WithConfig  BY <1>1 DEF Found, Empty, Configs, Toml
<1>2. CASE a \notin WithConfig /\ conf # NoFile
  BY <1>2 DEF Found, Stripped, Base, FilesTyped, FilesOfUser, Configs, Toml
<1>3. CASE a \notin WithConfig /\ conf = NoFile /\ confBak = NoFile
  BY <1>3 DEF Found, Configs
<1>4. CASE a \notin WithConfig /\ conf = NoFile /\ confBak # NoFile
  BY <1>4 DEF Found, Stripped, Base, FilesTyped, FilesOfUser, Configs, Toml
<1> QED  BY <1>1, <1>2, <1>3, <1>4

LEMMA PersistConfs ==
  ASSUME Base, NEW p \in Actors, PersistConf(p)
  PROVE  Base'
<1> DEFINE found == Found(mem[p].to)
           m == [mem[p] EXCEPT !.conf = found # NoFile]
<1>1. pc[p] = "selectConf" /\ confBak' = (IF found = NoFile THEN confBak ELSE found)
      /\ UNCHANGED <<auth, conf, authBak, state, daemon, load, used, chosen, mode, custom>>
  BY DEF PersistConf, At, Found
<1>2. FilesTyped' /\ FilesOfUser'
  BY <1>1, FoundOfUser DEF Base, FilesTyped, FilesOfUser
<1>3. CASE mem[p].state = NoFile
  <2>1. Finish(p)  BY <1>3 DEF PersistConf
  <2> QED  BY <1>1, <1>2, <2>1, FinishKeeps
<1>4. CASE mem[p].state # NoFile
  <2>1. Continue(p, m, "selectSave")  BY <1>4 DEF PersistConf, Found
  <2>2. mem[p] \in Mems /\ mem[p].op \in {"switch", "select"} /\ Fits(mem[p], "selectConf")
    BY <1>1, Doing, Typed DEF Holds
  <2>3. m \in Mems /\ m.op = mem[p].op /\ m.state = mem[p].state /\ m.to = mem[p].to
    BY <2>2 DEF Mems
  <2> HIDE DEF m
  <2>4. Fits(m, "selectSave")  BY <1>4, <2>2, <2>3 DEF Fits, Sites
  <2> QED  BY <1>1, <1>2, <2>1, <2>3, <2>4, GoesOnKeeps DEF Places
<1> QED  BY <1>3, <1>4

LEMMA PersistSaves ==
  ASSUME Base, NEW p \in Actors, PersistSave(p)
  PROVE  Base'
<1>1. pc[p] = "selectSave" /\ Finish(p) /\ chosen' \in {chosen, {mem[p].to}}
      /\ state' = [mem[p].state EXCEPT !.authBak = TRUE, !.confBak = @ \/ mem[p].conf,
                                       !.noAuth = FALSE, !.noConf = @ /\ ~mem[p].conf]
      /\ UNCHANGED <<auth, conf, authBak, confBak, daemon, load, used, mode, repeated, custom>>
  BY DEF PersistSave, At
<1>2. mem[p] \in Mems /\ mem[p].op \in {"switch", "select"} /\ Fits(mem[p], "selectSave")
  BY <1>1, Doing, Typed DEF Holds
<1>3. mem[p].state \in States /\ mem[p].to \in Accounts /\ mem[p].conf \in BOOLEAN
  BY <1>2 DEF Fits, Mems
<1>4. state' \in States /\ (custom => ~state'.noConf)
  BY <1>1, <1>2, <1>3 DEF States, Fits
<1>5. FilesTyped' /\ FilesOfUser'
  BY <1>1, <1>3, <1>4 DEF Base, FilesTyped, FilesOfUser
<1> QED  BY <1>1, <1>5, FinishKeeps

LEMMA StopBegins ==
  ASSUME Base, NEW p \in Actors, StopBegin(p)
  PROVE  Base'
<1> DEFINE read == IF state = NoFile THEN Fresh ELSE state
           m == [Idle EXCEPT !.state = read]
           n == [m EXCEPT !.op = "stop"]
           to == IF daemon = "up" THEN "kill" ELSE "reread"
<1>1. Begin(p, "stop", m, to) /\ UNCHANGED <<files, daemon, load, history>>
  BY DEF StopBegin
<1>2. FilesTyped' /\ FilesOfUser'  BY <1>1, SameFiles DEF history, Base, FilesTyped
<1>3. Idle \in Mems  BY Typed
<1>4. read \in States /\ read # NoFile /\ (custom => ~read.noConf)
  BY Typed DEF Base, FilesTyped, FilesOfUser, Fresh
<1> HIDE DEF read
<1>5. m \in Mems  BY <1>3, <1>4 DEF Mems
<1>6. n.op = "stop" /\ n.state = read  BY <1>3 DEF Mems
<1>7. Fits(n, to)  BY <1>4, <1>6 DEF Fits, Sites
<1> QED  BY <1>1, <1>2, <1>5, <1>7, StartsKeep DEF Ops, Places, history, Base, ActorsTyped

\* The end of the daemon leaves its loop and its server idle; who stopped it goes on.
Ending ==
  /\ UNCHANGED <<files, lock, load, history>> /\ daemon' = "down"
  /\ pc' \in [Actors -> Places] /\ mem' \in [Actors -> Mems]
  /\ \A q \in {Daemon, Server} : Resting(q)
  /\ \A q \in Actors \ {Daemon, Server} :
       mem'[q] = mem[q] /\ (pc'[q] = pc[q] \/ (pc[q] = "kill" /\ pc'[q] = "stopped"))

LEMMA EndingKeeps ==
  ASSUME Base, Ending
  PROVE  Base'
<1>1. FilesTyped' /\ FilesOfUser'  BY SameFiles DEF Ending, history, Base, FilesTyped
<1>2. ActorsTyped'  BY DEF Ending, Base, ActorsTyped
<1>3. ASSUME NEW q \in Actors PROVE Holds(q)'
  <2>1. CASE q \in {Daemon, Server}
    <3>1. Resting(q)  BY <2>1 DEF Ending
    <3> QED  BY <3>1 DEF Resting, Holds, Fits, Sites, Idle
  <2>2. CASE q \notin {Daemon, Server} /\ pc'[q] = pc[q]
    <3>1. Holds(q) /\ mem'[q] = mem[q]  BY <2>2 DEF Base, Ending
    <3> QED  BY <2>2, <3>1 DEF Ending, Holds, Fits, Locking, history
  <2>3. CASE q \notin {Daemon, Server} /\ pc[q] = "kill" /\ pc'[q] = "stopped"
    <3>1. mem[q].op = "stop" /\ Holds(q)  BY <2>3, Doing DEF Base
    <3> QED  BY <2>3, <3>1 DEF Ending, Holds, Fits, Sites, Locking, history
  <2> QED  BY <2>1, <2>2, <2>3 DEF Ending
<1> QED  BY <1>1, <1>2, <1>3 DEF Base

LEMMA StopKills ==
  ASSUME Base, NEW p \in Actors, StopKill(p)
  PROVE  Ending
<1>1. pc[p] = "kill" /\ daemon' = "down" /\ UNCHANGED <<files, lock, load, used, history>>
      /\ mem' = [mem EXCEPT ![Daemon] = Idle, ![Server] = Idle]
      /\ pc' = [q \in Actors |-> IF q \in {Daemon, Server} THEN "idle"
                                 ELSE [pc EXCEPT ![p] = "stopped"][q]]
  BY DEF StopKill, DaemonEnds, At
<1>2. pc \in [Actors -> Places] /\ mem \in [Actors -> Mems] /\ Idle \in Mems
  BY Typed DEF Base, ActorsTyped
<1>3. Daemon \in Actors /\ Server \in Actors /\ Daemon # Server
  BY ProxyModeAssumption DEF Actors
<1>4. pc' \in [Actors -> Places] /\ mem' \in [Actors -> Mems]
  BY <1>1, <1>2, <1>3 DEF Places
<1>5. \A q \in {Daemon, Server} : Resting(q)  BY <1>1, <1>2, <1>3 DEF Resting
<1>6. \A q \in Actors \ {Daemon, Server} : mem'[q] = mem[q]  BY <1>1, <1>2, <1>3
<1>7. \A q \in Actors \ {Daemon, Server} :
        pc'[q] = pc[q] \/ (pc[q] = "kill" /\ pc'[q] = "stopped")
  BY <1>1, <1>2
<1> QED  BY <1>1, <1>4, <1>5, <1>6, <1>7 DEF Ending

LEMMA Deaths ==
  ASSUME Base, DaemonDies
  PROVE  Ending
<1>1. daemon' = "down" /\ UNCHANGED <<files, lock, load, history>>
      /\ mem' = [mem EXCEPT ![Daemon] = Idle, ![Server] = Idle]
      /\ pc' = [q \in Actors |-> IF q \in {Daemon, Server} THEN "idle" ELSE pc[q]]
  BY DEF DaemonDies, DaemonEnds
<1>2. Daemon \in Actors /\ Server \in Actors /\ Daemon # Server
  BY ProxyModeAssumption DEF Actors
<1>3. pc \in [Actors -> Places] /\ mem \in [Actors -> Mems] /\ Idle \in Mems
  BY <1>2, Typed DEF Base, ActorsTyped
<1>4. pc' \in [Actors -> Places] /\ mem' \in [Actors -> Mems]
  BY <1>1, <1>2, <1>3 DEF Places
<1>5. \A q \in {Daemon, Server} : Resting(q)  BY <1>1, <1>2, <1>3 DEF Resting
<1>6. \A q \in Actors \ {Daemon, Server} : mem'[q] = mem[q] /\ pc'[q] = pc[q]
  BY <1>1, <1>2, <1>3
<1> QED  BY <1>1, <1>4, <1>5, <1>6 DEF Ending

LEMMA StopWrites ==
  ASSUME Base, NEW p \in Actors, StopWrite(p)
  PROVE  Base'
<1>1. pc[p] = "stopped" /\ state' = mem[p].state /\ Continue(p, mem[p], "reread")
      /\ UNCHANGED <<auth, conf, authBak, confBak, daemon, load, used, history>>
  BY DEF StopWrite, At
<1>2. mem[p] \in Mems /\ mem[p].op = "stop" /\ Fits(mem[p], "stopped")
  BY <1>1, Doing, Typed DEF Holds
<1>3. FilesTyped' /\ FilesOfUser'
  BY <1>1, <1>2 DEF history, Base, FilesTyped, FilesOfUser, Fits, Mems
<1>4. Fits(mem[p], "reread")  BY <1>2 DEF Fits, Sites
<1> QED  BY <1>1, <1>2, <1>3, <1>4, GoesOnKeeps DEF Places, history

LEMMA StopRereads ==
  ASSUME Base, NEW p \in Actors, StopReread(p)
  PROVE  Base'
<1> DEFINE m == [mem[p] EXCEPT !.state = state]
<1>1. pc[p] = "reread" /\ UNCHANGED <<files, daemon, load, used, history>>
  BY DEF StopReread, At
<1>2. FilesTyped' /\ FilesOfUser'  BY <1>1, SameFiles DEF history, Base, FilesTyped
<1>3. CASE Finish(p)
  BY <1>1, <1>2, <1>3, FinishKeeps DEF history
<1>4. CASE state # NoFile /\ Continue(p, m, "rewrite")
  <2>1. mem[p] \in Mems /\ mem[p].op = "stop" /\ Fits(mem[p], "reread")
    BY <1>1, Doing, Typed DEF Holds
  <2>2. m \in Mems /\ m.op = mem[p].op /\ m.state = state
    BY <2>1 DEF Mems, Base, FilesTyped
  <2> HIDE DEF m
  <2>3. Fits(m, "rewrite")  BY <1>4, <2>1, <2>2 DEF Fits, Sites, Base, FilesOfUser
  <2> QED  BY <1>1, <1>2, <1>4, <2>2, <2>3, GoesOnKeeps DEF Places, history
<1> QED  BY <1>3, <1>4 DEF StopReread

LEMMA StopRewrites ==
  ASSUME Base, NEW p \in Actors, StopRewrite(p)
  PROVE  Base'
<1>1. pc[p] = "rewrite" /\ state' = mem[p].state /\ Finish(p)
      /\ UNCHANGED <<auth, conf, authBak, confBak, daemon, load, used, history>>
  BY DEF StopRewrite, At
<1>2. mem[p] \in Mems /\ Fits(mem[p], "rewrite")  BY <1>1, Typed DEF Holds
<1>3. FilesTyped' /\ FilesOfUser'
  BY <1>1, <1>2 DEF history, Base, FilesTyped, FilesOfUser, Fits, Mems
<1> QED  BY <1>1, <1>3, FinishKeeps DEF history

\* Only the daemon, the auth in effect and the history move.
LEMMA Outside ==
  ASSUME Base, UNCHANGED <<conf, authBak, confBak, state, lock, pc, mem, load, mode, custom>>,
         auth' \in Auths, chosen' \subseteq Accounts \cup {NoFile},
         daemon' \in {"off", "up", "down"}
  PROVE  Base'
<1>1. FilesTyped' /\ FilesOfUser' /\ ActorsTyped'
  BY DEF Base, FilesTyped, FilesOfUser, ActorsTyped
<1>2. \A p \in Actors : Holds(p)'  BY DEF Base, Holds, Fits, Locking
<1> QED  BY <1>1, <1>2 DEF Base

LEMMA Crashes ==
  ASSUME Base, NEW p \in Actors, Crash(p)
  PROVE  Base'
<1>1. Finish(p) /\ UNCHANGED <<files, daemon, load, chosen, repeated, custom>>
      /\ mode' \in {"half", mode}
  BY DEF Crash
<1>2. FilesTyped' /\ FilesOfUser'  BY <1>1, SameFiles DEF Base, FilesTyped
<1> QED  BY <1>1, <1>2, FinishKeeps

LEMMA StepsKeep ==
  ASSUME Base, NEW p \in Actors, Step(p)
  PROVE  Base'
BY StartReads, StartWrites, Inspects, BackupAuths, BackupConfs, ReadConfs, WriteSynths,
   WriteLives, SaveEnableds, RestoreAuths, RestoreConfs, CleanConfs, StatusReads,
   SaveDisableds, SwitchLooks, SwitchAuths, SwitchConfs, PersistReads, PersistAuths,
   PersistConfs, PersistSaves, StopKills, EndingKeeps, StopWrites, StopRereads, StopRewrites
   DEF Step

LEMMA BaseKept ==
  ASSUME Base, [Next]_vars
  PROVE  Base'
<1>1. ASSUME NEW p \in Actors,
             \/ EnableBegin(p) \/ DisableBegin(p) \/ StopBegin(p)
             \/ \E a \in Accounts : SwitchBegin(p, a)
             \/ Step(p) \/ Crash(p)
      PROVE  Base'
  BY <1>1, EnableBegins, DisableBegins, StopBegins, SwitchBegins, StepsKeep, Crashes
<1>2. CASE TickRead \/ TickLook \/ DaemonDies
  BY <1>2, TickReads, TickLooks, Deaths, EndingKeeps
<1>3. CASE DaemonStart
  BY <1>3, Outside DEF DaemonStart, Base, FilesTyped, files, history
<1>4. ASSUME NEW a \in Accounts, ServerSelect(a) PROVE Base'  BY <1>4, ServerSelects
<1>5. ASSUME NEW a \in Accounts, Login(a) PROVE Base'
  <2>1. auth' \in Auths /\ chosen' \subseteq Accounts \cup {NoFile}
    BY <1>5 DEF Login, Auths, Base, FilesTyped
  <2> QED  BY <1>5, <2>1, Outside DEF Login, Base, ActorsTyped
<1>6. CASE UNCHANGED vars
  BY <1>6, Outside DEF vars, files, history, Base, FilesTyped, ActorsTyped
<1> QED  BY <1>1, <1>2, <1>3, <1>4, <1>5, <1>6 DEF Next

LEMMA BaseAtFirst ==
  ASSUME Init
  PROVE  Base
<1>1. FilesTyped
  <2>2. conf \in Configs /\ confBak \in Configs  BY Zenon DEF Init, Configs
  <2>3. auth \in Auths /\ authBak \in Auths /\ state = NoFile  BY DEF Init, Auths
  <2>4. chosen \subseteq Accounts \cup {NoFile} /\ mode = "direct"  BY DEF Init
  <2> QED  BY <2>2, <2>3, <2>4 DEF FilesTyped
<1>2. Idle \in Mems
  BY DEF Idle, Mems, Ops, Configs
<1>3. ActorsTyped  BY <1>2 DEF Init, ActorsTyped, Places
<1>4. FilesOfUser
  <2>1. custom => conf # NoFile /\ conf.user  BY ZenonT(20) DEF Init
  <2>3. confBak = NoFile /\ state = NoFile  BY DEF Init
  <2> QED  BY <2>1, <2>3 DEF FilesOfUser
<1>5. \A p \in Actors : Holds(p)  BY DEF Init, Holds, Fits, Sites, Idle
<1> QED  BY <1>1, <1>3, <1>4, <1>5 DEF Base

-----------------------------------------------------------------------------
(* Where operations outside the lock do not overlap *)

\* p is the only one that may be in the middle of an operation.
Solo(p) == \A q \in Actors \ {p} : pc[q] = "idle"

\* What an operation has read is what is there.
Current(p) ==
  /\ mem[p].op = "tick" => Enabled /\ mem[p].state = state
  /\ pc[p] \in {"restoreAuth", "restoreConf", "clean", "status",
                "selectAuth", "selectConf", "selectSave", "rewrite"} => mem[p].state = state
  /\ pc[p] \in {"started", "kill", "stopped"} =>
       mem[p].state = IF state = NoFile THEN Fresh ELSE state
  /\ pc[p] = "off" /\ state # NoFile => mem[p].state = state
  /\ pc[p] = "backupAuth" => auth # Synth /\ (mem[p].auth <=> auth # NoFile)
  /\ mem[p].op = "enable" /\ pc[p] \in {"backupAuth", "backupConf", "raw"} =>
       (mem[p].conf <=> conf # NoFile)
  /\ pc[p] \in {"selectConf", "selectSave"} => authBak = mem[p].to

IsClean == conf # NoFile => ~conf.proxy
\* In direct mode, unless an enable has replaced it already, the auth in effect is
\* the one chosen, and nothing is enabled.
IsDirect(p) == /\ ~Enabled /\ auth \in chosen /\ IsClean
               /\ mem[p].op # "disable" /\ ~mem[p].was
\* In proxied mode, unless an enable is replacing it, the state and the backup
\* say what was chosen.
IsProxied == /\ Enabled
             /\ state.noAuth => NoFile \in chosen
             /\ ~state.noAuth => state.authBak /\ authBak # NoFile /\ authBak \in chosen
Enabling(p) == mem[p].op = "enable" /\ pc[p] \in {"backupConf", "raw", "synth", "live", "save"}
Undecided(p) == mem[p].op = "enable" /\ pc[p] \in {"live", "save"}

Saved(p) ==
  /\ Enabled \/ auth = Synth => authBak = NoFile \/ authBak \in chosen
  /\ mode = "direct" /\ ~Undecided(p) => IsDirect(p)
  /\ mode = "proxied" /\ ~Enabling(p) => IsProxied
  /\ Enabling(p) => authBak \in chosen /\ (mem[p].auth <=> authBak # NoFile)
  /\ mode = "proxied" /\ pc[p] \in {"restoreConf", "clean", "status", "off"} => auth \in chosen
  /\ pc[p] \in {"status", "off"} => IsClean

Known(p) == Current(p) /\ authBak # Synth /\ (~repeated => Saved(p))
Apiece ==
  /\ ~load.overlap
  /\ \A p \in Actors : (pc[p] # "idle" => Solo(p)) /\ (Solo(p) => Known(p))

IInv == Base /\ (~load.overlap => Apiece)

\* The view of the actor that performs the step.
Sound(p) == ~load.overlap /\ Solo(p) /\ Known(p)

LEMMA Widen ==
  ASSUME Base', NEW p \in Actors, Sound(p)'
  PROVE  Apiece'
<1>1. \A q \in Actors \ {p} : pc'[q] = "idle"  BY DEF Sound, Solo
<1>2. ASSUME NEW q \in Actors \ {p}, Solo(q)' PROVE Known(q)'
  <2>1. pc'[p] = "idle" /\ pc'[q] = "idle"  BY <1>1, <1>2 DEF Solo
  <2>2. mem'[p] = Idle /\ mem'[q] = Idle  BY <2>1 DEF Base, Holds, Fits
  <2> QED
    BY <2>1, <2>2 DEF Sound, Known, Current, Saved, IsDirect, Undecided, Enabling, Idle
<1> QED  BY <1>1, <1>2 DEF Apiece, Sound, Solo

\* An operation that goes on, ends or begins leaves the others idle.
LEMMA GoesAlone ==
  ASSUME Base, NEW p \in Actors, Apiece, pc[p] # "idle" \/ Solo(p),
         NEW m, NEW to, Continue(p, m, to), load' = load
  PROVE  Sound(p) /\ ~load'.overlap /\ Solo(p)' /\ mem'[p] = m /\ pc'[p] = to
BY DEF Base, ActorsTyped, Apiece, Sound, Solo, Continue, Goto

LEMMA EndsAlone ==
  ASSUME Base, NEW p \in Actors, Apiece, pc[p] # "idle" \/ Solo(p), Finish(p), load' = load
  PROVE  Sound(p) /\ ~load'.overlap /\ Solo(p)' /\ mem'[p] = Idle /\ pc'[p] = "idle"
BY DEF Base, ActorsTyped, Apiece, Sound, Solo, Finish, Goto

LEMMA BeginsAlone ==
  ASSUME Base, NEW p \in Actors, Apiece, NEW op, NEW m, NEW to, Begin(p, op, m, to),
         load' = load
  PROVE  /\ Sound(p) /\ ~load'.overlap /\ Solo(p)' /\ mem[p] = Idle
         /\ mem'[p] = [m EXCEPT !.op = op] /\ pc'[p] = to
<1>1. ASSUME NEW q \in Actors \ {p} PROVE pc[q] = "idle"
  <2>1. pc[q] = "idle" \/ (Locking(p, op) /\ Locking(q, mem[q].op))
    BY DEF Begin, MayBegin, Apiece, At
  <2>2. pc[q] # "idle" /\ Locking(q, mem[q].op) => lock = q  BY DEF Base, Holds
  <2>3. Locking(p, op) => lock = NoProc  BY DEF Begin
  <2> QED  BY <2>1, <2>2, <2>3, ProxyModeAssumption DEF Actors
<1>2. mem[p] = Idle  BY DEF Begin, At, Base, Holds, Fits
<1> QED  BY <1>1, <1>2 DEF Base, ActorsTyped, Apiece, Sound, Solo, Begin, Goto

LEMMA KnowsEnable ==
  ASSUME Base, Base', NEW p \in Actors, Apiece,
         EnableBegin(p) \/ StartRead(p) \/ StartWrite(p) \/ Inspect(p)
  PROVE  Sound(p)'
<1>1. CASE EnableBegin(p)
  <2>1. Begin(p, "enable", Idle, "start") /\ UNCHANGED <<files, load, history>>
    BY <1>1 DEF EnableBegin
  <2>2. Sound(p) /\ ~load'.overlap /\ Solo(p)' /\ mem[p] = Idle /\ pc'[p] = "start"
        /\ mem'[p] = [Idle EXCEPT !.op = "enable"]
    BY <2>1, BeginsAlone DEF history
  <2>3. mem'[p].op = "enable" /\ mem'[p].was = FALSE  BY <2>2 DEF Idle
  <2> QED  BY <2>1, <2>2, <2>3 DEF files, history, Sound, Known, Current, Saved,
       IsDirect, IsProxied, Undecided, Enabling, IsClean, Enabled, Idle
<1>2. CASE StartRead(p)
  <2> DEFINE read == IF state = NoFile THEN Fresh ELSE state
  <2>1. pc[p] = "start" /\ Continue(p, [mem[p] EXCEPT !.state = read], "started")
        /\ UNCHANGED <<files, load, history>>
    BY <1>2 DEF StartRead, At
  <2>2. Sound(p) /\ ~load'.overlap /\ Solo(p)' /\ pc'[p] = "started"
        /\ mem'[p] = [mem[p] EXCEPT !.state = read]
    BY <2>1, GoesAlone DEF history
  <2>3. mem[p] \in Mems /\ mem[p].op = "enable"  BY <2>1, Typed, Doing
  <2>4. mem'[p].op = "enable" /\ mem'[p].was = mem[p].was /\ mem'[p].state = read
    BY <2>2, <2>3 DEF Mems
  <2> HIDE DEF read
  <2> QED  BY <2>1, <2>2, <2>3, <2>4 DEF read, files, history, Sound, Known, Current, Saved,
       IsDirect, IsProxied, Undecided, Enabling, IsClean, Enabled
<1>3. CASE StartWrite(p)
  <2>1. pc[p] = "started" /\ Continue(p, mem[p], "inspect") /\ state' = mem[p].state
        /\ UNCHANGED <<auth, conf, authBak, confBak, load, history>>
    BY <1>3 DEF StartWrite, At
  <2>2. Sound(p) /\ ~load'.overlap /\ Solo(p)' /\ pc'[p] = "inspect" /\ mem'[p] = mem[p]
    BY <2>1, GoesAlone DEF history
  <2>3. mem[p].op = "enable"  BY <2>1, Doing
  <2>4. state' = IF state = NoFile THEN Fresh ELSE state
    BY <2>1, <2>2 DEF Sound, Known, Current
  <2>5. Enabled' = Enabled /\ (Enabled => state' = state)
    BY <2>4, NoFileAssumption DEF Enabled, Fresh
  <2> QED  BY <2>1, <2>2, <2>3, <2>5 DEF history, Sound, Known, Current, Saved,
       IsDirect, IsProxied, Undecided, Enabling, IsClean
<1>4. CASE Inspect(p)
  <2> DEFINE m == [mem[p] EXCEPT !.was = auth = Synth, !.auth = auth # NoFile,
                                 !.conf = conf # NoFile]
             to == IF auth = Synth THEN "raw" ELSE "backupAuth"
  <2>1. pc[p] = "inspect" /\ Continue(p, m, to)
        /\ repeated' = (repeated \/ (auth = Synth /\ authBak = NoFile))
        /\ UNCHANGED <<files, load, chosen, mode, custom>>
    BY <1>4 DEF Inspect, At
  <2>2. Sound(p) /\ ~load'.overlap /\ Solo(p)' /\ pc'[p] = to /\ mem'[p] = m
    BY <2>1, GoesAlone
  <2>3. mem[p] \in Mems /\ mem[p].op = "enable"  BY <2>1, Typed, Doing
  <2>4. mem'[p].op = "enable" /\ (mem'[p].was <=> auth = Synth)
        /\ (mem'[p].auth <=> auth # NoFile) /\ (mem'[p].conf <=> conf # NoFile)
    BY <2>2, <2>3 DEF Mems
  <2>5. ~repeated' => ~repeated /\ (auth = Synth => authBak # NoFile)  BY <2>1
  <2>6. Synth # NoFile /\ chosen \subseteq Accounts \cup {NoFile} /\ Synth \notin chosen
    BY Typed DEF Base, FilesTyped
  <2> HIDE DEF m
  <2> QED  BY <2>1, <2>2, <2>3, <2>4, <2>5, <2>6 DEF files, Sound, Known, Current, Saved,
       IsDirect, IsProxied, Undecided, Enabling, IsClean, Enabled
<1> QED  BY <1>1, <1>2, <1>3, <1>4

LEMMA KnowsBackup ==
  ASSUME Base, Base', NEW p \in Actors, Apiece, BackupAuth(p) \/ BackupConf(p) \/ ReadConf(p)
  PROVE  Sound(p)'
<1> USE DEF Sound, Known
<1>1. CASE BackupAuth(p)
  <2>1. pc[p] = "backupAuth"
        /\ UNCHANGED <<auth, conf, confBak, state, load, mode, repeated, custom>>
    BY <1>1 DEF BackupAuth, At
  <2>2. Sound(p) /\ mem[p].op = "enable"
    BY <2>1, Doing DEF Apiece
  <2>3. auth # Synth /\ (mem[p].auth <=> auth # NoFile)  BY <2>1, <2>2 DEF Current
  <2>4. /\ authBak' = auth /\ chosen' = {auth}
        /\ Continue(p, mem[p], "backupConf")
    BY <1>1, <2>3 DEF BackupAuth
  <2>5. ~load'.overlap /\ Solo(p)' /\ pc'[p] = "backupConf" /\ mem'[p] = mem[p]
    BY <2>1, <2>4, GoesAlone
  <2>6. Current(p)'  BY <2>1, <2>2, <2>4, <2>5 DEF Current, Enabled
  <2>7. ASSUME ~repeated' PROVE Saved(p)'
    BY <2>1, <2>2, <2>3, <2>4, <2>5, <2>7 DEF Saved,
       IsDirect, IsProxied, Undecided, Enabling, IsClean, Enabled
  <2> QED  BY <2>3, <2>4, <2>5, <2>6, <2>7
<1>2. CASE BackupConf(p)
  <2>1. pc[p] = "backupConf"
        /\ UNCHANGED <<auth, conf, authBak, state, load, chosen, mode, repeated>>
    BY <1>2 DEF BackupConf, At
  <2>2. Sound(p) /\ mem[p].op = "enable"  BY <2>1, Doing DEF Apiece
  <2>3. Continue(p, mem[p], "raw")  BY <1>2, <2>1, <2>2 DEF BackupConf, Current
  <2>4. ~load'.overlap /\ Solo(p)' /\ pc'[p] = "raw" /\ mem'[p] = mem[p]
    BY <2>1, <2>3, GoesAlone
  <2>5. Current(p)'  BY <2>1, <2>2, <2>4 DEF Current, Enabled
  <2>6. ASSUME ~repeated' PROVE Saved(p)'
    BY <2>1, <2>2, <2>4, <2>6 DEF Saved,
       IsDirect, IsProxied, Undecided, Enabling, IsClean, Enabled
  <2> QED  BY <2>1, <2>2, <2>4, <2>5, <2>6
<1>3. CASE ReadConf(p)
  <2> DEFINE m == [mem[p] EXCEPT !.raw = IF mem[p].conf THEN conf ELSE NoFile]
  <2>1. pc[p] = "raw" /\ UNCHANGED <<files, load, history>>
    BY <1>3 DEF ReadConf, At
  <2>2. Sound(p) /\ mem[p].op \in {"enable", "tick"} /\ mem[p] \in Mems
    BY <2>1, Doing, Typed DEF Apiece
  <2>3. CASE Continue(p, m, "synth")
    <3>1. ~load'.overlap /\ Solo(p)' /\ pc'[p] = "synth" /\ mem'[p] = m
      BY <2>1, <2>3, GoesAlone
    <3>2. mem'[p].op = mem[p].op /\ mem'[p].was = mem[p].was /\ mem'[p].auth = mem[p].auth
          /\ mem'[p].state = mem[p].state
      BY <2>2, <3>1 DEF Mems
    <3> HIDE DEF m
    <3>3. Current(p)'  BY <2>1, <2>2, <3>1, <3>2 DEF files, Current, Enabled
    <3>4. ASSUME ~repeated' PROVE Saved(p)'
      BY <2>1, <2>2, <3>1, <3>2, <3>4 DEF files, history, Saved,
         IsDirect, IsProxied, Undecided, Enabling, IsClean, Enabled
    <3> QED  BY <2>1, <2>2, <3>1, <3>3, <3>4 DEF files, history
  <2>4. CASE mem[p].conf /\ conf = NoFile /\ Finish(p)
    <3>1. mem[p].op = "tick"  BY <2>1, <2>2, <2>4 DEF Current
    <3>2. ~load'.overlap /\ Solo(p)' /\ pc'[p] = "idle" /\ mem'[p] = Idle
      BY <2>1, <2>4, EndsAlone
    <3>3. Current(p)'  BY <3>2 DEF Current, Idle
    <3>4. ASSUME ~repeated' PROVE Saved(p)'
      BY <2>1, <2>2, <3>1, <3>2, <3>4 DEF files, history, Saved,
         IsDirect, IsProxied, Undecided, Enabling, IsClean, Enabled, Idle
    <3> QED  BY <2>1, <2>2, <3>2, <3>3, <3>4 DEF files, history
  <2> QED  BY <1>3, <2>3, <2>4 DEF ReadConf
<1> QED  BY <1>1, <1>2, <1>3

LEMMA KnowsWrites ==
  ASSUME Base, Base', NEW p \in Actors, Apiece,
         WriteSynth(p) \/ WriteLive(p) \/ SaveEnabled(p)
  PROVE  Sound(p)'
<1> USE DEF Sound, Known
<1>1. CASE WriteSynth(p)
  <2>1. pc[p] = "synth" /\ auth' = Synth /\ Continue(p, mem[p], "live")
        /\ UNCHANGED <<conf, authBak, state, load, history>>
    BY <1>1 DEF WriteSynth, At
  <2>2. Sound(p) /\ mem[p].op \in {"enable", "tick"}  BY <2>1, Doing DEF Apiece
  <2>3. ~load'.overlap /\ Solo(p)' /\ pc'[p] = "live" /\ mem'[p] = mem[p]
    BY <2>1, GoesAlone
  <2>4. Current(p)'  BY <2>1, <2>2, <2>3 DEF Current, Enabled
  <2>5. ASSUME ~repeated' PROVE Saved(p)'
    <3>1. Saved(p) /\ Current(p)  BY <2>1, <2>2, <2>5 DEF history
    <3> QED  BY <2>1, <2>2, <2>3, <3>1 DEF history, Saved, Current,
         IsDirect, IsProxied, Undecided, Enabling, IsClean, Enabled
  <2> QED  BY <2>1, <2>2, <2>3, <2>4, <2>5
<1>2. CASE WriteLive(p)
  <2>1. pc[p] = "live" /\ Continue(p, mem[p], "save")
        /\ UNCHANGED <<auth, authBak, state, load, history>>
    BY <1>2 DEF WriteLive, At
  <2>2. Sound(p) /\ mem[p].op \in {"enable", "tick"}  BY <2>1, Doing DEF Apiece
  <2>3. ~load'.overlap /\ Solo(p)' /\ pc'[p] = "save" /\ mem'[p] = mem[p]
    BY <2>1, GoesAlone
  <2>4. Current(p)'  BY <2>1, <2>2, <2>3 DEF Current, Enabled
  <2>5. ASSUME ~repeated' PROVE Saved(p)'
    <3>1. Saved(p) /\ Current(p)  BY <2>1, <2>2, <2>5 DEF history
    <3> QED  BY <2>1, <2>2, <2>3, <3>1 DEF history, Saved, Current,
         IsDirect, IsProxied, Undecided, Enabling, Enabled
  <2> QED  BY <2>1, <2>2, <2>3, <2>4, <2>5
<1>3. CASE SaveEnabled(p)
  <2>1. pc[p] = "save" /\ Finish(p)
        /\ UNCHANGED <<auth, conf, authBak, load, chosen, repeated>>
    BY <1>3 DEF SaveEnabled, At
  <2>2. Sound(p) /\ mem[p].op \in {"enable", "tick"} /\ mem[p] \in Mems
    BY <2>1, Doing, Typed DEF Apiece
  <2>3. ~load'.overlap /\ Solo(p)' /\ pc'[p] = "idle" /\ mem'[p] = Idle
    BY <2>1, EndsAlone
  <2>4. Current(p)'  BY <2>3 DEF Current, Idle
  <2>5. CASE mem[p].op = "tick"
    <3>1. Enabled /\ mem[p].state = state  BY <2>2, <2>5 DEF Current
    <3>2. state \in States  BY <3>1 DEF Enabled, Base, FilesTyped
    <3>3. state' = state /\ mode' = mode
      BY <1>3, <2>5, <3>1, <3>2 DEF SaveEnabled, Enabled, States
    <3>4. ASSUME ~repeated' PROVE Saved(p)'
      BY <2>1, <2>2, <2>3, <2>5, <3>1, <3>3, <3>4 DEF Saved,
         IsDirect, IsProxied, Undecided, Enabling, IsClean, Enabled, Idle
    <3> QED  BY <2>1, <2>2, <2>3, <2>4, <3>4
  <2>6. CASE mem[p].op = "enable"
    <3>1. mode' = "proxied"
          /\ state' = [enabled |-> TRUE, authBak |-> mem[p].auth, confBak |-> mem[p].conf,
                       noAuth |-> ~mem[p].auth, noConf |-> ~mem[p].conf]
      BY <1>3, <2>6 DEF SaveEnabled
    <3>2. Enabled'
      <4>1. mem[p].auth \in BOOLEAN /\ mem[p].conf \in BOOLEAN  BY <2>2 DEF Mems
      <4>2. state' \in States /\ state'.enabled  BY <3>1, <4>1 DEF States
      <4> QED  BY <4>2, NoFileAssumption DEF Enabled
    <3>3. (state'.noAuth <=> ~mem[p].auth) /\ (state'.authBak <=> mem[p].auth)  BY <3>1
    <3>4. ASSUME ~repeated' PROVE Saved(p)'
      <4>1. authBak \in chosen /\ (mem[p].auth <=> authBak # NoFile)
        BY <2>1, <2>2, <2>6, <3>4 DEF Saved, Enabling
      <4>2. IsProxied'  BY <2>1, <3>2, <3>3, <4>1 DEF IsProxied
      <4> QED  BY <2>1, <2>3, <3>1, <4>1, <4>2 DEF Saved, Enabling, Idle
    <3> QED  BY <2>1, <2>2, <2>3, <2>4, <3>4
  <2> QED  BY <2>2, <2>5, <2>6
<1> QED  BY <1>1, <1>2, <1>3

LEMMA KnowsTick ==
  ASSUME Base, Base', Apiece, TickRead \/ TickLook
  PROVE  Sound(Daemon)'
<1> USE DEF Sound, Known
<1> DEFINE p == Daemon
<1>1. p \in Actors  BY DEF Actors
<1>2. CASE TickRead
  <2>1. Begin(p, "tick", [Idle EXCEPT !.state = state], "look") /\ Enabled
        /\ UNCHANGED <<files, load, history>>
    BY <1>2 DEF TickRead
  <2>2. Sound(p) /\ ~load'.overlap /\ Solo(p)' /\ mem[p] = Idle /\ pc'[p] = "look"
        /\ mem'[p] = [[Idle EXCEPT !.state = state] EXCEPT !.op = "tick"]
    BY <1>1, <2>1, BeginsAlone
  <2>3. mem'[p].op = "tick" /\ mem'[p].state = state /\ mem'[p].was = FALSE
    BY <2>2 DEF Idle
  <2>4. Current(p)'  BY <2>1, <2>2, <2>3 DEF files, Current, Enabled
  <2>5. ASSUME ~repeated' PROVE Saved(p)'
    BY <2>1, <2>2, <2>3, <2>5 DEF files, history, Saved,
       IsDirect, IsProxied, Undecided, Enabling, IsClean, Enabled, Idle
  <2> QED  BY <2>1, <2>2, <2>4, <2>5 DEF files, history
<1>3. CASE TickLook
  <2>1. pc[p] = "look" /\ UNCHANGED <<files, load, history>>  BY <1>3 DEF TickLook, At
  <2>2. Sound(p) /\ mem[p].op = "tick" /\ mem[p] \in Mems
    BY <1>1, <2>1, Doing, Typed DEF Apiece
  <2>3. CASE Finish(p)
    <3>1. ~load'.overlap /\ Solo(p)' /\ pc'[p] = "idle" /\ mem'[p] = Idle
      BY <1>1, <2>1, <2>3, EndsAlone
    <3>2. Current(p)'  BY <3>1 DEF Current, Idle
    <3>3. ASSUME ~repeated' PROVE Saved(p)'
      BY <2>1, <2>2, <3>1, <3>3 DEF files, history, Saved,
         IsDirect, IsProxied, Undecided, Enabling, IsClean, Enabled, Idle
    <3> QED  BY <2>1, <2>2, <3>1, <3>2, <3>3 DEF files, history
  <2>4. CASE Continue(p, [mem[p] EXCEPT !.conf = conf # NoFile], "raw")
    <3>1. ~load'.overlap /\ Solo(p)' /\ pc'[p] = "raw"
          /\ mem'[p] = [mem[p] EXCEPT !.conf = conf # NoFile]
      BY <1>1, <2>1, <2>4, GoesAlone
    <3>2. mem'[p].op = "tick" /\ mem'[p].state = mem[p].state /\ mem'[p].was = mem[p].was
      BY <2>2, <3>1 DEF Mems
    <3>3. Current(p)'  BY <2>1, <2>2, <3>1, <3>2 DEF files, Current, Enabled
    <3>4. ASSUME ~repeated' PROVE Saved(p)'
      BY <2>1, <2>2, <3>1, <3>2, <3>4 DEF files, history, Saved,
         IsDirect, IsProxied, Undecided, Enabling, IsClean, Enabled
    <3> QED  BY <2>1, <2>2, <3>1, <3>3, <3>4 DEF files, history
  <2> QED  BY <1>3, <2>3, <2>4 DEF TickLook
<1> QED  BY <1>2, <1>3

LEMMA KnowsDisable ==
  ASSUME Base, Base', NEW p \in Actors, Apiece,
         DisableBegin(p) \/ RestoreAuth(p) \/ RestoreConf(p)
  PROVE  Sound(p)'
<1> USE DEF Sound, Known
<1>1. CASE DisableBegin(p)
  <2> DEFINE m == [Idle EXCEPT !.state = state]
  <2>1. Begin(p, "disable", m, "restoreAuth")
        /\ repeated' = (repeated \/ mode = "direct")
        /\ UNCHANGED <<files, load, chosen, mode>>
    BY <1>1 DEF DisableBegin
  <2>2. Sound(p) /\ ~load'.overlap /\ Solo(p)' /\ mem[p] = Idle /\ pc'[p] = "restoreAuth"
        /\ mem'[p] = [m EXCEPT !.op = "disable"]
    BY <2>1, BeginsAlone
  <2>3. mem'[p].op = "disable" /\ mem'[p].state = state  BY <2>2 DEF Idle
  <2>4. Current(p)'  BY <2>1, <2>2, <2>3 DEF files, Current
  <2>5. ~repeated' => ~repeated /\ mode # "direct"  BY <2>1
  <2>6. ASSUME ~repeated' PROVE Saved(p)'
    BY <2>1, <2>2, <2>3, <2>5, <2>6 DEF files, Saved,
       IsProxied, Undecided, Enabling, Enabled, Idle
  <2> QED  BY <2>1, <2>2, <2>4, <2>6 DEF files
<1>2. CASE RestoreAuth(p)
  <2> DEFINE s == mem[p].state
  <2>1. pc[p] = "restoreAuth" /\ Continue(p, mem[p], "restoreConf")
        /\ auth' = (IF s # NoFile /\ s.noAuth THEN NoFile
                    ELSE IF s # NoFile /\ s.authBak /\ authBak # NoFile THEN authBak ELSE auth)
        /\ UNCHANGED <<conf, authBak, confBak, state, load, history>>
    BY <1>2 DEF RestoreAuth, At
  <2>2. Sound(p) /\ mem[p].op = "disable"  BY <2>1, Doing DEF Apiece
  <2>3. ~load'.overlap /\ Solo(p)' /\ pc'[p] = "restoreConf" /\ mem'[p] = mem[p]
    BY <2>1, GoesAlone
  <2>4. s = state  BY <2>1, <2>2 DEF Current
  <2>5. Current(p)'  BY <2>1, <2>2, <2>3, <2>4 DEF Current, Enabled
  <2>6. ASSUME ~repeated' PROVE Saved(p)'
    <3>1. Saved(p) /\ mode # "direct"
      BY <2>1, <2>2, <2>6 DEF history, Saved, Undecided, IsDirect
    <3>2. mode = "proxied" => IsProxied  BY <2>2, <3>1 DEF Saved, Enabling
    <3>3. auth' = Synth => auth = Synth
      BY <2>1, <2>2, ProxyModeAssumption
    <3>4. mode = "proxied" => auth' \in chosen
      BY <2>1, <2>4, <3>2 DEF IsProxied, Enabled
    <3> HIDE DEF s
    <3> QED  BY <2>1, <2>2, <2>3, <3>1, <3>2, <3>3, <3>4 DEF history, Saved, IsProxied,
         Undecided, Enabling, Enabled
  <2> QED  BY <2>1, <2>2, <2>3, <2>5, <2>6
<1>3. CASE RestoreConf(p)
  <2> DEFINE s == mem[p].state
             copied == s # NoFile /\ s.confBak /\ confBak # NoFile
             m == [mem[p] EXCEPT !.conf = copied]
  <2>1. pc[p] = "restoreConf" /\ UNCHANGED <<auth, authBak, state, load, history>>
    BY <1>3 DEF RestoreConf, At
  <2>2. Sound(p) /\ mem[p].op = "disable" /\ mem[p] \in Mems
    BY <2>1, Doing, Typed DEF Apiece
  <2>3. CASE s # NoFile /\ s.noConf
    <3>1. Continue(p, mem[p], "status") /\ conf' = NoFile  BY <1>3, <2>3 DEF RestoreConf
    <3>2. ~load'.overlap /\ Solo(p)' /\ pc'[p] = "status" /\ mem'[p] = mem[p]
      BY <2>1, <3>1, GoesAlone
    <3>3. Current(p)'  BY <2>1, <2>2, <3>2 DEF Current, Enabled
    <3>4. ASSUME ~repeated' PROVE Saved(p)'
      BY <2>1, <2>2, <3>1, <3>2, <3>4 DEF history, Saved,
         IsDirect, IsProxied, Undecided, Enabling, IsClean, Enabled
    <3> QED  BY <2>1, <2>2, <3>2, <3>3, <3>4
  <2>4. CASE ~(s # NoFile /\ s.noConf)
    <3>1. Continue(p, m, "clean")  BY <1>3, <2>4 DEF RestoreConf
    <3>2. ~load'.overlap /\ Solo(p)' /\ pc'[p] = "clean" /\ mem'[p] = m
      BY <2>1, <3>1, GoesAlone
    <3>3. mem'[p].op = "disable" /\ mem'[p].state = mem[p].state /\ mem'[p].was = mem[p].was
      BY <2>2, <3>2 DEF Mems
    <3> HIDE DEF m
    <3>4. Current(p)'  BY <2>1, <2>2, <3>2, <3>3 DEF Current, Enabled
    <3>5. ASSUME ~repeated' PROVE Saved(p)'
      BY <2>1, <2>2, <3>2, <3>3, <3>5 DEF history, Saved,
         IsDirect, IsProxied, Undecided, Enabling, IsClean, Enabled
    <3> QED  BY <2>1, <2>2, <3>2, <3>4, <3>5
  <2> QED  BY <2>3, <2>4
<1> QED  BY <1>1, <1>2, <1>3

LEMMA KnowsOff ==
  ASSUME Base, Base', NEW p \in Actors, Apiece,
         CleanConf(p) \/ StatusRead(p) \/ SaveDisabled(p)
  PROVE  Sound(p)'
<1> USE DEF Sound, Known
<1>1. CASE CleanConf(p)
  <2>1. pc[p] = "clean" /\ UNCHANGED <<auth, authBak, state, load, chosen, mode, repeated>>
    BY <1>1 DEF CleanConf, Cleaning, At
  <2>2. Sound(p) /\ mem[p].op = "disable"  BY <2>1, Doing DEF Apiece
  <2>3. ~repeated => Saved(p) /\ mode # "direct"
    BY <2>1, <2>2 DEF Saved, Undecided, IsDirect
  <2>4. CASE Cleans(p) /\ Continue(p, mem[p], "status")
    <3>1. ~load'.overlap /\ Solo(p)' /\ pc'[p] = "status" /\ mem'[p] = mem[p]
      BY <2>1, <2>4, GoesAlone
    <3>2. IsClean'  BY <2>4, CleanOfUser DEF IsClean
    <3>3. Current(p)'  BY <2>1, <2>2, <3>1 DEF Current, Enabled
    <3>4. ASSUME ~repeated' PROVE Saved(p)'
      BY <2>1, <2>2, <2>3, <3>1, <3>2, <3>4 DEF Saved,
         IsProxied, Undecided, Enabling, Enabled
    <3> QED  BY <2>1, <2>2, <3>1, <3>3, <3>4
  <2>5. CASE Finish(p) /\ UNCHANGED conf
    <3>1. ~load'.overlap /\ Solo(p)' /\ pc'[p] = "idle" /\ mem'[p] = Idle
      BY <2>1, <2>5, EndsAlone
    <3>2. Current(p)'  BY <3>1 DEF Current, Idle
    <3>3. ASSUME ~repeated' PROVE Saved(p)'
      BY <2>1, <2>2, <2>3, <3>1, <3>3 DEF Saved,
         IsProxied, Undecided, Enabling, Enabled, Idle
    <3> QED  BY <2>1, <2>2, <3>1, <3>2, <3>3
  <2> QED  BY <1>1, <2>4, <2>5 DEF CleanConf, Cleaning, Cleans
<1>2. CASE StatusRead(p)
  <2> DEFINE found == IF state # NoFile THEN state
                      ELSE IF daemon = "up" THEN Fresh ELSE mem[p].state
             m == [mem[p] EXCEPT !.state = found]
  <2>1. pc[p] = "status" /\ Continue(p, m, "off") /\ UNCHANGED <<files, load, history>>
    BY <1>2 DEF StatusRead, At
  <2>2. Sound(p) /\ mem[p].op = "disable" /\ mem[p] \in Mems
    BY <2>1, Doing, Typed DEF Apiece
  <2>3. ~load'.overlap /\ Solo(p)' /\ pc'[p] = "off" /\ mem'[p] = m  BY <2>1, GoesAlone
  <2>4. mem'[p].op = "disable" /\ mem'[p].was = mem[p].was
        /\ (state # NoFile => mem'[p].state = state)
    BY <2>2, <2>3 DEF Mems
  <2> HIDE DEF m
  <2>5. Current(p)'  BY <2>1, <2>2, <2>3, <2>4 DEF files, Current, Enabled
  <2>6. ASSUME ~repeated' PROVE Saved(p)'
    BY <2>1, <2>2, <2>3, <2>4, <2>6 DEF files, history, Saved,
       IsDirect, IsProxied, Undecided, Enabling, IsClean, Enabled
  <2> QED  BY <2>1, <2>2, <2>3, <2>5, <2>6 DEF files, history
<1>3. CASE SaveDisabled(p)
  <2>1. pc[p] = "off" /\ Finish(p)
        /\ UNCHANGED <<auth, conf, authBak, load, chosen, repeated>>
        /\ state' = (IF mem[p].state = NoFile THEN state
                     ELSE [mem[p].state EXCEPT !.enabled = FALSE])
        /\ mode' = (IF mode = "half" THEN "half" ELSE "direct")
    BY <1>3 DEF SaveDisabled, At
  <2>2. Sound(p) /\ mem[p].op = "disable" /\ mem[p] \in Mems
    BY <2>1, Doing, Typed DEF Apiece
  <2>3. ~load'.overlap /\ Solo(p)' /\ pc'[p] = "idle" /\ mem'[p] = Idle
    BY <2>1, EndsAlone
  <2>4. Current(p)'  BY <2>3 DEF Current, Idle
  <2>5. ~Enabled'
    <3>1. CASE state = NoFile /\ mem[p].state = NoFile  BY <2>1, <3>1 DEF Enabled
    <3>2. CASE mem[p].state # NoFile
      <4>1. mem[p].state \in States  BY <2>2, <3>2 DEF Mems
      <4>2. ~state'.enabled  BY <2>1, <3>2, <4>1 DEF States
      <4> QED  BY <4>2 DEF Enabled
    <3>3. state # NoFile => mem[p].state = state  BY <2>1, <2>2 DEF Current
    <3> QED  BY <3>1, <3>2, <3>3
  <2>6. ASSUME ~repeated' PROVE Saved(p)'
    <3>1. Saved(p) /\ mode # "direct" /\ IsClean
      BY <2>1, <2>2, <2>6 DEF Saved, Undecided, IsDirect
    <3>2. mode' = "direct" => auth \in chosen
      BY <2>1, <3>1 DEF Saved, Base, FilesTyped
    <3>3. mode' # "proxied"  BY <2>1
    <3>4. auth = Synth => authBak = NoFile \/ authBak \in chosen  BY <3>1 DEF Saved
    <3> QED  BY <2>1, <2>3, <2>5, <3>1, <3>2, <3>3, <3>4 DEF Saved,
         IsDirect, Undecided, Enabling, IsClean, Idle
  <2> QED  BY <2>1, <2>2, <2>3, <2>4, <2>6
<1> QED  BY <1>1, <1>2, <1>3

LEMMA KnowsSwitch ==
  ASSUME Base, Base', NEW p \in Actors, Apiece,
         (\E a \in Accounts : SwitchBegin(p, a)) \/ SwitchLook(p) \/ SwitchAuth(p) \/ SwitchConf(p)
  PROVE  Sound(p)'
<1> USE DEF Sound, Known
<1>1. ASSUME NEW a \in Accounts, SwitchBegin(p, a) PROVE Sound(p)'
  <2> DEFINE m == [Idle EXCEPT !.to = a]
             to == IF auth = Synth THEN "select" ELSE "switch"
  <2>1. Begin(p, "switch", m, to) /\ UNCHANGED <<files, load, history>>
    BY <1>1 DEF SwitchBegin
  <2>2. Sound(p) /\ ~load'.overlap /\ Solo(p)' /\ mem[p] = Idle /\ pc'[p] = to
        /\ mem'[p] = [m EXCEPT !.op = "switch"]
    BY <2>1, BeginsAlone
  <2>3. mem'[p].op = "switch" /\ mem'[p].was = FALSE  BY <2>2 DEF Idle
  <2>4. pc'[p] \in {"select", "switch"}  BY <2>2
  <2>5. Current(p)'  BY <2>3, <2>4 DEF Current
  <2>6. ASSUME ~repeated' PROVE Saved(p)'
    BY <2>1, <2>2, <2>3, <2>4, <2>6 DEF files, history, Saved,
       IsDirect, IsProxied, Undecided, Enabling, IsClean, Enabled, Idle
  <2> QED  BY <2>1, <2>2, <2>5, <2>6 DEF files, history
<1>2. CASE SwitchLook(p)
  <2>1. pc[p] = "switch" /\ Continue(p, [mem[p] EXCEPT !.was = auth = Synth], "switchAuth")
        /\ UNCHANGED <<files, load, history>>
    BY <1>2 DEF SwitchLook, At
  <2>2. Sound(p) /\ mem[p].op = "switch" /\ mem[p] \in Mems
    BY <2>1, Doing, Typed DEF Apiece
  <2>3. ~load'.overlap /\ Solo(p)' /\ pc'[p] = "switchAuth"
        /\ mem'[p] = [mem[p] EXCEPT !.was = auth = Synth]
    BY <2>1, GoesAlone
  <2>4. mem'[p].op = "switch" /\ (mem'[p].was <=> auth = Synth)  BY <2>2, <2>3 DEF Mems
  <2>5. Current(p)'  BY <2>3, <2>4 DEF Current
  <2>6. Synth \notin chosen  BY Typed DEF Base, FilesTyped
  <2>7. ASSUME ~repeated' PROVE Saved(p)'
    BY <2>1, <2>2, <2>3, <2>4, <2>6, <2>7 DEF files, history, Saved,
       IsDirect, IsProxied, Undecided, Enabling, IsClean, Enabled
  <2> QED  BY <2>1, <2>2, <2>3, <2>5, <2>7 DEF files, history
<1>3. CASE SwitchAuth(p)
  <2>1. pc[p] = "switchAuth" /\ Continue(p, mem[p], "switchConf") /\ auth' = mem[p].to
        /\ chosen' = (IF Enabled THEN chosen ELSE {mem[p].to})
        /\ UNCHANGED <<conf, authBak, state, load, mode, repeated>>
    BY <1>3 DEF SwitchAuth, At
  <2>2. Sound(p) /\ mem[p].op = "switch"  BY <2>1, Doing DEF Apiece
  <2>3. mem[p].to \in Accounts  BY <2>2 DEF Base, Holds, Fits
  <2>4. ~load'.overlap /\ Solo(p)' /\ pc'[p] = "switchConf" /\ mem'[p] = mem[p]
    BY <2>1, GoesAlone
  <2>5. Current(p)'  BY <2>2, <2>4 DEF Current
  <2>6. auth' # Synth  BY <2>1, <2>3, Typed
  <2>7. ASSUME ~repeated' PROVE Saved(p)'
    BY <2>1, <2>2, <2>4, <2>6, <2>7 DEF Saved,
       IsDirect, IsProxied, Undecided, Enabling, IsClean, Enabled
  <2> QED  BY <2>1, <2>2, <2>4, <2>5, <2>7
<1>4. CASE SwitchConf(p)
  <2> DEFINE source == IF mem[p].was /\ confBak # NoFile THEN confBak ELSE conf
  <2>1. pc[p] = "switchConf" /\ Finish(p) /\ UNCHANGED <<auth, authBak, state, load, history>>
        /\ conf' = (IF conf = NoFile THEN NoFile
                    ELSE IF mem[p].was /\ source = conf THEN Stripped(source) ELSE source)
    BY <1>4 DEF SwitchConf, At
  <2>2. Sound(p) /\ mem[p].op = "switch" /\ mem[p] \in Mems
    BY <2>1, Doing, Typed DEF Apiece
  <2>3. ~load'.overlap /\ Solo(p)' /\ pc'[p] = "idle" /\ mem'[p] = Idle
    BY <2>1, EndsAlone
  <2>4. Current(p)'  BY <2>3 DEF Current, Idle
  <2>5. ~mem[p].was => conf' = conf  BY <2>1
  <2> HIDE DEF source
  <2>6. ASSUME ~repeated' PROVE Saved(p)'
    <3>1. Saved(p)  BY <2>1, <2>2, <2>6 DEF history
    <3>2. mode = "direct" => IsDirect(p) /\ conf' = conf
      BY <2>2, <2>5, <3>1 DEF Saved, Undecided, IsDirect
    <3> QED  BY <2>1, <2>2, <2>3, <3>1, <3>2 DEF history, Saved,
       IsDirect, IsProxied, Undecided, Enabling, IsClean, Enabled, Idle
  <2> QED  BY <2>1, <2>2, <2>3, <2>4, <2>6 DEF history
<1> QED  BY <1>1, <1>2, <1>3, <1>4

LEMMA KnowsSelect ==
  ASSUME Base, Base', NEW p \in Actors, Apiece,
         PersistRead(p) \/ PersistAuth(p) \/ PersistConf(p) \/ PersistSave(p)
  PROVE  Sound(p)'
<1> USE DEF Sound, Known
<1>1. CASE PersistRead(p)
  <2>1. pc[p] = "select" /\ Continue(p, [mem[p] EXCEPT !.state = state], "selectAuth")
        /\ UNCHANGED <<files, load, history>>
    BY <1>1 DEF PersistRead, At
  <2>2. Sound(p) /\ mem[p].op \in {"switch", "select"} /\ mem[p] \in Mems
    BY <2>1, Doing, Typed DEF Apiece
  <2>3. ~load'.overlap /\ Solo(p)' /\ pc'[p] = "selectAuth"
        /\ mem'[p] = [mem[p] EXCEPT !.state = state]
    BY <2>1, GoesAlone
  <2>4. mem'[p].op = mem[p].op /\ mem'[p].was = mem[p].was /\ mem'[p].state = state
    BY <2>2, <2>3 DEF Mems
  <2>5. Current(p)'  BY <2>1, <2>2, <2>3, <2>4 DEF files, Current
  <2>6. ASSUME ~repeated' PROVE Saved(p)'
    BY <2>1, <2>2, <2>3, <2>4, <2>6 DEF files, history, Saved,
       IsDirect, IsProxied, Undecided, Enabling, IsClean, Enabled
  <2> QED  BY <2>1, <2>2, <2>3, <2>5, <2>6 DEF files, history
<1>2. CASE PersistAuth(p)
  <2>1. pc[p] = "selectAuth" /\ Continue(p, mem[p], "selectConf") /\ authBak' = mem[p].to
        /\ chosen' = (IF mode = "direct" THEN chosen ELSE chosen \cup {mem[p].to})
        /\ UNCHANGED <<auth, conf, state, load, mode, repeated>>
    BY <1>2 DEF PersistAuth, At
  <2>2. Sound(p) /\ mem[p].op \in {"switch", "select"}  BY <2>1, Doing DEF Apiece
  <2>3. mem[p].to \in Accounts  BY <2>2 DEF Base, Holds, Fits
  <2>4. mem[p].to # Synth /\ mem[p].to # NoFile  BY <2>3, Typed
  <2>5. ~load'.overlap /\ Solo(p)' /\ pc'[p] = "selectConf" /\ mem'[p] = mem[p]
    BY <2>1, GoesAlone
  <2>6. Current(p)'  BY <2>1, <2>2, <2>5 DEF Current
  <2>7. ASSUME ~repeated' PROVE Saved(p)'
    <3>1. Saved(p)  BY <2>1, <2>2, <2>7
    <3>2. mode = "direct" => IsDirect(p) /\ auth # Synth
      BY <2>2, <3>1, Typed DEF Saved, Undecided, IsDirect, Base, FilesTyped
    <3>3. chosen \subseteq chosen' /\ (mode # "direct" => authBak' \in chosen')  BY <2>1
    <3> QED  BY <2>1, <2>2, <2>4, <2>5, <3>1, <3>2, <3>3 DEF Saved,
       IsDirect, IsProxied, Undecided, Enabling, IsClean, Enabled
  <2> QED  BY <2>1, <2>4, <2>5, <2>6, <2>7
<1>3. CASE PersistConf(p)
  <2>1. pc[p] = "selectConf"
        /\ UNCHANGED <<auth, conf, authBak, state, load, chosen, mode, repeated>>
    BY <1>3 DEF PersistConf, At
  <2>2. Sound(p) /\ mem[p].op \in {"switch", "select"} /\ mem[p] \in Mems
    BY <2>1, Doing, Typed DEF Apiece
  <2>3. CASE Finish(p)
    <3>1. ~load'.overlap /\ Solo(p)' /\ pc'[p] = "idle" /\ mem'[p] = Idle
      BY <2>1, <2>3, EndsAlone
    <3>2. Current(p)'  BY <3>1 DEF Current, Idle
    <3>3. ASSUME ~repeated' PROVE Saved(p)'
      BY <2>1, <2>2, <3>1, <3>3 DEF history, Saved,
         IsDirect, IsProxied, Undecided, Enabling, IsClean, Enabled, Idle
    <3> QED  BY <2>1, <2>2, <3>1, <3>2, <3>3
  <2>4. CASE Continue(p, [mem[p] EXCEPT !.conf = Found(mem[p].to) # NoFile], "selectSave")
    <3>1. ~load'.overlap /\ Solo(p)' /\ pc'[p] = "selectSave"
          /\ mem'[p] = [mem[p] EXCEPT !.conf = Found(mem[p].to) # NoFile]
      BY <2>1, <2>4, GoesAlone
    <3>2. mem'[p].op = mem[p].op /\ mem'[p].was = mem[p].was /\ mem'[p].state = mem[p].state
          /\ mem'[p].to = mem[p].to
      BY <2>2, <3>1 DEF Mems
    <3>3. Current(p)'  BY <2>1, <2>2, <3>1, <3>2 DEF Current
    <3>4. ASSUME ~repeated' PROVE Saved(p)'
      BY <2>1, <2>2, <3>1, <3>2, <3>4 DEF history, Saved,
         IsDirect, IsProxied, Undecided, Enabling, IsClean, Enabled
    <3> QED  BY <2>1, <2>2, <3>1, <3>3, <3>4
  <2> QED  BY <1>3, <2>3, <2>4 DEF PersistConf, Found
<1>4. CASE PersistSave(p)
  <2> DEFINE s == mem[p].state
  <2>1. pc[p] = "selectSave" /\ Finish(p)
        /\ state' = [s EXCEPT !.authBak = TRUE, !.confBak = @ \/ mem[p].conf,
                              !.noAuth = FALSE, !.noConf = @ /\ ~mem[p].conf]
        /\ chosen' = (IF mode = "direct" THEN chosen ELSE {mem[p].to})
        /\ UNCHANGED <<auth, conf, authBak, load, mode, repeated>>
    BY <1>4 DEF PersistSave, At
  <2>2. Sound(p) /\ mem[p].op \in {"switch", "select"} /\ mem[p] \in Mems
    BY <2>1, Doing, Typed DEF Apiece
  <2>3. ~load'.overlap /\ Solo(p)' /\ pc'[p] = "idle" /\ mem'[p] = Idle
    BY <2>1, EndsAlone
  <2>4. Current(p)'  BY <2>3 DEF Current, Idle
  <2>5. s = state /\ authBak = mem[p].to  BY <2>1, <2>2 DEF Current
  <2>6. s # NoFile /\ mem[p].to \in Accounts
    BY <2>1, <2>2 DEF Base, Holds, Fits
  <2>7. s \in States  BY <2>2, <2>6 DEF Mems
  <2>8. state'.enabled = state.enabled /\ state' # NoFile /\ state'.authBak /\ ~state'.noAuth
    <3>1. mem[p].conf \in BOOLEAN  BY <2>2 DEF Mems
    <3>2. state' \in States  BY <2>1, <2>7, <3>1 DEF States
    <3>3. state'.enabled = s.enabled /\ state'.authBak = TRUE /\ state'.noAuth = FALSE
      BY <2>1, <2>7 DEF States
    <3> QED  BY <2>5, <3>2, <3>3, NoFileAssumption
  <2>9. Enabled' = Enabled  BY <2>5, <2>6, <2>8 DEF Enabled
  <2>10. ASSUME ~repeated' PROVE Saved(p)'
    <3>1. Saved(p)  BY <2>1, <2>2, <2>10
    <3>2. mode = "direct" => IsDirect(p) /\ auth # Synth
      BY <2>2, <3>1, Typed DEF Saved, Undecided, IsDirect, Base, FilesTyped
    <3>3. mode # "direct" => authBak \in chosen' /\ authBak # NoFile
      BY <2>1, <2>5, <2>6, Typed
    <3>4. mode = "proxied" => IsProxied'
      BY <2>1, <2>2, <2>8, <2>9, <3>1, <3>3 DEF Saved, Enabling, IsProxied
    <3> HIDE DEF s
    <3> QED  BY <2>1, <2>3, <2>9, <3>1, <3>2, <3>3, <3>4 DEF Saved,
       IsDirect, Undecided, Enabling, IsClean, Idle
  <2> QED  BY <2>1, <2>2, <2>3, <2>4, <2>10
<1> QED  BY <1>1, <1>2, <1>3, <1>4

LEMMA KnowsServer ==
  ASSUME Base, Base', Apiece, NEW a \in Accounts, ServerSelect(a)
  PROVE  Sound(Server)'
<1> DEFINE m == [Idle EXCEPT !.to = a]
<1>1. Begin(Server, "select", m, "select") /\ UNCHANGED <<files, load, history>>
  BY DEF ServerSelect
<1>2. Server \in Actors  BY DEF Actors
<1>3. Sound(Server) /\ ~load'.overlap /\ Solo(Server)' /\ mem[Server] = Idle
      /\ pc'[Server] = "select" /\ mem'[Server] = [m EXCEPT !.op = "select"]
  BY <1>1, <1>2, BeginsAlone
<1>4. mem'[Server].op = "select" /\ mem'[Server].was = FALSE  BY <1>3 DEF Idle
<1>5. Current(Server)'  BY <1>3, <1>4 DEF Current
<1>6. ASSUME ~repeated' PROVE Saved(Server)'
  BY <1>1, <1>3, <1>4, <1>6 DEF files, history, Sound, Known, Saved,
     IsDirect, IsProxied, Undecided, Enabling, IsClean, Enabled, Idle
<1> QED  BY <1>1, <1>3, <1>5, <1>6 DEF files, history, Sound, Known

LEMMA KnowsStop ==
  ASSUME Base, Base', NEW p \in Actors, Apiece,
         StopBegin(p) \/ StopWrite(p) \/ StopReread(p) \/ StopRewrite(p)
  PROVE  Sound(p)'
<1> USE DEF Sound, Known
<1>1. CASE StopBegin(p)
  <2> DEFINE read == IF state = NoFile THEN Fresh ELSE state
             m == [Idle EXCEPT !.state = read]
             to == IF daemon = "up" THEN "kill" ELSE "reread"
  <2>1. Begin(p, "stop", m, to) /\ UNCHANGED <<files, load, history>>
    BY <1>1 DEF StopBegin
  <2>2. Sound(p) /\ ~load'.overlap /\ Solo(p)' /\ mem[p] = Idle /\ pc'[p] = to
        /\ mem'[p] = [m EXCEPT !.op = "stop"]
    BY <2>1, BeginsAlone
  <2>3. mem'[p].op = "stop" /\ mem'[p].was = FALSE /\ mem'[p].state = read
    BY <2>2 DEF Idle
  <2>4. pc'[p] \in {"kill", "reread"}  BY <2>2
  <2>5. Current(p)'  BY <2>1, <2>3, <2>4 DEF files, Current
  <2>6. ASSUME ~repeated' PROVE Saved(p)'
    BY <2>1, <2>2, <2>3, <2>4, <2>6 DEF files, history, Saved,
       IsDirect, IsProxied, Undecided, Enabling, IsClean, Enabled, Idle
  <2> QED  BY <2>1, <2>2, <2>5, <2>6 DEF files, history
<1>2. CASE StopWrite(p)
  <2>1. pc[p] = "stopped" /\ Continue(p, mem[p], "reread") /\ state' = mem[p].state
        /\ UNCHANGED <<auth, conf, authBak, load, history>>
    BY <1>2 DEF StopWrite, At
  <2>2. Sound(p) /\ mem[p].op = "stop"  BY <2>1, Doing DEF Apiece
  <2>3. ~load'.overlap /\ Solo(p)' /\ pc'[p] = "reread" /\ mem'[p] = mem[p]
    BY <2>1, GoesAlone
  <2>4. state' = IF state = NoFile THEN Fresh ELSE state  BY <2>1, <2>2 DEF Current
  <2>5. Enabled' = Enabled /\ (Enabled => state' = state)
    BY <2>4, NoFileAssumption DEF Enabled, Fresh
  <2>6. Current(p)'  BY <2>2, <2>3 DEF Current
  <2>7. ASSUME ~repeated' PROVE Saved(p)'
    BY <2>1, <2>2, <2>3, <2>5, <2>7 DEF history, Saved,
       IsDirect, IsProxied, Undecided, Enabling, IsClean
  <2> QED  BY <2>1, <2>2, <2>3, <2>6, <2>7
<1>3. CASE StopReread(p)
  <2>1. pc[p] = "reread" /\ UNCHANGED <<files, load, history>>  BY <1>3 DEF StopReread, At
  <2>2. Sound(p) /\ mem[p].op = "stop" /\ mem[p] \in Mems
    BY <2>1, Doing, Typed DEF Apiece
  <2>3. CASE Finish(p)
    <3>1. ~load'.overlap /\ Solo(p)' /\ pc'[p] = "idle" /\ mem'[p] = Idle
      BY <2>1, <2>3, EndsAlone
    <3>2. Current(p)'  BY <3>1 DEF Current, Idle
    <3>3. ASSUME ~repeated' PROVE Saved(p)'
      BY <2>1, <2>2, <3>1, <3>3 DEF files, history, Saved,
         IsDirect, IsProxied, Undecided, Enabling, IsClean, Enabled, Idle
    <3> QED  BY <2>1, <2>2, <3>1, <3>2, <3>3 DEF files, history
  <2>4. CASE Continue(p, [mem[p] EXCEPT !.state = state], "rewrite")
    <3>1. ~load'.overlap /\ Solo(p)' /\ pc'[p] = "rewrite"
          /\ mem'[p] = [mem[p] EXCEPT !.state = state]
      BY <2>1, <2>4, GoesAlone
    <3>2. mem'[p].op = "stop" /\ mem'[p].was = mem[p].was /\ mem'[p].state = state
      BY <2>2, <3>1 DEF Mems
    <3>3. Current(p)'  BY <2>1, <3>1, <3>2 DEF files, Current
    <3>4. ASSUME ~repeated' PROVE Saved(p)'
      BY <2>1, <2>2, <3>1, <3>2, <3>4 DEF files, history, Saved,
         IsDirect, IsProxied, Undecided, Enabling, IsClean, Enabled
    <3> QED  BY <2>1, <2>2, <3>1, <3>3, <3>4 DEF files, history
  <2> QED  BY <1>3, <2>3, <2>4 DEF StopReread
<1>4. CASE StopRewrite(p)
  <2>1. pc[p] = "rewrite" /\ Finish(p) /\ state' = mem[p].state
        /\ UNCHANGED <<auth, conf, authBak, load, history>>
    BY <1>4 DEF StopRewrite, At
  <2>2. Sound(p) /\ mem[p].op = "stop"  BY <2>1, Doing DEF Apiece
  <2>3. ~load'.overlap /\ Solo(p)' /\ pc'[p] = "idle" /\ mem'[p] = Idle
    BY <2>1, EndsAlone
  <2>4. state' = state  BY <2>1, <2>2 DEF Current
  <2>5. Current(p)'  BY <2>3 DEF Current, Idle
  <2>6. ASSUME ~repeated' PROVE Saved(p)'
    BY <2>1, <2>2, <2>3, <2>4, <2>6 DEF history, Saved,
       IsDirect, IsProxied, Undecided, Enabling, IsClean, Enabled, Idle
  <2> QED  BY <2>1, <2>2, <2>3, <2>5, <2>6
<1> QED  BY <1>1, <1>2, <1>3, <1>4

\* An operation that ends half-way, as by the daemon's end.  A killed enable makes
\* the mode "half", which nothing but another enable ends.
LEMMA Dropped ==
  ASSUME Base, Base', NEW p \in Actors, Sound(p), ~load'.overlap, Solo(p)',
         UNCHANGED <<files, chosen, repeated>>,
         pc'[p] = "idle", mem'[p] = Idle,
         mode' = IF mem[p].op = "enable" THEN "half" ELSE mode
  PROVE  Sound(p)'
<1>1. Current(p)'  BY DEF Current, Idle
<1>2. ASSUME ~repeated' PROVE Saved(p)'
  <2>1. Saved(p)  BY <1>2 DEF Sound, Known
  <2>2. CASE mem[p].op = "enable"
    BY <2>1, <2>2 DEF files, Saved, Undecided, Enabling, Enabled, Idle
  <2>3. CASE mem[p].op # "enable"
    BY <2>1, <2>3 DEF files, Saved,
       IsDirect, IsProxied, Undecided, Enabling, IsClean, Enabled, Idle
  <2> QED  BY <2>2, <2>3
<1> QED  BY <1>1, <1>2 DEF Sound, Known, files

\* The daemon's end drops what its loop or its server were at, and lets the others
\* go on.
LEMMA KnowsEnding ==
  ASSUME Base, Base', Apiece, Ending
  PROVE  Apiece'
<1> USE DEF Sound, Known
<1>1. Daemon \in Actors /\ Server \in Actors  BY DEF Actors
<1>2. ASSUME NEW p \in Actors, Solo(p) PROVE Sound(p) /\ Solo(p)' /\ ~load'.overlap
  BY <1>2 DEF Apiece, Solo, Ending, Resting
<1>3. ASSUME NEW p \in {Daemon, Server}, Solo(p) PROVE Apiece'
  <2>1. Sound(p) /\ Solo(p)' /\ ~load'.overlap  BY <1>1, <1>2, <1>3
  <2>2. pc'[p] = "idle" /\ mem'[p] = Idle  BY <1>3 DEF Ending, Resting
  <2>3. mem[p].op # "enable"  BY <1>1, <1>3 DEF Base, Holds
  <2>4. Sound(p)'  BY <1>1, <2>1, <2>2, <2>3, Dropped DEF Ending, history
  <2> QED  BY <1>1, <2>4, Widen
<1>4. ASSUME NEW p \in Actors \ {Daemon, Server}, Solo(p) PROVE Apiece'
  <2>1. Sound(p) /\ Solo(p)' /\ ~load'.overlap  BY <1>2, <1>4
  <2>2. UNCHANGED <<files, history>> /\ mem'[p] = mem[p]
        /\ (pc'[p] = pc[p] \/ (pc[p] = "kill" /\ pc'[p] = "stopped"))
    BY <1>4 DEF Ending
  <2>3. pc[p] = "kill" => mem[p].op = "stop"  BY <1>4, Doing
  <2>4. Current(p)'  BY <2>1, <2>2, <2>3 DEF files, Current, Enabled
  <2>5. ASSUME ~repeated' PROVE Saved(p)'
    BY <2>1, <2>2, <2>3, <2>5 DEF files, history, Saved,
       IsDirect, IsProxied, Undecided, Enabling, IsClean, Enabled
  <2>6. Sound(p)'  BY <2>1, <2>2, <2>4, <2>5 DEF files, history
  <2> QED  BY <1>4, <2>6, Widen
<1>5. \E p \in Actors : Solo(p)
  <2>1. CASE \A q \in Actors : pc[q] = "idle"  BY <1>1, <2>1 DEF Solo
  <2>2. CASE \E q \in Actors : pc[q] # "idle"  BY <2>2 DEF Apiece
  <2> QED  BY <2>1, <2>2
<1> QED  BY <1>3, <1>4, <1>5

LEMMA KnowsCrash ==
  ASSUME Base, Base', NEW p \in Actors, Apiece, Crash(p)
  PROVE  Sound(p)'
<1>1. pc[p] # "idle" /\ Finish(p) /\ UNCHANGED <<files, load, chosen, repeated>>
      /\ mode' = IF mem[p].op = "enable" THEN "half" ELSE mode
  BY DEF Crash, At
<1>2. Sound(p) /\ ~load'.overlap /\ Solo(p)' /\ pc'[p] = "idle" /\ mem'[p] = Idle
  BY <1>1, EndsAlone
<1> QED  BY <1>1, <1>2, Dropped

\* A login, which without overlaps comes between operations.
LEMMA KnowsLogin ==
  ASSUME Base, Base', Apiece, NEW a \in Accounts, Login(a)
  PROVE  Sound(Daemon)'
<1>1. UNCHANGED <<conf, authBak, state, pc, mem, load, mode, repeated>>
      /\ auth' = a /\ chosen' = (IF Enabled THEN chosen ELSE {a})
  BY DEF Login
<1>2. Daemon \in Actors /\ Quiet  BY DEF Login, Apiece, Actors
<1>3. Solo(Daemon) /\ pc[Daemon] = "idle" /\ mem[Daemon] = Idle
  BY <1>2 DEF Solo, Quiet, At, Base, Holds, Fits
<1>4. Sound(Daemon) /\ ~load'.overlap /\ Solo(Daemon)'
  BY <1>1, <1>2, <1>3 DEF Sound, Apiece, Solo
<1>5. a # Synth  BY Typed, <1>2
<1>6. Current(Daemon)'  BY <1>1, <1>3 DEF Current, Idle
<1>7. ASSUME ~repeated' PROVE Saved(Daemon)'
  BY <1>1, <1>3, <1>4, <1>5, <1>7 DEF Sound, Known, Saved,
     IsDirect, IsProxied, Undecided, Enabling, IsClean, Enabled, Idle
<1> QED  BY <1>1, <1>4, <1>6, <1>7 DEF Sound, Known

\* Nothing of it moves.
LEMMA KnowsSame ==
  ASSUME Apiece, UNCHANGED <<files, pc, mem, load, history>>
  PROVE  Apiece'
BY DEF files, history, Apiece, Solo, Known, Current, Saved,
       IsDirect, IsProxied, Undecided, Enabling, IsClean, Enabled

-----------------------------------------------------------------------------
(* The invariant and the theorems *)

LEMMA SomeSolo ==
  ASSUME Apiece
  PROVE  \E p \in Actors : Sound(p)
<1>1. Daemon \in Actors  BY DEF Actors
<1>2. CASE \A q \in Actors : pc[q] = "idle"  BY <1>1, <1>2 DEF Solo, Apiece, Sound
<1>3. CASE \E q \in Actors : pc[q] # "idle"  BY <1>3 DEF Apiece, Sound
<1> QED  BY <1>2, <1>3

LEMMA ApieceKept ==
  ASSUME Base, Base', Apiece, [Next]_vars
  PROVE  Apiece'
<1>1. ASSUME NEW p \in Actors,
             \/ EnableBegin(p) \/ DisableBegin(p) \/ StopBegin(p)
             \/ \E a \in Accounts : SwitchBegin(p, a)
             \/ Crash(p)
      PROVE  Apiece'
  <2>1. Sound(p)'  BY <1>1, KnowsEnable, KnowsDisable, KnowsStop, KnowsSwitch, KnowsCrash
  <2> QED  BY <2>1, Widen
<1>2. ASSUME NEW p \in Actors, Step(p) PROVE Apiece'
  <2>1. CASE StopKill(p)  BY <2>1, StopKills, KnowsEnding
  <2>2. CASE ~StopKill(p)
    <3>1. Sound(p)'
      BY <1>2, <2>2, KnowsEnable, KnowsBackup, KnowsWrites, KnowsDisable, KnowsOff,
         KnowsSwitch, KnowsSelect, KnowsStop DEF Step
    <3> QED  BY <3>1, Widen
  <2> QED  BY <2>1, <2>2
<1>3. CASE TickRead \/ TickLook
  <2>1. Daemon \in Actors  BY DEF Actors
  <2> QED  BY <1>3, <2>1, KnowsTick, Widen
<1>4. CASE DaemonDies  BY <1>4, Deaths, KnowsEnding
<1>5. CASE DaemonStart \/ UNCHANGED vars  BY <1>5, KnowsSame DEF DaemonStart, vars
<1>6. ASSUME NEW a \in Accounts, ServerSelect(a) \/ Login(a) PROVE Apiece'
  <2>1. Daemon \in Actors /\ Server \in Actors  BY DEF Actors
  <2> QED  BY <1>6, <2>1, KnowsServer, KnowsLogin, Widen
<1> QED  BY <1>1, <1>2, <1>3, <1>4, <1>5, <1>6 DEF Next

LEMMA ApieceAtFirst ==
  ASSUME Init, Base, ~load.overlap
  PROVE  Apiece
<1>1. ASSUME NEW p \in Actors PROVE pc[p] = "idle" /\ Known(p)
  <2>1. pc[p] = "idle" /\ mem[p] = Idle /\ state = NoFile /\ authBak = NoFile
        /\ chosen = {auth} /\ mode = "direct"
    BY <1>1 DEF Init
  <2>2. Current(p)  BY <2>1 DEF Current, Idle
  <2>3. conf # NoFile => ~conf.proxy  BY DEF Init
  <2>4. Saved(p)
    BY <2>1, <2>3 DEF Saved, IsDirect, Undecided, Enabling, IsClean, Enabled, Idle
  <2>5. authBak # Synth  BY <2>1, ProxyModeAssumption
  <2> QED  BY <2>1, <2>2, <2>4, <2>5 DEF Known
<1> QED  BY <1>1 DEF Apiece

LEMMA LoadStays ==
  ASSUME [Next]_vars
  PROVE  load' = load
<1>1. ASSUME NEW p \in Actors, Step(p) PROVE load' = load
  BY <1>1 DEF Step, StartRead, StartWrite, Inspect, BackupAuth, BackupConf, ReadConf,
     WriteSynth, WriteLive, SaveEnabled, RestoreAuth, RestoreConf, CleanConf, Cleaning,
     StatusRead,
     SaveDisabled, SwitchLook, SwitchAuth, SwitchConf, PersistRead, PersistAuth,
     PersistConf, PersistSave, StopKill, StopWrite, StopReread, StopRewrite
<1> QED
  BY <1>1 DEF Next, vars, EnableBegin, DisableBegin, StopBegin, SwitchBegin, Crash,
     TickRead, TickLook, DaemonDies, DaemonStart, ServerSelect, Login

LEMMA Always == Spec => []IInv
<1>1. Init => IInv  BY BaseAtFirst, ApieceAtFirst DEF IInv
<1>2. IInv /\ [Next]_vars => IInv'
  <2> SUFFICES ASSUME IInv, [Next]_vars PROVE IInv'
    OBVIOUS
  <2>1. Base'  BY BaseKept DEF IInv
  <2>2. CASE load.overlap
    <3>1. load' = load  BY LoadStays
    <3> QED  BY <2>1, <2>2, <3>1 DEF IInv
  <2>3. CASE ~load.overlap
    BY <2>1, <2>3, ApieceKept DEF IInv
  <2> QED  BY <2>2, <2>3
<1> QED  BY <1>1, <1>2, PTL DEF Spec

LEMMA Consequences ==
  ASSUME IInv
  PROVE  RestoreInv
<1>1. TypeOK
  <2>1. authBak \in IF load.overlap THEN Auths ELSE Auths \ {Synth}
    <3>1. CASE load.overlap  BY <3>1 DEF IInv, Base, FilesTyped
    <3>2. CASE ~load.overlap
      BY <3>2, SomeSolo DEF IInv, Base, FilesTyped, Sound, Known
    <3> QED  BY <3>1, <3>2
  <2>2. \A p \in Actors : /\ mem[p].state \in States \cup {NoFile}
                          /\ mem[p].to \in Accounts \cup {NoFile} /\ mem[p].raw \in Configs
    BY DEF IInv, Base, ActorsTyped, Mems
  <2> QED  BY <2>1, <2>2 DEF IInv, Base, FilesTyped, ActorsTyped, Places, TypeOK
<1>2. ASSUME Orderly PROVE auth \in chosen /\ IsClean
  <2>1. Daemon \in Actors  BY DEF Actors
  <2>2. \A q \in Actors : pc[q] = "idle"  BY <1>2 DEF Orderly, Quiet, At
  <2>3. Saved(Daemon)  BY <1>2, <2>1, <2>2 DEF Orderly, IInv, Apiece, Solo, Known
  <2>4. mem[Daemon] = Idle  BY <2>1, <2>2 DEF IInv, Base, Holds, Fits
  <2> QED  BY <1>2, <2>3, <2>4 DEF Orderly, Saved, Undecided, IsDirect, Idle
<1>3. custom => conf # NoFile /\ conf.user  BY DEF IInv, Base, FilesOfUser
<1> QED  BY <1>1, <1>2, <1>3 DEF RestoreInv, ChosenRestored, ConfigRestored, IsClean

\* Whatever sequence of enables, repeated enables, switches, selections by the proxy
\* server, stops, logins, crashes and deaths of the daemon led to it: when nothing is
\* under way after a disable, auth.json is the auth last chosen, and config.toml has no
\* address of the proxy and still has the lines of the user with other keys than the
\* proxy's.
THEOREM Restores == Spec => []RestoreInv
<1>1. IInv => RestoreInv  BY Consequences
<1> QED  BY <1>1, Always, PTL

\* The lines of the user with other keys than the proxy's survive even operations that
\* overlap: at no moment, between any two writes of any commands, is config.toml
\* without them.
THEOREM UserLinesStay == Spec => [](custom => conf # NoFile /\ conf.user)
<1>1. IInv => (custom => conf # NoFile /\ conf.user)  BY DEF IInv, Base, FilesOfUser
<1> QED  BY <1>1, Always, PTL
=============================================================================
