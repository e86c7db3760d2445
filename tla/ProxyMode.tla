------------------------------ MODULE ProxyMode ------------------------------
(***************************************************************************)
(* Enabling and disabling the proxy for the default runtime: the current   *)
(* ~/.codex/auth.json and config.toml, their backups under proxy/ and      *)
(* proxy-state.json, as `codexm proxy enable/disable/stop` (commands and   *)
(* TUI), `codexm switch`, the daemon's loop that applies a drifted proxy   *)
(* runtime again, and the proxy server that persists another upstream      *)
(* account, read and write them (src/src/proxy/{config,runtime,state,      *)
(* process}.ts, src/src/commands/{proxy,tui,daemon}.ts).                   *)
(*                                                                         *)
(* An auth.json is the account it belongs to or the synthetic one; a       *)
(* config.toml is what lines it has: other lines of the user, the user's   *)
(* own values of the keys that the proxy sets, the proxy's addresses and   *)
(* its preferred_auth_method.  model_provider and provider tables, which a *)
(* switch drops from every config, are left out.                           *)
(* Accounts log in with ChatGPT, host and port do not change.  The daemon  *)
(* is up or not, how it is started and stopped is left out; the switch lock  *)
(* is an abstract mutex (SwitchLock).                                      *)
(***************************************************************************)
EXTENDS Naturals

CONSTANTS Cli,       \* processes that run codexm commands
          Tui,       \* dashboards: they enable and disable without the lock
          Daemon, Server,   \* the daemon's loop and its proxy server
          NoProc,
          Accounts,
          WithConfig,   \* the accounts saved with a config.toml
          Synth, NoFile,
          Loads,        \* workloads: who runs commands, bounds on the commands and
                        \* on the accounts the proxy server selects, and whether
                        \* operations outside the lock may overlap others
          MaxLogins,    \* bound: logins by `codex login`
          MaxCrashes    \* bound: commands killed half-way, and deaths of the daemon

Actors == Cli \cup Tui \cup {Daemon, Server}

ASSUME ProxyModeAssumption ==
  /\ Cli \cap Tui = {} /\ {Daemon, Server, NoProc} \cap (Cli \cup Tui) = {}
  /\ Daemon # Server /\ NoProc \notin {Daemon, Server}
  /\ WithConfig \subseteq Accounts /\ {Synth, NoFile} \cap Accounts = {} /\ Synth # NoFile
  /\ Loads \subseteq [procs : SUBSET (Cli \cup Tui), commands : Nat, selections : Nat,
                      overlap : BOOLEAN]
  /\ {MaxLogins, MaxCrashes} \subseteq Nat

VARIABLES auth, conf,        \* ~/.codex/auth.json and config.toml
          authBak, confBak,  \* proxy/last-direct-auth.json and last-direct-config.toml
          state,             \* proxy-state.json
          daemon,            \* "off": never started for the proxy; "up"; "down"
          lock,              \* holder of the switch lock
          pc, mem,           \* where each actor is, and its local variables
          load,              \* the workload of this behaviour
          used,              \* what is used of the bounds
          chosen,    \* history: the auth a disable may put in effect
          mode,      \* history: "direct", "proxied", or "half": an enable was killed
          repeated,  \* history: a disable while direct, or an enable over a
                     \* synthetic auth that has no backup
          custom,    \* history: the config.toml had other lines of the user at first
          owned,     \* history: ... and values of its own for the proxy's keys
          mixed      \* history: a backup of config.toml was taken of the proxy's own
                     \* config or replaced by a selection, or a disable found none

files == <<auth, conf, authBak, confBak, state>>
history == <<chosen, mode, repeated, custom, owned, mixed>>
vars == <<files, daemon, lock, pc, mem, load, used, history>>

Auths == Accounts \cup {Synth, NoFile}
Toml == [user : BOOLEAN, own : BOOLEAN, proxy : BOOLEAN, method : BOOLEAN]
Configs == Toml \cup {NoFile}
\* ProxyProcessState without pid, host and port: enabled, whether the backup
\* paths are set, and direct_auth_existed = false, direct_config_existed = false.
States == [enabled : BOOLEAN, authBak : BOOLEAN, confBak : BOOLEAN,
           noAuth : BOOLEAN, noConf : BOOLEAN]
\* A file that is not there has none of the contents a file can have.
ASSUME NoFileAssumption == NoFile \notin Toml \cup States
\* toMaterializedProxyState(null, ...)
Fresh == [enabled |-> FALSE, authBak |-> FALSE, confBak |-> FALSE,
          noAuth |-> FALSE, noConf |-> FALSE]
Idle == [op |-> "none", to |-> NoFile, state |-> NoFile, was |-> FALSE,
         auth |-> FALSE, conf |-> FALSE, raw |-> NoFile]

\* stripProxyRuntimeConfig: no line with a key of the proxy, whoever wrote it.
Stripped(c) == [c EXCEPT !.own = FALSE, !.proxy = FALSE, !.method = FALSE]
Empty == [user |-> FALSE, own |-> FALSE, proxy |-> FALSE, method |-> FALSE]
\* buildLiveProxyConfig: the user's other lines and the proxy's.
Live(c) == [Stripped(IF c = NoFile THEN Empty ELSE c) EXCEPT !.proxy = TRUE, !.method = TRUE]
\* A sanitized file that would be empty is dropped.
OrNoFile(c) == IF c = Empty THEN NoFile ELSE c
\* sanitizeProxyConfig, of a config.toml that no backup replaces.
Sanitized(c) == IF c = NoFile THEN NoFile ELSE OrNoFile(Stripped(c))
\* sanitizeRestoredDirectConfig, of a backup: only the addresses that are known as
\* the proxy's go, preferred_auth_method may be the user's.
SanitizedBackup(c) == OrNoFile([c EXCEPT !.proxy = FALSE])

Enabled == state # NoFile /\ state.enabled
Quiet == \A p \in Actors : pc[p] = "idle"

-----------------------------------------------------------------------------
(* Operations begin, go on and end *)

Goto(p, to) == pc' = [pc EXCEPT ![p] = to]
At(p, here) == pc[p] = here

\* An operation that takes the switch lock: the commands, but `proxy stop`.
Locking(p, op) == \/ p \in Cli /\ op \in {"enable", "disable"}
                  \/ op = "switch"

MayBegin(p, op) ==
  load.overlap \/ \A q \in Actors : At(q, "idle") \/ (Locking(p, op) /\ Locking(q, mem[q].op))

Begin(p, op, m, to) ==
  /\ At(p, "idle")
  /\ mem' = [mem EXCEPT ![p] = [m EXCEPT !.op = op]]
  /\ Goto(p, to)
  /\ MayBegin(p, op)
  /\ IF Locking(p, op) THEN lock = NoProc /\ lock' = p ELSE UNCHANGED lock

Finish(p) ==
  /\ Goto(p, "idle")
  /\ mem' = [mem EXCEPT ![p] = Idle]
  /\ lock' = IF lock = p THEN NoProc ELSE lock

Continue(p, m, to) ==
  /\ mem' = [mem EXCEPT ![p] = m]
  /\ Goto(p, to)
  /\ UNCHANGED lock

Spend(what, bound) == used[what] < bound /\ used' = [used EXCEPT ![what] = @ + 1]

-----------------------------------------------------------------------------
(* enable, and the daemon's re-application *)

\* enableProxyMode: startDetached has the daemon run the proxy ...
EnableBegin(p) ==
  /\ p \in load.procs
  /\ Spend("commands", load.commands)
  /\ Begin(p, "enable", Idle, "start")
  /\ daemon' = "up"
  /\ UNCHANGED <<files, load, history>>

\* ... and writes the proxy state it reads back with the daemon's address.
StartRead(p) ==
  /\ At(p, "start")
  /\ Continue(p, [mem[p] EXCEPT !.state = IF state = NoFile THEN Fresh ELSE state], "started")
  /\ UNCHANGED <<files, daemon, load, used, history>>

StartWrite(p) ==
  /\ At(p, "started")
  /\ state' = mem[p].state
  /\ Continue(p, mem[p], "inspect")
  /\ UNCHANGED <<auth, conf, authBak, confBak, daemon, load, used, history>>

\* Mutant of Inspect: whatever is there is backed up, the synthetic auth too.
InspectAlwaysDirect(p) ==
  /\ At(p, "inspect")
  /\ Continue(p, [mem[p] EXCEPT !.auth = auth # NoFile, !.conf = conf # NoFile], "backupAuth")
  /\ UNCHANGED <<files, daemon, load, used, history>>

\* writeSyntheticProxyRuntime looks what is there.  Over a synthetic auth that
\* has no backup behind it, "a direct auth existed" will be recorded all the same.
Inspect(p) ==
  /\ At(p, "inspect")
  /\ Continue(p, [mem[p] EXCEPT !.was = auth = Synth, !.auth = auth # NoFile,
                                !.conf = conf # NoFile],
              IF auth = Synth THEN "raw" ELSE "backupAuth")
  /\ repeated' = (repeated \/ (auth = Synth /\ authBak = NoFile))
  /\ UNCHANGED <<files, daemon, load, used, chosen, mode, custom, owned, mixed>>

\* copyFile fails when the file has gone meanwhile.
BackupAuth(p) ==
  /\ At(p, "backupAuth")
  /\ IF mem[p].auth /\ auth = NoFile
       THEN Finish(p) /\ UNCHANGED <<authBak, chosen>>
       ELSE /\ authBak' = IF mem[p].auth THEN auth ELSE NoFile
            /\ chosen' = IF authBak' = Synth THEN chosen ELSE {authBak'}
            /\ Continue(p, mem[p], "backupConf")
  /\ UNCHANGED <<auth, conf, confBak, state, daemon, load, used, mode, repeated, custom, owned, mixed>>

BackupConf(p) ==
  /\ At(p, "backupConf")
  /\ IF mem[p].conf /\ conf = NoFile
       THEN Finish(p) /\ UNCHANGED <<confBak, mixed>>
       ELSE /\ confBak' = IF mem[p].conf THEN conf ELSE NoFile
            /\ mixed' = (mixed \/ (mem[p].conf /\ (conf.proxy \/ conf.method)))
            /\ Continue(p, mem[p], "raw")
  /\ UNCHANGED <<auth, conf, authBak, state, daemon, load, used, chosen, mode, repeated, custom, owned>>

ReadConf(p) ==
  /\ At(p, "raw")
  /\ IF mem[p].conf /\ conf = NoFile
       THEN Finish(p)
       ELSE Continue(p, [mem[p] EXCEPT !.raw = IF mem[p].conf THEN conf ELSE NoFile], "synth")
  /\ UNCHANGED <<files, daemon, load, used, history>>

WriteSynth(p) ==
  /\ At(p, "synth")
  /\ auth' = Synth
  /\ Continue(p, mem[p], "live")
  /\ UNCHANGED <<conf, authBak, confBak, state, daemon, load, used, history>>

WriteLive(p) ==
  /\ At(p, "live")
  /\ conf' = Live(mem[p].raw)
  /\ Continue(p, mem[p], "save")
  /\ UNCHANGED <<auth, authBak, confBak, state, daemon, load, used, history>>

\* writeProxyState(enabledState), or of the state the daemon's loop has read.
SaveEnabled(p) ==
  /\ At(p, "save")
  /\ state' = IF mem[p].op = "tick"
                THEN [mem[p].state EXCEPT !.enabled = TRUE]
                ELSE [enabled |-> TRUE, authBak |-> mem[p].auth, confBak |-> mem[p].conf,
                      noAuth |-> ~mem[p].auth, noConf |-> ~mem[p].conf]
  /\ mode' = IF mem[p].op = "enable" THEN "proxied" ELSE mode
  /\ Finish(p)
  /\ UNCHANGED <<auth, conf, authBak, confBak, daemon, load, used, chosen, repeated, custom, owned, mixed>>

\* runDaemonProxyRuntimeLoop, ensureSyntheticProxyRuntimeActive: every five seconds.
TickRead ==
  /\ daemon = "up" /\ Enabled
  /\ Begin(Daemon, "tick", [Idle EXCEPT !.state = state], "look")
  /\ UNCHANGED <<files, daemon, load, used, history>>

Applied == auth = Synth /\ conf # NoFile /\ conf.proxy

\* Mutant of TickLook: the synthetic auth alone is enough.
TickLookAuthOnly ==
  /\ At(Daemon, "look")
  /\ IF auth = Synth
       THEN Finish(Daemon)
       ELSE Continue(Daemon, [mem[Daemon] EXCEPT !.conf = conf # NoFile], "raw")
  /\ UNCHANGED <<files, daemon, load, used, history>>

\* Is the proxy in effect?  If not, reapplySyntheticProxyRuntime follows.
TickLook ==
  /\ At(Daemon, "look")
  /\ IF Applied
       THEN Finish(Daemon)
       ELSE Continue(Daemon, [mem[Daemon] EXCEPT !.conf = conf # NoFile], "raw")
  /\ UNCHANGED <<files, daemon, load, used, history>>

-----------------------------------------------------------------------------
(* disable *)

\* disableProxyMode reads the state; it does not look whether it is enabled.
DisableBegin(p) ==
  /\ p \in load.procs
  /\ Spend("commands", load.commands)
  /\ Begin(p, "disable", [Idle EXCEPT !.state = state], "restoreAuth")
  /\ repeated' = (repeated \/ mode = "direct")
  /\ UNCHANGED <<files, daemon, load, chosen, mode, custom, owned, mixed>>

\* restoreDirectRuntime
RestoreAuth(p) ==
  /\ At(p, "restoreAuth")
  /\ LET s == mem[p].state IN
       auth' = IF s # NoFile /\ s.noAuth THEN NoFile
               ELSE IF s # NoFile /\ s.authBak /\ authBak # NoFile THEN authBak
               ELSE auth
  /\ Continue(p, mem[p], "restoreConf")
  /\ UNCHANGED <<conf, authBak, confBak, state, daemon, load, used, history>>

RestoreConf(p) ==
  /\ At(p, "restoreConf")
  /\ LET s == mem[p].state
         copied == s # NoFile /\ s.confBak /\ confBak # NoFile
     IN  IF s # NoFile /\ s.noConf
           THEN conf' = NoFile /\ Continue(p, mem[p], "status")
           ELSE /\ conf' = IF copied THEN confBak ELSE conf
                /\ Continue(p, [mem[p] EXCEPT !.conf = copied], "clean")
  /\ UNCHANGED <<auth, authBak, confBak, state, daemon, load, used, history>>

\* A restored backup that is gone again is an error.
Cleaning(p, clean) ==
  /\ At(p, "clean")
  /\ IF mem[p].conf /\ conf = NoFile
       THEN Finish(p) /\ UNCHANGED <<conf, mixed>>
       ELSE /\ conf' = clean
            /\ mixed' = (mixed \/ ~mem[p].conf)
            /\ Continue(p, mem[p], "status")
  /\ UNCHANGED <<auth, authBak, confBak, state, daemon, load, used, chosen, mode, repeated, custom, owned>>

\* Mutant of CleanConf: a restored backup is taken to be clean.
CleanConfUnlessCopied(p) == Cleaning(p, IF mem[p].conf THEN conf ELSE Sanitized(conf))

\* Mutant of CleanConf: the backup loses every line with a key of the proxy.
CleanConfAlike(p) == Cleaning(p, Sanitized(conf))

\* The lines of the proxy are taken out of the backup that was restored, or of the
\* config that is there.
CleanConf(p) == Cleaning(p, IF mem[p].conf THEN SanitizedBackup(conf) ELSE Sanitized(conf))

\* proxyProcessManager.getStatus reads the proxy state again ...
StatusRead(p) ==
  /\ At(p, "status")
  /\ Continue(p, [mem[p] EXCEPT !.state = IF state # NoFile THEN state
                                          ELSE IF daemon = "up" THEN Fresh ELSE @], "off")
  /\ UNCHANGED <<files, daemon, load, used, history>>

\* ... which is written disabled.
SaveDisabled(p) ==
  /\ At(p, "off")
  /\ state' = IF mem[p].state = NoFile THEN state ELSE [mem[p].state EXCEPT !.enabled = FALSE]
  /\ mode' = IF mode = "half" THEN "half" ELSE "direct"
  /\ Finish(p)
  /\ UNCHANGED <<auth, conf, authBak, confBak, daemon, load, used, chosen, repeated, custom, owned, mixed>>

-----------------------------------------------------------------------------
(* switch, and the persistence of the upstream account *)

\* switchAccountPreservingProxyRuntime
SwitchBegin(p, a) ==
  /\ p \in load.procs
  /\ Spend("commands", load.commands)
  /\ Begin(p, "switch", [Idle EXCEPT !.to = a], IF auth = Synth THEN "select" ELSE "switch")
  /\ UNCHANGED <<files, daemon, load, history>>

\* switchAccount looks again.
SwitchLook(p) ==
  /\ At(p, "switch")
  /\ Continue(p, [mem[p] EXCEPT !.was = auth = Synth], "switchAuth")
  /\ UNCHANGED <<files, daemon, load, used, history>>

\* A direct auth that appears while the proxy is enabled is drift, which the
\* daemon replaces: it is not chosen.
SwitchAuth(p) ==
  /\ At(p, "switchAuth")
  /\ auth' = mem[p].to
  /\ chosen' = IF Enabled THEN chosen ELSE {mem[p].to}
  /\ Continue(p, mem[p], "switchConf")
  /\ UNCHANGED <<conf, authBak, confBak, state, daemon, load, used, mode, repeated, custom, owned, mixed>>

SwitchConf(p) ==
  /\ At(p, "switchConf")
  /\ LET source == IF mem[p].was /\ confBak # NoFile THEN confBak ELSE conf
     IN  conf' = IF conf = NoFile THEN NoFile
                 ELSE IF mem[p].was /\ source = conf THEN Stripped(source)
                 ELSE source
  /\ Finish(p)
  /\ UNCHANGED <<auth, authBak, confBak, state, daemon, load, used, history>>

\* The proxy server continues with another account after a quota failure.
ServerSelect(a) ==
  /\ daemon = "up"
  /\ Spend("selections", load.selections)
  /\ Begin(Server, "select", [Idle EXCEPT !.to = a], "select")
  /\ UNCHANGED <<files, daemon, load, history>>

\* persistProxyUpstreamAccountSelection
PersistRead(p) ==
  /\ At(p, "select")
  /\ Continue(p, [mem[p] EXCEPT !.state = state], "selectAuth")
  /\ UNCHANGED <<files, daemon, load, used, history>>

PersistAuth(p) ==
  /\ At(p, "selectAuth")
  /\ authBak' = mem[p].to
  /\ chosen' = IF mode = "direct" THEN chosen ELSE chosen \cup {mem[p].to}
  /\ Continue(p, mem[p], "selectConf")
  /\ UNCHANGED <<auth, conf, confBak, state, daemon, load, used, mode, repeated, custom, owned, mixed>>

\* resolveDirectConfigBackupContent: the account's config, the current one or
\* the backup, without the lines of the proxy.
PersistConf(p) ==
  /\ At(p, "selectConf")
  /\ LET found == CASE mem[p].to \in WithConfig -> [Empty EXCEPT !.user = TRUE]
                    [] mem[p].to \notin WithConfig /\ conf # NoFile -> Stripped(conf)
                    [] mem[p].to \notin WithConfig /\ conf = NoFile ->
                         IF confBak = NoFile THEN NoFile ELSE Stripped(confBak)
     IN  /\ confBak' = IF found = NoFile THEN confBak ELSE found
         /\ mixed' = (mixed \/ found # NoFile)
         /\ IF mem[p].state = NoFile
              THEN Finish(p)
              ELSE Continue(p, [mem[p] EXCEPT !.conf = found # NoFile], "selectSave")
  /\ UNCHANGED <<auth, conf, authBak, state, daemon, load, used, chosen, mode, repeated, custom, owned>>

\* Mutant of PersistSave: only the paths are recorded.
PersistSavePathsOnly(p) ==
  /\ At(p, "selectSave")
  /\ state' = [mem[p].state EXCEPT !.authBak = TRUE, !.confBak = @ \/ mem[p].conf]
  /\ chosen' = IF mode = "direct" THEN chosen ELSE {mem[p].to}
  /\ Finish(p)
  /\ UNCHANGED <<auth, conf, authBak, confBak, daemon, load, used, mode, repeated, custom, owned, mixed>>

PersistSave(p) ==
  /\ At(p, "selectSave")
  /\ state' = [mem[p].state EXCEPT !.authBak = TRUE, !.confBak = @ \/ mem[p].conf,
                                   !.noAuth = FALSE, !.noConf = @ /\ ~mem[p].conf]
  /\ chosen' = IF mode = "direct" THEN chosen ELSE {mem[p].to}
  /\ Finish(p)
  /\ UNCHANGED <<auth, conf, authBak, confBak, daemon, load, used, mode, repeated, custom, owned, mixed>>

-----------------------------------------------------------------------------
(* proxy stop, the daemon's end, and what happens outside *)

\* The daemon ends, with what its loop and its server were at.
DaemonEnds(others) ==
  /\ daemon' = "down"
  /\ pc' = [q \in Actors |-> IF q \in {Daemon, Server} THEN "idle" ELSE others[q]]

\* proxy stop: getStatus; a daemon that runs is stopped ...
StopBegin(p) ==
  /\ p \in Cli \cap load.procs
  /\ Spend("commands", load.commands)
  /\ Begin(p, "stop", [Idle EXCEPT !.state = IF state = NoFile THEN Fresh ELSE state],
           IF daemon = "up" THEN "kill" ELSE "reread")
  /\ UNCHANGED <<files, daemon, load, history>>

StopKill(p) ==
  /\ At(p, "kill")
  /\ DaemonEnds([pc EXCEPT ![p] = "stopped"])
  /\ mem' = [mem EXCEPT ![Daemon] = Idle, ![Server] = Idle]
  /\ UNCHANGED <<files, lock, load, used, history>>

\* ... and the state read before it is written with pid 0; then once more.
StopWrite(p) ==
  /\ At(p, "stopped")
  /\ state' = mem[p].state
  /\ Continue(p, mem[p], "reread")
  /\ UNCHANGED <<auth, conf, authBak, confBak, daemon, load, used, history>>

StopReread(p) ==
  /\ At(p, "reread")
  /\ IF state = NoFile THEN Finish(p) ELSE Continue(p, [mem[p] EXCEPT !.state = state], "rewrite")
  /\ UNCHANGED <<files, daemon, load, used, history>>

StopRewrite(p) ==
  /\ At(p, "rewrite")
  /\ state' = mem[p].state
  /\ Finish(p)
  /\ UNCHANGED <<auth, conf, authBak, confBak, daemon, load, used, history>>

DaemonDies ==
  /\ daemon = "up"
  /\ Spend("crashes", MaxCrashes)
  /\ DaemonEnds(pc)
  /\ mem' = [mem EXCEPT ![Daemon] = Idle, ![Server] = Idle]
  /\ UNCHANGED <<files, lock, load, history>>

\* codexm daemon start, with the features the daemon had.
DaemonStart ==
  /\ daemon = "down"
  /\ daemon' = "up"
  /\ UNCHANGED <<files, lock, pc, mem, load, used, history>>

\* A command is killed; its lock is taken over by the next (SwitchLock).
Crash(p) ==
  /\ p \in Cli \cup Tui /\ ~At(p, "idle")
  /\ Spend("crashes", MaxCrashes)
  /\ mode' = IF mem[p].op = "enable" THEN "half" ELSE mode
  /\ Finish(p)
  /\ UNCHANGED <<files, daemon, load, chosen, repeated, custom, owned, mixed>>

\* codex login replaces auth.json.
Login(a) ==
  /\ load.overlap \/ Quiet
  /\ Spend("logins", MaxLogins)
  /\ auth' = a
  /\ chosen' = IF Enabled THEN chosen ELSE {a}
  /\ UNCHANGED <<conf, authBak, confBak, state, daemon, lock, pc, mem, load, mode, repeated, custom, owned, mixed>>

Init ==
  /\ auth \in Accounts \cup {NoFile}
  /\ conf \in {NoFile} \cup {c \in Toml \ {Empty} : ~c.proxy /\ ~c.method}
  /\ authBak = NoFile /\ confBak = NoFile /\ state = NoFile
  /\ daemon = "off" /\ lock = NoProc
  /\ pc = [p \in Actors |-> "idle"] /\ mem = [p \in Actors |-> Idle]
  /\ load \in Loads
  /\ used = [what \in {"commands", "logins", "selections", "crashes"} |-> 0]
  /\ chosen = {auth} /\ mode = "direct" /\ repeated = FALSE
  /\ custom = (conf # NoFile /\ conf.user) /\ owned = (conf # NoFile /\ conf.own)
  /\ mixed = FALSE

Step(p) ==
  \/ StartRead(p) \/ StartWrite(p) \/ Inspect(p) \/ BackupAuth(p) \/ BackupConf(p)
  \/ ReadConf(p) \/ WriteSynth(p) \/ WriteLive(p) \/ SaveEnabled(p)
  \/ RestoreAuth(p) \/ RestoreConf(p) \/ CleanConf(p) \/ StatusRead(p) \/ SaveDisabled(p)
  \/ SwitchLook(p) \/ SwitchAuth(p) \/ SwitchConf(p)
  \/ PersistRead(p) \/ PersistAuth(p) \/ PersistConf(p) \/ PersistSave(p)
  \/ StopKill(p) \/ StopWrite(p) \/ StopReread(p) \/ StopRewrite(p)

Next ==
  \/ \E p \in Actors : \/ EnableBegin(p) \/ DisableBegin(p) \/ StopBegin(p)
                       \/ \E a \in Accounts : SwitchBegin(p, a)
                       \/ Step(p) \/ Crash(p)
  \/ TickRead \/ TickLook \/ DaemonDies \/ DaemonStart
  \/ \E a \in Accounts : ServerSelect(a) \/ Login(a)

Spec == Init /\ [][Next]_vars

\* An operation in progress goes on, and the daemon's timer fires.
FairSpec ==
  Spec /\ (\A p \in Actors : WF_vars(Step(p))) /\ WF_vars(TickRead) /\ WF_vars(TickLook)

-----------------------------------------------------------------------------
(* Properties *)

\* What each variable can be; without overlaps enable never backs up the
\* synthetic auth (writeSyntheticProxyRuntime looks for it first).
TypeOK ==
  /\ auth \in Auths /\ authBak \in IF load.overlap THEN Auths ELSE Auths \ {Synth}
  /\ conf \in Configs /\ confBak \in Configs
  /\ state \in States \cup {NoFile}
  /\ daemon \in {"off", "up", "down"} /\ lock \in Actors \cup {NoProc}
  /\ pc \in [Actors -> {"idle", "start", "started", "inspect", "backupAuth", "backupConf", "raw",
                        "synth", "live", "save", "look", "restoreAuth", "restoreConf", "clean",
                        "status", "off", "select", "selectAuth", "selectConf", "selectSave",
                        "switch", "switchAuth", "switchConf", "kill", "stopped", "reread", "rewrite"}]
  /\ \A p \in Actors : /\ mem[p].state \in States \cup {NoFile}
                       /\ mem[p].to \in Accounts \cup {NoFile} /\ mem[p].raw \in Configs
  /\ load \in Loads
  /\ chosen \subseteq Accounts \cup {NoFile}
  /\ mode \in {"direct", "proxied", "half"}

\* Operations that do not overlap outside the lock, no disable while direct and
\* no enable over a synthetic auth without a backup (both put back what is no
\* longer right), and no killed enable that was not repeated.
Orderly == Quiet /\ ~load.overlap /\ ~repeated /\ mode = "direct"

\* After a disable, whatever was enabled, re-enabled, switched, selected by the
\* proxy, stopped or killed half-way before it, auth.json is the auth last chosen:
\* the direct one that an enable found, or an upstream account picked since.
ChosenRestored == Orderly => auth \in chosen

\* ... config.toml has no address of the proxy left and all lines of the user with
\* other keys than the proxy's.
ConfigRestored ==
  Orderly => /\ conf # NoFile => ~conf.proxy
             /\ custom => conf # NoFile /\ conf.user

\* With the backup that was taken of the user's config, neither of the proxy's own
\* nor replaced by a selection, config.toml also has the user's own values of the
\* proxy's keys again, and not the proxy's preferred_auth_method.
OwnRestored ==
  /\ conf # NoFile => ~conf.method
  /\ owned => conf # NoFile /\ conf.own
OwnLinesBack == Orderly => mixed \/ OwnRestored

\* While the proxy is enabled and the daemon runs, a direct auth or config that
\* replaced the proxy's (a login, a switch that overlapped) does not stay, however
\* the loop interleaves with commands.
ProxyReturns == (daemon = "up" /\ Enabled) ~> (Applied \/ ~Enabled \/ daemon # "up")

\* A disable restores both files from whatever state led to it (restoreDirectRuntime).
RestoreInv == TypeOK /\ ChosenRestored /\ ConfigRestored
=============================================================================
