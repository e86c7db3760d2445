------------------------------- MODULE Daemon -------------------------------
(***************************************************************************)
(* The background daemon: daemon-state.json, the processes it names, the   *)
(* commands that start, restart and stop it (codexm daemon, autoswitch,    *)
(* proxy, launch and run --proxy, the dashboard), and the refresh requests *)
(* left for it as files (src/src/daemon/{process,state,requests,trigger},  *)
(* src/src/commands/{daemon,autoswitch}.ts, src/src/proxy/process.ts).     *)
(*                                                                         *)
(* Host, port and debug do not change.  The daemon's watch and proxy loops *)
(* are left out (WatchSession, ProxyMode); a process id is never reused.   *)
(* Every caller of ensureConfig asks for stayalive, so its branch for a    *)
(* daemon without features is out of reach and left out.                   *)
(***************************************************************************)
EXTENDS Naturals, FiniteSets, Functions

CONSTANTS Clients,     \* processes that run codexm commands
          Tui,         \* those that are dashboards: they clean up stale daemons
          Pids, NoPid, \* the process ids of daemons, bounding how many are spawned
          Reqs,        \* refresh requests, bounding how many are made
          NoState,     \* there is no daemon-state.json
          Foreign,     \* a process that is not codexm and listens on the port
          Free,        \* nobody does
          Loads        \* workloads: commands that are run and how many, whether
                       \* they overlap, bound on kills, and the port's first holder

Ops == {"start", "restart", "stop", "autoOn", "autoOff", "proxyOn", "proxyStop",
        "ask", "askEnsure"}

ASSUME DaemonAssumption ==
  /\ Tui \subseteq Clients
  /\ NoState \notin [pid : Pids \cup {NoPid}, feats : SUBSET {"stay", "watch", "auto", "proxy"}]
  /\ Foreign # Free /\ {Foreign, Free, NoPid} \cap Pids = {}
  /\ Loads \subseteq [ops : SUBSET Ops, commands : Nat, overlap : BOOLEAN, kills : Nat,
                      holder : {Foreign, Free}]

VARIABLES file,      \* daemon-state.json: the pid and the features
          proc,      \* the daemons: "none", "boot", "up", "term" (SIGTERM), "dead"
          feats,     \* what each daemon was started with (its command line)
          port,      \* who listens on the proxy's port
          sweep,     \* per daemon: the refresh sweeps in flight
          timer,     \* per daemon, the refresh loop: "wait" or in a "sweep"
          drain,     \* per daemon, the request loop: "wait" or in a "sweep"
          req,       \* the request files: "none", "queued", the daemon that took
                     \* it, "served", or "lost" with the daemon that took it
          pc, mem,   \* where each client is, and its local variables
          load, used,
          asked,     \* history: the features asked for by the commands that spawned
          orphans    \* history: daemons whose client was killed before recording them

service == <<sweep, timer, drain>>
vars == <<file, proc, feats, port, service, req, pc, mem, load, used, asked, orphans>>

Features == {"stay", "watch", "auto", "proxy"}
States == [pid : Pids \cup {NoPid}, feats : SUBSET Features]
Idle == [op |-> "none", next |-> {}, was |-> NoState, pid |-> NoPid, then |-> "idle"]

Living == {p \in Pids : proc[p] \in {"boot", "up", "term"}}
Unused == {p \in Pids : proc[p] = "none"}
Quiet == \A c \in Clients : pc[c] = "idle"

\* isProcessRunning(state.pid), DaemonProcessManager.getStatus
Running == file # NoState /\ file.pid \in Living
\* status.state ?? defaultDaemonState
Recorded == IF file = NoState THEN {} ELSE file.feats

-----------------------------------------------------------------------------
(* What a command asks for *)

\* Mutant of BuildConfig: the command's own features and nothing else.
BuildConfigFresh(op, cur) ==
  CASE op = "autoOn" -> {"stay", "watch", "auto"}
    [] op = "proxyOn" -> {"stay", "proxy"}
    [] OTHER -> {"stay"}

\* The overrides of each command.
Overridden(op, cur) ==
  CASE op = "autoOn"  -> cur \cup {"watch", "auto"}
    [] op = "autoOff" -> cur \ {"watch", "auto"}
    [] op = "proxyOn" -> cur \cup {"proxy"}
    [] OTHER          -> cur

\* buildDaemonConfig, and the configs built by trigger and ProxyProcessManager:
\* what is recorded with the command's overrides; auto_switch only with watch.
BuildConfig(op, cur) ==
  LET over == Overridden(op, cur)
  IN (IF "watch" \in over THEN over ELSE over \ {"auto"}) \cup {"stay"}

\* History: what the user wants when a command has started a daemon.
Wanted(op) ==
  (asked \cup {"stay"} \cup (IF op = "autoOn" THEN {"watch", "auto"} ELSE {})
         \cup (IF op = "proxyOn" THEN {"proxy"} ELSE {}))
  \ (IF op = "autoOff" THEN {"watch", "auto"} ELSE {})

-----------------------------------------------------------------------------
(* Steps of a client *)

Goto(c, m, to) ==
  /\ mem' = [mem EXCEPT ![c] = m]
  /\ pc' = [pc EXCEPT ![c] = to]

At(c, here) == pc[c] = here
Finish(c) == Goto(c, Idle, "idle")
\* What a command does once the daemon is as it wants it.
Done(c) == IF mem[c].op \in {"ask", "askEnsure"} THEN Goto(c, mem[c], "enqueue") ELSE Finish(c)

Begin(c, op) ==
  /\ At(c, "idle")
  /\ op \in load.ops
  /\ used.commands < load.commands
  /\ load.overlap \/ Quiet
  /\ used' = [used EXCEPT !.commands = @ + 1]
  /\ Goto(c, [Idle EXCEPT !.op = op], IF op = "stop" THEN "stop" ELSE "status")
  /\ UNCHANGED <<file, proc, feats, port, service, req, load, asked, orphans>>

Asking(c, ops) == At(c, "status") /\ mem[c].op \in ops
Config(c) == [mem[c] EXCEPT !.next = BuildConfig(mem[c].op, Recorded)]

\* daemon start and restart, autoswitch enable and proxy enable read the status
\* themselves; restart stops what runs before it ensures the old configuration.
ReadStatus(c) ==
  /\ Asking(c, {"start", "restart", "autoOn", "proxyOn"})
  /\ IF mem[c].op = "restart" /\ Running
       THEN Goto(c, [Config(c) EXCEPT !.then = "ensure"], "stop")
       ELSE Goto(c, Config(c), "ensure")
  /\ UNCHANGED <<file, proc, feats, port, service, req, load, used, asked, orphans>>

\* disableAutoswitchMode does nothing only if there never was a daemon.
ReadAutoswitch(c) ==
  /\ Asking(c, {"autoOff"})
  /\ IF file = NoState THEN Finish(c) ELSE Goto(c, Config(c), "ensure")
  /\ UNCHANGED <<file, proc, feats, port, service, req, load, used, asked, orphans>>

\* ProxyProcessManager.stop stops the whole daemon if it serves the proxy.
ReadProxy(c) ==
  /\ Asking(c, {"proxyStop"})
  /\ IF Running /\ "proxy" \in file.feats THEN Goto(c, mem[c], "stop") ELSE Finish(c)
  /\ UNCHANGED <<file, proc, feats, port, service, req, load, used, asked, orphans>>

\* triggerDaemonAuthRefresh
Trigger(c) ==
  /\ Asking(c, {"ask", "askEnsure"})
  /\ CASE Running                             -> Goto(c, mem[c], "enqueue")
       [] ~Running /\ mem[c].op = "askEnsure" -> Goto(c, Config(c), "ensure")
       [] OTHER                               -> Finish(c)
  /\ UNCHANGED <<file, proc, feats, port, service, req, load, used, asked, orphans>>

\* ensureConfig: reuse, restart or start.
Ensure(c) ==
  /\ At(c, "ensure")
  /\ CASE Running /\ file.feats = mem[c].next -> Done(c)
       [] Running /\ file.feats # mem[c].next -> Goto(c, [mem[c] EXCEPT !.then = "probe"], "stop")
       [] OTHER -> Goto(c, mem[c], "probe")
  /\ UNCHANGED <<file, proc, feats, port, service, req, load, used, asked, orphans>>

\* A signal to a daemon that has not installed its handler kills it.
Terminated(p) ==
  \E s \in IF proc[p] = "boot" THEN {"term", "dead"} ELSE {"term"} :
    proc' = [proc EXCEPT ![p] = IF p \in Living THEN s ELSE @]

\* Requests that a dying daemon has taken are gone, its port is free.
Gone(p) ==
  /\ port' = IF port = p THEN Free ELSE port
  /\ req' = [r \in Reqs |-> IF req[r] = p THEN "lost" ELSE req[r]]
  /\ sweep' = [sweep EXCEPT ![p] = 0]
  /\ timer' = [timer EXCEPT ![p] = "wait"]
  /\ drain' = [drain EXCEPT ![p] = "wait"]

\* stop: its own getStatus, then SIGTERM.
StopTerm(c) ==
  /\ At(c, "stop")
  /\ IF Running
       THEN /\ Terminated(file.pid)
            /\ IF proc'[file.pid] = "dead" THEN Gone(file.pid) ELSE UNCHANGED <<port, req, service>>
            /\ Goto(c, [mem[c] EXCEPT !.was = file, !.pid = file.pid], "stopping")
       ELSE /\ IF mem[c].then = "idle" THEN Finish(c) ELSE Goto(c, mem[c], mem[c].then)
            /\ UNCHANGED <<proc, port, req, service>>
  /\ UNCHANGED <<file, feats, load, used, asked, orphans>>

\* Mutant of Stopped: it does not wait for the daemon's end.
StoppedAtOnce(c) ==
  /\ At(c, "stopping")
  /\ file' = [mem[c].was EXCEPT !.pid = NoPid]
  /\ IF mem[c].then = "idle" THEN Finish(c) ELSE Goto(c, mem[c], mem[c].then)
  /\ UNCHANGED <<proc, feats, port, service, req, load, used, asked, orphans>>

\* It sees that the daemon has ended, and records the state it has read before.
Stopped(c) ==
  /\ At(c, "stopping")
  /\ proc[mem[c].pid] = "dead"
  /\ file' = [mem[c].was EXCEPT !.pid = NoPid]
  /\ IF mem[c].then = "idle" THEN Finish(c) ELSE Goto(c, mem[c], mem[c].then)
  /\ UNCHANGED <<proc, feats, port, service, req, load, used, asked, orphans>>

\* Mutant of StopKill: it goes on waiting.
StopWaits(c) ==
  /\ At(c, "stopping")
  /\ proc[mem[c].pid] = "dead"
  /\ Finish(c)
  /\ UNCHANGED <<file, proc, feats, port, service, req, load, used, asked, orphans>>

\* After two seconds it sends SIGKILL, which fails if the daemon has just ended.
StopKill(c) ==
  /\ At(c, "stopping")
  /\ IF proc[mem[c].pid] = "dead"
       THEN Finish(c) /\ UNCHANGED <<proc, port, req, service>>
       ELSE /\ proc' = [proc EXCEPT ![mem[c].pid] = "dead"]
            /\ Gone(mem[c].pid)
            /\ UNCHANGED <<pc, mem>>
  /\ UNCHANGED <<file, feats, load, used, asked, orphans>>

\* startDetached: findStaleDaemonPortConflict; a dashboard offers to end the
\* process that has the port and to try again.
Probe(c) ==
  /\ At(c, "probe")
  /\ CASE ~("proxy" \in mem[c].next /\ port \in Pids) -> Goto(c, mem[c], "spawn")
       [] OTHER -> \/ Finish(c)
                   \/ c \in Tui /\ Goto(c, [mem[c] EXCEPT !.pid = port], "cleanup")
  /\ UNCHANGED <<file, proc, feats, port, service, req, load, used, asked, orphans>>

\* cleanupStaleDaemonPortConflict
CleanupTerm(c) ==
  /\ At(c, "cleanup")
  /\ Terminated(mem[c].pid)
  /\ IF proc'[mem[c].pid] = "dead" THEN Gone(mem[c].pid) ELSE UNCHANGED <<port, req, service>>
  /\ Goto(c, mem[c], "cleaning")
  /\ UNCHANGED <<file, feats, load, used, asked, orphans>>

CleanupKill(c) ==
  /\ At(c, "cleaning")
  /\ proc[mem[c].pid] # "dead"
  /\ proc' = [proc EXCEPT ![mem[c].pid] = "dead"]
  /\ Gone(mem[c].pid)
  /\ UNCHANGED <<file, feats, pc, mem, load, used, asked, orphans>>

CleanupRetry(c) ==
  /\ At(c, "cleaning")
  /\ proc[mem[c].pid] = "dead"
  /\ Goto(c, [Idle EXCEPT !.op = mem[c].op], "status")
  /\ UNCHANGED <<file, proc, feats, port, service, req, load, used, asked, orphans>>

Spawn(c) ==
  /\ At(c, "spawn")
  /\ Unused # {}
  /\ LET p == CHOOSE p \in Unused : TRUE
     IN /\ proc' = [proc EXCEPT ![p] = "boot"]
        /\ feats' = [feats EXCEPT ![p] = mem[c].next]
        /\ Goto(c, [mem[c] EXCEPT !.pid = p], "spawned")
  /\ UNCHANGED <<file, port, service, req, load, used, asked, orphans>>

\* Mutant of Record: only the pid of an existing state is replaced.
RecordPid(c) ==
  /\ At(c, "spawned")
  /\ asked' = Wanted(mem[c].op)
  /\ LET up == proc[mem[c].pid] # "dead"
     IN /\ file' = [pid |-> IF up THEN mem[c].pid ELSE NoPid,
                    feats |-> IF file = NoState THEN mem[c].next ELSE file.feats]
        /\ IF up THEN Done(c) ELSE Finish(c)
  /\ UNCHANGED <<proc, feats, port, service, req, load, used, orphans>>

\* After 200 ms: the daemon's pid is recorded, or that it did not come up; the
\* features are recorded in both cases.
Record(c) ==
  /\ At(c, "spawned")
  /\ asked' = Wanted(mem[c].op)
  /\ LET up == proc[mem[c].pid] # "dead"
     IN /\ file' = [pid |-> IF up THEN mem[c].pid ELSE NoPid, feats |-> mem[c].next]
        /\ IF up THEN Done(c) ELSE Finish(c)
  /\ UNCHANGED <<proc, feats, port, service, req, load, used, orphans>>

\* enqueueDaemonRequest
Enqueue(c) ==
  /\ At(c, "enqueue")
  /\ IF \E r \in Reqs : req[r] = "none"
       THEN req' = [req EXCEPT ![CHOOSE r \in Reqs : req[r] = "none"] = "queued"]
       ELSE UNCHANGED req
  /\ Finish(c)
  /\ UNCHANGED <<file, proc, feats, port, service, load, used, asked, orphans>>

\* A command is interrupted, or its dashboard left.
Killed(c) ==
  /\ ~At(c, "idle")
  /\ used.kills < load.kills
  /\ used' = [used EXCEPT !.kills = @ + 1]
  /\ orphans' = IF At(c, "spawned") THEN orphans \cup {mem[c].pid} ELSE orphans
  /\ Finish(c)
  /\ UNCHANGED <<file, proc, feats, port, service, req, load, asked>>

-----------------------------------------------------------------------------
(* The daemon *)

\* runDaemonService: a proxy that cannot bind its port ends the process.
Serve(p) ==
  /\ proc[p] = "boot"
  /\ LET binds == "proxy" \in feats[p]
     IN /\ proc' = [proc EXCEPT ![p] = IF binds /\ port # Free THEN "dead" ELSE "up"]
        /\ port' = IF binds /\ port = Free THEN p ELSE port
  /\ UNCHANGED <<file, feats, service, req, pc, mem, load, used, asked, orphans>>

\* Mutant of Joined: every caller begins a sweep.
JoinedNever(p) == sweep' = [sweep EXCEPT ![p] = @ + 1]

\* runSerializedAuthRefreshSweep: join the sweep in flight, or begin one.
Joined(p) == sweep' = [sweep EXCEPT ![p] = 1]

Tick(p) ==
  /\ proc[p] = "up" /\ timer[p] = "wait"
  /\ timer' = [timer EXCEPT ![p] = "sweep"]
  /\ Joined(p)
  /\ UNCHANGED <<file, proc, feats, port, drain, req, pc, mem, load, used, asked, orphans>>

\* Mutant of Drain: requests found while a sweep is in flight wait for nothing.
DrainNotJoining(p) ==
  /\ proc[p] = "up" /\ drain[p] = "wait"
  /\ \E r \in Reqs : req[r] = "queued"
  /\ req' = [r \in Reqs |-> IF req[r] = "queued" THEN p ELSE req[r]]
  /\ drain' = [drain EXCEPT ![p] = IF sweep[p] = 0 THEN "sweep" ELSE @]
  /\ Joined(p)
  /\ UNCHANGED <<file, proc, feats, port, timer, pc, mem, load, used, asked, orphans>>

\* runDaemonRequestLoop, drainDaemonRequests: the files are removed, then a sweep.
Drain(p) ==
  /\ proc[p] = "up" /\ drain[p] = "wait"
  /\ \E r \in Reqs : req[r] = "queued"
  /\ req' = [r \in Reqs |-> IF req[r] = "queued" THEN p ELSE req[r]]
  /\ drain' = [drain EXCEPT ![p] = "sweep"]
  /\ Joined(p)
  /\ UNCHANGED <<file, proc, feats, port, timer, pc, mem, load, used, asked, orphans>>

SweepEnds(p) ==
  /\ proc[p] = "up" /\ sweep[p] = 1
  /\ sweep' = [sweep EXCEPT ![p] = 0]
  /\ timer' = [timer EXCEPT ![p] = "wait"]
  /\ drain' = [drain EXCEPT ![p] = "wait"]
  /\ req' = [r \in Reqs |-> IF req[r] = p /\ drain[p] = "sweep" THEN "served" ELSE req[r]]
  /\ UNCHANGED <<file, proc, feats, port, pc, mem, load, used, asked, orphans>>

\* The end after SIGTERM, once the sockets and the sweep let it.
Ends(p) ==
  /\ proc[p] = "term"
  /\ proc' = [proc EXCEPT ![p] = "dead"]
  /\ Gone(p)
  /\ UNCHANGED <<file, feats, pc, mem, load, used, asked, orphans>>

\* A loop rejects, or the process is killed.
Crash(p) ==
  /\ proc[p] = "up"
  /\ used.kills < load.kills
  /\ used' = [used EXCEPT !.kills = @ + 1]
  /\ proc' = [proc EXCEPT ![p] = "dead"]
  /\ Gone(p)
  /\ UNCHANGED <<file, feats, pc, mem, load, asked, orphans>>

-----------------------------------------------------------------------------
Init ==
  /\ load \in Loads
  /\ used = [commands |-> 0, kills |-> 0]
  /\ file = NoState
  /\ proc = [p \in Pids |-> "none"]
  /\ feats = [p \in Pids |-> {}]
  /\ port = load.holder
  /\ sweep = [p \in Pids |-> 0]
  /\ timer = [p \in Pids |-> "wait"]
  /\ drain = [p \in Pids |-> "wait"]
  /\ req = [r \in Reqs |-> "none"]
  /\ pc = [c \in Clients |-> "idle"]
  /\ mem = [c \in Clients |-> Idle]
  /\ asked = {}
  /\ orphans = {}

ClientStep(c) ==
  /\ pc[c] # "idle"
  /\ \/ ReadStatus(c) \/ ReadAutoswitch(c) \/ ReadProxy(c) \/ Trigger(c) \/ Ensure(c)
     \/ StopTerm(c) \/ Stopped(c) \/ StopKill(c)
     \/ Probe(c) \/ CleanupTerm(c) \/ CleanupKill(c) \/ CleanupRetry(c)
     \/ Spawn(c) \/ Record(c) \/ Enqueue(c)

DaemonStep(p) == Serve(p) \/ Tick(p) \/ Drain(p) \/ SweepEnds(p)

Next ==
  \/ \E c \in Clients : ClientStep(c) \/ Killed(c) \/ \E op \in Ops : Begin(c, op)
  \/ \E p \in Pids : DaemonStep(p) \/ Ends(p) \/ Crash(p)

\* The steps of a command follow each other, and the daemon's loops are run by
\* its event loop.  Nothing is assumed of commands being run, of kills, nor of a
\* daemon ending on SIGTERM: the code waits two seconds for it.
Fairness ==
  /\ \A c \in Clients : WF_vars(ClientStep(c))
  /\ \A p \in Pids : WF_vars(Drain(p)) /\ WF_vars(Serve(p) \/ SweepEnds(p))

Spec == Init /\ [][Next]_vars /\ Fairness

-----------------------------------------------------------------------------
(* Properties *)

TypeOK ==
  /\ file \in States \cup {NoState}
  /\ proc \in [Pids -> {"none", "boot", "up", "term", "dead"}]
  /\ feats \in [Pids -> SUBSET Features]
  /\ port \in Pids \cup {Foreign, Free}
  /\ sweep \in [Pids -> {0, 1}]
  /\ timer \in [Pids -> {"wait", "sweep"}]
  /\ drain \in [Pids -> {"wait", "sweep"}]
  /\ req \in [Reqs -> Pids \cup {"none", "queued", "served", "lost"}]
  /\ pc \in [Clients -> {"idle", "status", "ensure", "stop", "stopping", "probe", "cleanup",
                         "cleaning", "spawn", "spawned", "enqueue"}]
  /\ \A c \in Clients : mem[c].op \in Ops \cup {"none"} /\ mem[c].pid \in Pids \cup {NoPid}
  /\ asked \subseteq Features /\ orphans \subseteq Pids

\* Commands that do not overlap never leave two daemons behind, whatever is
\* killed and however slowly a daemon ends, but for one whose command was killed
\* before it could record it.
OneDaemon == load.overlap \/ Cardinality(Living \ orphans) <= 1

\* The daemon that is recorded was started with the features that are recorded,
\* overlapping commands or not: a reuse never takes one daemon for another.
RecordedAsStarted == Running => feats[file.pid] = file.feats

\* Commands that do not overlap keep what earlier ones asked for: a restart for
\* one feature, a stop, a kill, a start that failed in between lose no other.
FeaturesKept == ~load.overlap /\ Quiet /\ file # NoState => file.feats = asked

\* A port conflict is found only with a daemon that no file names: a restart
\* never meets the daemon it has just stopped.
ConflictIsStale ==
  \A c \in Clients : ~load.overlap /\ pc[c] = "probe" /\ port \in Pids => port \in orphans

\* A request is taken and a sweep ends after it was taken, unless no daemon is
\* up, or the one that took it ends before the sweep does.
Unattended(r) == \/ \A p \in Pids : proc[p] # "up"
                 \/ \E p \in Pids : req[r] = p /\ proc[p] # "up"
RequestServed == \A r \in Reqs : req[r] = "queued" ~> req[r] \in {"served", "lost"} \/ Unattended(r)

\* Every command ends, also when a daemon does not end on SIGTERM.
CommandEnds == \A c \in Clients : []<>(pc[c] = "idle")

\* One daemon, and the files say which one and what it was asked for (ensureConfig,
\* stop, getStatus).
DaemonInv == TypeOK /\ OneDaemon /\ RecordedAsStarted /\ FeaturesKept /\ ConflictIsStale

\* Commands end, and what they ask of the daemon is done.
CommandsServed == RequestServed /\ CommandEnds
=============================================================================
