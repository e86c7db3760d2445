---------------------------- MODULE DaemonProofs ----------------------------
(***************************************************************************)
(* One daemon, recorded with the features it was started with, for any     *)
(* number of commands, daemons, requests and kills; and one dashboard at a *)
(* time that watches next to it.                                           *)
(***************************************************************************)
EXTENDS WatchLease, TLAPS, FiniteSetTheorems

\* The types, by what changes together.
Labels == {"idle", "status", "ensure", "stop", "stopping", "probe", "cleanup", "cleaning",
           "spawn", "spawned", "enqueue"}
Mems == [op : Ops \cup {"none"}, next : SUBSET Features, was : States \cup {NoState},
         pid : Pids \cup {NoPid}, then : {"idle", "probe", "ensure"}]
Workloads == [ops : SUBSET Ops, commands : Nat, overlap : BOOLEAN, kills : Nat,
              holder : {Foreign, Free}]

ServiceOK ==
  /\ proc \in [Pids -> {"none", "boot", "up", "term", "dead"}]
  /\ port \in Pids \cup {Foreign, Free}
  /\ sweep \in [Pids -> {0, 1}]
  /\ timer \in [Pids -> {"wait", "sweep"}] /\ drain \in [Pids -> {"wait", "sweep"}]
  /\ req \in [Reqs -> Pids \cup {"none", "queued", "served", "lost"}]
FilesOK ==
  /\ file \in States \cup {NoState} /\ feats \in [Pids -> SUBSET Features]
  /\ asked \subseteq Features /\ orphans \subseteq Pids
  /\ load \in Workloads /\ used \in [commands : Nat, kills : Nat]
ClientsOK == pc \in [Clients -> Labels] /\ mem \in [Clients -> Mems]

\* A daemon that is named somewhere was spawned, with the features named with it;
\* one that listens runs.
NamedInv ==
  /\ file # NoState /\ file.pid \in Pids => proc[file.pid] # "none" /\ feats[file.pid] = file.feats
  /\ \A p \in orphans : proc[p] # "none"
  /\ port \in Pids => proc[port] \in {"up", "term"}

\* What a client with the variables m knows when it is at a label.  When commands do
\* not overlap, what it has read of the state is still so, a client that is going to
\* start a daemon has seen the recorded one end, and what it is going to record is
\* what was asked for so far, changed by its command.
Deciding(m, at) == \/ at \in {"ensure", "probe", "spawn", "spawned"}
                   \/ at \in {"stop", "stopping"} /\ m.then # "idle"
Fits(m, at) ==
  /\ at \in {"stopping", "cleanup", "cleaning", "spawned"} => m.pid \in Pids
  /\ at = "stopping" => m.was \in States
  /\ at = "status" => m.then = "idle"
  /\ at = "spawned" => proc[m.pid] # "none" /\ feats[m.pid] = m.next
  /\ ~load.overlap =>
       /\ at = "stopping" => m.was = file /\ m.pid = file.pid
       /\ at \in {"probe", "spawn", "spawned", "cleanup", "cleaning"} => ~Running
       /\ Deciding(m, at) => m.next = Wanted(m.op)
ClientInv == \A c \in Clients : Fits(mem[c], pc[c])

\* Commands that do not overlap: one at a time; every daemon that runs is recorded,
\* about to be, or its command was killed; what is recorded is what was asked for.
Alone == \A c, d \in Clients : pc[c] # "idle" /\ pc[d] # "idle" => c = d
Known == \A p \in Living \ orphans :
  \/ file # NoState /\ file.pid = p
  \/ \E c \in Clients : pc[c] = "spawned" /\ mem[c].pid = p
AskedInv == Recorded = asked /\ ("auto" \in asked => "watch" \in asked)

IInv ==
  /\ ServiceOK /\ FilesOK /\ ClientsOK /\ NamedInv /\ ClientInv
  /\ ~load.overlap => Alone /\ Known /\ AskedInv

-----------------------------------------------------------------------------

\* The initial state satisfies the inductive invariant.
LEMMA InitIInv == Init => IInv
<1> SUFFICES ASSUME Init PROVE IInv
  OBVIOUS
<1> USE DaemonAssumption DEF Init
<1>1. load \in Workloads
  BY DEF Workloads
<1>2. ServiceOK
  BY <1>1 DEF ServiceOK, Workloads
<1>3. FilesOK
  BY <1>1 DEF FilesOK
<1>4. Idle \in Mems
  BY DEF Idle, Mems
<1>5. ClientsOK
  BY <1>4 DEF ClientsOK, Labels
<1>6. NamedInv
  BY <1>1 DEF NamedInv, Workloads
<1>7. \A c \in Clients : pc[c] = "idle"
  OBVIOUS
<1>8. ClientInv /\ Alone
  BY <1>7 DEF ClientInv, Alone, Fits, Deciding
<1>9. Known /\ AskedInv
  BY DEF Known, AskedInv, Living, Recorded
<1> QED
  BY <1>2, <1>3, <1>5, <1>6, <1>8, <1>9 DEF IInv

\* A client goes from one label to another.
LEMMA Moved ==
  ASSUME ClientsOK, NEW c \in Clients, NEW m \in Mems, NEW to \in Labels, Goto(c, m, to)
  PROVE  /\ ClientsOK'
         /\ mem'[c] = m /\ pc'[c] = to
         /\ \A d \in Clients \ {c} : mem'[d] = mem[d] /\ pc'[d] = pc[d]
BY DEF ClientsOK, Goto

\* What other clients know stays so while the files do and daemons only end.
Lasting == UNCHANGED <<file, feats, load, asked, orphans>>
Ending ==
  /\ \A p \in Pids : proc[p] # "none" => proc'[p] # "none"
  /\ Living' \subseteq Living
  /\ port' \in Pids => proc'[port'] \in {"up", "term"}

LEMMA FitsLasts ==
  ASSUME FilesOK, Lasting, Ending, NEW m \in Mems, NEW at \in Labels, Fits(m, at)
  PROVE  Fits(m, at)'
<1>1. Running' => Running
  BY DEF Running, Lasting, Ending
<1>2. \A op : Wanted(op)' = Wanted(op)
  BY DEF Wanted, Lasting
<1> QED
  BY <1>1, <1>2 DEF Fits, Deciding, Lasting, Ending

\* Daemons end and nothing else happens, or a client moves on as well.
LEMMA EndingStep ==
  ASSUME IInv, Lasting, Ending, ServiceOK', FilesOK', UNCHANGED <<pc, mem>>
  PROVE  IInv'
<1>1. NamedInv'
  BY DEF IInv, NamedInv, FilesOK, Lasting, Ending, States
<1>2. ClientInv'
  <2> SUFFICES ASSUME NEW c \in Clients PROVE Fits(mem[c], pc[c])'
    BY DEF ClientInv
  <2>1. mem[c] \in Mems /\ pc[c] \in Labels /\ Fits(mem[c], pc[c])
    BY DEF IInv, ClientsOK, ClientInv
  <2> QED
    BY <2>1, FitsLasts DEF IInv
<1>3. ClientsOK'
  BY DEF IInv, ClientsOK
<1>4. ASSUME ~load.overlap PROVE Alone' /\ Known' /\ AskedInv'
  BY <1>4 DEF IInv, Alone, Known, AskedInv, Recorded, Lasting, Ending
<1> QED
  BY <1>1, <1>2, <1>3, <1>4 DEF IInv, Lasting

LEMMA MoveStep ==
  ASSUME IInv, Lasting, Ending, ServiceOK', FilesOK',
         NEW c \in Clients, NEW m \in Mems, NEW to \in Labels, Goto(c, m, to), Fits(m, to)',
         pc[c] # "spawned", ~load.overlap => pc[c] # "idle" \/ Quiet
  PROVE  IInv'
<1>1. NamedInv'
  BY DEF IInv, NamedInv, FilesOK, Lasting, Ending, States
<1>2. /\ ClientsOK'
      /\ mem'[c] = m /\ pc'[c] = to
      /\ \A d \in Clients \ {c} : mem'[d] = mem[d] /\ pc'[d] = pc[d]
  BY Moved DEF IInv
<1>3. ClientInv'
  <2> SUFFICES ASSUME NEW d \in Clients PROVE Fits(mem[d], pc[d])'
    BY DEF ClientInv
  <2>1. CASE d = c
    BY <1>2, <2>1
  <2>2. CASE d # c
    <3>1. mem[d] \in Mems /\ pc[d] \in Labels /\ Fits(mem[d], pc[d])
      BY DEF IInv, ClientsOK, ClientInv
    <3> QED
      BY <1>2, <2>2, <3>1, FitsLasts DEF IInv
  <2> QED
    BY <2>1, <2>2
<1>4. ASSUME ~load.overlap PROVE Alone' /\ Known' /\ AskedInv'
  <2>1. Alone'
    BY <1>2, <1>4 DEF IInv, Alone, Quiet
  <2>2. Known'
    BY <1>2, <1>4 DEF IInv, Known, Lasting, Ending
  <2>3. AskedInv'
    BY <1>4 DEF IInv, AskedInv, Recorded, Lasting
  <2> QED
    BY <2>1, <2>2, <2>3
<1> QED
  BY <1>1, <1>2, <1>3, <1>4 DEF IInv, Lasting

\* A client moves on and changes nothing else.
LEMMA ReadStep ==
  ASSUME IInv, UNCHANGED <<file, proc, feats, port, service, req, load, asked, orphans>>,
         used' \in [commands : Nat, kills : Nat],
         NEW c \in Clients, NEW m \in Mems, NEW to \in Labels, Goto(c, m, to), Fits(m, to),
         pc[c] # "spawned", ~load.overlap => pc[c] # "idle" \/ Quiet
  PROVE  IInv'
<1>1. Lasting /\ Ending /\ ServiceOK' /\ FilesOK'
  BY DEF IInv, NamedInv, Lasting, Ending, Living, ServiceOK, FilesOK, service
<1>2. Fits(m, to)'
  BY <1>1, FitsLasts DEF IInv
<1> QED
  BY <1>1, <1>2, MoveStep

\* The configuration of a command is what the user wants: what was asked for so far
\* with the overrides of the command.
LEMMA ConfigWanted ==
  ASSUME NEW op \in Ops, AskedInv
  PROVE  BuildConfig(op, Recorded) = Wanted(op)
BY DEF AskedInv, BuildConfig, Overridden, Wanted

LEMMA ConfigType ==
  ASSUME FilesOK, NEW op \in Ops
  PROVE  BuildConfig(op, Recorded) \in SUBSET Features
BY DEF FilesOK, Recorded, States, Features, BuildConfig, Overridden

\* A client that has nothing more to do, or that goes on with what it has.
LEMMA FitsIdle == Idle \in Mems /\ Fits(Idle, "idle")
BY DaemonAssumption DEF Idle, Mems, Fits, Deciding

\* The steps of a client that read, decide and go on.
LEMMA DecideStep ==
  ASSUME IInv, NEW c \in Clients, pc[c] # "idle",
         \/ ReadStatus(c) \/ ReadAutoswitch(c) \/ ReadProxy(c) \/ Trigger(c) \/ Ensure(c)
         \/ Probe(c) \/ CleanupRetry(c)
  PROVE  IInv'
<1> DEFINE Still == UNCHANGED <<file, proc, feats, port, service, req, load, used, asked, orphans>>
<1>1. mem[c] \in Mems /\ pc[c] \in Labels /\ Fits(mem[c], pc[c])
  BY DEF IInv, ClientsOK, ClientInv
<1>2. FilesOK /\ used \in [commands : Nat, kills : Nat]
  BY DEF IInv, FilesOK
<1>3. ASSUME NEW m \in Mems, NEW to \in Labels, Goto(c, m, to), Fits(m, to), pc[c] # "spawned", Still
      PROVE  IInv'
  BY <1>2, <1>3, ReadStep
<1>4. ASSUME Finish(c), pc[c] # "spawned", Still PROVE IInv'
  BY <1>3, <1>4, FitsIdle DEF Finish, Labels
<1>5. ASSUME mem[c].op # "none", pc[c] = "status"
      PROVE  /\ Config(c) \in Mems /\ Config(c).then = mem[c].then
             /\ ~load.overlap => Config(c).next = Wanted(Config(c).op)
  <2>1. mem[c].op \in Ops
    BY <1>1, <1>5 DEF Mems
  <2>2. BuildConfig(mem[c].op, Recorded) \in SUBSET Features
    BY <1>2, <2>1, ConfigType
  <2>3. ~load.overlap => BuildConfig(mem[c].op, Recorded) = Wanted(mem[c].op)
    BY <2>1, ConfigWanted DEF IInv
  <2> QED
    BY <1>1, <2>2, <2>3 DEF Config, Mems
<1>6. CASE ReadStatus(c)
  <2>1. mem[c].op # "none" /\ pc[c] = "status" /\ Still
    BY <1>6 DEF ReadStatus, Asking, At
  <2>2. CASE mem[c].op = "restart" /\ Running
    <3> DEFINE m == [Config(c) EXCEPT !.then = "ensure"]
    <3>1. m \in Mems /\ m.next = Config(c).next /\ m.op = Config(c).op
      BY <1>5, <2>1 DEF Mems
    <3>2. Goto(c, m, "stop")
      BY <1>6, <2>2 DEF ReadStatus
    <3> HIDE DEF m
    <3>3. Fits(m, "stop")
      BY <1>5, <2>1, <3>1 DEF Fits, Deciding
    <3> QED
      BY <1>3, <2>1, <3>1, <3>2, <3>3 DEF Labels
  <2>3. CASE ~(mem[c].op = "restart" /\ Running)
    <3>1. Goto(c, Config(c), "ensure")
      BY <1>6, <2>3 DEF ReadStatus
    <3>2. Fits(Config(c), "ensure")
      BY <1>5, <2>1 DEF Fits, Deciding
    <3> QED
      BY <1>3, <1>5, <2>1, <3>1, <3>2 DEF Labels
  <2> QED
    BY <2>2, <2>3
<1>7. CASE ReadAutoswitch(c)
  <2>1. mem[c].op # "none" /\ pc[c] = "status" /\ Still
    BY <1>7 DEF ReadAutoswitch, Asking, At
  <2>2. Fits(Config(c), "ensure")
    BY <1>5, <2>1 DEF Fits, Deciding
  <2>3. Finish(c) \/ Goto(c, Config(c), "ensure")
    BY <1>7 DEF ReadAutoswitch
  <2> QED
    BY <1>3, <1>4, <1>5, <2>1, <2>2, <2>3 DEF Labels
<1>8. CASE ReadProxy(c)
  <2>1. mem[c].op = "proxyStop" /\ pc[c] = "status" /\ Still
    BY <1>8 DEF ReadProxy, Asking, At
  <2>2. Finish(c) \/ Goto(c, mem[c], "stop")
    BY <1>8 DEF ReadProxy
  <2>3. Fits(mem[c], "stop")
    BY <1>1, <2>1 DEF Fits, Deciding
  <2> QED
    BY <1>1, <1>3, <1>4, <2>1, <2>2, <2>3 DEF Labels
<1>9. CASE Trigger(c)
  <2>1. mem[c].op # "none" /\ pc[c] = "status" /\ Still
    BY <1>9 DEF Trigger, Asking, At
  <2>2. Fits(Config(c), "ensure") /\ Fits(mem[c], "enqueue")
    BY <1>5, <2>1 DEF Fits, Deciding
  <2>3. Finish(c) \/ Goto(c, Config(c), "ensure") \/ Goto(c, mem[c], "enqueue")
    BY <1>9 DEF Trigger
  <2> QED
    BY <1>1, <1>3, <1>4, <1>5, <2>1, <2>2, <2>3 DEF Labels
<1>10. CASE Ensure(c)
  <2>1. pc[c] = "ensure" /\ Still
    BY <1>10 DEF Ensure, At
  <2>2. CASE Running /\ file.feats = mem[c].next
    <3>1. Finish(c) \/ Goto(c, mem[c], "enqueue")
      BY <1>10, <2>2 DEF Ensure, Done
    <3>2. Fits(mem[c], "enqueue")
      BY DEF Fits, Deciding
    <3> QED
      BY <1>1, <1>3, <1>4, <2>1, <3>1, <3>2 DEF Labels
  <2>3. CASE Running /\ file.feats # mem[c].next
    <3> DEFINE m == [mem[c] EXCEPT !.then = "probe"]
    <3>1. m \in Mems /\ m.next = mem[c].next /\ m.op = mem[c].op
      BY <1>1 DEF Mems
    <3>2. Goto(c, m, "stop")
      BY <1>10, <2>3 DEF Ensure
    <3> HIDE DEF m
    <3>3. Fits(m, "stop")
      BY <1>1, <2>1, <3>1 DEF Fits, Deciding
    <3> QED
      BY <1>3, <2>1, <3>1, <3>2, <3>3 DEF Labels
  <2>4. CASE ~Running
    <3>1. Goto(c, mem[c], "probe")
      BY <1>10, <2>4 DEF Ensure
    <3>2. Fits(mem[c], "probe")
      BY <1>1, <2>1, <2>4 DEF Fits, Deciding
    <3> QED
      BY <1>1, <1>3, <2>1, <3>1, <3>2 DEF Labels
  <2> QED
    BY <2>2, <2>3, <2>4
<1>11. CASE Probe(c)
  <2>1. pc[c] = "probe" /\ Still
    BY <1>11 DEF Probe, At
  <2>2. CASE ~("proxy" \in mem[c].next /\ port \in Pids)
    <3>1. Goto(c, mem[c], "spawn")
      BY <1>11, <2>2 DEF Probe
    <3>2. Fits(mem[c], "spawn")
      BY <1>1, <2>1 DEF Fits, Deciding
    <3> QED
      BY <1>1, <1>3, <2>1, <3>1, <3>2 DEF Labels
  <2>3. CASE "proxy" \in mem[c].next /\ port \in Pids
    <3> DEFINE m == [mem[c] EXCEPT !.pid = port]
    <3>1. m \in Mems /\ m.pid \in Pids
      BY <1>1, <2>3 DEF Mems
    <3>2. Finish(c) \/ Goto(c, m, "cleanup")
      BY <1>11, <2>3 DEF Probe
    <3> HIDE DEF m
    <3>3. Fits(m, "cleanup")
      BY <1>1, <2>1, <3>1 DEF Fits, Deciding
    <3> QED
      BY <1>3, <1>4, <2>1, <3>1, <3>2, <3>3 DEF Labels
  <2> QED
    BY <2>2, <2>3
<1>12. CASE CleanupRetry(c)
  <2> DEFINE m == [Idle EXCEPT !.op = mem[c].op]
  <2>1. pc[c] = "cleaning" /\ Still /\ Goto(c, m, "status")
    BY <1>12 DEF CleanupRetry, At
  <2>2. m \in Mems /\ m.then = "idle"
    BY <1>1, FitsIdle DEF Mems, Idle
  <2> HIDE DEF m
  <2>3. Fits(m, "status")
    BY <2>2 DEF Fits, Deciding
  <2> QED
    BY <1>3, <2>1, <2>2, <2>3 DEF Labels
<1> QED
  BY <1>6, <1>7, <1>8, <1>9, <1>10, <1>11, <1>12

\* A daemon that dies, or is told to.
LEMMA GoneStep ==
  ASSUME ServiceOK, NamedInv, NEW p \in Pids, proc' = [proc EXCEPT ![p] = "dead"], Gone(p)
  PROVE  ServiceOK' /\ Ending
<1>1. proc' \in [Pids -> {"none", "boot", "up", "term", "dead"}]
  BY DEF ServiceOK
<1>2. port' \in Pids \cup {Foreign, Free} /\ (port' \in Pids => port' = port /\ port # p)
  BY DaemonAssumption DEF ServiceOK, Gone
<1>3. ServiceOK'
  BY <1>1, <1>2 DEF ServiceOK, Gone
<1>4. Ending
  BY <1>2 DEF ServiceOK, NamedInv, Ending, Living
<1> QED
  BY <1>3, <1>4

LEMMA TerminatedStep ==
  ASSUME ServiceOK, NamedInv, NEW p \in Pids, Terminated(p),
         IF proc'[p] = "dead" THEN Gone(p) ELSE UNCHANGED <<port, req, service>>
  PROVE  ServiceOK' /\ Ending
<1>1. PICK s \in {"term", "dead"} : proc' = [proc EXCEPT ![p] = IF p \in Living THEN s ELSE @]
  BY DEF Terminated
<1>2. CASE proc'[p] = "dead"
  <2>1. proc' = [proc EXCEPT ![p] = "dead"]
    BY <1>1, <1>2 DEF ServiceOK
  <2> QED
    BY <1>2, <2>1, GoneStep
<1>3. CASE proc'[p] # "dead"
  <2>1. ServiceOK'
    BY <1>1, <1>3 DEF ServiceOK, service
  <2>2. Ending
    BY <1>1, <1>3 DEF ServiceOK, NamedInv, Ending, Living
  <2> QED
    BY <2>1, <2>2
<1> QED
  BY <1>2, <1>3

\* The steps of a client that end daemons.
LEMMA StopStep ==
  ASSUME IInv, NEW c \in Clients, pc[c] # "idle",
         StopTerm(c) \/ StopKill(c) \/ CleanupTerm(c) \/ CleanupKill(c)
  PROVE  IInv'
<1>1. mem[c] \in Mems /\ pc[c] \in Labels /\ Fits(mem[c], pc[c])
  BY DEF IInv, ClientsOK, ClientInv
<1>2. FilesOK /\ ServiceOK /\ NamedInv
  BY DEF IInv
<1>3. Lasting /\ FilesOK'
  BY <1>2 DEF StopTerm, StopKill, CleanupTerm, CleanupKill, Lasting, FilesOK
<1>4. Idle \in Mems /\ Fits(Idle, "idle")
  BY FitsIdle
<1>5. CASE StopTerm(c)
  <2>1. pc[c] = "stop"
    BY <1>5 DEF StopTerm, At
  <2>2. CASE Running
    <3>1. file \in States /\ file.pid \in Pids
      BY <1>2, <2>2 DEF Running, Living, FilesOK
    <3>a. [mem[c] EXCEPT !.was = file, !.pid = file.pid] \in Mems
      BY <1>1, <3>1 DEF Mems, States
    <3>b. PICK m \in Mems : m = [mem[c] EXCEPT !.was = file, !.pid = file.pid]
      BY <3>a
    <3>2. /\ m.was = file /\ m.pid = file.pid
          /\ m.then = mem[c].then /\ m.next = mem[c].next /\ m.op = mem[c].op
      BY <1>1, <3>1, <3>b DEF Mems, States
    <3>3. Goto(c, m, "stopping")
      BY <1>5, <2>2, <3>b DEF StopTerm
    <3>4. Terminated(file.pid) /\ IF proc'[file.pid] = "dead" THEN Gone(file.pid)
                                  ELSE UNCHANGED <<port, req, service>>
      BY <1>5, <2>2 DEF StopTerm
    <3>5. ServiceOK' /\ Ending
      BY <1>2, <3>1, <3>4, TerminatedStep
    <3>6. Fits(m, "stopping")
      BY <1>1, <2>1, <3>1, <3>2 DEF Fits, Deciding
    <3>7. Fits(m, "stopping")'
      BY <1>2, <1>3, <3>2, <3>5, <3>6, FitsLasts DEF Labels
    <3> QED
      BY <1>3, <2>1, <3>2, <3>3, <3>5, <3>7, MoveStep DEF Labels
  <2>3. CASE ~Running
    <3> DEFINE Still == UNCHANGED <<file, proc, feats, port, service, req, load, used, asked, orphans>>
    <3>1. Still /\ used' \in [commands : Nat, kills : Nat]
      BY <1>2, <1>5, <2>3 DEF StopTerm, service, FilesOK
    <3>2. CASE mem[c].then = "idle"
      <4>1. Goto(c, Idle, "idle")
        BY <1>5, <2>3, <3>2 DEF StopTerm, Finish
      <4> QED
        BY <1>4, <2>1, <3>1, <4>1, ReadStep DEF Labels
    <3>3. CASE mem[c].then # "idle"
      <4>1. Goto(c, mem[c], mem[c].then) /\ mem[c].then \in {"probe", "ensure"}
        BY <1>1, <1>5, <2>3, <3>3 DEF StopTerm, Mems
      <4>2. Fits(mem[c], mem[c].then)
        BY <1>1, <2>1, <2>3, <4>1 DEF Fits, Deciding
      <4> QED
        BY <1>1, <2>1, <3>1, <4>1, <4>2, ReadStep DEF Labels
    <3> QED
      BY <3>2, <3>3
  <2> QED
    BY <2>2, <2>3
<1>6. CASE StopKill(c)
  <2>1. pc[c] = "stopping" /\ mem[c].pid \in Pids
    BY <1>1, <1>6 DEF StopKill, At, Fits
  <2>2. CASE proc[mem[c].pid] = "dead"
    <3>1. UNCHANGED <<file, proc, feats, port, service, req, load, used, asked, orphans>>
      BY <1>6, <2>2 DEF StopKill, service
    <3>2. Goto(c, Idle, "idle") /\ used' \in [commands : Nat, kills : Nat]
      BY <1>2, <1>6, <2>2 DEF StopKill, Finish, FilesOK
    <3> QED
      BY <1>4, <2>1, <3>1, <3>2, ReadStep DEF Labels
  <2>3. CASE proc[mem[c].pid] # "dead"
    <3>1. proc' = [proc EXCEPT ![mem[c].pid] = "dead"] /\ Gone(mem[c].pid) /\ UNCHANGED <<pc, mem>>
      BY <1>6, <2>3 DEF StopKill
    <3> QED
      BY <1>2, <1>3, <2>1, <3>1, GoneStep, EndingStep
  <2> QED
    BY <2>2, <2>3
<1>7. CASE CleanupTerm(c)
  <2>1. pc[c] = "cleanup" /\ mem[c].pid \in Pids
    BY <1>1, <1>7 DEF CleanupTerm, At, Fits
  <2>2. ServiceOK' /\ Ending
    BY <1>2, <1>7, <2>1, TerminatedStep DEF CleanupTerm
  <2>3. PICK m \in Mems : m = mem[c]
    BY <1>1
  <2>4. Fits(m, "cleaning")
    BY <1>1, <2>1, <2>3 DEF Fits, Deciding
  <2>5. Fits(m, "cleaning")'
    BY <1>2, <1>3, <2>2, <2>4, FitsLasts DEF Labels
  <2>6. Goto(c, m, "cleaning")
    BY <1>7, <2>3 DEF CleanupTerm
  <2> QED
    BY <1>3, <2>1, <2>2, <2>5, <2>6, MoveStep DEF Labels
<1>8. CASE CleanupKill(c)
  <2>1. pc[c] = "cleaning" /\ mem[c].pid \in Pids
    BY <1>1, <1>8 DEF CleanupKill, At, Fits
  <2>2. proc' = [proc EXCEPT ![mem[c].pid] = "dead"] /\ Gone(mem[c].pid) /\ UNCHANGED <<pc, mem>>
    BY <1>8 DEF CleanupKill
  <2> QED
    BY <1>2, <1>3, <2>1, <2>2, GoneStep, EndingStep
<1> QED
  BY <1>5, <1>6, <1>7, <1>8

\* The steps of a daemon.
LEMMA DaemonIInv ==
  ASSUME IInv, NEW p \in Pids, DaemonStep(p) \/ Ends(p) \/ Crash(p)
  PROVE  IInv'
<1>1. FilesOK /\ ServiceOK /\ NamedInv
  BY DEF IInv
<1>2. Lasting /\ UNCHANGED <<pc, mem>>
  BY DEF DaemonStep, Serve, Tick, Drain, SweepEnds, Ends, Crash, Lasting
<1>3. FilesOK'
  BY <1>1 DEF DaemonStep, Serve, Tick, Drain, SweepEnds, Ends, Crash, FilesOK
<1>4. CASE Serve(p)
  <2>1. ServiceOK'
    BY <1>1, <1>4 DEF Serve, ServiceOK, service
  <2>2. Ending
    BY <1>1, <1>4, DaemonAssumption DEF Serve, ServiceOK, NamedInv, Ending, Living
  <2> QED
    BY <1>2, <1>3, <2>1, <2>2, EndingStep
<1>5. CASE Tick(p) \/ Drain(p) \/ SweepEnds(p)
  <2>1. ServiceOK'
    <3>1. CASE Tick(p)
      BY <1>1, <3>1 DEF Tick, Joined, ServiceOK
    <3>2. CASE Drain(p)
      BY <1>1, <3>2 DEF Drain, Joined, ServiceOK
    <3>3. CASE SweepEnds(p)
      BY <1>1, <3>3 DEF SweepEnds, ServiceOK
    <3> QED
      BY <1>5, <3>1, <3>2, <3>3
  <2>2. Ending
    BY <1>1, <1>5 DEF Tick, Drain, SweepEnds, NamedInv, Ending, Living
  <2> QED
    BY <1>2, <1>3, <2>1, <2>2, EndingStep
<1>6. CASE Ends(p) \/ Crash(p)
  <2>1. proc' = [proc EXCEPT ![p] = "dead"] /\ Gone(p)
    BY <1>6 DEF Ends, Crash
  <2> QED
    BY <1>1, <1>2, <1>3, <2>1, GoneStep, EndingStep
<1> QED
  BY <1>4, <1>5, <1>6 DEF DaemonStep

\* A command begins, a request is left, a command is killed.
LEMMA BeginStep == ASSUME IInv, NEW c \in Clients, NEW op \in Ops, Begin(c, op) PROVE IInv'
<1> DEFINE m == [Idle EXCEPT !.op = op]
           to == IF op = "stop" THEN "stop" ELSE "status"
<1>1. m \in Mems /\ m.then = "idle"
  BY FitsIdle DEF Idle, Mems
<1>2. Goto(c, m, to) /\ pc[c] = "idle" /\ (load.overlap \/ Quiet)
  BY DEF Begin, At
<1>3. /\ UNCHANGED <<file, proc, feats, port, service, req, load, asked, orphans>>
      /\ used' \in [commands : Nat, kills : Nat]
  BY DEF IInv, FilesOK, Begin
<1>4. Fits(m, to)
  BY <1>1 DEF Fits, Deciding
<1>5. to \in Labels
  BY DEF Labels
<1> HIDE DEF m, to
<1> QED
  BY <1>1, <1>2, <1>3, <1>4, <1>5, ReadStep

LEMMA EnqueueStep == ASSUME IInv, NEW c \in Clients, Enqueue(c) PROVE IInv'
<1>1. ServiceOK'
  BY DEF IInv, ServiceOK, Enqueue, service
<1>2. Lasting /\ Ending /\ FilesOK'
  BY DEF IInv, FilesOK, NamedInv, Enqueue, Lasting, Ending, Living
<1>3. PICK m \in Mems : m = Idle
  BY FitsIdle
<1>4. Goto(c, m, "idle") /\ pc[c] = "enqueue"
  BY <1>3 DEF Enqueue, Finish, At
<1>5. Fits(m, "idle")'
  BY DEF Fits, Deciding
<1> QED
  BY <1>1, <1>2, <1>4, <1>5, MoveStep DEF Labels

\* What a client knows when the files and the daemons stay as they are.
LEMMA FitsSame ==
  ASSUME UNCHANGED <<file, proc, feats, load, asked>>, NEW m \in Mems, NEW at \in Labels, Fits(m, at)
  PROVE  Fits(m, at)'
BY DEF Fits, Deciding, Running, Living, Wanted

LEMMA KilledStep == ASSUME IInv, NEW c \in Clients, Killed(c) PROVE IInv'
<1>1. Goto(c, Idle, "idle") /\ pc[c] # "idle" /\ UNCHANGED <<file, proc, feats, port, service, req, load, asked>>
  BY DEF Killed, Finish, At
<1>2. used' \in [commands : Nat, kills : Nat]
  BY DEF Killed, IInv, FilesOK
<1>3. CASE pc[c] # "spawned"
  <2>1. UNCHANGED orphans
    BY <1>3 DEF Killed, At
  <2> QED
    BY <1>1, <1>2, <1>3, <2>1, FitsIdle, ReadStep DEF Labels
<1>4. CASE pc[c] = "spawned"
  <2>1. orphans' = orphans \cup {mem[c].pid}
    BY <1>4 DEF Killed, At
  <2>2. mem[c].pid \in Pids /\ proc[mem[c].pid] # "none"
    BY <1>4 DEF IInv, ClientInv, Fits
  <2>3. /\ ClientsOK'
        /\ mem'[c] = Idle /\ pc'[c] = "idle"
        /\ \A d \in Clients \ {c} : mem'[d] = mem[d] /\ pc'[d] = pc[d]
    BY <1>1, Moved, FitsIdle DEF IInv, Labels
  <2>4. ServiceOK' /\ FilesOK' /\ NamedInv'
    BY <1>1, <1>2, <2>1, <2>2 DEF IInv, ServiceOK, FilesOK, NamedInv, service
  <2>5. ClientInv'
    <3> SUFFICES ASSUME NEW d \in Clients PROVE Fits(mem[d], pc[d])'
      BY DEF ClientInv
    <3>1. CASE d = c
      BY <2>3, <3>1 DEF Fits, Deciding
    <3>2. CASE d # c
      <4>1. mem[d] \in Mems /\ pc[d] \in Labels /\ Fits(mem[d], pc[d])
        BY DEF IInv, ClientsOK, ClientInv
      <4> QED
        BY <1>1, <2>3, <3>2, <4>1, FitsSame
    <3> QED
      BY <3>1, <3>2
  <2>6. ASSUME ~load.overlap PROVE Alone' /\ Known' /\ AskedInv'
    BY <1>1, <2>1, <2>3, <2>6 DEF IInv, Alone, Known, AskedInv, Living, Recorded
  <2> QED
    BY <1>1, <2>3, <2>4, <2>5, <2>6 DEF IInv
<1> QED
  BY <1>3, <1>4

\* The step in which a stop is recorded.
LEMMA StoppedStep == ASSUME IInv, NEW c \in Clients, Stopped(c) PROVE IInv'
<1>1. pc[c] = "stopping" /\ proc[mem[c].pid] = "dead" /\ file' = [mem[c].was EXCEPT !.pid = NoPid]
      /\ UNCHANGED <<proc, feats, port, service, req, load, used, asked, orphans>>
  BY DEF Stopped, At
<1>2. mem[c] \in Mems /\ Fits(mem[c], "stopping") /\ mem[c].was \in States
  BY <1>1 DEF IInv, ClientsOK, ClientInv, Fits
<1>3. file' \in States /\ file'.pid = NoPid /\ file'.feats = mem[c].was.feats
  BY <1>1, <1>2 DEF States
<1>4. ~Running' /\ NoPid \notin Pids /\ NoState \notin States
  BY <1>3, DaemonAssumption DEF Running, Living, States, Features
<1>5. PICK m \in Mems, to \in Labels :
        /\ Goto(c, m, to)
        /\ \/ m = Idle /\ to = "idle"
           \/ m = mem[c] /\ to = mem[c].then /\ to \in {"probe", "ensure"}
  <2>1. CASE mem[c].then = "idle"
    BY <2>1, FitsIdle DEF Stopped, Finish, Labels
  <2>2. CASE mem[c].then # "idle"
    BY <1>2, <2>2 DEF Stopped, Mems, Labels
  <2> QED
    BY <2>1, <2>2
<1>6. /\ ClientsOK'
      /\ mem'[c] = m /\ pc'[c] = to
      /\ \A d \in Clients \ {c} : mem'[d] = mem[d] /\ pc'[d] = pc[d]
  BY <1>5, Moved DEF IInv
<1>7. ServiceOK' /\ FilesOK' /\ NamedInv'
  BY <1>1, <1>3, <1>4 DEF IInv, ServiceOK, FilesOK, NamedInv, service
<1>8. ClientInv'
  <2> SUFFICES ASSUME NEW d \in Clients PROVE Fits(mem[d], pc[d])'
    BY DEF ClientInv
  <2>1. CASE d = c
    <3>1. Fits(m, to)'
      BY <1>1, <1>2, <1>4, <1>5 DEF Fits, Deciding, Wanted
    <3> QED
      BY <1>6, <2>1, <3>1
  <2>2. CASE d # c
    <3>1. ~load.overlap => pc[d] = "idle"
      BY <1>1, <2>2 DEF IInv, Alone
    <3>2. Fits(mem[d], pc[d])
      BY DEF IInv, ClientInv
    <3> QED
      BY <1>1, <1>6, <2>2, <3>1, <3>2 DEF Fits, Deciding
  <2> QED
    BY <2>1, <2>2
<1>9. ASSUME ~load.overlap PROVE Alone' /\ Known' /\ AskedInv'
  <2>1. mem[c].was = file /\ mem[c].pid = file.pid
    BY <1>2, <1>9 DEF Fits
  <2>2. Alone'
    BY <1>1, <1>6, <1>9 DEF IInv, Alone
  <2>3. Known'
    <3> SUFFICES ASSUME NEW p \in Living' \ orphans' PROVE FALSE
      BY DEF Known
    <3>1. p \in Living \ orphans /\ proc[p] # "dead"
      BY <1>1 DEF Living
    <3>2. PICK d \in Clients : pc[d] = "spawned" /\ mem[d].pid = p
      BY <1>1, <1>9, <2>1, <3>1 DEF IInv, Known
    <3> QED
      BY <1>1, <1>9, <3>2 DEF IInv, Alone
  <2>4. Recorded' = Recorded
    BY <1>2, <1>3, <1>4, <2>1 DEF Recorded
  <2> QED
    BY <1>1, <1>9, <2>2, <2>3, <2>4 DEF IInv, AskedInv
<1> QED
  BY <1>1, <1>6, <1>7, <1>8, <1>9 DEF IInv

\* A daemon is spawned, ...
LEMMA SpawnStep == ASSUME IInv, NEW c \in Clients, Spawn(c) PROVE IInv'
<1>1. PICK p \in Unused :
        /\ proc' = [proc EXCEPT ![p] = "boot"]
        /\ feats' = [feats EXCEPT ![p] = mem[c].next]
        /\ Goto(c, [mem[c] EXCEPT !.pid = p], "spawned")
  BY DEF Spawn
<1>2. pc[c] = "spawn" /\ UNCHANGED <<file, port, service, req, load, used, asked, orphans>>
  BY DEF Spawn, At
<1>3. mem[c] \in Mems /\ Fits(mem[c], "spawn") /\ p \in Pids /\ proc[p] = "none"
  BY <1>2 DEF IInv, ClientsOK, ClientInv, Unused
<1>4. [mem[c] EXCEPT !.pid = p] \in Mems
  BY <1>3 DEF Mems
<1>5. PICK m \in Mems : m = [mem[c] EXCEPT !.pid = p]
  BY <1>4
<1>6. m.pid = p /\ m.next = mem[c].next /\ m.op = mem[c].op
  BY <1>3, <1>5 DEF Mems
<1>7. /\ ClientsOK'
      /\ mem'[c] = m /\ pc'[c] = "spawned"
      /\ \A d \in Clients \ {c} : mem'[d] = mem[d] /\ pc'[d] = pc[d]
  BY <1>1, <1>5, Moved DEF IInv, Labels
<1>8. Living' = Living \cup {p} /\ (Running' => Running)
  BY <1>1, <1>2, <1>3 DEF IInv, ServiceOK, NamedInv, Living, Running
<1>9. feats'[p] = mem[c].next /\ \A q \in Pids \ {p} : feats'[q] = feats[q] /\ proc'[q] = proc[q]
  BY <1>1, <1>3 DEF IInv, FilesOK, ServiceOK
<1>10. ServiceOK' /\ FilesOK' /\ NamedInv'
  <2>1. ServiceOK'
    BY <1>1, <1>2 DEF IInv, ServiceOK, service
  <2>2. FilesOK'
    BY <1>1, <1>2, <1>3 DEF IInv, FilesOK, Mems
  <2>3. NamedInv'
    BY <1>1, <1>2, <1>3, <1>9 DEF IInv, ServiceOK, FilesOK, NamedInv, States
  <2> QED
    BY <2>1, <2>2, <2>3
<1>11. ClientInv'
  <2> SUFFICES ASSUME NEW d \in Clients PROVE Fits(mem[d], pc[d])'
    BY DEF ClientInv
  <2>1. CASE d = c
    <3>1. Fits(m, "spawned")'
      <4>1. proc'[p] = "boot"
        BY <1>1, <1>3 DEF IInv, ServiceOK
      <4> QED
        BY <1>2, <1>3, <1>6, <1>8, <1>9, <4>1 DEF Fits, Deciding, Wanted
    <3> QED
      BY <1>7, <2>1, <3>1
  <2>2. CASE d # c
    <3>1. Fits(mem[d], pc[d])
      BY DEF IInv, ClientInv
    <3>2. ~load.overlap => pc[d] = "idle"
      BY <1>2, <2>2 DEF IInv, Alone
    <3> QED
      BY <1>2, <1>3, <1>7, <1>9, <2>2, <3>1, <3>2 DEF Fits, Deciding
  <2> QED
    BY <2>1, <2>2
<1>12. ASSUME ~load.overlap PROVE Alone' /\ Known' /\ AskedInv'
  <2>1. Alone'
    BY <1>2, <1>7, <1>12 DEF IInv, Alone
  <2>2. Known'
    <3> SUFFICES ASSUME NEW q \in Living' \ orphans'
                 PROVE  \/ file' # NoState /\ file'.pid = q
                        \/ \E d \in Clients : pc'[d] = "spawned" /\ mem'[d].pid = q
      BY DEF Known
    <3>1. CASE q = p
      BY <1>6, <1>7, <3>1
    <3>2. CASE q # p
      <4>1. q \in Living \ orphans
        BY <1>2, <1>8, <3>2
      <4> QED
        BY <1>2, <1>7, <1>12, <4>1 DEF IInv, Known
    <3> QED
      BY <3>1, <3>2
  <2>3. AskedInv'
    BY <1>2, <1>12 DEF IInv, AskedInv, Recorded
  <2> QED
    BY <2>1, <2>2, <2>3
<1> QED
  BY <1>2, <1>7, <1>10, <1>11, <1>12 DEF IInv

\* ... and recorded 200 ms later.
LEMMA RecordStep == ASSUME IInv, NEW c \in Clients, Record(c) PROVE IInv'
<1> DEFINE up == proc[mem[c].pid] # "dead"
<1>1. /\ pc[c] = "spawned" /\ asked' = Wanted(mem[c].op)
      /\ file' = [pid |-> IF up THEN mem[c].pid ELSE NoPid, feats |-> mem[c].next]
      /\ UNCHANGED <<proc, feats, port, service, req, load, used, orphans>>
  BY DEF Record, At
<1>2. /\ mem[c] \in Mems /\ Fits(mem[c], "spawned")
      /\ mem[c].pid \in Pids /\ proc[mem[c].pid] # "none" /\ feats[mem[c].pid] = mem[c].next
  BY <1>1 DEF IInv, ClientsOK, ClientInv, Fits
<1>3. file' \in States /\ file'.feats = mem[c].next /\ file'.pid = IF up THEN mem[c].pid ELSE NoPid
  BY <1>1, <1>2 DEF States, Mems
<1>4. NoPid \notin Pids /\ NoState \notin States
  BY DaemonAssumption DEF States, Features
<1>5. PICK m \in Mems, to \in {"idle", "enqueue"} : Goto(c, m, to)
  BY <1>2, FitsIdle DEF Record, Done, Finish
<1>6. /\ ClientsOK'
      /\ mem'[c] = m /\ pc'[c] = to
      /\ \A d \in Clients \ {c} : mem'[d] = mem[d] /\ pc'[d] = pc[d]
  BY <1>5, Moved DEF IInv, Labels
<1>7. ServiceOK' /\ FilesOK' /\ NamedInv'
  <2>1. asked' \subseteq Features
    BY <1>1 DEF IInv, FilesOK, Wanted, Features
  <2>2. ServiceOK' /\ FilesOK'
    BY <1>1, <1>3, <2>1 DEF IInv, ServiceOK, FilesOK, service
  <2>3. NamedInv'
    BY <1>1, <1>2, <1>3, <1>4 DEF IInv, NamedInv
  <2> QED
    BY <2>2, <2>3
<1>8. ClientInv'
  <2> SUFFICES ASSUME NEW d \in Clients PROVE Fits(mem[d], pc[d])'
    BY DEF ClientInv
  <2>1. CASE d = c
    BY <1>5, <1>6, <2>1 DEF Fits, Deciding
  <2>2. CASE d # c
    <3>1. Fits(mem[d], pc[d])
      BY DEF IInv, ClientInv
    <3>2. ~load.overlap => pc[d] = "idle"
      BY <1>1, <2>2 DEF IInv, Alone
    <3> QED
      BY <1>1, <1>6, <2>2, <3>1, <3>2 DEF Fits, Deciding
  <2> QED
    BY <2>1, <2>2
<1>9. ASSUME ~load.overlap PROVE Alone' /\ Known' /\ AskedInv'
  <2>1. ~Running /\ mem[c].next = Wanted(mem[c].op)
    BY <1>2, <1>9 DEF Fits, Deciding
  <2>2. Alone'
    BY <1>1, <1>6, <1>9 DEF IInv, Alone
  <2>3. Known'
    <3> SUFFICES ASSUME NEW p \in Living' \ orphans' PROVE file' # NoState /\ file'.pid = p
      BY DEF Known
    <3>1. p \in Living \ orphans
      BY <1>1 DEF Living
    <3>2. PICK d \in Clients : pc[d] = "spawned" /\ mem[d].pid = p
      BY <1>9, <2>1, <3>1 DEF IInv, Known, Running
    <3>3. d = c
      BY <1>1, <1>9, <3>2 DEF IInv, Alone
    <3>4. up
      BY <3>1, <3>2, <3>3 DEF Living
    <3> QED
      BY <1>3, <1>4, <3>2, <3>3, <3>4
  <2>4. Recorded' = asked'
    BY <1>1, <1>3, <1>4, <2>1 DEF Recorded
  <2>5. "auto" \in asked' => "watch" \in asked'
    BY <1>1, <1>9 DEF IInv, AskedInv, Wanted
  <2> QED
    BY <2>2, <2>3, <2>4, <2>5 DEF AskedInv
<1> QED
  BY <1>1, <1>6, <1>7, <1>8, <1>9 DEF IInv

\* Every step preserves the inductive invariant.
LEMMA NextIInv == IInv /\ [Next]_vars => IInv'
<1> SUFFICES ASSUME IInv, [Next]_vars PROVE IInv'
  OBVIOUS
<1>1. ASSUME NEW c \in Clients, ClientStep(c) PROVE IInv'
  <2>1. pc[c] # "idle"
    BY <1>1 DEF ClientStep
  <2> QED
    BY <1>1, <2>1, DecideStep, StopStep, StoppedStep, SpawnStep, RecordStep, EnqueueStep DEF ClientStep
<1>2. ASSUME NEW c \in Clients, Killed(c) \/ \E op \in Ops : Begin(c, op) PROVE IInv'
  BY <1>2, KilledStep, BeginStep
<1>3. ASSUME NEW p \in Pids, DaemonStep(p) \/ Ends(p) \/ Crash(p) PROVE IInv'
  BY <1>3, DaemonIInv
<1>4. CASE UNCHANGED vars
  <2>1. Lasting /\ Ending /\ ServiceOK' /\ FilesOK' /\ UNCHANGED <<pc, mem>>
    BY <1>4 DEF IInv, NamedInv, ServiceOK, FilesOK, Lasting, Ending, Living, vars, service
  <2> QED
    BY <2>1, EndingStep
<1> QED
  BY <1>1, <1>2, <1>3, <1>4 DEF Next

\* What the inductive invariant promises.
LEMMA IInvDaemonInv == IInv => DaemonInv
<1> SUFFICES ASSUME IInv PROVE DaemonInv
  OBVIOUS
<1>1. TypeOK
  BY DEF IInv, ServiceOK, FilesOK, ClientsOK, Labels, Mems, TypeOK
<1>2. OneDaemon
  <2> SUFFICES ASSUME ~load.overlap PROVE Cardinality(Living \ orphans) <= 1
    BY DEF OneDaemon
  <2>1. \A p, q \in Living \ orphans : p = q
    BY DEF IInv, Known, Alone, ClientInv, Fits, Running
  <2>2. CASE Living \ orphans = {}
    BY <2>2, FS_EmptySet
  <2>3. CASE Living \ orphans # {}
    <3>1. PICK p : Living \ orphans = {p}
      BY <2>1, <2>3
    <3> QED
      BY <3>1, FS_Singleton
  <2> QED
    BY <2>2, <2>3
<1>3. RecordedAsStarted
  BY DEF IInv, NamedInv, RecordedAsStarted, Running, Living
<1>4. FeaturesKept
  BY DEF IInv, AskedInv, FeaturesKept, Recorded
<1>5. ConflictIsStale
  <2> SUFFICES ASSUME NEW c \in Clients, ~load.overlap, pc[c] = "probe", port \in Pids, port \notin orphans
               PROVE  FALSE
    BY DEF ConflictIsStale
  <2>1. port \in Living \ orphans
    BY DEF IInv, NamedInv, Living
  <2>2. ~Running
    BY DEF IInv, ClientInv, Fits
  <2>3. PICK d \in Clients : pc[d] = "spawned"
    BY <2>1, <2>2 DEF IInv, Known, Running
  <2> QED
    BY <2>3 DEF IInv, Alone
<1> QED
  BY <1>1, <1>2, <1>3, <1>4, <1>5 DEF DaemonInv

\* One daemon, recorded as it was started, that keeps what earlier commands asked for;
\* and a port conflict is only found with a daemon that no file names (ensureConfig,
\* stop, startDetached, getStatus), for every number of commands, kills and requests.
THEOREM DaemonCorrect == Spec => []DaemonInv
<1>1. Init => IInv
  BY InitIInv
<1>2. IInv /\ [Next]_vars => IInv'
  BY NextIInv
<1>3. IInv => DaemonInv
  BY IInvDaemonInv
<1> QED
  BY <1>1, <1>2, <1>3, PTL DEF Spec

\* And so it does with dashboards that watch next to it.
THEOREM DaemonCorrectWithWatch == WatchSpec => []DaemonInv
<1>1. WatchInit => IInv
  BY InitIInv DEF WatchInit
<1>2. IInv /\ [WatchNext]_<<vars, watching>> => IInv'
  <2>1. [WatchNext]_<<vars, watching>> => [Next]_vars
    BY DEF WatchNext
  <2> QED
    BY <2>1, NextIInv
<1>3. IInv => DaemonInv
  BY IInvDaemonInv
<1> QED
  BY <1>1, <1>2, <1>3, PTL DEF WatchSpec

-----------------------------------------------------------------------------
(* The dashboards that watch *)

\* The types of what WatchTypeOK leaves out.
Leases == [pid : Tui, full : BOOLEAN, auto : BOOLEAN, by : Threads]
Places == {"idle", "auto", "yield", "keep", "detached", "leased", "desktop", "claim", "create",
           "write", "reread", "clear", "abort", "await", "readBack", "giveBack"}
ThreadStates == [at : Places, auto : BOOLEAN, saw : Sessions \cup {NoSession},
                 then : {"idle", "desktop", "create"}, judged : Leases \cup {NoLease}]
Holdings == [ctl : Sessions \cup {NoSession}, promise : Sessions \cup {NoSession}, owns : BOOLEAN]
ThreadsOK ==
  /\ WatchTypeOK
  /\ thr \in [Threads -> ThreadStates] /\ held \in [Monitors -> Holdings]

\* A set of monitors between its start and the end of its stop.
Opened(m) == life[m] \in {"opening", "open", "stopping"}
GivingBack(u) == thr[u].at \in {"readBack", "giveBack"}
WatchedBy(p) == \E s \in Sessions : Watching(s) /\ ProcessOf[sess[s].of] = p

\* A process has one set at a time, and a set that was not opened does nothing.
SetsInv ==
  /\ \A m, n \in Monitors : Opened(m) /\ Opened(n) /\ ProcessOf[m] = ProcessOf[n] => m = n
  /\ \A u \in Threads : life[Set(u)] = "none" => thr[u].at = "idle"

\* One thread of a process starts a session at a time, and unless its set was stopped,
\* only when the process runs none.
StartsInv ==
  /\ \A u, w \in Threads : Starting(u) /\ Starting(w) /\ Pid(u) = Pid(w) => u = w
  /\ \A u \in Threads : Starting(u) /\ life[Set(u)] \in {"opening", "open"} => ~WatchedBy(Pid(u))

\* A lease that is being written is the one its thread created; a lease that is about
\* to be removed was written, by a dashboard that is dead or by the one that removes it.
FileInv == \A u \in Threads :
  /\ thr[u].at = "write" => lease # NoLease /\ lease.by = u /\ lease.pid = Pid(u) /\ ~lease.full
  /\ thr[u].at = "clear" =>
       thr[u].judged # NoLease /\ thr[u].judged.full /\ thr[u].judged.pid \in dead
  /\ thr[u].at = "giveBack" =>
       /\ thr[u].judged # NoLease /\ thr[u].judged.full
       /\ thr[u].judged.pid \in dead \cup {Pid(u)}

\* A set that owns the lease is open; one that is giving it back for good owns none.
OwnsInv == \A m \in Monitors :
  /\ held[m].owns /\ ProcessOf[m] \notin dead => Opened(m)
  /\ life[m] = "stopping" /\ GivingBack(<<m, "main">>) => ~held[m].owns

\* A session that watches is the one its set can abort and waits for; its process is
\* alive, owns the written lease, and no thread of it is giving that back.
SessionsInv == \A s \in Sessions : Watching(s) =>
  LET m == sess[s].of
  IN /\ held[m] = [ctl |-> s, promise |-> s, owns |-> TRUE]
     /\ Opened(m) /\ ProcessOf[m] \notin dead
     /\ lease # NoLease /\ lease.full /\ lease.pid = ProcessOf[m]
     /\ \A u \in Threads : GivingBack(u) => Pid(u) # ProcessOf[m]

Uncrossed == SetsInv /\ StartsInv /\ FileInv /\ OwnsInv /\ SessionsInv
WatchIInv == ThreadsOK /\ (~crossed => Uncrossed)

\* A thread moves on, and nothing it does starts a session.
StartingAt(v) == v.at \in {"detached", "leased", "desktop", "claim", "create", "write", "reread"}
                 \/ (v.at = "clear" /\ v.then \in {"desktop", "create"})
\* What it may have to do with the lease where it goes.
LeaseFits(u, v) ==
  /\ v.at = "write" => lease' # NoLease /\ lease'.by = u /\ lease'.pid = Pid(u) /\ ~lease'.full
  /\ v.at = "clear" => v.judged # NoLease /\ v.judged.full /\ v.judged.pid \in dead
  /\ v.at = "giveBack" => v.judged # NoLease /\ v.judged.full /\ v.judged.pid \in dead \cup {Pid(u)}
\* What it may change of the lease, of its set and of the sessions.
Quietly(u) ==
  /\ lease' = lease \/ /\ \A s \in Sessions : ~Watching(s)
                       /\ \A w \in Threads \ {u} : thr[w].at # "write"
  /\ \A m \in Monitors :
       \/ life'[m] = life[m]
       \/ /\ life[m] = "stopping" /\ life'[m] = "closed" /\ ~held'[m].owns
          /\ \A s \in Sessions : Watching(s)' => sess[s].of # m
  /\ \A m \in Monitors :
       held'[m] = held[m] \/ (held'[m] = Nothing /\ \A s \in Sessions : Watching(s)' => sess[s].of # m)
  /\ \A s \in Sessions : Watching(s)' => Watching(s) /\ sess'[s].of = sess[s].of
  /\ UNCHANGED dead

LEMMA QuietStep ==
  ASSUME ThreadsOK, Uncrossed, NEW u \in Threads, NEW v \in ThreadStates, To(u, v),
         life[Set(u)] # "none", StartingAt(v) => Starting(u), LeaseFits(u, v), Quietly(u),
         v.at \in {"readBack", "giveBack"} =>
           /\ \A s \in Sessions : Watching(s)' => ProcessOf[sess[s].of] # Pid(u)
           /\ u = <<Set(u), "main">> /\ life[Set(u)] = "stopping" => ~held'[Set(u)].owns
  PROVE  Uncrossed'
<1>1. thr'[u] = v /\ \A w \in Threads \ {u} : thr'[w] = thr[w]
  BY DEF ThreadsOK, To
<1>2. \A m \in Monitors : Opened(m)' => Opened(m)
  BY DEF Quietly, Opened
<1>3. SetsInv'
  <2>1. \A m, n \in Monitors : Opened(m)' /\ Opened(n)' /\ ProcessOf[m] = ProcessOf[n] => m = n
    BY <1>2 DEF Uncrossed, SetsInv
  <2>2. ASSUME NEW w \in Threads, life'[Set(w)] = "none" PROVE thr'[w].at = "idle"
    <3>1. Set(w) \in Monitors
      BY DEF Threads, Set
    <3>2. life[Set(w)] = "none"
      BY <2>2, <3>1 DEF Quietly
    <3> QED
      BY <1>1, <3>2 DEF Uncrossed, SetsInv
  <2> QED
    BY <2>1, <2>2 DEF SetsInv
<1>4. \A w \in Threads : Starting(w)' => Starting(w)
  BY <1>1 DEF Starting, StartingAt
<1>5. StartsInv'
  <2>1. \A w, x \in Threads : Starting(w)' /\ Starting(x)' /\ Pid(w) = Pid(x) => w = x
    BY <1>4 DEF Uncrossed, StartsInv
  <2>2. ASSUME NEW w \in Threads, Starting(w)', life'[Set(w)] \in {"opening", "open"}
        PROVE  ~WatchedBy(Pid(w))'
    <3>1. life[Set(w)] \in {"opening", "open"}
      BY <2>2 DEF Quietly, Threads, Set
    <3>2. ~WatchedBy(Pid(w))
      BY <1>4, <2>2, <3>1 DEF Uncrossed, StartsInv
    <3> QED
      BY <3>2 DEF WatchedBy, Quietly
  <2> QED
    BY <2>1, <2>2 DEF StartsInv, Pid
<1>6. FileInv'
  <2> SUFFICES ASSUME NEW w \in Threads PROVE
        /\ thr'[w].at = "write" => lease' # NoLease /\ lease'.by = w /\ lease'.pid = Pid(w) /\ ~lease'.full
        /\ thr'[w].at = "clear" =>
             thr'[w].judged # NoLease /\ thr'[w].judged.full /\ thr'[w].judged.pid \in dead'
        /\ thr'[w].at = "giveBack" =>
             /\ thr'[w].judged # NoLease /\ thr'[w].judged.full
             /\ thr'[w].judged.pid \in dead' \cup {Pid(w)}
    BY DEF FileInv, Pid
  <2>1. CASE w = u
    BY <1>1, <2>1 DEF LeaseFits, Quietly
  <2>2. CASE w # u
    BY <1>1, <2>2 DEF Uncrossed, FileInv, Quietly
  <2> QED
    BY <2>1, <2>2
<1>7. OwnsInv'
  <2> SUFFICES ASSUME NEW m \in Monitors PROVE
        /\ held'[m].owns /\ ProcessOf[m] \notin dead => Opened(m)'
        /\ life'[m] = "stopping" /\ GivingBack(<<m, "main">>)' => ~held'[m].owns
    BY DEF OwnsInv, Quietly
  <2>1. ASSUME held'[m].owns, ProcessOf[m] \notin dead PROVE Opened(m)'
    <3>1. held'[m] # Nothing /\ life'[m] = life[m]
      BY <2>1 DEF Quietly, Nothing
    <3>2. held'[m] = held[m]
      BY <3>1 DEF Quietly
    <3> QED
      BY <2>1, <3>1, <3>2 DEF Uncrossed, OwnsInv, Opened
  <2>2. ASSUME life'[m] = "stopping", GivingBack(<<m, "main">>)' PROVE ~held'[m].owns
    <3>1. <<m, "main">> \in Threads /\ life[m] = "stopping" /\ Set(<<m, "main">>) = m
      BY <2>2 DEF Threads, Kinds, Quietly, Set
    <3>2. CASE u = <<m, "main">>
      BY <1>1, <2>2, <3>1, <3>2 DEF GivingBack
    <3>3. CASE u # <<m, "main">>
      <4>1. ~held[m].owns
        BY <1>1, <2>2, <3>1, <3>3 DEF GivingBack, Uncrossed, OwnsInv
      <4> QED
        BY <4>1 DEF Quietly, Nothing
    <3> QED
      BY <3>2, <3>3
  <2> QED
    BY <2>1, <2>2
<1>8. SessionsInv'
  <2> SUFFICES ASSUME NEW s \in Sessions, Watching(s)', NEW m \in Monitors, m = sess'[s].of
               PROVE  /\ held'[m] = [ctl |-> s, promise |-> s, owns |-> TRUE]
                      /\ Opened(m)' /\ ProcessOf[m] \notin dead'
                      /\ lease' # NoLease /\ lease'.full /\ lease'.pid = ProcessOf[m]
                      /\ \A w \in Threads : GivingBack(w)' => Pid(w) # ProcessOf[m]
    <3>1. \A s \in Sessions : Watching(s)' => sess'[s].of \in Monitors
      BY DEF Quietly, ThreadsOK, WatchTypeOK
    <3> QED
      BY <3>1 DEF SessionsInv, Pid
  <2>1. Watching(s) /\ m = sess[s].of
    BY DEF Quietly
  <2>2. /\ held[m] = [ctl |-> s, promise |-> s, owns |-> TRUE]
        /\ Opened(m) /\ ProcessOf[m] \notin dead
        /\ lease # NoLease /\ lease.full /\ lease.pid = ProcessOf[m]
        /\ \A w \in Threads : GivingBack(w) => Pid(w) # ProcessOf[m]
    BY <2>1 DEF Uncrossed, SessionsInv
  <2>3. held'[m] = held[m] /\ life'[m] = life[m] /\ lease' = lease /\ dead' = dead
    BY <2>1 DEF Quietly
  <2>4. ASSUME NEW w \in Threads, GivingBack(w)' PROVE Pid(w) # ProcessOf[m]
    <3>1. CASE w = u
      BY <1>1, <2>1, <2>4, <3>1 DEF GivingBack
    <3>2. CASE w # u
      BY <1>1, <2>2, <2>4, <3>2 DEF GivingBack
    <3> QED
      BY <3>1, <3>2
  <2> QED
    BY <2>2, <2>3, <2>4 DEF Opened
<1> QED
  BY <1>3, <1>5, <1>6, <1>7, <1>8 DEF Uncrossed

\* The threads keep their types.
LEMMA Places1 ==
  ASSUME ThreadsOK, NEW u \in Threads
  PROVE  /\ Resting \in ThreadStates
         /\ thr[u] \in ThreadStates
         /\ \A to \in Places : [thr[u] EXCEPT !.at = to] \in ThreadStates
         /\ \A x \in {"idle", "desktop", "create"} :
              [thr[u] EXCEPT !.at = "clear", !.then = x, !.judged = lease] \in ThreadStates
         /\ \A t \in Sessions \cup {NoSession} :
              /\ [thr[u] EXCEPT !.at = "await", !.saw = t] \in ThreadStates
              /\ [Resting EXCEPT !.at = "readBack", !.saw = t] \in ThreadStates
         /\ [thr[u] EXCEPT !.at = "giveBack", !.judged = lease] \in ThreadStates
         /\ \A to \in Places, b \in BOOLEAN :
              /\ [Resting EXCEPT !.at = to] \in ThreadStates
              /\ [Resting EXCEPT !.auto = b, !.at = to] \in ThreadStates
<1>1. thr[u] \in ThreadStates /\ lease \in Leases \cup {NoLease}
  BY DEF ThreadsOK, WatchTypeOK, Leases
<1>2. Resting \in ThreadStates
  BY DEF Resting, ThreadStates, Places
<1>3. \A to \in Places : [thr[u] EXCEPT !.at = to] \in ThreadStates
  BY <1>1 DEF ThreadStates
<1>4. \A x \in {"idle", "desktop", "create"} :
        [thr[u] EXCEPT !.at = "clear", !.then = x, !.judged = lease] \in ThreadStates
  BY <1>1 DEF ThreadStates, Places
<1>5. \A t \in Sessions \cup {NoSession} : [thr[u] EXCEPT !.at = "await", !.saw = t] \in ThreadStates
  BY <1>1 DEF ThreadStates, Places
<1>6. \A t \in Sessions \cup {NoSession} :
        [Resting EXCEPT !.at = "readBack", !.saw = t] \in ThreadStates
  BY <1>2 DEF ThreadStates, Places
<1>7. [thr[u] EXCEPT !.at = "giveBack", !.judged = lease] \in ThreadStates
  BY <1>1 DEF ThreadStates, Places
<1>8. \A to \in Places, b \in BOOLEAN :
        /\ [Resting EXCEPT !.at = to] \in ThreadStates
        /\ [Resting EXCEPT !.auto = b, !.at = to] \in ThreadStates
  BY <1>2 DEF ThreadStates
<1> QED
  BY <1>1, <1>2, <1>3, <1>4, <1>5, <1>6, <1>7, <1>8

\* A session starts: the types.
LEMMA StartTypes ==
  ASSUME ThreadsOK, NEW u \in Threads, StartSession(u)
  PROVE  /\ sess' \in [Sessions -> [st : {"none", "run", "aborted", "closing", "ended"}, of : Monitors]]
         /\ held' \in [Monitors -> Holdings]
         /\ crossed' \in BOOLEAN
         /\ To(u, Resting)
<1>1. Set(u) \in Monitors
  BY DEF Threads, Set
<1>2. PICK s \in Unstarted :
        /\ sess' = [sess EXCEPT ![s] = [st |-> "run", of |-> Set(u)]]
        /\ held' = [held EXCEPT ![Set(u)] = [ctl |-> s, promise |-> s, owns |-> TRUE]]
  BY DEF StartSession
<1>3. s \in Sessions /\ [ctl |-> s, promise |-> s, owns |-> TRUE] \in Holdings
  BY DEF Unstarted, Holdings
<1>4. crossed' \in BOOLEAN /\ To(u, Resting)
  BY DEF StartSession, ThreadsOK, WatchTypeOK, Rest
<1> QED
  BY <1>1, <1>2, <1>3, <1>4 DEF ThreadsOK, WatchTypeOK

LEMMA ThreadTypes ==
  ASSUME ThreadsOK, NEW u \in Threads, ThreadStep(u)
  PROVE  ThreadsOK'
<1>1. /\ Set(u) \in Monitors /\ Pid(u) \in Tui /\ AutoSwitch \in BOOLEAN
      /\ \A m \in Monitors : held[m] \in Holdings
      /\ Nothing \in Holdings /\ thr[u].then \in {"idle", "desktop", "create"}
      /\ held[Set(u)].promise \in Sessions \cup {NoSession}
      /\ lease \in Leases \cup {NoLease}
  BY WatchLeaseAssumption DEF Threads, Set, Pid, AutoSwitch, ThreadsOK, WatchTypeOK, Leases, Holdings, Nothing, ThreadStates
<1> USE Places1 DEF On, Rest
<1>2. CASE ReadAuto(u)
  <2>1. PICK v \in ThreadStates : To(u, v)
    BY <1>1, <1>2 DEF ReadAuto, Is, Places
  <2>2. thr' \in [Threads -> ThreadStates]
    BY <2>1 DEF ThreadsOK, To
  <2>3. WatchTypeOK' /\ held' \in [Monitors -> Holdings]
    BY <1>1, <1>2 DEF ThreadsOK, WatchTypeOK, ReadAuto
  <2> QED
    BY <2>2, <2>3 DEF ThreadsOK
<1>3. CASE YieldToDaemon(u)
  <2>1. PICK v \in ThreadStates : To(u, v)
    BY <1>1, <1>3 DEF YieldToDaemon, Is, Places
  <2>2. thr' \in [Threads -> ThreadStates]
    BY <2>1 DEF ThreadsOK, To
  <2>3. WatchTypeOK' /\ held' \in [Monitors -> Holdings]
    BY <1>1, <1>3 DEF ThreadsOK, WatchTypeOK, YieldToDaemon
  <2> QED
    BY <2>2, <2>3 DEF ThreadsOK
<1>4. CASE KeepLease(u)
  <2>1. PICK v \in ThreadStates : To(u, v)
    BY <1>1, <1>4 DEF KeepLease, Is, Places
  <2>2. thr' \in [Threads -> ThreadStates]
    BY <2>1 DEF ThreadsOK, To
  <2>3. WatchTypeOK' /\ held' \in [Monitors -> Holdings]
    BY <1>1, <1>4 DEF ThreadsOK, WatchTypeOK, KeepLease
  <2> QED
    BY <2>2, <2>3 DEF ThreadsOK
<1>5. CASE StartIfNoDaemon(u)
  <2>1. PICK v \in ThreadStates : To(u, v)
    BY <1>1, <1>5 DEF StartIfNoDaemon, Is, Places
  <2>2. thr' \in [Threads -> ThreadStates]
    BY <2>1 DEF ThreadsOK, To
  <2>3. WatchTypeOK' /\ held' \in [Monitors -> Holdings]
    BY <1>1, <1>5 DEF ThreadsOK, WatchTypeOK, StartIfNoDaemon
  <2> QED
    BY <2>2, <2>3 DEF ThreadsOK
<1>6. CASE StartIfNoOwner(u)
  <2>1. PICK v \in ThreadStates : To(u, v)
    BY <1>1, <1>6 DEF StartIfNoOwner, Is, Places
  <2>2. thr' \in [Threads -> ThreadStates]
    BY <2>1 DEF ThreadsOK, To
  <2>3. WatchTypeOK' /\ held' \in [Monitors -> Holdings]
    BY <1>1, <1>6 DEF ThreadsOK, WatchTypeOK, StartIfNoOwner
  <2> QED
    BY <2>2, <2>3 DEF ThreadsOK
<1>7. CASE StartIfDesktop(u)
  <2>1. PICK v \in ThreadStates : To(u, v)
    BY <1>1, <1>7 DEF StartIfDesktop, Is, Places
  <2>2. thr' \in [Threads -> ThreadStates]
    BY <2>1 DEF ThreadsOK, To
  <2>3. WatchTypeOK' /\ held' \in [Monitors -> Holdings]
    BY <1>1, <1>7 DEF ThreadsOK, WatchTypeOK, StartIfDesktop
  <2> QED
    BY <2>2, <2>3 DEF ThreadsOK
<1>8. CASE ClearDead(u)
  <2>1. PICK v \in ThreadStates : To(u, v)
    BY <1>1, <1>8 DEF ClearDead, Is, Places
  <2>2. thr' \in [Threads -> ThreadStates]
    BY <2>1 DEF ThreadsOK, To
  <2>3. WatchTypeOK' /\ held' \in [Monitors -> Holdings]
    BY <1>1, <1>8 DEF ThreadsOK, WatchTypeOK, ClearDead
  <2> QED
    BY <2>2, <2>3 DEF ThreadsOK
<1>9. CASE Claim(u)
  <2>1. PICK v \in ThreadStates : To(u, v)
    BY <1>9, StartTypes DEF Claim, Places
  <2>2. thr' \in [Threads -> ThreadStates]
    BY <2>1 DEF ThreadsOK, To
  <2>3. lease' \in Leases \cup {NoLease} /\ UNCHANGED <<life, dead, desktop>>
    BY <1>1, <1>9 DEF Claim, Leases
  <2>4. CASE StartSession(u)
    <3>1. held' \in [Monitors -> Holdings]
      BY <2>4, StartTypes
    <3>2. \A m \in Monitors : {held'[m].ctl, held'[m].promise} \subseteq Sessions \cup {NoSession}
      BY <3>1 DEF Holdings
    <3>3. {desktop', crossed'} \subseteq BOOLEAN
      BY <2>3, <2>4, StartTypes DEF ThreadsOK, WatchTypeOK
    <3>4. sess' \in [Sessions -> [st : {"none", "run", "aborted", "closing", "ended"}, of : Monitors]]
      BY <2>4, StartTypes
    <3>5. WatchTypeOK'
      BY <2>3, <3>2, <3>3, <3>4 DEF ThreadsOK, WatchTypeOK, Leases
    <3> QED
      BY <2>2, <3>1, <3>5 DEF ThreadsOK
  <2>5. CASE UNCHANGED <<held, sess, crossed>>
    <3>1. WatchTypeOK' /\ held' \in [Monitors -> Holdings]
      BY <2>3, <2>5 DEF ThreadsOK, WatchTypeOK, Leases
    <3> QED
      BY <2>2, <3>1 DEF ThreadsOK
  <2> QED
    BY <1>9, <2>4, <2>5 DEF Claim
<1>10. CASE Create(u)
  <2>1. PICK v \in ThreadStates : To(u, v)
    BY <1>1, <1>10 DEF Create, Is, Places
  <2>2. thr' \in [Threads -> ThreadStates]
    BY <2>1 DEF ThreadsOK, To
  <2>3. thr[u].auto \in BOOLEAN
    BY Places1 DEF ThreadStates
  <2>a. [pid |-> Pid(u), full |-> FALSE, auto |-> thr[u].auto, by |-> u] \in Leases
    BY <1>1, <2>3 DEF Leases
  <2>4. lease' \in Leases \cup {NoLease} /\ UNCHANGED <<life, held, sess, dead, desktop, crossed>>
    BY <1>1, <1>10, <2>a DEF Create
  <2> QED
    BY <2>2, <2>4 DEF ThreadsOK, WatchTypeOK, Leases
<1>11. CASE Write(u)
  <2>1. PICK v \in ThreadStates : To(u, v)
    BY <1>11, StartTypes DEF Write, Places
  <2>2. thr' \in [Threads -> ThreadStates]
    BY <2>1 DEF ThreadsOK, To
  <2>3. lease' \in Leases \cup {NoLease} /\ UNCHANGED <<life, dead, desktop>>
    BY <1>1, <1>11 DEF Write, Leases
  <2>4. CASE StartSession(u)
    <3>1. held' \in [Monitors -> Holdings]
      BY <2>4, StartTypes
    <3>2. \A m \in Monitors : {held'[m].ctl, held'[m].promise} \subseteq Sessions \cup {NoSession}
      BY <3>1 DEF Holdings
    <3>3. {desktop', crossed'} \subseteq BOOLEAN
      BY <2>3, <2>4, StartTypes DEF ThreadsOK, WatchTypeOK
    <3>4. sess' \in [Sessions -> [st : {"none", "run", "aborted", "closing", "ended"}, of : Monitors]]
      BY <2>4, StartTypes
    <3>5. WatchTypeOK'
      BY <2>3, <3>2, <3>3, <3>4 DEF ThreadsOK, WatchTypeOK, Leases
    <3> QED
      BY <2>2, <3>1, <3>5 DEF ThreadsOK
  <2>5. CASE UNCHANGED <<held, sess, crossed>>
    <3>1. WatchTypeOK' /\ held' \in [Monitors -> Holdings]
      BY <2>3, <2>5 DEF ThreadsOK, WatchTypeOK, Leases
    <3> QED
      BY <2>2, <3>1 DEF ThreadsOK
  <2> QED
    BY <1>11, <2>4, <2>5 DEF Write
<1>12. CASE Reread(u)
  <2>1. PICK v \in ThreadStates : To(u, v)
    BY <1>12, StartTypes DEF Reread, Places
  <2>2. thr' \in [Threads -> ThreadStates]
    BY <2>1 DEF ThreadsOK, To
  <2>3. lease' \in Leases \cup {NoLease} /\ UNCHANGED <<life, dead, desktop>>
    BY <1>1, <1>12 DEF Reread, Leases
  <2>4. CASE StartSession(u)
    <3>1. held' \in [Monitors -> Holdings]
      BY <2>4, StartTypes
    <3>2. \A m \in Monitors : {held'[m].ctl, held'[m].promise} \subseteq Sessions \cup {NoSession}
      BY <3>1 DEF Holdings
    <3>3. {desktop', crossed'} \subseteq BOOLEAN
      BY <2>3, <2>4, StartTypes DEF ThreadsOK, WatchTypeOK
    <3>4. sess' \in [Sessions -> [st : {"none", "run", "aborted", "closing", "ended"}, of : Monitors]]
      BY <2>4, StartTypes
    <3>5. WatchTypeOK'
      BY <2>3, <3>2, <3>3, <3>4 DEF ThreadsOK, WatchTypeOK, Leases
    <3> QED
      BY <2>2, <3>1, <3>5 DEF ThreadsOK
  <2>5. CASE UNCHANGED <<held, sess, crossed>>
    <3>1. WatchTypeOK' /\ held' \in [Monitors -> Holdings]
      BY <2>3, <2>5 DEF ThreadsOK, WatchTypeOK, Leases
    <3> QED
      BY <2>2, <3>1 DEF ThreadsOK
  <2> QED
    BY <1>12, <2>4, <2>5 DEF Reread
<1>13. CASE Abort(u)
  <2>1. PICK v \in ThreadStates : To(u, v)
    BY <1>1, <1>13 DEF Abort, Is, Places
  <2>2. thr' \in [Threads -> ThreadStates]
    BY <2>1 DEF ThreadsOK, To
  <2>3. WatchTypeOK' /\ held' \in [Monitors -> Holdings]
    BY <1>1, <1>13 DEF ThreadsOK, WatchTypeOK, Abort
  <2> QED
    BY <2>2, <2>3 DEF ThreadsOK
<1>14. CASE Awaited(u)
  <2>1. PICK v \in ThreadStates : To(u, v)
    BY <1>1, <1>14 DEF Awaited, Is, Places
  <2>2. thr' \in [Threads -> ThreadStates]
    BY <2>1 DEF ThreadsOK, To
  <2>3. held' \in [Monitors -> Holdings]
    BY <1>1, <1>14 DEF Awaited, ThreadsOK
  <2>4. life' \in [Monitors -> {"none", "opening", "open", "stopping", "closed"}] /\ crossed' \in BOOLEAN
    BY <1>1, <1>14 DEF Awaited, ThreadsOK, WatchTypeOK
  <2>5. UNCHANGED <<lease, sess, dead, desktop>>
    BY <1>14 DEF Awaited
  <2> QED
    BY <2>2, <2>3, <2>4, <2>5 DEF ThreadsOK, WatchTypeOK, Holdings
<1>15. CASE ReadBack(u)
  <2>1. PICK v \in ThreadStates : To(u, v)
    BY <1>1, <1>15 DEF ReadBack, Released, Is, Places
  <2>2. thr' \in [Threads -> ThreadStates]
    BY <2>1 DEF ThreadsOK, To
  <2>3. UNCHANGED <<lease, held, dead, desktop, crossed>>
    BY <1>15 DEF ReadBack
  <2>4. life' \in [Monitors -> {"none", "opening", "open", "stopping", "closed"}]
    BY <1>1, <1>15 DEF ThreadsOK, WatchTypeOK, ReadBack, Released
  <2>5. sess' \in [Sessions -> [st : {"none", "run", "aborted", "closing", "ended"}, of : Monitors]]
    <3>1. sess' = sess \/ sess' = [sess EXCEPT ![thr[u].saw].st = "ended"]
      BY <1>15 DEF ReadBack, Released
    <3>2. sess \in [Sessions -> [st : {"none", "run", "aborted", "closing", "ended"}, of : Monitors]]
      BY DEF ThreadsOK, WatchTypeOK
    <3> QED
      BY <3>1, <3>2
  <2> QED
    BY <2>2, <2>3, <2>4, <2>5 DEF ThreadsOK, WatchTypeOK
<1>16. CASE GiveBack(u)
  <2>1. PICK v \in ThreadStates : To(u, v)
    BY <1>1, <1>16 DEF GiveBack, Released, Is, Places
  <2>2. thr' \in [Threads -> ThreadStates]
    BY <2>1 DEF ThreadsOK, To
  <2>3. WatchTypeOK' /\ held' \in [Monitors -> Holdings]
    BY <1>1, <1>16 DEF ThreadsOK, WatchTypeOK, GiveBack, Released
  <2> QED
    BY <2>2, <2>3 DEF ThreadsOK
<1> QED
  BY <1>2, <1>3, <1>4, <1>5, <1>6, <1>7, <1>8, <1>9, <1>10, <1>11, <1>12, <1>13, <1>14, <1>15, <1>16 DEF ThreadStep

\* A session starts.
LEMMA StartStep ==
  ASSUME ThreadsOK, Uncrossed, NEW u \in Threads, StartSession(u), ~crossed',
         Starting(u), Pid(u) \notin dead, UNCHANGED <<life, dead>>,
         lease' # NoLease, lease'.full, lease'.pid = Pid(u),
         lease' = lease \/ (lease # NoLease /\ ~lease.full /\ lease.by = u)
  PROVE  Uncrossed'
<1>1. Set(u) \in Monitors /\ Pid(u) = ProcessOf[Set(u)]
  BY DEF Threads, Set, Pid
<1>2. life[Set(u)] \in {"opening", "open"} /\ ~Releasing(u)
  <2>1. life[Set(u)] # "none"
    BY DEF Uncrossed, SetsInv, Starting
  <2> QED
    BY <1>1, <2>1 DEF StartSession, ThreadsOK, WatchTypeOK
<1>3. \A s \in Sessions : ~Watching(s)
  <2>1. ~WatchedBy(Pid(u))
    BY <1>2 DEF Uncrossed, StartsInv
  <2> QED
    BY <2>1 DEF Uncrossed, SessionsInv, WatchedBy
<1>4. PICK s \in Sessions :
        /\ sess' = [sess EXCEPT ![s] = [st |-> "run", of |-> Set(u)]]
        /\ held' = [held EXCEPT ![Set(u)] = [ctl |-> s, promise |-> s, owns |-> TRUE]]
  BY DEF StartSession, Unstarted
<1>5. /\ Watching(s)' /\ sess'[s].of = Set(u)
      /\ \A t \in Sessions : Watching(t)' => t = s
  BY <1>3, <1>4 DEF ThreadsOK, WatchTypeOK, Watching
<1>6. thr'[u] = Resting /\ \A w \in Threads \ {u} : thr'[w] = thr[w]
  BY DEF StartSession, Rest, To, ThreadsOK
<1>7. /\ held'[Set(u)] = [ctl |-> s, promise |-> s, owns |-> TRUE]
      /\ \A m \in Monitors \ {Set(u)} : held'[m] = held[m]
  BY <1>1, <1>4 DEF ThreadsOK
<1>8. SetsInv'
  BY <1>6 DEF Uncrossed, SetsInv, Opened, Resting, Set
<1>9. \A w \in Threads : Starting(w)' => w # u /\ Starting(w)
  BY <1>6 DEF Starting, Resting
<1>10. StartsInv'
  <2>1. \A w, x \in Threads : Starting(w)' /\ Starting(x)' /\ Pid(w) = Pid(x) => w = x
    BY <1>9 DEF Uncrossed, StartsInv
  <2>2. ASSUME NEW w \in Threads, Starting(w)' PROVE ~WatchedBy(Pid(w))'
    <3>1. Pid(w) # Pid(u)
      BY <1>9, <2>2 DEF Uncrossed, StartsInv
    <3> QED
      BY <1>1, <1>5, <3>1 DEF WatchedBy
  <2> QED
    BY <2>1, <2>2 DEF StartsInv, Pid
<1>11. FileInv'
  <2> SUFFICES ASSUME NEW w \in Threads PROVE
        /\ thr'[w].at # "write"
        /\ thr'[w].at = "clear" =>
             thr'[w].judged # NoLease /\ thr'[w].judged.full /\ thr'[w].judged.pid \in dead'
        /\ thr'[w].at = "giveBack" =>
             /\ thr'[w].judged # NoLease /\ thr'[w].judged.full
             /\ thr'[w].judged.pid \in dead' \cup {Pid(w)}
    BY DEF FileInv, Pid
  <2>1. CASE w = u
    BY <1>6, <2>1 DEF Resting
  <2>2. CASE w # u
    BY <1>6, <2>2 DEF Uncrossed, FileInv
  <2> QED
    BY <2>1, <2>2
<1>12. OwnsInv'
  <2> SUFFICES ASSUME NEW m \in Monitors PROVE
        /\ held'[m].owns /\ ProcessOf[m] \notin dead => Opened(m)'
        /\ life'[m] = "stopping" /\ GivingBack(<<m, "main">>)' => ~held'[m].owns
    BY DEF OwnsInv
  <2>1. CASE m = Set(u)
    BY <1>2, <2>1 DEF Opened
  <2>2. CASE m # Set(u)
    <3>1. <<m, "main">> \in Threads /\ <<m, "main">> # u
      BY <2>2 DEF Threads, Kinds, Set
    <3> QED
      BY <1>6, <1>7, <2>2, <3>1 DEF Uncrossed, OwnsInv, Opened, GivingBack
  <2> QED
    BY <2>1, <2>2
<1>13. SessionsInv'
  <2>1. \A w \in Threads : GivingBack(w)' => Pid(w) # Pid(u)
    BY <1>2, <1>6 DEF GivingBack, Resting, Releasing
  <2>2. Opened(Set(u))'
    BY <1>2 DEF Opened
  <2> SUFFICES ASSUME NEW t \in Sessions, Watching(t)', NEW m \in Monitors, m = sess'[t].of
               PROVE  /\ held'[m] = [ctl |-> t, promise |-> t, owns |-> TRUE]
                      /\ Opened(m)' /\ ProcessOf[m] \notin dead'
                      /\ lease' # NoLease /\ lease'.full /\ lease'.pid = ProcessOf[m]
                      /\ \A w \in Threads : GivingBack(w)' => Pid(w) # ProcessOf[m]
    <3>1. \A t \in Sessions : Watching(t)' => sess'[t].of \in Monitors
      BY <1>1, <1>5
    <3> QED
      BY <3>1 DEF SessionsInv, Pid
  <2>3. t = s /\ m = Set(u)
    BY <1>5
  <2> QED
    BY <1>1, <1>7, <2>1, <2>2, <2>3
<1> QED
  BY <1>8, <1>10, <1>11, <1>12, <1>13 DEF Uncrossed

\* A thread that only reads and goes on.
LEMMA GoStep ==
  ASSUME ThreadsOK, Uncrossed, NEW u \in Threads, NEW v \in ThreadStates, To(u, v),
         thr[u].at # "idle", UNCHANGED <<lease, life, held, dead>>,
         \A s \in Sessions : Watching(s)' => Watching(s) /\ sess'[s].of = sess[s].of,
         StartingAt(v) => Starting(u), LeaseFits(u, v), v.at \notin {"readBack", "giveBack"}
  PROVE  Uncrossed'
<1>1. life[Set(u)] # "none"
  BY DEF Uncrossed, SetsInv
<1>2. Quietly(u)
  BY DEF Quietly
<1> QED
  BY <1>1, <1>2, QuietStep

\* The steps of a reconciliation that start no session.
LEMMA LookStep ==
  ASSUME ThreadsOK, Uncrossed, NEW u \in Threads,
         \/ YieldToDaemon(u) \/ KeepLease(u) \/ StartIfNoDaemon(u) \/ StartIfNoOwner(u)
         \/ StartIfDesktop(u) \/ Abort(u)
  PROVE  Uncrossed'
<1> USE DEF On, Rest, Is
<1>s. thr[u] \in ThreadStates
  BY Places1
<1>1. held[Set(u)].promise \in Sessions \cup {NoSession}
  BY DEF ThreadsOK, Holdings, Threads, Set
<1>2. PICK v \in ThreadStates :
        /\ To(u, v)
        /\ \/ v = Resting
           \/ \E to \in {"abort", "keep", "leased", "desktop", "claim"} :
                /\ v = [thr[u] EXCEPT !.at = to]
                /\ to \in {"leased", "desktop", "claim"} => Starting(u)
           \/ \E x \in {"idle", "desktop"} :
                /\ OwnerDead /\ v = [thr[u] EXCEPT !.at = "clear", !.then = x, !.judged = lease]
                /\ x = "desktop" => Starting(u)
           \/ v = [thr[u] EXCEPT !.at = "await", !.saw = held[Set(u)].promise]
  <2>1. CASE YieldToDaemon(u)
    BY Places1, <2>1 DEF YieldToDaemon, Places
  <2>2. CASE KeepLease(u)
    BY Places1, <2>2 DEF KeepLease, Places
  <2>3. CASE StartIfNoDaemon(u)
    BY Places1, <2>3 DEF StartIfNoDaemon, Starting, Places
  <2>4. CASE StartIfNoOwner(u)
    BY Places1, <2>4 DEF StartIfNoOwner, Starting, Places
  <2>5. CASE StartIfDesktop(u)
    BY Places1, <2>5 DEF StartIfDesktop, Starting, Places
  <2>6. CASE Abort(u)
    BY Places1, <1>1, <2>6 DEF Abort
  <2> QED
    BY <2>1, <2>2, <2>3, <2>4, <2>5, <2>6
<1>3. thr[u].at # "idle" /\ UNCHANGED <<lease, life, held, dead>>
  BY DEF YieldToDaemon, KeepLease, StartIfNoDaemon, StartIfNoOwner, StartIfDesktop, Abort
<1>4. \A s \in Sessions : Watching(s)' => Watching(s) /\ sess'[s].of = sess[s].of
  <2>1. CASE Abort(u)
    BY <2>1 DEF Abort, Watching, ThreadsOK, WatchTypeOK
  <2>2. CASE ~Abort(u)
    BY <2>2 DEF YieldToDaemon, KeepLease, StartIfNoDaemon, StartIfNoOwner, StartIfDesktop, Watching
  <2> QED
    BY <2>1, <2>2
<1>5. /\ StartingAt(v) => Starting(u)
      /\ LeaseFits(u, v) /\ v.at \notin {"readBack", "giveBack"}
  <2>1. CASE v = Resting
    BY <2>1 DEF Resting, StartingAt, LeaseFits
  <2>2. CASE \E to \in {"abort", "keep", "leased", "desktop", "claim"} :
               /\ v = [thr[u] EXCEPT !.at = to]
               /\ to \in {"leased", "desktop", "claim"} => Starting(u)
    <3>1. PICK to \in {"abort", "keep", "leased", "desktop", "claim"} :
            /\ v = [thr[u] EXCEPT !.at = to]
            /\ to \in {"leased", "desktop", "claim"} => Starting(u)
      BY <2>2
    <3>2. v.at = to
      BY <1>s, <3>1 DEF ThreadStates
    <3> QED
      BY <3>1, <3>2 DEF StartingAt, LeaseFits
  <2>3. CASE \E x \in {"idle", "desktop"} :
               /\ OwnerDead /\ v = [thr[u] EXCEPT !.at = "clear", !.then = x, !.judged = lease]
               /\ x = "desktop" => Starting(u)
    <3>1. PICK x \in {"idle", "desktop"} :
            /\ OwnerDead /\ v = [thr[u] EXCEPT !.at = "clear", !.then = x, !.judged = lease]
            /\ x = "desktop" => Starting(u)
      BY <2>3
    <3>2. v.at = "clear" /\ v.judged = lease /\ v.then = x
      BY <1>s, <3>1 DEF ThreadStates
    <3> QED
      BY <3>1, <3>2 DEF StartingAt, LeaseFits, OwnerDead, Readable
  <2>4. CASE v = [thr[u] EXCEPT !.at = "await", !.saw = held[Set(u)].promise]
    <3>1. v.at = "await"
      BY <1>s, <2>4 DEF ThreadStates
    <3> QED
      BY <3>1 DEF StartingAt, LeaseFits
  <2> QED
    BY <1>2, <2>1, <2>2, <2>3, <2>4
<1> QED
  BY <1>2, <1>3, <1>4, <1>5, GoStep

\* A reconciliation reads auto_switch and whether its set waits for a session.
LEMMA ReadAutoStep ==
  ASSUME ThreadsOK, Uncrossed, NEW u \in Threads, ReadAuto(u), ~crossed'
  PROVE  Uncrossed'
<1>1. PICK v \in ThreadStates :
        /\ To(u, v)
        /\ v.at = IF held[Set(u)].promise = NoSession THEN "detached" ELSE "yield"
  <2> DEFINE to == IF held[Set(u)].promise = NoSession THEN "detached" ELSE "yield"
  <2>1. AutoSwitch \in BOOLEAN /\ to \in Places
    BY DEF AutoSwitch, Places
  <2>2. [Resting EXCEPT !.auto = AutoSwitch, !.at = to] \in ThreadStates
    BY <2>1, Places1
  <2>3. PICK v \in ThreadStates : v = [Resting EXCEPT !.auto = AutoSwitch, !.at = to]
    BY <2>2
  <2>4. To(u, v)
    BY <2>3 DEF ReadAuto
  <2> QED
    BY <2>3, <2>4 DEF Resting
<1>2. /\ thr[u].at = "auto" /\ Pid(u) \notin dead
      /\ UNCHANGED <<lease, life, held, sess, dead>>
  BY DEF ReadAuto, Is
<1>3. \A s \in Sessions : Watching(s)' <=> Watching(s)
  BY <1>2 DEF Watching
<1>4. CASE held[Set(u)].promise # NoSession
  <2>1. ~StartingAt(v) /\ LeaseFits(u, v) /\ v.at \notin {"readBack", "giveBack"}
    BY <1>1, <1>4 DEF StartingAt, LeaseFits
  <2> QED
    BY <1>1, <1>2, <1>3, <2>1, GoStep
<1>5. CASE held[Set(u)].promise = NoSession
  <2>1. ~StartingTwice(u)
    BY <1>5 DEF ReadAuto
  <2>2. v.at = "detached" /\ thr'[u] = v /\ \A w \in Threads \ {u} : thr'[w] = thr[w]
    BY <1>1, <1>5 DEF To, ThreadsOK
  <2>3. \A w \in Threads : Starting(w)' => Starting(w) \/ w = u
    BY <2>2 DEF Starting
  <2>4. Set(u) \in Monitors
    BY DEF Threads, Set
  <2>5. StartsInv'
    <3>1. \A w, x \in Threads : Starting(w)' /\ Starting(x)' /\ Pid(w) = Pid(x) => w = x
      BY <2>1, <2>3 DEF Uncrossed, StartsInv, StartingTwice
    <3>2. ASSUME NEW w \in Threads, Starting(w)', life'[Set(w)] \in {"opening", "open"}
          PROVE  ~WatchedBy(Pid(w))'
      <4>1. CASE w # u
        BY <1>2, <1>3, <2>3, <3>2, <4>1 DEF Uncrossed, StartsInv, WatchedBy
      <4>2. CASE w = u
        <5> SUFFICES ASSUME NEW s \in Sessions, Watching(s), ProcessOf[sess[s].of] = Pid(u)
                     PROVE  FALSE
          BY <1>2, <1>3, <4>2 DEF WatchedBy
        <5>1. PICK m \in Monitors : m = sess[s].of
          BY DEF ThreadsOK, WatchTypeOK
        <5>2. held[m] = [ctl |-> s, promise |-> s, owns |-> TRUE] /\ Opened(m)
          BY <5>1 DEF Uncrossed, SessionsInv
        <5>3. Opened(Set(u)) /\ ProcessOf[Set(u)] = ProcessOf[m]
          BY <1>2, <3>2, <4>2, <5>1 DEF Opened, Pid, Set
        <5>4. m = Set(u)
          BY <2>4, <5>2, <5>3 DEF Uncrossed, SetsInv
        <5> QED
          BY <1>5, <5>2, <5>4, WatchLeaseAssumption
      <4> QED
        BY <4>1, <4>2
    <3> QED
      BY <3>1, <3>2 DEF StartsInv, Pid
  <2>6. SetsInv'
    BY <1>2, <2>2 DEF Uncrossed, SetsInv, Opened, Set
  <2>7. FileInv'
    BY <1>2, <2>2 DEF Uncrossed, FileInv, Pid
  <2>8. OwnsInv'
    BY <1>2, <2>2 DEF Uncrossed, OwnsInv, Opened, GivingBack, Threads, Kinds
  <2>9. SessionsInv'
    BY <1>2, <1>3, <2>2 DEF Uncrossed, SessionsInv, Opened, GivingBack, Pid
  <2> QED
    BY <2>5, <2>6, <2>7, <2>8, <2>9 DEF Uncrossed
<1> QED
  BY <1>4, <1>5

\* A removal of a lease of nobody that watches.
LEMMA RemoveStep ==
  ASSUME ThreadsOK, Uncrossed, NEW u \in Threads, lease' = NoLease,
         lease \in {thr[u].judged, NoLease},
         thr[u].judged # NoLease, thr[u].judged.full,
         \A s \in Sessions : Watching(s) => ProcessOf[sess[s].of] # thr[u].judged.pid
  PROVE  lease' = lease \/ /\ \A s \in Sessions : ~Watching(s)
                           /\ \A w \in Threads \ {u} : thr[w].at # "write"
<1> SUFFICES ASSUME lease = thr[u].judged
             PROVE  /\ \A s \in Sessions : ~Watching(s)
                    /\ \A w \in Threads \ {u} : thr[w].at # "write"
  OBVIOUS
<1>1. \A s \in Sessions : ~Watching(s)
  BY DEF Uncrossed, SessionsInv
<1>2. \A w \in Threads : thr[w].at # "write"
  BY DEF Uncrossed, FileInv
<1> QED
  BY <1>1, <1>2

LEMMA ClearDeadStep ==
  ASSUME ThreadsOK, Uncrossed, NEW u \in Threads, ClearDead(u), ~crossed'
  PROVE  Uncrossed'
<1>1. /\ thr[u].at = "clear" /\ lease' = NoLease /\ lease \in {thr[u].judged, NoLease}
      /\ UNCHANGED <<life, held, sess, dead>>
  BY DEF ClearDead, Is
<1>2. thr[u] \in ThreadStates /\ life[Set(u)] # "none"
  BY <1>1, Places1 DEF Uncrossed, SetsInv
<1>3. thr[u].judged # NoLease /\ thr[u].judged.full /\ thr[u].judged.pid \in dead
  BY <1>1 DEF Uncrossed, FileInv
<1>4. \A s \in Sessions : Watching(s) => ProcessOf[sess[s].of] # thr[u].judged.pid
  BY <1>3 DEF Uncrossed, SessionsInv
<1>5. lease' = lease \/ /\ \A s \in Sessions : ~Watching(s)
                        /\ \A w \in Threads \ {u} : thr[w].at # "write"
  BY <1>1, <1>3, <1>4, RemoveStep
<1>6. Quietly(u)
  BY <1>1, <1>5 DEF Quietly, Watching
<1>7. CASE thr[u].then = "idle"
  <2>1. To(u, Resting) /\ Resting \in ThreadStates
    BY <1>7, Places1 DEF ClearDead, Rest
  <2>2. ~StartingAt(Resting) /\ LeaseFits(u, Resting) /\ Resting.at = "idle"
    BY DEF Resting, StartingAt, LeaseFits
  <2> QED
    BY <1>2, <1>6, <2>1, <2>2, QuietStep
<1>8. CASE thr[u].then # "idle"
  <2>1. thr[u].then \in {"desktop", "create"}
    BY <1>2, <1>8 DEF ThreadStates
  <2>2. PICK v \in ThreadStates : v = [thr[u] EXCEPT !.at = thr[u].then]
    BY <2>1, Places1 DEF Places
  <2>3. To(u, v) /\ v.at = thr[u].then
    BY <1>2, <1>8, <2>2 DEF ClearDead, On, ThreadStates
  <2>4. Starting(u) /\ LeaseFits(u, v) /\ v.at \notin {"readBack", "giveBack"}
    BY <1>1, <2>1, <2>3 DEF Starting, LeaseFits
  <2> QED
    BY <1>2, <1>6, <2>3, <2>4, QuietStep
<1> QED
  BY <1>7, <1>8

LEMMA ClaimStep ==
  ASSUME ThreadsOK, Uncrossed, NEW u \in Threads, Claim(u), ~crossed'
  PROVE  Uncrossed'
<1>1. /\ thr[u].at = "claim" /\ Pid(u) \notin dead
      /\ UNCHANGED <<lease, life, dead>> /\ thr[u] \in ThreadStates
  BY Places1 DEF Claim, Is
<1>2. Starting(u)
  BY <1>1 DEF Starting
<1>3. CASE Own(u)
  BY <1>1, <1>2, <1>3, StartStep DEF Claim, Own
<1>4. CASE ~Own(u)
  <2>1. UNCHANGED <<held, sess>>
    BY <1>4 DEF Claim
  <2>2. PICK v \in ThreadStates :
          /\ To(u, v)
          /\ \/ v = Resting \/ v = [thr[u] EXCEPT !.at = "create"]
             \/ OwnerDead /\ v = [thr[u] EXCEPT !.at = "clear", !.then = "create", !.judged = lease]
    BY <1>4, Places1 DEF Claim, Rest, On, Places
  <2>3. LeaseFits(u, v) /\ v.at \notin {"readBack", "giveBack"}
    <3>1. CASE v = Resting
      BY <3>1 DEF Resting, LeaseFits
    <3>2. CASE v = [thr[u] EXCEPT !.at = "create"]
      <4>1. v.at = "create"
        BY <1>1, <3>2 DEF ThreadStates
      <4> QED
        BY <4>1 DEF LeaseFits
    <3>3. CASE OwnerDead /\ v = [thr[u] EXCEPT !.at = "clear", !.then = "create", !.judged = lease]
      <4>1. v.at = "clear" /\ v.judged = lease
        BY <1>1, <3>3 DEF ThreadStates
      <4> QED
        BY <3>3, <4>1 DEF LeaseFits, OwnerDead, Readable
    <3> QED
      BY <2>2, <3>1, <3>2, <3>3
  <2>4. \A s \in Sessions : Watching(s)' => Watching(s) /\ sess'[s].of = sess[s].of
    BY <2>1 DEF Watching
  <2> QED
    BY <1>1, <1>2, <2>1, <2>2, <2>3, <2>4, GoStep
<1> QED
  BY <1>3, <1>4

LEMMA CreateStep ==
  ASSUME ThreadsOK, Uncrossed, NEW u \in Threads, Create(u)
  PROVE  Uncrossed'
<1>1. /\ thr[u].at = "create" /\ UNCHANGED <<life, held, sess, dead>> /\ thr[u] \in ThreadStates
  BY Places1 DEF Create, Is
<1>2. Starting(u) /\ life[Set(u)] # "none"
  BY <1>1 DEF Starting, Uncrossed, SetsInv
<1>3. \A s \in Sessions : Watching(s)' => Watching(s) /\ sess'[s].of = sess[s].of
  BY <1>1 DEF Watching
<1>4. CASE lease = NoLease
  <2>1. lease' = [pid |-> Pid(u), full |-> FALSE, auto |-> thr[u].auto, by |-> u]
    BY <1>4 DEF Create
  <2>2. PICK v \in ThreadStates : v = [thr[u] EXCEPT !.at = "write"]
    BY Places1 DEF Places
  <2>3. To(u, v) /\ v.at = "write"
    BY <1>1, <1>4, <2>2 DEF Create, On, ThreadStates
  <2>4. lease' \in Leases
    <3>1. Pid(u) \in Tui /\ thr[u].auto \in BOOLEAN
      BY <1>1, WatchLeaseAssumption DEF Threads, Pid, ThreadStates
    <3> QED
      BY <2>1, <3>1 DEF Leases
  <2>5. lease' # NoLease /\ lease'.by = u /\ lease'.pid = Pid(u) /\ ~lease'.full
    BY <2>1, <2>4, WatchLeaseAssumption DEF Leases
  <2>6. /\ \A s \in Sessions : ~Watching(s)
        /\ \A w \in Threads \ {u} : thr[w].at # "write"
    BY <1>4 DEF Uncrossed, SessionsInv, FileInv
  <2>7. Quietly(u)
    BY <1>1, <1>3, <2>6 DEF Quietly
  <2>8. LeaseFits(u, v)
    BY <2>3, <2>5 DEF LeaseFits
  <2> QED
    BY <1>2, <2>3, <2>7, <2>8, QuietStep
<1>5. CASE lease # NoLease
  <2>1. PICK v \in ThreadStates : v = [thr[u] EXCEPT !.at = "reread"]
    BY Places1 DEF Places
  <2>2. To(u, v) /\ v.at = "reread" /\ lease' = lease
    BY <1>1, <1>5, <2>1 DEF Create, On, ThreadStates
  <2>3. LeaseFits(u, v)
    BY <2>2 DEF LeaseFits
  <2> QED
    BY <1>1, <1>2, <1>3, <2>2, <2>3, GoStep
<1> QED
  BY <1>4, <1>5

LEMMA WriteStep ==
  ASSUME ThreadsOK, Uncrossed, NEW u \in Threads, Write(u), ~crossed'
  PROVE  Uncrossed'
<1>1. thr[u].at = "write" /\ Pid(u) \notin dead /\ UNCHANGED <<life, dead>> /\ StartSession(u)
  BY DEF Write, Is
<1>2. lease # NoLease /\ lease.by = u /\ lease.pid = Pid(u) /\ ~lease.full /\ lease \in Leases
  BY <1>1 DEF Uncrossed, FileInv, ThreadsOK, WatchTypeOK, Leases
<1>3. lease' = [lease EXCEPT !.full = TRUE]
  BY <1>2 DEF Write
<1>4. lease' \in Leases /\ lease'.full /\ lease'.pid = Pid(u)
  BY <1>2, <1>3 DEF Leases
<1>5. lease' # NoLease
  BY <1>4, WatchLeaseAssumption DEF Leases
<1>6. Starting(u)
  BY <1>1 DEF Starting
<1> QED
  BY <1>1, <1>2, <1>4, <1>5, <1>6, StartStep

LEMMA RereadStep ==
  ASSUME ThreadsOK, Uncrossed, NEW u \in Threads, Reread(u), ~crossed'
  PROVE  Uncrossed'
<1>1. /\ thr[u].at = "reread" /\ Pid(u) \notin dead
      /\ UNCHANGED <<lease, life, dead>> /\ thr[u] \in ThreadStates
  BY Places1 DEF Reread, Is
<1>2. Starting(u)
  BY <1>1 DEF Starting
<1>3. CASE Own(u)
  BY <1>1, <1>2, <1>3, StartStep DEF Reread, Own
<1>4. CASE ~Own(u)
  <2>1. UNCHANGED <<held, sess>>
    BY <1>4 DEF Reread
  <2>2. PICK v \in ThreadStates :
          /\ To(u, v)
          /\ \/ v = Resting
             \/ OwnerDead /\ v = [thr[u] EXCEPT !.at = "clear", !.then = "idle", !.judged = lease]
    BY <1>4, Places1 DEF Reread, Rest
  <2>3. LeaseFits(u, v) /\ v.at \notin {"readBack", "giveBack"}
    <3>1. CASE v = Resting
      BY <3>1 DEF Resting, LeaseFits
    <3>2. CASE OwnerDead /\ v = [thr[u] EXCEPT !.at = "clear", !.then = "idle", !.judged = lease]
      <4>1. v.at = "clear" /\ v.judged = lease
        BY <1>1, <3>2 DEF ThreadStates
      <4> QED
        BY <3>2, <4>1 DEF LeaseFits, OwnerDead, Readable
    <3> QED
      BY <2>2, <3>1, <3>2
  <2>4. \A s \in Sessions : Watching(s)' => Watching(s) /\ sess'[s].of = sess[s].of
    BY <2>1 DEF Watching
  <2> QED
    BY <1>1, <1>2, <2>1, <2>2, <2>3, <2>4, GoStep
<1> QED
  BY <1>3, <1>4

\* A thread stops waiting for a session.
LEMMA AwaitedStep ==
  ASSUME ThreadsOK, Uncrossed, NEW u \in Threads, Awaited(u), ~crossed'
  PROVE  Uncrossed'
<1>1. /\ thr[u].at = "await" /\ Pid(u) \notin dead /\ UNCHANGED <<lease, sess, dead>>
      /\ thr[u].saw # NoSession => sess[thr[u].saw].st = "ended"
      /\ held[Set(u)].promise \in {thr[u].saw, NoSession}
      /\ held' = [held EXCEPT ![Set(u)] = Nothing]
  BY DEF Awaited, Is
<1>2. /\ Set(u) \in Monitors /\ life[Set(u)] # "none" /\ thr[u] \in ThreadStates
      /\ Pid(u) = ProcessOf[Set(u)]
  BY <1>1, Places1 DEF Uncrossed, SetsInv, Threads, Set, Pid
<1>3. \A s \in Sessions : Watching(s)' <=> Watching(s)
  BY <1>1 DEF Watching
<1>4. /\ held'[Set(u)] = Nothing
      /\ \A m \in Monitors \ {Set(u)} : held'[m] = held[m]
  BY <1>1, <1>2 DEF ThreadsOK
<1>5. \A s \in Sessions : Watching(s) => sess[s].of # Set(u)
  <2> SUFFICES ASSUME NEW s \in Sessions, Watching(s), sess[s].of = Set(u) PROVE FALSE
    OBVIOUS
  <2>1. held[Set(u)] = [ctl |-> s, promise |-> s, owns |-> TRUE]
    BY <1>2 DEF Uncrossed, SessionsInv
  <2>2. s # NoSession /\ thr[u].saw = s
    BY <1>1, <2>1, WatchLeaseAssumption
  <2> QED
    BY <1>1, <2>2 DEF Watching
<1>6. \A m \in Monitors :
        \/ life'[m] = life[m]
        \/ m = Set(u) /\ life[m] = "stopping" /\ life'[m] = "closed"
  BY <1>2 DEF Awaited, ThreadsOK, WatchTypeOK
<1>7. Quietly(u)
  <2>1. \A m \in Monitors :
          \/ life'[m] = life[m]
          \/ /\ life[m] = "stopping" /\ life'[m] = "closed" /\ ~held'[m].owns
             /\ \A s \in Sessions : Watching(s)' => sess[s].of # m
    BY <1>3, <1>4, <1>5, <1>6 DEF Nothing
  <2>2. \A m \in Monitors :
          held'[m] = held[m] \/ (held'[m] = Nothing /\ \A s \in Sessions : Watching(s)' => sess[s].of # m)
    BY <1>3, <1>4, <1>5
  <2> QED
    BY <1>1, <1>3, <2>1, <2>2 DEF Quietly
<1>8. CASE held[Set(u)].owns
  <2>1. PICK v \in ThreadStates : v = [thr[u] EXCEPT !.at = "readBack"]
    BY Places1 DEF Places
  <2>2. To(u, v) /\ v.at = "readBack"
    BY <1>2, <1>8, <2>1 DEF Awaited, On, ThreadStates
  <2>3. Opened(Set(u))
    BY <1>1, <1>2, <1>8 DEF Uncrossed, OwnsInv
  <2>4. ASSUME NEW s \in Sessions, Watching(s), ProcessOf[sess[s].of] = Pid(u) PROVE FALSE
    <3>1. PICK m \in Monitors : m = sess[s].of
      BY DEF ThreadsOK, WatchTypeOK
    <3>2. Opened(m)
      BY <2>4, <3>1 DEF Uncrossed, SessionsInv
    <3>3. m = Set(u)
      BY <1>2, <2>3, <2>4, <3>1, <3>2 DEF Uncrossed, SetsInv
    <3> QED
      BY <1>5, <2>4, <3>1, <3>3
  <2>5. ~held'[Set(u)].owns /\ ~StartingAt(v) /\ LeaseFits(u, v)
    BY <1>4, <2>2 DEF Nothing, StartingAt, LeaseFits
  <2> QED
    BY <1>2, <1>3, <1>7, <2>2, <2>4, <2>5, QuietStep
<1>9. CASE ~held[Set(u)].owns
  <2>1. To(u, Resting) /\ Resting \in ThreadStates
    BY <1>9, Places1 DEF Awaited, Rest
  <2>2. ~StartingAt(Resting) /\ LeaseFits(u, Resting) /\ Resting.at = "idle"
    BY DEF Resting, StartingAt, LeaseFits
  <2> QED
    BY <1>2, <1>7, <2>1, <2>2, QuietStep
<1> QED
  BY <1>8, <1>9

\* A thread has given the lease back.
LEMMA ReleasedStep ==
  ASSUME ThreadsOK, Uncrossed, NEW u \in Threads, Released(u), GivingBack(u), UNCHANGED <<held, dead>>,
         lease' = lease \/ /\ \A s \in Sessions : ~Watching(s)
                           /\ \A w \in Threads \ {u} : thr[w].at # "write"
  PROVE  Uncrossed'
<1>1. /\ Set(u) \in Monitors /\ life[Set(u)] # "none" /\ Pid(u) = ProcessOf[Set(u)]
      /\ u[2] = "main" => u = <<Set(u), "main">>
  BY DEF Uncrossed, SetsInv, Threads, Set, Pid, GivingBack
<1>2. \A s \in Sessions : Watching(s) => ProcessOf[sess[s].of] # Pid(u)
  BY DEF Uncrossed, SessionsInv
<1>3. \A s \in Sessions : Watching(s)' => Watching(s) /\ sess'[s].of = sess[s].of
  BY DEF Released, Watching, ThreadsOK, WatchTypeOK
<1>4. \A m \in Monitors :
        \/ life'[m] = life[m]
        \/ m = Set(u) /\ u[2] = "main" /\ life[m] = "stopping" /\ life'[m] = "closed"
  BY <1>1 DEF Released, ThreadsOK, WatchTypeOK
<1>5. u[2] = "main" /\ life[Set(u)] = "stopping" => ~held[Set(u)].owns
  BY <1>1 DEF Uncrossed, OwnsInv
<1>6. Quietly(u)
  <2>1. \A m \in Monitors :
          \/ life'[m] = life[m]
          \/ /\ life[m] = "stopping" /\ life'[m] = "closed" /\ ~held'[m].owns
             /\ \A s \in Sessions : Watching(s)' => sess[s].of # m
    BY <1>1, <1>2, <1>3, <1>4, <1>5
  <2> QED
    BY <1>3, <2>1 DEF Quietly
<1>7. To(u, Resting) /\ Resting \in ThreadStates
  BY Places1 DEF Released, Rest
<1>8. ~StartingAt(Resting) /\ LeaseFits(u, Resting) /\ Resting.at = "idle"
  BY DEF Resting, StartingAt, LeaseFits
<1> QED
  BY <1>1, <1>6, <1>7, <1>8, QuietStep

LEMMA ReadBackStep ==
  ASSUME ThreadsOK, Uncrossed, NEW u \in Threads, ReadBack(u)
  PROVE  Uncrossed'
<1>1. GivingBack(u) /\ UNCHANGED <<lease, held, dead>> /\ thr[u] \in ThreadStates
  BY Places1 DEF ReadBack, Is, GivingBack
<1>2. CASE Released(u)
  BY <1>1, <1>2, ReleasedStep
<1>3. CASE ~Released(u)
  <2>1. UNCHANGED <<life, sess>> /\ (Own(u) \/ OwnerDead)
    BY <1>3 DEF ReadBack
  <2>2. PICK v \in ThreadStates : v = [thr[u] EXCEPT !.at = "giveBack", !.judged = lease]
    BY Places1
  <2>3. To(u, v) /\ v.at = "giveBack" /\ v.judged = lease
    BY <1>1, <1>3, <2>2 DEF ReadBack, ThreadStates
  <2>4. \A s \in Sessions : Watching(s)' <=> Watching(s)
    BY <2>1 DEF Watching
  <2>5. Quietly(u)
    BY <1>1, <2>1, <2>4 DEF Quietly
  <2>6. ~StartingAt(v) /\ LeaseFits(u, v)
    BY <2>1, <2>3 DEF StartingAt, LeaseFits, Own, OwnerDead, Readable
  <2>7. \A s \in Sessions : Watching(s)' => ProcessOf[sess[s].of] # Pid(u)
    BY <1>1, <2>4 DEF Uncrossed, SessionsInv
  <2>8. u = <<Set(u), "main">> /\ life[Set(u)] = "stopping" => ~held'[Set(u)].owns
    BY <1>1 DEF Uncrossed, OwnsInv, Threads, Set
  <2>9. life[Set(u)] # "none"
    BY <1>1 DEF Uncrossed, SetsInv, GivingBack
  <2> QED
    BY <2>3, <2>5, <2>6, <2>7, <2>8, <2>9, QuietStep
<1> QED
  BY <1>2, <1>3

LEMMA GiveBackStep ==
  ASSUME ThreadsOK, Uncrossed, NEW u \in Threads, GiveBack(u), ~crossed'
  PROVE  Uncrossed'
<1>1. /\ thr[u].at = "giveBack" /\ GivingBack(u) /\ lease' = NoLease
      /\ lease \in {thr[u].judged, NoLease}
      /\ Released(u) /\ UNCHANGED <<held, dead>>
  BY DEF GiveBack, Is, GivingBack
<1>2. /\ thr[u].judged # NoLease /\ thr[u].judged.full
      /\ thr[u].judged.pid \in dead \cup {Pid(u)}
  BY <1>1 DEF Uncrossed, FileInv
<1>3. \A s \in Sessions : Watching(s) => ProcessOf[sess[s].of] # thr[u].judged.pid
  BY <1>1, <1>2 DEF Uncrossed, SessionsInv
<1>4. lease' = lease \/ /\ \A s \in Sessions : ~Watching(s)
                        /\ \A w \in Threads \ {u} : thr[w].at # "write"
  BY <1>1, <1>2, <1>3, RemoveStep
<1> QED
  BY <1>1, <1>4, ReleasedStep

\* A session ends: its set owns the lease, and a thread of the set gives it back.
LEMMA EndStep ==
  ASSUME ThreadsOK, Uncrossed, NEW s \in Sessions, SessionEnds(s)
  PROVE  Uncrossed'
<1>1. PICK m \in Monitors : m = sess[s].of
  BY DEF ThreadsOK, WatchTypeOK
<1>2. PICK u \in Threads : u = <<m, "end">>
  BY DEF Threads, Kinds
<1>3. /\ Watching(s) /\ UNCHANGED <<lease, life, dead>> /\ held' = [held EXCEPT ![m] = Nothing]
  BY <1>1 DEF SessionEnds, Watching
<1>4. held[m] = [ctl |-> s, promise |-> s, owns |-> TRUE] /\ Opened(m)
  BY <1>1, <1>3 DEF Uncrossed, SessionsInv
<1>5. sess' = [sess EXCEPT ![s].st = "closing"]
  BY <1>1, <1>4 DEF SessionEnds
<1>6. To(u, [Resting EXCEPT !.at = "readBack", !.saw = s])
  BY <1>1, <1>2, <1>4 DEF SessionEnds
<1>7. PICK v \in ThreadStates : v = [Resting EXCEPT !.at = "readBack", !.saw = s]
  BY Places1
<1>8. To(u, v) /\ v.at = "readBack"
  BY <1>6, <1>7 DEF Resting
<1>9. \A t \in Sessions : Watching(t)' => Watching(t) /\ sess'[t].of = sess[t].of /\ t # s
  BY <1>5 DEF Watching, ThreadsOK, WatchTypeOK
<1>10. Set(u) = m /\ Pid(u) = ProcessOf[m] /\ u # <<Set(u), "main">>
  BY <1>2 DEF Set, Pid
<1>11. ASSUME NEW t \in Sessions, Watching(t)', ProcessOf[sess[t].of] = ProcessOf[m] PROVE FALSE
  <2>1. PICK n \in Monitors : n = sess[t].of
    BY DEF ThreadsOK, WatchTypeOK
  <2>a. Watching(t) /\ t # s
    BY <1>9, <1>11
  <2>2. held[n] = [ctl |-> t, promise |-> t, owns |-> TRUE] /\ Opened(n)
    BY <2>1, <2>a DEF Uncrossed, SessionsInv
  <2>3. n = m
    BY <1>4, <1>11, <2>1, <2>2 DEF Uncrossed, SetsInv
  <2> QED
    BY <1>4, <2>a, <2>2, <2>3
<1>12. Quietly(u)
  <2>1. \A n \in Monitors :
          held'[n] = held[n] \/ (held'[n] = Nothing /\ \A t \in Sessions : Watching(t)' => sess[t].of # n)
    BY <1>3, <1>11 DEF ThreadsOK
  <2> QED
    BY <1>3, <1>9, <2>1 DEF Quietly
<1>13. life[Set(u)] # "none" /\ ~StartingAt(v) /\ LeaseFits(u, v)
  BY <1>4, <1>8, <1>10 DEF Opened, StartingAt, LeaseFits
<1> QED
  BY <1>8, <1>10, <1>11, <1>12, <1>13, QuietStep

\* A reconciliation of a set that is shown, and the stop of a set: the set stays opened,
\* and a thread of it that rests goes where no session starts.
LEMMA ShownStep ==
  ASSUME ThreadsOK, Uncrossed, NEW u \in Threads, NEW v \in ThreadStates, To(u, v),
         UNCHANGED <<lease, held, sess, dead>>, Opened(Set(u)), life[Set(u)] # "stopping",
         \/ v.at = "auto" /\ life'[Set(u)] = "open"
         \/ v.at = "abort" /\ life'[Set(u)] = "stopping" /\ u = <<Set(u), "main">>,
         \A m \in Monitors : m # Set(u) => life'[m] = life[m]
  PROVE  Uncrossed'
<1>1. thr'[u] = v /\ \A w \in Threads \ {u} : thr'[w] = thr[w]
  <2>1. thr \in [Threads -> ThreadStates] /\ thr' = [thr EXCEPT ![u] = v]
    BY DEF ThreadsOK, To
  <2> QED
    BY <2>1
<1>2. Set(u) \in Monitors /\ life'[Set(u)] \in {"open", "stopping"}
  BY DEF Threads, Set
<1>3. \A m \in Monitors : Opened(m)' <=> Opened(m)
  BY <1>2 DEF Opened
<1>4. \A s \in Sessions : Watching(s)' <=> Watching(s)
  BY DEF Watching
<1>5. SetsInv'
  <2>1. \A m, n \in Monitors : Opened(m)' /\ Opened(n)' /\ ProcessOf[m] = ProcessOf[n] => m = n
    BY <1>3 DEF Uncrossed, SetsInv
  <2>2. ASSUME NEW w \in Threads, life'[Set(w)] = "none" PROVE thr'[w].at = "idle"
    <3>1. Set(w) \in Monitors /\ Set(w) # Set(u)
      BY <1>2, <2>2 DEF Threads, Set
    <3>2. life[Set(w)] = "none" /\ w # u
      BY <2>2, <3>1
    <3> QED
      BY <1>1, <3>2 DEF Uncrossed, SetsInv
  <2> QED
    BY <2>1, <2>2 DEF SetsInv
<1>6. \A w \in Threads : Starting(w)' => w # u /\ Starting(w)
  BY <1>1 DEF Starting
<1>7. StartsInv'
  <2>1. \A w, x \in Threads : Starting(w)' /\ Starting(x)' /\ Pid(w) = Pid(x) => w = x
    BY <1>6 DEF Uncrossed, StartsInv
  <2>2. ASSUME NEW w \in Threads, Starting(w)', life'[Set(w)] \in {"opening", "open"}
        PROVE  ~WatchedBy(Pid(w))'
    <3>1. Set(w) \in Monitors
      BY DEF Threads, Set
    <3>2. life[Set(w)] \in {"opening", "open"}
      BY <2>2, <3>1 DEF Opened
    <3>3. ~WatchedBy(Pid(w))
      BY <1>6, <2>2, <3>2 DEF Uncrossed, StartsInv
    <3> QED
      BY <1>4, <3>3 DEF WatchedBy
  <2> QED
    BY <2>1, <2>2 DEF StartsInv, Pid
<1>8. FileInv'
  BY <1>1 DEF Uncrossed, FileInv, Pid
<1>9. OwnsInv'
  <2>1. \A m \in Monitors : held'[m].owns /\ ProcessOf[m] \notin dead' => Opened(m)'
    BY <1>3 DEF Uncrossed, OwnsInv
  <2>2. ASSUME NEW m \in Monitors, life'[m] = "stopping", GivingBack(<<m, "main">>)'
        PROVE  ~held'[m].owns
    <3>1. <<m, "main">> \in Threads
      BY DEF Threads, Kinds
    <3>2. <<m, "main">> # u
      BY <1>1, <2>2 DEF GivingBack
    <3>3. m # Set(u)
      BY <2>2, <3>2
    <3> QED
      BY <1>1, <2>2, <3>1, <3>2, <3>3 DEF Uncrossed, OwnsInv, GivingBack
  <2> QED
    BY <2>1, <2>2 DEF OwnsInv
<1>10. SessionsInv'
  <2> SUFFICES ASSUME NEW s \in Sessions, Watching(s)', NEW m \in Monitors, m = sess'[s].of
               PROVE  /\ held'[m] = [ctl |-> s, promise |-> s, owns |-> TRUE]
                      /\ Opened(m)' /\ ProcessOf[m] \notin dead'
                      /\ lease' # NoLease /\ lease'.full /\ lease'.pid = ProcessOf[m]
                      /\ \A w \in Threads : GivingBack(w)' => Pid(w) # ProcessOf[m]
    <3>1. \A s \in Sessions : sess'[s].of \in Monitors
      BY DEF ThreadsOK, WatchTypeOK
    <3> QED
      BY <3>1 DEF SessionsInv, Pid
  <2>1. /\ held[m] = [ctl |-> s, promise |-> s, owns |-> TRUE]
        /\ Opened(m) /\ ProcessOf[m] \notin dead
        /\ lease # NoLease /\ lease.full /\ lease.pid = ProcessOf[m]
        /\ \A w \in Threads : GivingBack(w) => Pid(w) # ProcessOf[m]
    BY <1>4 DEF Uncrossed, SessionsInv
  <2>2. \A w \in Threads : GivingBack(w)' => GivingBack(w)
    BY <1>1 DEF GivingBack
  <2> QED
    BY <1>3, <2>1, <2>2
<1> QED
  BY <1>5, <1>7, <1>8, <1>9, <1>10 DEF Uncrossed

LEMMA ReconcileStep ==
  ASSUME ThreadsOK, NEW u \in Threads, Reconcile(u)
  PROVE  ThreadsOK' /\ (Uncrossed => Uncrossed')
<1>1. Set(u) \in Monitors /\ <<Set(u), "main">> \in Threads
  BY DEF Threads, Kinds, Set
<1>2. /\ life' = [life EXCEPT ![Set(u)] = "open"] /\ life[Set(u)] \in {"opening", "open"}
      /\ UNCHANGED <<lease, held, sess, dead, desktop, crossed>>
  BY DEF Reconcile, Shown
<1>3. PICK v \in ThreadStates : v = [Resting EXCEPT !.at = "auto"]
  BY Places1 DEF Places
<1>4. To(u, v) /\ v.at = "auto"
  BY <1>3 DEF Reconcile, Resting
<1>5. ThreadsOK'
  BY <1>1, <1>2, <1>4 DEF ThreadsOK, WatchTypeOK, To
<1>6. ASSUME Uncrossed PROVE Uncrossed'
  <2>1. Opened(Set(u)) /\ life'[Set(u)] = "open" /\ \A m \in Monitors \ {Set(u)} : life'[m] = life[m]
    BY <1>1, <1>2 DEF Opened, ThreadsOK, WatchTypeOK
  <2>2. life[Set(u)] # "stopping"
    BY <1>2
  <2>3. UNCHANGED <<lease, held, sess, dead>>
    BY <1>2
  <2> QED
    BY <1>4, <1>6, <2>1, <2>2, <2>3, ShownStep
<1> QED
  BY <1>5, <1>6

LEMMA CloseStep ==
  ASSUME ThreadsOK, NEW m \in Monitors, Close(m)
  PROVE  ThreadsOK' /\ (Uncrossed => Uncrossed')
<1>1. PICK u \in Threads : u = <<m, "main">>
  BY DEF Threads, Kinds
<1>2. /\ life' = [life EXCEPT ![m] = "stopping"] /\ life[m] \in {"opening", "open"} /\ Set(u) = m
      /\ UNCHANGED <<lease, held, sess, dead, desktop, crossed>>
  BY <1>1 DEF Close, Shown, Set
<1>3. PICK v \in ThreadStates : v = [Resting EXCEPT !.at = "abort"]
  BY Places1 DEF Places
<1>4. To(u, v) /\ v.at = "abort"
  BY <1>1, <1>3 DEF Close, Resting
<1>5. ThreadsOK'
  BY <1>2, <1>4 DEF ThreadsOK, WatchTypeOK, To
<1>6. ASSUME Uncrossed PROVE Uncrossed'
  <2>1. Opened(m) /\ life'[m] = "stopping" /\ \A n \in Monitors \ {m} : life'[n] = life[n]
    BY <1>2 DEF Opened, ThreadsOK, WatchTypeOK
  <2>2. life[Set(u)] # "stopping"
    BY <1>2
  <2>3. UNCHANGED <<lease, held, sess, dead>>
    BY <1>2
  <2>4. Opened(Set(u)) /\ life'[Set(u)] = "stopping" /\ \A n \in Monitors \ {Set(u)} : life'[n] = life[n]
    BY <1>2, <2>1
  <2>5. u = <<Set(u), "main">>
    BY <1>1, <1>2
  <2> QED
    BY <1>4, <1>6, <2>2, <2>3, <2>4, <2>5, ShownStep
<1> QED
  BY <1>5, <1>6

\* A dashboard opens: its process has no other set.
LEMMA OpenStep ==
  ASSUME ThreadsOK, NEW m \in Monitors, Open(m)
  PROVE  ThreadsOK' /\ (Uncrossed => Uncrossed')
<1>1. PICK u \in Threads : u = <<m, "main">>
  BY DEF Threads, Kinds
<1>2. /\ life' = [life EXCEPT ![m] = "opening"] /\ life[m] = "none" /\ Set(u) = m
      /\ ProcessOf[m] \notin dead
      /\ \A n \in Monitors : ProcessOf[n] = ProcessOf[m] => life[n] \in {"none", "closed"}
      /\ UNCHANGED <<lease, held, sess, dead, desktop, crossed>>
  BY <1>1 DEF Open, Set
<1>3. PICK v \in ThreadStates : v = [Resting EXCEPT !.at = "auto"]
  BY Places1 DEF Places
<1>4. To(u, v) /\ v.at = "auto"
  BY <1>1, <1>3 DEF Open, Resting
<1>5. ThreadsOK'
  BY <1>2, <1>4 DEF ThreadsOK, WatchTypeOK, To
<1>6. ASSUME Uncrossed PROVE Uncrossed'
  <2>1. thr'[u] = v /\ \A w \in Threads \ {u} : thr'[w] = thr[w]
    BY <1>4 DEF ThreadsOK, To
  <2>2. life'[m] = "opening" /\ \A n \in Monitors \ {m} : life'[n] = life[n]
    BY <1>2 DEF ThreadsOK, WatchTypeOK
  <2>3. \A n \in Monitors : Opened(n)' <=> n = m \/ Opened(n)
    BY <2>2 DEF Opened
  <2>4. \A s \in Sessions : Watching(s)' <=> Watching(s)
    BY <1>2 DEF Watching
  <2>5. \A n \in Monitors : Opened(n) => ProcessOf[n] # ProcessOf[m]
    BY <1>2 DEF Opened
  <2>6. SetsInv'
    <3>1. \A k, n \in Monitors : Opened(k)' /\ Opened(n)' /\ ProcessOf[k] = ProcessOf[n] => k = n
      BY <1>6, <2>3, <2>5 DEF Uncrossed, SetsInv
    <3>2. ASSUME NEW w \in Threads, life'[Set(w)] = "none" PROVE thr'[w].at = "idle"
      <4>1. Set(w) \in Monitors /\ Set(w) # m
        BY <2>2, <3>2 DEF Threads, Set
      <4>2. life[Set(w)] = "none" /\ w # u
        BY <1>2, <2>2, <3>2, <4>1
      <4> QED
        BY <1>6, <2>1, <4>2 DEF Uncrossed, SetsInv
    <3> QED
      BY <3>1, <3>2 DEF SetsInv
  <2>7. \A w \in Threads : Starting(w)' => Starting(w) /\ life[Set(w)] # "none"
    BY <1>6, <2>1, <1>4 DEF Starting, Uncrossed, SetsInv
  <2>8. StartsInv'
    <3>1. \A w, x \in Threads : Starting(w)' /\ Starting(x)' /\ Pid(w) = Pid(x) => w = x
      BY <1>6, <2>7 DEF Uncrossed, StartsInv
    <3>2. ASSUME NEW w \in Threads, Starting(w)', life'[Set(w)] \in {"opening", "open"}
          PROVE  ~WatchedBy(Pid(w))'
      <4>1. Set(w) \in Monitors /\ Set(w) # m
        BY <1>2, <2>7, <3>2 DEF Threads, Set
      <4>2. ~WatchedBy(Pid(w))
        BY <1>6, <2>2, <2>7, <3>2, <4>1 DEF Uncrossed, StartsInv
      <4> QED
        BY <1>2, <2>4, <4>2 DEF WatchedBy
    <3> QED
      BY <3>1, <3>2 DEF StartsInv, Pid
  <2>9. FileInv'
    BY <1>2, <1>4, <1>6, <2>1 DEF Uncrossed, FileInv, Pid
  <2>10. OwnsInv'
    <3>1. \A n \in Monitors : held'[n].owns /\ ProcessOf[n] \notin dead' => Opened(n)'
      BY <1>2, <1>6, <2>3 DEF Uncrossed, OwnsInv
    <3>2. ASSUME NEW n \in Monitors, life'[n] = "stopping", GivingBack(<<n, "main">>)'
          PROVE  ~held'[n].owns
      <4>1. <<n, "main">> \in Threads /\ n # m
        BY <2>2, <3>2 DEF Threads, Kinds
      <4>2. life[n] = "stopping" /\ GivingBack(<<n, "main">>)
        BY <1>1, <2>1, <2>2, <3>2, <4>1 DEF GivingBack
      <4> QED
        BY <1>2, <1>6, <4>2 DEF Uncrossed, OwnsInv
    <3> QED
      BY <3>1, <3>2 DEF OwnsInv
  <2>11. SessionsInv'
    <3> SUFFICES ASSUME NEW s \in Sessions, Watching(s)', NEW n \in Monitors, n = sess'[s].of
                 PROVE  /\ held'[n] = [ctl |-> s, promise |-> s, owns |-> TRUE]
                        /\ Opened(n)' /\ ProcessOf[n] \notin dead'
                        /\ lease' # NoLease /\ lease'.full /\ lease'.pid = ProcessOf[n]
                        /\ \A w \in Threads : GivingBack(w)' => Pid(w) # ProcessOf[n]
      <4>1. \A s \in Sessions : sess'[s].of \in Monitors
        BY <1>2 DEF ThreadsOK, WatchTypeOK
      <4> QED
        BY <4>1 DEF SessionsInv, Pid
    <3>1. /\ held[n] = [ctl |-> s, promise |-> s, owns |-> TRUE]
          /\ Opened(n) /\ ProcessOf[n] \notin dead
          /\ lease # NoLease /\ lease.full /\ lease.pid = ProcessOf[n]
          /\ \A w \in Threads : GivingBack(w) => Pid(w) # ProcessOf[n]
      BY <1>2, <1>6, <2>4 DEF Uncrossed, SessionsInv
    <3>2. \A w \in Threads : GivingBack(w)' => GivingBack(w)
      BY <1>4, <2>1 DEF GivingBack
    <3> QED
      BY <1>2, <2>3, <3>1, <3>2
  <2> QED
    BY <2>6, <2>8, <2>9, <2>10, <2>11 DEF Uncrossed
<1> QED
  BY <1>5, <1>6

\* A process dies: nothing of it goes on.
LEMMA DieTypes ==
  ASSUME ThreadsOK, NEW p \in Processes, Die(p)
  PROVE  ThreadsOK'
<1>1. dead' \subseteq Processes
  BY DEF Die, ThreadsOK, WatchTypeOK
<1>2. sess' \in [Sessions -> [st : {"none", "run", "aborted", "closing", "ended"}, of : Monitors]]
  BY DEF Die, ThreadsOK, WatchTypeOK
<1>3. thr' \in [Threads -> ThreadStates]
  <2>1. \A u \in Threads : thr[u] \in ThreadStates /\ Resting \in ThreadStates
    BY Places1
  <2> QED
    BY <2>1 DEF Die
<1>4. life' \in [Monitors -> {"none", "opening", "open", "stopping", "closed"}]
  BY DEF Die, ThreadsOK, WatchTypeOK
<1>5. UNCHANGED <<lease, held, desktop, crossed>>
  BY DEF Die
<1> QED
  BY <1>1, <1>2, <1>3, <1>4, <1>5 DEF ThreadsOK, WatchTypeOK

LEMMA DieStep ==
  ASSUME ThreadsOK, Uncrossed, NEW p \in Processes, Die(p)
  PROVE  Uncrossed'
<1>1. dead' = dead \cup {p} /\ UNCHANGED <<lease, held>>
  BY DEF Die
<1>2. \A u \in Threads : thr'[u] = IF Pid(u) = p THEN Resting ELSE thr[u]
  BY DEF Die
<1>3. \A m \in Monitors :
        life'[m] = IF ProcessOf[m] = p /\ life[m] # "none" THEN "closed" ELSE life[m]
  BY DEF Die
<1>4. \A s \in Sessions : Watching(s)' =>
        Watching(s) /\ sess'[s].of = sess[s].of /\ ProcessOf[sess[s].of] # p
  BY DEF Die, Watching, Active, ThreadsOK, WatchTypeOK
<1>5. \A m \in Monitors : /\ Opened(m)' => Opened(m)
                          /\ Opened(m) /\ ProcessOf[m] # p => Opened(m)'
  BY <1>3 DEF Opened
<1>6. SetsInv'
  <2>1. \A m, n \in Monitors : Opened(m)' /\ Opened(n)' /\ ProcessOf[m] = ProcessOf[n] => m = n
    BY <1>5 DEF Uncrossed, SetsInv
  <2>2. ASSUME NEW w \in Threads, life'[Set(w)] = "none" PROVE thr'[w].at = "idle"
    <3>1. Set(w) \in Monitors
      BY DEF Threads, Set
    <3>2. life[Set(w)] = "none"
      BY <1>3, <2>2, <3>1
    <3> QED
      BY <1>2, <3>2 DEF Uncrossed, SetsInv, Resting
  <2> QED
    BY <2>1, <2>2 DEF SetsInv
<1>7. \A w \in Threads : Starting(w)' => Starting(w) /\ Pid(w) # p
  BY <1>2 DEF Starting, Resting
<1>8. StartsInv'
  <2>1. \A w, x \in Threads : Starting(w)' /\ Starting(x)' /\ Pid(w) = Pid(x) => w = x
    BY <1>7 DEF Uncrossed, StartsInv
  <2>2. ASSUME NEW w \in Threads, Starting(w)', life'[Set(w)] \in {"opening", "open"}
        PROVE  ~WatchedBy(Pid(w))'
    <3>1. Set(w) \in Monitors
      BY DEF Threads, Set
    <3>2. ~WatchedBy(Pid(w))
      BY <1>3, <1>7, <2>2, <3>1 DEF Uncrossed, StartsInv
    <3> QED
      BY <1>4, <3>2 DEF WatchedBy
  <2> QED
    BY <2>1, <2>2 DEF StartsInv, Pid
<1>9. FileInv'
  <2> SUFFICES ASSUME NEW w \in Threads PROVE
        /\ thr'[w].at = "write" => lease' # NoLease /\ lease'.by = w /\ lease'.pid = Pid(w) /\ ~lease'.full
        /\ thr'[w].at = "clear" =>
             thr'[w].judged # NoLease /\ thr'[w].judged.full /\ thr'[w].judged.pid \in dead'
        /\ thr'[w].at = "giveBack" =>
             /\ thr'[w].judged # NoLease /\ thr'[w].judged.full
             /\ thr'[w].judged.pid \in dead' \cup {Pid(w)}
    BY DEF FileInv, Pid
  <2>1. CASE Pid(w) = p
    BY <1>2, <2>1 DEF Resting
  <2>2. CASE Pid(w) # p
    BY <1>1, <1>2, <2>2 DEF Uncrossed, FileInv
  <2> QED
    BY <2>1, <2>2
<1>10. OwnsInv'
  <2>1. \A m \in Monitors : held'[m].owns /\ ProcessOf[m] \notin dead' => Opened(m)'
    BY <1>1, <1>5 DEF Uncrossed, OwnsInv
  <2>2. ASSUME NEW m \in Monitors, life'[m] = "stopping", GivingBack(<<m, "main">>)'
        PROVE  ~held'[m].owns
    <3>1. <<m, "main">> \in Threads /\ life[m] = "stopping"
      BY <1>3, <2>2 DEF Threads, Kinds
    <3>2. GivingBack(<<m, "main">>)
      BY <1>2, <2>2, <3>1 DEF GivingBack, Resting
    <3> QED
      BY <1>1, <3>1, <3>2 DEF Uncrossed, OwnsInv
  <2> QED
    BY <2>1, <2>2 DEF OwnsInv
<1>11. SessionsInv'
  <2> SUFFICES ASSUME NEW s \in Sessions, Watching(s)', NEW m \in Monitors, m = sess'[s].of
               PROVE  /\ held'[m] = [ctl |-> s, promise |-> s, owns |-> TRUE]
                      /\ Opened(m)' /\ ProcessOf[m] \notin dead'
                      /\ lease' # NoLease /\ lease'.full /\ lease'.pid = ProcessOf[m]
                      /\ \A w \in Threads : GivingBack(w)' => Pid(w) # ProcessOf[m]
    <3>1. \A s \in Sessions : Watching(s)' => sess'[s].of \in Monitors
      BY <1>4 DEF ThreadsOK, WatchTypeOK
    <3> QED
      BY <3>1 DEF SessionsInv, Pid
  <2>1. Watching(s) /\ m = sess[s].of /\ ProcessOf[m] # p
    BY <1>4
  <2>2. /\ held[m] = [ctl |-> s, promise |-> s, owns |-> TRUE]
        /\ Opened(m) /\ ProcessOf[m] \notin dead
        /\ lease # NoLease /\ lease.full /\ lease.pid = ProcessOf[m]
        /\ \A w \in Threads : GivingBack(w) => Pid(w) # ProcessOf[m]
    BY <2>1 DEF Uncrossed, SessionsInv
  <2>3. \A w \in Threads : GivingBack(w)' => GivingBack(w)
    BY <1>2 DEF GivingBack, Resting
  <2> QED
    BY <1>1, <1>5, <2>1, <2>2, <2>3
<1> QED
  BY <1>6, <1>8, <1>9, <1>10, <1>11 DEF Uncrossed

\* At the start no set is opened.
LEMMA InitWatchIInv == WatchInit => WatchIInv
<1> SUFFICES ASSUME WatchInit PROVE WatchIInv
  OBVIOUS
<1>1. Resting \in ThreadStates /\ Nothing \in Holdings
  BY DEF Resting, ThreadStates, Places, Nothing, Holdings
<1>2. \A m \in Monitors : held[m] = Nothing /\ life[m] = "none"
  BY DEF WatchInit
<1>3. \A u \in Threads : thr[u] = Resting /\ thr[u].at = "idle"
  BY DEF WatchInit, Resting
<1>4. (CHOOSE m \in Monitors : TRUE) \in Monitors
  BY WatchLeaseAssumption
<1>5. \A s \in Sessions : sess[s] \in [st : {"none", "run", "aborted", "closing", "ended"}, of : Monitors]
                          /\ ~Watching(s)
  BY <1>4 DEF WatchInit, Watching
<1>6. sess \in [Sessions -> [st : {"none", "run", "aborted", "closing", "ended"}, of : Monitors]]
  BY <1>4 DEF WatchInit
<1>7. ThreadsOK
  <2>1. WatchTypeOK
    BY <1>2, <1>6 DEF WatchInit, WatchTypeOK, Nothing
  <2> QED
    BY <1>1, <2>1 DEF WatchInit, ThreadsOK
<1>8. \A m \in Monitors : ~Opened(m) /\ ~held[m].owns
  BY <1>2 DEF Opened, Nothing
<1>9. Uncrossed
  BY <1>3, <1>5, <1>8
     DEF Uncrossed, SetsInv, StartsInv, FileInv, OwnsInv, SessionsInv, Starting
<1> QED
  BY <1>7, <1>9 DEF WatchIInv

LEMMA ThreadStepUncrossed ==
  ASSUME ThreadsOK, Uncrossed, NEW u \in Threads, ThreadStep(u), ~crossed'
  PROVE  Uncrossed'
<1>1. CASE \/ YieldToDaemon(u) \/ KeepLease(u) \/ StartIfNoDaemon(u) \/ StartIfNoOwner(u)
           \/ StartIfDesktop(u) \/ Abort(u)
  BY <1>1, LookStep
<1>2. CASE ReadAuto(u)
  BY <1>2, ReadAutoStep
<1>3. CASE ClearDead(u)
  BY <1>3, ClearDeadStep
<1>4. CASE Claim(u)
  BY <1>4, ClaimStep
<1>5. CASE Create(u)
  BY <1>5, CreateStep
<1>6. CASE Write(u)
  BY <1>6, WriteStep
<1>7. CASE Reread(u)
  BY <1>7, RereadStep
<1>8. CASE Awaited(u)
  BY <1>8, AwaitedStep
<1>9. CASE ReadBack(u)
  BY <1>9, ReadBackStep
<1>10. CASE GiveBack(u)
  BY <1>10, GiveBackStep
<1> QED
  BY <1>1, <1>2, <1>3, <1>4, <1>5, <1>6, <1>7, <1>8, <1>9, <1>10 DEF ThreadStep

\* What broke the protocol once stays recorded.
LEMMA CrossedStays ==
  ASSUME ThreadsOK, NEW u \in Threads, ThreadStep(u), crossed
  PROVE  crossed'
BY DEF ThreadsOK, WatchTypeOK, ThreadStep, ReadAuto, YieldToDaemon, KeepLease, StartIfNoDaemon,
       StartIfNoOwner, StartIfDesktop, ClearDead, Claim, StartSession, Create, Write, Reread,
       Abort, Awaited, ReadBack, GiveBack

LEMMA EndTypes ==
  ASSUME ThreadsOK, NEW s \in Sessions, SessionEnds(s)
  PROVE  ThreadsOK'
<1>1. PICK m \in Monitors : m = sess[s].of
  BY DEF ThreadsOK, WatchTypeOK
<1>2. PICK u \in Threads : u = <<m, "end">>
  BY DEF Threads, Kinds
<1>3. PICK v \in ThreadStates : To(u, v) \/ UNCHANGED thr
  BY <1>1, <1>2, Places1 DEF SessionEnds
<1>4. thr' \in [Threads -> ThreadStates]
  BY <1>3 DEF ThreadsOK, To
<1>5. Nothing \in Holdings
  BY DEF Nothing, Holdings
<1>6. held' \in [Monitors -> Holdings]
  BY <1>1, <1>5 DEF SessionEnds, ThreadsOK
<1>7. sess' \in [Sessions -> [st : {"none", "run", "aborted", "closing", "ended"}, of : Monitors]]
  BY DEF SessionEnds, ThreadsOK, WatchTypeOK
<1>8. UNCHANGED <<lease, life, dead, desktop, crossed>>
  BY DEF SessionEnds
<1> QED
  BY <1>4, <1>6, <1>7, <1>8 DEF ThreadsOK, WatchTypeOK, Holdings

LEMMA NextWatchIInv == WatchIInv /\ [WatchNext]_<<vars, watching>> => WatchIInv'
<1> SUFFICES ASSUME WatchIInv, [WatchNext]_<<vars, watching>> PROVE WatchIInv'
  OBVIOUS
<1>1. ThreadsOK
  BY DEF WatchIInv
<1>2. CASE UNCHANGED watching
  BY <1>2 DEF watching, WatchIInv, ThreadsOK, WatchTypeOK, Uncrossed, SetsInv, StartsInv, FileInv,
     OwnsInv, SessionsInv, Opened, GivingBack, WatchedBy, Starting, Watching, Set, Pid, Threads,
     Processes
<1>3. ASSUME NEW u \in Threads, Reconcile(u) PROVE WatchIInv'
  BY <1>1, <1>3, ReconcileStep DEF WatchIInv, Reconcile
<1>4. ASSUME NEW u \in Threads, ThreadStep(u) PROVE WatchIInv'
  <2>1. ThreadsOK'
    BY <1>1, <1>4, ThreadTypes
  <2>2. ASSUME ~crossed' PROVE Uncrossed'
    <3>1. Uncrossed
      BY <1>1, <1>4, <2>2, CrossedStays DEF WatchIInv
    <3> QED
      BY <1>1, <1>4, <2>2, <3>1, ThreadStepUncrossed
  <2> QED
    BY <2>1, <2>2 DEF WatchIInv
<1>5. ASSUME NEW s \in Sessions, SessionEnds(s) PROVE WatchIInv'
  BY <1>1, <1>5, EndTypes, EndStep DEF WatchIInv, SessionEnds
<1>6. ASSUME NEW m \in Monitors, Open(m) \/ Close(m) PROVE WatchIInv'
  BY <1>1, <1>6, OpenStep, CloseStep DEF WatchIInv, Open, Close
<1>7. ASSUME NEW p \in Processes, Die(p) PROVE WatchIInv'
  BY <1>1, <1>7, DieTypes, DieStep DEF WatchIInv, Die
<1>8. CASE DesktopQuits \/ DesktopOpens
  <2>1. UNCHANGED <<lease, life, held, thr, sess, dead, crossed>> /\ desktop' \in BOOLEAN
    BY <1>8 DEF DesktopQuits, DesktopOpens
  <2>2. ThreadsOK'
    BY <1>1, <2>1 DEF ThreadsOK, WatchTypeOK
  <2>3. Uncrossed => Uncrossed'
    BY <2>1 DEF Uncrossed, SetsInv, StartsInv, FileInv, OwnsInv, SessionsInv, Opened, GivingBack,
       WatchedBy, Starting, Watching, Set, Pid
  <2> QED
    BY <2>1, <2>2, <2>3 DEF WatchIInv
<1> QED
  BY <1>2, <1>3, <1>4, <1>5, <1>6, <1>7, <1>8 DEF WatchNext, WatchStep

\* Two sessions that watch are one: both processes own the lease, so they are the same
\* process, its set is the same, and a set can abort one session.
LEMMA WatchIInvLeaseInv == WatchIInv => LeaseInv
<1> SUFFICES ASSUME WatchIInv PROVE LeaseInv
  OBVIOUS
<1>1. WatchTypeOK /\ ThreadsOK
  BY DEF WatchIInv, ThreadsOK
<1>2. ASSUME ~crossed, NEW s \in Sessions, Watching(s), NEW m \in Monitors, m = sess[s].of
      PROVE  /\ held[m] = [ctl |-> s, promise |-> s, owns |-> TRUE] /\ Opened(m)
             /\ lease.pid = ProcessOf[m]
  BY <1>2 DEF WatchIInv, Uncrossed, SessionsInv
<1>3. ASSUME ~crossed, NEW s \in Sessions, NEW t \in Sessions, Watching(s), Watching(t)
      PROVE  s = t
  <2>1. PICK m \in Monitors, n \in Monitors : m = sess[s].of /\ n = sess[t].of
    BY <1>1 DEF WatchTypeOK
  <2>2. Opened(m) /\ Opened(n) /\ ProcessOf[m] = ProcessOf[n]
    BY <1>2, <1>3, <2>1
  <2>3. m = n
    BY <1>3, <2>2 DEF WatchIInv, Uncrossed, SetsInv
  <2>4. held[m] = [ctl |-> s, promise |-> s, owns |-> TRUE]
    BY <1>2, <1>3, <2>1
  <2>5. held[n] = [ctl |-> t, promise |-> t, owns |-> TRUE]
    BY <1>2, <1>3, <2>1
  <2>6. [ctl |-> s, promise |-> s, owns |-> TRUE].ctl = [ctl |-> t, promise |-> t, owns |-> TRUE].ctl
    BY <2>3, <2>4, <2>5
  <2> QED
    BY <2>6
<1>4. OneForeground
  <2> SUFFICES ASSUME ~crossed PROVE Cardinality({s \in Sessions : Watching(s)}) <= 1
    BY DEF OneForeground
  <2>1. CASE \A s \in Sessions : ~Watching(s)
    <3>1. {s \in Sessions : Watching(s)} = {}
      BY <2>1
    <3> QED
      BY <3>1, FS_EmptySet
  <2>2. CASE \E s \in Sessions : Watching(s)
    <3>1. PICK s \in Sessions : Watching(s)
      BY <2>2
    <3>2. {t \in Sessions : Watching(t)} = {s}
      BY <1>3, <3>1
    <3>3. Cardinality({s}) = 1
      BY FS_Singleton
    <3> QED
      BY <3>2, <3>3
  <2> QED
    BY <2>1, <2>2
<1>5. NothingAfterStop
  <2> SUFFICES ASSUME ~crossed, NEW s \in Sessions, Watching(s) PROVE life[sess[s].of] # "closed"
    BY DEF NothingAfterStop
  <2>1. PICK m \in Monitors : m = sess[s].of
    BY <1>1 DEF WatchTypeOK
  <2> QED
    BY <1>2, <2>1 DEF Opened
<1> QED
  BY <1>1, <1>4, <1>5 DEF LeaseInv

\* Never two foreground watches and none in a dashboard that was left, unless one of the
\* crossings happened that claimForeground and release do not exclude, for every number of
\* dashboards, openings, sessions and deaths.
THEOREM OneWatch == WatchSpec => []LeaseInv
<1>1. WatchInit => WatchIInv
  BY InitWatchIInv
<1>2. WatchIInv /\ [WatchNext]_<<vars, watching>> => WatchIInv'
  BY NextWatchIInv
<1>3. WatchIInv => LeaseInv
  BY WatchIInvLeaseInv
<1> QED
  BY <1>1, <1>2, <1>3, PTL DEF WatchSpec
=============================================================================
