---------------------------- MODULE ProxyReplay ----------------------------
(***************************************************************************)
(* One /v1/responses websocket of the local proxy with the synthetic auth  *)
(* (src/src/proxy/server.ts, from finalizeActiveTurn to the upgrade        *)
(* handler): response.create opens a turn on the selected upstream         *)
(* account, the upstream's events are passed on, and a turn that fails on  *)
(* quota before any output was passed on is replayed on another account.   *)
(*                                                                         *)
(* One event loop.  A message handler runs up to its next await; so the    *)
(* queue of response.create handlers (at most one at a time) and every     *)
(* handler of a terminal upstream event is a process whose steps are what  *)
(* runs between two awaits.  An upstream event is its kind and the request *)
(* (attempt) it answers.                                                   *)
(***************************************************************************)
EXTENDS Naturals, Sequences, FiniteSets

CONSTANTS Accounts, NoAccount,
          Handlers,       \* handlers of upstream terminal events at one time
          Create,         \* the handler of downstream messages
          DoubleFailure,  \* may the upstream send "error" and "response.failed"
          MaxTurns,       \* bound: turns the client starts
          MaxOpenFails,   \* bound: upstream connections that fail
          MaxDrops        \* bound: upstream connections that drop

ASSUME ProxyReplayAssumption ==
  /\ NoAccount \notin Accounts /\ Create \notin Handlers
  /\ DoubleFailure \in BOOLEAN
  /\ {MaxTurns, MaxOpenFails, MaxDrops} \subseteq Nat

VARIABLES selection,  \* the persisted upstream account (proxy manual upstream)
          upAcct, upSock,  \* context.upstreamAccount, .upstreamSocket (0: null)
          active,     \* context.activeTurn: number of the turn, 0: null
          turns,      \* the turns so far, see Turn
          socks,      \* the upstream sockets so far, see Sock
          attempts,   \* the turn of every request sent upstream
          proc,       \* the handlers, see Idle
          down,       \* is the downstream socket open
          waiting,    \* the client waits for the end of its turn
          seen,       \* history: attempts the client has seen events of
          answers,    \* history: terminal events per attempt the client got
          fails, drops

upVars == <<upAcct, upSock>>
clientVars == <<down, waiting, seen, answers>>
vars == <<selection, upVars, active, turns, socks, attempts, proc, clientVars, fails, drops>>

\* accountName, replayLocked, replayCount, attempts in bufferedMessages.
Turn(a) == [acct |-> a, locked |-> FALSE, replays |-> 0, from |-> {}, buffered |-> {}]

\* The upstream's view of a socket: the attempt it works on and how far it is;
\* inbox: frames on their way to the proxy.
Sock(a, att) == [acct |-> a, st |-> "open", att |-> att, phase |-> "new", inbox |-> <<>>]

\* pc of a handler: what it waits for.
\*   choose   selectProxyAccount of a response.create
\*   record   recordWebSocketTerminalError
\*   select   selectProxyReplayAccount
\*   close    closeProxyWebSocket(previousUpstream)
\*   open     openChatGPTUpstreamWebSocket
\*   persist  persistProxyUpstreamAccountSelection
\*   final    persistProxyResponseCheckpointFromTurn and the request logger
Idle == [pc |-> "idle", kind |-> "none", att |-> 0, turn |-> 0, acct |-> NoAccount]
Procs == Handlers \cup {Create}
Terminal == {"done", "quota", "fail"}

-----------------------------------------------------------------------------

NoTurn ==
  /\ upAcct = NoAccount /\ upSock = 0
  /\ active = 0 /\ turns = <<>> /\ socks = <<>> /\ attempts = <<>>
  /\ proc = [p \in Procs |-> Idle]
  /\ down = TRUE /\ waiting = FALSE /\ seen = {} /\ answers = [n \in {} |-> 0]
  /\ fails = 0 /\ drops = 0

Init == selection \in Accounts /\ NoTurn

\* The frames of the attempts in buffered, then the one in hand, are sent to the
\* client if it is still there.
Deliver(buffered, att, terminal) ==
  IF down
    THEN /\ seen' = seen \cup buffered \cup {att}
         /\ answers' = IF terminal THEN [answers EXCEPT ![att] = @ + 1] ELSE answers
         /\ waiting' = (waiting /\ ~terminal)
         /\ UNCHANGED down
    ELSE UNCHANGED clientVars

\* A request goes out on socket s for turn t.
Request(s, t) ==
  /\ attempts' = Append(attempts, t)
  /\ answers' = [n \in 1..Len(attempts') |-> IF n \in DOMAIN answers THEN answers[n] ELSE 0]
  /\ socks' = IF s = 0 THEN socks
              ELSE [socks EXCEPT ![s].att = Len(attempts'), ![s].phase = "new"]

-----------------------------------------------------------------------------
(* Downstream *)

\* The client starts a turn when it is not waiting for one.
ClientCreates ==
  /\ down /\ ~waiting /\ Len(turns) < MaxTurns
  /\ proc[Create].pc = "idle"
  /\ waiting' = TRUE
  /\ proc' = [proc EXCEPT ![Create].pc = "choose"]
  /\ UNCHANGED <<selection, upVars, active, turns, socks, attempts, down, seen, answers, fails, drops>>

Usable(a) == upAcct = a /\ upSock # 0 /\ socks[upSock].st = "open"

\* ensureSyntheticUpstreamSocket up to its first await: the socket of another
\* account is taken out of the context and closed.
DropUpstream(p, a) ==
  /\ upSock' = 0 /\ upAcct' = NoAccount
  /\ socks' = IF upSock = 0 THEN socks ELSE [socks EXCEPT ![upSock].st = "closing"]
  /\ proc' = [proc EXCEPT ![p].pc = "close", ![p].acct = a]

\* The turn is made the active one and its request sent.
StartTurn(a, s) ==
  /\ turns' = Append(turns, Turn(a))
  /\ active' = Len(turns')

\* selectProxyAccount: the persisted account, if it is a ChatGPT account; the ranking
\* (any account) if none is persisted.
Choosable == IF selection = NoAccount THEN Accounts ELSE {selection} \cap Accounts

Choose ==
  /\ proc[Create].pc = "choose"
  /\ \E a \in Choosable :
       IF Usable(a)
         THEN /\ StartTurn(a, upSock)
              /\ Request(upSock, Len(turns'))
              /\ proc' = [proc EXCEPT ![Create] = Idle]
              /\ UNCHANGED upVars
         ELSE DropUpstream(Create, a) /\ UNCHANGED <<active, turns, attempts, answers>>
  /\ UNCHANGED <<selection, down, waiting, seen, fails, drops>>

\* There is no such account: the downstream socket is closed.
ChooseNone ==
  /\ proc[Create].pc = "choose" /\ selection \notin Accounts
  /\ down' = FALSE
  /\ proc' = [proc EXCEPT ![Create] = Idle]
  /\ UNCHANGED <<selection, upVars, active, turns, socks, attempts, waiting, seen, answers, fails, drops>>

\* The previous socket is closed, or 250 ms have passed.
CloseDone(p) ==
  /\ proc[p].pc = "close"
  /\ upAcct' = proc[p].acct
  /\ proc' = [proc EXCEPT ![p].pc = "open"]
  /\ UNCHANGED <<selection, upSock, active, turns, socks, attempts, clientVars, fails, drops>>

\* The new socket is open; a response.create goes on to send its request.
OpenDone(p) ==
  /\ proc[p].pc = "open"
  /\ upSock' = Len(socks) + 1
  /\ IF p = Create
       THEN /\ StartTurn(proc[p].acct, upSock')
            /\ attempts' = Append(attempts, Len(turns'))
            /\ answers' = [n \in 1..Len(attempts') |-> IF n \in DOMAIN answers THEN answers[n] ELSE 0]
            /\ socks' = Append(socks, Sock(proc[p].acct, Len(attempts')))
            /\ proc' = [proc EXCEPT ![p] = Idle]
       ELSE /\ socks' = Append(socks, Sock(proc[p].acct, 0))
            /\ proc' = [proc EXCEPT ![p].pc = "persist"]
            /\ UNCHANGED <<active, turns, attempts, answers>>
  /\ UNCHANGED <<selection, upAcct, down, waiting, seen, fails, drops>>

-----------------------------------------------------------------------------
(* Upstream events *)

\* Non-terminal frames are handled without an await.  Prelude is held back until
\* the first output of the turn, which locks it.
ReceiveEvent(s) ==
  LET e == Head(socks[s].inbox) IN
  /\ socks[s].inbox # <<>> /\ e.kind \notin Terminal
  /\ socks' = [socks EXCEPT ![s].inbox = Tail(@)]
  /\ IF active = 0 \/ turns[active].locked
       THEN Deliver({}, e.att, FALSE) /\ UNCHANGED turns
       ELSE IF e.kind = "prelude"
       THEN turns' = [turns EXCEPT ![active].buffered = @ \cup {e.att}] /\ UNCHANGED clientVars
       ELSE /\ turns' = [turns EXCEPT ![active] = [@ EXCEPT !.locked = TRUE, !.buffered = {}]]
            /\ Deliver(turns[active].buffered, e.att, FALSE)
  /\ UNCHANGED <<selection, upVars, active, attempts, proc, fails, drops>>

\* The end of handleUpstreamSocketMessage for a terminal frame: what was held
\* back is flushed, the turn is finalized (an await), the frame is sent.
Conclude(h, e) ==
  /\ IF active = 0
       THEN /\ Deliver({}, e.att, TRUE)
            /\ proc' = [proc EXCEPT ![h] = Idle]
            /\ UNCHANGED turns
       ELSE /\ proc' = [proc EXCEPT ![h] = [pc |-> "final", kind |-> e.kind, att |-> e.att,
                                            turn |-> active, acct |-> NoAccount]]
            /\ turns' = IF turns[active].locked THEN turns
                        ELSE [turns EXCEPT ![active].buffered = {}]
            /\ IF down /\ ~turns[active].locked
                 THEN seen' = seen \cup turns[active].buffered /\ UNCHANGED <<down, waiting, answers>>
                 ELSE UNCHANGED clientVars

\* A terminal frame: a failure of an active turn is recorded first (an await).
ReceiveTerminal(s, h) ==
  LET e == Head(socks[s].inbox) IN
  /\ socks[s].inbox # <<>> /\ e.kind \in Terminal
  /\ proc[h].pc = "idle"
  /\ socks' = [socks EXCEPT ![s].inbox = Tail(@)]
  /\ IF e.kind # "done" /\ active # 0
       THEN /\ proc' = [proc EXCEPT ![h] = [Idle EXCEPT !.pc = "record", !.kind = e.kind, !.att = e.att]]
            /\ UNCHANGED <<turns, clientVars>>
       ELSE Conclude(h, e)
  /\ UNCHANGED <<selection, upVars, active, attempts, fails, drops>>

\* Mutant of Replayable: a turn may be replayed again and again.
ReplayableAgain(t, kind) == t # 0 /\ kind = "quota" /\ ~turns[t].locked

\* replayActiveTurnAfterQuotaFailure up to its first await.
Replayable(t, kind) ==
  t # 0 /\ kind = "quota" /\ ~turns[t].locked /\ turns[t].replays = 0

Recorded(h) ==
  /\ proc[h].pc = "record"
  /\ IF Replayable(active, proc[h].kind)
       THEN /\ proc' = [proc EXCEPT ![h].pc = "select", ![h].turn = active]
            /\ UNCHANGED <<turns, clientVars>>
       ELSE Conclude(h, proc[h])
  /\ UNCHANGED <<selection, upVars, active, socks, attempts, fails, drops>>

Candidates(t) == Accounts \ ({turns[t].acct} \cup turns[t].from)

\* Mutant of SelectReplay: without a candidate the failure is dropped.
SelectReplayOrNothing(h) ==
  /\ proc[h].pc = "select"
  /\ \/ /\ \E a \in Candidates(proc[h].turn) : ~Usable(a) /\ DropUpstream(h, a)
        /\ UNCHANGED <<turns, clientVars>>
     \/ /\ proc' = [proc EXCEPT ![h] = Idle]
        /\ UNCHANGED <<turns, clientVars, upVars, socks>>
  /\ UNCHANGED <<selection, active, attempts, fails, drops>>

\* selectProxyReplayAccount: another account, or none: automatic switching is off
\* or no other account may be used.
SelectReplay(h) ==
  /\ proc[h].pc = "select"
  /\ \/ /\ \E a \in Candidates(proc[h].turn) :
             IF Usable(a)
               THEN proc' = [proc EXCEPT ![h].pc = "persist", ![h].acct = a] /\ UNCHANGED <<upVars, socks>>
               ELSE DropUpstream(h, a)
        /\ UNCHANGED <<turns, clientVars>>
     \/ /\ Conclude(h, proc[h])
        /\ UNCHANGED <<upVars, socks>>
  /\ UNCHANGED <<selection, active, attempts, fails, drops>>

\* Mutant of Replay: what the failed attempt had sent is not thrown away.
ReplayKeepsBuffer(h) ==
  LET t == proc[h].turn IN
  /\ proc[h].pc = "persist"
  /\ selection' = proc[h].acct
  /\ turns' = [turns EXCEPT ![t] = [@ EXCEPT !.acct = proc[h].acct, !.locked = FALSE,
                                    !.replays = @ + 1, !.from = @ \cup {turns[t].acct}]]
  /\ Request(upSock, t)
  /\ proc' = [proc EXCEPT ![h] = Idle]
  /\ UNCHANGED <<upVars, active, down, waiting, seen, fails, drops>>

\* Mutant of Replay: the replay's account is not made the current upstream.
ReplayUnpersisted(h) ==
  LET t == proc[h].turn IN
  /\ proc[h].pc = "persist"
  /\ turns' = [turns EXCEPT ![t] = [Turn(proc[h].acct) EXCEPT !.replays = turns[t].replays + 1,
                                    !.from = turns[t].from \cup {turns[t].acct}]]
  /\ Request(upSock, t)
  /\ proc' = [proc EXCEPT ![h] = Idle]
  /\ UNCHANGED <<selection, upVars, active, down, waiting, seen, fails, drops>>

\* Mutant of Replay: the failed frame is still passed on.
ReplayPassesFailure(h) ==
  LET t == proc[h].turn IN
  /\ proc[h].pc = "persist"
  /\ selection' = proc[h].acct
  /\ turns' = [turns EXCEPT ![t] = [Turn(proc[h].acct) EXCEPT !.replays = turns[t].replays + 1,
                                    !.from = turns[t].from \cup {turns[t].acct}]]
  /\ Request(upSock, t)
  /\ proc' = [proc EXCEPT ![h].pc = "final"]
  /\ UNCHANGED <<upVars, active, down, waiting, seen, fails, drops>>

\* The selection is persisted; the turn starts over and is sent again, on the
\* socket that is in the context now.
Replay(h) ==
  LET t == proc[h].turn IN
  /\ proc[h].pc = "persist"
  /\ selection' = proc[h].acct
  /\ turns' = [turns EXCEPT ![t] = [Turn(proc[h].acct) EXCEPT !.replays = turns[t].replays + 1,
                                    !.from = turns[t].from \cup {turns[t].acct}]]
  /\ Request(upSock, t)
  /\ proc' = [proc EXCEPT ![h] = Idle]
  /\ UNCHANGED <<upVars, active, down, waiting, seen, fails, drops>>

\* A connection fails: the replay gives up and the failure is passed on, a
\* response.create closes the downstream socket.
OpenFails(p) ==
  /\ proc[p].pc = "open" /\ fails < MaxOpenFails
  /\ fails' = fails + 1
  /\ IF p = Create
       THEN /\ down' = FALSE
            /\ proc' = [proc EXCEPT ![p] = Idle]
            /\ UNCHANGED <<turns, waiting, seen, answers>>
       ELSE Conclude(p, proc[p])
  /\ UNCHANGED <<selection, upVars, active, socks, attempts, drops>>

\* finalizeActiveTurn is done: activeTurn is cleared and the frame is sent.
Finalized(h) ==
  /\ proc[h].pc = "final"
  /\ active' = 0
  /\ Deliver({}, proc[h].att, TRUE)
  /\ proc' = [proc EXCEPT ![h] = Idle]
  /\ UNCHANGED <<selection, upVars, turns, socks, attempts, fails, drops>>

-----------------------------------------------------------------------------
(* The upstream *)

\* An attempt gets prelude, then output, then one terminal frame; a failure may
\* be told in two frames.
Follows == [new     |-> {"prelude", "quota", "fail"},
            prelude |-> {"output", "done", "quota", "fail"},
            output  |-> {"done", "quota", "fail"},
            quota   |-> IF DoubleFailure THEN {"quota"} ELSE {}]
Emit(s) ==
  /\ socks[s].st = "open" /\ socks[s].att # 0 /\ socks[s].phase \in DOMAIN Follows
  /\ \E k \in Follows[socks[s].phase] :
       socks' = [socks EXCEPT ![s].inbox = Append(@, [kind |-> k, att |-> socks[s].att]),
                              ![s].phase = IF @ = "quota" THEN "end" ELSE k]
  /\ UNCHANGED <<selection, upVars, active, turns, attempts, proc, clientVars, fails, drops>>

\* The close handshake of a socket the proxy has closed ends.
Closed(s) ==
  /\ socks[s].st = "closing" /\ socks[s].inbox = <<>>
  /\ socks' = [socks EXCEPT ![s].st = "closed"]
  /\ UNCHANGED <<selection, upVars, active, turns, attempts, proc, clientVars, fails, drops>>

\* The upstream drops a connection: the "close" listener of attachUpstreamSocket.
Drops(s) ==
  /\ socks[s].st = "open" /\ socks[s].inbox = <<>> /\ drops < MaxDrops
  /\ drops' = drops + 1
  /\ socks' = [socks EXCEPT ![s].st = "closed"]
  /\ IF upSock = s
       THEN upSock' = 0 /\ upAcct' = NoAccount /\ active' = 0 /\ down' = FALSE
       ELSE UNCHANGED <<upVars, active, down>>
  /\ UNCHANGED <<selection, turns, attempts, proc, waiting, seen, answers, fails>>

\* Handlers run on; sockets deliver; the upstream answers what it was asked.
Runs ==
  \/ Choose \/ ChooseNone
  \/ \E p \in Procs : CloseDone(p) \/ OpenDone(p)
  \/ \E h \in Handlers : Recorded(h) \/ SelectReplay(h) \/ Replay(h) \/ Finalized(h)
  \/ \E s \in DOMAIN socks :
       \/ ReceiveEvent(s) \/ Emit(s) \/ Closed(s)
       \/ \E h \in Handlers : ReceiveTerminal(s, h)

Next ==
  \/ Runs
  \/ ClientCreates
  \/ \E p \in Procs : OpenFails(p)
  \/ \E s \in DOMAIN socks : Drops(s)

Spec == Init /\ [][Next]_vars
FairSpec == Spec /\ WF_vars(Runs)

-----------------------------------------------------------------------------
(* Properties *)

TypeOK ==
  /\ upAcct \in Accounts \cup {NoAccount}
  /\ upSock \in 0..Len(socks) /\ active \in 0..Len(turns)
  /\ turns \in Seq([acct : Accounts, locked : BOOLEAN, replays : 0..1, from : SUBSET Accounts,
                    buffered : SUBSET DOMAIN attempts])
  /\ \A s \in DOMAIN socks : socks[s].st \in {"open", "closing", "closed"}
  /\ attempts \in Seq(1..Len(turns)) /\ DOMAIN answers = DOMAIN attempts
  /\ proc \in [Procs -> [pc : {"idle", "choose", "record", "select", "close", "open", "persist", "final"},
                         kind : Terminal \cup {"none"}, att : 0..Len(attempts),
                         turn : 0..Len(turns), acct : Accounts \cup {NoAccount}]]
  /\ down \in BOOLEAN /\ waiting \in BOOLEAN /\ seen \subseteq DOMAIN attempts
  /\ fails \in 0..MaxOpenFails /\ drops \in 0..MaxDrops

AttemptsOf(t) == {n \in DOMAIN attempts : attempts[n] = t}

\* The request of a turn is replayed at most once.
OneReplay == \A t \in DOMAIN turns : Cardinality(AttemptsOf(t)) <= 2

\* The client sees the events of one attempt of a turn only: the prelude and the
\* failure of an attempt that was replayed stay invisible, and what it has seen
\* output of is not replayed.
OneAttemptSeen == \A t \in DOMAIN turns : Cardinality(AttemptsOf(t) \cap seen) <= 1

\* The client gets one terminal frame for a turn: what it is told of an attempt is
\* told once, and a turn that was replayed is answered by one of its attempts.
OneAnswer ==
  /\ \A n \in DOMAIN answers : answers[n] <= 1
  /\ \A t \in DOMAIN turns : Cardinality({n \in AttemptsOf(t) : answers[n] > 0}) <= 1

\* Between turns the open upstream socket belongs to the persisted account: the
\* replay's choice is where the next turn goes.
UpstreamIsSelection ==
  (\A p \in Procs : proc[p].pc = "idle") /\ upSock # 0 => upAcct = selection

\* Every turn the client starts is answered, or its connection is closed.
TurnAnswered == waiting ~> (~waiting \/ ~down)
=============================================================================
