--------------------------- MODULE ProxyHttpProofs ---------------------------
(***************************************************************************)
(* Proofs about the proxy, its websocket (ProxyReplay) and its REST side    *)
(* (ProxyHttp) together, for any accounts and any workload.                 *)
(*                                                                          *)
(* SocketInv says of the websocket that one thing happens at a time: a      *)
(* handler works, or one upstream socket has something to deliver, and      *)
(* both concern the last attempt, of which the client has no answer yet.    *)
(* UpInv adds which account the upstream socket is of.  RestInv says of     *)
(* each request how far it is (Progress), where its id comes from           *)
(* (PrevInv), what each attempt's upstream holds (AttFits) and what was     *)
(* told (AnswerInv), and of each checkpoint which attempt it keeps          *)
(* (CheckFits).  RestInv is inductive by itself; SocketInv is for an        *)
(* upstream that ends an attempt in one failure (DoubleFailure = FALSE).    *)
(***************************************************************************)
EXTENDS ProxyHttp, TLAPS, FiniteSetTheorems, SequenceTheorems


Phases == {"new", "prelude", "output", "done", "quota", "fail", "end"}
Places == {"idle", "choose", "record", "select", "close", "open", "persist", "final"}
Now == Len(attempts)
This == Len(turns)

Frames == [kind : {"prelude", "output"} \cup Terminal, att : Nat]
SockRec == [acct : Accounts, st : {"open", "closing", "closed"}, att : Nat, phase : Phases,
            inbox : Seq(Frames)]
TurnRec == [acct : Accounts, locked : BOOLEAN, replays : 0..1, from : SUBSET Accounts,
            buffered : SUBSET (1..Now)]
ProcRec == [pc : Places, kind : Terminal \cup {"none"}, att : 0..Now, turn : 0..This,
            acct : Accounts \cup {NoAccount}]

\* The types of the websocket's variables: those of its turns and of its client, and
\* those of its upstream.
TurnType ==
  /\ active \in {0, This} /\ turns \in Seq(TurnRec) /\ attempts \in Seq(1..This)
  /\ proc \in [Procs -> ProcRec]
  /\ down \in BOOLEAN /\ waiting \in BOOLEAN
  /\ seen \in SUBSET (1..Now) /\ answers \in [1..Now -> 0..1]
WireType ==
  /\ upAcct \in Accounts \cup {NoAccount} /\ upSock \in 0..Len(socks) /\ socks \in Seq(SockRec)
  /\ fails \in 0..MaxOpenFails /\ drops \in 0..MaxDrops
SocketType == TurnType /\ WireType

\* The client has got something of attempt m.
Touched(m) == m \in seen \/ answers[m] # 0

Working(p) == proc[p].pc # "idle"
Live(s) == socks[s].st = "open" /\ socks[s].att # 0 /\ socks[s].phase \in {"new", "prelude", "output"}
Pending(s) == socks[s].inbox # <<>> \/ Live(s)

\* The frames of a socket are of the attempt it works on, and a terminal one is the last.
FrameInv(s) ==
  \A i \in 1..Len(socks[s].inbox) :
    /\ socks[s].inbox[i].att = socks[s].att
    /\ socks[s].inbox[i].kind \in Terminal => i = Len(socks[s].inbox) /\ socks[s].phase \in Terminal

\* What is on its way from the upstream is of the last attempt, which is not answered.
SockInv ==
  \A s \in 1..Len(socks) :
    /\ FrameInv(s)
    /\ Pending(s) => socks[s].att = Now /\ Now # 0 /\ answers[Now] = 0

\* One thing at a time: a handler that works, or a socket that has something to
\* deliver; and the client waits for it.
FlowInv ==
  /\ \A p, q \in Procs : Working(p) /\ Working(q) => p = q
  /\ \A p \in Procs, s \in 1..Len(socks) : ~(Working(p) /\ Pending(s))
  /\ \A s, r \in 1..Len(socks) : Pending(s) /\ Pending(r) => s = r
  /\ (\E p \in Procs : Working(p)) \/ (\E s \in 1..Len(socks) : Pending(s)) => waiting

Replaying == {"select", "close", "open", "persist"}

\* A response.create handler; an upstream handler works on the last attempt, and one
\* that replays it has a turn of which the client has got nothing and that has not been
\* replayed.
CreateFits(r) ==
  /\ r.pc \in {"idle", "choose", "close", "open"}
  /\ r.pc \in {"close", "open"} => r.acct \in Accounts
HandlerFits(r) ==
  /\ r.pc # "choose"
  /\ r.pc # "idle" => r.att = Now /\ Now # 0 /\ answers[Now] = 0 /\ r.kind \in Terminal
  /\ r.pc \in Replaying => r.turn = This /\ This # 0 /\ turns[This].replays = 0 /\ ~Touched(Now)
  /\ r.pc \in Replaying \ {"select"} => r.acct \in Accounts
ProcInv == CreateFits(proc[Create]) /\ \A h \in Handlers : HandlerFits(proc[h])

\* The attempts of a turn are one, or two that follow each other, of which the client
\* has got something of one; those before the last are mute if they are of its turn.
TurnInv ==
  /\ Now # 0 => attempts[Now] = This
  /\ This # 0 => Now # 0 /\ turns[This].buffered \subseteq {Now}
  /\ \A m, o \in 1..Now : m < o /\ attempts[m] = attempts[o] => o = m + 1 /\ turns[attempts[m]].replays = 1
  /\ \A m, o \in 1..Now : attempts[m] = attempts[o] /\ Touched(m) /\ Touched(o) => m = o
  /\ \A m \in 1..Now : m # Now /\ attempts[m] = This => ~Touched(m)

\* A turn that is not locked has shown nothing, until it is finalized.
MuteInv ==
  active # 0 /\ ~turns[active].locked /\ (\A h \in Handlers : proc[h].pc # "final") => ~Touched(Now)

SocketInv == SocketType /\ SockInv /\ FlowInv /\ ProcInv /\ TurnInv /\ MuteInv

-----------------------------------------------------------------------------

\* What the types say of single elements.
LEMMA SocketTypes ==
  SocketType =>
    /\ Now \in Nat /\ This \in Nat /\ Len(socks) \in Nat
    /\ DOMAIN socks = 1..Len(socks) /\ DOMAIN turns = 1..This /\ DOMAIN attempts = 1..Now
    /\ \A s \in 1..Len(socks) : socks[s] \in SockRec
    /\ \A t \in 1..This : turns[t] \in TurnRec
    /\ \A m \in 1..Now : attempts[m] \in 1..This
    /\ \A p \in Procs : proc[p] \in ProcRec
<1> SUFFICES ASSUME SocketType PROVE
    /\ Now \in Nat /\ This \in Nat /\ Len(socks) \in Nat
    /\ DOMAIN socks = 1..Len(socks) /\ DOMAIN turns = 1..This /\ DOMAIN attempts = 1..Now
    /\ \A s \in 1..Len(socks) : socks[s] \in SockRec
    /\ \A t \in 1..This : turns[t] \in TurnRec
    /\ \A m \in 1..Now : attempts[m] \in 1..This
    /\ \A p \in Procs : proc[p] \in ProcRec
  OBVIOUS
<1>1. /\ turns \in Seq(TurnRec) /\ socks \in Seq(SockRec) /\ attempts \in Seq(1..This)
      /\ proc \in [Procs -> ProcRec]
  BY DEF SocketType, TurnType, WireType
<1>2. /\ Len(attempts) \in Nat /\ Len(turns) \in Nat /\ Len(socks) \in Nat
      /\ DOMAIN socks = 1..Len(socks) /\ DOMAIN turns = 1..Len(turns) /\ DOMAIN attempts = 1..Len(attempts)
  BY <1>1, LenProperties
<1>3. /\ \A s \in 1..Len(socks) : socks[s] \in SockRec
      /\ \A t \in 1..Len(turns) : turns[t] \in TurnRec
      /\ \A m \in 1..Len(attempts) : attempts[m] \in 1..This
  BY <1>1, ElementOfSeq
<1> QED
  BY <1>1, <1>2, <1>3 DEF Now, This

\* The sockets when one of them changes.
LEMMA SockChanged ==
  ASSUME SocketType, NEW s \in 1..Len(socks), NEW e \in SockRec, socks' = [socks EXCEPT ![s] = e]
  PROVE  /\ socks' \in Seq(SockRec) /\ Len(socks') = Len(socks) /\ socks'[s] = e
         /\ \A r \in 1..Len(socks) : r # s => socks'[r] = socks[r]
<1>1. socks \in Seq(SockRec)
  BY DEF SocketType, TurnType, WireType
<1> QED
  BY <1>1, ExceptSeq

\* The turns when one of them changes.
LEMMA TurnChanged ==
  ASSUME SocketType, NEW t \in 1..This, NEW e \in TurnRec, turns' = [turns EXCEPT ![t] = e]
  PROVE  /\ turns' \in Seq(TurnRec) /\ This' = This /\ turns'[t] = e
         /\ \A r \in 1..This : r # t => turns'[r] = turns[r]
<1>1. turns \in Seq(TurnRec)
  BY DEF SocketType, TurnType, WireType
<1> QED
  BY <1>1, ExceptSeq DEF This

\* While a handler works every other is idle and no socket has anything to deliver.
LEMMA Alone ==
  ASSUME FlowInv, NEW p \in Procs, Working(p)
  PROVE  /\ \A q \in Procs : q # p => proc[q].pc = "idle"
         /\ \A s \in 1..Len(socks) : ~Pending(s)
         /\ waiting
  BY DEF FlowInv, Working

\* While a socket has something to deliver every handler is idle.
LEMMA Delivering ==
  ASSUME FlowInv, NEW s \in 1..Len(socks), Pending(s)
  PROVE  /\ \A q \in Procs : proc[q].pc = "idle"
         /\ \A r \in 1..Len(socks) : r # s => ~Pending(r)
         /\ waiting
  BY DEF FlowInv, Working

\* Frames of the last attempt are passed on.
LEMMA Delivered ==
  ASSUME SocketType, NEW b, b \subseteq {Now}, Now # 0, NEW terminal \in BOOLEAN,
         terminal => answers[Now] = 0, Deliver(b, Now, terminal)
  PROVE  /\ seen' \in SUBSET (1..Now) /\ answers' \in [1..Now -> 0..1]
         /\ down' = down /\ waiting' \in BOOLEAN
         /\ \A m \in 1..Now : m # Now => (m \in seen' <=> m \in seen) /\ answers'[m] = answers[m]
         /\ ~terminal => waiting' = waiting /\ answers' = answers
<1>1. Now \in Nat
  BY SocketTypes
<1>2. CASE ~down
  BY <1>1, <1>2 DEF Deliver, clientVars, SocketType, TurnType
<1>3. CASE down
  <2>1. seen' = seen \cup b \cup {Now} /\ waiting' = (waiting /\ ~terminal) /\ down' = down
    BY <1>3 DEF Deliver
  <2>2. waiting' \in BOOLEAN /\ (~terminal => waiting' = waiting)
    BY <2>1 DEF SocketType, TurnType, WireType
  <2>3. CASE terminal
    <3>1. answers' = [answers EXCEPT ![Now] = @ + 1] /\ answers[Now] = 0
      BY <1>3, <2>3 DEF Deliver
    <3> QED
      BY <1>1, <2>1, <2>2, <2>3, <3>1 DEF SocketType, TurnType, WireType
  <2>4. CASE ~terminal
    <3>1. answers' = answers
      BY <1>3, <2>4 DEF Deliver
    <3> QED
      BY <1>1, <2>1, <2>2, <2>4, <3>1 DEF SocketType, TurnType, WireType
  <2> QED
    BY <2>3, <2>4
<1> QED
  BY <1>2, <1>3

\* What the turns keep while no request is sent.
LEMMA TurnKept ==
  ASSUME SocketType, TurnInv, attempts' = attempts, This' = This,
         \A t \in 1..This : /\ turns'[t].replays = turns[t].replays
                            /\ turns'[t].buffered \subseteq turns[t].buffered \cup {Now},
         \A m \in 1..Now : m # Now => (m \in seen' <=> m \in seen) /\ answers'[m] = answers[m]
  PROVE  TurnInv'
<1>1. /\ Now \in Nat /\ This \in Nat /\ Now' = Now
      /\ \A m \in 1..Now : attempts[m] \in 1..This
  BY SocketTypes DEF Now
<1>2. \A m \in 1..Now : m # Now => (Touched(m)' <=> Touched(m))
  BY DEF Touched
<1>3. (Now # 0 => attempts[Now] = This)' /\ (This # 0 => Now # 0 /\ turns[This].buffered \subseteq {Now})'
  BY <1>1 DEF TurnInv
<1>4. (\A m, o \in 1..Now : m < o /\ attempts[m] = attempts[o] => o = m + 1 /\ turns[attempts[m]].replays = 1)'
  BY <1>1 DEF TurnInv
<1>5. (\A m \in 1..Now : m # Now /\ attempts[m] = This => ~Touched(m))'
  BY <1>1, <1>2 DEF TurnInv
<1>6. (\A m, o \in 1..Now : attempts[m] = attempts[o] /\ Touched(m) /\ Touched(o) => m = o)'
  <2> SUFFICES ASSUME NEW m \in 1..Now, NEW o \in 1..Now, attempts[m] = attempts[o], Touched(m)', Touched(o)', m # o
               PROVE FALSE
    BY <1>1
  <2>1. CASE m = Now
    BY <1>1, <1>2, <2>1 DEF TurnInv
  <2>2. CASE o = Now
    BY <1>1, <1>2, <2>2 DEF TurnInv
  <2>3. CASE m # Now /\ o # Now
    BY <1>1, <1>2, <2>3 DEF TurnInv
  <2> QED
    BY <2>1, <2>2, <2>3
<1> QED
  BY <1>3, <1>4, <1>5, <1>6 DEF TurnInv

\* The end of handleUpstreamSocketMessage: the turn is finalized, or the frame sent.
LEMMA Concluded ==
  ASSUME SocketInv, NEW h \in Handlers, NEW e, e.att = Now, e.kind \in Terminal, Now # 0,
         answers[Now] = 0, \A q \in Procs : q # h => proc[q].pc = "idle", waiting,
         Conclude(h, e), UNCHANGED <<active, attempts>>,
         Len(socks') = Len(socks), \A s \in 1..Len(socks) : ~Pending(s)'
  PROVE  TurnType' /\ FlowInv' /\ ProcInv' /\ TurnInv' /\ MuteInv'
<1>t. /\ Now \in Nat /\ This \in Nat /\ Now' = Now /\ h \in Procs /\ h # Create
      /\ \A t \in 1..This : turns[t] \in TurnRec
      /\ \A p \in Procs : proc[p] \in ProcRec
      /\ proc \in [Procs -> ProcRec]
  BY SocketTypes, ProxyReplayAssumption DEF SocketInv, SocketType, TurnType, Now, Procs
<1>1. CASE active = 0
  <2>1. Deliver({}, Now, TRUE) /\ proc' = [proc EXCEPT ![h] = Idle] /\ turns' = turns
    BY <1>1 DEF Conclude
  <2>2. /\ seen' \in SUBSET (1..Now) /\ answers' \in [1..Now -> 0..1]
        /\ down' = down /\ waiting' \in BOOLEAN
        /\ \A m \in 1..Now : m # Now => (m \in seen' <=> m \in seen) /\ answers'[m] = answers[m]
    BY <2>1, Delivered DEF SocketInv
  <2>3. This' = This /\ TurnRec' = TurnRec /\ ProcRec' = ProcRec
    BY <1>t, <2>1 DEF This, TurnRec, ProcRec
  <2>4. \A p \in Procs : proc'[p].pc = "idle"
    BY <1>t, <2>1 DEF Idle
  <2>5. Idle \in ProcRec
    BY <1>t DEF Idle, ProcRec, Places
  <2>6. TurnType'
    BY <1>t, <2>1, <2>2, <2>3, <2>5 DEF SocketInv, SocketType, TurnType
  <2>7. FlowInv'
    BY <2>4 DEF FlowInv, Working
  <2>8. ProcInv'
    BY <1>t, <2>4 DEF ProcInv, CreateFits, HandlerFits, Replaying, Procs
  <2>9. TurnInv'
    BY <1>t, <2>1, <2>2, <2>3, TurnKept DEF SocketInv
  <2>10. MuteInv'
    BY <1>1 DEF MuteInv
  <2> QED
    BY <2>6, <2>7, <2>8, <2>9, <2>10
<1>2. CASE active # 0
  <2> DEFINE r == [pc |-> "final", kind |-> e.kind, att |-> e.att, turn |-> active, acct |-> NoAccount]
  <2>0. active = This /\ This \in 1..This
    BY <1>2, <1>t DEF SocketInv, SocketType, TurnType
  <2>1. /\ proc' = [proc EXCEPT ![h] = r]
        /\ turns' = IF turns[This].locked THEN turns ELSE [turns EXCEPT ![This].buffered = {}]
        /\ \/ UNCHANGED clientVars
           \/ seen' = seen \cup turns[This].buffered /\ UNCHANGED <<down, waiting, answers>>
    BY <1>2, <2>0 DEF Conclude
  <2>2. r \in ProcRec
    BY <1>t, <2>0 DEF ProcRec, Places
  <2>3. turns[This].buffered \subseteq {Now}
    BY <2>0, <1>t DEF SocketInv, TurnInv
  <2>4. /\ down' = down /\ waiting' = waiting /\ answers' = answers
        /\ seen' \in SUBSET (1..Now)
        /\ \A m \in 1..Now : m # Now => (m \in seen' <=> m \in seen)
    <3>1. CASE UNCHANGED clientVars
      BY <3>1 DEF clientVars, SocketInv, SocketType, TurnType
    <3>2. CASE seen' = seen \cup turns[This].buffered /\ UNCHANGED <<down, waiting, answers>>
      <4>1. down' = down /\ waiting' = waiting /\ answers' = answers
        BY <3>2
      <4>2. seen' = seen \cup turns[This].buffered /\ seen \in SUBSET (1..Now)
        BY <3>2 DEF SocketInv, SocketType, TurnType
      <4>3. Now \in 1..Now
        BY <1>t
      <4>4. seen' \in SUBSET (1..Now)
        BY <4>2, <4>3, <2>3
      <4>5. \A m \in 1..Now : m # Now => (m \in seen' <=> m \in seen)
        BY <4>2, <2>3
      <4> QED
        BY <4>1, <4>4, <4>5
    <3> QED
      BY <2>1, <3>1, <3>2
  <2>5. /\ This' = This /\ turns' \in Seq(TurnRec)
        /\ \A t \in 1..This : /\ turns'[t].replays = turns[t].replays
                             /\ turns'[t].buffered \subseteq turns[t].buffered \cup {Now}
    <3>1. CASE turns' = turns
      BY <3>1 DEF This, SocketInv, SocketType, TurnType
    <3>2. CASE turns' = [turns EXCEPT ![This].buffered = {}]
      <4> DEFINE u == [turns[This] EXCEPT !.buffered = {}]
      <4>1. u \in TurnRec /\ u.replays = turns[This].replays /\ u.buffered = {}
        BY <1>t, <2>0 DEF TurnRec
      <4>2. turns' = [turns EXCEPT ![This] = u]
        BY <3>2
      <4> HIDE DEF u
      <4> QED
        BY <4>1, <4>2, <2>0, TurnChanged DEF SocketInv
    <3> QED
      BY <2>1, <3>1, <3>2
  <2>6. TurnRec' = TurnRec /\ ProcRec' = ProcRec
    BY <1>t, <2>5 DEF TurnRec, ProcRec
  <2> HIDE DEF r
  <2>7. TurnType'
    BY <1>t, <2>0, <2>1, <2>2, <2>4, <2>5, <2>6 DEF SocketInv, SocketType, TurnType
  <2>8. r.pc = "final" /\ r.kind = e.kind /\ r.att = Now
    BY DEF r
  <2>9. proc'[h] = r /\ \A q \in Procs : q # h => proc'[q].pc = "idle"
    BY <1>t, <2>1
  <2>10. FlowInv'
    BY <2>4, <2>9 DEF FlowInv, Working
  <2>11. ProcInv'
    BY <1>t, <2>4, <2>8, <2>9 DEF ProcInv, CreateFits, HandlerFits, Replaying, Procs
  <2>12. TurnInv'
    BY <1>t, <2>4, <2>5, TurnKept DEF SocketInv
  <2>13. MuteInv'
    BY <2>8, <2>9 DEF MuteInv
  <2> QED
    BY <2>7, <2>10, <2>11, <2>12, <2>13
<1> QED
  BY <1>1, <1>2

\* The sets the types are made of, while no turn begins and no request is sent.
LEMMA SameRecs ==
  ASSUME attempts' = attempts, This' = This
  PROVE  Now' = Now /\ TurnRec' = TurnRec /\ ProcRec' = ProcRec
  BY DEF Now, TurnRec, ProcRec

\* A handler goes on, with nothing on its way and nothing shown to the client.
LEMMA Moved ==
  ASSUME SocketInv, NEW p \in Procs, NEW r \in ProcRec, Working(p), proc[p].pc # "final",
         proc' = [proc EXCEPT ![p] = r],
         IF p = Create THEN CreateFits(r) ELSE HandlerFits(r),
         UNCHANGED <<active, turns, attempts, seen, answers, waiting>>, down' \in BOOLEAN,
         \A s \in 1..Len(socks') : FrameInv(s)' /\ ~Pending(s)'
  PROVE  TurnType' /\ SockInv' /\ FlowInv' /\ ProcInv' /\ TurnInv' /\ MuteInv'
<1>t. /\ Now \in Nat /\ This \in Nat /\ Now' = Now /\ This' = This
      /\ TurnRec' = TurnRec /\ ProcRec' = ProcRec
      /\ proc \in [Procs -> ProcRec]
      /\ \A q \in Procs : q # p => proc[q].pc = "idle"
      /\ waiting
  BY SocketTypes, Alone, SameRecs DEF SocketInv, SocketType, TurnType, Now, This
<1>1. proc' \in [Procs -> ProcRec] /\ proc'[p] = r /\ \A q \in Procs : q # p => proc'[q] = proc[q]
  BY <1>t
<1>2. TurnType'
  BY <1>t, <1>1 DEF SocketInv, SocketType, TurnType
<1>3. SockInv'
  BY DEF SockInv
<1>4. FlowInv'
  BY <1>t, <1>1 DEF FlowInv, Working
<1>5. ProcInv'
  <2>1. \A h \in Handlers : HandlerFits(proc[h])' <=> HandlerFits(proc'[h])
    BY <1>t DEF HandlerFits, Touched
  <2>2. CreateFits(proc[Create])' <=> CreateFits(proc'[Create])
    BY DEF CreateFits
  <2> QED
    BY <2>1, <2>2, <1>1, ProxyReplayAssumption DEF SocketInv, ProcInv, Procs
<1>6. TurnInv'
  BY <1>t DEF SocketInv, TurnInv, Touched
<1>7. MuteInv'
  BY <1>t, <1>1 DEF SocketInv, MuteInv, Touched, Procs
<1> QED
  BY <1>2, <1>3, <1>4, <1>5, <1>6, <1>7

\* A handler's record with another place and account.
LEMMA HandlersOnly ==
  ASSUME SocketInv, NEW p \in Procs, NEW c \in Places, NEW a \in Accounts \cup {NoAccount}
  PROVE  /\ [proc[p] EXCEPT !.pc = c] \in ProcRec
         /\ [proc[p] EXCEPT !.pc = c, !.acct = a] \in ProcRec
         /\ [proc EXCEPT ![p].pc = c] = [proc EXCEPT ![p] = [proc[p] EXCEPT !.pc = c]]
         /\ [proc EXCEPT ![p].pc = c, ![p].acct = a] = [proc EXCEPT ![p] = [proc[p] EXCEPT !.pc = c, !.acct = a]]
         /\ Idle \in ProcRec /\ CreateFits(Idle) /\ HandlerFits(Idle)
<1>1. proc[p] \in ProcRec /\ proc \in [Procs -> ProcRec] /\ Now \in Nat /\ This \in Nat
  BY SocketTypes DEF SocketInv, SocketType, TurnType
<1>2. Idle \in ProcRec
  BY <1>1 DEF Idle, ProcRec, Places
<1>3. CreateFits(Idle) /\ HandlerFits(Idle)
  BY DEF Idle, CreateFits, HandlerFits, Replaying
<1>4. [proc[p] EXCEPT !.pc = c] \in ProcRec /\ [proc[p] EXCEPT !.pc = c, !.acct = a] \in ProcRec
  BY <1>1 DEF ProcRec
<1> QED
  BY <1>1, <1>2, <1>3, <1>4

\* ensureSyntheticUpstreamSocket takes the socket out of the context and closes it.
LEMMA Dropped ==
  ASSUME SocketInv, NEW p \in Procs, NEW a \in Accounts, Working(p), proc[p].pc # "final",
         p # Create => HandlerFits([proc[p] EXCEPT !.pc = "close", !.acct = a]),
         DropUpstream(p, a),
         UNCHANGED <<active, turns, attempts, seen, answers, waiting, down, fails, drops>>
  PROVE  SocketInv'
<1> DEFINE r == [proc[p] EXCEPT !.pc = "close", !.acct = a]
<1>0. proc[p] \in ProcRec /\ Len(socks) \in Nat /\ \A s \in 1..Len(socks) : socks[s] \in SockRec
  BY SocketTypes DEF SocketInv
<1>1. r \in ProcRec /\ proc' = [proc EXCEPT ![p] = r] /\ upSock' = 0 /\ upAcct' = NoAccount
  <2>1. "close" \in Places
    BY DEF Places
  <2>2. /\ r \in ProcRec
        /\ [proc EXCEPT ![p].pc = "close", ![p].acct = a] = [proc EXCEPT ![p] = r]
    BY <2>1, HandlersOnly
  <2> QED
    BY <2>2 DEF DropUpstream
<1>2. IF p = Create THEN CreateFits(r) ELSE HandlerFits(r)
  BY <1>0 DEF CreateFits, ProcRec
<1>3. /\ socks' \in Seq(SockRec) /\ Len(socks') = Len(socks)
      /\ \A s \in 1..Len(socks') : FrameInv(s)' /\ ~Pending(s)'
  <2>1. \A s \in 1..Len(socks) : FrameInv(s) /\ ~Pending(s)
    BY Alone DEF SocketInv, SockInv
  <2>2. CASE upSock = 0
    BY <2>1, <2>2 DEF DropUpstream, SocketInv, SocketType, WireType, FrameInv, Pending, Live
  <2>3. CASE upSock # 0
    <3> DEFINE e == [socks[upSock] EXCEPT !.st = "closing"]
    <3>1. upSock \in 1..Len(socks)
      BY <2>3, <1>0 DEF SocketInv, SocketType, WireType
    <3>2. /\ e \in SockRec /\ e.st = "closing" /\ e.inbox = socks[upSock].inbox
          /\ e.att = socks[upSock].att /\ e.phase = socks[upSock].phase
      BY <3>1, <1>0 DEF SockRec
    <3>3. socks' = [socks EXCEPT ![upSock] = e]
      BY <2>3 DEF DropUpstream
    <3> HIDE DEF e
    <3>4. /\ socks' \in Seq(SockRec) /\ Len(socks') = Len(socks) /\ socks'[upSock] = e
          /\ \A s \in 1..Len(socks) : s # upSock => socks'[s] = socks[s]
      BY <3>1, <3>2, <3>3, SockChanged DEF SocketInv
    <3>5. \A s \in 1..Len(socks) : FrameInv(s)'
      BY <2>1, <3>1, <3>2, <3>4 DEF FrameInv
    <3>6. \A s \in 1..Len(socks) : ~Pending(s)'
      BY <2>1, <3>1, <3>2, <3>4 DEF Pending, Live
    <3> QED
      BY <3>4, <3>5, <3>6
  <2> QED
    BY <2>2, <2>3
<1> HIDE DEF r
<1>4. TurnType' /\ SockInv' /\ FlowInv' /\ ProcInv' /\ TurnInv' /\ MuteInv'
  <2>1. down' \in BOOLEAN
    BY DEF SocketInv, SocketType, TurnType
  <2> QED
    BY <1>1, <1>2, <1>3, <2>1, Moved
<1>5. WireType'
  BY <1>1, <1>3, <1>0 DEF SocketInv, SocketType, WireType
<1> QED
  BY <1>4, <1>5 DEF SocketInv, SocketType

\* A handler goes on while the sockets stay as they are.
LEMMA MovedOnly ==
  ASSUME SocketInv, NEW p \in Procs, NEW r \in ProcRec, Working(p), proc[p].pc # "final",
         proc' = [proc EXCEPT ![p] = r],
         IF p = Create THEN CreateFits(r) ELSE HandlerFits(r),
         UNCHANGED <<active, turns, attempts, seen, answers, waiting, socks>>, down' \in BOOLEAN
  PROVE  TurnType' /\ SockInv' /\ FlowInv' /\ ProcInv' /\ TurnInv' /\ MuteInv'
<1>1. \A s \in 1..Len(socks) : FrameInv(s) /\ ~Pending(s)
  BY Alone DEF SocketInv, SockInv
<1>2. \A s \in 1..Len(socks') : FrameInv(s)' /\ ~Pending(s)'
  BY <1>1 DEF FrameInv, Pending, Live
<1> QED
  BY <1>2, Moved

\* Where a handler may go from where it is.
LEMMA Onward ==
  ASSUME SocketInv, NEW h \in Handlers, NEW c \in Replaying, proc[h].pc \in Replaying,
         NEW a \in Accounts
  PROVE  /\ HandlerFits([proc[h] EXCEPT !.pc = c, !.acct = a])
         /\ proc[h].pc # "select" => HandlerFits([proc[h] EXCEPT !.pc = c])
<1>1. proc[h] \in ProcRec
  BY SocketTypes DEF SocketInv, Procs
<1>2. HandlerFits(proc[h]) /\ c \in Places
  BY DEF SocketInv, ProcInv, Replaying, Places
<1>3. ASSUME NEW r \in ProcRec, r.pc = c, r.att = proc[h].att, r.kind = proc[h].kind, r.turn = proc[h].turn,
             r.acct \in Accounts
      PROVE  HandlerFits(r)
  BY <1>2, <1>3 DEF HandlerFits, Replaying
<1>4. HandlerFits([proc[h] EXCEPT !.pc = c, !.acct = a])
  <2> DEFINE r == [proc[h] EXCEPT !.pc = c, !.acct = a]
  <2>1. r \in ProcRec /\ r.pc = c /\ r.att = proc[h].att /\ r.kind = proc[h].kind /\ r.turn = proc[h].turn /\ r.acct = a
    BY <1>1, <1>2 DEF ProcRec
  <2> QED
    BY <1>3, <2>1
<1>5. ASSUME proc[h].pc # "select" PROVE HandlerFits([proc[h] EXCEPT !.pc = c])
  <2> DEFINE r == [proc[h] EXCEPT !.pc = c]
  <2>1. /\ r \in ProcRec /\ r.pc = c /\ r.att = proc[h].att
        /\ r.kind = proc[h].kind /\ r.turn = proc[h].turn /\ r.acct = proc[h].acct
    BY <1>1, <1>2 DEF ProcRec
  <2>2. proc[h].acct \in Accounts
    BY <1>2, <1>5 DEF HandlerFits
  <2> QED
    BY <1>3, <2>1, <2>2
<1> QED
  BY <1>4, <1>5

\* response.create ends: no account, or no connection.
LEMMA CreateEnds ==
  ASSUME SocketInv, Working(Create), proc[Create].pc # "final", proc' = [proc EXCEPT ![Create] = Idle],
         UNCHANGED <<upVars, active, turns, socks, attempts, seen, answers, waiting, drops>>,
         down' \in BOOLEAN, fails' \in 0..MaxOpenFails
  PROVE  SocketInv'
<1>0. Create \in Procs /\ "idle" \in Places /\ NoAccount \in Accounts \cup {NoAccount}
  BY DEF Procs, Places
<1>1. Idle \in ProcRec /\ CreateFits(Idle)
  BY <1>0, HandlersOnly
<1>2. TurnType' /\ SockInv' /\ FlowInv' /\ ProcInv' /\ TurnInv' /\ MuteInv'
  BY <1>0, <1>1, MovedOnly
<1>3. WireType'
  BY DEF SocketInv, SocketType, WireType, upVars
<1> QED
  BY <1>2, <1>3 DEF SocketInv, SocketType

\* No account can be chosen: the turn ends with the connection.
LEMMA ChooseNoneStep == ASSUME SocketInv, ChooseNone PROVE SocketInv'
<1>1. Working(Create) /\ proc[Create].pc # "final"
  BY DEF ChooseNone, Working
<1>2. fails' \in 0..MaxOpenFails /\ down' \in BOOLEAN
  BY DEF ChooseNone, SocketInv, SocketType, WireType
<1> QED
  BY <1>1, <1>2, CreateEnds DEF ChooseNone

\* The previous upstream socket is closed, or is left to close by itself.
LEMMA CloseDoneStep == ASSUME SocketInv, NEW p \in Procs, CloseDone(p) PROVE SocketInv'
<1> DEFINE r == [proc[p] EXCEPT !.pc = "open"]
<1>0. /\ proc[p] \in ProcRec /\ Working(p) /\ proc[p].pc = "close" /\ proc[p].pc # "final"
      /\ "open" \in Places /\ "open" \in Replaying /\ NoAccount \in Accounts \cup {NoAccount}
  BY SocketTypes DEF CloseDone, SocketInv, Working, Places, Replaying
<1>1. r \in ProcRec /\ proc' = [proc EXCEPT ![p] = r]
  BY <1>0, HandlersOnly DEF CloseDone
<1>2. IF p = Create THEN CreateFits(r) ELSE HandlerFits(r)
  <2>1. CASE p = Create
    BY <1>0, <2>1 DEF CreateFits, ProcRec, SocketInv, ProcInv
  <2>2. CASE p # Create
    <3>1. p \in Handlers /\ proc[p].pc \in Replaying /\ proc[p].acct \in Accounts
      BY <1>0, <2>2 DEF Procs, Replaying, SocketInv, ProcInv, HandlerFits
    <3> QED
      BY <2>2, <3>1, <1>0, Onward
  <2> QED
    BY <2>1, <2>2
<1> HIDE DEF r
<1>3. TurnType' /\ SockInv' /\ FlowInv' /\ ProcInv' /\ TurnInv' /\ MuteInv'
  <2>1. UNCHANGED <<active, turns, attempts, seen, answers, waiting, socks>> /\ down' \in BOOLEAN
    BY DEF CloseDone, clientVars, SocketInv, SocketType, TurnType
  <2> QED
    BY <1>0, <1>1, <1>2, <2>1, MovedOnly
<1>4. WireType'
  BY <1>0 DEF CloseDone, ProcRec, SocketInv, SocketType, WireType
<1> QED
  BY <1>3, <1>4 DEF SocketInv, SocketType

\* A handler that works concludes.
LEMMA HandlerConcludes ==
  ASSUME SocketInv, NEW h \in Handlers, Working(h), Conclude(h, proc[h]),
         UNCHANGED <<upVars, active, attempts, socks, drops>>, fails' \in 0..MaxOpenFails
  PROVE  SocketInv'
<1>1. /\ proc[h].att = Now /\ Now # 0 /\ answers[Now] = 0 /\ proc[h].kind \in Terminal
      /\ h \in Procs
  BY DEF SocketInv, ProcInv, HandlerFits, Working, Procs
<1>2. /\ \A q \in Procs : q # h => proc[q].pc = "idle"
      /\ \A s \in 1..Len(socks) : ~Pending(s)
      /\ waiting
  BY <1>1, Alone DEF SocketInv
<1>3. \A s \in 1..Len(socks) : ~Pending(s)'
  BY <1>2 DEF Pending, Live
<1>4. TurnType' /\ FlowInv' /\ ProcInv' /\ TurnInv' /\ MuteInv'
  BY <1>1, <1>2, <1>3, Concluded
<1>5. SockInv'
  BY <1>3 DEF SocketInv, SockInv, FrameInv
<1>6. WireType'
  BY DEF SocketInv, SocketType, WireType, upVars
<1> QED
  BY <1>4, <1>5, <1>6 DEF SocketInv, SocketType

\* An upstream cannot be connected to: the handler ends as one that fails.
LEMMA OpenFailsStep == ASSUME SocketInv, NEW p \in Procs, OpenFails(p) PROVE SocketInv'
<1>1. Working(p) /\ proc[p].pc # "final"
  BY DEF OpenFails, Working
<1>2. fails' \in 0..MaxOpenFails
  BY ProxyReplayAssumption DEF OpenFails, SocketInv, SocketType, WireType
<1>3. CASE p = Create
  <2>1. /\ proc' = [proc EXCEPT ![Create] = Idle] /\ down' \in BOOLEAN
        /\ UNCHANGED <<upVars, active, turns, socks, attempts, seen, answers, waiting, drops>>
    BY <1>3 DEF OpenFails
  <2> QED
    BY <1>1, <1>2, <1>3, <2>1, CreateEnds
<1>4. CASE p # Create
  <2>1. p \in Handlers /\ Conclude(p, proc[p]) /\ UNCHANGED <<upVars, active, attempts, socks, drops>>
    BY <1>4 DEF OpenFails, Procs
  <2> QED
    BY <1>1, <1>2, <2>1, HandlerConcludes
<1> QED
  BY <1>3, <1>4

\* The quota failure is recorded, and the turn is replayed or told of it.
LEMMA RecordedStep == ASSUME SocketInv, NEW h \in Handlers, Recorded(h) PROVE SocketInv'
<1>0. /\ h \in Procs /\ h # Create /\ Working(h) /\ proc[h].pc = "record" /\ proc[h].pc # "final"
      /\ proc[h] \in ProcRec /\ proc \in [Procs -> ProcRec]
  BY SocketTypes, ProxyReplayAssumption DEF Recorded, Working, Procs, SocketInv, SocketType, TurnType
<1>1. CASE Replayable(active, proc[h].kind)
  <2> DEFINE r == [proc[h] EXCEPT !.pc = "select", !.turn = active]
  <2>1. UNCHANGED <<upVars, active, turns, attempts, clientVars, socks, fails, drops>>
    BY <1>1 DEF Recorded
  <2>2. proc' = [proc EXCEPT ![h] = r]
    BY <1>0, <1>1 DEF Recorded
  <2>3. active = This /\ This # 0 /\ ~turns[This].locked /\ turns[This].replays = 0
    BY <1>1 DEF Replayable, SocketInv, SocketType, TurnType
  <2>4. This \in Nat /\ Now \in Nat
    BY SocketTypes DEF SocketInv
  <2>5. /\ r \in ProcRec /\ r.pc = "select" /\ r.turn = This /\ r.att = proc[h].att /\ r.kind = proc[h].kind
    <3>1. active \in 0..This /\ active = This /\ "select" \in Places
      BY <2>3, <2>4 DEF Places
    <3> QED
      BY <1>0, <3>1 DEF ProcRec
  <2>6. HandlerFits(proc[h])
    BY DEF SocketInv, ProcInv
  <2>7. ~Touched(Now)
    <3>1. \A g \in Handlers : proc[g].pc # "final"
      BY <1>0, Alone DEF SocketInv, Procs
    <3> QED
      BY <2>3, <3>1 DEF SocketInv, MuteInv
  <2> HIDE DEF r
  <2>8. HandlerFits(r)
    BY <1>0, <2>3, <2>5, <2>6, <2>7 DEF HandlerFits, Replaying
  <2>9. TurnType' /\ SockInv' /\ FlowInv' /\ ProcInv' /\ TurnInv' /\ MuteInv'
    <3>1. UNCHANGED <<active, turns, attempts, seen, answers, waiting, socks>> /\ down' \in BOOLEAN
      BY <2>1 DEF clientVars, SocketInv, SocketType, TurnType
    <3> QED
      BY <1>0, <2>2, <2>5, <2>8, <3>1, MovedOnly
  <2>10. WireType'
    BY <2>1 DEF SocketInv, SocketType, WireType, upVars
  <2> QED
    BY <2>9, <2>10 DEF SocketInv, SocketType
<1>2. CASE ~Replayable(active, proc[h].kind)
  <2>1. Conclude(h, proc[h]) /\ UNCHANGED <<upVars, active, attempts, socks, fails, drops>>
    BY <1>2 DEF Recorded
  <2>2. fails' \in 0..MaxOpenFails
    BY <2>1 DEF SocketInv, SocketType, WireType
  <2> QED
    BY <1>0, <2>1, <2>2, HandlerConcludes
<1> QED
  BY <1>1, <1>2

\* Another account is selected for the replay, or none: the turn fails.
LEMMA SelectReplayStep == ASSUME SocketInv, NEW h \in Handlers, SelectReplay(h) PROVE SocketInv'
<1>0. /\ h \in Procs /\ h # Create /\ Working(h) /\ proc[h].pc = "select" /\ proc[h].pc # "final"
      /\ proc[h].pc \in Replaying /\ {"close", "persist"} \subseteq Replaying /\ "persist" \in Places
  BY ProxyReplayAssumption DEF SelectReplay, Working, Procs, Replaying, Places
<1>1. ASSUME NEW a \in Accounts, DropUpstream(h, a), UNCHANGED <<turns, clientVars>>
      PROVE  SocketInv'
  <2>1. UNCHANGED <<active, turns, attempts, seen, answers, waiting, down, fails, drops>>
    BY <1>1 DEF SelectReplay, clientVars
  <2>2. HandlerFits([proc[h] EXCEPT !.pc = "close", !.acct = a])
    BY <1>0, Onward
  <2> QED
    BY <1>0, <1>1, <2>1, <2>2, Dropped
<1>2. ASSUME NEW a \in Accounts, proc' = [proc EXCEPT ![h].pc = "persist", ![h].acct = a],
             UNCHANGED <<upVars, socks, turns, clientVars>>
      PROVE  SocketInv'
  <2> DEFINE r == [proc[h] EXCEPT !.pc = "persist", !.acct = a]
  <2>1. UNCHANGED <<active, turns, attempts, seen, answers, waiting, socks>> /\ down' \in BOOLEAN
    BY <1>2 DEF SelectReplay, clientVars, SocketInv, SocketType, TurnType
  <2>2. HandlerFits(r)
    BY <1>0, Onward
  <2>3. r \in ProcRec /\ proc' = [proc EXCEPT ![h] = r]
    BY <1>0, <1>2, HandlersOnly
  <2> HIDE DEF r
  <2>4. TurnType' /\ SockInv' /\ FlowInv' /\ ProcInv' /\ TurnInv' /\ MuteInv'
    BY <1>0, <2>1, <2>2, <2>3, MovedOnly
  <2>5. WireType'
    BY <1>2 DEF SelectReplay, SocketInv, SocketType, WireType, upVars
  <2> QED
    BY <2>4, <2>5 DEF SocketInv, SocketType
<1>3. CASE Conclude(h, proc[h]) /\ UNCHANGED <<upVars, socks>>
  <2>1. UNCHANGED <<upVars, active, attempts, socks, drops>> /\ fails' \in 0..MaxOpenFails
    BY <1>3 DEF SelectReplay, SocketInv, SocketType, WireType
  <2> QED
    BY <1>0, <1>3, <2>1, HandlerConcludes
<1> QED
  BY <1>1, <1>2, <1>3 DEF SelectReplay, Candidates

\* The sockets when one is opened.
LEMMA SockAdded ==
  ASSUME SocketType, NEW e \in SockRec, socks' = Append(socks, e)
  PROVE  /\ socks' \in Seq(SockRec) /\ Len(socks') = Len(socks) + 1 /\ socks'[Len(socks) + 1] = e
         /\ \A r \in 1..Len(socks) : socks'[r] = socks[r]
<1>1. socks \in Seq(SockRec)
  BY DEF SocketType, WireType
<1> QED
  BY <1>1, AppendProperties

\* A new socket.
LEMMA NewSock ==
  ASSUME NEW a \in Accounts, NEW n \in Nat
  PROVE  Sock(a, n) \in SockRec /\ Sock(a, n).inbox = <<>> /\ Sock(a, n).att = n
<1>1. <<>> \in Seq(Frames)
  BY EmptySeq
<1> QED
  BY <1>1 DEF Sock, SockRec, Phases

\* The client sends a response.create, which it does only while nothing is on its way.
LEMMA ClientCreatesStep == ASSUME SocketInv, ClientCreates PROVE SocketInv'
<1> DEFINE r == [proc[Create] EXCEPT !.pc = "choose"]
<1>0. /\ Create \in Procs /\ "choose" \in Places /\ NoAccount \in Accounts \cup {NoAccount}
      /\ proc \in [Procs -> ProcRec] /\ proc[Create] \in ProcRec /\ Create \notin Handlers
      /\ Now' = Now /\ This' = This
  BY SocketTypes, ProxyReplayAssumption DEF ClientCreates, Procs, Places, SocketInv, SocketType, TurnType, Now, This
<1>1. r \in ProcRec /\ proc' = [proc EXCEPT ![Create] = r]
  BY <1>0, HandlersOnly DEF ClientCreates
<1>2. r.pc = "choose" /\ TurnRec' = TurnRec /\ ProcRec' = ProcRec
  BY <1>0, SameRecs DEF ClientCreates, ProcRec
<1> HIDE DEF r
<1>3. /\ \A p \in Procs : proc[p].pc = "idle"
      /\ \A s \in 1..Len(socks) : ~Pending(s)
  BY DEF ClientCreates, SocketInv, FlowInv, Working
<1>4. proc'[Create] = r /\ \A q \in Procs : q # Create => proc'[q].pc = "idle"
  BY <1>0, <1>1, <1>3
<1>5. SocketType'
  BY <1>0, <1>1, <1>2 DEF ClientCreates, SocketInv, SocketType, TurnType, WireType, upVars
<1>6. SockInv'
  BY <1>0 DEF ClientCreates, SocketInv, SockInv, FrameInv, Pending, Live
<1>7. FlowInv'
  <2>1. \A s \in 1..Len(socks') : ~Pending(s)'
    BY <1>3 DEF ClientCreates, Pending, Live
  <2> QED
    BY <1>4, <2>1 DEF ClientCreates, FlowInv, Working
<1>8. ProcInv'
  BY <1>0, <1>2, <1>4 DEF ProcInv, CreateFits, HandlerFits, Procs, Replaying
<1>9. TurnInv' /\ MuteInv'
  BY <1>0, <1>1, <1>3, <1>4 DEF ClientCreates, SocketInv, TurnInv, MuteInv, Touched, Procs
<1> QED
  BY <1>5, <1>6, <1>7, <1>8, <1>9 DEF SocketInv

\* The new socket of a replay.
LEMMA ReplayOpens == ASSUME SocketInv, NEW h \in Handlers, OpenDone(h) PROVE SocketInv'
<1> DEFINE r == [proc[h] EXCEPT !.pc = "persist"]
           e == Sock(proc[h].acct, 0)
<1>0. /\ h \in Procs /\ h # Create /\ Working(h) /\ proc[h].pc = "open" /\ proc[h].pc # "final"
      /\ proc[h].pc \in Replaying /\ "persist" \in Replaying /\ "persist" \in Places
      /\ NoAccount \in Accounts \cup {NoAccount} /\ Len(socks) \in Nat
  BY ProxyReplayAssumption, SocketTypes DEF OpenDone, Working, Procs, Replaying, Places, SocketInv
<1>1. proc[h].acct \in Accounts
  BY <1>0 DEF SocketInv, ProcInv, HandlerFits
<1>2. /\ socks' = Append(socks, e) /\ upSock' = Len(socks) + 1 /\ upAcct' = upAcct
      /\ proc' = [proc EXCEPT ![h].pc = "persist"]
      /\ UNCHANGED <<active, turns, attempts, seen, answers, waiting, down, fails, drops>>
  BY <1>0 DEF OpenDone
<1>3. e \in SockRec /\ e.inbox = <<>> /\ e.att = 0
  BY <1>1, NewSock
<1> HIDE DEF e
<1>4. /\ socks' \in Seq(SockRec) /\ Len(socks') = Len(socks) + 1 /\ socks'[Len(socks) + 1] = e
      /\ \A s \in 1..Len(socks) : socks'[s] = socks[s]
  BY <1>2, <1>3, SockAdded DEF SocketInv
<1>5. r \in ProcRec /\ proc' = [proc EXCEPT ![h] = r] /\ HandlerFits(r)
  BY <1>0, <1>1, <1>2, HandlersOnly, Onward
<1> HIDE DEF r
<1>6. \A s \in 1..Len(socks') : FrameInv(s)' /\ ~Pending(s)'
  <2>1. \A s \in 1..Len(socks) : FrameInv(s) /\ ~Pending(s)
    BY <1>0, Alone DEF SocketInv, SockInv
  <2>2. ASSUME NEW s \in 1..Len(socks) PROVE FrameInv(s)' /\ ~Pending(s)'
    BY <1>4, <2>1, <2>2 DEF FrameInv, Pending, Live
  <2>3. ASSUME NEW s \in {Len(socks) + 1} PROVE FrameInv(s)' /\ ~Pending(s)'
    <3>1. socks'[s].inbox = <<>> /\ Len(socks'[s].inbox) = 0 /\ socks'[s].att = 0
      BY <1>3, <1>4, EmptySeq
    <3> QED
      BY <3>1 DEF FrameInv, Pending, Live
  <2> QED
    BY <1>0, <1>4, <2>2, <2>3
<1>7. TurnType' /\ SockInv' /\ FlowInv' /\ ProcInv' /\ TurnInv' /\ MuteInv'
  <2>1. down' \in BOOLEAN
    BY <1>2 DEF SocketInv, SocketType, TurnType
  <2> QED
    BY <1>0, <1>2, <1>5, <1>6, <2>1, Moved
<1>8. WireType'
  BY <1>0, <1>2, <1>4 DEF SocketInv, SocketType, WireType
<1> QED
  BY <1>7, <1>8 DEF SocketInv, SocketType

\* A frame is taken from a socket.
LEMMA Taken ==
  ASSUME SocketInv, NEW s \in 1..Len(socks), NEW e, e = Head(socks[s].inbox), socks[s].inbox # <<>>,
         socks' = [socks EXCEPT ![s].inbox = Tail(@)]
  PROVE  /\ e.kind \in {"prelude", "output"} \cup Terminal
         /\ e.att = Now /\ Now # 0 /\ answers[Now] = 0 /\ waiting
         /\ \A q \in Procs : proc[q].pc = "idle"
         /\ socks' \in Seq(SockRec) /\ Len(socks') = Len(socks)
         /\ \A r \in 1..Len(socks) : FrameInv(r)'
         /\ \A r \in 1..Len(socks) : r # s => ~Pending(r)'
         /\ socks'[s].att = Now
         /\ e.kind \in Terminal => ~Pending(s)'
<1> DEFINE box == socks[s].inbox
           n == [socks[s] EXCEPT !.inbox = Tail(box)]
<1>1. Pending(s) /\ Len(socks) \in Nat /\ socks[s] \in SockRec
  BY SocketTypes DEF Pending, SocketInv
<1>2. /\ \A q \in Procs : proc[q].pc = "idle"
      /\ \A r \in 1..Len(socks) : r # s => ~Pending(r)
      /\ waiting
  BY <1>1, Delivering DEF SocketInv
<1>3. FrameInv(s) /\ socks[s].att = Now /\ Now # 0 /\ answers[Now] = 0
  BY <1>1 DEF SocketInv, SockInv
<1>4. box \in Seq(Frames) /\ box # <<>>
  BY <1>1 DEF SockRec
<1>5. /\ e \in Frames /\ Tail(box) \in Seq(Frames) /\ Len(Tail(box)) = Len(box) - 1
      /\ \A i \in 1..Len(Tail(box)) : Tail(box)[i] = box[i + 1]
      /\ Len(box) \in Nat /\ Len(box) # 0 /\ e = box[1]
  BY <1>4, HeadTailProperties, LenProperties, EmptySeq
<1>6. 1 \in 1..Len(box)
  BY <1>5
<1>7. e.att = Now /\ (e.kind \in Terminal => 1 = Len(box) /\ socks[s].phase \in Terminal)
  BY <1>3, <1>5, <1>6 DEF FrameInv
<1>8. /\ n \in SockRec /\ n.inbox = Tail(box) /\ n.att = Now /\ n.phase = socks[s].phase /\ n.st = socks[s].st
  BY <1>1, <1>3, <1>5 DEF SockRec
<1>9. socks' = [socks EXCEPT ![s] = n]
  OBVIOUS
<1>10. /\ socks' \in Seq(SockRec) /\ Len(socks') = Len(socks) /\ socks'[s] = n
       /\ \A r \in 1..Len(socks) : r # s => socks'[r] = socks[r]
  BY <1>8, <1>9, SockChanged DEF SocketInv
<1>11. \A r \in 1..Len(socks) : FrameInv(r)'
  <2>1. ASSUME NEW r \in 1..Len(socks), r # s PROVE FrameInv(r)'
    BY <1>10, <2>1 DEF SocketInv, SockInv, FrameInv
  <2>2. FrameInv(s)'
    <3> SUFFICES ASSUME NEW i \in 1..Len(Tail(box))
                 PROVE  /\ Tail(box)[i].att = Now
                        /\ Tail(box)[i].kind \in Terminal => i = Len(Tail(box)) /\ socks[s].phase \in Terminal
      BY <1>8, <1>10 DEF FrameInv
    <3>1. i + 1 \in 1..Len(box) /\ Tail(box)[i] = box[i + 1]
      BY <1>5
    <3>2. /\ box[i + 1].att = Now
          /\ box[i + 1].kind \in Terminal => i + 1 = Len(box) /\ socks[s].phase \in Terminal
      BY <3>1, <1>3 DEF FrameInv
    <3> QED
      BY <3>1, <3>2, <1>5
  <2> QED
    BY <2>1, <2>2
<1>12. \A r \in 1..Len(socks) : r # s => ~Pending(r)'
  BY <1>2, <1>10 DEF Pending, Live
<1>13. ASSUME e.kind \in Terminal PROVE ~Pending(s)'
  <2>1. Len(Tail(box)) = 0 /\ socks[s].phase \in Terminal
    BY <1>5, <1>7, <1>13
  <2>2. Tail(box) = <<>>
    BY <2>1, <1>5, EmptySeq
  <2> QED
    BY <2>1, <2>2, <1>8, <1>10 DEF Pending, Live, Terminal
<1> HIDE DEF box, n
<1>14. e.kind \in {"prelude", "output"} \cup Terminal
  BY <1>5 DEF Frames
<1> QED
  BY <1>2, <1>3, <1>7, <1>8, <1>10, <1>11, <1>12, <1>13, <1>14

\* A handler takes the last frame of the attempt.
LEMMA ReceiveTerminalStep ==
  ASSUME SocketInv, NEW s \in 1..Len(socks), NEW h \in Handlers, ReceiveTerminal(s, h)
  PROVE  SocketInv'
<1> DEFINE e == Head(socks[s].inbox)
<1>1. /\ socks[s].inbox # <<>> /\ e.kind \in Terminal
      /\ socks' = [socks EXCEPT ![s].inbox = Tail(@)]
      /\ UNCHANGED <<selection, upVars, active, attempts, fails, drops>>
  BY DEF ReceiveTerminal
<1> HIDE DEF e
<1>2. /\ e.att = Now /\ Now # 0 /\ answers[Now] = 0 /\ waiting
      /\ \A q \in Procs : proc[q].pc = "idle"
      /\ socks' \in Seq(SockRec) /\ Len(socks') = Len(socks)
      /\ \A r \in 1..Len(socks) : FrameInv(r)'
      /\ \A r \in 1..Len(socks) : ~Pending(r)'
  BY <1>1, Taken DEF e
<1>3. SockInv'
  BY <1>2 DEF SockInv
<1>4. WireType'
  BY <1>1, <1>2 DEF SocketInv, SocketType, WireType, upVars
<1>5. CASE Conclude(h, e)
  <2>1. TurnType' /\ FlowInv' /\ ProcInv' /\ TurnInv' /\ MuteInv'
    BY <1>1, <1>2, <1>5, Concluded
  <2> QED
    BY <1>3, <1>4, <2>1 DEF SocketInv, SocketType
<1>6. CASE /\ proc' = [proc EXCEPT ![h] = [Idle EXCEPT !.pc = "record", !.kind = e.kind, !.att = e.att]]
           /\ UNCHANGED <<turns, clientVars>>
  <2> DEFINE r == [Idle EXCEPT !.pc = "record", !.kind = e.kind, !.att = e.att]
  <2>0. /\ Now \in Nat /\ This \in Nat /\ h \in Procs /\ h # Create /\ Now' = Now /\ This' = This
        /\ TurnRec' = TurnRec /\ ProcRec' = ProcRec /\ proc \in [Procs -> ProcRec]
    BY <1>1, <1>6, SocketTypes, SameRecs, ProxyReplayAssumption DEF SocketInv, SocketType, TurnType, Procs, Now, This
  <2>1. r \in ProcRec /\ r.pc = "record" /\ r.att = Now /\ r.kind \in Terminal
    <3>1. "record" \in Places /\ e.kind \in Terminal /\ e.att = Now /\ Now \in 0..Now /\ 0 \in 0..This
      BY <2>0, <1>1, <1>2 DEF Places
    <3> QED
      BY <3>1 DEF Idle, ProcRec
  <2> HIDE DEF r
  <2>2. proc' = [proc EXCEPT ![h] = r] /\ UNCHANGED <<turns, down, waiting, seen, answers>>
    BY <1>6 DEF r, clientVars
  <2>3. proc'[h] = r /\ proc' \in [Procs -> ProcRec] /\ \A q \in Procs : q # h => proc'[q].pc = "idle"
    <3>1. proc'[h] = r /\ proc' \in [Procs -> ProcRec]
      BY <2>0, <2>1, <2>2
    <3>2. \A q \in Procs : q # h => proc'[q] = proc[q]
      BY <2>0, <2>2
    <3> QED
      BY <3>1, <3>2, <1>2
  <2>4. TurnType'
    BY <1>1, <2>0, <2>2, <2>3 DEF SocketInv, SocketType, TurnType
  <2>5. FlowInv'
    BY <1>2, <2>2, <2>3 DEF FlowInv, Working
  <2>6. ProcInv'
    BY <1>2, <2>0, <2>1, <2>2, <2>3 DEF ProcInv, CreateFits, HandlerFits, Replaying, Procs
  <2>7. TurnInv' /\ MuteInv'
    BY <1>1, <1>2, <2>0, <2>1, <2>2, <2>3 DEF SocketInv, TurnInv, MuteInv, Touched, Procs
  <2> QED
    BY <1>3, <1>4, <2>4, <2>5, <2>6, <2>7 DEF SocketInv, SocketType
<1> QED
  BY <1>5, <1>6 DEF ReceiveTerminal, e

\* The turn is finalized and its last frame forwarded.
LEMMA FinalizedStep == ASSUME SocketInv, NEW h \in Handlers, Finalized(h) PROVE SocketInv'
<1>1. /\ Working(h) /\ h \in Procs /\ Now \in Nat /\ This \in Nat /\ proc \in [Procs -> ProcRec]
  BY SocketTypes DEF Finalized, Working, Procs, SocketInv, SocketType, TurnType
<1>2. proc[h].att = Now /\ Now # 0 /\ answers[Now] = 0
  BY <1>1 DEF SocketInv, ProcInv, HandlerFits, Working
<1>3. /\ \A q \in Procs : q # h => proc[q].pc = "idle"
      /\ \A s \in 1..Len(socks) : ~Pending(s)
  BY <1>1, Alone DEF SocketInv
<1>4. Deliver({}, Now, TRUE) /\ proc' = [proc EXCEPT ![h] = Idle] /\ active' = 0
      /\ UNCHANGED <<upVars, turns, socks, attempts, fails, drops>>
  BY <1>2 DEF Finalized
<1>5. /\ seen' \in SUBSET (1..Now) /\ answers' \in [1..Now -> 0..1]
      /\ down' = down /\ waiting' \in BOOLEAN
      /\ \A m \in 1..Now : m # Now => (m \in seen' <=> m \in seen) /\ answers'[m] = answers[m]
  BY <1>2, <1>4, Delivered DEF SocketInv
<1>6. This' = This /\ Now' = Now /\ TurnRec' = TurnRec /\ ProcRec' = ProcRec
  BY <1>4, SameRecs DEF This
<1>7. Idle \in ProcRec /\ \A q \in Procs : proc'[q].pc = "idle"
  BY <1>1, <1>3, <1>4 DEF Idle, ProcRec, Places
<1>8. TurnType'
  BY <1>1, <1>4, <1>5, <1>6, <1>7 DEF SocketInv, SocketType, TurnType
<1>9. WireType'
  BY <1>4 DEF SocketInv, SocketType, WireType, upVars
<1>10. SockInv' /\ FlowInv'
  <2>1. \A s \in 1..Len(socks') : ~Pending(s)' /\ FrameInv(s)'
    BY <1>3, <1>4 DEF SocketInv, SockInv, FrameInv, Pending, Live
  <2> QED
    BY <1>7, <2>1 DEF FlowInv, SockInv, Working
<1>11. ProcInv'
  BY <1>7 DEF ProcInv, CreateFits, HandlerFits, Replaying, Procs
<1>12. TurnInv'
  BY <1>1, <1>4, <1>5, <1>6, TurnKept DEF SocketInv
<1>13. MuteInv'
  BY <1>4 DEF MuteInv
<1> QED
  BY <1>8, <1>9, <1>10, <1>11, <1>12, <1>13 DEF SocketInv, SocketType

\* A socket goes on delivering.
LEMMA StillDelivering ==
  ASSUME NEW s \in 1..Len(socks), \A q \in Procs : proc[q].pc = "idle", proc' = proc, waiting',
         Len(socks') = Len(socks), \A r \in 1..Len(socks) : r # s => ~Pending(r)'
  PROVE  FlowInv' /\ ProcInv'
<1>1. FlowInv'
  BY DEF FlowInv, Working
<1>2. ProcInv'
  BY DEF ProcInv, CreateFits, HandlerFits, Replaying, Procs
<1> QED
  BY <1>1, <1>2

\* A frame that is not the last is buffered, or forwarded with those before it.
LEMMA ReceiveEventStep ==
  ASSUME SocketInv, NEW s \in 1..Len(socks), ReceiveEvent(s) PROVE SocketInv'
<1> DEFINE e == Head(socks[s].inbox)
<1>1. /\ socks[s].inbox # <<>> /\ e.kind \notin Terminal
      /\ socks' = [socks EXCEPT ![s].inbox = Tail(@)]
      /\ UNCHANGED <<selection, upVars, active, attempts, proc, fails, drops>>
  BY DEF ReceiveEvent
<1>e. \/ (active = 0 \/ turns[active].locked) /\ Deliver({}, e.att, FALSE) /\ turns' = turns
      \/ /\ active # 0 /\ ~turns[active].locked
         /\ turns' = [turns EXCEPT ![active].buffered = @ \cup {e.att}] /\ UNCHANGED clientVars
      \/ /\ active # 0 /\ ~turns[active].locked
         /\ turns' = [turns EXCEPT ![active] = [@ EXCEPT !.locked = TRUE, !.buffered = {}]]
         /\ Deliver(turns[active].buffered, e.att, FALSE)
  BY DEF ReceiveEvent
<1> HIDE DEF e
<1>2. /\ e.att = Now /\ Now # 0 /\ answers[Now] = 0 /\ waiting
      /\ \A q \in Procs : proc[q].pc = "idle"
      /\ socks' \in Seq(SockRec) /\ Len(socks') = Len(socks)
      /\ \A r \in 1..Len(socks) : FrameInv(r)'
      /\ \A r \in 1..Len(socks) : r # s => ~Pending(r)'
      /\ socks'[s].att = Now
  BY <1>1, Taken DEF e
<1>3. /\ Now \in Nat /\ This \in Nat /\ Now' = Now
      /\ active # 0 => active = This /\ This \in 1..This /\ turns[This] \in TurnRec
      /\ active # 0 => turns[This].buffered \subseteq {Now}
  BY <1>1, SocketTypes DEF SocketInv, SocketType, TurnType, TurnInv, Now
<1>4. /\ seen' \in SUBSET (1..Now) /\ answers' = answers
      /\ down' = down /\ waiting' = waiting
      /\ \A m \in 1..Now : m # Now => (m \in seen' <=> m \in seen)
  <2>1. CASE UNCHANGED clientVars
    BY <2>1 DEF clientVars, SocketInv, SocketType, TurnType
  <2>2. ASSUME NEW b, b \subseteq {Now}, Deliver(b, Now, FALSE)
        PROVE  /\ seen' \in SUBSET (1..Now) /\ answers' = answers
               /\ down' = down /\ waiting' = waiting
               /\ \A m \in 1..Now : m # Now => (m \in seen' <=> m \in seen)
    BY <2>2, <1>2, Delivered DEF SocketInv
  <2> QED
    BY <1>e, <1>2, <1>3, <2>1, <2>2
<1>5. /\ turns' \in Seq(TurnRec) /\ This' = This
      /\ \A t \in 1..This : /\ turns'[t].replays = turns[t].replays
                           /\ turns'[t].buffered \subseteq turns[t].buffered \cup {Now}
      /\ active # 0 /\ ~turns'[active].locked => seen' = seen
  <2>1. CASE (active = 0 \/ turns[active].locked) /\ turns' = turns
    BY <2>1, <1>3 DEF SocketInv, SocketType, TurnType, This
  <2>2. CASE /\ active # 0
             /\ turns' = [turns EXCEPT ![active].buffered = @ \cup {e.att}] /\ UNCHANGED clientVars
    <3> DEFINE u == [turns[This] EXCEPT !.buffered = @ \cup {Now}]
    <3>0. Now \in 1..Now
      BY <1>2, <1>3
    <3>1. u \in TurnRec /\ u.replays = turns[This].replays /\ u.buffered = turns[This].buffered \cup {Now}
      BY <2>2, <1>3, <3>0 DEF TurnRec
    <3>2. turns' = [turns EXCEPT ![This] = u] /\ seen' = seen
      BY <2>2, <1>2, <1>3 DEF clientVars
    <3> HIDE DEF u
    <3> QED
      BY <3>1, <3>2, <2>2, <1>3, TurnChanged DEF SocketInv
  <2>3. CASE active # 0 /\ turns' = [turns EXCEPT ![active] = [@ EXCEPT !.locked = TRUE, !.buffered = {}]]
    <3> DEFINE u == [turns[This] EXCEPT !.locked = TRUE, !.buffered = {}]
    <3>1. u \in TurnRec /\ u.replays = turns[This].replays /\ u.buffered = {} /\ u.locked
      BY <2>3, <1>3 DEF TurnRec
    <3>2. turns' = [turns EXCEPT ![This] = u]
      BY <2>3, <1>3
    <3> HIDE DEF u
    <3>3. /\ turns' \in Seq(TurnRec) /\ This' = This /\ turns'[This] = u
          /\ \A r \in 1..This : r # This => turns'[r] = turns[r]
      BY <3>1, <3>2, <2>3, <1>3, TurnChanged DEF SocketInv
    <3>4. active # 0 => turns'[active].locked
      BY <3>1, <3>3, <1>3
    <3>5. \A t \in 1..This : /\ turns'[t].replays = turns[t].replays
                           /\ turns'[t].buffered \subseteq turns[t].buffered \cup {Now}
      BY <3>1, <3>3
    <3> QED
      BY <3>3, <3>4, <3>5
  <2> QED
    BY <1>e, <2>1, <2>2, <2>3
<1>6. TurnRec' = TurnRec /\ ProcRec' = ProcRec
  BY <1>1, <1>5, SameRecs
<1>7. TurnType'
  BY <1>1, <1>3, <1>4, <1>5, <1>6 DEF SocketInv, SocketType, TurnType
<1>8. WireType'
  BY <1>1, <1>2 DEF SocketInv, SocketType, WireType, upVars
<1>9. SockInv'
  BY <1>2, <1>3, <1>4 DEF SockInv
<1>10. FlowInv' /\ ProcInv'
  BY <1>1, <1>2, <1>4, StillDelivering
<1>11. TurnInv'
  BY <1>1, <1>4, <1>5, TurnKept DEF SocketInv
<1>12. MuteInv'
  <2>1. active' # 0 /\ ~turns'[active'].locked => seen' = seen /\ ~turns[active].locked
    BY <1>e, <1>1, <1>5, <1>3
  <2> QED
    BY <2>1, <1>1, <1>2, <1>3, <1>4 DEF SocketInv, MuteInv, Touched, Procs
<1> QED
  BY <1>7, <1>8, <1>9, <1>10, <1>11, <1>12 DEF SocketInv, SocketType

\* The upstream sends a frame: here an attempt must end in one failure at most.
LEMMA EmitStep ==
  ASSUME DoubleFailure = FALSE, SocketInv, NEW s \in 1..Len(socks), Emit(s) PROVE SocketInv'
<1>0. PICK k \in Follows[socks[s].phase] :
        socks' = [socks EXCEPT ![s].inbox = Append(@, [kind |-> k, att |-> socks[s].att]),
                               ![s].phase = IF @ = "quota" THEN "end" ELSE k]
  BY DEF Emit
<1>1. /\ socks[s].st = "open" /\ socks[s].att # 0
      /\ UNCHANGED <<upVars, active, turns, attempts, proc, clientVars, fails, drops>>
  BY DEF Emit
<1>2. /\ socks[s].phase \in {"new", "prelude", "output"}
      /\ k \in {"prelude", "output"} \cup Terminal
  BY <1>0 DEF Emit, Follows, Terminal
<1> DEFINE f == [kind |-> k, att |-> Now]
           box == socks[s].inbox
           n == [socks[s] EXCEPT !.inbox = Append(box, f), !.phase = k]
<1>3. Pending(s) /\ socks[s] \in SockRec /\ Now \in Nat /\ This \in Nat
  BY <1>1, <1>2, SocketTypes DEF Pending, Live, SocketInv
<1>4. FrameInv(s) /\ socks[s].att = Now /\ Now # 0 /\ answers[Now] = 0
  BY <1>3 DEF SocketInv, SockInv
<1>5. f \in Frames /\ f.kind = k /\ f.att = Now
  BY <1>2, <1>3 DEF Frames
<1>6. box \in Seq(Frames) /\ Len(box) \in Nat
  BY <1>3, LenProperties DEF SockRec
<1> HIDE DEF f
<1>7. /\ Append(box, f) \in Seq(Frames) /\ Len(Append(box, f)) = Len(box) + 1
      /\ \A i \in 1..Len(box) : Append(box, f)[i] = box[i]
      /\ Append(box, f)[Len(box) + 1] = f
  BY <1>5, <1>6, AppendProperties
<1>8. k \in Phases /\ socks[s].phase # "quota"
  BY <1>2 DEF Phases, Terminal
<1>9. /\ n \in SockRec /\ n.inbox = Append(box, f) /\ n.att = Now /\ n.phase = k
  BY <1>3, <1>4, <1>7, <1>8 DEF SockRec
<1>10. socks' = [socks EXCEPT ![s] = n]
  BY <1>0, <1>4, <1>8 DEF f
<1>11. /\ socks' \in Seq(SockRec) /\ Len(socks') = Len(socks) /\ socks'[s] = n
       /\ \A r \in 1..Len(socks) : r # s => socks'[r] = socks[r]
  BY <1>9, <1>10, SockChanged DEF SocketInv
<1>12. \A r \in 1..Len(socks) : FrameInv(r)'
  <2>1. ASSUME NEW r \in 1..Len(socks), r # s PROVE FrameInv(r)'
    BY <1>11, <2>1 DEF SocketInv, SockInv, FrameInv
  <2>2. FrameInv(s)'
    <3> SUFFICES ASSUME NEW i \in 1..(Len(box) + 1)
                 PROVE  /\ Append(box, f)[i].att = Now
                        /\ Append(box, f)[i].kind \in Terminal => i = Len(box) + 1 /\ k \in Terminal
      BY <1>7, <1>9, <1>11 DEF FrameInv
    <3>1. CASE i \in 1..Len(box)
      <4>1. Append(box, f)[i] = box[i] /\ box[i].att = Now /\ box[i].kind \notin Terminal
        BY <3>1, <1>2, <1>4, <1>7 DEF FrameInv, Terminal
      <4> QED
        BY <4>1
    <3>2. CASE i = Len(box) + 1
      BY <3>2, <1>5, <1>7
    <3> QED
      BY <1>6, <3>1, <3>2
  <2> QED
    BY <2>1, <2>2
<1>13. /\ \A q \in Procs : proc[q].pc = "idle"
       /\ \A r \in 1..Len(socks) : r # s => ~Pending(r)
       /\ waiting
  BY <1>3, Delivering DEF SocketInv
<1>14. \A r \in 1..Len(socks) : r # s => ~Pending(r)'
  BY <1>11, <1>13 DEF Pending, Live
<1> HIDE DEF n, box
<1>15. SockInv'
  <2>1. answers' = answers /\ Now' = Now /\ socks'[s].att = Now
    BY <1>1, <1>9, <1>11 DEF clientVars, Now
  <2> QED
    BY <2>1, <1>4, <1>11, <1>12, <1>14 DEF SockInv
<1>16. FlowInv' /\ ProcInv'
  BY <1>1, <1>11, <1>13, <1>14, StillDelivering DEF clientVars
<1>17. This' = This /\ Now' = Now /\ TurnRec' = TurnRec /\ ProcRec' = ProcRec
  BY <1>1, SameRecs DEF This
<1>18. SocketType'
  BY <1>1, <1>11, <1>17 DEF SocketInv, SocketType, TurnType, WireType, upVars, clientVars
<1>19. TurnInv' /\ MuteInv'
  BY <1>1, <1>17 DEF SocketInv, TurnInv, MuteInv, Touched, clientVars
<1> QED
  BY <1>15, <1>16, <1>18, <1>19 DEF SocketInv

\* A connection ends.
LEMMA Ended ==
  ASSUME SocketInv, NEW s \in 1..Len(socks), socks[s].inbox = <<>>, socks' = [socks EXCEPT ![s].st = "closed"],
         UNCHANGED <<turns, attempts, proc, waiting, seen, answers, fails>>,
         upAcct' \in {upAcct, NoAccount}, upSock' \in {upSock, 0}, active' \in {active, 0},
         down' \in BOOLEAN, drops' \in 0..MaxDrops
  PROVE  SocketInv'
<1> DEFINE n == [socks[s] EXCEPT !.st = "closed"]
<1>1. socks[s] \in SockRec /\ Len(socks) \in Nat /\ \A q \in Procs : proc[q] \in ProcRec
  BY SocketTypes DEF SocketInv
<1>2. n \in SockRec /\ n.inbox = <<>> /\ n.st = "closed"
  BY <1>1 DEF SockRec
<1> HIDE DEF n
<1>3. socks' = [socks EXCEPT ![s] = n]
  BY DEF n
<1>4. /\ socks' \in Seq(SockRec) /\ Len(socks') = Len(socks) /\ socks'[s] = n
      /\ \A r \in 1..Len(socks) : r # s => socks'[r] = socks[r]
  BY <1>2, <1>3, SockChanged DEF SocketInv
<1>5. This' = This /\ Now' = Now /\ TurnRec' = TurnRec /\ ProcRec' = ProcRec
  BY SameRecs DEF This
<1>6. SocketType'
  BY <1>1, <1>4, <1>5 DEF SocketInv, SocketType, TurnType, WireType
<1>7. /\ ~Pending(s)' /\ FrameInv(s)'
      /\ \A r \in 1..Len(socks) : r # s => FrameInv(r)' /\ (Pending(r)' => Pending(r))
  <2>1. Len(<<>>) = 0
    BY EmptySeq
  <2>2. ~Pending(s)' /\ FrameInv(s)'
    BY <1>2, <1>4, <2>1 DEF FrameInv, Pending, Live
  <2>3. ASSUME NEW r \in 1..Len(socks), r # s PROVE FrameInv(r)' /\ (Pending(r)' => Pending(r))
    BY <1>4, <2>3 DEF SocketInv, SockInv, FrameInv, Pending, Live
  <2> QED
    BY <2>2, <2>3
<1>8. SockInv'
  BY <1>4, <1>5, <1>7 DEF SocketInv, SockInv
<1>9. FlowInv'
  BY <1>4, <1>7 DEF SocketInv, FlowInv, Working
<1>10. ProcInv' /\ TurnInv'
  BY <1>5 DEF SocketInv, ProcInv, CreateFits, HandlerFits, Touched, TurnInv
<1>11. MuteInv'
  BY <1>5 DEF SocketInv, MuteInv, Touched
<1> QED
  BY <1>6, <1>8, <1>9, <1>10, <1>11 DEF SocketInv

\* A closing socket is closed.
LEMMA ClosedStep == ASSUME SocketInv, NEW s \in 1..Len(socks), Closed(s) PROVE SocketInv'
<1>1. /\ socks[s].inbox = <<>> /\ socks' = [socks EXCEPT ![s].st = "closed"]
      /\ UNCHANGED <<turns, attempts, proc, waiting, seen, answers, fails, upAcct, upSock, active, down, drops>>
  BY DEF Closed, upVars, clientVars
<1>2. down' \in BOOLEAN /\ drops' \in 0..MaxDrops
  BY <1>1 DEF SocketInv, SocketType, TurnType, WireType
<1> QED
  BY <1>1, <1>2, Ended

\* The upstream breaks the connection while nothing of the attempt is on its way.
LEMMA DropsStep == ASSUME SocketInv, NEW s \in 1..Len(socks), Drops(s) PROVE SocketInv'
<1>1. /\ socks[s].inbox = <<>> /\ socks' = [socks EXCEPT ![s].st = "closed"]
      /\ UNCHANGED <<turns, attempts, proc, waiting, seen, answers, fails>>
      /\ upAcct' \in {upAcct, NoAccount} /\ upSock' \in {upSock, 0} /\ active' \in {active, 0}
  BY DEF Drops, upVars
<1>2. down' \in BOOLEAN
  BY DEF Drops, SocketInv, SocketType, TurnType
<1>3. drops' \in 0..MaxDrops
  BY ProxyReplayAssumption DEF Drops, SocketInv, SocketType, WireType
<1> QED
  BY <1>1, <1>2, <1>3, Ended

\* A request is appended, of turn t; it is what socket s works on, if anything does.
Asks(t) ==
  /\ attempts' = Append(attempts, t)
  /\ answers' = [n \in 1..Len(attempts') |-> IF n \in DOMAIN answers THEN answers[n] ELSE 0]
OnlyOn(s) ==
  \A r \in 1..Len(socks) : FrameInv(r) /\ (Pending(r) => r = s /\ socks[r].att = Now)

\* The requests after one is sent.
LEMMA Sent ==
  ASSUME SocketInv, This' \in Nat, This <= This', NEW t \in 1..This', Asks(t)
  PROVE  /\ Now \in Nat /\ This \in Nat /\ Now' = Now + 1 /\ attempts' \in Seq(1..This')
         /\ attempts'[Now'] = t /\ answers'[Now'] = 0 /\ answers' \in [1..Now' -> 0..1]
         /\ \A m \in 1..Now : attempts'[m] = attempts[m] /\ answers'[m] = answers[m] /\ attempts[m] \in 1..This
<1>1. /\ Now \in Nat /\ This \in Nat /\ attempts \in Seq(1..This)
      /\ answers \in [1..Now -> 0..1] /\ \A m \in 1..Now : attempts[m] \in 1..This
  BY SocketTypes DEF SocketInv, SocketType, TurnType
<1>2. attempts \in Seq(1..This')
  <2>1. 1..This \subseteq 1..This'
    BY <1>1
  <2> QED
    BY <1>1, <2>1, SeqMonotonic
<1>3. /\ attempts' \in Seq(1..This') /\ Now' = Now + 1
      /\ \A m \in 1..Now : attempts'[m] = attempts[m]
      /\ attempts'[Now + 1] = t
  BY <1>2, AppendProperties DEF Now, Asks
<1>4. answers' = [n \in 1..(Now + 1) |-> IF n \in 1..Now THEN answers[n] ELSE 0]
  BY <1>1, <1>3 DEF Now, Asks
<1> QED
  BY <1>1, <1>3, <1>4

\* What the sockets and the handlers are after it: one socket works on it, if any.
LEMMA SentOn ==
  ASSUME SocketInv, \A q \in Procs : proc'[q].pc = "idle", waiting', Now' \in Nat \ {0}, answers'[Now'] = 0,
         NEW s, OnlyOn(s)'
  PROVE  SockInv' /\ FlowInv' /\ ProcInv'
<1>1. SockInv'
  BY DEF SockInv, OnlyOn
<1>2. FlowInv'
  BY DEF FlowInv, Working, OnlyOn
<1>3. ProcInv'
  BY DEF ProcInv, CreateFits, HandlerFits, Replaying, Procs
<1> QED
  BY <1>1, <1>2, <1>3

\* A turn and what it is made of, when another request is sent.
LEMMA MoreRecs ==
  ASSUME Now \in Nat, Now' = Now + 1, This \in Nat, This' \in Nat, This <= This'
  PROVE  TurnRec \subseteq TurnRec' /\ ProcRec \subseteq ProcRec'
<1>1. 1..Now \subseteq 1..Now' /\ 0..Now \subseteq 0..Now' /\ 0..This \subseteq 0..This'
  OBVIOUS
<1> QED
  BY <1>1 DEF TurnRec, ProcRec

\* The turns after it.
LEMMA Appended ==
  ASSUME TurnInv, Now \in Nat, This \in Nat, Now' = Now + 1, This' \in Nat, attempts'[Now'] = This', answers'[Now'] = 0,
         \A m \in 1..Now : attempts'[m] = attempts[m] /\ answers'[m] = answers[m],
         seen' = seen, seen \subseteq 1..Now, turns'[This'].buffered = {},
         \A m \in 1..Now : turns[attempts[m]].replays = 1 => turns'[attempts[m]].replays = 1,
         \A m \in 1..Now : attempts[m] = This' => m = Now /\ turns'[This'].replays = 1 /\ ~Touched(m)
  PROVE  TurnInv' /\ ~Touched(Now)'
<1>1. \A x \in 1..Now' : x # Now' => x \in 1..Now
  OBVIOUS
<1>2. ~Touched(Now)' /\ \A m \in 1..Now : Touched(m)' <=> Touched(m)
  <2>1. Now' \notin seen'
    OBVIOUS
  <2> QED
    BY <2>1 DEF Touched
<1>3. (Now # 0 => attempts[Now] = This)' /\ (This # 0 => Now # 0 /\ turns[This].buffered \subseteq {Now})'
  OBVIOUS
<1>4. (\A m, o \in 1..Now : m < o /\ attempts[m] = attempts[o] => o = m + 1 /\ turns[attempts[m]].replays = 1)'
  <2> SUFFICES ASSUME NEW m \in 1..Now', NEW o \in 1..Now', m < o, attempts'[m] = attempts'[o]
               PROVE  o = m + 1 /\ turns'[attempts'[m]].replays = 1
    OBVIOUS
  <2>1. m \in 1..Now
    OBVIOUS
  <2>2. CASE o = Now'
    BY <2>1, <2>2
  <2>3. CASE o # Now'
    <3>1. o \in 1..Now
      BY <2>3, <1>1
    <3>2. o = m + 1 /\ turns[attempts[m]].replays = 1
      BY <2>1, <3>1 DEF TurnInv
    <3> QED
      BY <2>1, <3>2
  <2> QED
    BY <2>2, <2>3
<1>5. (\A m, o \in 1..Now : attempts[m] = attempts[o] /\ Touched(m) /\ Touched(o) => m = o)'
  <2> SUFFICES ASSUME NEW m \in 1..Now', NEW o \in 1..Now', attempts'[m] = attempts'[o], Touched(m)', Touched(o)'
               PROVE  m = o
    OBVIOUS
  <2>1. m # Now' /\ o # Now'
    BY <1>2 DEF Touched
  <2>2. m \in 1..Now /\ o \in 1..Now
    BY <2>1, <1>1
  <2>3. attempts[m] = attempts[o] /\ Touched(m) /\ Touched(o)
    BY <2>2, <1>2
  <2> QED
    BY <2>2, <2>3 DEF TurnInv
<1>6. (\A m \in 1..Now : m # Now /\ attempts[m] = This => ~Touched(m))'
  <2> SUFFICES ASSUME NEW m \in 1..Now', m # Now', attempts'[m] = This' PROVE ~Touched(m)'
    OBVIOUS
  <2>1. m \in 1..Now
    BY <1>1
  <2> QED
    BY <2>1, <1>2
<1> QED
  BY <1>2, <1>3, <1>4, <1>5, <1>6 DEF TurnInv

\* response.create starts a turn.
LEMMA TurnBegins ==
  ASSUME SocketInv, NEW a \in Accounts, Working(Create), StartTurn(a, 0),
         Asks(Len(turns')),
         proc' = [proc EXCEPT ![Create] = Idle], UNCHANGED <<down, waiting, seen>>,
         NEW s, OnlyOn(s)',
         WireType'
  PROVE  SocketInv'
<1>0. /\ Now \in Nat /\ This \in Nat /\ turns \in Seq(TurnRec)
      /\ \A t \in 1..This : turns[t] \in TurnRec
      /\ proc \in [Procs -> ProcRec] /\ Create \in Procs
      /\ \A q \in Procs : q # Create => proc[q].pc = "idle"
      /\ waiting
  BY SocketTypes, Alone DEF SocketInv, SocketType, TurnType, Procs
<1>1. /\ turns' = Append(turns, Turn(a)) /\ active' = This'
  BY DEF StartTurn, This
<1>2. /\ Turn(a).replays = 0 /\ Turn(a).buffered = {}
      /\ \A T : Turn(a) \in [acct : Accounts, locked : BOOLEAN, replays : 0..1, from : SUBSET Accounts,
                             buffered : SUBSET T]
  BY DEF Turn
<1>3. Turn(a) \in TurnRec /\ Turn(a) \in TurnRec'
  BY <1>2 DEF TurnRec
<1>4. /\ This' = This + 1 /\ turns'[This + 1] = Turn(a)
      /\ \A t \in 1..This : turns'[t] = turns[t]
  BY <1>0, <1>1, <1>3, AppendProperties DEF This
<1>5. /\ Now' = Now + 1 /\ attempts' \in Seq(1..This')
      /\ attempts'[Now'] = This' /\ answers'[Now'] = 0 /\ answers' \in [1..Now' -> 0..1]
      /\ \A m \in 1..Now : attempts'[m] = attempts[m] /\ answers'[m] = answers[m] /\ attempts[m] \in 1..This
  <2>1. This' \in Nat /\ This <= This' /\ This' \in 1..This' /\ Asks(This')
    BY <1>0, <1>4 DEF This
  <2> QED
    BY <2>1, Sent
<1>6. turns' \in Seq(TurnRec)'
  <2>1. TurnRec \subseteq TurnRec' /\ ProcRec \subseteq ProcRec'
    BY <1>0, <1>4, <1>5, MoreRecs
  <2>2. turns \in Seq(TurnRec')
    BY <1>0, <2>1, SeqMonotonic
  <2> QED
    BY <1>1, <1>3, <2>2, AppendProperties
<1>7. proc' \in [Procs -> ProcRec]' /\ \A q \in Procs : proc'[q].pc = "idle"
  <2>1. ProcRec \subseteq ProcRec'
    BY <1>0, <1>4, <1>5, MoreRecs
  <2>2. Idle \in ProcRec' /\ Idle.pc = "idle"
    BY <1>0, <1>4, <1>5 DEF Idle, ProcRec, Places
  <2> QED
    BY <1>0, <2>1, <2>2
<1>8. seen' \in SUBSET (1..Now)'
  BY <1>0, <1>5 DEF SocketInv, SocketType, TurnType
<1>9. TurnType'
  BY <1>1, <1>5, <1>6, <1>7, <1>8 DEF SocketInv, SocketType, TurnType
<1>10. SockInv' /\ FlowInv' /\ ProcInv'
  <2>1. Now' \in Nat \ {0}
    BY <1>0, <1>5
  <2>2. waiting'
    BY <1>0
  <2>3. answers'[Now'] = 0 /\ \A q \in Procs : proc'[q].pc = "idle"
    BY <1>5, <1>7
  <2> QED
    BY <2>1, <2>2, <2>3, SentOn
<1>11. seen \subseteq 1..Now
  BY DEF SocketInv, SocketType, TurnType
<1>12. TurnInv' /\ ~Touched(Now)'
  <2>1. turns'[This'].buffered = {}
    BY <1>2, <1>4
  <2>2. \A m \in 1..Now : turns[attempts[m]].replays = 1 => turns'[attempts[m]].replays = 1
    BY <1>4, <1>5
  <2>3. \A m \in 1..Now : attempts[m] # This'
    <3>1. \A m \in 1..Now : attempts[m] \in 1..This
      BY <1>5
    <3> QED
      BY <3>1, <1>0, <1>4
  <2>4. TurnInv /\ This' \in Nat
    BY <1>0, <1>4 DEF SocketInv
  <2> QED
    BY <1>0, <1>5, <1>11, <2>1, <2>2, <2>3, <2>4, Appended
<1>14. MuteInv'
  BY <1>12 DEF MuteInv
<1> QED
  BY <1>9, <1>10, <1>12, <1>14 DEF SocketInv, SocketType

\* The request goes out on socket s, or nowhere if there is none.
LEMMA Requested ==
  ASSUME SocketInv, NEW p \in Procs, Working(p), NEW s \in 0..Len(socks), NEW t, Request(s, t), Now' = Now + 1
  PROVE  Asks(t) /\ OnlyOn(s)' /\ socks' \in Seq(SockRec) /\ Len(socks') = Len(socks)
<1>0. Len(socks) \in Nat /\ Now \in Nat /\ (s # 0 => s \in 1..Len(socks) /\ socks[s] \in SockRec)
  BY SocketTypes DEF SocketInv
<1>1. Asks(t)
  BY DEF Request, Asks
<1>2. \A r \in 1..Len(socks) : FrameInv(r) /\ ~Pending(r)
  BY Alone DEF SocketInv, SockInv
<1>3. CASE s = 0
  <2>1. socks' = socks
    BY <1>3 DEF Request
  <2>2. OnlyOn(s)'
    BY <1>2, <2>1 DEF OnlyOn, FrameInv, Pending, Live
  <2> QED
    BY <1>1, <2>1, <2>2 DEF SocketInv, SocketType, WireType
<1>4. CASE s # 0
  <2> DEFINE e == [socks[s] EXCEPT !.att = Now', !.phase = "new"]
  <2>1. e \in SockRec /\ e.inbox = <<>> /\ e.att = Now'
    <3>1. socks[s] \in SockRec /\ socks[s].inbox = <<>> /\ Now' \in Nat /\ "new" \in Phases
      BY <1>0, <1>2, <1>4 DEF Pending, Phases
    <3> QED
      BY <3>1 DEF SockRec
  <2>2. socks' = [socks EXCEPT ![s] = e]
    BY <1>4 DEF Request, Now
  <2> HIDE DEF e
  <2>3. /\ socks' \in Seq(SockRec) /\ Len(socks') = Len(socks) /\ socks'[s] = e
        /\ \A r \in 1..Len(socks) : r # s => socks'[r] = socks[r]
    BY <1>0, <1>4, <2>1, <2>2, SockChanged DEF SocketInv
  <2>4. OnlyOn(s)'
    <3>1. ASSUME NEW r \in 1..Len(socks), r # s PROVE FrameInv(r)' /\ ~Pending(r)'
      BY <1>2, <2>3, <3>1 DEF FrameInv, Pending, Live
    <3>2. FrameInv(s)' /\ socks'[s].att = Now'
      <4>1. Len(<<>>) = 0
        BY EmptySeq
      <4> QED
        BY <2>1, <2>3, <4>1 DEF FrameInv
    <3> QED
      BY <2>3, <3>1, <3>2 DEF OnlyOn
  <2> QED
    BY <1>1, <2>3, <2>4
<1> QED
  BY <1>3, <1>4

\* The turn's account is chosen: the open socket serves it, or is replaced.
LEMMA ChooseStep == ASSUME SocketInv, Choose PROVE SocketInv'
<1>0. /\ Create \in Procs /\ Working(Create) /\ proc[Create].pc # "final"
      /\ UNCHANGED <<down, waiting, seen, fails, drops>>
  BY DEF Choose, Procs, Working
<1>1. PICK a \in Accounts :
        IF Usable(a)
          THEN /\ StartTurn(a, upSock)
               /\ Request(upSock, Len(turns'))
               /\ proc' = [proc EXCEPT ![Create] = Idle]
               /\ UNCHANGED upVars
          ELSE DropUpstream(Create, a) /\ UNCHANGED <<active, turns, attempts, answers>>
  BY DEF Choose, Choosable
<1>2. CASE ~Usable(a)
  BY <1>0, <1>1, <1>2, Dropped
<1>3. CASE Usable(a)
  <2>1. PICK s : s = upSock
    OBVIOUS
  <2>2. /\ StartTurn(a, 0) /\ Request(s, Len(turns')) /\ proc' = [proc EXCEPT ![Create] = Idle]
        /\ UNCHANGED upVars
    BY <1>1, <1>3, <2>1 DEF StartTurn
  <2>3. s \in 0..Len(socks)
    BY <2>1 DEF SocketInv, SocketType, WireType
  <2>4. Now' = Now + 1
    <3>1. attempts' = Append(attempts, Len(turns')) /\ turns' = Append(turns, Turn(a))
      BY <2>2 DEF Request, StartTurn
    <3>2. Turn(a) \in TurnRec /\ turns \in Seq(TurnRec) /\ attempts \in Seq(1..This)
      BY DEF Turn, TurnRec, SocketInv, SocketType, TurnType
    <3>3. Len(turns') \in Nat
      BY <3>1, <3>2, AppendProperties, LenProperties
    <3>4. This \in Nat
      BY SocketTypes DEF SocketInv
    <3>5. attempts \in Seq(Nat)
      <4>1. 1..This \subseteq Nat
        BY <3>4
      <4> QED
        BY <3>2, <4>1, SeqMonotonic
    <3> QED
      BY <3>1, <3>3, <3>5, AppendProperties DEF Now
  <2>5. Asks(Len(turns')) /\ OnlyOn(s)' /\ socks' \in Seq(SockRec) /\ Len(socks') = Len(socks)
    BY <1>0, <2>2, <2>3, <2>4, Requested
  <2>6. WireType'
    BY <1>0, <2>2, <2>5 DEF SocketInv, SocketType, WireType, upVars
  <2> QED
    BY <1>0, <2>2, <2>5, <2>6, TurnBegins
<1> QED
  BY <1>2, <1>3

\* The new socket of a response.create.
LEMMA CreateOpens == ASSUME SocketInv, OpenDone(Create) PROVE SocketInv'
<1>0. /\ Create \in Procs /\ Working(Create) /\ Len(socks) \in Nat /\ Now \in Nat
      /\ proc[Create].pc = "open" /\ UNCHANGED <<down, waiting, seen>>
  BY SocketTypes DEF OpenDone, Procs, Working, SocketInv
<1>1. PICK a \in Accounts : a = proc[Create].acct
  BY <1>0 DEF SocketInv, ProcInv, CreateFits
<1>2. /\ StartTurn(a, 0) /\ Asks(Len(turns')) /\ proc' = [proc EXCEPT ![Create] = Idle]
      /\ socks' = Append(socks, Sock(a, Len(attempts'))) /\ upSock' = Len(socks) + 1
      /\ UNCHANGED <<upAcct, fails, drops>>
  BY <1>1 DEF OpenDone, StartTurn, Asks
<1>3. Now' = Now + 1
  <2>1. attempts' = Append(attempts, Len(turns')) /\ turns' = Append(turns, Turn(a))
    BY <1>2 DEF Asks, StartTurn
  <2>2. Turn(a) \in TurnRec /\ turns \in Seq(TurnRec) /\ attempts \in Seq(1..This)
    BY DEF Turn, TurnRec, SocketInv, SocketType, TurnType
  <2>3. Len(turns') \in Nat
    BY <2>1, <2>2, AppendProperties, LenProperties
  <2>4. 1..This \subseteq Nat
    BY SocketTypes DEF SocketInv
  <2>5. attempts \in Seq(Nat)
    BY <2>2, <2>4, SeqMonotonic
  <2> QED
    BY <2>1, <2>3, <2>5, AppendProperties DEF Now
<1>4. PICK e \in SockRec : e = Sock(a, Now') /\ e.inbox = <<>> /\ e.att = Now'
  BY <1>0, <1>3, NewSock
<1>5. socks' = Append(socks, e)
  BY <1>2, <1>4 DEF Now
<1>6. /\ socks' \in Seq(SockRec) /\ Len(socks') = Len(socks) + 1 /\ socks'[Len(socks) + 1] = e
      /\ \A r \in 1..Len(socks) : socks'[r] = socks[r]
  BY <1>5, SockAdded DEF SocketInv
<1>7. PICK s : s = Len(socks) + 1
  OBVIOUS
<1>8. OnlyOn(s)'
  <2>1. \A r \in 1..Len(socks) : FrameInv(r) /\ ~Pending(r)
    BY <1>0, Alone DEF SocketInv, SockInv
  <2>2. ASSUME NEW r \in 1..Len(socks) PROVE FrameInv(r)' /\ ~Pending(r)'
    BY <1>6, <2>1, <2>2 DEF FrameInv, Pending, Live
  <2>3. FrameInv(s)' /\ socks'[s].att = Now'
    <3>1. Len(<<>>) = 0
      BY EmptySeq
    <3> QED
      BY <1>4, <1>6, <1>7, <3>1 DEF FrameInv
  <2>4. \A r \in 1..Len(socks') : r # s => r \in 1..Len(socks)
    BY <1>0, <1>6, <1>7
  <2> QED
    BY <2>2, <2>3, <2>4 DEF OnlyOn
<1>9. WireType'
  BY <1>0, <1>2, <1>6 DEF SocketInv, SocketType, WireType
<1> QED
  BY <1>0, <1>2, <1>8, <1>9, TurnBegins

\* The replay is sent on the new socket, and its account becomes the selected one.
LEMMA ReplayStep == ASSUME SocketInv, NEW h \in Handlers, Replay(h) PROVE SocketInv'
<1>0. /\ h \in Procs /\ h # Create /\ Working(h) /\ proc[h].pc = "persist" /\ proc[h].pc \in Replaying
      /\ "persist" \in Replaying \ {"select"}
  BY ProxyReplayAssumption DEF Replay, Procs, Working, Replaying
<1>1. /\ proc[h].turn = This /\ This # 0 /\ turns[This].replays = 0 /\ ~Touched(Now)
      /\ proc[h].acct \in Accounts /\ Now # 0
  BY <1>0 DEF SocketInv, ProcInv, HandlerFits
<1>2. /\ Now \in Nat /\ This \in Nat /\ turns \in Seq(TurnRec) /\ attempts \in Seq(1..This)
      /\ \A t \in 1..This : turns[t] \in TurnRec
      /\ proc \in [Procs -> ProcRec] /\ active \in {0, This} /\ seen \subseteq 1..Now
      /\ \A q \in Procs : q # h => proc[q].pc = "idle"
      /\ waiting /\ This \in 1..This
  BY <1>0, <1>1, SocketTypes, Alone DEF SocketInv, SocketType, TurnType
<1> DEFINE u == [Turn(proc[h].acct) EXCEPT !.replays = turns[This].replays + 1,
                                            !.from = turns[This].from \cup {turns[This].acct}]
<1>3. /\ turns' = [turns EXCEPT ![This] = u] /\ proc' = [proc EXCEPT ![h] = Idle]
      /\ UNCHANGED <<upVars, active, down, waiting, seen, fails, drops>>
  BY <1>1 DEF Replay
<1>4. u \in TurnRec /\ u.buffered = {} /\ u.replays = 1
  <2>1. /\ proc[h].acct \in Accounts /\ turns[This].replays + 1 = 1
        /\ turns[This].from \cup {turns[This].acct} \in SUBSET Accounts
    <3>1. turns[This].from \in SUBSET Accounts /\ turns[This].acct \in Accounts
      BY <1>2 DEF TurnRec
    <3> QED
      BY <3>1, <1>1
  <2>2. PICK v : v = Turn(proc[h].acct)
    OBVIOUS
  <2>3. v \in TurnRec /\ v.buffered = {}
    BY <2>1, <2>2 DEF Turn, TurnRec
  <2>4. PICK x : x = turns[This].from \cup {turns[This].acct} /\ x \in SUBSET Accounts
    BY <2>1
  <2>5. u = [v EXCEPT !.replays = 1, !.from = x]
    BY <2>1, <2>2, <2>4
  <2> HIDE DEF u
  <2>6. 1 \in 0..1
    OBVIOUS
  <2> QED
    BY <2>3, <2>4, <2>5, <2>6 DEF TurnRec
<1> HIDE DEF u
<1>6. /\ turns' \in Seq(TurnRec) /\ This' = This /\ turns'[This] = u
      /\ \A r \in 1..This : r # This => turns'[r] = turns[r]
  BY <1>2, <1>3, <1>4, TurnChanged DEF SocketInv
<1>7. PICK s, t : s = upSock /\ t = This
  OBVIOUS
<1>8. Request(s, t) /\ s \in 0..Len(socks)
  BY <1>1, <1>7 DEF Replay, SocketInv, SocketType, WireType
<1>9. Now' = Now + 1
  <2>1. attempts' = Append(attempts, This)
    BY <1>7, <1>8 DEF Request
  <2> QED
    BY <1>2, <2>1, AppendProperties DEF Now
<1>10. Asks(t) /\ OnlyOn(s)' /\ socks' \in Seq(SockRec) /\ Len(socks') = Len(socks)
  BY <1>0, <1>8, <1>9, Requested
<1>11. /\ attempts' \in Seq(1..This') /\ attempts'[Now'] = This' /\ answers'[Now'] = 0
       /\ answers' \in [1..Now' -> 0..1]
       /\ \A m \in 1..Now : attempts'[m] = attempts[m] /\ answers'[m] = answers[m]
       /\ \A m \in 1..Now : attempts[m] \in 1..This
  <2>1. This' \in Nat /\ This <= This' /\ t \in 1..This' /\ t = This'
    BY <1>2, <1>6, <1>7
  <2> QED
    BY <1>10, <2>1, Sent
<1>12. TurnRec \subseteq TurnRec' /\ ProcRec \subseteq ProcRec'
  BY <1>2, <1>6, <1>9, MoreRecs
<1>13. turns' \in Seq(TurnRec)'
  BY <1>6, <1>12, SeqMonotonic
<1>14. proc' \in [Procs -> ProcRec]' /\ \A q \in Procs : proc'[q].pc = "idle"
  <2>1. Idle \in ProcRec' /\ Idle.pc = "idle"
    BY <1>2, <1>6, <1>9 DEF Idle, ProcRec, Places
  <2> QED
    BY <1>2, <1>3, <1>12, <2>1
<1>15. TurnType'
  <2>1. seen' \in SUBSET (1..Now)'
    BY <1>2, <1>3, <1>9
  <2>2. active' \in {0, This'} /\ down' \in BOOLEAN /\ waiting' \in BOOLEAN
    BY <1>2, <1>3, <1>6 DEF SocketInv, SocketType, TurnType
  <2> QED
    BY <1>11, <1>13, <1>14, <2>1, <2>2 DEF TurnType
<1>16. WireType'
  BY <1>3, <1>10 DEF SocketInv, SocketType, WireType, upVars
<1>17. SockInv' /\ FlowInv' /\ ProcInv'
  <2>1. Now' \in Nat \ {0} /\ answers'[Now'] = 0
    BY <1>2, <1>9, <1>11
  <2>2. waiting'
    BY <1>2, <1>3
  <2> QED
    BY <1>10, <1>14, <2>1, <2>2, SentOn
<1>18. TurnInv' /\ ~Touched(Now)'
  <2>1. turns'[This'].buffered = {}
    BY <1>4, <1>6
  <2>2. \A m \in 1..Now : turns[attempts[m]].replays = 1 => turns'[attempts[m]].replays = 1
    <3>1. \A m \in 1..Now : turns[attempts[m]].replays = 1 => attempts[m] # This /\ attempts[m] \in 1..This
      BY <1>1, <1>11
    <3> QED
      BY <3>1, <1>6
  <2>3. \A m \in 1..Now : attempts[m] = This' => m = Now /\ turns'[This'].replays = 1 /\ ~Touched(m)
    <3> SUFFICES ASSUME NEW m \in 1..Now, attempts[m] = This PROVE m = Now
      BY <1>1, <1>4, <1>6
    <3>1. Now \in 1..Now /\ attempts[Now] = This
      BY <1>1, <1>2 DEF SocketInv, TurnInv
    <3>2. m < Now => turns[attempts[m]].replays = 1
      BY <3>1 DEF SocketInv, TurnInv
    <3> QED
      BY <1>1, <1>2, <3>2
  <2>4. TurnInv /\ This' \in Nat /\ seen' = seen
    BY <1>2, <1>3, <1>6 DEF SocketInv
  <2> QED
    BY <1>2, <1>9, <1>11, <2>1, <2>2, <2>3, <2>4, Appended
<1>19. MuteInv'
  BY <1>18 DEF MuteInv
<1> QED
  BY <1>15, <1>16, <1>17, <1>18, <1>19 DEF SocketInv, SocketType

-----------------------------------------------------------------------------

\* Every step of the websocket preserves its invariant.
LEMMA SocketStep ==
  ASSUME DoubleFailure = FALSE, SocketInv,
         Runs \/ ClientCreates \/ (\E p \in Procs : OpenFails(p)) \/ (\E s \in DOMAIN socks : Drops(s))
  PROVE  SocketInv'
<1>0. DOMAIN socks = 1..Len(socks)
  BY SocketTypes DEF SocketInv
<1>1. CASE ClientCreates
  BY <1>1, ClientCreatesStep
<1>2. CASE \E p \in Procs : OpenFails(p)
  BY <1>2, OpenFailsStep
<1>3. CASE \E s \in DOMAIN socks : Drops(s)
  BY <1>0, <1>3, DropsStep
<1>4. CASE Choose \/ ChooseNone
  BY <1>4, ChooseStep, ChooseNoneStep
<1>5. ASSUME NEW p \in Procs, CloseDone(p) \/ OpenDone(p) PROVE SocketInv'
  <2>1. CASE CloseDone(p)
    BY <2>1, CloseDoneStep
  <2>2. CASE OpenDone(p) /\ p = Create
    BY <2>2, CreateOpens
  <2>3. CASE OpenDone(p) /\ p \in Handlers
    BY <2>3, ReplayOpens
  <2> QED
    BY <1>5, <2>1, <2>2, <2>3 DEF Procs
<1>6. ASSUME NEW h \in Handlers, Recorded(h) \/ SelectReplay(h) \/ Replay(h) \/ Finalized(h) PROVE SocketInv'
  BY <1>6, RecordedStep, SelectReplayStep, ReplayStep, FinalizedStep
<1>7. ASSUME NEW s \in DOMAIN socks, ReceiveEvent(s) \/ Emit(s) \/ Closed(s) PROVE SocketInv'
  BY <1>0, <1>7, ReceiveEventStep, EmitStep, ClosedStep
<1>8. ASSUME NEW s \in DOMAIN socks, NEW h \in Handlers, ReceiveTerminal(s, h) PROVE SocketInv'
  BY <1>0, <1>8, ReceiveTerminalStep
<1> QED
  BY <1>1, <1>2, <1>3, <1>4, <1>5, <1>6, <1>7, <1>8 DEF Runs

\* The websocket stays as it is in the steps of the others.
LEMMA SocketStays == ASSUME SocketInv, UNCHANGED socketVars PROVE SocketInv'
<1> USE DEF socketVars, upVars, clientVars
<1>1. TurnRec' = TurnRec /\ ProcRec' = ProcRec /\ Now' = Now /\ This' = This
  BY DEF TurnRec, ProcRec, Now, This
<1>2. SocketType'
  BY <1>1 DEF SocketInv, SocketType, TurnType, WireType
<1>3. SockInv' /\ FlowInv'
  BY <1>1 DEF SocketInv, SockInv, FlowInv, FrameInv, Pending, Live, Working
<1>4. ProcInv' /\ TurnInv' /\ MuteInv'
  BY <1>1 DEF SocketInv, ProcInv, TurnInv, MuteInv, CreateFits, HandlerFits, Touched
<1> QED
  BY <1>2, <1>3, <1>4 DEF SocketInv

\* Before the first turn.
LEMMA SocketInit == NoTurn => SocketInv
<1> SUFFICES ASSUME NoTurn PROVE SocketInv
  OBVIOUS
<1>1. Now = 0 /\ This = 0 /\ Len(socks) = 0 /\ \A S : <<>> \in Seq(S)
  BY EmptySeq DEF NoTurn, Now, This
<1>2. Idle \in ProcRec /\ \A p \in Procs : proc[p] = Idle /\ proc[p].pc = "idle"
  BY <1>1 DEF NoTurn, Idle, ProcRec, Places
<1>3. TurnType
  <2>1. proc \in [Procs -> ProcRec]
    BY <1>2 DEF NoTurn
  <2>2. answers \in [1..Now -> 0..1]
    BY <1>1 DEF NoTurn
  <2> QED
    BY <1>1, <2>1, <2>2 DEF NoTurn, TurnType
<1>4. WireType
  BY <1>1, ProxyReplayAssumption DEF NoTurn, WireType
<1>5. SockInv /\ FlowInv
  BY <1>1, <1>2 DEF SockInv, FlowInv, Working
<1>6. ProcInv
  BY <1>2, ProxyReplayAssumption DEF ProcInv, CreateFits, HandlerFits, Replaying, Procs
<1>7. TurnInv /\ MuteInv
  BY <1>1 DEF NoTurn, TurnInv, MuteInv
<1> QED
  BY <1>3, <1>4, <1>5, <1>6, <1>7 DEF SocketInv, SocketType

-----------------------------------------------------------------------------

\* Two attempts that are the only ones of their set.
LEMMA AtMostTwo ==
  ASSUME NEW S, NEW n \in Nat, S \subseteq 1..n, NEW m \in S, S \subseteq {m, m + 1}
  PROVE  Cardinality(S) <= 2
<1>1. IsFiniteSet({m}) /\ Cardinality({m}) = 1
  BY FS_Singleton
<1>2. IsFiniteSet({m} \cup {m + 1}) /\ Cardinality({m} \cup {m + 1}) <= 2
  BY <1>1, FS_AddElement
<1>3. S \in SUBSET ({m} \cup {m + 1})
  OBVIOUS
<1>4. IsFiniteSet(S) /\ Cardinality(S) <= Cardinality({m} \cup {m + 1})
  BY <1>2, <1>3, FS_Subset
<1>5. Cardinality(S) \in Nat /\ Cardinality({m} \cup {m + 1}) \in Nat
  BY <1>2, <1>4, FS_CardinalityType
<1> QED
  BY <1>2, <1>4, <1>5

\* A set whose members are all the same.
LEMMA AtMostOne ==
  ASSUME NEW S, \A x, y \in S : x = y
  PROVE  Cardinality(S) <= 1
<1>1. CASE S = {}
  BY <1>1, FS_EmptySet
<1>2. CASE S # {}
  <2>1. PICK x : S = {x}
    BY <1>2
  <2> QED
    BY <2>1, FS_Singleton
<1> QED
  BY <1>1, <1>2

\* What the invariant says of the attempts of a turn.
LEMMA SocketPromise == SocketInv => TypeOK /\ OneReplay /\ OneAttemptSeen /\ OneAnswer
<1> SUFFICES ASSUME SocketInv PROVE TypeOK /\ OneReplay /\ OneAttemptSeen /\ OneAnswer
  OBVIOUS
<1>0. /\ Now \in Nat /\ This \in Nat /\ Len(socks) \in Nat
      /\ DOMAIN socks = 1..Len(socks) /\ DOMAIN turns = 1..This /\ DOMAIN attempts = 1..Now
      /\ \A s \in 1..Len(socks) : socks[s] \in SockRec
  BY SocketTypes DEF SocketInv
<1>1. TypeOK
  <2>1. turns \in Seq([acct : Accounts, locked : BOOLEAN, replays : 0..1, from : SUBSET Accounts,
                       buffered : SUBSET DOMAIN attempts])
    BY <1>0 DEF SocketInv, SocketType, TurnType, TurnRec
  <2>2. proc \in [Procs -> [pc : {"idle", "choose", "record", "select", "close", "open", "persist", "final"},
                            kind : Terminal \cup {"none"}, att : 0..Len(attempts),
                            turn : 0..Len(turns), acct : Accounts \cup {NoAccount}]]
    BY DEF SocketInv, SocketType, TurnType, ProcRec, Places, Now, This
  <2>3. \A s \in DOMAIN socks : socks[s].st \in {"open", "closing", "closed"}
    BY <1>0 DEF SockRec
  <2>4. /\ attempts \in Seq(1..Len(turns)) /\ DOMAIN answers = DOMAIN attempts
        /\ active \in 0..Len(turns) /\ seen \subseteq DOMAIN attempts
    <3>1. /\ attempts \in Seq(1..This) /\ answers \in [1..Now -> 0..1] /\ active \in {0, This}
          /\ seen \in SUBSET (1..Now)
      BY DEF SocketInv, SocketType, TurnType
    <3>2. This = Len(turns)
      BY DEF This
    <3>3. attempts \in Seq(1..Len(turns))
      BY <3>1, <3>2
    <3>4. active \in 0..Len(turns)
      BY DEF SocketInv, SocketType, TurnType, This
    <3>5. DOMAIN answers = DOMAIN attempts /\ seen \subseteq DOMAIN attempts
      BY <1>0, <3>1
    <3> QED
      BY <3>3, <3>4, <3>5
  <2> QED
    BY <2>1, <2>2, <2>3, <2>4 DEF TypeOK, SocketInv, SocketType, TurnType, WireType
<1>2. OneReplay
  <2> SUFFICES ASSUME NEW t \in DOMAIN turns PROVE Cardinality(AttemptsOf(t)) <= 2
    BY DEF OneReplay
  <2>1. AttemptsOf(t) \subseteq 1..Now
    BY <1>0 DEF AttemptsOf
  <2>2. CASE AttemptsOf(t) = {}
    BY <2>2, FS_EmptySet
  <2>3. CASE \E m \in AttemptsOf(t) : \A o \in AttemptsOf(t) : m <= o
    <3>1. PICK m \in AttemptsOf(t) : \A o \in AttemptsOf(t) : m <= o
      BY <2>3
    <3>2. \A o \in AttemptsOf(t) : o = m \/ o = m + 1
      <4> SUFFICES ASSUME NEW o \in AttemptsOf(t), o # m PROVE o = m + 1
        OBVIOUS
      <4>1. m < o /\ m \in 1..Now /\ o \in 1..Now /\ attempts[m] = attempts[o]
        BY <2>1, <3>1, <1>0 DEF AttemptsOf
      <4> QED
        BY <4>1 DEF SocketInv, TurnInv
    <3> QED
      BY <2>1, <3>2, <1>0, AtMostTwo
  <2>4. AttemptsOf(t) # {} => \E m \in AttemptsOf(t) : \A o \in AttemptsOf(t) : m <= o
    <3> SUFFICES ASSUME NEW x \in AttemptsOf(t), \A m \in AttemptsOf(t) : \E o \in AttemptsOf(t) : o < m
                 PROVE  FALSE
      BY <2>1, <1>0
    <3>1. PICK y \in AttemptsOf(t) : y < x
      OBVIOUS
    <3>2. PICK z \in AttemptsOf(t) : z < y
      OBVIOUS
    <3>3. x \in 1..Now /\ y \in 1..Now /\ z \in 1..Now
      BY <2>1
    <3>4. attempts[x] = attempts[y] /\ attempts[y] = attempts[z]
      BY DEF AttemptsOf
    <3>5. x = y + 1 /\ x = z + 1
      BY <3>1, <3>2, <3>3, <3>4, <1>0 DEF SocketInv, TurnInv
    <3> QED
      BY <3>2, <3>3, <3>5
  <2> QED
    BY <2>2, <2>3, <2>4
<1>3. \A t : \A m, o \in AttemptsOf(t) : Touched(m) /\ Touched(o) => m = o
  BY <1>0 DEF AttemptsOf, SocketInv, TurnInv
<1>4. OneAttemptSeen
  <2> SUFFICES ASSUME NEW t \in DOMAIN turns PROVE Cardinality(AttemptsOf(t) \cap seen) <= 1
    BY DEF OneAttemptSeen
  <2>1. \A m, o \in AttemptsOf(t) \cap seen : m = o
    BY <1>3 DEF Touched
  <2> QED
    BY <2>1, AtMostOne
<1>5. OneAnswer
  <2>1. answers \in [1..Now -> 0..1]
    BY DEF SocketInv, SocketType, TurnType
  <2>2. \A n \in DOMAIN answers : answers[n] <= 1
    BY <2>1
  <2>3. ASSUME NEW t \in DOMAIN turns PROVE Cardinality({n \in AttemptsOf(t) : answers[n] > 0}) <= 1
    <3>1. \A n \in AttemptsOf(t) : answers[n] > 0 => Touched(n)
      BY <2>1, <1>0 DEF AttemptsOf, Touched
    <3>2. \A m, o \in {n \in AttemptsOf(t) : answers[n] > 0} : m = o
      BY <1>3, <3>1
    <3> QED
      BY <3>2, AtMostOne
  <2> QED
    BY <2>2, <2>3 DEF OneAnswer
<1> QED
  BY <1>1, <1>2, <1>4, <1>5

-----------------------------------------------------------------------------

\* Whom the open socket belongs to: the selected account or, while a replay is about to
\* persist its own, the replay's; there is none while another is opened.
UpInv ==
  /\ ~elsewhere => selection \in Accounts
  /\ ~elsewhere /\ upSock # 0 /\ (\A p \in Procs : proc[p].pc # "persist") => upAcct = selection
  /\ \A p \in Procs : proc[p].pc = "persist" /\ upSock # 0 => upAcct = proc[p].acct
  /\ \A p \in Procs : proc[p].pc \in {"close", "open"} => upSock = 0
  /\ \A p \in Procs : proc[p].pc = "open" => upAcct = proc[p].acct
  /\ ~elsewhere /\ proc[Create].pc \in {"close", "open"} => proc[Create].acct = selection

\* A step that leaves the context alone.
LEMMA UpKept ==
  ASSUME UpInv, UNCHANGED <<selection, elsewhere>>, upSock' = upSock, upAcct' = upAcct,
         \A p \in Procs : \/ proc'[p] = proc[p]
                          \/ /\ proc'[p].pc \notin {"close", "open", "persist"}
                             /\ proc[p].pc = "persist" => upSock = 0
  PROVE  UpInv'
<1>1. Create \in Procs
  BY DEF Procs
<1> QED
  BY <1>1 DEF UpInv

\* A handler concludes.
LEMMA UpConcluded ==
  ASSUME SocketInv, UpInv, UNCHANGED <<selection, elsewhere>>, upSock' = upSock, upAcct' = upAcct,
         NEW h \in Handlers, NEW e, Conclude(h, e), proc[h].pc # "persist"
  PROVE  UpInv'
<1>1. h \in Procs /\ proc \in [Procs -> ProcRec]
  BY DEF SocketInv, SocketType, TurnType, Procs
<1>2. \/ proc' = [proc EXCEPT ![h] = Idle]
      \/ proc' = [proc EXCEPT ![h] = [pc |-> "final", kind |-> e.kind, att |-> e.att,
                                      turn |-> active, acct |-> NoAccount]]
  BY DEF Conclude
<1>3. \A p \in Procs : proc'[p] = proc[p] \/ p = h
  BY <1>1, <1>2
<1>4. proc'[h].pc \in {"idle", "final"}
  BY <1>1, <1>2 DEF Idle
<1> QED
  BY <1>3, <1>4, UpKept

\* The socket is taken out of the context for account a.
LEMMA UpDropped ==
  ASSUME SocketInv, UpInv, UNCHANGED <<selection, elsewhere>>, NEW p \in Procs, Working(p), NEW a,
         DropUpstream(p, a), p = Create /\ ~elsewhere => a = selection
  PROVE  UpInv'
<1>1. /\ proc \in [Procs -> ProcRec] /\ proc[p] \in ProcRec
      /\ \A q \in Procs : q # p => proc[q].pc = "idle"
  BY SocketTypes, Alone DEF SocketInv, SocketType, TurnType
<1>2. proc' = [proc EXCEPT ![p].pc = "close", ![p].acct = a] /\ upSock' = 0 /\ upAcct' = NoAccount
  BY DEF DropUpstream
<1>3. /\ proc'[p].pc = "close" /\ proc'[p].acct = a
      /\ \A q \in Procs : q # p => proc'[q].pc = "idle"
  BY <1>1, <1>2 DEF ProcRec
<1>4. Create \in Procs
  BY DEF Procs
<1> QED
  BY <1>2, <1>3, <1>4 DEF UpInv

\* The steps of the websocket keep the socket with the account.
LEMMA UpStep ==
  ASSUME SocketInv, UpInv, elsewhere' = elsewhere,
         Runs \/ ClientCreates \/ (\E p \in Procs : OpenFails(p)) \/ (\E s \in DOMAIN socks : Drops(s))
  PROVE  UpInv'
<1>0. /\ proc \in [Procs -> ProcRec] /\ \A p \in Procs : proc[p] \in ProcRec
      /\ Create \in Procs /\ Handlers \subseteq Procs /\ Create \notin Handlers
      /\ Len(socks) \in Nat /\ DOMAIN socks = 1..Len(socks)
  BY SocketTypes, ProxyReplayAssumption DEF SocketInv, SocketType, TurnType, Procs
<1>1. CASE ClientCreates
  <2>1. \A p \in Procs : p # Create => proc'[p] = proc[p]
    BY <1>0, <1>1 DEF ClientCreates
  <2>2. proc'[Create].pc = "choose" /\ proc[Create].pc = "idle"
    BY <1>0, <1>1 DEF ClientCreates, ProcRec
  <2> QED
    BY <1>1, <2>1, <2>2, UpKept DEF ClientCreates, upVars
<1>2. ASSUME NEW p \in Procs, OpenFails(p) PROVE UpInv'
  <2>1. CASE p = Create
    <3>1. proc' = [proc EXCEPT ![Create] = Idle] /\ proc[Create].pc = "open"
      BY <1>2, <2>1 DEF OpenFails
    <3>2. proc'[Create].pc = "idle" /\ \A q \in Procs : q # Create => proc'[q] = proc[q]
      BY <1>0, <3>1 DEF Idle
    <3> QED
      BY <1>2, <3>1, <3>2, UpKept DEF OpenFails, upVars
  <2>2. CASE p # Create
    <3>1. p \in Handlers /\ Conclude(p, proc[p]) /\ proc[p].pc # "persist"
      BY <1>2, <2>2 DEF OpenFails, Procs
    <3> QED
      BY <1>2, <3>1, UpConcluded DEF OpenFails, upVars
  <2> QED
    BY <2>1, <2>2
<1>3. ASSUME NEW s \in DOMAIN socks, Drops(s) PROVE UpInv'
  <2>1. UNCHANGED <<selection, proc>>
    BY <1>3 DEF Drops
  <2>2. \/ upSock' = upSock /\ upAcct' = upAcct
        \/ upSock' = 0 /\ upSock # 0
    BY <1>0, <1>3 DEF Drops, upVars
  <2> QED
    BY <2>1, <2>2 DEF UpInv
<1>4. CASE Choose
  <2>1. PICK a \in Choosable :
          IF Usable(a)
            THEN proc' = [proc EXCEPT ![Create] = Idle] /\ UNCHANGED upVars
            ELSE DropUpstream(Create, a)
    BY <1>4 DEF Choose
  <2>2. Working(Create) /\ selection' = selection /\ proc[Create].pc = "choose"
    BY <1>4 DEF Choose, Working
  <2>3. ~elsewhere => a = selection
    BY ProxyReplayAssumption DEF UpInv, Choosable
  <2>4. CASE Usable(a)
    <3>1. proc'[Create].pc = "idle" /\ \A q \in Procs : q # Create => proc'[q] = proc[q]
      BY <1>0, <2>1, <2>4 DEF Idle
    <3> QED
      BY <2>1, <2>2, <2>4, <3>1, UpKept DEF upVars
  <2>5. CASE ~Usable(a)
    BY <1>0, <2>1, <2>2, <2>3, <2>5, UpDropped
  <2> QED
    BY <2>4, <2>5
<1>5. CASE ChooseNone
  <2>1. proc[Create].pc = "choose" /\ proc'[Create].pc = "idle" /\ \A q \in Procs : q # Create => proc'[q] = proc[q]
    BY <1>0, <1>5 DEF ChooseNone, Idle
  <2> QED
    BY <1>5, <2>1, UpKept DEF ChooseNone, upVars
<1>6. ASSUME NEW p \in Procs, CloseDone(p) PROVE UpInv'
  <2>1. Working(p) /\ proc[p].pc = "close"
    BY <1>6 DEF CloseDone, Working
  <2>2. \A q \in Procs : q # p => proc[q].pc = "idle"
    BY <2>1, Alone DEF SocketInv
  <2>3. /\ proc'[p].pc = "open" /\ proc'[p].acct = proc[p].acct
        /\ \A q \in Procs : q # p => proc'[q].pc = "idle"
    BY <1>0, <1>6, <2>2 DEF CloseDone, ProcRec
  <2>4. upAcct' = proc[p].acct /\ upSock' = upSock /\ selection' = selection /\ upSock = 0
    BY <1>6, <2>1 DEF CloseDone, UpInv
  <2> QED
    BY <1>0, <2>1, <2>3, <2>4 DEF UpInv
<1>7. ASSUME NEW p \in Procs, OpenDone(p) PROVE UpInv'
  <2>1. Working(p) /\ proc[p].pc = "open" /\ upAcct = proc[p].acct
    BY <1>7 DEF OpenDone, Working, UpInv
  <2>2. \A q \in Procs : q # p => proc[q].pc = "idle"
    BY <2>1, Alone DEF SocketInv
  <2>3. upAcct' = upAcct /\ selection' = selection
    BY <1>7 DEF OpenDone
  <2>4. CASE p = Create
    <3>1. \A q \in Procs : proc'[q].pc = "idle"
      BY <1>0, <1>7, <2>2, <2>4 DEF OpenDone, Idle
    <3> QED
      BY <1>0, <2>1, <2>3, <2>4, <3>1 DEF UpInv
  <2>5. CASE p # Create
    <3>1. /\ proc'[p].pc = "persist" /\ proc'[p].acct = proc[p].acct
          /\ \A q \in Procs : q # p => proc'[q].pc = "idle"
      BY <1>0, <1>7, <2>2, <2>5 DEF OpenDone, ProcRec
    <3> QED
      BY <1>0, <2>1, <2>3, <2>5, <3>1 DEF UpInv
  <2> QED
    BY <2>4, <2>5
<1>8. ASSUME NEW h \in Handlers, Recorded(h) PROVE UpInv'
  <2>1. proc[h].pc = "record" /\ upSock' = upSock /\ upAcct' = upAcct /\ selection' = selection
    BY <1>8 DEF Recorded, upVars
  <2>2. CASE Conclude(h, proc[h])
    BY <2>1, <2>2, UpConcluded
  <2>3. CASE proc' = [proc EXCEPT ![h].pc = "select", ![h].turn = active]
    <3>1. proc'[h].pc = "select" /\ \A q \in Procs : q # h => proc'[q] = proc[q]
      BY <1>0, <2>3 DEF ProcRec
    <3> QED
      BY <2>1, <3>1, UpKept
  <2> QED
    BY <1>8, <2>2, <2>3 DEF Recorded
<1>9. ASSUME NEW h \in Handlers, SelectReplay(h) PROVE UpInv'
  <2>1. proc[h].pc = "select" /\ Working(h) /\ selection' = selection /\ h \in Procs /\ h # Create
    BY <1>0, <1>9 DEF SelectReplay, Working
  <2>2. CASE Conclude(h, proc[h]) /\ UNCHANGED upVars
    BY <2>1, <2>2, UpConcluded DEF upVars
  <2>3. ASSUME NEW a, DropUpstream(h, a) PROVE UpInv'
    BY <2>1, <2>3, UpDropped
  <2>4. ASSUME NEW a, Usable(a), proc' = [proc EXCEPT ![h].pc = "persist", ![h].acct = a], UNCHANGED upVars
        PROVE  UpInv'
    <3>1. \A q \in Procs : q # h => proc[q].pc = "idle"
      BY <2>1, Alone DEF SocketInv
    <3>2. proc'[h].pc = "persist" /\ proc'[h].acct = a /\ \A q \in Procs : q # h => proc'[q].pc = "idle"
      BY <1>0, <2>1, <2>4, <3>1 DEF ProcRec
    <3>3. upAcct' = a /\ upSock' = upSock
      BY <2>4 DEF Usable, upVars
    <3> QED
      BY <1>0, <2>1, <3>2, <3>3 DEF UpInv
  <2> QED
    BY <1>9, <2>2, <2>3, <2>4 DEF SelectReplay
<1>10. ASSUME NEW h \in Handlers, Replay(h) PROVE UpInv'
  <2>1. proc[h].pc = "persist" /\ Working(h) /\ h \in Procs
    BY <1>0, <1>10 DEF Replay, Working
  <2>2. \A q \in Procs : q # h => proc[q].pc = "idle"
    BY <2>1, Alone DEF SocketInv
  <2>3. /\ selection' = proc[h].acct /\ proc[h].acct \in Accounts
        /\ upSock' = upSock /\ upAcct' = upAcct
    <3>1. proc[h].acct \in Accounts
      BY <2>1 DEF SocketInv, ProcInv, HandlerFits, Replaying
    <3> QED
      BY <1>10, <3>1 DEF Replay, upVars
  <2>4. \A q \in Procs : proc'[q].pc = "idle"
    BY <1>0, <1>10, <2>2 DEF Replay, Idle
  <2> QED
    BY <1>0, <2>1, <2>3, <2>4 DEF UpInv
<1>11. ASSUME NEW h \in Handlers, Finalized(h) PROVE UpInv'
  <2>1. proc[h].pc = "final" /\ proc'[h].pc = "idle" /\ \A q \in Procs : q # h => proc'[q] = proc[q]
    BY <1>0, <1>11 DEF Finalized, Idle
  <2> QED
    BY <1>11, <2>1, UpKept DEF Finalized, upVars
<1>12. ASSUME NEW s \in DOMAIN socks, ReceiveEvent(s) \/ Emit(s) \/ Closed(s) PROVE UpInv'
  BY <1>12, UpKept DEF ReceiveEvent, Emit, Closed, upVars
<1>13. ASSUME NEW s \in DOMAIN socks, NEW h \in Handlers, ReceiveTerminal(s, h) PROVE UpInv'
  <2>1. proc[h].pc = "idle" /\ upSock' = upSock /\ upAcct' = upAcct /\ selection' = selection
    BY <1>13 DEF ReceiveTerminal, upVars
  <2> DEFINE e == Head(socks[s].inbox)
  <2>2. CASE Conclude(h, e)
    BY <2>1, <2>2, UpConcluded
  <2>3. CASE proc' = [proc EXCEPT ![h] = [Idle EXCEPT !.pc = "record", !.kind = e.kind, !.att = e.att]]
    <3>1. proc'[h].pc = "record" /\ \A q \in Procs : q # h => proc'[q] = proc[q]
      BY <1>0, <2>3 DEF Idle
    <3> QED
      BY <2>1, <3>1, UpKept
  <2> QED
    BY <1>13, <2>2, <2>3 DEF ReceiveTerminal
<1> QED
  BY <1>1, <1>2, <1>3, <1>4, <1>5, <1>6, <1>7, <1>8, <1>9, <1>10, <1>11, <1>12, <1>13 DEF Runs
-----------------------------------------------------------------------------

Steps == {"apikey", "chatgpt", "backend", "direct", "prepare", "fetch", "stream", "save", "replay",
          "persist", "done"}
Ids == [of : {"none", "proxy", "upstream"}, req : Nat, try : Nat]
AttRec == [acct : Upstreams \cup {NoAccount}, prev : Ids, input : Seq(Nat), full : Seq(Nat), holds : Seq(Nat)]
ReqRec == [kind : RestKinds, prev : Ids, shape : Nat, pc : Steps, acct : Upstreams \cup {NoAccount},
           atts : Seq(AttRec), told : {"no", "begun", "ok", "failed", "unknown"}, conv : Seq(Nat)]

Talks(kind) == kind \in {"responses", "stream"}
Fixed(n) == reqs[n].told # "no"

\* A request that may be sent once more: it is buffered, and it does not take an
\* upstream's id to an API-key account.
MayRetry(kind, prev, acct) ==
  /\ kind \in {"responses", "chat"} \/ (kind = "raw" /\ acct \notin Keys)
  /\ ~(acct \in Keys /\ prev # NoId)

\* What a request has done by where it is: at most two attempts, the second only of one
\* that may be sent again, and each at an account of its own; and what it has told.
Progress(kind, prev, pc, acct, told, atts) ==
  LET k == Len(atts) IN
  /\ k \in 0..2
  /\ pc \in {"apikey", "chatgpt", "backend", "direct"} => k = 0 /\ told = "no" /\ acct = NoAccount
  /\ pc = "prepare" => /\ acct \in Upstreams /\ told = "no" /\ k <= 1
                       /\ k = 1 => atts[1].acct # acct /\ MayRetry(kind, prev, acct)
  /\ pc \in {"fetch", "stream", "save", "replay", "persist"} => k > 0
  /\ pc \in {"stream", "save"} => Talks(kind) /\ acct \in Accounts
  /\ pc = "stream" => told = "begun" /\ kind = "stream"
  /\ pc = "save" => (kind = "stream" /\ told = "ok") \/ (kind # "stream" /\ told = "no")
  /\ pc \in {"fetch", "replay", "persist"} => told = "no"
  /\ pc \in {"replay", "persist"} => k = 1 /\ MayRetry(kind, prev, acct)
  /\ pc = "persist" => acct \in Upstreams /\ atts[1].acct # acct
  /\ pc = "done" => told # "no"
  /\ told = "begun" => pc = "stream"
  /\ told = "ok" => pc \in {"save", "done"} /\ k > 0
  /\ told = "unknown" => pc = "done"
  /\ kind \in {"stream", "backend", "own"} => k <= 1
  /\ pc \in {"fetch", "stream", "save", "replay"} \/ told = "ok" => atts[k].acct = acct
  /\ k = 2 => atts[1].acct # atts[2].acct
PcFits(r) == Progress(r.kind, r.prev, r.pc, r.acct, r.told, r.atts)

\* A conversation is of requests up to this one.
ConvInv(n) == \A i \in 1..Len(reqs[n].conv) : reqs[n].conv[i] \in 1..n

\* A request goes on from one that is answered, or begins to be, and adds itself to its
\* conversation.
PrevInv(n) ==
  LET r == reqs[n]
      m == r.prev.req
  IN /\ r.prev = NoId => r.conv = <<n>>
     /\ r.prev # NoId => /\ Talks(r.kind) /\ m \in 1..(n - 1) /\ Fixed(m) /\ Talks(reqs[m].kind)
                         /\ Tries(m) > 0 /\ r.prev = IdOf(m) /\ r.conv = reqs[m].conv \o <<n>>
                         /\ reqs[m].kind = "responses" => reqs[m].told = "ok"

\* An attempt goes on from an answered request, of the same account unless it is a first
\* attempt at an API-key account; at a ChatGPT account it holds what it claims to, and
\* that is the conversation if it has not left an API-key account.
TryFits(n, k, t) ==
  /\ t.prev # NoId => t.prev.req \in 1..Len(reqs) /\ Fixed(t.prev.req)
  /\ t.acct \in Accounts \/ k > 1 => ~Refuses(t.acct, t.prev)
  /\ Talks(reqs[n].kind) /\ t.acct \in Accounts => t.holds = t.full /\ (~Crossed(n) => t.full = reqs[n].conv)
AttFits(n, k) == TryFits(n, k, reqs[n].atts[k])
AttInv(n) == \A k \in 1..Len(reqs[n].atts) : AttFits(n, k)

\* Only a stream is unknown to who goes on from it; a response that is done is kept.
AnswerInv(n) ==
  LET r == reqs[n] IN
  /\ r.told = "unknown" => r.prev.of = "proxy" /\ reqs[r.prev.req].kind = "stream"
  /\ r.pc = "done" /\ r.told = "ok" /\ Talks(r.kind) /\ r.acct \in Accounts => IdOf(n) \in DOMAIN checkpoints

ReqFits(n) == PcFits(reqs[n]) /\ ConvInv(n) /\ PrevInv(n) /\ AttInv(n) /\ AnswerInv(n)

\* A checkpoint is of the last attempt of an answered request.
CheckFits(i) ==
  LET c == checkpoints[i]
      m == i.req
  IN /\ m \in 1..Len(reqs) /\ Fixed(m) /\ Talks(reqs[m].kind) /\ reqs[m].acct \in Accounts
     /\ i = IdOf(m) /\ Tries(m) > 0 /\ reqs[m].atts[Tries(m)].acct = reqs[m].acct
     /\ c.up = Id("upstream", m, Tries(m)) /\ c.acct = reqs[m].acct
     /\ c.ctx = reqs[m].atts[Tries(m)].full /\ c.ctx \in Seq(Nat)

RestInv ==
  /\ reqs \in Seq(ReqRec)
  /\ \A n \in 1..Len(reqs) : ReqFits(n)
  /\ \A i \in DOMAIN checkpoints : CheckFits(i)

\* What a step leaves of a request.
Carried(m) ==
  /\ reqs'[m].kind = reqs[m].kind /\ reqs'[m].prev = reqs[m].prev /\ reqs'[m].shape = reqs[m].shape
  /\ reqs'[m].conv = reqs[m].conv
  /\ Fixed(m) => /\ reqs'[m].told # "no" /\ reqs'[m].acct = reqs[m].acct /\ reqs'[m].atts = reqs[m].atts
                 /\ reqs[m].told = "ok" => reqs'[m].told = "ok"
  /\ reqs[m].acct \in Accounts => reqs'[m].acct \in Accounts
Carry == Len(reqs) <= Len(reqs') /\ \A m \in 1..Len(reqs) : Carried(m)

-----------------------------------------------------------------------------

\* The types of a request's fields, from the type of the sequence.
LEMMA ReqTypes ==
  ASSUME reqs \in Seq(ReqRec)
  PROVE  /\ Len(reqs) \in Nat /\ DOMAIN reqs = 1..Len(reqs)
         /\ \A n \in 1..Len(reqs) :
              /\ reqs[n] \in ReqRec /\ Len(reqs[n].atts) \in Nat /\ DOMAIN reqs[n].atts = 1..Len(reqs[n].atts)
              /\ \A k \in 1..Len(reqs[n].atts) : reqs[n].atts[k] \in AttRec
              /\ Len(reqs[n].conv) \in Nat /\ DOMAIN reqs[n].conv = 1..Len(reqs[n].conv)
<1>1. Len(reqs) \in Nat /\ DOMAIN reqs = 1..Len(reqs)
  BY LenProperties
<1>2. ASSUME NEW n \in 1..Len(reqs)
      PROVE  /\ reqs[n] \in ReqRec /\ Len(reqs[n].atts) \in Nat /\ DOMAIN reqs[n].atts = 1..Len(reqs[n].atts)
             /\ \A k \in 1..Len(reqs[n].atts) : reqs[n].atts[k] \in AttRec
             /\ Len(reqs[n].conv) \in Nat /\ DOMAIN reqs[n].conv = 1..Len(reqs[n].conv)
  <2>1. reqs[n] \in ReqRec
    BY <1>2, ElementOfSeq
  <2>2. reqs[n].atts \in Seq(AttRec) /\ reqs[n].conv \in Seq(Nat)
    BY <2>1 DEF ReqRec
  <2>3. \A k \in 1..Len(reqs[n].atts) : reqs[n].atts[k] \in AttRec
    BY <2>2, ElementOfSeq
  <2> QED
    BY <2>1, <2>2, <2>3, LenProperties
<1> QED
  BY <1>1, <1>2

\* The requests when one of them changes.
LEMMA ReqChanged ==
  ASSUME reqs \in Seq(ReqRec), NEW n \in 1..Len(reqs), NEW r \in ReqRec, reqs' = [reqs EXCEPT ![n] = r]
  PROVE  /\ reqs' \in Seq(ReqRec) /\ Len(reqs') = Len(reqs) /\ reqs'[n] = r
         /\ \A m \in 1..Len(reqs) : m # n => reqs'[m] = reqs[m]
  BY ExceptSeq

\* A conversation that has left an API-key account has left it for good.
LEMMA CrossedKept ==
  ASSUME RestInv, Carry, NEW m \in 1..Len(reqs)
  PROVE  Crossed(m) => Crossed(m)'
<1> SUFFICES ASSUME Crossed(m) PROVE Crossed(m)'
  OBVIOUS
<1>0. Len(reqs) \in Nat /\ DOMAIN reqs[m].conv = 1..Len(reqs[m].conv)
  BY ReqTypes DEF RestInv
<1>1. PICK i \in 1..Len(reqs[m].conv) :
        reqs[reqs[m].conv[i]].prev.of = "upstream" /\ reqs[reqs[m].conv[i]].acct \in Accounts
  BY <1>0 DEF Crossed
<1>2. PICK x : x = reqs[m].conv[i]
  OBVIOUS
<1>3. x \in 1..Len(reqs)
  <2>1. x \in 1..m
    BY <1>2 DEF RestInv, ReqFits, ConvInv
  <2> QED
    BY <2>1, <1>0
<1>4. Carried(x) /\ Carried(m)
  BY <1>3 DEF Carry
<1>5. reqs'[x].prev.of = "upstream" /\ reqs'[x].acct \in Accounts /\ reqs'[m].conv = reqs[m].conv
  BY <1>1, <1>2, <1>4 DEF Carried
<1> QED
  BY <1>0, <1>2, <1>5 DEF Crossed

\* A sequence and one more.
LEMMA Joined ==
  ASSUME NEW c \in Seq(Nat), NEW n \in Nat
  PROVE  /\ c \o <<n>> \in Seq(Nat) /\ Len(c) \in Nat /\ DOMAIN c = 1..Len(c)
         /\ Len(c \o <<n>>) = Len(c) + 1 /\ DOMAIN (c \o <<n>>) = 1..(Len(c) + 1)
         /\ (\A i \in 1..Len(c) : (c \o <<n>>)[i] = c[i]) /\ (c \o <<n>>)[Len(c) + 1] = n
<1>1. c \o <<n>> = Append(c, n)
  BY AppendIsConcat
<1> QED
  BY <1>1, AppendProperties, LenProperties

\* A request that goes on from another has left an API-key account if that one has, or
\* if it leaves one itself.
LEMMA CrossedPrev ==
  ASSUME RestInv, NEW n \in 1..Len(reqs), reqs[n].prev # NoId, ~Crossed(n)
  PROVE  /\ ~Crossed(reqs[n].prev.req)
         /\ ~(reqs[n].prev.of = "upstream" /\ reqs[n].acct \in Accounts)
<1>1. PICK m : m = reqs[n].prev.req
  OBVIOUS
<1>2. /\ m \in 1..(n - 1) /\ reqs[n].conv = reqs[m].conv \o <<n>>
  BY <1>1 DEF RestInv, ReqFits, PrevInv
<1>3. Len(reqs) \in Nat /\ m \in 1..Len(reqs) /\ reqs[m].conv \in Seq(Nat) /\ n \in Nat
  <2>1. Len(reqs) \in Nat
    BY ReqTypes DEF RestInv
  <2>2. m \in 1..Len(reqs)
    BY <1>2, <2>1
  <2>3. reqs[m] \in ReqRec
    BY <2>2, ReqTypes DEF RestInv
  <2> QED
    BY <2>1, <2>2, <2>3 DEF ReqRec
<1>4. PICK c : c = reqs[m].conv
  OBVIOUS
<1>5. PICK e : e = c \o <<n>>
  OBVIOUS
<1>6. /\ Len(c) \in Nat /\ DOMAIN c = 1..Len(c) /\ DOMAIN e = 1..(Len(c) + 1)
      /\ (\A i \in 1..Len(c) : e[i] = c[i]) /\ e[Len(c) + 1] = n
  <2>1. c \in Seq(Nat) /\ n \in Nat
    BY <1>3, <1>4
  <2> QED
    BY <2>1, <1>5, Joined
<1>7. reqs[n].conv = e /\ ~(\E i \in DOMAIN e : reqs[e[i]].prev.of = "upstream" /\ reqs[e[i]].acct \in Accounts)
  <2>1. reqs[n].conv = e
    BY <1>2, <1>4, <1>5
  <2> QED
    BY <2>1 DEF Crossed
<1>8. ~Crossed(m)
  <2>1. \A i \in DOMAIN c : i \in DOMAIN e /\ e[i] = c[i]
    BY <1>6
  <2> QED
    BY <1>4, <1>7, <2>1 DEF Crossed
<1>9. ~(reqs[n].prev.of = "upstream" /\ reqs[n].acct \in Accounts)
  <2>1. Len(c) + 1 \in DOMAIN e /\ e[Len(c) + 1] = n
    BY <1>6
  <2> QED
    BY <1>7, <2>1
<1> QED
  BY <1>1, <1>8, <1>9

\* What a step leaves of where a request comes from.
LEMMA PrevKept ==
  ASSUME RestInv, Carry, NEW n \in 1..Len(reqs)
  PROVE  ConvInv(n)' /\ PrevInv(n)'
<1>0. Len(reqs) \in Nat /\ Carried(n) /\ ConvInv(n) /\ PrevInv(n)
  BY ReqTypes DEF RestInv, ReqFits, Carry
<1>1. ConvInv(n)'
  <2>1. reqs'[n].conv = reqs[n].conv
    BY <1>0 DEF Carried
  <2> QED
    BY <1>0, <2>1 DEF ConvInv
<1>2. CASE reqs[n].prev = NoId
  <2>1. reqs'[n].prev = NoId /\ reqs'[n].conv = <<n>>
    BY <1>0, <1>2 DEF PrevInv, Carried
  <2> QED
    BY <1>1, <2>1 DEF PrevInv
<1>3. CASE reqs[n].prev # NoId
  <2>1. PICK m : m = reqs[n].prev.req
    OBVIOUS
  <2>2. /\ Talks(reqs[n].kind) /\ m \in 1..(n - 1) /\ Fixed(m) /\ Talks(reqs[m].kind)
        /\ Tries(m) > 0 /\ reqs[n].prev = IdOf(m) /\ reqs[n].conv = reqs[m].conv \o <<n>>
        /\ reqs[m].kind = "responses" => reqs[m].told = "ok"
    BY <1>0, <1>3, <2>1 DEF PrevInv
  <2>3. m \in 1..Len(reqs)
    BY <1>0, <2>2
  <2>4. Carried(m)
    BY <2>3 DEF Carry
  <2>5. /\ Fixed(m)' /\ reqs'[m].kind = reqs[m].kind /\ reqs'[m].conv = reqs[m].conv
        /\ reqs'[m].acct = reqs[m].acct /\ reqs'[m].atts = reqs[m].atts
        /\ reqs[m].told = "ok" => reqs'[m].told = "ok"
    BY <2>2, <2>4 DEF Carried, Fixed
  <2>6. IdOf(m)' = IdOf(m) /\ Tries(m)' = Tries(m)
    BY <2>5 DEF IdOf, Tries, Id
  <2>7. reqs'[n].prev = reqs[n].prev /\ reqs'[n].kind = reqs[n].kind /\ reqs'[n].conv = reqs[n].conv
    BY <1>0 DEF Carried
  <2> QED
    BY <1>1, <1>3, <2>1, <2>2, <2>5, <2>6, <2>7 DEF PrevInv, Talks
<1> QED
  BY <1>1, <1>2, <1>3

\* What a step leaves of an attempt.
LEMMA TryKept ==
  ASSUME RestInv, Carry, Len(reqs') \in Nat, NEW n \in 1..Len(reqs), NEW k, NEW t, TryFits(n, k, t)
  PROVE  TryFits(n, k, t)'
<1>1. Len(reqs) \in Nat /\ Len(reqs) <= Len(reqs') /\ Carried(n)
  BY ReqTypes DEF RestInv, Carry
<1>2. t.prev # NoId => t.prev.req \in 1..Len(reqs') /\ Fixed(t.prev.req)'
  <2> SUFFICES ASSUME t.prev # NoId PROVE t.prev.req \in 1..Len(reqs') /\ Fixed(t.prev.req)'
    OBVIOUS
  <2>1. t.prev.req \in 1..Len(reqs) /\ Fixed(t.prev.req)
    BY DEF TryFits
  <2> QED
    BY <1>1, <2>1 DEF Carry, Carried, Fixed
<1>3. Refuses(t.acct, t.prev)' <=> Refuses(t.acct, t.prev)
  <2>1. CASE t.prev = NoId
    BY <2>1 DEF Refuses
  <2>2. CASE t.prev # NoId
    <3>1. PICK m : m = t.prev.req
      OBVIOUS
    <3>2. m \in 1..Len(reqs) /\ Fixed(m)
      BY <2>2, <3>1 DEF TryFits
    <3>3. reqs'[m].atts = reqs[m].atts
      BY <3>2 DEF Carry, Carried
    <3> QED
      BY <3>1, <3>3 DEF Refuses
  <2> QED
    BY <2>1, <2>2
<1>4. Crossed(n) => Crossed(n)'
  BY CrossedKept
<1>5. reqs'[n].kind = reqs[n].kind /\ reqs'[n].conv = reqs[n].conv
  BY <1>1 DEF Carried
<1> QED
  BY <1>2, <1>3, <1>4, <1>5 DEF TryFits, Talks

\* An attempt that stays fits what it fitted.
LEMMA AttKept ==
  ASSUME RestInv, Carry, Len(reqs') \in Nat, NEW n \in 1..Len(reqs), NEW k \in 1..Len(reqs[n].atts),
         reqs'[n].atts[k] = reqs[n].atts[k]
  PROVE  AttFits(n, k)'
<1>1. PICK t : t = reqs[n].atts[k]
  OBVIOUS
<1>2. TryFits(n, k, t)
  BY <1>1 DEF RestInv, ReqFits, AttInv, AttFits
<1>3. TryFits(n, k, t)'
  BY <1>2, TryKept
<1> QED
  BY <1>1, <1>3 DEF AttFits

\* A checkpoint stays what it was.
LEMMA CheckKept ==
  ASSUME RestInv, Carry, Len(reqs') \in Nat, NEW i \in DOMAIN checkpoints, checkpoints'[i] = checkpoints[i]
  PROVE  CheckFits(i)'
<1>1. PICK m : m = i.req
  OBVIOUS
<1>2. CheckFits(i)
  BY DEF RestInv
<1>3. m \in 1..Len(reqs) /\ Fixed(m)
  BY <1>1, <1>2 DEF CheckFits
<1>4. Carried(m)
  BY <1>3 DEF Carry
<1>5. /\ Fixed(m)' /\ reqs'[m].kind = reqs[m].kind /\ reqs'[m].acct = reqs[m].acct /\ reqs'[m].atts = reqs[m].atts
  BY <1>3, <1>4 DEF Carried, Fixed
<1>6. IdOf(m)' = IdOf(m) /\ Tries(m)' = Tries(m)
  BY <1>5 DEF IdOf, Tries, Id
<1>7. m \in 1..Len(reqs')
  <2>1. Len(reqs) \in Nat
    BY ReqTypes DEF RestInv
  <2> QED
    BY <1>3, <2>1 DEF Carry
<1> QED
  BY <1>1, <1>2, <1>5, <1>6, <1>7 DEF CheckFits, Talks, Id

\* A request no step is of stays what it was.
LEMMA Others ==
  ASSUME RestInv, Carry, Len(reqs') \in Nat, NEW m \in 1..Len(reqs), reqs'[m] = reqs[m],
         \A i \in DOMAIN checkpoints : i \in DOMAIN checkpoints'
  PROVE  ReqFits(m)'
<1>0. Len(reqs) \in Nat /\ ReqFits(m) /\ Carried(m)
  BY ReqTypes DEF RestInv, Carry
<1>1. PcFits(reqs[m])'
  <2>1. PcFits(reqs[m])
    BY <1>0 DEF ReqFits
  <2> QED
    BY <2>1 DEF PcFits, Progress, MayRetry, Talks, NoId
<1>2. ConvInv(m)' /\ PrevInv(m)'
  BY PrevKept
<1>3. AttInv(m)'
  <2>1. \A k \in 1..Len(reqs[m].atts) : AttFits(m, k)'
    BY AttKept
  <2> QED
    BY <2>1 DEF AttInv
<1>4. AnswerInv(m)'
  <2>1. AnswerInv(m) /\ PrevInv(m)
    BY <1>0 DEF ReqFits
  <2>2. ASSUME reqs[m].told = "unknown"
        PROVE  reqs'[m].prev.of = "proxy" /\ reqs'[reqs'[m].prev.req].kind = "stream"
    <3>1. PICK q : q = reqs[m].prev.req
      OBVIOUS
    <3>2. reqs[m].prev.of = "proxy" /\ reqs[q].kind = "stream"
      BY <2>1, <2>2, <3>1 DEF AnswerInv
    <3>3. reqs[m].prev # NoId
      BY <3>2 DEF NoId
    <3>4. q \in 1..(m - 1)
      BY <2>1, <3>1, <3>3 DEF PrevInv
    <3>5. q \in 1..Len(reqs)
      BY <1>0, <3>4
    <3>6. Carried(q)
      BY <3>5 DEF Carry
    <3> QED
      BY <3>1, <3>2, <3>6 DEF Carried
  <2>3. IdOf(m)' = IdOf(m)
    BY DEF IdOf, Tries, Id
  <2>4. reqs[m].pc = "done" /\ reqs[m].told = "ok" /\ Talks(reqs[m].kind) /\ reqs[m].acct \in Accounts
          => IdOf(m)' \in DOMAIN checkpoints'
    BY <2>1, <2>3 DEF AnswerInv
  <2> QED
    BY <2>2, <2>4 DEF AnswerInv, Talks
<1> QED
  BY <1>1, <1>2, <1>3, <1>4 DEF ReqFits

\* A step of request n: what it must keep of it for everything else to stay true.
LEMMA Works ==
  ASSUME RestInv, NEW n \in 1..Len(reqs), NEW r \in ReqRec, reqs' = [reqs EXCEPT ![n] = r],
         r.kind = reqs[n].kind, r.prev = reqs[n].prev, r.shape = reqs[n].shape, r.conv = reqs[n].conv,
         Fixed(n) => /\ r.told # "no" /\ r.acct = reqs[n].acct /\ r.atts = reqs[n].atts
                     /\ reqs[n].told = "ok" => r.told = "ok",
         reqs[n].acct \in Accounts => r.acct \in Accounts
  PROVE  /\ reqs' \in Seq(ReqRec) /\ Len(reqs') = Len(reqs) /\ reqs'[n] = r /\ Carry
         /\ \A m \in 1..Len(reqs) : m # n => reqs'[m] = reqs[m]
<1>1. /\ reqs' \in Seq(ReqRec) /\ Len(reqs') = Len(reqs) /\ reqs'[n] = r
      /\ \A m \in 1..Len(reqs) : m # n => reqs'[m] = reqs[m]
  BY ReqChanged DEF RestInv
<1>2. Carried(n)
  BY <1>1 DEF Carried, Fixed
<1>3. \A m \in 1..Len(reqs) : m # n => Carried(m)
  BY <1>1 DEF Carried, Fixed
<1>4. Len(reqs) \in Nat
  BY ReqTypes DEF RestInv
<1> QED
  BY <1>1, <1>2, <1>3, <1>4 DEF Carry

\* The invariant after a step of request n.
LEMMA Worked ==
  ASSUME RestInv, Carry, reqs' \in Seq(ReqRec), Len(reqs') = Len(reqs), NEW n \in 1..Len(reqs),
         \A m \in 1..Len(reqs) : m # n => reqs'[m] = reqs[m],
         PcFits(reqs[n])', AttInv(n)', AnswerInv(n)',
         \A i \in DOMAIN checkpoints : i \in DOMAIN checkpoints',
         \A i \in DOMAIN checkpoints' : (i \in DOMAIN checkpoints /\ checkpoints'[i] = checkpoints[i]) \/ CheckFits(i)'
  PROVE  RestInv'
<1>1. ReqFits(n)'
  BY PrevKept DEF ReqFits
<1>3. Len(reqs') \in Nat
  BY ReqTypes DEF RestInv
<1>2. ASSUME NEW m \in 1..Len(reqs), m # n PROVE ReqFits(m)'
  BY <1>2, <1>3, Others
<1>4. ASSUME NEW i \in DOMAIN checkpoints' PROVE CheckFits(i)'
  BY <1>3, <1>4, CheckKept
<1> QED
  BY <1>1, <1>2, <1>4 DEF RestInv

\* Request r comes from where q does.
Like(r, q) == r.kind = q.kind /\ r.prev = q.prev /\ r.shape = q.shape /\ r.conv = q.conv

\* Request n is now at pc with this account, this told and these attempts.
Becomes(n, pc, acct, told, atts) ==
  \E r \in ReqRec : /\ reqs' = [reqs EXCEPT ![n] = r] /\ Like(r, reqs[n])
                    /\ r.pc = pc /\ r.acct = acct /\ r.told = told /\ r.atts = atts

\* What the steps set of a request.
SetsTold(n, pc, told) == reqs' = [reqs EXCEPT ![n].pc = pc, ![n].told = told]
SetsAcct(n, pc, acct) == reqs' = [reqs EXCEPT ![n].pc = pc, ![n].acct = acct]
SetsAtts(n, pc, atts) == reqs' = [reqs EXCEPT ![n].pc = pc, ![n].atts = atts]

\* The request that results from a change of its place only,
LEMMA PcSet ==
  ASSUME reqs \in Seq(ReqRec), NEW n \in 1..Len(reqs), NEW p \in Steps, Goes(n, p)
  PROVE  Becomes(n, p, reqs[n].acct, reqs[n].told, reqs[n].atts)
<1>0. reqs[n] \in ReqRec
  BY ReqTypes
<1>1. PICK r : r = [reqs[n] EXCEPT !.pc = p]
  OBVIOUS
<1>2. /\ r \in ReqRec /\ Like(r, reqs[n])
      /\ r.pc = p /\ r.acct = reqs[n].acct /\ r.told = reqs[n].told /\ r.atts = reqs[n].atts
  BY <1>0, <1>1 DEF ReqRec, Like
<1>3. reqs' = [reqs EXCEPT ![n] = r]
  BY <1>1 DEF Goes
<1> QED
  BY <1>2, <1>3 DEF Becomes

\* of its place and its answer,
LEMMA ToldSet ==
  ASSUME reqs \in Seq(ReqRec), NEW n \in 1..Len(reqs), NEW p \in Steps,
         NEW t \in {"no", "begun", "ok", "failed", "unknown"}, SetsTold(n, p, t)
  PROVE  Becomes(n, p, reqs[n].acct, t, reqs[n].atts)
<1>0. reqs[n] \in ReqRec /\ reqs \in [1..Len(reqs) -> ReqRec]
  BY ReqTypes, LenProperties, ElementOfSeq
<1>1. PICK r : r = [reqs[n] EXCEPT !.pc = p, !.told = t]
  OBVIOUS
<1>2. /\ r \in ReqRec /\ Like(r, reqs[n])
      /\ r.pc = p /\ r.acct = reqs[n].acct /\ r.told = t /\ r.atts = reqs[n].atts
  BY <1>0, <1>1 DEF ReqRec, Like
<1>3. reqs' = [reqs EXCEPT ![n] = r]
  BY <1>0, <1>1 DEF SetsTold
<1> QED
  BY <1>2, <1>3 DEF Becomes

\* of its place and its account,
LEMMA AcctSet ==
  ASSUME reqs \in Seq(ReqRec), NEW n \in 1..Len(reqs), NEW p \in Steps, NEW a \in Upstreams, SetsAcct(n, p, a)
  PROVE  Becomes(n, p, a, reqs[n].told, reqs[n].atts)
<1>0. reqs[n] \in ReqRec /\ reqs \in [1..Len(reqs) -> ReqRec]
  BY ReqTypes, LenProperties, ElementOfSeq
<1>1. PICK r : r = [reqs[n] EXCEPT !.pc = p, !.acct = a]
  OBVIOUS
<1>2. /\ r \in ReqRec /\ Like(r, reqs[n])
      /\ r.pc = p /\ r.acct = a /\ r.told = reqs[n].told /\ r.atts = reqs[n].atts
  BY <1>0, <1>1 DEF ReqRec, Like
<1>3. reqs' = [reqs EXCEPT ![n] = r]
  BY <1>0, <1>1 DEF SetsAcct
<1> QED
  BY <1>2, <1>3 DEF Becomes

\* and of its place and its attempts.
LEMMA AttsSet ==
  ASSUME reqs \in Seq(ReqRec), NEW n \in 1..Len(reqs), NEW p \in Steps, NEW s \in Seq(AttRec), SetsAtts(n, p, s)
  PROVE  Becomes(n, p, reqs[n].acct, reqs[n].told, s)
<1>0. reqs[n] \in ReqRec /\ reqs \in [1..Len(reqs) -> ReqRec]
  BY ReqTypes, LenProperties, ElementOfSeq
<1>1. PICK r : r = [reqs[n] EXCEPT !.pc = p, !.atts = s]
  OBVIOUS
<1>2. /\ r \in ReqRec /\ Like(r, reqs[n])
      /\ r.pc = p /\ r.acct = reqs[n].acct /\ r.told = reqs[n].told /\ r.atts = s
  BY <1>0, <1>1 DEF ReqRec, Like
<1>3. reqs' = [reqs EXCEPT ![n] = r]
  BY <1>0, <1>1 DEF SetsAtts
<1> QED
  BY <1>2, <1>3 DEF Becomes

\* A step of request n that sends nothing and keeps no checkpoint.
LEMMA Proceeds ==
  ASSUME RestInv, NEW n \in 1..Len(reqs), NEW p, NEW a, NEW t, Becomes(n, p, a, t, reqs[n].atts),
         Progress(reqs[n].kind, reqs[n].prev, p, a, t, reqs[n].atts), checkpoints' = checkpoints,
         Fixed(n) => t # "no" /\ a = reqs[n].acct /\ (reqs[n].told = "ok" => t = "ok"),
         reqs[n].acct \in Accounts => a \in Accounts,
         t # "unknown",
         p = "done" /\ t = "ok" => ~Talks(reqs[n].kind) \/ a \notin Accounts
  PROVE  RestInv'
<1>0. PICK r \in ReqRec : /\ reqs' = [reqs EXCEPT ![n] = r] /\ Like(r, reqs[n])
                          /\ r.pc = p /\ r.acct = a /\ r.told = t /\ r.atts = reqs[n].atts
  BY DEF Becomes
<1>1. /\ reqs' \in Seq(ReqRec) /\ Len(reqs') = Len(reqs) /\ reqs'[n] = r /\ Carry
      /\ \A m \in 1..Len(reqs) : m # n => reqs'[m] = reqs[m]
  BY <1>0, Works DEF Like
<1>2. PcFits(reqs[n])'
  <2>1. PcFits(r)
    BY <1>0 DEF PcFits, Like
  <2> QED
    BY <1>1, <2>1 DEF PcFits, Progress, MayRetry, Talks, NoId
<1>3. AttInv(n)'
  <2>1. Len(reqs') \in Nat
    BY <1>1, ReqTypes DEF RestInv
  <2> QED
    BY <1>0, <1>1, <2>1, AttKept DEF AttInv
<1>4. AnswerInv(n)'
  BY <1>0, <1>1 DEF AnswerInv, Talks, Like
<1> QED
  BY <1>1, <1>2, <1>3, <1>4, Worked

\* A request gets its account, goes on to the next kind of account, or fails for want of one.
LEMMA SelectSteps ==
  ASSUME RestInv, NEW n \in 1..Len(reqs), SelectKey(n) \/ SelectChatGPT(n) \/ SelectBackend(n)
  PROVE  RestInv'
<1>0. reqs \in Seq(ReqRec) /\ PcFits(reqs[n]) /\ checkpoints' = checkpoints
  BY DEF RestInv, ReqFits, SelectKey, SelectChatGPT, SelectBackend
<1>1. /\ reqs[n].pc \in {"apikey", "chatgpt", "backend"}
      /\ Len(reqs[n].atts) = 0 /\ reqs[n].told = "no" /\ reqs[n].acct = NoAccount
  BY <1>0 DEF PcFits, Progress, SelectKey, SelectChatGPT, SelectBackend
<1>2. NoAccount \notin Accounts /\ ~Fixed(n)
  BY <1>1, ProxyReplayAssumption DEF Fixed
<1>3. CASE Goes(n, "chatgpt")
  <2>1. Becomes(n, "chatgpt", reqs[n].acct, reqs[n].told, reqs[n].atts)
    BY <1>0, <1>3, PcSet DEF Steps
  <2>2. Progress(reqs[n].kind, reqs[n].prev, "chatgpt", reqs[n].acct, reqs[n].told, reqs[n].atts)
    BY <1>1 DEF Progress
  <2> QED
    BY <1>0, <1>1, <1>2, <2>1, <2>2, Proceeds
<1>4. ASSUME NEW a \in Upstreams, SetsAcct(n, "prepare", a)
      PROVE  RestInv'
  <2>1. Becomes(n, "prepare", a, reqs[n].told, reqs[n].atts)
    BY <1>0, <1>4, AcctSet DEF Steps
  <2>2. Progress(reqs[n].kind, reqs[n].prev, "prepare", a, reqs[n].told, reqs[n].atts)
    BY <1>1 DEF Progress
  <2> QED
    BY <1>0, <1>1, <1>2, <2>1, <2>2, Proceeds
<1>5. CASE SetsTold(n, "done", "failed")
  <2>1. Becomes(n, "done", reqs[n].acct, "failed", reqs[n].atts)
    BY <1>0, <1>5, ToldSet DEF Steps
  <2>2. Progress(reqs[n].kind, reqs[n].prev, "done", reqs[n].acct, "failed", reqs[n].atts)
    BY <1>1 DEF Progress
  <2> QED
    BY <1>0, <1>1, <1>2, <2>1, <2>2, Proceeds
<1>6. Selectable(Keys) \subseteq Upstreams /\ Selectable(Accounts) \subseteq Upstreams
  BY DEF Selectable, Ranked, Upstreams
<1> QED
  BY <1>3, <1>4, <1>5, <1>6 DEF SelectKey, SelectChatGPT, SelectBackend, SetsAcct, SetsTold, Answer

\* The upstream answers, refuses for quota, or fails.
LEMMA FetchedStep == ASSUME RestInv, NEW n \in 1..Len(reqs), Fetched(n) PROVE RestInv'
<1>0. reqs \in Seq(ReqRec) /\ PcFits(reqs[n]) /\ checkpoints' = checkpoints /\ reqs[n].pc = "fetch"
  BY DEF RestInv, ReqFits, Fetched
<1>1. /\ Len(reqs[n].atts) = 1 \/ Len(reqs[n].atts) = 2
      /\ reqs[n].told = "no"
      /\ reqs[n].kind \in {"stream", "backend", "own"} => Len(reqs[n].atts) <= 1
      /\ reqs[n].atts[Len(reqs[n].atts)].acct = reqs[n].acct
      /\ Len(reqs[n].atts) = 2 => reqs[n].atts[1].acct # reqs[n].atts[2].acct
  BY <1>0 DEF PcFits, Progress
<1>2. ~Fixed(n)
  BY <1>1 DEF Fixed
<1>3. CASE Checkpoints(n) /\ reqs[n].kind = "stream" /\ SetsTold(n, "stream", "begun")
  <2>1. Becomes(n, "stream", reqs[n].acct, "begun", reqs[n].atts)
    BY <1>0, <1>3, ToldSet DEF Steps
  <2>2. Talks(reqs[n].kind) /\ reqs[n].acct \in Accounts /\ reqs[n].kind = "stream"
    BY <1>3 DEF Checkpoints, Talks
  <2>3. Progress(reqs[n].kind, reqs[n].prev, "stream", reqs[n].acct, "begun", reqs[n].atts)
    BY <1>1, <2>2 DEF Progress
  <2> QED
    BY <1>0, <1>1, <1>2, <2>1, <2>3, Proceeds
<1>4. CASE Checkpoints(n) /\ reqs[n].kind # "stream" /\ Goes(n, "save")
  <2>1. Becomes(n, "save", reqs[n].acct, reqs[n].told, reqs[n].atts)
    BY <1>0, <1>4, PcSet DEF Steps
  <2>2. Talks(reqs[n].kind) /\ reqs[n].acct \in Accounts /\ reqs[n].kind # "stream"
    BY <1>4 DEF Checkpoints, Talks
  <2>3. Progress(reqs[n].kind, reqs[n].prev, "save", reqs[n].acct, reqs[n].told, reqs[n].atts)
    <3>1. PICK kind, acct, atts : kind = reqs[n].kind /\ acct = reqs[n].acct /\ atts = reqs[n].atts
      OBVIOUS
    <3>2. CASE Len(atts) = 1
      BY <1>1, <2>2, <3>1, <3>2 DEF Progress
    <3>3. CASE Len(atts) = 2
      BY <1>1, <2>2, <3>1, <3>3 DEF Progress
    <3> QED
      BY <1>1, <3>1, <3>2, <3>3
  <2> QED
    BY <1>0, <1>1, <1>2, <2>1, <2>3, Proceeds
<1>5. CASE ~Checkpoints(n) /\ SetsTold(n, "done", "ok")
  <2>1. Becomes(n, "done", reqs[n].acct, "ok", reqs[n].atts)
    BY <1>0, <1>5, ToldSet DEF Steps
  <2>2. Progress(reqs[n].kind, reqs[n].prev, "done", reqs[n].acct, "ok", reqs[n].atts)
    BY <1>1 DEF Progress
  <2>3. ~Talks(reqs[n].kind) \/ reqs[n].acct \notin Accounts
    BY <1>5 DEF Checkpoints, Talks
  <2> QED
    BY <1>0, <1>1, <1>2, <2>1, <2>2, <2>3, Proceeds
<1>6. CASE Retries(n) /\ Goes(n, "replay")
  <2>1. Becomes(n, "replay", reqs[n].acct, reqs[n].told, reqs[n].atts)
    BY <1>0, <1>6, PcSet DEF Steps
  <2>2. MayRetry(reqs[n].kind, reqs[n].prev, reqs[n].acct) /\ Len(reqs[n].atts) = 1
    BY <1>6 DEF Retries, Buffered, ViaKey, MayRetry, Tries
  <2>3. Progress(reqs[n].kind, reqs[n].prev, "replay", reqs[n].acct, reqs[n].told, reqs[n].atts)
    BY <1>1, <2>2 DEF Progress
  <2> QED
    BY <1>0, <1>1, <1>2, <2>1, <2>3, Proceeds
<1>7. CASE SetsTold(n, "done", "failed")
  <2>1. Becomes(n, "done", reqs[n].acct, "failed", reqs[n].atts)
    BY <1>0, <1>7, ToldSet DEF Steps
  <2>2. Progress(reqs[n].kind, reqs[n].prev, "done", reqs[n].acct, "failed", reqs[n].atts)
    BY <1>1 DEF Progress
  <2> QED
    BY <1>0, <1>1, <1>2, <2>1, <2>2, Proceeds
<1>8. PICK o \in Outcomes(n) :
        CASE o = "ok" /\ Checkpoints(n) ->
               IF reqs[n].kind = "stream" THEN SetsTold(n, "stream", "begun") ELSE Goes(n, "save")
          [] o = "ok" /\ ~Checkpoints(n) -> SetsTold(n, "done", "ok")
          [] o = "quota" /\ Retries(n) -> Goes(n, "replay")
          [] OTHER -> SetsTold(n, "done", "failed")
  BY DEF Fetched, SetsTold, Answer
<1> QED
  BY <1>3, <1>4, <1>5, <1>6, <1>7, <1>8

\* A stream ends, or breaks off after it has begun.
LEMMA StreamEndsStep == ASSUME RestInv, NEW n \in 1..Len(reqs), StreamEnds(n) PROVE RestInv'
<1>0. reqs \in Seq(ReqRec) /\ PcFits(reqs[n]) /\ checkpoints' = checkpoints /\ reqs[n].pc = "stream"
  BY DEF RestInv, ReqFits, StreamEnds
<1>1. /\ Len(reqs[n].atts) = 1 /\ reqs[n].told = "begun" /\ reqs[n].kind = "stream"
      /\ Talks(reqs[n].kind) /\ reqs[n].acct \in Accounts
      /\ reqs[n].atts[1].acct = reqs[n].acct
  BY <1>0 DEF PcFits, Progress
<1>2. CASE SetsTold(n, "save", "ok")
  <2>1. Becomes(n, "save", reqs[n].acct, "ok", reqs[n].atts)
    BY <1>0, <1>2, ToldSet DEF Steps
  <2>2. Progress(reqs[n].kind, reqs[n].prev, "save", reqs[n].acct, "ok", reqs[n].atts)
    BY <1>1 DEF Progress
  <2> QED
    BY <1>0, <1>1, <2>1, <2>2, Proceeds
<1>3. CASE SetsTold(n, "done", "failed")
  <2>1. Becomes(n, "done", reqs[n].acct, "failed", reqs[n].atts)
    BY <1>0, <1>3, ToldSet DEF Steps
  <2>2. Progress(reqs[n].kind, reqs[n].prev, "done", reqs[n].acct, "failed", reqs[n].atts)
    BY <1>1 DEF Progress
  <2> QED
    BY <1>0, <1>1, <2>1, <2>2, Proceeds
<1> QED
  BY <1>2, <1>3 DEF StreamEnds, SetsTold, Answer

\* Another account of the same kind is selected for the second attempt.
LEMMA SelectAnotherStep == ASSUME RestInv, NEW n \in 1..Len(reqs), SelectAnother(n) PROVE RestInv'
<1>0. reqs \in Seq(ReqRec) /\ PcFits(reqs[n]) /\ checkpoints' = checkpoints /\ reqs[n].pc = "replay"
  BY DEF RestInv, ReqFits, SelectAnother
<1>1. /\ Len(reqs[n].atts) = 1 /\ reqs[n].told = "no" /\ MayRetry(reqs[n].kind, reqs[n].prev, reqs[n].acct)
      /\ reqs[n].atts[1].acct = reqs[n].acct
  BY <1>0 DEF PcFits, Progress
<1>2. reqs[n].kind \notin {"stream", "backend", "own"} /\ ~Fixed(n)
  BY <1>1 DEF MayRetry, Fixed
<1>3. ASSUME NEW a \in Ranked(IF ViaKey(n) THEN Keys ELSE Accounts, Tried(n)), SetsAcct(n, "persist", a)
      PROVE  RestInv'
  <2>1. a \in Upstreams /\ (reqs[n].acct \in Accounts => a \in Accounts)
    BY <1>3, ProxyHttpAssumption DEF Ranked, ViaKey, Upstreams
  <2>2. MayRetry(reqs[n].kind, reqs[n].prev, a)
    BY <1>1, <1>3, ProxyHttpAssumption DEF MayRetry, Ranked, ViaKey
  <2>3. reqs[n].atts[1].acct # a
    <3>1. 1 \in DOMAIN reqs[n].atts
      BY <1>0, <1>1, ReqTypes
    <3>2. reqs[n].atts[1].acct \in Tried(n)
      BY <3>1 DEF Tried
    <3> QED
      BY <1>3, <3>2 DEF Ranked
  <2>4. Becomes(n, "persist", a, reqs[n].told, reqs[n].atts)
    BY <1>0, <1>3, <2>1, AcctSet DEF Steps
  <2>5. Progress(reqs[n].kind, reqs[n].prev, "persist", a, reqs[n].told, reqs[n].atts)
    BY <1>1, <1>2, <2>1, <2>2, <2>3 DEF Progress
  <2> QED
    BY <1>0, <1>1, <1>2, <2>1, <2>4, <2>5, Proceeds
<1>4. CASE SetsTold(n, "done", "failed")
  <2>1. Becomes(n, "done", reqs[n].acct, "failed", reqs[n].atts)
    BY <1>0, <1>4, ToldSet DEF Steps
  <2>2. Progress(reqs[n].kind, reqs[n].prev, "done", reqs[n].acct, "failed", reqs[n].atts)
    BY <1>1, <1>2 DEF Progress
  <2> QED
    BY <1>0, <1>1, <1>2, <2>1, <2>2, Proceeds
<1> QED
  BY <1>3, <1>4 DEF SelectAnother, SetsTold, SetsAcct, Answer

\* The second account becomes the selected one before the second attempt.
LEMMA PersistStep == ASSUME RestInv, NEW n \in 1..Len(reqs), Persist(n) PROVE RestInv'
<1>0. /\ reqs \in Seq(ReqRec) /\ PcFits(reqs[n]) /\ checkpoints' = checkpoints /\ reqs[n].pc = "persist"
      /\ Goes(n, "prepare")
  BY DEF RestInv, ReqFits, Persist
<1>1. /\ Len(reqs[n].atts) = 1 /\ reqs[n].told = "no" /\ MayRetry(reqs[n].kind, reqs[n].prev, reqs[n].acct)
      /\ reqs[n].acct \in Upstreams /\ reqs[n].atts[1].acct # reqs[n].acct
  BY <1>0 DEF PcFits, Progress
<1>2. reqs[n].kind \notin {"stream", "backend", "own"} /\ ~Fixed(n)
  BY <1>1 DEF MayRetry, Fixed
<1>3. Becomes(n, "prepare", reqs[n].acct, reqs[n].told, reqs[n].atts)
  BY <1>0, PcSet DEF Steps
<1>4. Progress(reqs[n].kind, reqs[n].prev, "prepare", reqs[n].acct, reqs[n].told, reqs[n].atts)
  BY <1>1, <1>2 DEF Progress
<1> QED
  BY <1>0, <1>1, <1>2, <1>3, <1>4, Proceeds

\* Request n sends attempt t.
LEMMA SendsAttempt ==
  ASSUME RestInv, NEW n \in 1..Len(reqs), NEW t \in AttRec, reqs[n].told = "no", checkpoints' = checkpoints,
         SetsAtts(n, "fetch", Append(reqs[n].atts, t)), TryFits(n, Len(reqs[n].atts) + 1, t),
         Progress(reqs[n].kind, reqs[n].prev, "fetch", reqs[n].acct, reqs[n].told, Append(reqs[n].atts, t))
  PROVE  RestInv'
<1>s. PICK s : s = Append(reqs[n].atts, t)
  OBVIOUS
<1>0. /\ reqs \in Seq(ReqRec) /\ reqs[n].atts \in Seq(AttRec) /\ ~Fixed(n)
      /\ Len(reqs) \in Nat
  BY ReqTypes DEF RestInv, Fixed, ReqRec
<1>1. /\ s \in Seq(AttRec) /\ Len(s) = Len(reqs[n].atts) + 1 /\ Len(reqs[n].atts) \in Nat
      /\ s[Len(reqs[n].atts) + 1] = t
      /\ \A k \in 1..Len(reqs[n].atts) : s[k] = reqs[n].atts[k]
  BY <1>0, <1>s, AppendProperties, LenProperties
<1>2. Becomes(n, "fetch", reqs[n].acct, reqs[n].told, s)
  BY <1>0, <1>1, <1>s, AttsSet DEF Steps
<1>3. PICK r \in ReqRec : /\ reqs' = [reqs EXCEPT ![n] = r] /\ Like(r, reqs[n])
                          /\ r.pc = "fetch" /\ r.acct = reqs[n].acct /\ r.told = reqs[n].told /\ r.atts = s
  BY <1>2 DEF Becomes
<1>4. /\ reqs' \in Seq(ReqRec) /\ Len(reqs') = Len(reqs) /\ reqs'[n] = r /\ Carry
      /\ \A m \in 1..Len(reqs) : m # n => reqs'[m] = reqs[m]
  BY <1>0, <1>3, Works DEF Like
<1>5. PcFits(reqs[n])'
  <2>1. PcFits(r)
    BY <1>3, <1>s DEF PcFits, Like
  <2> QED
    BY <1>4, <2>1 DEF PcFits, Progress, MayRetry, Talks, NoId
<1>6. AttInv(n)'
  <2>1. PICK j \in Nat : j = Len(reqs[n].atts)
    BY <1>1
  <2>2. reqs'[n].atts = s /\ Len(reqs') \in Nat /\ Carry
    BY <1>0, <1>3, <1>4
  <2>3. ASSUME NEW k \in 1..j PROVE AttFits(n, k)'
    <3>1. reqs'[n].atts[k] = reqs[n].atts[k] /\ k \in 1..Len(reqs[n].atts)
      BY <1>1, <2>1, <2>2
    <3> QED
      BY <2>2, <3>1, AttKept
  <2>4. ASSUME NEW k, k = j + 1 PROVE AttFits(n, k)'
    <3>1. TryFits(n, k, t)'
      BY <2>1, <2>2, <2>4, TryKept
    <3>2. reqs'[n].atts[k] = t
      BY <1>1, <2>1, <2>2, <2>4
    <3> QED
      BY <3>1, <3>2 DEF AttFits, TryFits
  <2>5. ASSUME NEW k \in 1..(j + 1) PROVE AttFits(n, k)'
    <3>1. k \in 1..j \/ k = j + 1
      BY <2>1
    <3> QED
      BY <2>3, <2>4, <3>1
  <2>6. Len(reqs'[n].atts) = j + 1
    BY <1>1, <2>1, <2>2
  <2> QED
    BY <2>5, <2>6 DEF AttInv
<1>7. AnswerInv(n)'
  BY <1>3, <1>4 DEF AnswerInv
<1> QED
  BY <1>4, <1>5, <1>6, <1>7, Worked

\* A request with credentials of its own goes to the upstream as it is.
LEMMA GoDirectStep == ASSUME RestInv, NEW n \in 1..Len(reqs), GoDirect(n) PROVE RestInv'
<1>0. /\ reqs \in Seq(ReqRec) /\ PcFits(reqs[n]) /\ checkpoints' = checkpoints /\ reqs[n].pc = "direct"
      /\ SetsAtts(n, "fetch", <<Attempt(NoAccount, NoId, <<n>>, <<n>>)>>)
  BY DEF RestInv, ReqFits, GoDirect, SetsAtts
<1>1. Len(reqs[n].atts) = 0 /\ reqs[n].told = "no" /\ reqs[n].acct = NoAccount
  BY <1>0 DEF PcFits, Progress
<1>2. PICK t : t = Attempt(NoAccount, NoId, <<n>>, <<n>>)
  OBVIOUS
<1>3. t \in AttRec /\ t.acct = NoAccount /\ t.prev = NoId
  <2>1. NoId \in Ids /\ n \in Nat
    BY DEF NoId, Ids
  <2>2. <<n>> \in Seq(Nat)
    BY <2>1
  <2> QED
    BY <1>2, <2>1, <2>2 DEF Attempt, AttRec
<1>4. reqs[n].atts \in Seq(AttRec)
  BY <1>0, ReqTypes DEF ReqRec
<1>5. reqs[n].atts = <<>>
  BY <1>1, <1>4, EmptySeq
<1>6. Append(reqs[n].atts, t) = <<t>>
  BY <1>5
<1>7. TryFits(n, Len(reqs[n].atts) + 1, t)
  BY <1>3, ProxyReplayAssumption DEF TryFits, Refuses
<1>8. Progress(reqs[n].kind, reqs[n].prev, "fetch", reqs[n].acct, reqs[n].told, <<t>>)
  <2>1. Len(<<t>>) = 1 /\ <<t>>[1] = t
    OBVIOUS
  <2>2. PICK s : s = <<t>>
    OBVIOUS
  <2>3. Progress(reqs[n].kind, reqs[n].prev, "fetch", reqs[n].acct, reqs[n].told, s)
    BY <1>1, <1>3, <2>1, <2>2 DEF Progress
  <2> QED
    BY <2>2, <2>3
<1> QED
  BY <1>0, <1>1, <1>2, <1>3, <1>6, <1>7, <1>8, SendsAttempt

\* What a checkpoint holds is the conversation up to it, and its account holds that
\* under the id it names.
LEMMA Stored ==
  ASSUME RestInv, NEW n \in 1..Len(reqs), reqs[n].prev # NoId, reqs[n].prev \in DOMAIN checkpoints,
         NEW c, c = checkpoints[reqs[n].prev]
  PROVE  /\ c.ctx \o <<n>> \in Seq(Nat) /\ (~Crossed(n) => c.ctx \o <<n>> = reqs[n].conv)
         /\ c.acct \in Accounts /\ c.up \in Ids /\ c.up # NoId
         /\ c.up.req \in 1..Len(reqs) /\ Fixed(c.up.req) /\ ~Refuses(c.acct, c.up)
         /\ reqs[c.up.req].atts[c.up.try].holds = c.ctx
<1>1. PICK m : m = reqs[n].prev.req
  OBVIOUS
<1>2. m \in 1..(n - 1) /\ reqs[n].conv = reqs[m].conv \o <<n>>
  BY <1>1 DEF RestInv, ReqFits, PrevInv
<1>3. CheckFits(reqs[n].prev)
  BY DEF RestInv
<1>4. /\ m \in 1..Len(reqs) /\ Fixed(m) /\ Talks(reqs[m].kind) /\ reqs[m].acct \in Accounts
      /\ Tries(m) > 0 /\ reqs[m].atts[Tries(m)].acct = reqs[m].acct
      /\ c.up = Id("upstream", m, Tries(m)) /\ c.acct = reqs[m].acct
      /\ c.ctx = reqs[m].atts[Tries(m)].full /\ c.ctx \in Seq(Nat)
  BY <1>1, <1>3 DEF CheckFits
<1>5. PICK k : k = Tries(m)
  OBVIOUS
<1>6. k \in 1..Len(reqs[m].atts) /\ k \in Nat /\ m \in Nat
  BY <1>4, <1>5, ReqTypes DEF Tries, RestInv
<1>7. AttFits(m, k)
  BY <1>4, <1>6 DEF RestInv, ReqFits, AttInv
<1>8. /\ reqs[m].atts[k].holds = reqs[m].atts[k].full
      /\ ~Crossed(m) => reqs[m].atts[k].full = reqs[m].conv
  BY <1>4, <1>5, <1>7 DEF AttFits, TryFits
<1>9. c.up.of = "upstream" /\ c.up.req = m /\ c.up.try = k /\ c.up \in Ids
  BY <1>4, <1>5, <1>6 DEF Id, Ids
<1>10. c.up # NoId /\ ~Refuses(c.acct, c.up)
  BY <1>4, <1>5, <1>9 DEF NoId, Refuses
<1>11. c.ctx \o <<n>> \in Seq(Nat)
  <2>1. n \in Nat
    OBVIOUS
  <2> QED
    BY <1>4, <2>1, Joined
<1>12. ~Crossed(n) => c.ctx \o <<n>> = reqs[n].conv
  <2>1. ~Crossed(n) => ~Crossed(m)
    BY <1>1, CrossedPrev
  <2> QED
    BY <1>2, <1>4, <1>5, <1>8, <2>1
<1> QED
  BY <1>4, <1>5, <1>8, <1>9, <1>10, <1>11, <1>12

\* What rewriteProxyCreateRequest makes of a request.
LEMMA RewrittenFits ==
  ASSUME RestInv, NEW n \in 1..Len(reqs), NEW a \in Accounts, reqs[n].acct = a, NEW k \in Nat,
         reqs[n].prev.of = "proxy" => Known(reqs[n].prev), NEW t, t = Rewritten(n, a)
  PROVE  t \in AttRec /\ t.acct = a /\ TryFits(n, k, t)
<1>0. n \in Nat /\ a \in Upstreams \cup {NoAccount} /\ <<n>> \in Seq(Nat) /\ NoId \in Ids
  <2>1. n \in Nat
    OBVIOUS
  <2> QED
    BY <2>1 DEF Upstreams, NoId, Ids
<1>1. PICK prev : prev = reqs[n].prev
  OBVIOUS
<1>2. CASE ~Known(prev)
  <2>1. t = Attempt(a, NoId, <<n>>, <<n>>)
    BY <1>1, <1>2 DEF Rewritten
  <2>2. t = [acct |-> a, prev |-> NoId, input |-> <<n>>, full |-> <<n>>, holds |-> <<n>>]
    BY <2>1 DEF Attempt
  <2>3. ~Crossed(n) => reqs[n].conv = <<n>>
    <3>1. CASE prev = NoId
      BY <1>1, <3>1 DEF RestInv, ReqFits, PrevInv
    <3>2. CASE prev # NoId
      <4>1. prev = IdOf(prev.req)
        BY <1>1, <3>2 DEF RestInv, ReqFits, PrevInv
      <4>2. prev.of \in {"proxy", "upstream"}
        BY <4>1 DEF IdOf, Id
      <4>3. prev.of = "upstream"
        BY <1>1, <1>2, <4>2
      <4> QED
        BY <1>1, <3>2, <4>3, CrossedPrev
    <3> QED
      BY <3>1, <3>2
  <2>4. t \in AttRec
    BY <1>0, <2>2 DEF AttRec
  <2>5. t.acct = a /\ t.prev = NoId /\ t.full = <<n>> /\ t.holds = <<n>>
    BY <2>2
  <2> QED
    BY <2>3, <2>4, <2>5 DEF TryFits, Refuses
<1>3. CASE Known(prev)
  <2>1. PICK c : c = checkpoints[prev]
    OBVIOUS
  <2>2. PICK full : full = c.ctx \o <<n>>
    OBVIOUS
  <2>3. prev \in DOMAIN checkpoints /\ prev # NoId
    <3>1. CheckFits(prev)
      BY <1>3 DEF RestInv, Known
    <3>2. prev = IdOf(prev.req)
      BY <3>1 DEF CheckFits
    <3> QED
      BY <1>3, <3>2 DEF Known, IdOf, Id, NoId
  <2>4. /\ full \in Seq(Nat) /\ (~Crossed(n) => full = reqs[n].conv)
        /\ c.acct \in Accounts /\ c.up \in Ids /\ c.up # NoId
        /\ c.up.req \in 1..Len(reqs) /\ Fixed(c.up.req) /\ ~Refuses(c.acct, c.up)
        /\ reqs[c.up.req].atts[c.up.try].holds = c.ctx
    BY <1>1, <2>1, <2>2, <2>3, Stored
  <2>5. CASE AskOwner(c, a, reqs[n].shape)
    <3>1. t = Attempt(a, c.up, <<n>>, full) /\ c.acct = a
      BY <1>1, <1>3, <2>1, <2>2, <2>5 DEF Rewritten, AskOwner
    <3>2. t = [acct |-> a, prev |-> c.up, input |-> <<n>>, full |-> full, holds |-> full]
      BY <2>2, <2>4, <3>1 DEF Attempt
    <3>3. t \in AttRec
      BY <1>0, <2>4, <3>2 DEF AttRec
    <3>4. t.acct = a /\ t.prev = c.up /\ t.full = full /\ t.holds = full
      BY <3>2
    <3> QED
      BY <2>4, <3>1, <3>3, <3>4 DEF TryFits
  <2>6. CASE ~AskOwner(c, a, reqs[n].shape)
    <3>1. t = Attempt(a, NoId, full, full)
      BY <1>1, <1>3, <2>1, <2>2, <2>6 DEF Rewritten
    <3>2. t = [acct |-> a, prev |-> NoId, input |-> full, full |-> full, holds |-> full]
      BY <3>1 DEF Attempt
    <3>3. t \in AttRec
      BY <1>0, <2>4, <3>2 DEF AttRec
    <3>4. t.acct = a /\ t.prev = NoId /\ t.full = full /\ t.holds = full
      BY <3>2
    <3> QED
      BY <2>4, <3>3, <3>4 DEF TryFits, Refuses
  <2> QED
    BY <2>5, <2>6
<1> QED
  BY <1>2, <1>3

\* What goes out as it came in.
LEMMA PlainFits ==
  ASSUME RestInv, NEW n \in 1..Len(reqs), NEW a \in Upstreams, a \in Keys \/ ~Talks(reqs[n].kind),
         NEW k \in Nat, k > 1 => MayRetry(reqs[n].kind, reqs[n].prev, a),
         NEW t, t = Attempt(a, reqs[n].prev, <<n>>, <<n>>)
  PROVE  t \in AttRec /\ t.acct = a /\ TryFits(n, k, t)
<1>0. n \in Nat /\ a \in Upstreams \cup {NoAccount} /\ <<n>> \in Seq(Nat)
  <2>1. n \in Nat
    OBVIOUS
  <2> QED
    BY <2>1
<1>1. PICK prev : prev = reqs[n].prev
  OBVIOUS
<1>2. PrevInv(n) /\ Len(reqs) \in Nat
  BY ReqTypes DEF RestInv, ReqFits
<1>5. prev \in Ids
  <2>1. reqs[n] \in ReqRec
    BY ReqTypes DEF RestInv
  <2> QED
    BY <1>1, <2>1 DEF ReqRec
<1>6. ASSUME NEW w \in Seq(Nat), NEW v \in Seq(Nat)
      PROVE  [acct |-> a, prev |-> prev, input |-> w, full |-> w, holds |-> v] \in AttRec
  BY <1>0, <1>5 DEF AttRec
<1>3. CASE prev = NoId
  <2>1. t = [acct |-> a, prev |-> NoId, input |-> <<n>>, full |-> <<n>>, holds |-> <<n>>]
    BY <1>1, <1>3 DEF Attempt
  <2>2. t \in AttRec
    BY <1>0, <1>3, <1>6, <2>1
  <2>3. t.acct = a /\ t.prev = NoId /\ t.full = <<n>> /\ t.holds = <<n>>
    BY <2>1
  <2>4. Talks(reqs[n].kind) => a \notin Accounts
    BY ProxyHttpAssumption
  <2> QED
    BY <2>2, <2>3, <2>4 DEF TryFits, Refuses
<1>4. CASE prev # NoId
  <2>1. PICK m : m = prev.req
    OBVIOUS
  <2>2. Talks(reqs[n].kind) /\ m \in 1..(n - 1) /\ Fixed(m) /\ Tries(m) > 0 /\ prev = IdOf(m)
    BY <1>1, <1>2, <1>4, <2>1 DEF PrevInv
  <2>3. m \in 1..Len(reqs) /\ prev.try = Tries(m)
    BY <1>2, <2>2 DEF IdOf, Id
  <2>4. Tries(m) \in 1..Len(reqs[m].atts)
    BY <2>2, <2>3, ReqTypes DEF Tries, RestInv
  <2>5. reqs[m].atts[prev.try] \in AttRec
    BY <2>3, <2>4, ReqTypes DEF RestInv
  <2>6. PICK h : h = reqs[m].atts[prev.try].holds
    OBVIOUS
  <2>7. h \in Seq(Nat)
    BY <2>5, <2>6 DEF AttRec
  <2>8. h \o <<n>> \in Seq(Nat)
    BY <1>0, <2>7, Joined
  <2>9. PICK e : e = IF prev = NoId \/ Refuses(a, prev) THEN <<n>> ELSE h \o <<n>>
    OBVIOUS
  <2>10. e \in Seq(Nat)
    BY <1>0, <2>8, <2>9
  <2>11. t = [acct |-> a, prev |-> prev, input |-> <<n>>, full |-> <<n>>, holds |-> e]
    BY <1>1, <2>1, <2>6, <2>9 DEF Attempt
  <2>12. t \in AttRec
    BY <1>0, <1>6, <2>10, <2>11
  <2>13. t.acct = a /\ t.prev = prev
    BY <2>11
  <2>14. a \notin Accounts /\ a \in Keys
    BY <2>2, ProxyHttpAssumption
  <2>15. ~(k > 1)
    BY <1>1, <1>4, <2>14 DEF MayRetry
  <2> QED
    BY <2>1, <2>2, <2>3, <2>12, <2>13, <2>14, <2>15 DEF TryFits
<1> QED
  BY <1>3, <1>4

\* The request is rewritten for its account, and sent.
LEMMA PrepareStep == ASSUME RestInv, NEW n \in 1..Len(reqs), Prepare(n) PROVE RestInv'
<1>0. /\ reqs \in Seq(ReqRec) /\ reqs[n] \in ReqRec /\ PcFits(reqs[n]) /\ checkpoints' = checkpoints
      /\ reqs[n].pc = "prepare" /\ PrevInv(n) /\ Len(reqs) \in Nat
  BY ReqTypes DEF RestInv, ReqFits, Prepare
<1>1. /\ Len(reqs[n].atts) = 0 \/ Len(reqs[n].atts) = 1
      /\ reqs[n].told = "no" /\ reqs[n].acct \in Upstreams
      /\ Len(reqs[n].atts) = 1 => /\ reqs[n].atts[1].acct # reqs[n].acct
                                  /\ MayRetry(reqs[n].kind, reqs[n].prev, reqs[n].acct)
  BY <1>0 DEF PcFits, Progress
<1>2. ~Fixed(n)
  BY <1>1 DEF Fixed
<1>3. PICK a : a = reqs[n].acct
  OBVIOUS
<1>4. CASE Talks(reqs[n].kind) /\ ~ViaKey(n) /\ reqs[n].prev.of = "proxy" /\ ~Known(reqs[n].prev)
           /\ SetsTold(n, "done", "unknown")
  <2>1. PICK m : m = reqs[n].prev.req
    OBVIOUS
  <2>2. reqs[n].prev # NoId
    BY <1>4 DEF NoId
  <2>3. /\ m \in 1..(n - 1) /\ Fixed(m) /\ Talks(reqs[m].kind) /\ Tries(m) > 0 /\ reqs[n].prev = IdOf(m)
        /\ reqs[m].kind = "responses" => reqs[m].told = "ok"
    BY <1>0, <2>1, <2>2 DEF PrevInv
  <2>4. m \in 1..Len(reqs) /\ reqs[m].acct \in Accounts /\ n # m
    BY <1>0, <1>4, <2>3 DEF IdOf, Id
  <2>5. PcFits(reqs[m]) /\ AnswerInv(m)
    BY <2>4 DEF RestInv, ReqFits
  <2>6. reqs[m].kind = "stream"
    <3> SUFFICES ASSUME reqs[m].kind # "stream" PROVE FALSE
      OBVIOUS
    <3>1. reqs[m].kind = "responses" /\ reqs[m].told = "ok"
      BY <2>3 DEF Talks
    <3>2. reqs[m].pc = "done"
      BY <2>5, <3>1 DEF PcFits, Progress
    <3> QED
      BY <1>4, <2>3, <2>4, <2>5, <3>1, <3>2 DEF AnswerInv, Known
  <2>7. Becomes(n, "done", reqs[n].acct, "unknown", reqs[n].atts)
    BY <1>0, <1>4, ToldSet DEF Steps
  <2>8. PICK r \in ReqRec : /\ reqs' = [reqs EXCEPT ![n] = r] /\ Like(r, reqs[n])
                            /\ r.pc = "done" /\ r.acct = reqs[n].acct /\ r.told = "unknown" /\ r.atts = reqs[n].atts
    BY <2>7 DEF Becomes
  <2>9. /\ reqs' \in Seq(ReqRec) /\ Len(reqs') = Len(reqs) /\ reqs'[n] = r /\ Carry
        /\ \A q \in 1..Len(reqs) : q # n => reqs'[q] = reqs[q]
    BY <1>2, <2>8, Works DEF Like
  <2>10. PcFits(reqs[n])'
    <3>1. Progress(reqs[n].kind, reqs[n].prev, "done", reqs[n].acct, "unknown", reqs[n].atts)
      BY <1>1, <1>4 DEF Progress, MayRetry
    <3>2. PcFits(r)
      BY <2>8, <3>1 DEF PcFits, Like
    <3> QED
      BY <2>9, <3>2 DEF PcFits, Progress, MayRetry, Talks, NoId
  <2>11. AttInv(n)'
    BY <1>0, <2>8, <2>9, AttKept DEF AttInv
  <2>12. AnswerInv(n)'
    <3>1. reqs'[m].kind = "stream" /\ reqs'[n].prev = reqs[n].prev /\ reqs'[n].told = "unknown"
      BY <2>4, <2>6, <2>8, <2>9 DEF Like
    <3> QED
      BY <1>4, <2>1, <3>1 DEF AnswerInv
  <2> QED
    BY <1>0, <2>9, <2>10, <2>11, <2>12, Worked
<1>5. ASSUME NEW t, t \in AttRec, t.acct = a, TryFits(n, Len(reqs[n].atts) + 1, t),
             SetsAtts(n, "fetch", Append(reqs[n].atts, t))
      PROVE  RestInv'
  <2>1. PICK s : s = Append(reqs[n].atts, t)
    OBVIOUS
  <2>2. reqs[n].atts \in Seq(AttRec)
    BY <1>0 DEF ReqRec
  <2>3. Len(s) = Len(reqs[n].atts) + 1 /\ s[Len(reqs[n].atts) + 1] = t
        /\ \A k \in 1..Len(reqs[n].atts) : s[k] = reqs[n].atts[k]
    BY <1>5, <2>1, <2>2, AppendProperties
  <2>4. Progress(reqs[n].kind, reqs[n].prev, "fetch", a, reqs[n].told, s)
    <3>1. CASE Len(reqs[n].atts) = 0
      BY <1>1, <1>3, <1>5, <2>3, <3>1 DEF Progress
    <3>2. CASE Len(reqs[n].atts) = 1
      <4>1. Len(s) = 2 /\ s[1] = reqs[n].atts[1] /\ s[2] = t
        BY <2>3, <3>2
      <4>2. reqs[n].kind \notin {"stream", "backend", "own"}
        BY <1>1, <3>2 DEF MayRetry
      <4> QED
        BY <1>1, <1>3, <1>5, <3>2, <4>1, <4>2 DEF Progress
    <3> QED
      BY <1>1, <3>1, <3>2
  <2> QED
    BY <1>0, <1>1, <1>3, <1>5, <2>1, <2>4, SendsAttempt
<1>6. CASE ~(Talks(reqs[n].kind) /\ ~ViaKey(n) /\ reqs[n].prev.of = "proxy" /\ ~Known(reqs[n].prev))
           /\ SetsAtts(n, "fetch", Append(reqs[n].atts, Body(n, a)))
  <2>1. PICK t : t = Body(n, a)
    OBVIOUS
  <2>2. PICK k \in Nat : k = Len(reqs[n].atts) + 1
    BY <1>1
  <2>3. CASE Talks(reqs[n].kind) /\ ~ViaKey(n)
    <3>1. t = Rewritten(n, a) /\ a \in Accounts
      BY <1>1, <1>3, <2>1, <2>3 DEF Body, Talks, ViaKey, Upstreams
    <3>2. t \in AttRec /\ t.acct = a /\ TryFits(n, k, t)
      BY <1>3, <1>6, <2>3, <3>1, RewrittenFits
    <3> QED
      BY <1>5, <1>6, <2>1, <2>2, <3>2
  <2>4. CASE ~(Talks(reqs[n].kind) /\ ~ViaKey(n))
    <3>1. t = Attempt(a, reqs[n].prev, <<n>>, <<n>>) /\ (a \in Keys \/ ~Talks(reqs[n].kind)) /\ a \in Upstreams
      BY <1>1, <1>3, <2>1, <2>4 DEF Body, Talks, ViaKey
    <3>2. k > 1 => MayRetry(reqs[n].kind, reqs[n].prev, a)
      BY <1>1, <1>3, <2>2
    <3>3. t \in AttRec /\ t.acct = a /\ TryFits(n, k, t)
      BY <3>1, <3>2, PlainFits
    <3> QED
      BY <1>5, <1>6, <2>1, <2>2, <3>3
  <2> QED
    BY <2>3, <2>4
<1> QED
  BY <1>3, <1>4, <1>6 DEF Prepare, Answer, SetsTold, SetsAtts, Talks

\* The answer is saved as a checkpoint, and told.
LEMMA SaveStep == ASSUME RestInv, NEW n \in 1..Len(reqs), Save(n) PROVE RestInv'
<1>0. reqs \in Seq(ReqRec) /\ reqs[n] \in ReqRec /\ PcFits(reqs[n]) /\ reqs[n].pc = "save" /\ SetsTold(n, "done", "ok")
  BY ReqTypes DEF RestInv, ReqFits, Save, Answer, SetsTold
<1>1. PICK k : k = Len(reqs[n].atts)
  OBVIOUS
<1>2. /\ k = 1 \/ k = 2
      /\ reqs[n].told \in {"ok", "no"} /\ Talks(reqs[n].kind) /\ reqs[n].acct \in Accounts
      /\ reqs[n].atts[k].acct = reqs[n].acct
  BY <1>0, <1>1 DEF PcFits, Progress
<1>3. /\ reqs[n].kind \in {"stream", "backend", "own"} => k <= 1
      /\ k = 2 => reqs[n].atts[1].acct # reqs[n].atts[2].acct
  BY <1>0, <1>1 DEF PcFits, Progress
<1>4. Becomes(n, "done", reqs[n].acct, "ok", reqs[n].atts)
  BY <1>0, ToldSet DEF Steps
<1>5. PICK r \in ReqRec : /\ reqs' = [reqs EXCEPT ![n] = r] /\ Like(r, reqs[n])
                          /\ r.pc = "done" /\ r.acct = reqs[n].acct /\ r.told = "ok" /\ r.atts = reqs[n].atts
  BY <1>4 DEF Becomes
<1>6. /\ reqs' \in Seq(ReqRec) /\ Len(reqs') = Len(reqs) /\ reqs'[n] = r /\ Carry
      /\ \A q \in 1..Len(reqs) : q # n => reqs'[q] = reqs[q]
  BY <1>5, Works DEF Like
<1>7. PcFits(reqs[n])'
  <2>1. Progress(reqs[n].kind, reqs[n].prev, "done", reqs[n].acct, "ok", reqs[n].atts)
    BY <1>1, <1>2, <1>3 DEF Progress
  <2>2. PcFits(r)
    BY <1>5, <2>1 DEF PcFits, Like
  <2> QED
    BY <1>6, <2>2 DEF PcFits, Progress, MayRetry, Talks, NoId
<1>8. Len(reqs') \in Nat /\ n \in 1..Len(reqs')
  BY <1>0, <1>6, ReqTypes
<1>9. AttInv(n)'
  BY <1>5, <1>6, <1>8, AttKept DEF AttInv
<1>10. PICK id : id = IdOf(n)
  OBVIOUS
<1>11. /\ reqs'[n].kind = reqs[n].kind /\ reqs'[n].acct = reqs[n].acct /\ reqs'[n].atts = reqs[n].atts
       /\ reqs'[n].told = "ok"
  BY <1>5, <1>6 DEF Like
<1>12. IdOf(n)' = id /\ Tries(n)' = k /\ Tries(n) = k /\ id.req = n
  BY <1>1, <1>10, <1>11 DEF IdOf, Tries, Id
<1>13. /\ DOMAIN checkpoints' = DOMAIN checkpoints \cup {id} /\ checkpoints'[id] = Kept(n)
       /\ \A i \in DOMAIN checkpoints : i # id => checkpoints'[i] = checkpoints[i]
  BY <1>10 DEF Save
<1>14. AnswerInv(n)'
  BY <1>11, <1>12, <1>13 DEF AnswerInv
<1>15. CheckFits(id)'
  <2>1. /\ Kept(n).acct = reqs[n].acct /\ Kept(n).up = Id("upstream", n, k) /\ Kept(n).ctx = reqs[n].atts[k].full
    BY <1>2, <1>12 DEF Kept
  <2>2. reqs[n].atts[k].full \in Seq(Nat)
    <3>0. k = 1 \/ k = 2
      BY <1>2
    <3>1. k \in 1..Len(reqs[n].atts)
      <4>1. k \in 1..k
        BY <3>0
      <4> QED
        BY <1>1, <4>1
    <3>2. reqs[n].atts[k] \in AttRec
      BY <1>0, <3>1, ReqTypes
    <3> QED
      BY <3>2 DEF AttRec
  <2>3. Fixed(n)' /\ Tries(n)' > 0 /\ Talks(reqs[n].kind)'
    BY <1>2, <1>11, <1>12 DEF Fixed, Talks
  <2>4. Id("upstream", n, Tries(n))' = Id("upstream", n, k)
    BY <1>12 DEF Id
  <2> QED
    BY <1>2, <1>8, <1>11, <1>12, <1>13, <2>1, <2>2, <2>3, <2>4 DEF CheckFits
<1>16. \A i \in DOMAIN checkpoints' : (i \in DOMAIN checkpoints /\ checkpoints'[i] = checkpoints[i]) \/ CheckFits(i)'
  BY <1>13, <1>15
<1>17. \A i \in DOMAIN checkpoints : i \in DOMAIN checkpoints'
  BY <1>13
<1> QED
  BY <1>6, <1>7, <1>9, <1>14, <1>16, <1>17, Worked

\* A new request, of its own or going on from one the client was given.
LEMMA SendsStep ==
  ASSUME RestInv, checkpoints' = checkpoints, NEW kind \in RestKinds, NEW prev \in Ids, NEW shape \in Nat,
         NEW conv \in Seq(Nat), NEW r, r = Asked(kind, prev, shape, conv), reqs' = Append(reqs, r),
         prev = NoId => conv = <<Len(reqs) + 1>>,
         prev # NoId => \E m \in 1..Len(reqs) : /\ Talks(kind) /\ Continuable(m) /\ prev = IdOf(m)
                                                /\ conv = reqs[m].conv \o <<Len(reqs) + 1>>
  PROVE  RestInv'
<1>0. reqs \in Seq(ReqRec) /\ Len(reqs) \in Nat
  BY ReqTypes DEF RestInv
<1>1. /\ r.kind = kind /\ r.prev = prev /\ r.shape = shape /\ r.pc = FirstStep(kind) /\ r.acct = NoAccount
      /\ r.atts = <<>> /\ r.told = "no" /\ r.conv = conv
  BY DEF Asked
<1>2. r \in ReqRec
  <2>1. FirstStep(kind) \in Steps
    BY DEF FirstStep, Steps
  <2>2. <<>> \in Seq(AttRec)
    OBVIOUS
  <2> QED
    BY <2>1, <2>2 DEF Asked, ReqRec
<1>3. PICK N \in Nat : N = Len(reqs) + 1
  BY <1>0
<1>4. /\ reqs' \in Seq(ReqRec) /\ Len(reqs') = N /\ reqs'[N] = r
      /\ \A m \in 1..Len(reqs) : reqs'[m] = reqs[m]
  BY <1>0, <1>2, <1>3, AppendProperties
<1>5. Carry /\ Len(reqs') \in Nat
  BY <1>0, <1>3, <1>4 DEF Carry, Carried, Fixed
<1>6. ASSUME NEW m \in 1..Len(reqs) PROVE ReqFits(m)'
  BY <1>4, <1>5, Others
<1>7. ASSUME NEW i \in DOMAIN checkpoints' PROVE CheckFits(i)'
  BY <1>5, CheckKept
<1>8. PcFits(reqs[N])'
  <2>1. FirstStep(kind) \in {"apikey", "backend", "direct"}
    BY DEF FirstStep
  <2>2. PICK pc, s : pc = FirstStep(kind) /\ s = <<>>
    OBVIOUS
  <2>3. Len(s) = 0
    BY <2>2
  <2>4. Progress(kind, prev, pc, NoAccount, "no", s)
    BY <2>1, <2>2, <2>3 DEF Progress
  <2>5. PcFits(r)
    BY <1>1, <2>2, <2>4 DEF PcFits
  <2> QED
    BY <1>4, <2>5 DEF PcFits, Progress, MayRetry, Talks, NoId
<1>9. AttInv(N)' /\ AnswerInv(N)'
  <2>1. Len(<<>>) = 0
    OBVIOUS
  <2>2. reqs'[N].atts = <<>> /\ reqs'[N].told = "no"
    BY <1>1, <1>4
  <2>3. \A k : k \notin 1..0
    OBVIOUS
  <2> QED
    BY <2>1, <2>2, <2>3 DEF AttInv, AnswerInv
<1>10. CASE prev = NoId
  <2>1. reqs'[N].conv = <<N>> /\ reqs'[N].prev = NoId
    BY <1>1, <1>3, <1>4, <1>10
  <2>2. Len(<<N>>) = 1 /\ <<N>>[1] = N /\ N \in 1..N
    BY <1>0, <1>3
  <2>3. ConvInv(N)' /\ PrevInv(N)'
    BY <2>1, <2>2 DEF ConvInv, PrevInv
  <2>4. ReqFits(N)'
    BY <1>8, <1>9, <2>3 DEF ReqFits
  <2>5. \A m \in 1..Len(reqs') : ReqFits(m)'
    BY <1>0, <1>3, <1>4, <1>6, <2>4
  <2> QED
    BY <1>4, <1>7, <2>5 DEF RestInv
<1>11. CASE prev # NoId
  <2>1. PICK m \in 1..Len(reqs) : /\ Talks(kind) /\ Continuable(m) /\ prev = IdOf(m)
                                  /\ conv = reqs[m].conv \o <<N>>
    BY <1>3, <1>11
  <2>2. /\ reqs'[N].conv = conv /\ reqs'[N].prev = prev /\ reqs'[N].kind = kind /\ reqs'[m] = reqs[m]
    BY <1>1, <1>4
  <2>3. prev.req = m /\ m \in 1..(N - 1)
    BY <1>0, <1>3, <2>1 DEF IdOf, Id
  <2>4. /\ reqs[m].told # "no" /\ Talks(reqs[m].kind) /\ Tries(m) > 0
        /\ reqs[m].kind = "responses" => reqs[m].told = "ok"
    <3>1. reqs[m].kind \in {"responses", "stream"} /\ reqs[m].told \in {"begun", "ok"}
      BY <2>1 DEF Continuable
    <3>2. PcFits(reqs[m])
      BY DEF RestInv, ReqFits
    <3>3. /\ reqs[m].told = "begun" => reqs[m].pc = "stream"
          /\ reqs[m].pc = "stream" => reqs[m].kind = "stream" /\ Len(reqs[m].atts) > 0
          /\ reqs[m].told = "ok" => Len(reqs[m].atts) > 0
      BY <3>2 DEF PcFits, Progress
    <3> QED
      BY <3>1, <3>3 DEF Talks, Tries
  <2>5. PrevInv(N)'
    <3>1. IdOf(m)' = IdOf(m) /\ Tries(m)' = Tries(m) /\ Fixed(m)'
      BY <2>2, <2>4 DEF IdOf, Tries, Id, Fixed
    <3>2. IdOf(m)' = prev /\ reqs'[N].conv = reqs'[m].conv \o <<N>>
      BY <2>1, <2>2, <3>1
    <3> QED
      BY <1>11, <2>1, <2>2, <2>3, <2>4, <3>1, <3>2 DEF PrevInv, Talks
  <2>6. ConvInv(N)'
    <3>1. PICK c : c = reqs[m].conv
      OBVIOUS
    <3>2. c \in Seq(Nat)
      <4>1. reqs[m] \in ReqRec
        BY <1>0, ReqTypes
      <4> QED
        BY <3>1, <4>1 DEF ReqRec
    <3>3. ConvInv(m)
      BY DEF RestInv, ReqFits
    <3>4. \A i \in 1..Len(c) : c[i] \in 1..N
      BY <1>0, <1>3, <3>1, <3>3 DEF ConvInv
    <3>5. /\ Len(c) \in Nat /\ Len(conv) = Len(c) + 1
          /\ (\A i \in 1..Len(c) : conv[i] = c[i]) /\ conv[Len(c) + 1] = N
      BY <1>3, <2>1, <3>1, <3>2, Joined
    <3>6. ASSUME NEW i \in 1..Len(conv) PROVE conv[i] \in 1..N
      <4>1. CASE i \in 1..Len(c)
        BY <3>4, <3>5, <4>1
      <4>2. CASE i = Len(c) + 1
        BY <1>0, <1>3, <3>5, <4>2
      <4> QED
        BY <3>5, <4>1, <4>2
    <3> QED
      BY <2>2, <3>6 DEF ConvInv
  <2>7. ReqFits(N)'
    BY <1>8, <1>9, <2>5, <2>6 DEF ReqFits
  <2>8. \A q \in 1..Len(reqs') : ReqFits(q)'
    BY <1>0, <1>3, <1>4, <1>6, <2>7
  <2> QED
    BY <1>4, <1>7, <2>8 DEF RestInv
<1> QED
  BY <1>10, <1>11

\* The client sends a request of its own, or one that goes on from an answer.
LEMMA RestAsksStep == ASSUME RestInv, load \in Surfaces, RestAsks PROVE RestInv'
<1>0. reqs \in Seq(ReqRec) /\ Len(reqs) \in Nat /\ DOMAIN reqs = 1..Len(reqs)
  BY ReqTypes DEF RestInv
<1>1. load.kinds \subseteq RestKinds /\ load.shapes \subseteq Nat
  BY ProxyHttpAssumption
<1>2. PICK kind \in RestKinds, shape \in Nat :
        \/ Sends(kind, NoId, shape)
        \/ kind \in {"responses", "stream"} /\ \E n \in DOMAIN reqs : Continuable(n) /\ Sends(kind, IdOf(n), shape)
  BY <1>1 DEF RestAsks
<1>3. PICK N \in Nat : N = Len(reqs) + 1
  BY <1>0
<1>4. CASE Sends(kind, NoId, shape)
  <2>1. PICK conv : conv = <<>> \o <<N>>
    OBVIOUS
  <2>2. conv = <<N>> /\ conv \in Seq(Nat)
    BY <2>1
  <2>3. NoId \in Ids
    BY DEF NoId, Ids
  <2>4. reqs' = Append(reqs, Asked(kind, NoId, shape, conv)) /\ checkpoints' = checkpoints
    BY <1>3, <1>4, <2>1 DEF Sends
  <2> QED
    BY <1>3, <2>2, <2>3, <2>4, SendsStep
<1>5. ASSUME NEW n \in 1..Len(reqs), kind \in {"responses", "stream"}, Continuable(n), Sends(kind, IdOf(n), shape)
      PROVE  RestInv'
  <2>1. PICK prev : prev = IdOf(n)
    OBVIOUS
  <2>2. prev \in Ids /\ prev # NoId /\ prev.req = n
    <3>1. Len(reqs[n].atts) \in Nat /\ n \in Nat
      BY <1>0, ReqTypes
    <3> QED
      BY <2>1, <3>1 DEF IdOf, Id, Ids, NoId, Tries
  <2>3. PICK conv : conv = reqs[n].conv \o <<N>>
    OBVIOUS
  <2>4. conv \in Seq(Nat)
    <3>1. reqs[n] \in ReqRec
      BY <1>0, ReqTypes
    <3>2. reqs[n].conv \in Seq(Nat)
      BY <3>1 DEF ReqRec
    <3> QED
      BY <2>3, <3>2, Joined
  <2>5. reqs' = Append(reqs, Asked(kind, prev, shape, conv)) /\ checkpoints' = checkpoints
    BY <1>3, <1>5, <2>1, <2>2, <2>3 DEF Sends
  <2>6. \E m \in 1..Len(reqs) : Talks(kind) /\ Continuable(m) /\ prev = IdOf(m)
                                /\ conv = reqs[m].conv \o <<Len(reqs) + 1>>
    BY <1>3, <1>5, <2>1, <2>3 DEF Talks
  <2> QED
    BY <2>2, <2>4, <2>5, <2>6, SendsStep
<1> QED
  BY <1>0, <1>2, <1>4, <1>5

-----------------------------------------------------------------------------

\* A step that does not touch the requests.
LEMMA RestStays == ASSUME RestInv, reqs' = reqs, checkpoints' = checkpoints PROVE RestInv'
<1>1. Carry /\ Len(reqs') \in Nat
  BY ReqTypes DEF RestInv, Carry, Carried, Fixed
<1>2. ASSUME NEW m \in 1..Len(reqs) PROVE ReqFits(m)'
  BY <1>1, Others
<1>3. ASSUME NEW i \in DOMAIN checkpoints PROVE CheckFits(i)'
  BY <1>1, CheckKept
<1> QED
  BY <1>2, <1>3 DEF RestInv

\* Before the first request.
LEMMA RestBegins == HttpInit => RestInv
<1> SUFFICES ASSUME HttpInit PROVE RestInv
  OBVIOUS
<1>1. reqs \in Seq(ReqRec) /\ Len(reqs) = 0 /\ DOMAIN checkpoints = {}
  BY DEF HttpInit
<1> QED
  BY <1>1 DEF RestInv

\* Every step of a request: one of its operations.
LEMMA RestStepKept == ASSUME RestInv, RestStep PROVE RestInv'
<1>1. PICK n \in 1..Len(reqs) :
        \/ SelectKey(n) \/ SelectChatGPT(n)
        \/ ResponsesLoop(n) \/ ChatLoop(n) \/ RawLoop(n) \/ ApiKeyLoop(n)
        \/ StreamRoute(n) \/ DirectRoute(n) \/ BackendRoute(n)
  BY ReqTypes DEF RestStep, RestInv
<1>2. \/ SelectKey(n) \/ SelectChatGPT(n) \/ SelectBackend(n) \/ GoDirect(n) \/ Prepare(n) \/ Fetched(n)
      \/ StreamEnds(n) \/ Save(n) \/ SelectAnother(n) \/ Persist(n)
  BY <1>1 DEF ResponsesLoop, ChatLoop, RawLoop, ApiKeyLoop, StreamRoute, DirectRoute, BackendRoute, Loop
<1> QED
  BY <1>2, SelectSteps, GoDirectStep, PrepareStep, FetchedStep, StreamEndsStep, SaveStep, SelectAnotherStep,
     PersistStep

-----------------------------------------------------------------------------

\* The workload and the accounts selected.
LoadInv == load \in Surfaces /\ selection \in Upstreams \cup {NoAccount} /\ selects \in 0..load.selects

HttpInv == SocketInv /\ UpInv /\ RestInv /\ LoadInv

\* The whole proxy before it has served anything.
LEMMA HttpInitInv == HttpInit => HttpInv
<1> SUFFICES ASSUME HttpInit PROVE HttpInv
  OBVIOUS
<1>1. SocketInv
  BY SocketInit DEF HttpInit
<1>2. UpInv
  BY ProxyReplayAssumption DEF HttpInit, NoTurn, UpInv, Idle, Procs
<1>3. LoadInv
  <2>1. load \in Surfaces /\ load.managed \in SUBSET Upstreams /\ load.selects \in Nat
    BY ProxyHttpAssumption DEF HttpInit
  <2> QED
    BY <2>1 DEF HttpInit, LoadInv
<1> QED
  BY <1>1, <1>2, <1>3, RestBegins DEF HttpInv

\* What the steps do to the selected account.
LEMMA SocketSelects ==
  ASSUME SocketInv, Runs \/ ClientCreates \/ (\E p \in Procs : OpenFails(p)) \/ (\E s \in DOMAIN socks : Drops(s))
  PROVE  selection' = selection \/ selection' \in Accounts
<1>1. CASE \E h \in Handlers : Replay(h)
  <2>1. PICK h \in Handlers : Replay(h)
    BY <1>1
  <2>2. proc[h].pc = "persist" /\ Working(h) /\ selection' = proc[h].acct
    BY <2>1 DEF Replay, Working
  <2>3. proc[h].acct \in Accounts
    BY <2>1, <2>2 DEF SocketInv, ProcInv, HandlerFits, Replaying
  <2> QED
    BY <2>2, <2>3
<1>2. CASE ~(\E h \in Handlers : Replay(h))
  BY <1>2 DEF Runs, ClientCreates, OpenFails, Drops, Choose, ChooseNone, CloseDone, OpenDone, Recorded,
              SelectReplay, Finalized, ReceiveEvent, Emit, Closed, ReceiveTerminal
<1> QED
  BY <1>1, <1>2

\* The same of the REST side, and of the operator.
LEMMA RestSelects ==
  ASSUME RestInv, LoadInv, RestStep \/ RestAsks \/ OperatorSelects
  PROVE  /\ selection' \in Upstreams \cup {NoAccount}
         /\ elsewhere' = TRUE \/ (elsewhere' = elsewhere /\ selection' = selection)
         /\ selects' = selects \/ (OperatorSelects /\ selects' = selects + 1 /\ selects < load.selects)
<1>1. CASE OperatorSelects
  <2>1. load.managed \in SUBSET Upstreams
    BY ProxyHttpAssumption DEF LoadInv
  <2> QED
    BY <1>1, <2>1 DEF OperatorSelects
<1>2. CASE RestAsks
  BY <1>2 DEF RestAsks, Sends, LoadInv
<1>3. CASE RestStep
  <2>1. PICK n \in 1..Len(reqs) :
          \/ SelectKey(n) \/ SelectChatGPT(n) \/ SelectBackend(n) \/ GoDirect(n) \/ Prepare(n) \/ Fetched(n)
          \/ StreamEnds(n) \/ Save(n) \/ SelectAnother(n) \/ Persist(n)
    BY <1>3, ReqTypes DEF RestInv, RestStep, ResponsesLoop, ChatLoop, RawLoop, ApiKeyLoop, StreamRoute, DirectRoute,
                          BackendRoute, Loop
  <2>2. CASE Persist(n)
    <3>1. reqs[n].pc = "persist" /\ PcFits(reqs[n])
      BY <2>2 DEF Persist, RestInv, ReqFits
    <3>2. reqs[n].acct \in Upstreams
      BY <3>1 DEF PcFits, Progress
    <3> QED
      BY <2>2, <3>2 DEF Persist
  <2>3. CASE ~Persist(n)
    <3>1. UNCHANGED <<selection, selects, elsewhere>>
      BY <2>1, <2>3 DEF SelectKey, SelectChatGPT, SelectBackend, GoDirect, Prepare, Fetched, StreamEnds, Save,
                        SelectAnother
    <3> QED
      BY <3>1 DEF LoadInv
  <2> QED
    BY <2>2, <2>3
<1> QED
  BY <1>1, <1>2, <1>3

\* Every step of the proxy.
LEMMA HttpStep ==
  ASSUME DoubleFailure = FALSE, HttpInv, [HttpNext]_allVars
  PROVE  HttpInv'
<1>0. load.selects \in Nat
  BY ProxyHttpAssumption DEF HttpInv, LoadInv
<1>1. CASE UNCHANGED allVars
  <2>1. SocketInv'
    BY <1>1, SocketStays DEF HttpInv, allVars, vars, socketVars, upVars, clientVars
  <2>2. RestInv'
    BY <1>1, RestStays DEF HttpInv, allVars, rest
  <2>3. UpInv' /\ LoadInv'
    BY <1>1 DEF HttpInv, UpInv, LoadInv, allVars, vars, rest, upVars
  <2> QED
    BY <2>1, <2>2, <2>3 DEF HttpInv
<1>2. CASE (RestStep \/ RestAsks \/ OperatorSelects) /\ UNCHANGED socketVars /\ UNCHANGED load
  <2>1. SocketInv'
    BY <1>2, SocketStays DEF HttpInv
  <2>2. RestInv'
    <3>1. CASE OperatorSelects
      BY <3>1, RestStays DEF HttpInv, OperatorSelects
    <3>2. CASE RestAsks
      BY <3>2, RestAsksStep DEF HttpInv, LoadInv
    <3>3. CASE RestStep
      BY <3>3, RestStepKept DEF HttpInv
    <3> QED
      BY <1>2, <3>1, <3>2, <3>3
  <2>3. /\ selection' \in Upstreams \cup {NoAccount}
        /\ elsewhere' = TRUE \/ (elsewhere' = elsewhere /\ selection' = selection)
        /\ selects' = selects \/ (selects' = selects + 1 /\ selects < load.selects)
    BY <1>2, RestSelects DEF HttpInv
  <2>4. UpInv'
    BY <1>2, <2>3 DEF HttpInv, UpInv, socketVars, upVars
  <2>5. LoadInv'
    BY <1>0, <1>2, <2>3 DEF HttpInv, LoadInv
  <2> QED
    BY <2>1, <2>2, <2>4, <2>5 DEF HttpInv
<1>3. CASE WebSocketStep /\ UNCHANGED load
  <2>1. /\ Runs \/ ClientCreates \/ (\E p \in Procs : OpenFails(p)) \/ (\E s \in DOMAIN socks : Drops(s))
        /\ UNCHANGED rest
    BY <1>3 DEF WebSocketStep
  <2>2. SocketInv'
    BY <2>1, SocketStep DEF HttpInv
  <2>3. UpInv'
    BY <2>1, UpStep DEF HttpInv, rest
  <2>4. RestInv'
    BY <2>1, RestStays DEF HttpInv, rest
  <2>5. LoadInv'
    <3>1. selection' = selection \/ selection' \in Accounts
      BY <2>1, SocketSelects DEF HttpInv
    <3> QED
      BY <1>3, <2>1, <3>1 DEF HttpInv, LoadInv, Upstreams, rest
  <2> QED
    BY <2>2, <2>3, <2>4, <2>5 DEF HttpInv
<1> QED
  BY <1>1, <1>2, <1>3 DEF HttpNext

-----------------------------------------------------------------------------

\* The invariant types the REST side;
LEMMA HttpTypes == HttpInv => HttpTypeOK
<1> SUFFICES ASSUME HttpInv PROVE HttpTypeOK
  OBVIOUS
<1>1. DOMAIN reqs = 1..Len(reqs) /\ \A n \in 1..Len(reqs) : reqs[n] \in ReqRec /\ PcFits(reqs[n])
  BY ReqTypes DEF HttpInv, RestInv, ReqFits
<1>2. ASSUME NEW n \in DOMAIN reqs
      PROVE  /\ reqs[n].pc \in Steps
             /\ reqs[n].told \in {"no", "begun", "ok", "failed", "unknown"}
             /\ reqs[n].acct \in Upstreams \cup {NoAccount}
             /\ reqs[n].pc = "done" => reqs[n].told # "no"
  <2>1. reqs[n] \in ReqRec /\ PcFits(reqs[n])
    BY <1>1, <1>2
  <2>2. reqs[n].pc = "done" => reqs[n].told # "no"
    BY <2>1 DEF PcFits, Progress
  <2> QED
    BY <2>1, <2>2 DEF ReqRec
<1>3. ASSUME NEW i \in DOMAIN checkpoints PROVE i.of = "proxy" /\ checkpoints[i].acct \in Accounts
  <2>1. CheckFits(i)
    BY DEF HttpInv, RestInv
  <2> QED
    BY <2>1 DEF CheckFits, IdOf, Id
<1> QED
  BY <1>2, <1>3 DEF HttpInv, LoadInv, HttpTypeOK, Steps

\* it bounds the accounts a request is sent to, by the attempts and their accounts;
LEMMA AccountsTried == RestInv => TwoAccounts
<1> SUFFICES ASSUME RestInv, NEW n \in DOMAIN reqs
             PROVE  /\ Cardinality(Tried(n)) = Tries(n)
                    /\ Tries(n) <= IF reqs[n].kind \in {"stream", "backend", "own"} THEN 1 ELSE 2
  BY DEF TwoAccounts
<1>1. /\ PcFits(reqs[n]) /\ DOMAIN reqs[n].atts = 1..Len(reqs[n].atts)
  BY ReqTypes DEF RestInv, ReqFits
<1>2. PICK k : k = Len(reqs[n].atts)
  OBVIOUS
<1>3. /\ k \in 0..2
      /\ reqs[n].kind \in {"stream", "backend", "own"} => k <= 1
      /\ k = 2 => reqs[n].atts[1].acct # reqs[n].atts[2].acct
  BY <1>1, <1>2 DEF PcFits, Progress
<1>4. ASSUME k = 0 PROVE Cardinality(Tried(n)) = k
  <2>1. Tried(n) = {}
    BY <1>1, <1>2, <1>4 DEF Tried
  <2> QED
    BY <1>4, <2>1, FS_EmptySet
<1>5. ASSUME k = 1 PROVE Cardinality(Tried(n)) = k
  <2>1. 1..k = {1}
    BY <1>5
  <2>2. Tried(n) = {reqs[n].atts[1].acct}
    BY <1>1, <1>2, <2>1 DEF Tried
  <2> QED
    BY <1>5, <2>2, FS_Singleton
<1>6. ASSUME k = 2 PROVE Cardinality(Tried(n)) = k
  <2>1. PICK a, b : a = reqs[n].atts[1].acct /\ b = reqs[n].atts[2].acct
    OBVIOUS
  <2>2. 1..k = {1, 2}
    BY <1>6
  <2>3. Tried(n) = {a} \cup {b}
    BY <1>1, <1>2, <2>1, <2>2 DEF Tried
  <2>4. IsFiniteSet({a}) /\ Cardinality({a}) = 1 /\ b \notin {a}
    BY <1>3, <1>6, <2>1, FS_Singleton
  <2>5. Cardinality({a} \cup {b}) = 2
    BY <2>4, FS_AddElement
  <2> QED
    BY <1>6, <2>3, <2>5
<1>7. Cardinality(Tried(n)) = k
  BY <1>3, <1>4, <1>5, <1>6
<1>8. Tries(n) = k
  BY <1>2 DEF Tries
<1> QED
  BY <1>3, <1>7, <1>8

\* and it says of each attempt what its upstream holds of the conversation.
LEMMA Conversations == RestInv => ConversationInv
<1> SUFFICES ASSUME RestInv PROVE ConversationInv
  OBVIOUS
<1>1. ContextWhole
  <2> SUFFICES ASSUME NEW n \in DOMAIN reqs, Checkpoints(n), reqs[n].told \in {"begun", "ok"}, ~Crossed(n)
               PROVE  reqs[n].atts[Tries(n)].holds = reqs[n].conv
    BY DEF ContextWhole
  <2>1. n \in 1..Len(reqs) /\ PcFits(reqs[n]) /\ AttInv(n) /\ Len(reqs[n].atts) \in Nat
    BY ReqTypes DEF RestInv, ReqFits
  <2>2. PICK k : k = Len(reqs[n].atts)
    OBVIOUS
  <2>3. k > 0 /\ reqs[n].atts[k].acct = reqs[n].acct
    BY <2>1, <2>2 DEF PcFits, Progress
  <2>4. Talks(reqs[n].kind) /\ reqs[n].acct \in Accounts
    BY DEF Checkpoints, Talks
  <2>5. AttFits(n, k)
    BY <2>1, <2>2, <2>3 DEF AttInv
  <2> QED
    BY <2>2, <2>3, <2>4, <2>5 DEF AttFits, TryFits, Tries
<1>2. CheckpointsTrue
  <2> SUFFICES ASSUME NEW i \in DOMAIN checkpoints
               PROVE  LET c == checkpoints[i]
                          t == reqs[c.up.req].atts[c.up.try]
                      IN  t.acct = c.acct /\ t.holds = c.ctx
    BY DEF CheckpointsTrue
  <2>1. PICK m, c : m = i.req /\ c = checkpoints[i]
    OBVIOUS
  <2>2. /\ m \in 1..Len(reqs) /\ Talks(reqs[m].kind) /\ reqs[m].acct \in Accounts
        /\ Tries(m) > 0 /\ reqs[m].atts[Tries(m)].acct = reqs[m].acct
        /\ c.up = Id("upstream", m, Tries(m)) /\ c.acct = reqs[m].acct
        /\ c.ctx = reqs[m].atts[Tries(m)].full
    BY <2>1 DEF RestInv, CheckFits
  <2>3. PICK k : k = Tries(m)
    OBVIOUS
  <2>4. k \in 1..Len(reqs[m].atts)
    BY <2>2, <2>3, ReqTypes DEF Tries, RestInv
  <2>5. AttFits(m, k)
    BY <2>2, <2>4 DEF RestInv, ReqFits, AttInv
  <2>6. c.up.req = m /\ c.up.try = k
    BY <2>2, <2>3 DEF Id
  <2>7. reqs[m].atts[k].acct = c.acct /\ reqs[m].atts[k].holds = c.ctx
    BY <2>2, <2>3, <2>5 DEF AttFits, TryFits
  <2> QED
    BY <2>1, <2>6, <2>7
<1>3. AskedOwner
  <2> SUFFICES ASSUME NEW n \in DOMAIN reqs, NEW k \in DOMAIN reqs[n].atts,
                      reqs[n].atts[k].acct \in Accounts \/ k > 1
               PROVE  ~Refuses(reqs[n].atts[k].acct, reqs[n].atts[k].prev)
    BY DEF AskedOwner
  <2>1. n \in 1..Len(reqs) /\ k \in 1..Len(reqs[n].atts)
    BY ReqTypes DEF RestInv
  <2>2. AttFits(n, k)
    BY <2>1 DEF RestInv, ReqFits, AttInv
  <2> QED
    BY <2>2 DEF AttFits, TryFits
<1> QED
  BY <1>1, <1>2, <1>3 DEF ConversationInv

\* An unknown id is an id of an answer streamed.
LEMMA Answered == RestInv => AnsweredIsKnown
<1> SUFFICES ASSUME RestInv, NEW n \in DOMAIN reqs, reqs[n].told = "unknown"
             PROVE  reqs[reqs[n].prev.req].kind = "stream"
  BY DEF AnsweredIsKnown
<1>1. AnswerInv(n)
  BY ReqTypes DEF RestInv, ReqFits
<1> QED
  BY <1>1 DEF AnswerInv

-----------------------------------------------------------------------------

\* The requests need no assumption on the websocket, which never touches them: this half
\* of the invariant is inductive by itself.
RestKept == RestInv /\ load \in Surfaces

\* Every step of the proxy, seen from the requests.
LEMMA RestKeptStep == ASSUME RestKept, [HttpNext]_allVars PROVE RestKept'
<1>1. CASE UNCHANGED allVars
  BY <1>1, RestStays DEF RestKept, allVars, rest
<1>2. CASE (RestStep \/ RestAsks \/ OperatorSelects) /\ UNCHANGED load
  <2>1. CASE OperatorSelects
    BY <1>2, <2>1, RestStays DEF RestKept, OperatorSelects
  <2>2. CASE RestAsks
    BY <1>2, <2>2, RestAsksStep DEF RestKept
  <2>3. CASE RestStep
    BY <1>2, <2>3, RestStepKept DEF RestKept
  <2> QED
    BY <1>2, <2>1, <2>2, <2>3
<1>3. CASE WebSocketStep /\ UNCHANGED load
  BY <1>3, RestStays DEF RestKept, WebSocketStep, rest
<1> QED
  BY <1>1, <1>2, <1>3 DEF HttpNext

\* Whatever the websocket does, also in the order of which DoubleFailure speaks, the
\* requests, their attempts and the checkpoints keep to RestInv.
THEOREM RestInvariant == HttpSpec => []RestKept
<1>1. HttpInit => RestKept
  BY RestBegins DEF HttpInit, RestKept
<1>2. RestKept /\ [HttpNext]_allVars => RestKept'
  BY RestKeptStep
<1> QED
  BY <1>1, <1>2, PTL DEF HttpSpec

\* A conversation stays whole over all its requests, whichever accounts its parts were
\* answered by: an upstream that answers has worked from all of it, a checkpoint says
\* what the account it names holds under the id it gives, and a ChatGPT account is never
\* asked to go on from another account's response (rewriteProxyCreateRequest and
\* persistProxyResponseCheckpointFromTurn in proxy/replay.ts).
THEOREM ConversationSound == HttpSpec => []ConversationInv
<1>1. RestKept => ConversationInv
  BY Conversations DEF RestKept
<1> QED
  BY RestInvariant, <1>1, PTL

\* A client that goes on from a buffered answer is never told that the answer is
\* unknown: its checkpoint is written before it is told. Only of a stream it may be.
THEOREM AnswerKnown == HttpSpec => []AnsweredIsKnown
<1>1. RestKept => AnsweredIsKnown
  BY Answered DEF RestKept
<1> QED
  BY RestInvariant, <1>1, PTL

\* The invariant of the whole proxy.
THEOREM HttpInvariant ==
  ASSUME DoubleFailure = FALSE
  PROVE  HttpSpec => []HttpInv
<1>1. HttpInv /\ [HttpNext]_allVars => HttpInv'
  BY HttpStep
<1> QED
  BY HttpInitInv, <1>1, PTL DEF HttpSpec

\* A turn of the websocket is replayed at most once and the client sees one attempt of
\* it and one answer, and a request is sent to at most two accounts, each once, whatever
\* the upstreams answer, and whichever connections fail or break off (replayActiveTurnAfterQuotaFailure and
\* fetchSyntheticResponsesPayloadWithReplay in proxy/server.ts).
THEOREM ReplaySound ==
  ASSUME DoubleFailure = FALSE
  PROVE  HttpSpec => []ReplayInv
<1>1. HttpInv => ReplayInv
  BY SocketPromise, HttpTypes, AccountsTried DEF HttpInv, ReplayInv
<1> QED
  BY HttpInvariant, <1>1, PTL

\* Between two turns the open upstream socket belongs to the persisted account, unless
\* a REST request or the operator has chosen since (ensureSyntheticUpstreamSocket).
THEOREM SocketFollowsSelection ==
  ASSUME DoubleFailure = FALSE
  PROVE  HttpSpec => []SocketFollows
<1>1. HttpInv => SocketFollows
  BY DEF HttpInv, UpInv, SocketFollows, UpstreamIsSelection
<1> QED
  BY HttpInvariant, <1>1, PTL
=============================================================================
