------------------------------ MODULE ProxyHttp ------------------------------
(***************************************************************************)
(* The REST side of the local proxy (src/src/proxy/server.ts, replay.ts,   *)
(* context.ts), next to the websocket of ProxyReplay: requests choose an   *)
(* upstream account, are sent, are sent once more to another account when  *)
(* the first is out of quota, and, for /v1/responses, keep a checkpoint of *)
(* the conversation from which it can go on at any account.  Both surfaces *)
(* read and replace the same persisted upstream account.                   *)
(*                                                                         *)
(* A conversation is the sequence of its requests: in a context, a request *)
(* stands for its input and for the output it got.  A response id names    *)
(* who gave it, the request, and the attempt of it that was answered.      *)
(***************************************************************************)
EXTENDS ProxyReplay

CONSTANTS Keys,     \* accounts with auth_mode "apikey"; Accounts have "chatgpt"
          Surfaces  \* workloads: accounts managed, those open to automatic switching,
                    \* daemon-state's auto_switch, the kinds of request and how many of
                    \* them and at one time, body shapes, whether an upstream may fail
                    \* otherwise, selections by the operator, websocket turns

Upstreams == Accounts \cup Keys
RestKinds == {"responses",  \* POST /v1/responses, buffered
              "stream",     \* the same with stream: true
              "chat",       \* /v1/chat/completions, /v1/completions
              "raw",        \* any other /v1 route with a JSON body
              "backend",    \* /backend-api/...
              "own"}        \* any of them with credentials of the client's own

ASSUME ProxyHttpAssumption ==
  /\ Keys \cap (Accounts \cup {NoAccount}) = {}
  /\ Surfaces \subseteq [managed : SUBSET Upstreams, eligible : SUBSET Upstreams, auto : BOOLEAN,
                         kinds : SUBSET RestKinds, rest : Nat, slots : Nat, shapes : SUBSET Nat,
                         faults : BOOLEAN, selects : Nat, turns : Nat]

VARIABLES load,
          reqs,        \* the REST requests so far, see Asked
          checkpoints, \* the files of proxy/responses: by proxy response id
          selects,     \* selections the operator has made
          elsewhere    \* history: the account was selected by other than the websocket, or
                       \* none was to begin with

rest == <<reqs, checkpoints, selects, elsewhere>>
allVars == <<vars, load, rest>>

NoId == [of |-> "none", req |-> 0, try |-> 0]
Id(of, n, k) == [of |-> of, req |-> n, try |-> k]

\* An account holds the responses it has given, and refuses another's id.
Refuses(a, prev) ==
  prev # NoId /\ ~(prev.of = "upstream" /\ reqs[prev.req].atts[prev.try].acct = a)

\* One attempt: the account it goes to and the previous_response_id and the input of
\* its body;
\* full is the fullInput of the turn, and holds the conversation the upstream then
\* works from: what it gave that id for, and the input.
Attempt(a, prev, input, full) ==
  [acct |-> a, prev |-> prev, input |-> input, full |-> full,
   holds |-> IF prev = NoId \/ Refuses(a, prev) THEN input
             ELSE reqs[prev.req].atts[prev.try].holds \o input]

\* Where the handler of a request goes first.
FirstStep(kind) ==
  CASE kind = "own" -> "direct" [] kind = "backend" -> "backend" [] OTHER -> "apikey"

\* told: nothing yet, the stream has begun, answered with 2xx, with another status,
\* or with the 500 of an unknown previous_response_id.  conv (history): the
\* conversation this request goes on with.
Asked(kind, prev, shape, conv) ==
  [kind |-> kind, prev |-> prev, shape |-> shape, pc |-> FirstStep(kind), acct |-> NoAccount,
   atts |-> <<>>, told |-> "no", conv |-> conv]

Open(n) == reqs[n].pc # "done"
Tries(n) == Len(reqs[n].atts)
ViaKey(n) == reqs[n].acct \in Keys

\* The id under which the client can go on with request n, once it has seen it.
IdOf(n) == Id(IF reqs[n].acct \in Accounts THEN "proxy" ELSE "upstream", n, Tries(n))
Continuable(n) == reqs[n].kind \in {"responses", "stream"} /\ reqs[n].told \in {"begun", "ok"}

-----------------------------------------------------------------------------
(* The account *)

\* The accounts the ranking may put first (all of them: the ranking is left out).
Ranked(type, tried) == (load.managed \cap load.eligible \cap type) \ tried

\* selectProxyAccount for a new request: the operator's choice or none, if it is
\* still managed; else the ranking.
Selectable(type) ==
  IF selection \in load.managed THEN {selection} \cap type ELSE Ranked(type, {})

Goes(n, pc) == reqs' = [reqs EXCEPT ![n].pc = pc]
Answer(n, told) == reqs' = [reqs EXCEPT ![n].pc = "done", ![n].told = told]

\* handleOpenAIRoute: an API-key account if one may be chosen.
SelectKey(n) ==
  /\ reqs[n].pc = "apikey"
  /\ IF Selectable(Keys) = {} THEN Goes(n, "chatgpt")
     ELSE \E a \in Selectable(Keys) : reqs' = [reqs EXCEPT ![n].pc = "prepare", ![n].acct = a]
  /\ UNCHANGED <<selection, checkpoints, selects, elsewhere>>

\* Mutant of SelectChatGPT: without an account the request is left.
SelectChatGPTOrLeave(n) ==
  /\ reqs[n].pc = "chatgpt"
  /\ IF Selectable(Accounts) = {} THEN Goes(n, "done")
     ELSE \E a \in Selectable(Accounts) : reqs' = [reqs EXCEPT ![n].pc = "prepare", ![n].acct = a]
  /\ UNCHANGED <<selection, checkpoints, selects, elsewhere>>

\* Otherwise a ChatGPT account; with neither, 503.
SelectChatGPT(n) ==
  /\ reqs[n].pc = "chatgpt"
  /\ IF Selectable(Accounts) = {} THEN Answer(n, "failed")
     ELSE \E a \in Selectable(Accounts) : reqs' = [reqs EXCEPT ![n].pc = "prepare", ![n].acct = a]
  /\ UNCHANGED <<selection, checkpoints, selects, elsewhere>>

\* forwardChatGPTBackend: a ChatGPT account, or 503.
SelectBackend(n) ==
  /\ reqs[n].pc = "backend"
  /\ IF Selectable(Accounts) = {} THEN Answer(n, "failed")
     ELSE \E a \in Selectable(Accounts) : reqs' = [reqs EXCEPT ![n].pc = "prepare", ![n].acct = a]
  /\ UNCHANGED <<selection, checkpoints, selects, elsewhere>>

\* The client's own credentials are passed on; no account is chosen.
GoDirect(n) ==
  /\ reqs[n].pc = "direct"
  /\ reqs' = [reqs EXCEPT ![n].pc = "fetch", ![n].atts = <<Attempt(NoAccount, NoId, <<n>>, <<n>>)>>]
  /\ UNCHANGED <<selection, checkpoints, selects, elsewhere>>

-----------------------------------------------------------------------------
(* The body *)

Known(id) == id \in DOMAIN checkpoints

\* Mutant of AskOwner: the account is not compared.
AskAny(c, a, shape) == c.shape = shape

\* The upstream holds the conversation: it is this account's, and the body has the
\* same shape.
AskOwner(c, a, shape) == c.acct = a /\ c.shape = shape

\* rewriteProxyCreateRequest: the previous response's own upstream id and the new
\* input, or the whole conversation; an id of an upstream is dropped.
Rewritten(n, a) ==
  LET prev == reqs[n].prev
      full == checkpoints[prev].ctx \o <<n>>
  IN IF ~Known(prev) THEN Attempt(a, NoId, <<n>>, <<n>>)
     ELSE IF AskOwner(checkpoints[prev], a, reqs[n].shape)
     THEN Attempt(a, checkpoints[prev].up, <<n>>, full)
     ELSE Attempt(a, NoId, full, full)

\* What goes out: API-key upstreams get the client's body as it is.
Body(n, a) ==
  IF reqs[n].kind \in {"responses", "stream"} /\ ~ViaKey(n)
    THEN Rewritten(n, a) ELSE Attempt(a, reqs[n].prev, <<n>>, <<n>>)

\* Every attempt's body is made anew for its account; an unknown id of the proxy's
\* own is an error.
Prepare(n) ==
  LET r == reqs[n] IN
  /\ r.pc = "prepare"
  /\ IF r.kind \in {"responses", "stream"} /\ ~ViaKey(n) /\ r.prev.of = "proxy" /\ ~Known(r.prev)
       THEN Answer(n, "unknown")
       ELSE reqs' = [reqs EXCEPT ![n].pc = "fetch", ![n].atts = Append(@, Body(n, r.acct))]
  /\ UNCHANGED <<selection, checkpoints, selects, elsewhere>>

-----------------------------------------------------------------------------
(* The upstream *)

\* How it may answer; "lost": fetch throws.
Outcomes(n) ==
  LET t == reqs[n].atts[Tries(n)] IN
  IF Refuses(t.acct, t.prev) THEN {"fail"}
  ELSE {"ok"} \cup (IF t.acct = NoAccount THEN {} ELSE {"quota"})
              \cup (IF load.faults THEN {"fail", "lost"} ELSE {})

-----------------------------------------------------------------------------
(* The answer *)

Buffered(n) == reqs[n].kind \in {"responses", "chat"} \/ (reqs[n].kind = "raw" /\ ~ViaKey(n))

\* Mutant of Retries: a second failure is replayed too.
RetriesAlways(n) == Buffered(n) /\ ~(ViaKey(n) /\ reqs[n].prev # NoId)

\* The buffered routes, once; never an id of the upstream at an API-key account.
Retries(n) ==
  /\ Buffered(n) /\ Tries(n) = 1
  /\ ~(ViaKey(n) /\ reqs[n].prev # NoId)

Checkpoints(n) == reqs[n].kind \in {"responses", "stream"} /\ reqs[n].acct \in Accounts

\* Mutant of Fetched: a buffered answer is written before its checkpoint.
FetchedAnswersFirst(n) ==
  /\ reqs[n].pc = "fetch"
  /\ \E o \in Outcomes(n) :
       CASE o = "ok" /\ Checkpoints(n) -> reqs' = [reqs EXCEPT ![n].pc = "save", ![n].told = "ok"]
         [] o = "ok" /\ ~Checkpoints(n) -> Answer(n, "ok")
         [] o = "quota" /\ Retries(n) -> Goes(n, "replay")
         [] OTHER -> Answer(n, "failed")
  /\ UNCHANGED <<selection, checkpoints, selects, elsewhere>>

\* fetch returns and a buffered body has been read.
Fetched(n) ==
  /\ reqs[n].pc = "fetch"
  /\ \E o \in Outcomes(n) :
       CASE o = "ok" /\ Checkpoints(n) ->
              IF reqs[n].kind = "stream" THEN reqs' = [reqs EXCEPT ![n].pc = "stream", ![n].told = "begun"]
              ELSE Goes(n, "save")
         [] o = "ok" /\ ~Checkpoints(n) -> Answer(n, "ok")
         [] o = "quota" /\ Retries(n) -> Goes(n, "replay")
         [] OTHER -> Answer(n, "failed")
  /\ UNCHANGED <<selection, checkpoints, selects, elsewhere>>

\* writeSyntheticResponsesEventStream: the end goes out, then a completed response
\* is kept; one that is cut off or not completed is not.
StreamEnds(n) ==
  /\ reqs[n].pc = "stream"
  /\ \/ reqs' = [reqs EXCEPT ![n].pc = "save", ![n].told = "ok"]
     \/ load.faults /\ Answer(n, "failed")
  /\ UNCHANGED <<selection, checkpoints, selects, elsewhere>>

\* Mutant of Kept: the context is what was sent, not the whole conversation.
KeptAsSent(n) ==
  LET t == reqs[n].atts[Tries(n)] IN
  [acct |-> t.acct, up |-> Id("upstream", n, Tries(n)), ctx |-> t.input, shape |-> reqs[n].shape]

\* Mutant of Kept: the checkpoint names the account of the first attempt.
KeptForFirst(n) ==
  LET t == reqs[n].atts[Tries(n)] IN
  [acct |-> reqs[n].atts[1].acct, up |-> Id("upstream", n, Tries(n)), ctx |-> t.full, shape |-> reqs[n].shape]

\* persistProxyResponseCheckpointFromTurn, with replayed.selected and replayed.turn.
Kept(n) ==
  LET t == reqs[n].atts[Tries(n)] IN
  [acct |-> t.acct, up |-> Id("upstream", n, Tries(n)), ctx |-> t.full, shape |-> reqs[n].shape]

\* The checkpoint is written; a buffered answer follows.
Save(n) ==
  /\ reqs[n].pc = "save"
  /\ checkpoints' = [i \in DOMAIN checkpoints \cup {IdOf(n)} |->
                       IF i = IdOf(n) THEN Kept(n) ELSE checkpoints[i]]
  /\ Answer(n, "ok")
  /\ UNCHANGED <<selection, selects, elsewhere>>

Tried(n) == {reqs[n].atts[k].acct : k \in DOMAIN reqs[n].atts}

\* Mutant of SelectAnother: it waits until another account may be chosen.
SelectAnotherWaits(n) ==
  /\ reqs[n].pc = "replay"
  /\ \E a \in Ranked(IF ViaKey(n) THEN Keys ELSE Accounts, Tried(n)) :
       reqs' = [reqs EXCEPT ![n].pc = "persist", ![n].acct = a]
  /\ UNCHANGED <<selection, checkpoints, selects, elsewhere>>

\* selectProxyReplayAccount: with automatic switching on, another account of the
\* same kind; else the failure is the answer.
SelectAnother(n) ==
  LET others == Ranked(IF ViaKey(n) THEN Keys ELSE Accounts, Tried(n)) IN
  /\ reqs[n].pc = "replay"
  /\ IF load.auto /\ others # {}
       THEN \E a \in others : reqs' = [reqs EXCEPT ![n].pc = "persist", ![n].acct = a]
       ELSE Answer(n, "failed")
  /\ UNCHANGED <<selection, checkpoints, selects, elsewhere>>

\* persistProxyUpstreamAccountSelection; then the loop starts over.
Persist(n) ==
  /\ reqs[n].pc = "persist"
  /\ selection' = reqs[n].acct
  /\ elsewhere' = TRUE
  /\ Goes(n, "prepare")
  /\ UNCHANGED <<checkpoints, selects>>

-----------------------------------------------------------------------------

\* A client sends a request, of its own or going on from a response it was given.
Sends(kind, prev, shape) ==
  /\ Len(reqs) < load.rest
  /\ Cardinality({n \in DOMAIN reqs : Open(n)}) < load.slots
  /\ reqs' = Append(reqs, Asked(kind, prev, shape,
               (IF prev = NoId THEN <<>> ELSE reqs[prev.req].conv) \o <<Len(reqs) + 1>>))
  /\ UNCHANGED <<selection, checkpoints, selects, elsewhere>>

RestAsks ==
  \E kind \in load.kinds, shape \in load.shapes :
    \/ Sends(kind, NoId, shape)
    \/ /\ kind \in {"responses", "stream"}
       /\ \E n \in DOMAIN reqs : Continuable(n) /\ Sends(kind, IdOf(n), shape)

\* A switch by the operator persists its account, too; an account of no name is one
\* that is no longer managed.
OperatorSelects ==
  /\ selects < load.selects
  /\ selects' = selects + 1
  /\ selection' \in (load.managed \cup {NoAccount}) \ {selection}
  /\ elsewhere' = TRUE
  /\ UNCHANGED <<reqs, checkpoints>>

HttpInit ==
  /\ load \in Surfaces
  /\ selection \in load.managed \cup {NoAccount}
  /\ NoTurn
  /\ reqs = <<>> /\ checkpoints = [i \in {} |-> 0]
  /\ selects = 0 /\ elsewhere = (selection \notin Accounts)

\* The loop of the buffered routes, written out for each of them.
Loop(n) == Prepare(n) \/ Fetched(n) \/ SelectAnother(n) \/ Persist(n)
At(n, kinds) == reqs[n].kind \in kinds /\ ~ViaKey(n)

ResponsesLoop(n) == At(n, {"responses"}) /\ (Loop(n) \/ Save(n))
ChatLoop(n) == At(n, {"chat"}) /\ Loop(n)
RawLoop(n) == At(n, {"raw"}) /\ Loop(n)
ApiKeyLoop(n) == ViaKey(n) /\ Loop(n)
StreamRoute(n) == At(n, {"stream"}) /\ (Prepare(n) \/ Fetched(n) \/ StreamEnds(n) \/ Save(n))
DirectRoute(n) == At(n, {"own"}) /\ (GoDirect(n) \/ Fetched(n))
BackendRoute(n) == At(n, {"backend"}) /\ (SelectBackend(n) \/ Prepare(n) \/ Fetched(n))

RestStep ==
  \E n \in DOMAIN reqs :
    \/ SelectKey(n) \/ SelectChatGPT(n)
    \/ ResponsesLoop(n) \/ ChatLoop(n) \/ RawLoop(n) \/ ApiKeyLoop(n)
    \/ StreamRoute(n) \/ DirectRoute(n) \/ BackendRoute(n)

\* The websocket's variables other than the selection.
socketVars == <<upVars, active, turns, socks, attempts, proc, clientVars, fails, drops>>

WebSocketStep ==
  /\ Runs \/ (ClientCreates /\ Len(turns) < load.turns) \/ (\E p \in Procs : OpenFails(p))
     \/ (load.turns > 0 /\ \E s \in DOMAIN socks : Drops(s))
  /\ UNCHANGED rest

HttpNext ==
  /\ \/ (RestStep \/ RestAsks \/ OperatorSelects) /\ UNCHANGED socketVars
     \/ WebSocketStep
  /\ UNCHANGED load

\* Requests run on and upstreams answer what they are asked.
HttpSpec ==
  /\ HttpInit /\ [][HttpNext]_allVars
  /\ WF_allVars(Runs /\ UNCHANGED <<load, rest>>)
  /\ WF_allVars(RestStep /\ UNCHANGED <<load, socketVars>>)

-----------------------------------------------------------------------------
(* Properties *)

HttpTypeOK ==
  /\ load \in Surfaces /\ selection \in Upstreams \cup {NoAccount}
  /\ \A n \in DOMAIN reqs :
       /\ reqs[n].pc \in {"apikey", "chatgpt", "backend", "direct", "prepare", "fetch", "stream", "save", "replay", "persist", "done"}
       /\ reqs[n].told \in {"no", "begun", "ok", "failed", "unknown"}
       /\ reqs[n].acct \in Upstreams \cup {NoAccount}
       /\ reqs[n].pc = "done" => reqs[n].told # "no"
  /\ \A i \in DOMAIN checkpoints : i.of = "proxy" /\ checkpoints[i].acct \in Accounts
  /\ selects \in 0..load.selects

\* Between two websocket turns the open upstream socket belongs to the persisted
\* account, unless a REST request or the operator has chosen since.
SocketFollows == ~elsewhere => UpstreamIsSelection

\* A conversation that left an API-key upstream: its id means nothing to the proxy.
Crossed(n) == \E i \in DOMAIN reqs[n].conv : LET m == reqs[n].conv[i] IN reqs[m].prev.of = "upstream" /\ reqs[m].acct \in Accounts

\* An upstream that answers has worked from the whole conversation, whichever
\* accounts its parts were answered by (replay.ts, rewriteProxyCreateRequest).
ContextWhole ==
  \A n \in DOMAIN reqs :
    Checkpoints(n) /\ reqs[n].told \in {"begun", "ok"} /\ ~Crossed(n)
      => reqs[n].atts[Tries(n)].holds = reqs[n].conv

\* A checkpoint tells what the account it names holds under the id it gives:
\* sending that id and sending the context are the same.
CheckpointsTrue ==
  \A i \in DOMAIN checkpoints :
    LET c == checkpoints[i]
        t == reqs[c.up.req].atts[c.up.try]
    IN t.acct = c.acct /\ t.holds = c.ctx

\* A ChatGPT account is never asked to go on from another account's response, and a
\* replay at an API-key account goes on from none.
AskedOwner ==
  \A n \in DOMAIN reqs, k \in 1..2 :
    k \in DOMAIN reqs[n].atts /\ (reqs[n].atts[k].acct \in Accounts \/ k > 1)
      => ~Refuses(reqs[n].atts[k].acct, reqs[n].atts[k].prev)

\* A client that goes on from a buffered response is not told that the response is
\* unknown; of a stream it may be, see the README.
AnsweredIsKnown ==
  \A n \in DOMAIN reqs : reqs[n].told = "unknown" => reqs[reqs[n].prev.req].kind = "stream"

\* A request reaches at most two accounts, and each once; one that streams, passes
\* to the backend or has its own credentials reaches one.
TwoAccounts ==
  \A n \in DOMAIN reqs :
    /\ Cardinality(Tried(n)) = Tries(n)
    /\ Tries(n) <= IF reqs[n].kind \in {"stream", "backend", "own"} THEN 1 ELSE 2

\* Every request is answered.
RequestAnswered ==
  \A n \in 1..3 : (n \in DOMAIN reqs) ~> (n \in DOMAIN reqs /\ reqs[n].pc = "done")

\* The websocket and the REST side go to a second account at most, and the client
\* sees one attempt and one answer (replayActiveTurnAfterQuotaFailure,
\* fetchSyntheticResponsesPayloadWithReplay).
ReplayInv == TypeOK /\ HttpTypeOK /\ OneReplay /\ TwoAccounts /\ OneAttemptSeen /\ OneAnswer

\* A conversation stays whole over all its requests: its context reaches whichever
\* account answers, what is stored of it is what was said, and an account is asked
\* to go on only from what it knows (rewriteProxyCreateRequest,
\* persistProxyResponseCheckpointFromTurn).
ConversationInv == ContextWhole /\ CheckpointsTrue /\ AskedOwner

\* Every turn of the websocket and every request ends in an answer.
EachAnswered == TurnAnswered /\ RequestAnswered
=============================================================================
