--------------------------- MODULE MCProxyReplay ---------------------------
\* Instances of the proxy: its websocket and its REST requests.
EXTENDS ProxyHttp

CONSTANTS acc1, acc2, acc3, key1, key2

MCAccounts == {acc1, acc2, acc3}
Two == {acc1, acc2}

Base == [managed |-> Two, eligible |-> Two, auto |-> TRUE, kinds |-> {"responses"}, rest |-> 0,
         slots |-> 1, shapes |-> {1}, faults |-> FALSE, selects |-> 0, turns |-> 0]

MCSurfaces == {
  \* the websocket alone, then next to a REST request
  [Base EXCEPT !.managed = MCAccounts, !.turns = 2],
  [Base EXCEPT !.turns = 1, !.rest = 1],
  [Base EXCEPT !.turns = 1, !.managed = {key1, acc1, acc2}, !.selects = 1],
  \* conversations of three requests, with the operator switching, and of two shapes
  [Base EXCEPT !.rest = 3, !.selects = 1],
  [Base EXCEPT !.rest = 3, !.shapes = {1, 2}],
  [Base EXCEPT !.rest = 3, !.kinds = {"responses", "stream"}, !.faults = TRUE],
  \* two at a time
  [Base EXCEPT !.rest = 2, !.slots = 2, !.managed = MCAccounts, !.eligible = MCAccounts,
               !.kinds = {"responses", "chat"}, !.selects = 1, !.faults = TRUE],
  \* API-key accounts: two, then one of each kind; without automatic switching
  [Base EXCEPT !.rest = 3, !.managed = {key1, key2}, !.eligible = {key1, key2}, !.selects = 1],
  [Base EXCEPT !.rest = 3, !.managed = {key1, acc1, acc2}, !.eligible = {key1, acc1}, !.selects = 2],
  [Base EXCEPT !.rest = 2, !.auto = FALSE, !.selects = 2, !.eligible = {acc1}, !.faults = TRUE,
               !.kinds = {"responses", "chat", "backend", "raw"}],
  [Base EXCEPT !.rest = 2, !.slots = 2, !.managed = {key1, key2, acc1, acc2}, !.selects = 1,
               !.eligible = {key1, key2, acc1, acc2}, !.kinds = {"raw", "backend", "own", "stream"}]}
=============================================================================
