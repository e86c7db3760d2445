---------------------------- MODULE MCDashboard ----------------------------
EXTENDS Dashboard, TLC
CONSTANTS a, b
MCAccounts == {a, b}
MCMatching == {Proxy, b}

Quiet == [keys |-> <<>>, others |-> 0, fails |-> 0, signals |-> 0, again |-> 0,
          on |-> FALSE, timer |-> FALSE, watches |-> FALSE, reorder |-> FALSE]
MCLoads ==
  { \* switches that are aborted or fail, while another process switches: seen by
    \* the watcher, or only by the timer
    [Quiet EXCEPT !.keys = <<{"down", "enter"}, {"enter", "esc"}>>, !.others = 1, !.fails = 1,
                  !.watches = TRUE],
    [Quiet EXCEPT !.keys = <<{"down", "enter"}, {"esc", "enter", "/"}>>, !.others = 1, !.timer = TRUE, !.on = TRUE],
    \* accounts that are deleted and restored while the rows change places
    [Quiet EXCEPT !.keys = <<{"down"}, {"x"}, {"y", "down", "r"}, {"y", "u"}, {"u", "p", "q"}>>,
                  !.reorder = TRUE, !.fails = 1, !.signals = 1],
    \* bundles
    [Quiet EXCEPT !.keys = <<{"i"}, {"y", "enter"}, {"enter"}, {"y", "esc"}, {"enter"}, {"u", "q"}>>,
                  !.fails = 1],
    [Quiet EXCEPT !.keys = <<{"down", "end"}, {"e"}, {"enter", "back"}, {"enter", "u"}, {"u", "a"}>>,
                  !.fails = 1],
    \* Desktop, codex sessions, a stale daemon, filters, signals
    [Quiet EXCEPT !.keys = <<{"o", "O", "d", "D", "f", "enter"}, {"y", "down", "n"}, {"y", "q"}>>,
                  !.fails = 2, !.signals = 1, !.again = 1, !.on = TRUE],
    [Quiet EXCEPT !.keys = <<{"home", "end"}, {"/"}, {"y", "back"}, {"x", "esc"}, {"down", "r", "enter"},
                  {"up", "q"}>>] }
=============================================================================
