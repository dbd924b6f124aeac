----------------------------- MODULE MCRuleGate -----------------------------
(***************************************************************************)
(* Rule configurations for model checking RuleGate: each one exercises a   *)
(* gate or two, and a save may turn one into another.                      *)
(***************************************************************************)
EXTENDS RuleGate

CONSTANTS w1, x1

Triggers3 == {0, 1, 2}

Plain ==
  [triggers |-> {0}, latched |-> {}, level |-> {}, trigger_logic |-> "OR",
   trigger_window |-> 0, cooldown |-> 0, max_executions |-> 0, max_exec_period |-> 0,
   conds |-> {}, condition_logic |-> "AND", time_windows |-> {}, expensive |-> {}]

\* One firing in two seconds, and a condition that asks a remote device.
RateLimited ==
  [Plain EXCEPT !.max_executions = 1, !.max_exec_period = 2,
                !.conds = {x1}, !.expensive = {x1}]

\* Two momentary triggers within two seconds, a cooldown shorter than that, and a third
\* trigger beyond the number that is waited for.
Correlated ==
  [Plain EXCEPT !.triggers = Triggers3, !.trigger_logic = "AND",
                !.trigger_window = 2, !.cooldown = 1]

\* A threshold and a momentary trigger, a time window, a cooldown, two firings in all.
Windowed ==
  [Plain EXCEPT !.triggers = {0, 1}, !.latched = {0}, !.max_executions = 2, !.cooldown = 2,
                !.conds = {w1, x1}, !.time_windows = {w1}, !.expensive = {x1}]

\* Two ports that must be active together, inside a window or with a condition,
\* once.
BothActive ==
  [Plain EXCEPT !.triggers = {0, 1}, !.level = {0, 1},
                !.trigger_logic = "AND_ACTIVE", !.conds = {w1, x1},
                !.time_windows = {w1}, !.condition_logic = "OR",
                !.max_executions = 1]

SavedRules == {RateLimited, Correlated, Windowed, BothActive}
=============================================================================
