---------------------------- MODULE MCActionRunner ----------------------------
(***************************************************************************)
(* Rules for model checking ActionRunner.  r1 queries, waits and posts     *)
(* with a fallback that waits itself; r2 runs r1, then sends a plate       *)
(* image; r3 collects a digest and disables r1.                            *)
(***************************************************************************)
EXTENDS ActionRunner

A(tag, type) == [tag |-> tag, type |-> type, seconds |-> 0, target |-> NoRule, enable |-> FALSE,
                 alpv |-> FALSE, onFailure |-> <<>>]

MCProgram ==
  [r1 |-> <<A("a1", "vapix_query"), [A("a2", "delay") EXCEPT !.seconds = 1],
            [A("a3", "http_request") EXCEPT !.onFailure =
               <<A("f1", "delay"), A("f2", "mqtt_publish")>>]>>,
   r2 |-> <<[A("b1", "run_rule") EXCEPT !.target = "r1"],
            [A("b2", "http_request") EXCEPT !.alpv = TRUE]>>,
   r3 |-> <<A("c1", "digest"), [A("c2", "set_rule_enabled") EXCEPT !.target = "r1"]>>]

\* Their action lists: the rule's, and what runs if r1's request fails.
MCLists == [r \in DOMAIN MCProgram |->
  {MCProgram[r]} \cup IF r = "r1" THEN {MCProgram[r][3].onFailure} ELSE {}]

MCTestActions == {A("t1", "telegram"), [A("t2", "run_rule") EXCEPT !.target = "r3"]}

MCActions == UNION {UNION {Range(L) : L \in MCLists[r]} : r \in DOMAIN MCProgram}
             \cup MCTestActions
=============================================================================
