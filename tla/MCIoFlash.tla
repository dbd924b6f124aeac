----------------------------- MODULE MCIoFlash -----------------------------
(***************************************************************************)
(* Flash actions for model checking IoFlash: a rule with two of them and a *)
(* test, on two ports, so that they refresh themselves and take ports from *)
(* one another.                                                            *)
(***************************************************************************)
EXTENDS IoFlash

CONSTANTS p1, p2, r1

\* Two ports one after the other without a gap, once.
Alternate == [rule |-> r1, ports |-> <<p1, p2>>, together |-> FALSE, gap |-> FALSE,
              count |-> 1, timed |-> FALSE]

\* One port until the rule is disabled.
Steady == [rule |-> r1, ports |-> <<p1>>, together |-> TRUE, gap |-> TRUE,
           count |-> 0, timed |-> FALSE]

\* One port for some time, from the Test button.
Tested == [rule |-> Test, ports |-> <<p2>>, together |-> TRUE, gap |-> TRUE,
           count |-> 0, timed |-> TRUE]

Mixed == {Alternate, Steady, Tested}
=============================================================================
