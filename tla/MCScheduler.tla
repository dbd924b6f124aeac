---------------------------- MODULE MCScheduler ----------------------------
(***************************************************************************)
(* Schedules of every type for model checking Scheduler: a day of three    *)
(* minutes of two seconds; a sun event that moves, with an offset over     *)
(* midnight, and one day without it.                                       *)
(***************************************************************************)
EXTENDS Scheduler

MCSchedules ==
  {[rule |-> "r1", type |-> "cron", minutes |-> {1}, days |-> 0 .. 6],
   [rule |-> "r1", type |-> "cron", minutes |-> {0, 2}, days |-> {0, 2}],
   [rule |-> "r2", type |-> "interval", seconds |-> 3],
   [rule |-> "r3", type |-> "daily_time", at |-> 2, days |-> {0, 1}],
   [rule |-> "r4", type |-> "astronomical", event |-> "sunset", offset |-> 2]}

MCSolar == [sunset |-> [d \in 0 .. 3 |-> IF d = 0 THEN 2 ELSE IF d = 1 THEN 5 ELSE
                                         IF d = 2 THEN -1 ELSE 1]]
=============================================================================
