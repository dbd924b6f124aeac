------------------------------ MODULE Scheduler ------------------------------
(***************************************************************************)
(* Time-based triggers: the schedule table of src/app/engine/scheduler.c   *)
(* and its tick, which the main loop runs about once a second.             *)
(*                                                                         *)
(* A day has Minutes minutes of Secs seconds.  A tick may come late when   *)
(* the main loop is busy, and the device's clock may be set back (by hand, *)
(* by NTP, or by an hour in autumn), so every tick names the time it sees. *)
(* Schedules are given parsed: masks are sets, and the sun is a function   *)
(* from events and days to seconds.                                        *)
(***************************************************************************)
EXTENDS Integers, FiniteSets

CONSTANTS
  Schedules,     \* [rule, type, ...]: what rules ask for
  Solar,         \* Solar[event][day]: second of the day, -1 if it does not occur
  Minutes,       \* minutes per day (1440)
  Secs,          \* seconds per minute (60)
  MAX_SCHEDULES,
  MaxTime,       \* bound: the clock
  MaxGap,        \* bound: seconds between two ticks
  MaxBacks       \* bound: times the clock is set back

DayLen == Minutes * Secs

ASSUME SchedulerParams ==
  /\ Minutes \in Nat \ {0} /\ Secs \in Nat \ {0} /\ MAX_SCHEDULES \in Nat
  /\ MaxTime \in Nat /\ MaxTime >= DayLen /\ MaxGap \in 1 .. DayLen - 1 /\ MaxBacks \in Nat
  /\ \A c \in Schedules :
       /\ c.type \in {"cron", "interval", "daily_time", "astronomical"}
       /\ c.type = "cron" => c.minutes \subseteq 0 .. Minutes - 1 /\ c.days \subseteq 0 .. 6
       /\ c.type = "interval" => c.seconds \in Nat \ {0}
       /\ c.type = "daily_time" => c.at \in 0 .. DayLen - 1 /\ c.days \subseteq 0 .. 6
       /\ c.type = "astronomical" =>
            /\ c.offset \in (1 - DayLen) .. (DayLen - 1)
            /\ \A d \in 0 .. MaxTime \div DayLen : Solar[c.event][d] \in -1 .. DayLen - 1

Never == -1

VARIABLES
  now,      \* the time the last tick saw
  entries,  \* the table: schedules registered, with what they remember
  backs,    \* times the clock was set back
  fires,    \* history: per entry the occasions it fired on and the time it last fired
  doubled   \* history: entries that fired twice on one occasion, on a clock that only
            \* moved forward since they were registered

vars == <<now, entries, backs, fires, doubled>>

Registered == DOMAIN entries

sod(t) == t % DayLen
minute(t) == sod(t) \div Secs
day(t) == t \div DayLen
dow(t) == day(t) % 7

Unfired == [on |-> {}, last |-> Never]

\* What Scheduler_Register leaves in a new entry; moved: the clock was set back since.
Fresh == [cron_last_min |-> Never, last_run |-> 0, fired_today |-> FALSE, prev_sod |-> Never,
          astro_sod |-> Never, astro_yday |-> Never, seen |-> Never, moved |-> FALSE]

\* Mutant: one entry too many.
HasRoomOver == Cardinality(Registered) <= MAX_SCHEDULES

HasRoom == Cardinality(Registered) < MAX_SCHEDULES

\* Scheduler_Register; a full table refuses.  Triggers_Subscribe_Rule has removed the
\* rule's entries before.
Register(c) ==
  /\ c \notin Registered /\ HasRoom
  /\ entries' = [x \in Registered \cup {c} |-> IF x = c THEN Fresh ELSE entries[x]]
  /\ UNCHANGED <<now, backs, fires, doubled>>

\* Scheduler_Unregister_Rule.
Unregister(rule) ==
  /\ \E c \in Registered : c.rule = rule
  /\ entries' = [x \in {c \in Registered : c.rule # rule} |-> entries[x]]
  /\ fires' = [c \in Schedules |-> IF c.rule = rule THEN Unfired ELSE fires[c]]
  /\ UNCHANGED <<now, backs, doubled>>

(***************************************************************************)
(* One entry at a tick at time t: the new entry, and whether it fires.     *)
(***************************************************************************)

Quiet(e) == [entry |-> e, fire |-> FALSE]
Fires(e) == [entry |-> e, fire |-> TRUE]

\* Only a tick in second 0 of a matching minute counts, and not the minute of the day
\* the entry last fired in.
Cron(c, e, t) ==
  IF /\ sod(t) % Secs = 0
     /\ minute(t) # e.cron_last_min
     /\ minute(t) \in c.minutes
     /\ dow(t) \in c.days
  THEN Fires([e EXCEPT !.cron_last_min = minute(t)])
  ELSE Quiet(e)

\* The first tick only starts the interval.
Interval(c, e, t) ==
  IF e.last_run = 0 THEN Quiet([e EXCEPT !.last_run = t])
  ELSE IF t - e.last_run >= c.seconds THEN Fires([e EXCEPT !.last_run = t])
  ELSE Quiet(e)

\* Mutant: the latch of yesterday stays.
NewDayNever(e, t) == [e EXCEPT !.prev_sod = sod(t)]

\* The midnight crossover, seen as a second of the day that went down.
NewDay(e, t) ==
  [e EXCEPT !.fired_today = @ /\ ~(e.prev_sod > 0 /\ sod(t) < e.prev_sod),
            !.prev_sod = sod(t)]

\* Mutant: the latch is forgotten.
OnceInWindowAlways(e, at, t) ==
  IF at >= 0 /\ sod(t) >= at /\ sod(t) < at + Secs THEN Fires(e) ELSE Quiet(e)

\* The window of one minute from second `at` of the day.
OnceInWindow(e, at, t) ==
  IF ~e.fired_today /\ at >= 0 /\ sod(t) >= at /\ sod(t) < at + Secs
  THEN Fires([e EXCEPT !.fired_today = TRUE])
  ELSE Quiet(e)

Daily(c, e, t) ==
  LET n == NewDay(e, t) IN
  IF dow(t) \in c.days THEN OnceInWindow(n, c.at, t) ELSE Quiet(n)

\* compute_solar_event and the offset, taken into the same day.
astro_sod(c, d) ==
  LET raw == Solar[c.event][d]
      at  == raw + c.offset IN
  IF raw < 0 THEN Never ELSE IF at >= DayLen THEN at - DayLen
  ELSE IF at < 0 THEN at + DayLen ELSE at

Astronomical(c, e, t) ==
  LET n == NewDay(e, t)
      m == IF n.astro_yday = day(t) THEN n
           ELSE [n EXCEPT !.astro_sod = astro_sod(c, day(t)), !.astro_yday = day(t)] IN
  OnceInWindow(m, m.astro_sod, t)

Due(c, e, t) ==
  CASE c.type = "cron"         -> Cron(c, e, t)
    [] c.type = "interval"     -> Interval(c, e, t)
    [] c.type = "daily_time"   -> Daily(c, e, t)
    [] c.type = "astronomical" -> Astronomical(c, e, t)

\* What an entry fires at most once on: its minute, its day, or the very second.
Occasion(c, t) ==
  CASE c.type = "cron"     -> t \div Secs
    [] c.type = "interval" -> t
    [] OTHER               -> day(t)

\* Scheduler_Tick at time t.
Scheduler_Tick(t) ==
  LET due == [c \in Registered |-> Due(c, entries[c], t)]
      hit == {c \in Registered : due[c].fire}
      early(c) == c.type = "interval" /\ fires[c].last # Never
                    /\ t - fires[c].last < c.seconds
      moved(c) == entries[c].moved \/ t < now IN
  /\ now' = t
  /\ entries' = [c \in Registered |->
                   [due[c].entry EXCEPT !.seen = t, !.moved = moved(c)]]
  /\ fires' = [c \in Schedules |->
                 IF c \in hit THEN [on |-> fires[c].on \cup {Occasion(c, t)}, last |-> t]
                 ELSE fires[c]]
  /\ doubled' = doubled \cup
       {c \in hit : ~moved(c) /\ (Occasion(c, t) \in fires[c].on \/ early(c))}

\* The next tick, up to MaxGap seconds later.
Tick ==
  \E d \in 1 .. MaxGap :
    /\ now + d <= MaxTime
    /\ Scheduler_Tick(now + d)
    /\ UNCHANGED backs

\* The clock is set back by less than a day.
SetBack ==
  \E d \in 1 .. DayLen - 1 :
    /\ now - d >= 1 /\ backs < MaxBacks
    /\ backs' = backs + 1
    /\ Scheduler_Tick(now - d)

Init ==
  /\ now \in 1 .. DayLen
  /\ entries = [c \in {} |-> Fresh]
  /\ backs = 0
  /\ fires = [c \in Schedules |-> Unfired]
  /\ doubled = {}

Next ==
  \/ \E c \in Schedules : Register(c)
  \/ \E c \in Schedules : Unregister(c.rule)
  \/ Tick
  \/ SetBack

Spec == Init /\ [][Next]_vars

(***************************************************************************)
(* Properties.                                                             *)
(***************************************************************************)

\* Types; the table never outgrows MAX_SCHEDULES.
TypeOK ==
  /\ now \in Nat /\ backs \in 0 .. MaxBacks /\ doubled \subseteq Schedules
  /\ Registered \subseteq Schedules /\ Cardinality(Registered) <= MAX_SCHEDULES
  /\ \A c \in Registered :
       /\ entries[c].cron_last_min \in Never .. Minutes - 1
       /\ entries[c].prev_sod \in Never .. DayLen - 1
       /\ entries[c].astro_sod \in Never .. DayLen - 1
       /\ entries[c].fired_today \in BOOLEAN

\* scheduler.h "fire once per day", scheduler.c:352 "Fire once per matching minute",
\* scheduler.h "fire every N seconds": while the clock moves forward no entry fires
\* twice on one occasion, or before its interval is over.
OncePerOccasion == doubled = {}

\* A tick in second 0 of a matching minute.
CronDue(c) ==
  c.type = "cron" /\ sod(now) % Secs = 0 /\ minute(now) \in c.minutes /\ dow(now) \in c.days

\* A tick in the minute of a daily time or of today's sun event.
DayDue(c) ==
  \/ /\ c.type = "daily_time" /\ dow(now) \in c.days
     /\ sod(now) >= c.at /\ sod(now) < c.at + Secs
  \/ /\ c.type = "astronomical" /\ Solar[c.event][day(now)] >= 0
     /\ LET at == (Solar[c.event][day(now)] + c.offset) % DayLen IN
        sod(now) >= at /\ sod(now) < at + Secs

\* docs/help.html:509 "0 8 * * 1-5 = every weekday at 08:00": while the clock moves
\* forward, an entry has fired on every occasion a tick came in time for.
Served ==
  \A c \in Registered :
    entries[c].seen = now /\ ~entries[c].moved /\ (CronDue(c) \/ DayDue(c)) =>
      Occasion(c, now) \in fires[c].on

\* What holds of it: all but a cron entry whose last firing was in the same minute of
\* another day (scheduler.c:355); for cron whatever the clock does.
ServedUnlessSameMinute ==
  \A c \in Registered : entries[c].seen = now =>
    /\ CronDue(c) => \/ Occasion(c, now) \in fires[c].on
                     \/ fires[c].last # Never /\ minute(fires[c].last) = minute(now)
    /\ DayDue(c) /\ ~entries[c].moved => Occasion(c, now) \in fires[c].on

\* Every occasion is served, and once.
ScheduleKept == OncePerOccasion /\ ServedUnlessSameMinute
=============================================================================
