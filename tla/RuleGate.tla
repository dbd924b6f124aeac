------------------------------- MODULE RuleGate -------------------------------
(***************************************************************************)
(* The firing decision of one rule: on_trigger_fired and the part of       *)
(* RuleEngine_Tick that tracks the rule's time window                      *)
(* (src/app/engine/rule_engine.c), with the activity of the rule's trigger *)
(* subscriptions as triggers.c keeps it.                                   *)
(*                                                                         *)
(* A trigger occurrence runs through a fixed pipeline under store_lock:    *)
(* enabled, AND correlation or AND_ACTIVE, cooldown, execution limit,      *)
(* conditions, execute.  Each gate may end the call, and several leave a   *)
(* trace when they do: a time stamp, a new rate-limit period, a pending    *)
(* re-fire.  The properties relate those traces to a history of the        *)
(* firings (hist) that the code does not keep.                             *)
(*                                                                         *)
(* Time is time(NULL) in seconds; 0 means "never", as in the code.         *)
(***************************************************************************)
EXTENDS Integers, Sequences, FiniteSets

CONSTANTS
  TriggerIds,   \* trigger indexes, from 0
  MAX_TRIGGERS_PER_RULE,
  CondIds,      \* conditions
  Rules,        \* the configurations the rule may be saved with
  MaxTime,      \* bound: the clock stops here
  MaxFires,     \* bound: firings per load of the rule
  MaxJobs,      \* bound: queued subscription jobs
  MaxSaves,     \* bound: times the rule is saved again
  MaxRestarts   \* bound: restarts of the process

\* What Triggers_Subscribe_Rule sets up: the rule's triggers; those that fire on
\* the crossing of a threshold and then latch; those with a current state that
\* may also repeat (boolean events, I/O ports).  The others are momentary.
Subscribed(r) == [triggers |-> r.triggers, latched |-> r.latched, level |-> r.level]

\* The configuration fields of struct Rule; 0 means no window, cooldown or limit,
\* and a period of 0 a lifetime limit.  expensive: the conditions that the
\* lightweight evaluation takes as passed.
RuleConfig(r) ==
  /\ r.triggers \subseteq TriggerIds /\ \A t \in r.triggers : 0 .. t \subseteq r.triggers
  /\ r.latched \subseteq r.triggers /\ r.level \subseteq r.triggers
  /\ r.latched \cap r.level = {}
  /\ r.trigger_logic \in {"OR", "AND", "AND_ACTIVE"}
  /\ r.trigger_window \in Nat /\ r.cooldown \in Nat
  /\ r.max_executions \in Nat /\ r.max_exec_period \in Nat
  /\ r.conds \subseteq CondIds /\ r.condition_logic \in {"AND", "OR"}
  /\ r.time_windows \subseteq r.conds /\ r.expensive \subseteq r.conds \ r.time_windows

ASSUME ParamsOK ==
  /\ TriggerIds \subseteq Nat /\ MAX_TRIGGERS_PER_RULE \in Nat
  /\ \A r \in Rules : RuleConfig(r)
  /\ MaxTime \in Nat /\ MaxFires \in Nat /\ MaxJobs \in Nat
  /\ MaxSaves \in Nat /\ MaxRestarts \in Nat

VARIABLES
  now,          \* time(NULL)
  rule,         \* the configuration the rule has now
  enabled,      \* Rule.enabled
  lastFired,    \* Rule.last_fired
  execCount,    \* Rule.execution_count
  periodStart,  \* Rule.period_start
  periodCount,  \* Rule.period_exec_count
  condState,    \* Rule.cond_window_state: -1 unknown, 0 closed, 1 open
  pending,      \* Rule.trigger_pending
  firedAt,      \* Rule.trigger_fired_at
  cond,         \* what each condition would evaluate to now (environment)
  active,       \* triggers whose subscription is in its active state
  live,         \* what the rule's subscriptions in triggers.c were set up from
  jobs,         \* do_subscribe / do_unsubscribe queued with g_idle_add
  refire,       \* Tick has put the rule on its refire_ids list
  saves,        \* saves and restarts so far
  restarts,
  hist,         \* history: one record per firing since the rule was loaded
  since,        \* history: triggers of the rule that occurred since the last firing
  sinceSave,    \* history: firings since the rule was last saved
  owed          \* history: how a window-blocked, still active trigger was blocked

gate == <<rule, enabled, lastFired, execCount, periodStart, periodCount, condState,
          pending, firedAt>>
subs == <<active, live, jobs, refire>>
aux  == <<hist, since, sinceSave, owed>>
loads == <<saves, restarts>>
vars == <<now, gate, cond, subs, loads, aux>>

Triggers   == rule.triggers
Tracked    == {t \in Triggers : t < MAX_TRIGGERS_PER_RULE}   \* those in trigger_count
Logic      == rule.trigger_logic
TrigWindow == rule.trigger_window
Cooldown   == rule.cooldown
MaxExec    == rule.max_executions
Period     == rule.max_exec_period
Conds      == rule.conds
HasWindow  == rule.time_windows # {}

NoStamps == [t \in TriggerIds |-> 0]
NoSubs   == [triggers |-> {}, latched |-> {}, level |-> {}]

(***************************************************************************)
(* Conditions.                                                             *)
(***************************************************************************)

\* conditions_evaluate_internal: no conditions pass; AND needs all, OR needs one.
Evaluate(val) ==
  \/ Conds = {}
  \/ rule.condition_logic = "AND" /\ \A c \in Conds : val[c]
  \/ rule.condition_logic = "OR"  /\ \E c \in Conds : val[c]

\* Conditions_Evaluate_Lightweight: expensive conditions count as passed.
Lightweight(val) == Evaluate([c \in Conds |-> val[c] \/ c \in rule.expensive])

(***************************************************************************)
(* Activity of the rule's subscriptions.                                   *)
(***************************************************************************)

\* Triggers_Any_Active: only latched thresholds count.
AnyActive(act) == act \cap live.latched # {}

\* Triggers_All_Currently_Active: every subscription of the rule; the trigger that
\* just fired counts as active.
AllActive(act, fired) == live.triggers # {} /\ live.triggers \subseteq act \cup fired

\* The activity RuleEngine_Tick looks at (has_active).
HasActive(act) ==
  IF Logic = "AND_ACTIVE" THEN AllActive(act, {}) ELSE AnyActive(act)

(***************************************************************************)
(* The gates of on_trigger_fired, in the order of the code.                *)
(***************************************************************************)

Correlates == Logic = "AND" /\ Cardinality(Tracked) > 1

\* AND: every trigger in trigger_count has a stamp, none older than trigger_window.
AllFired(stamps) ==
  \A t \in Tracked :
    stamps[t] # 0 /\ (TrigWindow > 0 => now - stamps[t] <= TrigWindow)

\* The trigger-logic gate, for the occurrence of the triggers in fired
\* ({} when Tick re-fires the rule with trigger_index -1).
LogicPasses(stamps, act, fired) ==
  /\ Correlates => AllFired(stamps)
  /\ Logic = "AND_ACTIVE" /\ Cardinality(Tracked) > 1 => AllActive(act, fired)

\* Mutant: the cooldown ends a second early.
CooldownPassesEarly ==
  Cooldown = 0 \/ lastFired = 0 \/ now - lastFired + 1 >= Cooldown

CooldownPasses == Cooldown = 0 \/ lastFired = 0 \/ now - lastFired >= Cooldown

\* Mutant: the period ends a second early.
RollsOverEarly == MaxExec > 0 /\ Period > 0 /\
                  (periodStart = 0 \/ now - periodStart + 1 >= Period)

\* The rate-limit period the check works with: a new one when it rolled over.
RollsOver == MaxExec > 0 /\ Period > 0 /\
             (periodStart = 0 \/ now - periodStart >= Period)

\* Mutant: the new period is anchored a whole period back.
StartOnePeriodBack == IF RollsOver THEN now - Period ELSE periodStart

StartNow == IF RollsOver THEN now ELSE periodStart
CountNow == IF RollsOver THEN 0 ELSE periodCount

\* Mutant: the limit is compared with > instead of >=.
LimitPassesOneMore ==
  \/ MaxExec = 0
  \/ IF Period > 0 THEN CountNow <= MaxExec ELSE execCount <= MaxExec

LimitPasses ==
  MaxExec = 0 \/ (IF Period > 0 THEN CountNow < MaxExec ELSE execCount < MaxExec)

(***************************************************************************)
(* on_trigger_fired for the triggers in fired, with act the subscription   *)
(* activity and val the condition values at the call.  Each disjunct is    *)
(* one return of the function.                                             *)
(***************************************************************************)
Stamps(fired) ==
  [t \in TriggerIds |->
     IF Correlates /\ t \in fired \cap Tracked THEN now ELSE firedAt[t]]

\* History: an occurrence is one of the rule as it was saved last when its subscription
\* was set up from that; one that comes before the save's queued job counts as well.
Counted(fired) == IF live = Subscribed(rule) \/ jobs # <<>> THEN fired \cap Tracked ELSE {}

\* Mutant: the stamps survive the firing they made possible.
StampsKept(stamps) == stamps

\* The stamps after a firing: AND starts over.
StampsAfter(stamps) == IF Logic = "AND" THEN NoStamps ELSE stamps

RefusedEarly(fired, act) ==
  LET stamps == Stamps(fired) IN
  /\ \/ ~LogicPasses(stamps, act, fired)
     \/ ~CooldownPasses
  /\ firedAt' = stamps
  /\ UNCHANGED <<rule, enabled, lastFired, execCount, periodStart, periodCount,
                 condState, pending, hist, sinceSave, owed>>
  /\ since' = since \cup Counted(fired)

RefusedByLimit(fired, act) ==
  LET stamps == Stamps(fired) IN
  /\ LogicPasses(stamps, act, fired) /\ CooldownPasses /\ ~LimitPasses
  /\ firedAt' = stamps
  /\ periodStart' = StartNow /\ periodCount' = CountNow
  /\ UNCHANGED <<rule, enabled, lastFired, execCount, condState, pending, hist,
                 sinceSave, owed>>
  /\ since' = since \cup Counted(fired)

\* A closed window remembers the occurrence, unless it is the re-fire itself.
RefusedByConditions(fired, act, val) ==
  LET stamps == Stamps(fired) IN
  /\ LogicPasses(stamps, act, fired) /\ CooldownPasses /\ LimitPasses
  /\ ~Evaluate(val)
  /\ firedAt' = stamps
  /\ periodStart' = StartNow /\ periodCount' = CountNow
  /\ pending' = (pending \/ (fired # {} /\ HasWindow /\ condState = 0))
  /\ owed' = IF fired # {} /\ HasWindow /\ HasActive(act) /\ ~Lightweight(val)
             THEN IF condState = -1 THEN "unknown" ELSE "known"
             ELSE owed
  /\ since' = since \cup Counted(fired)
  /\ UNCHANGED <<rule, enabled, lastFired, execCount, condState, hist, sinceSave>>

Execute(fired, act, val) ==
  LET stamps == Stamps(fired) IN
  /\ Len(hist) < MaxFires
  /\ LogicPasses(stamps, act, fired) /\ CooldownPasses /\ LimitPasses
  /\ Evaluate(val)
  /\ pending' = FALSE
  /\ firedAt' = StampsAfter(stamps)
  /\ lastFired' = now
  /\ execCount' = execCount + 1
  /\ periodStart' = StartNow
  /\ periodCount' = IF Period > 0 THEN CountNow + 1 ELSE periodCount
  /\ hist' = Append(hist, [at |-> now, win |-> StartNow,
                           stamps |-> stamps, since |-> since \cup Counted(fired)])
  /\ since' = {}
  /\ sinceSave' = sinceSave + 1
  /\ owed' = "no"
  /\ UNCHANGED <<rule, enabled, condState>>

on_trigger_fired(fired, act, val) ==
  \/ ~enabled /\ UNCHANGED <<gate, aux>>
  \/ /\ enabled
     /\ \/ RefusedEarly(fired, act)
        \/ RefusedByLimit(fired, act)
        \/ RefusedByConditions(fired, act, val)
        \/ Execute(fired, act, val)

(***************************************************************************)
(* Actions.                                                                *)
(***************************************************************************)

Clock ==
  /\ now < MaxTime
  /\ now' = now + 1
  /\ UNCHANGED <<gate, cond, subs, loads, aux>>

\* A condition's value changes (time of day, a port, a counter, a remote answer).
ConditionChanges ==
  /\ \E c \in Conds : cond' = [cond EXCEPT ![c] = ~@]
  /\ UNCHANGED <<now, gate, subs, loads, aux>>

\* A trigger occurs.  A latched one only on the crossing; a level one is (still)
\* active afterwards; a momentary one has no activity and, when it is a webhook,
\* comes from the HTTP thread, so also while Tick is between its two halves.
TriggerOccurs(t) ==
  /\ t \in live.triggers
  /\ t \in live.latched \cup live.level => ~refire
  /\ t \notin active \cap live.latched
  /\ active' = active \cup ({t} \cap (live.latched \cup live.level))
  /\ on_trigger_fired({t}, active', cond)
  /\ UNCHANGED <<now, cond, live, jobs, refire, loads>>

\* The value drops below its threshold, the port or event goes inactive.
TriggerClears(t) ==
  /\ t \in active /\ ~refire
  /\ active' = active \ {t}
  /\ owed' = IF HasActive(active') THEN owed ELSE "no"
  /\ UNCHANGED <<now, gate, cond, live, jobs, refire, loads,
                 hist, since, sinceSave>>

\* Mutant: a window that closes on an active trigger is not remembered.
NothingToRemember(open) == FALSE

\* The window closes on a trigger that is still active.
ClosesOnActive(open) == condState = 1 /\ ~open /\ HasActive(active)

\* RuleEngine_Tick under store_lock: track the window, remember a trigger that
\* is active when it closes, list the rule for a re-fire when it reopens.
TickWindow ==
  LET open == Lightweight(cond) IN
  /\ enabled /\ HasWindow /\ ~refire
  /\ condState' = IF open THEN 1 ELSE 0
  /\ pending' = (pending \/ ClosesOnActive(open))
  /\ refire' = (condState = 0 /\ open /\ pending /\ HasActive(active))
  /\ UNCHANGED <<now, rule, enabled, lastFired, execCount, periodStart, periodCount,
                 firedAt, cond, active, live, jobs, loads, aux>>

\* RuleEngine_Tick after the unlock: on_trigger_fired(id, -1, time_window_open).
TickRefire ==
  /\ refire
  /\ refire' = FALSE
  /\ on_trigger_fired({}, active, cond)
  /\ UNCHANGED <<now, cond, active, live, jobs, loads>>

\* RuleEngine_SetEnabled: keeps the runtime state, queues a subscription job.
SetEnabled(e) ==
  /\ Len(jobs) < MaxJobs
  /\ enabled' = e
  /\ jobs' = Append(jobs, IF e THEN "sub" ELSE "unsub")
  /\ UNCHANGED <<now, rule, lastFired, execCount, periodStart, periodCount, condState,
                 pending, firedAt, cond, active, live, refire, loads, aux>>

\* The runtime fields rule_from_json resets.
Reset ==
  /\ lastFired' = 0 /\ execCount' = 0 /\ periodStart' = 0 /\ periodCount' = 0
  /\ condState' = -1 /\ pending' = FALSE /\ firedAt' = NoStamps
  /\ hist' = <<>> /\ since' = {} /\ owed' = "no"

\* RuleEngine_Update: the rule is saved again, perhaps with other settings.  Its
\* old subscriptions live on until the queued job runs.
Update(e, r) ==
  /\ Len(jobs) < MaxJobs /\ saves < MaxSaves
  /\ saves' = saves + 1
  /\ rule' = r
  /\ enabled' = e
  /\ Reset
  /\ sinceSave' = 0
  /\ jobs' = Append(jobs, IF e THEN "sub" ELSE "unsub")
  /\ UNCHANGED <<now, cond, active, live, refire, restarts>>

\* do_subscribe (which unsubscribes first) or do_unsubscribe on the main loop:
\* either way the old subscriptions and their activity are gone.
RunJob ==
  /\ jobs # <<>> /\ ~refire
  /\ live' = IF Head(jobs) = "sub" THEN Subscribed(rule) ELSE NoSubs
  /\ active' = {}
  /\ jobs' = Tail(jobs)
  /\ owed' = "no"
  /\ UNCHANGED <<now, gate, cond, refire, loads, hist, since, sinceSave>>

\* The process restarts: RuleEngine_Init reads the rule back from rules.json.
Restart ==
  /\ restarts < MaxRestarts
  /\ restarts' = restarts + 1
  /\ Reset
  /\ live' = NoSubs /\ active' = {} /\ refire' = FALSE
  /\ jobs' = IF enabled THEN <<"sub">> ELSE <<>>
  /\ UNCHANGED <<now, rule, enabled, cond, saves, sinceSave>>

Init ==
  /\ now = 1
  /\ rule \in Rules /\ enabled = TRUE
  /\ lastFired = 0 /\ execCount = 0 /\ periodStart = 0 /\ periodCount = 0
  /\ condState = -1 /\ pending = FALSE /\ firedAt = NoStamps
  /\ cond \in [CondIds -> BOOLEAN]
  /\ active = {} /\ live = NoSubs /\ jobs = <<"sub">> /\ refire = FALSE
  /\ saves = 0 /\ restarts = 0
  /\ hist = <<>> /\ since = {} /\ sinceSave = 0 /\ owed = "no"

Next ==
  \/ Clock
  \/ ConditionChanges
  \/ \E t \in TriggerIds : TriggerOccurs(t)
  \/ \E t \in TriggerIds : TriggerClears(t)
  \/ TickWindow
  \/ TickRefire
  \/ \E e \in BOOLEAN : SetEnabled(e)
  \/ \E e \in BOOLEAN, r \in Rules : Update(e, r)
  \/ RunJob
  \/ Restart

Spec == Init /\ [][Next]_vars

(***************************************************************************)
(* Properties.                                                             *)
(***************************************************************************)

Firing == [at : Nat, win : Nat, stamps : [TriggerIds -> Nat],
           since : SUBSET TriggerIds]

\* Subscriptions come from some saved version of the rule, activity from them.
SubsOK ==
  /\ live \in {NoSubs} \cup {Subscribed(r) : r \in Rules}
  /\ active \subseteq live.triggers

TypeOK ==
  /\ now \in Nat /\ rule \in Rules /\ enabled \in BOOLEAN
  /\ lastFired \in Nat /\ execCount \in Nat
  /\ periodStart \in Nat /\ periodCount \in Nat
  /\ condState \in {-1, 0, 1} /\ pending \in BOOLEAN
  /\ firedAt \in [TriggerIds -> Nat]
  /\ cond \in [CondIds -> BOOLEAN]
  /\ SubsOK
  /\ jobs \in Seq({"sub", "unsub"}) /\ refire \in BOOLEAN
  /\ saves \in Nat /\ restarts \in Nat
  /\ hist \in Seq(Firing) /\ since \in SUBSET TriggerIds /\ sinceSave \in Nat
  /\ owed \in {"no", "known", "unknown"}

\* README "Cooldown: minimum seconds between firings": any two firings of one
\* load of the rule are at least Cooldown apart, however the occurrences, the
\* re-fires of Tick and enable/disable interleave (rule_engine.c:217).
CooldownKept ==
  \A i, j \in DOMAIN hist : i < j => hist[j].at - hist[i].at >= Cooldown

\* The rate limit counts in fixed periods that start with the first occurrence
\* after the last one ran out (rule_engine.c:227).  What that guarantees for
\* the periods a user can observe: 2 * MaxExec + 1 firings always take longer
\* than Period, whatever second the observation starts in.
RateBounded ==
  MaxExec > 0 /\ Period > 0 =>
    \A i, j \in DOMAIN hist :
      j = i + 2 * MaxExec => hist[j].at - hist[i].at > Period

\* README "AND (all triggers must fire within a configurable time window)": every
\* trigger occurred after the previous firing and no longer than TrigWindow ago, so no
\* occurrence counts towards two firings, and none of a trigger the rule no longer has.
\* Excepted are triggers beyond MAX_TRIGGERS_PER_RULE, which the rule does not wait for,
\* and occurrences of the old subscriptions before the job that replaces them
\* (rule_engine.c:142, 188, 271, 511).
AndCorrelated ==
  Logic = "AND" /\ Cardinality(Tracked) > 1 =>
    \A i \in DOMAIN hist, t \in Triggers : t < MAX_TRIGGERS_PER_RULE =>
      /\ t \in hist[i].since
      /\ TrigWindow > 0 => hist[i].at - hist[i].stamps[t] \in 0 .. TrigWindow

\* README "lifetime total" (max_executions with an empty period): a rule that
\* has been saved once never fires more than MaxExec times until it is saved
\* again (rule_engine.c:245).
LifetimeTotal == MaxExec > 0 /\ Period = 0 => sinceSave <= MaxExec

\* The same as long as the process is not restarted, whatever mix of refusals,
\* re-fires, saves and enable/disable comes first (rule_engine.c:245, 273).
LifetimeCap == restarts = 0 => LifetimeTotal

\* The limits on the number of firings, per period and in total, are kept.
LimitsKept == RateBounded /\ LifetimeCap

\* rule_engine.c:259 "remember it so we can re-attempt when the window reopens":
\* once Tick has seen the window closed, an occurrence it blocked is pending as
\* long as its trigger stays active.  An occurrence blocked between the load of
\* the rule and its first Tick (condState = -1) is not remembered by the code.
BlockedRemembered == owed = "known" /\ condState = 0 => pending
=============================================================================
