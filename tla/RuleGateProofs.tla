---------------------------- MODULE RuleGateProofs ----------------------------
(***************************************************************************)
(* Proofs that the gates of RuleGate keep their promises for every rule    *)
(* configuration, not only for the small ones TLC checks.                  *)
(*                                                                         *)
(* Each property needs its own strengthening, because the code decides     *)
(* from a few summary fields (last_fired, period_start, period_exec_count, *)
(* trigger_fired_at, trigger_pending) while the properties speak of the    *)
(* whole history of firings: the inductive invariants below say what the   *)
(* summaries know about that history.                                      *)
(***************************************************************************)
EXTENDS RuleGate, TLAPS

USE DEF Triggers, Logic, TrigWindow, Cooldown, MaxExec, Period, Conds, HasWindow

\* The settings of the current rule have their types.
LEMMA RuleFacts ==
  ASSUME rule \in Rules
  PROVE  /\ Triggers \subseteq TriggerIds
         /\ TrigWindow \in Nat /\ Cooldown \in Nat
         /\ MaxExec \in Nat /\ Period \in Nat
BY ParamsOK DEF RuleConfig

\* last_fired is the latest firing, 0 before the first.
CooldownInv ==
  /\ now >= 1 /\ lastFired <= now
  /\ \A i \in DOMAIN hist : hist[i].at >= 1 /\ hist[i].at <= lastFired
  /\ CooldownKept

\* period_start and period_exec_count split the history: the last
\* period_exec_count firings belong to the current period, all others to
\* periods that ended before it started.
RateInv ==
  /\ now >= 1
  /\ MaxExec > 0 /\ Period > 0 =>
       /\ periodStart <= now
       /\ \A i \in DOMAIN hist :
            /\ 1 <= hist[i].win
            /\ hist[i].win <= hist[i].at /\ hist[i].at < hist[i].win + Period
            /\ hist[i].win <= periodStart
            /\ hist[i].win < periodStart => hist[i].win + Period <= periodStart
            /\ i + periodCount <= Len(hist) => hist[i].win < periodStart
       /\ \A i, j \in DOMAIN hist :
            j = i + MaxExec => hist[i].win + Period <= hist[j].win

\* A stamp stands for an occurrence since the last firing.
AndInv ==
  /\ \A t \in TriggerIds : firedAt[t] <= now
  /\ Correlates => \A t \in TriggerIds : firedAt[t] # 0 => t \in since
  /\ AndCorrelated

\* When no job is queued the subscriptions are those of the rule as it was saved last.
LiveRight == jobs = <<>> => live \in {NoSubs, Subscribed(rule)}

\* Without a restart execution_count counts every firing since the save.
LifetimeInv ==
  /\ restarts = 0 => sinceSave = execCount
  /\ MaxExec > 0 /\ Period = 0 => execCount <= MaxExec

\* What Tick relies on: an owed firing has an active trigger, and none is owed
\* as "known" before the first Tick.
WindowInv ==
  /\ owed # "no" => HasActive(active)
  /\ condState = -1 => owed # "known"
  /\ BlockedRemembered

-----------------------------------------------------------------------------
(***************************************************************************)
(* What one call of on_trigger_fired may do, without the details of the    *)
(* gates: either the rule did not fire and its history is unchanged, or    *)
(* every gate passed and one record was appended.                          *)
(***************************************************************************)

\* A type-correct call of on_trigger_fired leaves the gate's fields and the
\* history type-correct (rule_engine.c:176).
LEMMA CallType ==
  ASSUME TypeOK, NEW fired \in SUBSET TriggerIds, NEW act, NEW val,
         on_trigger_fired(fired, act, val)
  PROVE  /\ enabled' \in BOOLEAN /\ lastFired' \in Nat /\ execCount' \in Nat
         /\ periodStart' \in Nat /\ periodCount' \in Nat
         /\ condState' \in {-1, 0, 1} /\ pending' \in BOOLEAN
         /\ firedAt' \in [TriggerIds -> Nat]
         /\ hist' \in Seq(Firing) /\ since' \in SUBSET TriggerIds
         /\ sinceSave' \in Nat /\ owed' \in {"no", "known", "unknown"}
<1> USE RuleFacts DEF TypeOK
<1>c. Counted(fired) \in SUBSET TriggerIds
  BY DEF Counted
<1>0. /\ StartNow \in Nat /\ CountNow \in Nat
      /\ Stamps(fired) \in [TriggerIds -> Nat]
      /\ StampsAfter(Stamps(fired)) \in [TriggerIds -> Nat]
  BY DEF StartNow, CountNow, Stamps, StampsAfter, NoStamps
<1>1. CASE ~enabled /\ UNCHANGED <<gate, aux>>
  BY <1>1 DEF gate, aux
<1>2. CASE RefusedEarly(fired, act)
  BY <1>0, <1>2, <1>c DEF RefusedEarly
<1>3. CASE RefusedByLimit(fired, act)
  BY <1>0, <1>3, <1>c DEF RefusedByLimit
<1>4. CASE RefusedByConditions(fired, act, val)
  BY <1>0, <1>4, <1>c DEF RefusedByConditions
<1>5. CASE Execute(fired, act, val)
  <2> DEFINE rec == [at |-> now, win |-> StartNow, stamps |-> Stamps(fired),
                     since |-> since \cup Counted(fired)]
  <2>1. rec \in Firing
    BY <1>0, <1>c DEF Firing
  <2>2. hist' = Append(hist, rec)
    BY <1>5 DEF Execute
  <2> HIDE DEF rec
  <2>3. hist' \in Seq(Firing)
    BY <2>1, <2>2
  <2>4. since' \in SUBSET TriggerIds /\ owed' \in {"no", "known", "unknown"}
    BY <1>5 DEF Execute
  <2>5. /\ pending' \in BOOLEAN /\ enabled' \in BOOLEAN
        /\ condState' \in {-1, 0, 1} /\ lastFired' \in Nat
    BY <1>5 DEF Execute
  <2>6. /\ execCount' \in Nat /\ sinceSave' \in Nat
        /\ periodStart' \in Nat /\ periodCount' \in Nat
    BY <1>0, <1>5 DEF Execute
  <2>7. firedAt' \in [TriggerIds -> Nat]
    BY <1>0, <1>5 DEF Execute
  <2>8. QED
    BY <2>3, <2>4, <2>5, <2>6, <2>7
<1>6. QED
  BY <1>1, <1>2, <1>3, <1>4, <1>5 DEF on_trigger_fired

\* The empty history, job queues and stamps of a fresh load have their types.
LEMMA EmptyTypes ==
  /\ <<>> \in Seq(Firing) /\ <<>> \in Seq({"sub", "unsub"})
  /\ <<"sub">> \in Seq({"sub", "unsub"})
  /\ NoStamps \in [TriggerIds -> Nat]
BY DEF NoStamps

\* rule_from_json gives every runtime field a value of its type.
LEMMA ResetType ==
  ASSUME Reset
  PROVE  /\ lastFired' \in Nat /\ execCount' \in Nat
         /\ periodStart' \in Nat /\ periodCount' \in Nat
         /\ condState' \in {-1, 0, 1} /\ pending' \in BOOLEAN
         /\ firedAt' \in [TriggerIds -> Nat]
         /\ hist' \in Seq(Firing) /\ since' \in SUBSET TriggerIds
         /\ owed' \in {"no", "known", "unknown"}
<1>1. hist' \in Seq(Firing) /\ firedAt' \in [TriggerIds -> Nat]
  BY EmptyTypes DEF Reset
<1>2. /\ lastFired' \in Nat /\ execCount' \in Nat
      /\ periodStart' \in Nat /\ periodCount' \in Nat
      /\ condState' \in {-1, 0, 1}
  BY DEF Reset
<1>3. /\ pending' \in BOOLEAN /\ since' \in SUBSET TriggerIds
      /\ owed' \in {"no", "known", "unknown"}
  BY DEF Reset
<1>4. QED
  BY <1>1, <1>2, <1>3

\* Saves choose among the known settings; subscriptions are built from settings
\* that were saved, and only their triggers become active.
LEMMA LoadType ==
  ASSUME TypeOK, [Next]_vars
  PROVE  rule' \in Rules /\ saves' \in Nat /\ restarts' \in Nat /\ SubsOK'
<1>1. rule' \in Rules
  <2>1. rule' = rule \/ \E e \in BOOLEAN, r \in Rules : Update(e, r)
    BY DEF Next, Clock, ConditionChanges, TriggerOccurs, TriggerClears, TickWindow,
           TickRefire, SetEnabled, RunJob, Restart, on_trigger_fired, RefusedEarly,
           RefusedByLimit, RefusedByConditions, Execute, vars, gate
  <2>2. QED
    BY <2>1 DEF TypeOK, Update
<1>2. saves' \in Nat /\ restarts' \in Nat
  <2>1. /\ saves' = saves \/ saves' = saves + 1
        /\ restarts' = restarts \/ restarts' = restarts + 1
    BY DEF Next, Clock, ConditionChanges, TriggerOccurs, TriggerClears, TickWindow,
           TickRefire, SetEnabled, Update, RunJob, Restart, vars, loads
  <2>2. QED
    BY <2>1 DEF TypeOK
<1>3. SubsOK'
  <2>0. SubsOK /\ rule \in Rules
    BY DEF TypeOK
  <2>1. CASE live' = live /\ active' \subseteq live.triggers
    BY <2>0, <2>1 DEF SubsOK
  <2>2. CASE (live' = NoSubs \/ live' = Subscribed(rule)) /\ active' = {}
    <3>1. live' \in {NoSubs} \cup {Subscribed(r) : r \in Rules}
      BY <2>0, <2>2
    <3>2. QED
      BY <2>2, <3>1 DEF SubsOK
  <2>3. ASSUME NEW t \in TriggerIds, TriggerOccurs(t) PROVE SubsOK'
    BY <2>0, <2>1, <2>3 DEF TriggerOccurs, SubsOK
  <2>4. ASSUME NEW t \in TriggerIds, TriggerClears(t) PROVE SubsOK'
    BY <2>0, <2>1, <2>4 DEF TriggerClears, SubsOK
  <2>5. CASE RunJob \/ Restart
    BY <2>2, <2>5 DEF RunJob, Restart
  <2>6. CASE UNCHANGED <<live, active>>
    BY <2>0, <2>1, <2>6 DEF SubsOK
  <2>7. QED
    BY <2>3, <2>4, <2>5, <2>6
    DEF Next, Clock, ConditionChanges, TickWindow, TickRefire, SetEnabled, Update, vars, subs
<1>4. QED
  BY <1>1, <1>2, <1>3

\* Every variable of the model keeps its type.
THEOREM TypeCorrect == Spec => []TypeOK
<1>1. Init => TypeOK
  <2> SUFFICES ASSUME Init PROVE TypeOK
    OBVIOUS
  <2>1. /\ hist \in Seq(Firing) /\ jobs \in Seq({"sub", "unsub"})
        /\ firedAt \in [TriggerIds -> Nat]
    BY EmptyTypes DEF Init
  <2>2. /\ now \in Nat /\ lastFired \in Nat /\ execCount \in Nat
        /\ periodStart \in Nat /\ periodCount \in Nat /\ restarts \in Nat
        /\ saves \in Nat /\ sinceSave \in Nat /\ condState \in {-1, 0, 1}
    BY DEF Init
  <2>3. /\ enabled \in BOOLEAN /\ pending \in BOOLEAN /\ rule \in Rules
        /\ refire \in BOOLEAN /\ cond \in [CondIds -> BOOLEAN]
        /\ since \in SUBSET TriggerIds /\ owed \in {"no", "known", "unknown"}
    BY DEF Init
  <2>4. SubsOK
    BY DEF Init, SubsOK
  <2>5. QED
    BY <2>1, <2>2, <2>3, <2>4 DEF TypeOK
<1>2. TypeOK /\ [Next]_vars => TypeOK'
  <2> SUFFICES ASSUME TypeOK, [Next]_vars PROVE TypeOK'
    OBVIOUS
  <2>0. rule' \in Rules /\ saves' \in Nat /\ restarts' \in Nat /\ SubsOK'
    BY LoadType
  <2>1. CASE Clock
    BY <2>0, <2>1 DEF TypeOK, Clock, gate, subs, aux
  <2>2. CASE ConditionChanges
    BY <2>0, <2>2 DEF TypeOK, ConditionChanges, gate, subs, aux
  <2>3. ASSUME NEW t \in TriggerIds, TriggerOccurs(t) PROVE TypeOK'
    <3>1. on_trigger_fired({t}, active', cond)
      BY <2>3 DEF TriggerOccurs
    <3>2. {t} \in SUBSET TriggerIds
      OBVIOUS
    <3>3. UNCHANGED <<now, cond, jobs, refire>>
      BY <2>3 DEF TriggerOccurs
    <3>4. QED
      BY <2>0, <3>1, <3>2, <3>3, CallType DEF TypeOK
  <2>4. ASSUME NEW t \in TriggerIds, TriggerClears(t) PROVE TypeOK'
    BY <2>0, <2>4 DEF TypeOK, TriggerClears, gate
  <2>5. CASE TickWindow
    <3>1. pending' \in BOOLEAN /\ refire' \in BOOLEAN
      BY <2>5 DEF TickWindow, TypeOK, ClosesOnActive
    <3>2. QED
      BY <2>0, <2>5, <3>1 DEF TypeOK, TickWindow, aux
  <2>6. CASE TickRefire
    <3>1. on_trigger_fired({}, active, cond)
      BY <2>6 DEF TickRefire
    <3>2. refire' \in BOOLEAN /\ UNCHANGED <<now, cond, jobs>>
      BY <2>6 DEF TickRefire
    <3>3. QED
      BY <2>0, <3>1, <3>2, CallType DEF TypeOK
  <2>7. ASSUME NEW e \in BOOLEAN, SetEnabled(e) PROVE TypeOK'
    BY <2>0, <2>7 DEF TypeOK, SetEnabled, aux
  <2>8. ASSUME NEW e \in BOOLEAN, NEW r \in Rules, Update(e, r) PROVE TypeOK'
    <3>1. sinceSave' \in Nat /\ jobs' \in Seq({"sub", "unsub"}) /\ enabled' \in BOOLEAN
      BY <2>8 DEF TypeOK, Update
    <3>2. Reset /\ UNCHANGED <<now, cond, refire>>
      BY <2>8 DEF Update
    <3>3. QED
      BY <2>0, <3>1, <3>2, ResetType DEF TypeOK
  <2>9. CASE RunJob
    BY <2>0, <2>9 DEF TypeOK, RunJob, gate
  <2>10. CASE Restart
    <3>1. refire' \in BOOLEAN
      BY <2>10 DEF Restart
    <3>2. jobs' \in Seq({"sub", "unsub"})
      BY <2>10, EmptyTypes DEF Restart
    <3>3. Reset /\ UNCHANGED <<now, enabled, cond, sinceSave>>
      BY <2>10 DEF Restart
    <3>4. QED
      BY <2>0, <3>1, <3>2, <3>3, ResetType DEF TypeOK
  <2>11. CASE UNCHANGED vars
    BY <2>0, <2>11 DEF TypeOK, vars, gate, subs, aux
  <2>12. QED
    BY <2>1, <2>2, <2>3, <2>4, <2>5, <2>6, <2>7, <2>8, <2>9, <2>10, <2>11 DEF Next
<1>3. QED
  BY <1>1, <1>2, PTL DEF Spec

-----------------------------------------------------------------------------
(***************************************************************************)
(* Cooldown.                                                               *)
(***************************************************************************)

\* The record of a firing now, as Execute appends it.
Record(fired) == [at |-> now, win |-> StartNow, stamps |-> Stamps(fired),
                  since |-> since \cup Counted(fired)]

\* The fields of a firing.
LEMMA HistFields ==
  ASSUME TypeOK
  PROVE  \A i \in DOMAIN hist : /\ hist[i].at \in Nat /\ hist[i].win \in Nat
                                /\ hist[i].stamps \in [TriggerIds -> Nat]
                                /\ hist[i].since \in SUBSET TriggerIds
<1>1. ASSUME NEW i \in DOMAIN hist PROVE hist[i] \in Firing
  <2>1. hist \in Seq(Firing)
    BY DEF TypeOK
  <2>2. QED
    BY <2>1
<1>2. ASSUME NEW r \in Firing
      PROVE  /\ r.at \in Nat /\ r.win \in Nat
             /\ r.stamps \in [TriggerIds -> Nat] /\ r.since \in SUBSET TriggerIds
  BY DEF Firing
<1>3. QED
  BY <1>1, <1>2

\* Appending one record: the old firings keep their place, the new one is last.
LEMMA AppendRecord ==
  ASSUME TypeOK, NEW fired, hist' = Append(hist, Record(fired))
  PROVE  /\ DOMAIN hist = 1 .. Len(hist) /\ Len(hist) \in Nat
         /\ DOMAIN hist' = 1 .. Len(hist) + 1 /\ Len(hist') = Len(hist) + 1
         /\ \A i \in 1 .. Len(hist) : hist'[i] = hist[i]
         /\ hist'[Len(hist) + 1] = Record(fired)
<1> HIDE DEF Record
<1>1. hist \in Seq(Firing)
  BY DEF TypeOK
<1>2. QED
  BY <1>1

\* What a step does to the last firing and the history: nothing, a fresh load,
\* or one firing that passed the cooldown gate.
LEMMA CooldownShape ==
  ASSUME [Next]_vars
  PROVE  \/ UNCHANGED <<rule, lastFired, hist>> /\ (now' = now \/ now' = now + 1)
         \/ lastFired' = 0 /\ hist' = <<>> /\ now' = now
         \/ /\ CooldownPasses /\ lastFired' = now /\ UNCHANGED <<rule, now>>
            /\ \E fired \in SUBSET TriggerIds : hist' = Append(hist, Record(fired))
<1> DEFINE Goal == \/ UNCHANGED <<rule, lastFired, hist>> /\ (now' = now \/ now' = now + 1)
                   \/ lastFired' = 0 /\ hist' = <<>> /\ now' = now
                   \/ /\ CooldownPasses /\ lastFired' = now /\ UNCHANGED <<rule, now>>
                      /\ \E fired \in SUBSET TriggerIds : hist' = Append(hist, Record(fired))
<1>1. ASSUME NEW fired \in SUBSET TriggerIds, NEW act, NEW val, now' = now,
             on_trigger_fired(fired, act, val)
      PROVE  Goal
  <2>1. CASE Execute(fired, act, val)
    BY <1>1, <2>1 DEF Execute, Record
  <2>2. CASE ~Execute(fired, act, val)
    BY <1>1, <2>2 DEF on_trigger_fired, RefusedEarly, RefusedByLimit,
                      RefusedByConditions, gate, aux
  <2>3. QED
    BY <2>1, <2>2
<1>2. ASSUME NEW t \in TriggerIds, TriggerOccurs(t) PROVE Goal
  BY <1>1, <1>2 DEF TriggerOccurs
<1>3. CASE TickRefire
  BY <1>1, <1>3 DEF TickRefire
<1>4. CASE Clock \/ ConditionChanges \/ TickWindow \/ RunJob \/ UNCHANGED vars
  BY <1>4 DEF Clock, ConditionChanges, TickWindow, RunJob, vars, gate, aux, loads
<1>5. CASE \E t \in TriggerIds : TriggerClears(t)
  BY <1>5 DEF TriggerClears, gate
<1>6. CASE \E e \in BOOLEAN : SetEnabled(e) \/ \E r \in Rules : Update(e, r)
  BY <1>6 DEF SetEnabled, Update, Reset, aux
<1>7. CASE Restart
  BY <1>7 DEF Restart, Reset
<1>8. QED
  BY <1>2, <1>3, <1>4, <1>5, <1>6, <1>7 DEF Next

\* README "Cooldown: minimum seconds between firings": for every configuration,
\* two firings of one load of a rule are at least the cooldown apart.
THEOREM CooldownHolds == Spec => []CooldownKept
<1>1. Init => CooldownInv
  BY DEF Init, CooldownInv, CooldownKept
<1>2. TypeOK /\ CooldownInv /\ [Next]_vars => CooldownInv'
  <2> SUFFICES ASSUME TypeOK, CooldownInv, [Next]_vars PROVE CooldownInv'
    OBVIOUS
  <2> USE RuleFacts
  <2>0. now \in Nat /\ lastFired \in Nat /\ Cooldown \in Nat
    BY DEF TypeOK
  <2>00. \A i \in DOMAIN hist : hist[i].at \in Nat
    BY HistFields
  <2>1. CASE UNCHANGED <<rule, lastFired, hist>> /\ (now' = now \/ now' = now + 1)
    BY <2>0, <2>1 DEF CooldownInv, CooldownKept
  <2>2. CASE lastFired' = 0 /\ hist' = <<>> /\ now' = now
    BY <2>0, <2>2 DEF CooldownInv, CooldownKept
  <2>3. ASSUME CooldownPasses, lastFired' = now, UNCHANGED <<rule, now>>,
               NEW fired \in SUBSET TriggerIds, hist' = Append(hist, Record(fired))
        PROVE  CooldownInv'
    <3>1. Record(fired).at = now
      BY DEF Record
    <3>2. ASSUME NEW i \in DOMAIN hist PROVE now - hist[i].at >= Cooldown
      <4>1. hist[i].at \in Nat /\ hist[i].at >= 1 /\ hist[i].at <= lastFired
        BY <2>00 DEF CooldownInv
      <4>2. Cooldown = 0 \/ now - lastFired >= Cooldown
        BY <2>0, <2>3, <4>1 DEF CooldownPasses
      <4>3. lastFired <= now
        BY DEF CooldownInv
      <4>4. QED
        BY <2>0, <4>1, <4>2, <4>3
    <3>3. \A i \in DOMAIN hist' : hist'[i].at >= 1 /\ hist'[i].at <= lastFired'
      BY <2>0, <2>00, <2>3, <3>1, AppendRecord DEF CooldownInv
    <3>4. CooldownKept'
      BY <2>0, <2>00, <2>3, <3>1, <3>2, AppendRecord DEF CooldownInv, CooldownKept
    <3>5. QED
      BY <2>0, <2>3, <3>3, <3>4 DEF CooldownInv
  <2>4. QED
    BY <2>1, <2>2, <2>3, CooldownShape
<1>3. CooldownInv => CooldownKept
  BY DEF CooldownInv
<1>4. QED
  BY <1>1, <1>2, <1>3, TypeCorrect, PTL DEF Spec

-----------------------------------------------------------------------------
(***************************************************************************)
(* Rate limit.                                                             *)
(***************************************************************************)

\* What a step does to the rate-limit fields: nothing, a fresh load, a refusal
\* that may start a new period, or one firing within the limit.
LEMMA RateShape ==
  ASSUME [Next]_vars
  PROVE  \/ UNCHANGED <<rule, periodStart, periodCount, hist>> /\ (now' = now \/ now' = now + 1)
         \/ periodStart' = 0 /\ periodCount' = 0 /\ hist' = <<>> /\ now' = now
         \/ periodStart' = StartNow /\ periodCount' = CountNow /\ UNCHANGED <<rule, hist, now>>
         \/ /\ LimitPasses /\ UNCHANGED <<rule, now>>
            /\ periodStart' = StartNow
            /\ Period > 0 => periodCount' = CountNow + 1
            /\ \E fired \in SUBSET TriggerIds : hist' = Append(hist, Record(fired))
<1> DEFINE Goal ==
      \/ UNCHANGED <<rule, periodStart, periodCount, hist>> /\ (now' = now \/ now' = now + 1)
      \/ periodStart' = 0 /\ periodCount' = 0 /\ hist' = <<>> /\ now' = now
      \/ periodStart' = StartNow /\ periodCount' = CountNow /\ UNCHANGED <<rule, hist, now>>
      \/ /\ LimitPasses /\ UNCHANGED <<rule, now>>
         /\ periodStart' = StartNow
         /\ Period > 0 => periodCount' = CountNow + 1
         /\ \E fired \in SUBSET TriggerIds : hist' = Append(hist, Record(fired))
<1>1. ASSUME NEW fired \in SUBSET TriggerIds, NEW act, NEW val, now' = now,
             on_trigger_fired(fired, act, val)
      PROVE  Goal
  <2>1. CASE Execute(fired, act, val)
    BY <1>1, <2>1 DEF Execute, Record
  <2>2. CASE ~Execute(fired, act, val)
    BY <1>1, <2>2 DEF on_trigger_fired, RefusedEarly, RefusedByLimit,
                      RefusedByConditions, gate, aux
  <2>3. QED
    BY <2>1, <2>2
<1>2. ASSUME NEW t \in TriggerIds, TriggerOccurs(t) PROVE Goal
  BY <1>1, <1>2 DEF TriggerOccurs
<1>3. CASE TickRefire
  BY <1>1, <1>3 DEF TickRefire
<1>4. CASE Clock \/ ConditionChanges \/ TickWindow \/ RunJob \/ UNCHANGED vars
  BY <1>4 DEF Clock, ConditionChanges, TickWindow, RunJob, vars, gate, aux, loads
<1>5. CASE \E t \in TriggerIds : TriggerClears(t)
  BY <1>5 DEF TriggerClears, gate
<1>6. CASE \E e \in BOOLEAN : SetEnabled(e) \/ \E r \in Rules : Update(e, r)
  BY <1>6 DEF SetEnabled, Update, Reset, aux
<1>7. CASE Restart
  BY <1>7 DEF Restart, Reset
<1>8. QED
  BY <1>2, <1>3, <1>4, <1>5, <1>6, <1>7 DEF Next

\* Starting a period when the last one has run out keeps the split of the
\* history; StartNow and CountNow are the fields after that decision.
LEMMA RollOver ==
  ASSUME TypeOK, RateInv, MaxExec > 0, Period > 0
  PROVE  /\ StartNow \in Nat /\ CountNow \in Nat
         /\ 1 <= StartNow /\ StartNow <= now /\ now < StartNow + Period
         /\ \A i \in DOMAIN hist :
              /\ hist[i].win <= StartNow
              /\ hist[i].win < StartNow => hist[i].win + Period <= StartNow
              /\ i + CountNow <= Len(hist) => hist[i].win < StartNow
<1> USE RuleFacts
<1>1. /\ now \in Nat /\ periodStart \in Nat /\ periodCount \in Nat
      /\ Period \in Nat /\ MaxExec \in Nat /\ Len(hist) \in Nat
  BY DEF TypeOK
<1>2. \A i \in DOMAIN hist : hist[i].win \in Nat /\ hist[i].at \in Nat
  BY HistFields
<1>3. CASE RollsOver
  <2>1. StartNow = now /\ CountNow = 0
    BY <1>3 DEF StartNow, CountNow
  <2>2. ASSUME NEW i \in DOMAIN hist PROVE hist[i].win + Period <= now
    BY <1>1, <1>2, <1>3 DEF RollsOver, RateInv
  <2>3. now >= 1
    BY DEF RateInv
  <2>4. QED
    BY <1>1, <1>2, <2>1, <2>2, <2>3
<1>4. CASE ~RollsOver
  <2>1. StartNow = periodStart /\ CountNow = periodCount
    BY <1>4 DEF StartNow, CountNow
  <2>2. 1 <= periodStart /\ periodStart <= now /\ now < periodStart + Period
    BY <1>1, <1>4 DEF RollsOver, RateInv
  <2>3. QED
    BY <1>1, <1>2, <2>1, <2>2 DEF RateInv
<1>5. QED
  BY <1>3, <1>4

\* The rate limit keeps the split of the history into periods.
LEMMA RateStep == TypeOK /\ RateInv /\ [Next]_vars => RateInv'
<1> SUFFICES ASSUME TypeOK, RateInv, [Next]_vars
             PROVE  RateInv'
  OBVIOUS
<1> USE RuleFacts
<1>1. /\ now \in Nat /\ periodStart \in Nat /\ periodCount \in Nat
      /\ Period \in Nat /\ MaxExec \in Nat /\ Len(hist) \in Nat
      /\ DOMAIN hist = 1 .. Len(hist)
  BY DEF TypeOK
<1>2. \A i \in DOMAIN hist : hist[i].win \in Nat /\ hist[i].at \in Nat
  BY HistFields
<1>3. CASE UNCHANGED <<rule, periodStart, periodCount, hist>> /\ (now' = now \/ now' = now + 1)
  BY <1>1, <1>3 DEF RateInv
<1>4. CASE periodStart' = 0 /\ periodCount' = 0 /\ hist' = <<>> /\ now' = now
  BY <1>1, <1>4 DEF RateInv
<1>0. CASE rule' = rule /\ now' = now /\ ~(MaxExec > 0 /\ Period > 0)
  BY <1>0 DEF RateInv
<1>5. CASE /\ MaxExec > 0 /\ Period > 0
           /\ periodStart' = StartNow /\ periodCount' = CountNow /\ UNCHANGED <<rule, hist, now>>
  BY <1>1, <1>2, <1>5, RollOver DEF RateInv
<1>6. ASSUME MaxExec > 0, Period > 0, LimitPasses, UNCHANGED <<rule, now>>,
             periodStart' = StartNow, periodCount' = CountNow + 1,
             NEW fired \in SUBSET TriggerIds, hist' = Append(hist, Record(fired))
      PROVE  RateInv'
  <2> DEFINE n == Len(hist)
  <2>1. Record(fired).at = now /\ Record(fired).win = StartNow
    BY DEF Record
  <2>2. /\ DOMAIN hist' = 1 .. n + 1 /\ Len(hist') = n + 1
        /\ \A i \in 1 .. n : hist'[i] = hist[i]
        /\ hist'[n + 1].at = now /\ hist'[n + 1].win = StartNow
    BY <1>6, <2>1, AppendRecord
  <2>3. /\ StartNow \in Nat /\ CountNow \in Nat
        /\ 1 <= StartNow /\ StartNow <= now /\ now < StartNow + Period
        /\ \A i \in 1 .. n :
             /\ hist[i].win <= StartNow
             /\ hist[i].win < StartNow => hist[i].win + Period <= StartNow
             /\ i + CountNow <= n => hist[i].win < StartNow
    BY <1>1, <1>6, RollOver
  <2>4. CountNow < MaxExec
    BY <1>1, <1>6, <2>3 DEF LimitPasses
  <2>5. \A i \in 1 .. n : /\ 1 <= hist[i].win
                          /\ hist[i].win <= hist[i].at /\ hist[i].at < hist[i].win + Period
    BY <1>1, <1>6 DEF RateInv
  <2>6. \A i, j \in 1 .. n : j = i + MaxExec => hist[i].win + Period <= hist[j].win
    BY <1>1, <1>6 DEF RateInv
  <2> HIDE DEF n
  <2>7. n \in Nat
    BY <1>1 DEF n
  <2>8. \A i \in 1 .. n : hist[i].win \in Nat /\ hist[i].at \in Nat
    BY <1>1, <1>2 DEF n
  <2>9. ASSUME NEW i \in 1 .. n + 1
        PROVE  /\ 1 <= hist'[i].win
               /\ hist'[i].win <= hist'[i].at /\ hist'[i].at < hist'[i].win + Period
               /\ hist'[i].win <= periodStart'
               /\ hist'[i].win < periodStart' => hist'[i].win + Period <= periodStart'
               /\ i + periodCount' <= n + 1 => hist'[i].win < periodStart'
    <3>1. CASE i = n + 1
      BY <1>1, <1>6, <2>2, <2>3, <2>7, <3>1
    <3>2. CASE i \in 1 .. n
      BY <1>1, <1>6, <2>2, <2>3, <2>5, <2>7, <2>8, <3>2
    <3>3. QED
      BY <2>7, <3>1, <3>2
  <2>10. ASSUME NEW i \in 1 .. n + 1, NEW j \in 1 .. n + 1, j = i + MaxExec
         PROVE  hist'[i].win + Period <= hist'[j].win
    <3>1. i \in 1 .. n
      BY <1>1, <1>6, <2>7, <2>10
    <3>2. CASE j \in 1 .. n
      BY <2>2, <2>6, <2>10, <3>1, <3>2
    <3>3. CASE j = n + 1
      <4>1. i + CountNow <= n
        BY <1>1, <2>3, <2>4, <2>7, <2>10, <3>3
      <4>2. hist[i].win + Period <= StartNow
        BY <2>3, <3>1, <4>1
      <4>3. hist'[i] = hist[i] /\ hist'[j].win = StartNow
        BY <2>2, <3>1, <3>3
      <4>4. QED
        BY <4>2, <4>3
    <3>4. QED
      BY <2>7, <3>2, <3>3
  <2>11. now' >= 1 /\ periodStart' <= now'
    BY <1>1, <1>6, <2>3
  <2>12. Len(hist') = n + 1 /\ MaxExec' = MaxExec /\ Period' = Period
    BY <1>6, <2>2
  <2>13. QED
    BY <2>2, <2>9, <2>10, <2>11, <2>12 DEF RateInv
<1>7. QED
  BY <1>0, <1>3, <1>4, <1>5, <1>6, RateShape

\* README "Max Executions: limit how many times the rule can fire ... per
\* minute, per hour, per day": for every limit and period, 2 * MaxExec + 1
\* firings of one load span more than a period, wherever the period starts.
THEOREM RateHolds == Spec => []RateBounded
<1>1. Init => RateInv
  BY DEF Init, RateInv
<1>2. TypeOK /\ RateInv => RateBounded
  <2> SUFFICES ASSUME TypeOK, RateInv, MaxExec > 0, Period > 0,
                      NEW i \in DOMAIN hist, NEW j \in DOMAIN hist,
                      j = i + 2 * MaxExec
               PROVE  hist[j].at - hist[i].at > Period
    BY DEF RateBounded
  <2>1. /\ MaxExec \in Nat /\ Period \in Nat /\ Len(hist) \in Nat
        /\ DOMAIN hist = 1 .. Len(hist)
    BY RuleFacts DEF TypeOK
  <2> DEFINE k == i + MaxExec
  <2>2. k \in DOMAIN hist /\ j = k + MaxExec /\ k = i + MaxExec
    BY <2>1
  <2> HIDE DEF k
  <2>3. hist[i].win + Period <= hist[k].win /\ hist[k].win + Period <= hist[j].win
    BY <2>2 DEF RateInv
  <2>4. hist[i].at < hist[i].win + Period /\ hist[j].win <= hist[j].at
    BY DEF RateInv
  <2>5. /\ hist[i].at \in Nat /\ hist[i].win \in Nat /\ hist[k].win \in Nat
        /\ hist[j].at \in Nat /\ hist[j].win \in Nat
    BY <2>2, HistFields
  <2>6. ASSUME NEW a \in Nat, NEW w \in Nat, NEW v \in Nat, NEW u \in Nat, NEW b \in Nat,
               a < w + Period, w + Period <= v, v + Period <= u, u <= b
        PROVE  b - a > Period
    BY <2>1, <2>6
  <2>7. QED
    BY <2>3, <2>4, <2>5, <2>6
<1>3. QED
  BY <1>1, <1>2, RateStep, TypeCorrect, PTL DEF Spec

-----------------------------------------------------------------------------
(***************************************************************************)
(* AND correlation.                                                        *)
(***************************************************************************)

\* Saves queue a job, and the job leaves the subscriptions of the rule as it is then.
LEMMA LiveStep ==
  ASSUME LiveRight, [Next]_vars
  PROVE  LiveRight'
<1>1. ASSUME NEW t \in TriggerIds, TriggerOccurs(t) \/ TriggerClears(t) PROVE LiveRight'
  BY <1>1 DEF TriggerOccurs, TriggerClears, on_trigger_fired, RefusedEarly, RefusedByLimit,
              RefusedByConditions, Execute, gate, LiveRight
<1>2. CASE TickRefire
  BY <1>2 DEF TickRefire, on_trigger_fired, RefusedEarly, RefusedByLimit,
              RefusedByConditions, Execute, gate, LiveRight
<1>3. CASE Clock \/ ConditionChanges \/ TickWindow \/ UNCHANGED vars
  BY <1>3 DEF Clock, ConditionChanges, TickWindow, vars, gate, subs, LiveRight
<1>4. CASE \E e \in BOOLEAN : SetEnabled(e) \/ \E r \in Rules : Update(e, r)
  <2>1. PICK j : jobs' = Append(jobs, j)
    BY <1>4 DEF SetEnabled, Update
  <2>2. jobs' # <<>>
    BY <2>1
  <2>3. QED
    BY <2>2 DEF LiveRight
<1>5. CASE RunJob \/ Restart
  BY <1>5 DEF RunJob, Restart, gate, LiveRight
<1>6. QED
  BY <1>1, <1>2, <1>3, <1>4, <1>5 DEF Next

\* What a step does to the stamps: nothing, a fresh load, a refusal that keeps
\* the new stamp, or one firing for which every trigger has a fresh stamp.
LEMMA AndShape ==
  ASSUME LiveRight, [Next]_vars
  PROVE  \/ UNCHANGED <<rule, firedAt, since, hist>> /\ (now' = now \/ now' = now + 1)
         \/ firedAt' = NoStamps /\ since' = {} /\ hist' = <<>> /\ now' = now
         \/ /\ UNCHANGED <<rule, hist, now>>
            /\ \E fired \in SUBSET TriggerIds :
                 /\ Counted(fired) = fired \cap Tracked
                 /\ firedAt' = Stamps(fired) /\ since' = since \cup Counted(fired)
         \/ /\ UNCHANGED <<rule, now>> /\ since' = {}
            /\ \E fired \in SUBSET TriggerIds :
                 /\ Counted(fired) = fired \cap Tracked
                 /\ Correlates => AllFired(Stamps(fired))
                 /\ firedAt' = StampsAfter(Stamps(fired))
                 /\ hist' = Append(hist, Record(fired))
<1> DEFINE Goal ==
      \/ UNCHANGED <<rule, firedAt, since, hist>> /\ (now' = now \/ now' = now + 1)
      \/ firedAt' = NoStamps /\ since' = {} /\ hist' = <<>> /\ now' = now
      \/ /\ UNCHANGED <<rule, hist, now>>
         /\ \E fired \in SUBSET TriggerIds :
              /\ Counted(fired) = fired \cap Tracked
              /\ firedAt' = Stamps(fired) /\ since' = since \cup Counted(fired)
      \/ /\ UNCHANGED <<rule, now>> /\ since' = {}
         /\ \E fired \in SUBSET TriggerIds :
              /\ Counted(fired) = fired \cap Tracked
              /\ Correlates => AllFired(Stamps(fired))
              /\ firedAt' = StampsAfter(Stamps(fired))
              /\ hist' = Append(hist, Record(fired))
<1>1. ASSUME NEW fired \in SUBSET TriggerIds, NEW act, NEW val, now' = now,
             on_trigger_fired(fired, act, val), Counted(fired) = fired \cap Tracked
      PROVE  Goal
  <2>1. CASE Execute(fired, act, val)
    BY <1>1, <2>1 DEF Execute, LogicPasses, Record
  <2>2. CASE RefusedEarly(fired, act) \/ RefusedByLimit(fired, act)
    BY <1>1, <2>2 DEF RefusedEarly, RefusedByLimit
  <2>3. CASE RefusedByConditions(fired, act, val)
    BY <1>1, <2>3 DEF RefusedByConditions
  <2>4. CASE UNCHANGED <<gate, aux>>
    BY <1>1, <2>4 DEF gate, aux
  <2>5. QED
    BY <1>1, <2>1, <2>2, <2>3, <2>4 DEF on_trigger_fired
<1>2. ASSUME NEW t \in TriggerIds, TriggerOccurs(t) PROVE Goal
  <2>1. live.triggers # {} /\ on_trigger_fired({t}, active', cond) /\ now' = now
    BY <1>2 DEF TriggerOccurs
  <2>2. live # NoSubs
    BY <2>1 DEF NoSubs
  <2>3. Counted({t}) = {t} \cap Tracked
    BY <2>2 DEF Counted, LiveRight
  <2>4. QED
    BY <1>1, <2>1, <2>3
<1>3. CASE TickRefire
  <2>1. Counted({}) = {} \cap Tracked
    BY DEF Counted
  <2>2. QED
    BY <1>1, <1>3, <2>1 DEF TickRefire
<1>4. CASE Clock \/ ConditionChanges \/ TickWindow \/ RunJob \/ UNCHANGED vars
  BY <1>4 DEF Clock, ConditionChanges, TickWindow, RunJob, vars, gate, aux, loads
<1>5. CASE \E t \in TriggerIds : TriggerClears(t)
  BY <1>5 DEF TriggerClears, gate
<1>6. CASE \E e \in BOOLEAN : SetEnabled(e) \/ \E r \in Rules : Update(e, r)
  BY <1>6 DEF SetEnabled, Update, Reset, aux
<1>7. CASE Restart
  BY <1>7 DEF Restart, Reset
<1>8. QED
  BY <1>2, <1>3, <1>4, <1>5, <1>6, <1>7 DEF Next

\* README "AND (all triggers must fire within a configurable time window)": for any
\* number of triggers up to MAX_TRIGGERS_PER_RULE, and that many of any larger number, and
\* for any window, no occurrence is used for two firings, none older than the window is
\* used at all, and none of a subscription that a save has replaced.
THEOREM AndHolds == Spec => []AndCorrelated
<1>1. Init => AndInv
  BY DEF Init, AndInv, AndCorrelated, NoStamps
<1>2. TypeOK /\ LiveRight /\ AndInv /\ [Next]_vars => AndInv'
  <2> SUFFICES ASSUME TypeOK, LiveRight, AndInv, [Next]_vars PROVE AndInv'
    OBVIOUS
  <2> USE RuleFacts
  <2>0. now \in Nat /\ firedAt \in [TriggerIds -> Nat] /\ since \in SUBSET TriggerIds
        /\ Triggers \subseteq TriggerIds /\ Tracked \subseteq TriggerIds /\ TrigWindow \in Nat
    BY DEF TypeOK, Tracked
  <2>1. CASE UNCHANGED <<rule, firedAt, since, hist>> /\ (now' = now \/ now' = now + 1)
    BY <2>0, <2>1 DEF AndInv, AndCorrelated, Correlates, Tracked
  <2>2. CASE firedAt' = NoStamps /\ since' = {} /\ hist' = <<>> /\ now' = now
    BY <2>0, <2>2 DEF AndInv, AndCorrelated, NoStamps
  <2>3. ASSUME UNCHANGED <<rule, hist, now>>, NEW fired \in SUBSET TriggerIds,
               Counted(fired) = fired \cap Tracked,
               firedAt' = Stamps(fired), since' = since \cup Counted(fired)
        PROVE  AndInv'
    <3>1. AndCorrelated'
      BY <2>3 DEF AndInv, AndCorrelated, Tracked
    <3>2. \A t \in TriggerIds : firedAt'[t] <= now'
      BY <2>0, <2>3 DEF AndInv, Stamps
    <3>3. Correlates => \A t \in TriggerIds : firedAt'[t] # 0 => t \in since'
      BY <2>0, <2>3 DEF AndInv, Stamps
    <3>4. QED
      BY <2>3, <3>1, <3>2, <3>3 DEF AndInv, Correlates, Tracked
  <2>4. ASSUME UNCHANGED <<rule, now>>, since' = {}, NEW fired \in SUBSET TriggerIds,
               Counted(fired) = fired \cap Tracked,
               Correlates => AllFired(Stamps(fired)),
               firedAt' = StampsAfter(Stamps(fired)),
               hist' = Append(hist, Record(fired))
        PROVE  AndInv'
    <3>1. \A t \in TriggerIds : Stamps(fired)[t] <= now /\ Stamps(fired)[t] \in Nat
      BY <2>0 DEF AndInv, Stamps
    <3>2. \A t \in TriggerIds : firedAt'[t] <= now'
      BY <2>0, <2>4, <3>1 DEF StampsAfter, NoStamps
    <3>3. Correlates => \A t \in TriggerIds : firedAt'[t] = 0
      BY <2>4 DEF StampsAfter, NoStamps, Correlates
    <3>4. /\ Record(fired).at = now /\ Record(fired).stamps = Stamps(fired)
          /\ Record(fired).since = since \cup Counted(fired)
      BY DEF Record
    <3>5. Correlates => Tracked \subseteq since \cup Counted(fired)
      BY <2>0, <2>4 DEF AndInv, AllFired, Stamps
    <3>6. Correlates /\ TrigWindow > 0 =>
            \A t \in Tracked : now - Stamps(fired)[t] \in 0 .. TrigWindow
      BY <2>0, <2>4, <3>1 DEF AllFired
    <3>7. AndCorrelated'
      <4> SUFFICES ASSUME Correlates, NEW i \in DOMAIN hist', NEW t \in Tracked
                   PROVE  /\ t \in hist'[i].since
                          /\ TrigWindow > 0 =>
                               hist'[i].at - hist'[i].stamps[t] \in 0 .. TrigWindow
        BY <2>4 DEF AndCorrelated, Correlates, Tracked
      <4>1. CASE i \in 1 .. Len(hist)
        <5>1. hist'[i] = hist[i] /\ i \in DOMAIN hist
          BY <2>4, <4>1, AppendRecord
        <5>2. QED
          BY <5>1 DEF AndInv, AndCorrelated, Correlates, Tracked
      <4>2. CASE i = Len(hist) + 1
        <5>1. hist'[i] = Record(fired)
          BY <2>4, <4>2, AppendRecord
        <5>2. QED
          BY <3>4, <3>5, <3>6, <5>1
      <4>3. DOMAIN hist' = 1 .. Len(hist) + 1 /\ Len(hist) \in Nat
        BY <2>4, AppendRecord
      <4>4. QED
        BY <4>1, <4>2, <4>3
    <3>8. QED
      BY <2>4, <3>2, <3>3, <3>7 DEF AndInv, Correlates, Tracked
  <2>5. QED
    BY <2>1, <2>2, <2>3, <2>4, AndShape
<1>3. AndInv => AndCorrelated
  BY DEF AndInv
<1>4. Init => LiveRight
  BY DEF Init, LiveRight
<1>5. QED
  BY <1>1, <1>2, <1>3, <1>4, LiveStep, TypeCorrect, PTL DEF Spec

-----------------------------------------------------------------------------
(***************************************************************************)
(* Lifetime limit.                                                         *)
(***************************************************************************)

\* What a step does to the execution count: nothing, a save, a restart, or one
\* firing below the limit.
LEMMA LifetimeShape ==
  ASSUME [Next]_vars
  PROVE  \/ UNCHANGED <<rule, execCount, sinceSave, restarts>>
         \/ execCount' = 0 /\ sinceSave' = 0 /\ restarts' = restarts
         \/ execCount' = 0 /\ restarts' = restarts + 1
         \/ /\ execCount' = execCount + 1 /\ sinceSave' = sinceSave + 1
            /\ UNCHANGED <<rule, restarts>> /\ LimitPasses
<1> DEFINE Goal ==
      \/ UNCHANGED <<rule, execCount, sinceSave, restarts>>
      \/ execCount' = 0 /\ sinceSave' = 0 /\ restarts' = restarts
      \/ execCount' = 0 /\ restarts' = restarts + 1
      \/ /\ execCount' = execCount + 1 /\ sinceSave' = sinceSave + 1
         /\ UNCHANGED <<rule, restarts>> /\ LimitPasses
<1>1. ASSUME NEW fired \in SUBSET TriggerIds, NEW act, NEW val, restarts' = restarts,
             on_trigger_fired(fired, act, val)
      PROVE  Goal
  <2>1. CASE Execute(fired, act, val)
    BY <1>1, <2>1 DEF Execute
  <2>2. CASE RefusedEarly(fired, act) \/ RefusedByLimit(fired, act)
    BY <1>1, <2>2 DEF RefusedEarly, RefusedByLimit
  <2>3. CASE RefusedByConditions(fired, act, val)
    BY <1>1, <2>3 DEF RefusedByConditions
  <2>4. CASE UNCHANGED <<gate, aux>>
    BY <1>1, <2>4 DEF gate, aux
  <2>5. QED
    BY <1>1, <2>1, <2>2, <2>3, <2>4 DEF on_trigger_fired
<1>2. ASSUME NEW t \in TriggerIds, TriggerOccurs(t) PROVE Goal
  BY <1>1, <1>2 DEF TriggerOccurs, loads
<1>3. CASE TickRefire
  BY <1>1, <1>3 DEF TickRefire, loads
<1>4. CASE Clock \/ ConditionChanges \/ TickWindow \/ RunJob \/ UNCHANGED vars
  BY <1>4 DEF Clock, ConditionChanges, TickWindow, RunJob, vars, gate, aux, loads
<1>5. CASE \E t \in TriggerIds : TriggerClears(t)
  BY <1>5 DEF TriggerClears, gate, loads
<1>6. CASE \E e \in BOOLEAN : SetEnabled(e) \/ \E r \in Rules : Update(e, r)
  BY <1>6 DEF SetEnabled, Update, Reset, aux, loads
<1>7. CASE Restart
  BY <1>7 DEF Restart, Reset
<1>8. QED
  BY <1>2, <1>3, <1>4, <1>5, <1>6, <1>7 DEF Next

\* README "lifetime total": as long as the process is not restarted, a saved rule
\* fires at most MaxExec times.  With a restart it does not hold: the count is
\* not persisted.
THEOREM LifetimeHolds == Spec => []LifetimeCap
<1>1. Init => LifetimeInv
  BY RuleFacts DEF Init, LifetimeInv
<1>2. TypeOK /\ LifetimeInv /\ [Next]_vars => LifetimeInv'
  <2> SUFFICES ASSUME TypeOK, LifetimeInv, [Next]_vars PROVE LifetimeInv'
    OBVIOUS
  <2>1. /\ execCount \in Nat /\ sinceSave \in Nat /\ restarts \in Nat
        /\ MaxExec \in Nat /\ Period \in Nat
    BY RuleFacts DEF TypeOK
  <2>2. MaxExec' \in Nat
    BY LoadType, ParamsOK DEF RuleConfig
  <2>3. QED
    BY <2>1, <2>2, LifetimeShape DEF LifetimeInv, LimitPasses
<1>3. LifetimeInv => LifetimeCap
  BY DEF LifetimeInv, LifetimeCap, LifetimeTotal
<1>4. QED
  BY <1>1, <1>2, <1>3, TypeCorrect, PTL DEF Spec

-----------------------------------------------------------------------------
(***************************************************************************)
(* Time window.                                                            *)
(***************************************************************************)

\* More active triggers never make a rule look inactive to Tick.
LEMMA ActiveMonotone ==
  ASSUME NEW a, NEW b, a \subseteq b, HasActive(a)
  PROVE  HasActive(b)
BY DEF HasActive, AllActive, AnyActive

\* A call of on_trigger_fired with the activity of its subscriptions (act is
\* active') keeps the memory of blocked occurrences.
LEMMA WindowCall ==
  ASSUME TypeOK, WindowInv, NEW fired, NEW val,
         live' = live, active \subseteq active', on_trigger_fired(fired, active', val)
  PROVE  WindowInv'
<1>r. rule' = rule
  BY DEF on_trigger_fired, RefusedEarly, RefusedByLimit, RefusedByConditions, Execute, gate
<1>0. HasActive(active) => HasActive(active')
  BY ActiveMonotone
<1>1. CASE Execute(fired, active', val)
  BY <1>1 DEF Execute, WindowInv, BlockedRemembered
<1>2. CASE UNCHANGED <<pending, condState, owed>>
  BY <1>0, <1>r, <1>2 DEF WindowInv, BlockedRemembered, HasActive, AllActive, AnyActive
<1>3. CASE RefusedByConditions(fired, active', val)
  <2>1. condState' = condState /\ (pending => pending')
    BY <1>3 DEF RefusedByConditions
  <2>2. CASE owed' = owed
    BY <1>0, <1>r, <2>1, <2>2
    DEF WindowInv, BlockedRemembered, HasActive, AllActive, AnyActive
  <2>3. CASE owed' # owed
    <3>1. /\ fired # {} /\ HasWindow /\ HasActive(active')
          /\ owed' = IF condState = -1 THEN "unknown" ELSE "known"
      BY <1>3, <2>3 DEF RefusedByConditions
    <3>2. condState = 0 => pending'
      BY <1>3, <3>1 DEF RefusedByConditions
    <3>3. QED
      BY <1>r, <2>1, <3>1, <3>2
      DEF WindowInv, BlockedRemembered, HasActive, AllActive, AnyActive
  <2>4. QED
    BY <2>2, <2>3
<1>4. QED
  BY <1>1, <1>2, <1>3
  DEF on_trigger_fired, RefusedEarly, RefusedByLimit, gate, aux

\* rule_engine.c:259 "remember it so we can re-attempt when the window reopens":
\* for every configuration, an occurrence that a window known to be closed has
\* blocked stays pending while its trigger is active.
THEOREM WindowHolds == Spec => []BlockedRemembered
<1>1. Init => WindowInv
  BY DEF Init, WindowInv, BlockedRemembered
<1>2. TypeOK /\ WindowInv /\ [Next]_vars => WindowInv'
  <2> SUFFICES ASSUME TypeOK, WindowInv, [Next]_vars PROVE WindowInv'
    OBVIOUS
  <2> USE DEF WindowInv, BlockedRemembered
  <2>1. ASSUME NEW t \in TriggerIds, TriggerOccurs(t) PROVE WindowInv'
    <3>1. live' = live /\ active \subseteq active' /\ on_trigger_fired({t}, active', cond)
      BY <2>1 DEF TriggerOccurs
    <3>2. QED
      BY <3>1, WindowCall
  <2>2. CASE TickRefire
    <3>1. live' = live /\ active' = active /\ on_trigger_fired({}, active', cond)
      BY <2>2 DEF TickRefire
    <3>2. QED
      BY <3>1, WindowCall
  <2>3. ASSUME NEW t \in TriggerIds, TriggerClears(t) PROVE WindowInv'
    <3>1. UNCHANGED <<rule, live, condState, pending>>
      BY <2>3 DEF TriggerClears, gate
    <3>2. owed' = IF HasActive(active') THEN owed ELSE "no"
      BY <2>3 DEF TriggerClears
    <3>3. owed' # "no" => HasActive(active')
      BY <3>2
    <3>4. QED
      BY <3>1, <3>2, <3>3 DEF HasActive, AllActive, AnyActive
  <2>4. CASE TickWindow
    <3>1. /\ owed' = owed /\ active' = active /\ UNCHANGED <<rule, live>>
          /\ condState' = IF Lightweight(cond) THEN 1 ELSE 0
          /\ pending' = (pending \/ ClosesOnActive(Lightweight(cond)))
      BY <2>4 DEF TickWindow, aux
    <3>2. condState \in {-1, 0, 1}
      BY DEF TypeOK
    <3>3. owed = "known" /\ condState' = 0 => pending'
      BY <3>1, <3>2 DEF ClosesOnActive
    <3>4. owed' # "no" => HasActive(active')
      BY <3>1
    <3>5. QED
      BY <3>1, <3>3, <3>4 DEF HasActive, AllActive, AnyActive
  <2>5. CASE Clock \/ ConditionChanges \/ UNCHANGED vars
    <3>1. UNCHANGED <<rule, live, owed, active, condState, pending>>
      BY <2>5 DEF Clock, ConditionChanges, vars, gate, subs, aux
    <3>2. QED
      BY <3>1 DEF HasActive, AllActive, AnyActive
  <2>6. CASE \E e \in BOOLEAN : SetEnabled(e)
    <3>1. UNCHANGED <<rule, live, owed, active, condState, pending>>
      BY <2>6 DEF SetEnabled, aux
    <3>2. QED
      BY <3>1 DEF HasActive, AllActive, AnyActive
  <2>7. CASE RunJob \/ Restart \/ \E e \in BOOLEAN, r \in Rules : Update(e, r)
    <3>1. owed' = "no"
      BY <2>7 DEF RunJob, Restart, Update, Reset
    <3>2. QED
      BY <3>1
  <2>8. QED
    BY <2>1, <2>2, <2>3, <2>4, <2>5, <2>6, <2>7 DEF Next
<1>3. WindowInv => BlockedRemembered
  BY DEF WindowInv
<1>4. QED
  BY <1>1, <1>2, <1>3, TypeCorrect, PTL DEF Spec

\* Both limits on the number of firings hold for any rule and any sequence of saves.
THEOREM LimitsHold == Spec => []LimitsKept
<1>1. RateBounded /\ LifetimeCap => LimitsKept BY DEF LimitsKept
<1> QED BY <1>1, RateHolds, LifetimeHolds, PTL
=============================================================================
