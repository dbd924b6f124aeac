----------------------------- MODULE TriggerTable -----------------------------
(***************************************************************************)
(* The subscription table of src/app/engine/triggers.c: how rules enter    *)
(* and leave it, which subscriptions an event, a message, a webhook or the *)
(* tick make fire, and the while-active effects (actions.c) that are       *)
(* undone when a condition clears.  Scheduler models Scheduler_Tick, the   *)
(* first call of Triggers_Tick; RuleGate what fire_fn does with a firing   *)
(* (here every firing executes).                                           *)
(*                                                                         *)
(* The table belongs to the main loop and has no lock; a webhook walks it  *)
(* on the FastCGI thread, one entry at a time.                             *)
(*                                                                         *)
(* The event service gives every subscription its own copy of an event, a  *)
(* record [topic, port, level, stateful, fault, numeric, num, word].  It   *)
(* carries every field that triggers on its topic read except, unless it   *)
(* is `numeric`, the number; and a trigger has at most one filter, a       *)
(* boolean, a string or a threshold (html/rule-editor.js:243).             *)
(***************************************************************************)
EXTENDS Integers, Sequences, FiniteSets, SequencesExt

CONSTANTS
  Rules,        \* rule ids
  Triggers,     \* Triggers[r]: the triggers of rule r, a sequence of records
  Queries,      \* Queries[r]: topics its local vapix_query actions read
  Effects,      \* Effects[r]: its while-active actions, a sequence of [atype, target]
  Events,       \* device events that may occur
  Messages,     \* MQTT topics, Sparkplug metrics, rule ids: what momentary triggers match
  Tokens,       \* webhook tokens
  Conditional,  \* rules with conditions
  Values,       \* values of the counter and of the Modbus register
  MAX_SUBS, MAX_WHILE_ACTIVE,
  MaxTime,      \* bound: the clock
  MaxEvents,    \* bound: events and messages
  MaxJobs,      \* bound: subscriptions and unsubscriptions
  MaxInputs     \* bound: both together

DeviceTypes == {"io_input", "bool", "any", "string", "value", "aoa_scenario"}

\* Every trigger has a type, and the fields of its type.
ASSUME TriggerParams ==
  \A r \in Rules :
    /\ Triggers[r] \in Seq(Range(Triggers[r])) /\ Queries[r] \in Seq(Range(Queries[r]))
    /\ Effects[r] \in Seq(Range(Effects[r]))
    /\ \A c \in Range(Triggers[r]) :
         /\ c.type \in DeviceTypes \cup
              {"counter_threshold", "modbus_read", "message", "http_webhook", "schedule"}
         /\ c.type = "io_input" =>
              c.edge \in {"cut", "rising", "falling", "both"} /\ c.hold \in Int
         /\ c.type = "value" => c.bound \in Int /\ c.hold \in Int
         /\ c.type \in {"counter_threshold", "modbus_read"} => c.bound \in Int

ASSUME TableParams ==
  /\ \A e \in Events : /\ e.level \in BOOLEAN /\ e.stateful \in BOOLEAN
                       /\ e.fault \in BOOLEAN /\ e.numeric \in BOOLEAN /\ e.num \in Int
  /\ MAX_SUBS \in Nat /\ MAX_WHILE_ACTIVE \in Nat
  /\ MaxTime \in Nat /\ MaxEvents \in Nat /\ MaxJobs \in Nat /\ MaxInputs \in Nat

VARIABLES
  now,      \* time(NULL)
  subs,     \* subs[0 .. sub_count - 1]
  live,     \* subscription ids the event service has
  nextId,
  queue,    \* copies of events on their way to the main loop: [n, ev, id], n the event's number
  counter,  \* the counter's value (variables.c)
  undoable, \* while_active_entries: <<rule, atype>> -> effect
  on,       \* effects that are on at the devices: <<rule, effect>>
  walk,     \* Triggers_On_Webhook on the FastCGI thread
  status,   \* per rule: "enabled", "disabled" or "gone" from the store
  events, jobs,
  seen,     \* history: per trigger the last delivered level and since when it holds
  fired,    \* history: <<rule, idx, n>> fired on event n
  wrong,    \* history: what went wrong with a firing
  loose     \* history: rules whose effects nothing ends any more, until they fire again

ghost == <<seen, fired, wrong, loose>>
tableVars == <<now, subs, live, nextId, queue, counter, undoable, on, walk, status,
           events, jobs, ghost>>

Key(s)  == <<s.rule, s.idx>>
Table   == {subs[i] : i \in DOMAIN subs}
SubIds(t)  == {t[i].id : i \in DOMAIN t} \ {0}
Resting == [at |-> 0, token |-> "", must |-> {}, hit |-> {}]

\* The bounds on what comes from outside.
MoreEvents == events < MaxEvents /\ events + jobs < MaxInputs
MoreJobs   == jobs < MaxJobs /\ events + jobs < MaxInputs

(***************************************************************************)
(* Entering and leaving the table.                                         *)
(***************************************************************************)

NewSub(r, i, cfg, id, passive) ==
  [rule |-> r, idx |-> i, cfg |-> cfg, id |-> id, passive |-> passive,
   since |-> 0, latched |-> FALSE, cached |-> 0, polled |-> 0]

\* Mutant: the entry moved into the gap is not looked at.
StepOver(st) == [st EXCEPT !.i = @ + 1]

\* The loop's index after a removal.
Stay(st) == st

\* One turn of the loop of Triggers_Unsubscribe_Rule: the last entry takes the place of a
\* removed one, and the same place is looked at again.
SweepOne(st, r) ==
  IF st.i > Len(st.t) THEN st
  ELSE IF st.t[st.i].rule # r THEN [st EXCEPT !.i = @ + 1]
  ELSE Stay([st EXCEPT !.t = Front([st.t EXCEPT ![st.i] = Last(st.t)])])

Without(t, r) ==
  LET sweep[k \in 0 .. Len(t)] ==
        IF k = 0 THEN [i |-> 1, t |-> t] ELSE SweepOne(sweep[k - 1], r)
  IN sweep[Len(t)].t

\* Triggers and queries of rule r as do_subscribe adds them, with the ids from `id` on (0 for
\* one the event service refuses, `ok` false, and for triggers that need none).
Wanted(r, id, ok) ==
  LET T == Triggers[r]
      Q == Queries[r] IN
  [i \in 1 .. Len(T) |->
     NewSub(r, i, T[i], IF T[i].type \in DeviceTypes /\ ok THEN id + i - 1 ELSE 0, FALSE)] \o
  [i \in 1 .. Len(Q) |->
     NewSub(r, 0 - i, [type |-> "query", topic |-> Q[i]],
            IF ok THEN id + Len(T) + i - 1 ELSE 0, TRUE)]

\* A full table takes no more.
Fitting(t, add) ==
  LET room == MAX_SUBS - Len(t) IN
  t \o SubSeq(add, 1, IF Len(add) <= room THEN Len(add) ELSE room)

Unseen == [level |-> "none", since |-> 0]

Forget(r) == [k \in DOMAIN seen |-> IF k[1] = r THEN Unseen ELSE seen[k]]

\* The rule's effects that are on outlive its subscriptions.
Resaved(r) == IF \E x \in on : x[1] = r THEN loose \cup {r} ELSE loose \ {r}

\* A walk goes on in table u, which rule r has left or entered: it owes the triggers of other
\* rules that keep their places, and owes none twice but those of r (history only).
WalkIn(u, r) ==
  [at |-> walk.at, token |-> walk.token,
   must |-> {k \in walk.must : k[1] # r /\ \E i \in DOMAIN u \cap DOMAIN subs :
                                               u[i] = subs[i] /\ Key(u[i]) = k},
   hit |-> {k \in walk.hit : k[1] # r}]

\* The event service drops what is on its way to a removed subscription.
Arriving(t) == {c \in queue : c.id \in SubIds(t)}

\* do_subscribe: Triggers_Subscribe_Rule and Triggers_Subscribe_Passive.
Subscribe(r) ==
  \E ok \in BOOLEAN :
    LET t == Without(subs, r)
        add == Wanted(r, nextId, ok)
        u == Fitting(t, add) IN
    /\ MoreJobs /\ jobs' = jobs + 1
    /\ subs' = u
    /\ live' = (live \ (SubIds(subs) \ SubIds(t))) \cup (SubIds(u) \ SubIds(t))
    /\ nextId' = nextId + Len(add)
    /\ queue' = Arriving(t)
    /\ seen' = Forget(r)
    /\ walk' = WalkIn(u, r)
    /\ status' = [status EXCEPT ![r] = "enabled"] /\ loose' = Resaved(r)
    /\ UNCHANGED <<now, counter, undoable, on, events, fired, wrong>>

\* do_unsubscribe: the rule was disabled or deleted.
Unsubscribe(r, to) ==
  LET t == Without(subs, r) IN
  /\ \E s \in Table : s.rule = r
  /\ MoreJobs /\ jobs' = jobs + 1
  /\ subs' = t
  /\ live' = live \ (SubIds(subs) \ SubIds(t))
  /\ queue' = Arriving(t)
  /\ seen' = Forget(r)
  /\ walk' = WalkIn(t, r)
  /\ status' = [status EXCEPT ![r] = to] /\ loose' = Resaved(r)
  /\ UNCHANGED <<now, nextId, counter, undoable, on, events, fired, wrong>>

(***************************************************************************)
(* While-active effects.  State w = [undoable, on].                        *)
(***************************************************************************)

Held == [undoable |-> undoable, on |-> on]

\* The effects of rule r start and while_active_register remembers how to undo them:
\* one entry per rule and action type, the last one wins; a full table takes no more.
StartEffect(w, r, e) ==
  LET k == <<r, e.atype>> IN
  [undoable |-> IF k \in DOMAIN w.undoable \/ Cardinality(DOMAIN w.undoable) < MAX_WHILE_ACTIVE
                THEN [x \in DOMAIN w.undoable \cup {k} |-> IF x = k THEN e ELSE w.undoable[x]]
                ELSE w.undoable,
   on |-> w.on \cup {<<r, e>>}]

StartRule(w, r) ==
  LET started[k \in 0 .. Len(Effects[r])] ==
        IF k = 0 THEN w ELSE StartEffect(started[k - 1], r, Effects[r][k])
  IN started[Len(Effects[r])]

\* Mutant: the entries stay in the table.
UndoNone(w, rs) == w

\* Actions_Stop_Active_Siren for the rules rs.
Undo(w, rs) ==
  LET gone == {k \in DOMAIN w.undoable : k[1] \in rs} IN
  [undoable |-> [k \in DOMAIN w.undoable \ gone |-> w.undoable[k]],
   on |-> w.on \ {<<k[1], w.undoable[k]>> : k \in gone}]

\* The loop over the table: entry k undoes the effects of its rule, then fires.
ServeOne(w, k, undo, hit) ==
  LET r == subs[k].rule
      u == IF k \in undo THEN Undo(w, {r}) ELSE w
  IN IF k \in hit THEN StartRule(u, r) ELSE u

Serve(w, undo, hit) ==
  LET served[k \in 0 .. Len(subs)] ==
        IF k = 0 THEN w ELSE ServeOne(served[k - 1], k, undo, hit)
  IN served[Len(subs)]

(***************************************************************************)
(* Device events: Triggers_On_VAPIX_Event.                                 *)
(***************************************************************************)

\* An event occurs: a copy for every subscription of its topic.
Occur(e) ==
  /\ MoreEvents /\ events' = events + 1
  /\ queue' = queue \cup {[n |-> events + 1, ev |-> e, id |-> s.id] :
                           s \in {x \in Table : x.id # 0 /\ x.cfg.topic = e.topic}}
  /\ UNCHANGED <<now, subs, live, nextId, counter, undoable, on, walk, jobs, status, ghost>>

\* Mutant: every subscription of the topic handles every copy.
AddressedAny(s, c) == TRUE

\* The copy is for this subscription.
Addressed(s, c) == s.id = c.id

Stays(s)        == [sub |-> s, fire |-> FALSE, undo |-> FALSE]
Clears(s)       == [sub |-> s, fire |-> FALSE, undo |-> TRUE]
FiresNow(s)     == [sub |-> s, fire |-> TRUE, undo |-> FALSE]

\* A hold that is not over is cancelled.
HoldCancelled(s) == [s EXCEPT !.since = 0]

\* Fire once until the condition clears.
Latch(s) == [s EXCEPT !.latched = TRUE]

\* I/O input: the edge, then the hold.  Only a supervised fault that ends undoes effects.
OnInput(s, e) ==
  LET match == CASE s.cfg.edge = "cut"     -> e.fault
                 [] s.cfg.edge = "rising"  -> e.level
                 [] s.cfg.edge = "falling" -> ~e.level
                 [] s.cfg.edge = "both"    -> TRUE
      clear == (s.cfg.edge = "cut" /\ ~match) \/ (e.stateful /\ ~e.level) IN
  IF ~match THEN [Stays(HoldCancelled(s)) EXCEPT !.undo = clear]
  ELSE IF s.cfg.hold > 0
       THEN [Stays([s EXCEPT !.since = IF @ = 0 THEN now ELSE @]) EXCEPT !.undo = clear]
  ELSE [FiresNow(s) EXCEPT !.undo = clear]

\* A string filter undoes nothing.
OnString(s, e) == IF e.word # s.cfg.word THEN Stays(s) ELSE FiresNow(s)

\* Numeric threshold with latch and hold; only a later event ends the hold.  An event
\* without the number resets both and undoes nothing.
OnValue(s, e) ==
  IF ~e.numeric THEN Stays([HoldCancelled(s) EXCEPT !.latched = FALSE])
  ELSE IF e.num < s.cfg.bound
  THEN [Stays([HoldCancelled(s) EXCEPT !.latched = FALSE]) EXCEPT !.undo = s.latched]
  ELSE IF s.latched THEN Stays(s)
  ELSE IF s.cfg.hold > 0 /\ s.since = 0 THEN Stays([s EXCEPT !.since = now])
  ELSE IF s.cfg.hold > 0 /\ now - s.since < s.cfg.hold THEN Stays(s)
  ELSE FiresNow(Latch(s))

\* One addressed subscription.  Events of other ports are ignored.  A trigger without a
\* filter fires with every event, but one that says active=false undoes effects first.
OnEvent(s0, c) ==
  LET e == c.ev
      s == [s0 EXCEPT !.cached = c.n] IN
  CASE s.cfg.type = "io_input"     -> IF e.port # s.cfg.port THEN Stays(s0) ELSE OnInput(s, e)
    [] s.cfg.type = "bool"         -> IF e.level # s.cfg.want THEN Clears(s) ELSE FiresNow(s)
    [] s.cfg.type = "any"          -> [FiresNow(s) EXCEPT !.undo = e.stateful /\ ~e.level]
    [] s.cfg.type = "string"       -> OnString(s, e)
    [] s.cfg.type = "value"        -> OnValue(s, e)
    [] s.cfg.type = "aoa_scenario" -> IF ~e.level THEN Clears(s)
                                      ELSE IF e.num # s.cfg.class THEN Stays(s) ELSE FiresNow(s)

\* Whether the trigger's condition holds in event e (history only).
Matches(cfg, e) ==
  CASE cfg.type = "io_input"     -> CASE cfg.edge = "cut" -> e.fault [] cfg.edge = "rising" -> e.level
                                      [] cfg.edge = "falling" -> ~e.level [] OTHER -> TRUE
    [] cfg.type = "bool"         -> e.level = cfg.want
    [] cfg.type = "any"          -> ~e.stateful \/ e.level
    [] cfg.type = "string"       -> e.word = cfg.word
    [] cfg.type = "value"        -> e.numeric /\ e.num >= cfg.bound
    [] cfg.type = "aoa_scenario" -> e.level

Saw(cfg, old, e) ==
  IF cfg.type = "io_input" /\ cfg.port # e.port THEN old
  ELSE IF ~Matches(cfg, e) THEN [level |-> "clear", since |-> 0]
  ELSE [level |-> "active", since |-> IF old.level = "active" THEN old.since ELSE now]

\* The caches of queries on the topic are refreshed by any copy.
Refreshed(c) ==
  [i \in DOMAIN subs |->
     IF subs[i].passive /\ subs[i].cfg.topic = c.ev.topic
     THEN [subs[i] EXCEPT !.cached = c.n] ELSE subs[i]]

\* The entries of the table q that handle copy c.
Handlers(q, c) ==
  {i \in DOMAIN q : /\ ~q[i].passive /\ q[i].cfg.type \in DeviceTypes
                    /\ q[i].cfg.topic = c.ev.topic /\ Addressed(q[i], c)}

\* A latch is reset and the effects stay on (history only).
Loosens(s, e) == s.cfg.type = "value" /\ s.latched /\ ~e.numeric

Blame(what, proven) == IF proven THEN {what} ELSE {}

\* What trigger k has seen when it fires (history only).
HeldFor(k, secs, t) == seen[k].level = "active" /\ t - seen[k].since >= secs

\* The next copy: events come in their order, and the copies of one in that of their
\* subscriptions.  Caches first, then the subscription it is for.
Deliver(c) ==
  LET q == Refreshed(c)
      at == Handlers(q, c)
      hit == {i \in at : OnEvent(q[i], c).fire}
      w == Serve(Held, {i \in at : OnEvent(q[i], c).undo}, hit)
      mine(k) == \E i \in DOMAIN q : ~q[i].passive /\ Key(q[i]) = k /\ q[i].id = c.id
      value(i, held) == q[i].cfg.type = "value" /\ (held <=> q[i].cfg.hold > 0) IN
  /\ \A d \in queue : c.n < d.n \/ (c.n = d.n /\ c.id <= d.id)
  /\ queue' = queue \ {c}
  /\ subs' = [i \in DOMAIN q |-> IF i \in at THEN OnEvent(q[i], c).sub ELSE q[i]]
  /\ undoable' = w.undoable /\ on' = w.on
  /\ seen' = [k \in DOMAIN seen |->
                IF mine(k) THEN Saw(Triggers[k[1]][k[2]], seen[k], c.ev) ELSE seen[k]]
  /\ fired' = fired \cup {<<q[i].rule, q[i].idx, c.n>> : i \in hit}
  /\ wrong' = wrong
       \cup Blame("twice", \E i \in hit : <<q[i].rule, q[i].idx, c.n>> \in fired)
       \cup Blame("unlatched",
               \E i \in hit : value(i, FALSE) /\ seen[Key(q[i])].level = "active")
       \cup Blame("short",
               \E i \in hit : value(i, TRUE) /\ ~HeldFor(Key(q[i]), q[i].cfg.hold, now))
       \cup Blame("stale",
               \E i \in hit, j \in DOMAIN q :
                 q[j].passive /\ q[j].cfg.topic = c.ev.topic /\ q[j].cached # c.n)
  /\ loose' = (loose \cup {q[i].rule : i \in {j \in at : Loosens(q[j], c.ev)}})
                \ {q[i].rule : i \in hit}
  /\ UNCHANGED <<now, live, nextId, counter, walk, status, events, jobs>>

(***************************************************************************)
(* Messages and webhooks.                                                  *)
(***************************************************************************)

\* Triggers_On_MQTT_Message, Triggers_On_Sparkplug_Command, Triggers_On_Rule_Fired.
Message(m) ==
  LET w == Serve(Held, {}, {i \in DOMAIN subs : /\ subs[i].cfg.type = "message"
                                                 /\ subs[i].cfg.match = m}) IN
  /\ MoreEvents /\ events' = events + 1
  /\ undoable' = w.undoable /\ on' = w.on
  /\ UNCHANGED <<now, subs, live, nextId, queue, counter, walk, jobs, status, ghost>>

Named(s, token) == s.cfg.type = "http_webhook" /\ s.cfg.token \in {"", token}

\* Triggers_On_Webhook begins on the FastCGI thread.
Webhook(token) ==
  /\ walk.at = 0 /\ MoreEvents /\ events' = events + 1
  /\ walk' = [at |-> 1, token |-> token, must |-> {Key(s) : s \in {x \in Table : Named(x, token)}},
              hit |-> {}]
  /\ UNCHANGED <<now, subs, live, nextId, queue, counter, undoable, on, jobs, status, ghost>>

\* The loop's bound, read anew each time.
PastEnd == walk.at > Len(subs)

\* One entry of the walk, or its end.
WebhookStep ==
  /\ walk.at > 0
  /\ IF PastEnd
     THEN /\ wrong' = wrong \cup Blame("missed", ~(walk.must \subseteq walk.hit))
          /\ walk' = Resting
          /\ UNCHANGED <<undoable, on>>
     ELSE LET s == subs[walk.at]
              w == StartRule(Held, s.rule) IN
          /\ walk' = [at |-> walk.at + 1, token |-> walk.token, must |-> walk.must,
                      hit |-> walk.hit \cup {x \in {Key(s)} : Named(s, walk.token)}]
          /\ undoable' = IF Named(s, walk.token) THEN w.undoable ELSE undoable
          /\ on' = IF Named(s, walk.token) THEN w.on ELSE on
          /\ wrong' = wrong
               \cup Blame("again", Named(s, walk.token) /\ Key(s) \in walk.hit)
  /\ UNCHANGED <<now, subs, live, nextId, queue, counter, status, events, jobs, seen, fired,
                 loose>>

(***************************************************************************)
(* Triggers_Tick.                                                          *)
(***************************************************************************)

\* A hold that is over fires and may be armed again.
OnHold(s, t) ==
  IF s.cfg.type = "io_input" /\ s.since # 0 /\ s.cfg.hold > 0 /\ t - s.since >= s.cfg.hold
  THEN FiresNow([s EXCEPT !.since = 0])
  ELSE Stays(s)

OnCounter(s, v) ==
  IF s.cfg.type # "counter_threshold" THEN Stays(s)
  ELSE IF v < s.cfg.bound THEN Stays([s EXCEPT !.latched = FALSE])
  ELSE IF s.latched THEN Stays(s)
  ELSE FiresNow(Latch(s))

\* A poll that is due reads v; -1: no connection or a read error.
OnPoll(s, t, v) ==
  IF s.cfg.type # "modbus_read" \/ (s.polled > 0 /\ t - s.polled < s.cfg.poll) THEN Stays(s)
  ELSE LET p == [s EXCEPT !.polled = t] IN
       IF v < 0 THEN Stays(p)
       ELSE IF v < s.cfg.bound THEN [Stays([p EXCEPT !.latched = FALSE]) EXCEPT !.undo = s.latched]
       ELSE IF s.latched THEN Stays(p)
       ELSE FiresNow(Latch(p))

\* RuleEngine_Tick one second later: Triggers_Tick with its three loops, the register reads
\* v; then effects of rules that are gone, or whose conditions fail (`failing`), are undone,
\* but not those of a disabled rule (siren_condition_check).
TableTick(v, failing) ==
  LET t == now + 1
      hold(i) == OnHold(subs[i], t)
      count(i) == OnCounter(subs[i], counter)
      poll(i) == OnPoll(subs[i], t, v)
      holds == Serve(Held, {}, {i \in DOMAIN subs : hold(i).fire})
      counts == Serve(holds, {}, {i \in DOMAIN subs : count(i).fire})
      polls == Serve(counts, {i \in DOMAIN subs : poll(i).undo}, {i \in DOMAIN subs : poll(i).fire})
      w == Undo(polls, {r \in Rules : status[r] = "gone" \/ (status[r] = "enabled" /\ r \in failing)}) IN
  /\ t <= MaxTime /\ now' = t
  /\ subs' = [i \in DOMAIN subs |->
       CASE subs[i].cfg.type = "io_input"    -> hold(i).sub
         [] subs[i].cfg.type = "modbus_read" -> poll(i).sub
         [] OTHER                            -> count(i).sub]
  /\ undoable' = w.undoable /\ on' = w.on
  /\ wrong' = wrong \cup
       Blame("short", \E i \in DOMAIN subs :
                        hold(i).fire /\ ~HeldFor(Key(subs[i]), subs[i].cfg.hold, t))
  /\ UNCHANGED <<live, nextId, queue, counter, walk, status, events, jobs, seen, fired, loose>>

\* A rule or a request changes the counter (variables.c).
Count(v) ==
  /\ v # counter /\ MoreEvents /\ events' = events + 1
  /\ counter' = v
  /\ UNCHANGED <<now, subs, live, nextId, queue, undoable, on, walk, jobs, status, ghost>>

TableInit ==
  /\ now = 1 /\ subs = <<>> /\ live = {} /\ nextId = 1 /\ queue = {} /\ counter = 0
  /\ undoable = [k \in {} |-> 0] /\ on = {} /\ walk = Resting /\ events = 0 /\ jobs = 0
  /\ seen = [k \in UNION {{<<r, i>> : i \in DOMAIN Triggers[r]} : r \in Rules} |-> Unseen]
  /\ fired = {} /\ wrong = {} /\ loose = {}
  /\ status = [r \in Rules |-> "disabled"]

TableNext ==
  \/ \E r \in Rules : Subscribe(r)
  \/ \E r \in Rules, to \in {"disabled", "gone"} : Unsubscribe(r, to)
  \/ \E e \in Events : Occur(e)
  \/ \E c \in queue : Deliver(c)
  \/ \E m \in Messages : Message(m)
  \/ \E k \in Tokens : Webhook(k)
  \/ WebhookStep
  \/ \E v \in Values \cup {-1}, failing \in SUBSET Conditional : TableTick(v, failing)
  \/ \E v \in Values : Count(v)

TableSpec == TableInit /\ [][TableNext]_tableVars

(***************************************************************************)
(* Properties.                                                             *)
(***************************************************************************)

\* Types and table sizes.
Configs(r) == Range(Triggers[r]) \cup {[type |-> "query", topic |-> q] : q \in Range(Queries[r])}
Entries    == [rule : Rules, idx : Int, cfg : UNION {Configs(r) : r \in Rules}, id : Nat,
               passive : BOOLEAN, since : Nat, latched : BOOLEAN, cached : Nat, polled : Nat]
EffectsOf(r) == Range(Effects[r])
Keys       == UNION {{<<r, i>> : i \in DOMAIN Triggers[r]} : r \in Rules}
TableTypes ==
  /\ now \in 1 .. MaxTime + 1 /\ nextId \in Nat \ {0} /\ counter \in Values \cup {0}
  /\ subs \in Seq(Entries) /\ Len(subs) <= MAX_SUBS
  /\ queue \subseteq [n : 1 .. events, ev : Events, id : 1 .. nextId - 1]
  /\ undoable \in [DOMAIN undoable -> UNION {EffectsOf(r) : r \in Rules}]
  /\ IsFiniteSet(DOMAIN undoable) /\ Cardinality(DOMAIN undoable) <= MAX_WHILE_ACTIVE
  /\ \A k \in DOMAIN undoable :
       k[1] \in Rules /\ undoable[k] \in EffectsOf(k[1]) /\ k = <<k[1], undoable[k].atype>>
  /\ on \subseteq UNION {{<<r, e>> : e \in EffectsOf(r)} : r \in Rules}
  /\ walk.at \in Nat
  /\ status \in [Rules -> {"enabled", "disabled", "gone"}]
  /\ events \in 0 .. MaxEvents /\ jobs \in 0 .. MaxJobs
  /\ seen \in [Keys -> [level : {"none", "clear", "active"}, since : Nat]]
  /\ fired \subseteq {<<k[1], k[2], n>> : k \in Keys, n \in 1 .. events}
  /\ loose \subseteq Rules

\* The place of an entry among the triggers and queries of its rule.
Place(s) == IF s.passive THEN Len(Triggers[s.rule]) - s.idx ELSE s.idx

\* The table serves its rules: of a rule it holds its triggers and queries, in full or as
\* far as there was room, each once, or nothing; and the event service has exactly the
\* subscriptions of the table (nothing leaks or is lost when entries move, triggers.c:258).
TableServesRules ==
  /\ live = SubIds(subs)
  /\ \A i, j \in DOMAIN subs :
       subs[i].rule = subs[j].rule /\ Place(subs[i]) = Place(subs[j]) => i = j
  /\ \A s \in Table :
       /\ Place(s) \in 1 .. Len(Triggers[s.rule]) + Len(Queries[s.rule])
       /\ \A p \in 1 .. Place(s) : \E x \in Table : x.rule = s.rule /\ Place(x) = p

\* Firings are right (triggers.c:496, 505, 620, 738): no trigger fires twice on one event; a
\* threshold fires once until an event without a number or one that does not pass it
\* clears it; a hold fires only if its condition held for that long; a rule that queries the
\* topic it fired on reads that very event; and a webhook request reaches each of its
\* triggers that stays in its place in the table, and none twice, however rules come and go
\* meanwhile, unless the trigger's own rule is subscribed anew.
FiringsRight == wrong = {}

\* Rule r's only trigger has seen its condition clear since it was subscribed.
Cleared(r) ==
  /\ Len(Triggers[r]) = 1 /\ Triggers[r][1].type \in DeviceTypes
  /\ seen[<<r, 1>>].level = "clear"

\* docs/help.html:1063 "the action automatically reverses itself ... when the triggering
\* condition clears", "activate siren while I/O port 1 is high": a rule with one stateful
\* trigger has an effect on once its condition has cleared only if the effect cannot be
\* undone any more, because another one of the same type took its entry (actions.c:158)
\* or the table was full (actions.c:165); apart from I/O edges, which undo nothing
\* (triggers.c:591), triggers without a filter, which the event that undoes their effects
\* fires again (triggers.c:638), string filters, which undo nothing either (triggers.c:566),
\* rules saved or disabled while active, and thresholds whose latch an event without the
\* number reset (triggers.c:609).
EffectsEndIfUndoable ==
  \A x \in on :
    /\ Cleared(x[1]) /\ x[1] \notin loose
    /\ Triggers[x[1]][1].type \notin {"io_input", "any", "string"}
    => <<x[1], x[2].atype>> \notin DOMAIN undoable
=============================================================================
