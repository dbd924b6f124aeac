# Event Engine ACAP: TLA+ models, checks and proofs

Event Engine is a rule engine that runs on an Axis camera as one C process
(`src/app`). Rules have triggers, conditions and actions; this project models
the parts of it whose correctness depends on the order in which several threads,
timers, messages and failures come together, checks them with TLC on small
instances, and proves most of the invariants that TLC checks with TLAPS, for all
parameters.

## 1. The system

### Threads

| Thread | Created in | Runs |
|---|---|---|
| main loop (GLib) | `main.c` | device events, the 1 s `Engine_Tick`, idle jobs, delay timers, most actions |
| FastCGI thread | `ACAP.c:287` | every HTTP endpoint: rule CRUD, manual fire, webhooks, Test, settings |
| MQTT worker | `mqtt_client.c` | connect, receive, fail-over, retransmission, Sparkplug births |
| alert stream | `alert_stream.c` | one accept thread, one thread per client |
| io_flash workers | `actions.c` | one thread per running flash |

Shutdown (`main.c:1771-1786`) runs on the main thread after its loop has ended,
while the other threads still run; the FastCGI thread is cancelled last.

### Components

| Component | State | Operations | Talks to | What is hard | What makes it correct |
|---|---|---|---|---|---|
| Rule engine, firing decision (`rule_engine.c`) | per rule: enabled, last_fired, counters, rate-limit period, trigger stamps, window state, pending flag | `on_trigger_fired`, `RuleEngine_Tick`, save, enable, restart | triggers call it; it calls conditions, actions, event log, alert stream, and itself through rule chains | the gates leave traces when they refuse; Tick re-fires after unlocking; a rule is saved while old subscriptions are alive | cooldown, rate and lifetime limits, AND correlation, a blocked trigger is re-attempted |
| Rule engine, store (`rule_engine.c`, `ACAP.c`) | rules[], rules.json, idle jobs, trigger subscriptions | Add, Update, Delete, SetEnabled, Init, Cleanup | HTTP API and set_rule_enabled; triggers.c | two threads, work after the unlock, truncate-then-write, crash, shutdown order | memory, file and subscriptions agree |
| Triggers (`triggers.c`) | subscription table, edges, hold times, polled values | subscribe, unsubscribe, dispatch of events, webhooks, MQTT, rule-fired, Tick | rule engine, scheduler, MQTT, ACAP events, while-active table | a table without a lock that a webhook walks, thresholds with hold time, polling | an occurrence reaches each subscribed rule once, effects end |
| Conditions (`conditions.c`) | none of its own; pull point subscriptions at devices | evaluate, lightweight evaluate, ONVIF query | ports, variables, remote devices, Modbus | answers that fail, are late or missing, short cuts of AND and OR | a list passes exactly when the documentation says so; subscriptions are returned |
| Actions (`actions.c`) | delay timers, error globals, digest buffers, while-active table, pending output restores, flash runs | about 40 action types, test endpoint | VAPIX, MQTT, HTTP, rule engine | lists cut by delays and retries; globals shared by two threads; ports shared by rules | lists run in order and to the end; what was switched on is switched off again |
| MQTT client (`mqtt_client.c`) | settings, broker index, wake and shutdown pipes, subscriptions, in-flight table | reconfigure, reconnect, publish, subscribe, cleanup | triggers, Sparkplug, actions | private copies of settings, fail-over, packets sent after the unlock, packet ids that wrap | new settings take over, fail-over finds a broker, QoS 1 is kept while the session lasts |
| Sparkplug (`sparkplug.c`) | bdSeq, seq, birth flag, host state, history ring | birth, data, death, host state, configure | MQTT client | order of birth, data and replay over reconnects, reconfiguration and crashes | a validating host has nothing to object to; accepted samples arrive |
| Scheduler (`scheduler.c`) | per entry: masks, last minute, fired-today | register, unregister, Tick | triggers | late ticks, day boundaries, a clock set back | each scheduled time fires once |
| Variables (`variables.c`) | table in memory and on disk | set, increment, delete, save, load | actions, conditions, HTTP API | numbers kept as text, names cut, saves that lag | what was written is read |
| Event log (`event_log.c`) | ring in memory, file | append, mark, clear, save, load | rule engine, HTTP API | ring arithmetic, save once a minute | bounded, newest entries kept, cleared ones gone |
| Alert stream (`alert_stream.c`) | client slots with one pending event | accept, broadcast, close | rule engine | slot reuse, slow clients, wake-ups | in order, newest event reaches every reader |
| Modbus pool (`modbus_pool.c`) | connections by key | get, request, invalidate | conditions, triggers, actions | late answers on shared connections | an answer belongs to its request |
| HTTP API, ACAP wrapper | files, request handling | | | | only what `RuleStore` uses |
| Web interface, tools, cJSON | | | | | not modelled |

`PROJECT.json` lists every component with its status and every hazard with its
line and the properties that catch it.

## 2. Modules

| Module | Models | Builds on |
|---|---|---|
| `RuleGate`, `MCRuleGate`, `RuleGateProofs` | the firing decision of one rule; instance; theorems | |
| `RuleStore` | rule table, file, subscription jobs, start-up, shutdown, crash | |
| `MqttSession` | the life of the MQTT connection | |
| `MqttTraffic`, `MCMqttTraffic` | topic filters, in-flight table, packets over sessions that come and go | |
| `MqttProofs` | theorems about both | `MqttSession`, `MqttTraffic` |
| `Sparkplug`, `MCSparkplug`, `SparkplugProofs` | the edge node and the host that validates it; theorems | |
| `TriggerTable`, `MCTriggerTable` | subscription table, matching, ticks, while-active effects | |
| `SubscriptionProofs` | theorems about both | `RuleStore`, `TriggerTable` |
| `IoFlash`, `MCIoFlash`, `IoFlashProofs` | flash runs, their workers, what ends them; theorems | |
| `Outputs` | timed, while-active and plain I/O outputs that overlap | |
| `ActionHandlers` | what each action handler makes of a request (operators) | |
| `ActionRunner`, `MCActionRunner`, `ActionRunnerProofs` | action lists, delays, retries, fallbacks, errors, tests, digests; theorems | `ActionHandlers` |
| `Scheduler`, `MCScheduler` | schedules and their tick | |
| `BoundedLog` | what the event log promises (abstract) | |
| `EventLog` | the ring, its file and its saves | refines `BoundedLog` |
| `Variables` | variables and counters, their file | |
| `Conditions` | evaluation of a condition list | |
| `PullPoint` | the ONVIF query behind some conditions and actions | |
| `ModbusPool` | connections, requests and late answers | |
| `AlertStream` | accept thread, client threads, broadcasts | |
| `MCServices` | seven services that share no state, in one specification | `MCScheduler`, `EventLog`, `Variables`, `Conditions`, `PullPoint`, `ModbusPool`, `Outputs` |
| `ServicesProofs` | theorems about the services that talk to others | `AlertStream`, `ModbusPool`, `PullPoint` |
| `EngineProofs` | theorems about the services inside the engine | `EventLog`, `Conditions`, `Scheduler`, `Variables`, `Outputs` |

`MCServices` picks one service per behaviour (`side`) and lets the others stand
still. The services have no variable in common, so nothing is lost: a behaviour
of the process restricted to one of them is a behaviour of that side.

Operators called "Mutant" in their comment are wrong variants of the definition
that follows them; replacing the definition by its mutant must break the
property that `PROJECT.json` pairs them with. Properties that are conjunctions
(`LimitsKept`, `SubsRight`, `FileRight`, `BrokerRight`, `LitPortsTended`,
`OwnersServed`, `HostNotMisled`, `ListsKept`, `WorkEnds`, `JournalKept`,
`ScheduleKept`) have named parts, each with its own comment. `TypeOK` documents
the variables of a module. It is a theorem wherever a module with proofs states it, and
part of the inductive invariant in the other proofs; elsewhere it holds on the instances
of section 3 (`INVARIANT TypeOK`), and no run of its own is spent on it.

### RuleGate

State: the fields of `struct Rule` that `on_trigger_fired` and
`RuleEngine_Tick` read and write, under names close to the source's; the rule's
configuration (`rule`), which a save may replace; the activity of its
subscriptions (`active`) and the configuration they were set up from (`live`),
which lags behind a save until the idle job runs; the clock in seconds.

`on_trigger_fired` is one disjunction, one disjunct per return of the function:
`RefusedEarly` (trigger logic or cooldown), `RefusedByLimit`,
`RefusedByConditions`, `Execute`. Each says which traces it leaves. The call is
atomic because the code holds `store_lock` from the first gate to the update of
the counters. Tick is two actions, `TickWindow` under the lock and `TickRefire`
after the unlock, and webhooks can come between them from the FastCGI thread. Triggers
are numbered; AND looks at those before `MAX_TRIGGERS_PER_RULE` only (`Tracked`), AND_ACTIVE
at every subscription.
`SetEnabled`, `Update` and `RunJob` are separate because the subscription job
runs later on the main loop. `Restart` reloads the rule.

Conditions are Boolean values that change at any time; expensive ones count as
passed in the lightweight evaluation, as in `conditions.c`. `RuleEngine_Fire`
(manual fire) bypasses all gates and touches none of this state, so it is not
an action.

History variables: `hist` (one record per firing), `since`, `sinceSave`, `owed`.

### RuleStore

State: `store` (rules[] by id, with the number of the save their triggers come
from), `file` (absent, truncated or readable), what each thread is doing
(`pc`, `todo`), the GLib idle queue, and the version every rule is subscribed
with in `triggers.c`.

An operation is three steps: the change and the truncation of the file under
`store_lock` (`Begin`), the end of the save and the unlock (`SaveDone`), and
`g_idle_add` of its job (`Queue`). `RunJob` is `do_subscribe` or
`do_unsubscribe` on the main loop. `Crash` can come anywhere; `SaveDone` can
fail; `RuleEngine_Cleanup` empties the store at shutdown and `Exit` cancels the
FastCGI thread wherever it is. `Actions_IoFlash_Stop_Rule`, which the
operations also call, is in `IoFlash`.

### MqttSession

The worker's program counter follows `worker_fn`: copy the settings, pick the
broker, drain the wake pipe, connect, shake hands, receive; or wait, sleep,
stop. `Reconfigure` and `ReconfigureWakes` are the two halves of
`MQTT_Reconfigure` on another thread, `ReconfigureKeepalive` is the branch in which only
the keepalive differs: the settings are copied, the index is not reset, nobody is woken. The unlocked read-modify-write of
`server_index` on the handshake-failure path is two actions
(`HandshakeFails`, `HandshakeBumps`). Brokers are down, refuse the MQTT
handshake, or are up, and may change.

### MqttTraffic

`refs` is the subscription table with its reference counts, `holds` what each
owner asked for (rules on the main loop, Sparkplug on the FastCGI thread),
`inflight` the QoS 1 table. `MQTT_Subscribe` and `MQTT_Unsubscribe` change the
table under `sub_lock`; reading the socket (`ReadSocket`) and sending
(`SendSub`) are later steps, on a descriptor that may have been closed and may by then be
that of the next session. Only two threads that are at work on one filter at once excuse
it (`raced`). The
worker restores the table after a connect (`LockTable`, `RestoreOne`,
`Restored`), publishes the birth, clears the in-flight table when the session
ends. `inflight_retransmit` resends what is due and gives up after
`MaxRetries`; `inflight_ack` frees every entry with the acknowledged id. Packet
ids wrap and are taken without a look at the table, as in the code. The broker
handles packets when it likes; what it has not handled when the session ends is
lost.

### Sparkplug

`node` is what `spb_lock` guards (settings, host state, birth flag, seq,
history). The worker's callbacks are `Preconnect` and `SendConnect` (bdSeq is
advanced, saved and put in the will), `Connack`, `ConnectedCallback` (birth and
replay), `Break`, `DisconnectedCallback`; `Sample` and `Publish` are the two looks
of `Sparkplug_Publish` at the connection; `Configure`, `ClearWill`, `Unbirth`,
`Reconnect` and `RebirthNow` the steps of a change of settings. `view` and
`faults` are the host of `src/tools/sparkplug_host.py` with the complaints it
would make; `unsettled` marks the time between a change of settings and the birth that
announces it. `flush_history` goes through the buffer by position, because two
samples of one metric may wait in it.

### TriggerTable

`subs` is the table in its order, because unsubscribing moves the last entry
into the hole (`Without`) while a webhook walks by index (`WebhookStep`).
`Occur` and `Deliver` are a device event and the callback of each copy of it;
`OnInput`, `OnString`, `OnValue`, `OnEvent` are the branches of the callback with edges,
string filters, thresholds and hold times; an event may lack the number a threshold asks
for, which resets latch and hold time and undoes nothing; `Message` stands for MQTT, Sparkplug and rule-fired
triggers; `TableTick` runs hold times, counters and the Modbus poll. Whatever the
callbacks decide, `Serve` carries out in the order of the table: an entry undoes the
effects of its rule (`Undo`, `Actions_Stop_Active_Siren`), then fires (`StartRule`,
whose effects `while_active_register` remembers). The copies of events on their way
are a set; each carries its event's number and its subscription, and `Deliver` takes
the least. The history `seen`, `fired`, `wrong` says on which occurrences a rule ought
to have fired, computed from the trigger's description and not from the table. A walk
owes the triggers that keep their places while other rules come and go (`WalkIn`). The
loops are recursive functions over the number of turns, so that they can be reasoned
about one turn at a time.

### IoFlash

A thread's step is one critical section of `io_flash_lock` (up to the unlock or
the `g_cond_wait`) or one request to the camera. That is the granularity of the
code: the run table is only touched under the lock, requests are only sent
without it. `worker` is indexed by generation, so a worker that outlives its run
is there and finds a stranger in its slot. `ScanWaits` is
`io_flash_end_locked` meeting a busy run, `ScanDone` the end of the scan, with
the insertion of a new run for a flash. The worker takes `store_lock` inside
`io_flash_lock` (`RuleEngine_IsEnabled`); no caller holds `store_lock` when it
goes for `io_flash_lock` (`rule_engine.c:544-550, 567-570, 597-605`), so the read
is part of the critical section. `delayed` is a sequence, because two delay timers may
carry the same flash. On and off times are left out.

### Outputs

`pending` is `io_out_pending`, `lone` the timers that found no slot, `wa` the
while-active entries of this type, `sequence` what the camera itself will do to
a port. A call goes through `action_io_output` (which states are held),
`io_output_current_states`, `io_out_pending_claim`, `CancelSequence`,
`PostOutput`, and `io_out_pending_add` or `while_active_register`. The camera ends
sequences (`SequenceEnds`), timers restore (`io_out_pending_cb`, `io_out_lone_cb`,
`io_output_post_restore`), a trigger that clears undoes (`UndoOutputs`, `while_active_undo`,
`RemoveEntry`). Both threads run actions of all three kinds: webhooks and manual fire
execute rules on the FastCGI thread. `while_active_entries` has no lock: a thread that reads
or changes it while the other one is about to (`TableBusy`) may read anything and lose a
change, and excuses the ports concerned. An undo removes what is at its index after its
request, also an entry that was renewed meanwhile. `base` is
the state a port had before the first action that holds it. A request may fail
and may have taken effect all the same. A request of `CancelSequence` that fails
spoils its port as well: the sequence then runs on without an entry, the next call takes
the port for one that nobody holds, and reads the state the sequence has set. It takes one
call more than the run has; looking for the inductive invariant showed it.

### ActionHandlers and ActionRunner

`ActionHandlers` has one operator per handler: which settings it insists on, what
counts as an answer, whether a failure is recorded as an action error and
whether `on_failure` runs. `ActionRunner` is `execute_from_ex`: `stack` holds the
calls on each thread's stack, `timers` what `delay_resume` and
`alpv_retry_resume` will continue, `cur` and `gerr` the globals
`g_current_rule_id` and `g_action_error`, which every list shares. A list's step
is one action of it (`DoDelay`, `DoRequest`, `DoAlpv`, `DoRunRule`,
`DoSetRuleEnabled`, `DoQuery`, `DoDigest`, `Return`), so the two threads
interleave between actions. A pointer to a rule id whose owner has returned may
name any rule. `Actions` and `Lists` are the actions and lists of the parsed rules,
which are trees: `Lists[r]` holds the rule's list and, however deep, the `on_failure`
lists in it. `calls` bounds the firings and tests from outside; what `run_rule` fires is
not bounded. `RuleEngine_Fire` takes disabled rules too. A digest's delivery runs outside
any list; its errors go to whatever rule the global names. The history `runs` has one record per firing: its rule, the actions done in
their order with the trigger data they saw, and the requests that failed.

### Scheduler

`Scheduler_Tick(t)` goes through the table with the time it sees; `Tick` moves
the clock by up to `MaxGap` seconds (a busy main loop), `SetBack` sets it back.
`Cron`, `Interval`, `Daily`, `Astronomical` are the branches of the tick, `NewDay`
and `OnceInWindow` the day bookkeeping the last two share. A day is three
minutes of two seconds, which keeps the code's comparisons and makes days,
minutes and window ends meet often.

### EventLog and BoundedLog

The ring (`logEntries`, `head`, `count`) with the code's index arithmetic, the dirty
flag, the tick's counter, and the file. `EventLog_Clear` and the `EventLog_Persist`
that follows it in the HTTP handler are two steps, because the main loop may
append or save in between. `WriteFile` is `ACAP_FILE_Write`: it may fail with the file
untouched or empty, and `EventLog_Persist` takes it for done all the same. `LogKeepsPromise` maps the ring to the sequence it
shows (`Shown`) and states that every step is a step of `BoundedLog` or a
stutter. No stop saves the log, so stop and crash are one action.

### Variables, Conditions, PullPoint, ModbusPool

`Variables`: a slot has a text and a number; the text of a counter is printed with
six digits (`Printed`), names are cut (`Stored`), deleting moves the last slot. The
history `want` is what a reader should see.

`Conditions`: one step per condition, with an answer from the environment
(`EvalCondition`), the skip of expensive ones (`EvalSkips`) and the early returns
of AND and OR. `EvaluatedRight` compares the result with `Met`, which is written from the
documentation of each condition (`README.md:133-141`, `AI_RULE_GUIDE.md:412-600`,
`docs/help.html:586-673`) and not from the code: its operators, defaults, and what a
missing key or value means. `Departs` names the cases in which the code does something
else; section 3 lists them. Texts are compared in an order of their own
(`TextOrder`), in which 20 is less than 9, as for `strcmp`. `AnyStatus` is the -1 of
`cond_http_check`, for a status that is not asked for. A text contains itself only, so
the search of `contains` is that of equality; the expansion of `{{...}}` in expected values
is left out.

`PullPoint`: create, pull up to `MaxPulls` times, unsubscribe; the device reports
its states in its own time, and every call may fail before or after it took
effect. The three copies of this query in the code have the same steps.

`ModbusPool`: a request is written to `wire`, answered into `inbox`, read by
whoever reads next; the mutex is held from sending to the answer or the timeout,
and released before the connection of a failed request is invalidated.

### AlertStream

One step per section under `clients_lock`, one per socket call. `streamer` says
where each slot's thread is; `Occupy` is the new use of a slot, `AllWoken` the
condition broadcast. Peers connect, ask, stall and go away at any time.

## 3. Runs

| Run | Instance | Shows |
|---|---|---|
| `gate` | 4 rule configurations, 3 triggers of which 2 are tracked, 2 conditions, 5 s, 3 firings, 1 save, 1 restart | cooldown, rate and lifetime limits, AND correlation, memory of a blocked trigger |
| `store` | 3 ids in a table of 2, both threads, 4 operations, 1 crash or failed write | no orphaned or stale subscriptions, file and memory agree, acknowledged changes survive, subscriptions follow the store unless two changes raced, every enabled rule is subscribed in the end |
| `mqtt_session` | 3 brokers, 1 change of settings, 1 of the keepalive, 1 broker change, 1 lost connection | index bounds and primary first, no reconnect request lost except the one finding, fail-over, stop |
| `mqtt_traffic` | 3 owners on 2 threads, 2 filters in a table of 1, 2 in-flight slots, 3 packet ids, 1 retry, 3 calls, 2 sessions; filters are symmetric | the broker serves the wanted filters, QoS 1 is delivered or excused, nothing of an old session is resent |
| `sparkplug` | 4 settings, seq modulo 3, a history of 1, 1 change of settings, 2 samples, 2 sessions, 1 crash, 1 host message | the validating host has no complaint that a change of settings does not explain, bdSeq is fresh, accepted samples are kept, none is stranded |
| `triggers` | 4 rules with all kinds of triggers, 5 events, 3 events and 3 jobs but 4 in all, 3 s, a table of 8 and 2 while-active entries | the table serves its rules under compaction, firings are right, effects end if they can be undone |
| `io_flash` | 2 slots, 2 ports, 3 flashes of which 2 are carried out, 1 other operation, 1 failure | lit ports are tended by somebody, takeover is exclusive unless two threads overlap |
| `io_flash_ends` | 1 slot, the same flashes, no failure | every operation returns, every bounded run ends |
| `actions` | 3 rules, 2 tests, 2 firings, 2 image attempts, 1 digest buffer of 2 lines | lists run in order and completely with their data; errors and verdicts are right unless mixed |
| `services` | see `Services.cfg`; seven sides | schedules, log and its refinement, variables, conditions, queries, Modbus answers, output ports |
| `alert_stream` | 3 connections, 2 slots, 2 events | order, no foreign events, the newest event reaches every reader |
| `scheduler_cron` | the schedules of `services` | violation: a daily cron entry fires on the first day only |

Why the bounds are enough for the interesting cases: `gate` needs two periods
of two seconds and one more firing for the rate bound, two triggers for
correlation, a closing and a reopening for the window memory, and a save between
any two of these. `store` needs three operations for a race of two threads on
one rule and a fourth to heal or hide it, one id more than the table has room
for, and one fault. `mqtt_session` needs three brokers for an index that can be
stale, out of range and wrapped. `mqtt_traffic` needs a table too small for the
filters, one owner more than that, ids that wrap within one session and a second
session that meets what the first left behind. `sparkplug` needs a change
between buffering and replay, a break inside a publish, a wrap of seq and a
restart between sessions. `triggers` needs two rules subscribed and a third job
that moves an entry of one into the hole the other leaves, under a webhook's walk; and, for
another order, three events: a threshold passed, missed and passed within a hold time. `io_flash` needs two runs that conflict
and a third party that ends one while its request is in flight. `actions` needs
two lists on two threads, one of them run by the other's rule. In `services` the
clock passes three days, the log ring wraps, the variable table fills, a query
fails at every call, both threads use one connection, and three output actions
overlap on two ports. `alert_stream` needs one listener more than slots, for
reuse. The mutants show that each property can fail within these bounds.

Deadlock is checked in `gate`, where TLC always finds a step, and in `store`. In
the other runs the system may come to rest (a stopped worker stays stopped, all
calls the bounds allow are made); there `StopEnds`, `OpsReturn`, `WorkEnds` and
`NewestReaches` say that nobody hangs.

### Findings: what the code does against what is written

One finding has a run of its own, `scheduler_cron` (`Served`): `cron_last_min`
is a minute of the day and survives midnight, so an entry that matches one minute
a day finds "already fired" on the second day (`scheduler.c:355`), against
`docs/help.html:509` "every weekday at 08:00".

The others are the exceptions that the passing properties name. Each property
says exactly when the promise holds; dropping the exception makes TLC show the
behaviour.

| Where | What happens | Property with the exception |
|---|---|---|
| `rule_engine.c:154`, README:259 | the lifetime limit counts per process, not in total | `LimitsKept` |
| `rule_engine.c:142` | triggers beyond the 16th are not waited for by AND | `AndCorrelated` |
| `rule_engine.c:511` | between a save and its subscription job, an occurrence of the old triggers counts for the new one of the same number | `AndCorrelated` |
| `rule_engine.c:261` | an occurrence blocked by a closed window before the first Tick after a load is not remembered | `BlockedRemembered` |
| `rule_engine.c:597` | two threads can queue subscription jobs in the reverse order of their changes; a rule stays enabled without subscriptions | `SubsFollowUnlessRaced` |
| `rule_engine.c:393`, `main.c:1777` | a request during shutdown can overwrite rules.json with an almost empty store | `FileRight` |
| `mqtt_client.c:773` | the wake byte of a settings change between copy and drain is thrown away; the old settings stay in use | `StaleOnlyIfDrained` |
| `mqtt_client.c:1011`, README:435, `docs/help.html:1169` | "a settings change always restarts from the primary": a change of the keepalive alone does not, and a connected worker goes on with the old value | `StaleOnlyIfDrained`, `BrokerRight` |
| `mqtt_client.c:691` | settings that change during a failing attempt start with a backup broker | `BrokerRight` |
| `mqtt_client.c:1128` | SUBSCRIBE and UNSUBSCRIBE of two threads can leave in the reverse order of the table's changes | `OwnersServed` |
| `triggers.c:390` | an owner that the full table refused releases another owner's filter | `OwnersServed` |
| `mqtt_client.c:810`, `mqtt_client.h:43` | another thread can publish before the birth, because the session counts as connected before its callback has run | none; `MqttTraffic` has the order |
| `sparkplug.c:701` | a sample is reported accepted but was neither sent nor buffered | `AcceptedKeptUnlessSlipped` |
| `sparkplug.c:309` | samples buffered before a change of the metric list are replayed as samples of other metrics | `HostNotMisled` |
| `actions.c:1906` | two threads starting flashes on one port can leave both running | `TakeoverUnlessOverlap` |
| `actions.c:3892` | an unlimited flash behind a delay starts after its rule was deleted and never ends | `BoundedRunsEnd` |
| `actions.c:158`, `165` | a second while-active effect of one type takes the first one's entry; with a full table there is none | `EffectsEndIfUndoable`, `PortsReturn` |
| `triggers.c:591`, `docs/help.html:1063` | while-active effects of I/O edge triggers are never undone | `EffectsEndIfUndoable` |
| `triggers.c:638` | a trigger without a filter fires on the event with `active` false that has just undone its effects, and starts them again | `EffectsEndIfUndoable` |
| `triggers.c:609` | an event without the number resets the latch of a threshold and leaves its effects on | `EffectsEndIfUndoable` |
| `triggers.c:566` | effects of a trigger with a string filter are never undone | `EffectsEndIfUndoable` |
| `triggers.c:653` | a webhook can miss an entry that is moved, or meet a rule's entries twice that is subscribed anew | `FiringsRight` |
| `actions.c:241` | an undo removes an entry that the other thread has renewed during the request; the table has no lock | `PortsReturn` |
| `actions.c:3990` | errors of a digest's delivery go to whatever rule acted last | `ErrorsOwnUnlessMixed` |
| `event_log.c:189` | a save that fails is not repeated until something new is logged; after a restart its entries are gone and cleared ones may be back | `JournalKept`, `LogKeepsPromise` |
| `actions.c:27` | errors and test verdicts can belong to another list | `ErrorsOwnUnlessMixed`, `VerdictsRightUnlessCrossed` |
| `modbus_pool.c:292` | another thread can read a late answer before a failed connection is invalidated | `AlignedUnlessFailing` |

Where the conditions differ from their documentation (`Departs`):

| Condition | Documentation | Code |
|---|---|---|
| time_window | an empty list of days is every day (`help.html:593`) | no day (`conditions.c:76`) |
| day_night | a state is required (`AI_RULE_GUIDE.md:571`) | "day" if there is none (`conditions.c:101`) |
| counter | keys `counter_name` and `threshold` (`AI_RULE_GUIDE.md:459`) | `name` and `value` (`conditions.c:280`) |
| variable_compare, trigger_data | the operator is `eq` by default (`AI_RULE_GUIDE.md:477`, `498`) | not met without one (`conditions.c:765`, `875`) |
| variable_compare | `neq`; gt and lt compare numbers (`AI_RULE_GUIDE.md:477`, `478`) | `ne`; all operators compare texts (`variables.c:156`) |
| http_check | status 200 by default (`AI_RULE_GUIDE.md:524`) | any status (`conditions.c:686`); nothing is looked for in an empty body (`687`, `692`) |
| vapix_event_state | | a Boolean is "1" or "0" for `eq_str`, a number for numeric operators, nothing for `contains`; whatever is no Boolean is false (`conditions.c:222-262`) |

Known and not covered by a property:

- Order and shutdown: `Actions_IoFlash_Stop_All` runs before the FastCGI thread is
  cancelled (`main.c:1775`); a timed output claims the restores it replaces before
  its own request can fail (`actions.c:2413`, excused in `PortsReturn`);
  `AlertStream_Cleanup` cancels an accept thread that may never have been created
  (`alert_stream.c:287`); the header read of a stream client blocks further
  accepts (`alert_stream.c:179`); PINGREQ is sent without `send_lock`.
- Rules: `run_rule` cycles recurse and ignore the limits (`actions.c:3303`);
  delayed actions of disabled and deleted rules run; a digest buffer keeps the
  settings of its first line and has no lock (`actions.c:3938`).
- Limits and time: the Modbus pool never evicts (`modbus_pool.c:388`) and a write
  ignores exception replies (`modbus_pool.c:317`); a query may block the main loop
  for minutes; a clock set back shifts cooldowns.
- Results that nobody looks at: writes of variables and settings, error answers to chat webhooks; error
  marks are lost with a restart and go to the newest entry of the rule
  (`event_log.c:85`); the log is not saved at shutdown.
- Documentation: the FTP fallback of README:160 is not in the code; README:418
  speaks of QoS 1 births, the code sends them with QoS 0.

### Fairness

- `RuleStore`: weak fairness of the save, of queueing the job and of the main
  loop's jobs. A thread inside an operation holds no resource anyone can keep
  from it, and GLib dispatches idle sources when nothing else is pending. No
  operation, crash or shutdown is assumed to happen.
- `MqttSession`: weak fairness of the worker and of the thread inside
  `MQTT_Reconfigure`. Every wait of the worker has a timeout or ends on the
  shutdown pipe. Nothing is assumed of brokers, connections or settings;
  `FailOver` itself says which brokers stay up.
- `IoFlash` (`io_flash_ends`): weak fairness of the threads inside an operation,
  of each worker, and of time. Requests have timeouts and the lock is held
  briefly. No wake-up is assumed: a sleeping thread goes on only after a
  broadcast.
- `ActionRunner`: weak fairness of both threads' steps (requests have timeouts), of
  due timers, of time and of the digest tick, which the main loop runs every
  second.
- `AlertStream`: weak fairness of the accept thread and of each client thread. A
  send to a peer that does not read is not enabled, so nothing is assumed of
  peers.

## 4. Proofs

All parameters are arbitrary: any rules, limits, schedules, conditions and settings, any
size of the tables and rings, any number of calls, sessions, failures and crashes.

| Theorem | Statement |
|---|---|
| `RuleGateProofs!TypeCorrect` | `Spec => []TypeOK` |
| `RuleGateProofs!CooldownHolds` | `Spec => []CooldownKept` |
| `RuleGateProofs!RateHolds`, `LifetimeHolds`, `LimitsHold` | `Spec => []RateBounded`, `Spec => []LifetimeCap`, and `Spec => []LimitsKept` from both |
| `RuleGateProofs!AndHolds` | `Spec => []AndCorrelated` |
| `RuleGateProofs!WindowHolds` | `Spec => []BlockedRemembered` |
| `SubscriptionProofs!TypeCorrect` | `Spec => []TypeOK`, including the table bound |
| `SubscriptionProofs!NoOrphans`, `NoStale`, `SubsHold` | `Spec => []NoOrphanSubs`, `Spec => []NoStaleSubs`, and `Spec => []SubsRight` from both |
| `SubscriptionProofs!FollowsHolds` | `Spec => []SubsFollowUnlessRaced` |
| `SubscriptionProofs!FileMatches`, `AckedHolds`, `FileHolds` | `Spec => []FileMatchesStore`, `Spec => []AckedSurvives`, and `Spec => []FileRight` from both |
| `SubscriptionProofs!TableTyped` | `TableSpec => []TableTypes`, including the bounds of both tables |
| `SubscriptionProofs!ServesRules` | `TableSpec => []TableServesRules` |
| `SubscriptionProofs!FireRight` | `TableSpec => []FiringsRight` |
| `SubscriptionProofs!EffectsEnd` | `TableSpec => []EffectsEndIfUndoable` |
| `MqttProofs!SessionTyped` | `SessionSpec => []SessionTypes` |
| `MqttProofs!IndexHolds`, `PrimaryHolds`, `BrokerHolds` | the parts of `BrokerRight`, and `SessionSpec => []BrokerRight` |
| `MqttProofs!StaleHolds` | `SessionSpec => []StaleOnlyIfDrained` |
| `MqttProofs!Typed`, `OwnSession` | `Spec => []TypeOK`, `Spec => []InflightOfSession` |
| `MqttProofs!NotLost` | `Spec => []AtLeastOnce` |
| `MqttProofs!Serves` | `Spec => []OwnersServed` |
| `SparkplugProofs!Typed`, `HostTrusts` | `Spec => []TypeOK`, `Spec => []HostNotMisled` |
| `SparkplugProofs!NotStranded`, `AcceptedKept` | `Spec => []NothingStranded`, `Spec => []AcceptedKeptUnlessSlipped` |
| `IoFlashProofs!Typed`, `Tended`, `TakesOver` | `Spec => []TypeOK`, `Spec => []LitPortsTended`, `Spec => []TakeoverUnlessOverlap` |
| `ActionRunnerProofs!ActionTypes` | `Spec => []TypeOK`, including the bounds of the digest table |
| `ActionRunnerProofs!ListsInOrder` | `Spec => []ListsKept` |
| `ActionRunnerProofs!ErrorsOwn`, `VerdictsRight` | `Spec => []ErrorsOwnUnlessMixed`, `Spec => []VerdictsRightUnlessCrossed` |
| `ServicesProofs!StreamOrdered` | `AsSpec => []StreamInOrder` |
| `ServicesProofs!PoolAligned` | `MbSpec => []AlignedUnlessFailing` |
| `ServicesProofs!Returned`, `Fresher` | `PpSpec => []SubscriptionsReturned`, `PpSpec => []AnswerFresh` |
| `EngineProofs!LogPromised` | `LogSpec => LogKeepsPromise`: the ring implements `BoundedLog` |
| `EngineProofs!JournalHolds` | `LogSpec => []JournalKept` |
| `EngineProofs!EvaluationRight` | `CondSpec => []EvaluatedRight` |
| `EngineProofs!SchedulesServed` | `Spec => []ScheduleKept` of `Scheduler` |
| `EngineProofs!VariablesRight` | `VarSpec => []VarsFaithful` |
| `EngineProofs!PortsGoBack` | `OutSpec => []PortsReturn` |

The theorems of a service are about its own specification. `MCServices` only lets one
service move at a time, so they hold there too.

Assumptions: only the named `ASSUME`s of the modules. Most give the constants their types.
Those that say more, and why the code justifies it:

- `SchedulerParams`: masks, times and offsets are in range, as `Scheduler_Register` makes
  them; a computed sun time is a second of the day or -1 (`compute_solar_event`); a tick
  comes less than a day after the one before. `MaxTime` covers a day.
- `CondParams`: each condition has one of the listed types, a time window lies in the day,
  numbers are not negative, and the value a comparison expects is a text or left out (the
  handlers read it with `cJSON_GetStringValue`).
- `ParamsOK` (gate): the triggers of a rule are numbered from 0 without a gap.
- `VarNames`: a name is too long or it is not, and the cut form of the long name is no
  other name of the instance.
- `NodeParams`: the metrics of one list have different names.
- `ProgramParams`: a tag names one action of a rule, and an `on_failure` list belongs to one
  action and is not the rule's own list. Lists are arrays of one parsed JSON document, so no
  two actions share one; the tag stands for the place of an action in it. `ActionParams`
  gives the actions' fields their types.
- `TrafficParams`, `OutputParams`: finitely many filters, owners and ports.
- `TriggerParams`: a trigger has one of the listed types (of the filters at most one, as the
  rule editor writes them, `html/rule-editor.js:243`) and the fields of its type, as
  `Triggers_Subscribe_Rule` fills them in; `TableParams` gives events their fields' types.
- `StoreParams`, `SessionParams`, `FlashParams`, `StreamParams`, `PoolParams`, `PullParams`,
  `LogSizes`, `VarSizes`, `ParamsOK`: types, and tables with room for one entry where the
  code has that.

The arguments:

- **Gate.** The firing history is ordered in time and ends with `last_fired`, so
  the cooldown gate, which looks at the last firing only, bounds every pair.
  For the rate, each firing records the start of the period it was counted in;
  firings of one period number at most `max_executions`, periods are at least
  `max_exec_period` apart, and 2n+1 firings therefore touch three periods. For
  AND, a stamp is either 0 or was set after the last firing; `Execute` clears
  them. A re-save resets history and stamps together, which is what lets all
  this survive a change of configuration.
- **Store.** `NoOrphanSubs` and `NoStaleSubs` become inductive with two facts: a
  thread outside an operation has no job left to queue, and without a process
  there are no subscriptions. All four operations have one shape (`OpShape`).
  The file invariants need that at most one thread is saving and that the file
  is truncated while it does. For `SubsFollowUnlessRaced`, the last job queued for a rule,
  or the one a thread is about to queue, carries the rule's latest change.
- **Subscription table.** `TableInv` says what an entry is (a trigger or query of its rule,
  with an id the event service gave out, `ListOk`), that what is on its way is one copy
  per entry of an event of its topic on which the entry has not fired (`QueueOk`), that the
  latch and the hold time of an entry agree with what its trigger has seen (`SeenOk`), that
  the entries a walk still owes are ahead of it, and none ahead has been met (`WalkOk`), and that a rule whose trigger has cleared has no entry left for an effect
  that is on (`EffectsOk`). A loop (`Without`, `StartRule`, `Serve`) keeps a fact that
  holds before its first turn and survives a turn. The first version of
  `EffectsEndIfUndoable` was not invariant for triggers without a filter; the proof
  showed it, and the exception in section 3 is the result.
- **MQTT session.** The stale-settings invariant needs, for every position of the
  worker, where a superseded copy comes from: a change after the copy leaves a
  wake byte, a pending wake-up, or the `drained` mark, or it is of the keepalive only. The primary-first
  invariant needs that the index stays 0 from a change until an attempt begins.
- **MQTT traffic.** A slot in use is of the running session, because the worker
  clears the table between sessions and nobody sends without one (`LinkRight`,
  `SlotRight`). For `AtLeastOnce` a published message is delivered, excused or in a slot
  (`Accounted`), and whatever a PUBACK for the slot's packet id acknowledges, now or later,
  is that slot's message (`Match`). For `OwnersServed`: a thread at work on a filter is the
  only one, does what the table asks for and sends in the session that is on; with nobody
  at work on it the filter is served exactly if it is in the table, or about to be
  restored (`WorkRight`, `ServedRight`).
- **Sparkplug.** While settings are as they were at the last birth, the will of the session
  (or the one the next CONNECT takes) and the birth the host has are about the node as it
  is (`HostRight`). `BdSeqRight`: the number is counted and saved before a CONNECT carries
  it, so unless a crash cuts the file short no session used it. A node at rest with a
  connection has had its birth, and with the host online its replay (`SettledRight`,
  `BufferRight`). An accepted sample is delivered, in the buffer, pushed out of it, or
  slipped, and between the two looks of `Sparkplug_Publish` a buffered one is still there
  (`HeldRight`).
- **I/O flash.** Generations are unique (`GensRight`), so a worker finds its own run or sees
  that it is gone. A run with a request in flight is busy and has one owner
  (`OwnersRight`); a run that is stopped has a thread waiting for it, any other has a driver
  (`DrivenRight`). A run whose final all-off is out keeps no port any more (`LitRight`). For
  the takeover, while the threads have taken turns, nothing that a scan has passed is in its
  way (`Passed`), an I/O Output action comes to a port without runs (`PostFree`), and only a
  run before its first edge is on a port that such an action has set (`SetFree`). A refresh
  keeps the length of the port list, and with it the worker's index.
- **Action executor.** For the globals: a call that nothing has disturbed has its own rule
  id in `g_current_rule_id` and, if it is a test, its own error in `g_action_error`; while
  both threads are busy every call counts as disturbed (`FramesRight`). For the lists:
  whatever a stack or a timer holds of a firing is the rest of one list of its rule, of
  which exactly the actions before are done, with no more trigger data than the holder has;
  if it is an `on_failure` list its request has failed; and no action is the next one in two
  places (`Orderly`). A list under an `on_failure` list gets that list's data when it
  returns, so it must not have more before (`DataShared`). Each action of the executor is
  one of four moves on what is held: to act, to act and add a fallback, to begin a firing,
  to rearrange.
- **Alert stream.** A connection is at one place at a time (`WaitingRight`, `SlotsRight`),
  and what is pending in a slot is newer than what its client was sent (`OrderRight`).
- **Modbus pool.** The thread whose request is under way holds the mutex (`MutexRight`); on
  a connection that no failed call is about to drop, one answer at most is under way, that
  of the request being made (`AlignedAt`).
- **Pull point.** A subscription the device still has is the running query's or excused, its
  messages are states since it was made, and a query that ends without an answer has had a
  failure, two empty pulls or all its pulls (`QueryInv`).
- **Event log.** The ring is read through `At(head, i)`; the arithmetic of the index gives
  that appending shifts every position by one, and the refinement follows step by step.
  The order in which the file is written is a strict total order of the entries, so the
  ascending sequence is unique. `PurgedRight` says that no id from before a clear is left
  in the ring or comes back from the file, `SavedRight` how far the file lags behind while the last save worked.
- **Conditions.** `WalkRight`: while the walk goes on none of the answers has decided the
  list, and when it is done either one has or all conditions were asked. `WindowRight` is
  the arithmetic of time windows that wrap at midnight.
- **Scheduler.** `Remembers` says what the last minute, the last run and the day latch of
  an entry know of its history, per type, also after the clock was set back; the
  rest is the arithmetic of days and seconds between two ticks (`NextTick`).
- **Variables.** Exactly one slot per wanted short name, the file mirrors what was wanted
  at the last save, and a difference is a counter with too many digits (`VarsRight`). The
  load is a recursive function; its facts are shown by taking the first item at which
  they would fail.
- **Outputs.** `PortsRight`: a port without an excuse belongs to one call and to one entry
  at most; every entry, call and sequence that will change it back gives it the state
  `base`; a sequence that runs has its entry, or a call has just claimed it and cancels or
  replaces it.

Only model-checked:

- All liveness (`EnabledGetsSubscribed`, `FailOver`, `StopEnds`, `OpsReturn`,
  `BoundedRunsEnd`, `WorkEnds`, `NewestReaches`), which is out of the prover's reach, as
  is ENABLED.
- What a recursive definition computes in general: induction over data is beyond the
  installed provers.

## 5. Where to go on

Every invariant and every action property that a run checks is a theorem. What could
still be added:

1. The timers that end recordings, overlays and light effects, as instances of one
   module (section 6).
2. One specification of `RuleStore` over `TriggerTable`: a job of the store is a
   `Subscribe` or `Unsubscribe` of the table. Today the two meet only in the job's meaning.
3. More than one device for `Outputs`.

## 6. Not modelled

- Vendored code (`cJSON.c`), the web interface, tools, documentation.
- Byte layouts: MQTT packets, Modbus frames, the Sparkplug protobuf encoder (which
  has its own test program), HTTP headers, and the text of payloads.
- The timers that end recordings, overlays and light effects (`actions.c` 73-129,
  1251-1692, 3692-3808): each is a single timer with its own handle.
- Request parsing and validation of the HTTP API, and the ACAP wrapper apart from
  the file write and the thread's cancellation.
- Clock jumps outside `Scheduler`: the clock of `RuleGate` only moves forward.
- Of the Modbus pool: the register codecs and the release of all connections at
  shutdown; `serial_gateway` behaves as `tcp` there.
- Memory exhaustion.
