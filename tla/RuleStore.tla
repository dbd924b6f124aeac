------------------------------ MODULE RuleStore ------------------------------
(***************************************************************************)
(* The rule store of src/app/engine/rule_engine.c and the trigger          *)
(* subscriptions that follow it: create, update, delete, enable, the save  *)
(* to localdata/rules.json, start-up and shutdown.                         *)
(*                                                                         *)
(* Two threads change rules: the FastCGI thread ("http", the /rules        *)
(* endpoint) and the main loop ("main", the set_rule_enabled action).      *)
(* Each operation changes the store and writes the file under store_lock,  *)
(* releases the lock, and only then queues its subscription job with       *)
(* g_idle_add; the jobs run one by one on the main loop, in the order they *)
(* were queued.  A crash can come at any step, also between the truncation *)
(* of the file and its rewrite.  Shutdown empties the store on the main    *)
(* loop before the FastCGI thread is cancelled.                            *)
(***************************************************************************)
EXTENDS Naturals, Sequences, FiniteSets

CONSTANTS
  Ids,         \* rule ids
  MaxRules,    \* MAX_RULES
  Admins,      \* the threads that change rules
  MaxOps,      \* bound: operations on rules
  MaxFaults    \* bound: crashes and failed writes

ASSUME StoreParams ==
  /\ IsFiniteSet(Ids) /\ MaxRules \in Nat \ {0} /\ Admins \subseteq {"http", "main"}
  /\ MaxOps \in Nat /\ MaxFaults \in Nat

Threads == {"http", "main"}

\* A stored rule: enabled or not, and which save its triggers come from.
Rule   == [on : BOOLEAN, ver : Nat \ {0}]
NoRule == [on |-> FALSE, ver |-> 0]

Store == [Ids -> Rule \cup {NoRule}]
Empty == [i \in Ids |-> NoRule]

\* The file: absent, truncated by fopen("w") and not yet rewritten, or readable.
Missing   == [state |-> "missing", rules |-> Empty]
Truncated == [state |-> "truncated", rules |-> Empty]
Holding(s) == [state |-> "ok", rules |-> s]

Job   == [op : {"sub", "unsub"}, id : Ids]
NoJob == [op |-> "none"]

VARIABLES
  phase,    \* "boot", "run", "closing" (RuleEngine_Cleanup done) or "off"
  store,    \* rules[0 .. rule_count-1], by id
  file,     \* localdata/rules.json: its state and the rules it holds
  pc,       \* each thread: "idle", "saving" (holds store_lock) or "queueing"
  todo,     \* each thread: the job it queues after the unlock
  idle,     \* jobs queued with g_idle_add
  boot,     \* ids RuleEngine_Init has still to schedule
  subscribed, \* triggers.c: the version each rule is subscribed with, 0 = none
  ops,      \* operations so far; also the version of the next save
  faults,   \* crashes and failed writes so far (bound only)
  crashed,  \* history: the process did not end through Exit
  unsaved,  \* history: the last save failed
  acked,    \* history: the rules as the operations that completed left them
  late,     \* history: an operation was accepted after RuleEngine_Cleanup
  raced     \* history: rules whose last job belongs to a change that came before
            \* the job of another thread's change of the same rule was queued

volatile == <<store, pc, todo, idle, boot, subscribed>>
hist == <<crashed, unsaved, acked, late, raced>>
vars == <<phase, volatile, file, ops, faults, hist>>

Present(s) == {i \in Ids : s[i] # NoRule}
LockFree   == \A t \in Threads : pc[t] # "saving"

(***************************************************************************)
(* Operations.                                                             *)
(***************************************************************************)

\* Every operation starts on an idle thread with the lock free.  The main loop
\* runs it inside a callback, so not after the loop has ended.
CanStart(t) ==
  /\ t \in Admins /\ pc[t] = "idle" /\ LockFree
  /\ phase = "run" \/ (phase = "closing" /\ t = "http")
  /\ ops < MaxOps

\* Another thread has changed rule i and still has to queue its job.
Overlaps(t, i) == \E u \in Threads \ {t} : todo[u] # NoJob /\ todo[u].id = i

\* The part under store_lock up to the truncation of the file.
Begin(t, i, new, job) ==
  /\ store' = [store EXCEPT ![i] = new]
  /\ file' = Truncated
  /\ pc' = [pc EXCEPT ![t] = "saving"]
  /\ todo' = [todo EXCEPT ![t] = job]
  /\ ops' = ops + 1
  /\ late' = (late \/ phase = "closing")
  /\ raced' = IF Overlaps(t, i) THEN raced \cup {i}
              ELSE IF job = NoJob THEN raced ELSE raced \ {i}
  /\ UNCHANGED <<phase, idle, boot, subscribed, faults, crashed, unsaved, acked>>

Sub(i)   == [op |-> "sub", id |-> i]
Unsub(i) == [op |-> "unsub", id |-> i]

\* Mutant: the rule is subscribed again whatever the flag says.
JobWhateverFlag(i, on) == Sub(i)

\* The job that makes the subscriptions follow the enabled flag.
JobFor(i, on) == IF on THEN Sub(i) ELSE Unsub(i)

\* Mutant: one rule too many is accepted.
RoomForOneMore == Cardinality(Present(store)) <= MaxRules

\* rule_count < MAX_RULES.
HasRoom == Cardinality(Present(store)) < MaxRules

\* RuleEngine_Add: refused when the table is full or the id is taken.
RuleEngine_Add(i, on) ==
  /\ CanStart("http")
  /\ store[i] = NoRule /\ HasRoom
  /\ Begin("http", i, [on |-> on, ver |-> ops + 1], IF on THEN Sub(i) ELSE NoJob)

\* RuleEngine_Update: the whole rule is replaced, the id kept.
RuleEngine_Update(i, on) ==
  /\ CanStart("http") /\ store[i] # NoRule
  /\ Begin("http", i, [on |-> on, ver |-> ops + 1], JobFor(i, on))

\* Mutant: a deletion forgets to drop the subscriptions.
NoJobForDeleted(i) == NoJob

\* The job of a deletion.
JobForDeleted(i) == Unsub(i)

RuleEngine_Delete(i) ==
  /\ CanStart("http") /\ store[i] # NoRule
  /\ Begin("http", i, NoRule, JobForDeleted(i))

\* RuleEngine_SetEnabled, from either thread.
RuleEngine_SetEnabled(t, i, on) ==
  /\ CanStart(t) /\ store[i] # NoRule
  /\ Begin(t, i, [on |-> on, ver |-> store[i].ver], JobFor(i, on))

\* Mutant: the file gets the rules as they were before the operation.
WritesOld == acked

\* What rules_save_locked writes.
Written == store

\* rules_save_locked ends, store_lock is released.  A failed write (disk full)
\* leaves the truncated file behind; its result is ignored, the operation is
\* acknowledged and the next save writes the whole store again.
SaveDone(t) ==
  /\ pc[t] = "saving"
  /\ \/ file' = Holding(Written) /\ unsaved' = FALSE /\ faults' = faults
     \/ /\ faults < MaxFaults
        /\ file' = file /\ unsaved' = TRUE /\ faults' = faults + 1
  /\ pc' = [pc EXCEPT ![t] = "queueing"]
  /\ acked' = [i \in Ids |-> IF phase = "closing" /\ store[i] = NoRule
                             THEN acked[i] ELSE store[i]]
  /\ UNCHANGED <<phase, store, todo, idle, boot, subscribed, ops, crashed, late, raced>>

\* schedule_subscribe / schedule_unsubscribe: g_idle_add.
Queue(t) ==
  /\ pc[t] = "queueing"
  /\ idle' = IF todo[t] = NoJob THEN idle ELSE Append(idle, todo[t])
  /\ todo' = [todo EXCEPT ![t] = NoJob]
  /\ pc' = [pc EXCEPT ![t] = "idle"]
  /\ UNCHANGED <<phase, store, file, boot, subscribed, ops, faults, hist>>

(***************************************************************************)
(* The main loop's jobs.                                                   *)
(***************************************************************************)

\* Mutant: the job subscribes with the triggers of the oldest save.
OldestTriggers(i) == 1

\* The triggers do_subscribe reads: the rule's current ones, not the job's copy.
CurrentTriggers(i) == store[i].ver

\* Mutant: the job stays queued (G_SOURCE_CONTINUE) and runs forever.
JobsKept == idle

\* The queue after its first job has run: G_SOURCE_REMOVE.
JobsLeft == Tail(idle)

\* do_subscribe looks the rule up again, do_unsubscribe does not.
RunJob ==
  /\ phase = "run" /\ idle # <<>> /\ pc["main"] = "idle"
  /\ LET job == Head(idle) IN
       \/ /\ job.op = "sub" /\ LockFree
          /\ subscribed' = IF store[job.id] = NoRule THEN subscribed
                     ELSE [subscribed EXCEPT ![job.id] = CurrentTriggers(job.id)]
       \/ /\ job.op = "unsub"
          /\ subscribed' = [subscribed EXCEPT ![job.id] = 0]
  /\ idle' = JobsLeft
  /\ UNCHANGED <<phase, store, file, pc, todo, boot, ops, faults, hist>>

(***************************************************************************)
(* Start-up, shutdown, crash.                                              *)
(***************************************************************************)

NoSubs == [i \in Ids |-> 0]

\* RuleEngine_Init: a missing or unreadable file loads the (empty) defaults.
RuleEngine_Init ==
  /\ phase = "off"
  /\ phase' = "boot"
  /\ store' = file.rules
  /\ boot' = {i \in Ids : store'[i] # NoRule /\ store'[i].on}
  /\ acked' = store'
  /\ crashed' = FALSE /\ unsaved' = FALSE /\ late' = FALSE /\ raced' = {}
  /\ UNCHANGED <<file, pc, todo, idle, subscribed, ops, faults>>

\* Its loop over the enabled rules; the main loop runs once it is done.
ScheduleLoaded ==
  /\ phase = "boot"
  /\ \/ \E i \in boot : /\ idle' = Append(idle, Sub(i))
                        /\ boot' = boot \ {i}
                        /\ phase' = phase
     \/ boot = {} /\ phase' = "run" /\ UNCHANGED <<idle, boot>>
  /\ UNCHANGED <<store, file, pc, todo, subscribed, ops, faults, hist>>

\* Mutant: Cleanup does not wait for store_lock.
RuleEngine_CleanupUnlocked ==
  /\ phase = "run" /\ pc["main"] = "idle"
  /\ phase' = "closing"
  /\ store' = Empty /\ subscribed' = NoSubs
  /\ UNCHANGED <<file, pc, todo, idle, boot, ops, faults, hist>>

\* RuleEngine_Cleanup after the main loop has quit (SIGTERM).
RuleEngine_Cleanup ==
  /\ phase = "run" /\ pc["main"] = "idle" /\ LockFree
  /\ phase' = "closing"
  /\ store' = Empty /\ subscribed' = NoSubs
  /\ UNCHANGED <<file, pc, todo, idle, boot, ops, faults, hist>>

\* What is left when the process is gone.
Gone ==
  /\ phase' = "off"
  /\ store' = Empty /\ subscribed' = NoSubs /\ idle' = <<>> /\ boot' = {}
  /\ pc' = [t \in Threads |-> "idle"] /\ todo' = [t \in Threads |-> NoJob]
  /\ UNCHANGED <<file, ops, unsaved, acked, late, raced>>

\* ACAP_Cleanup cancels the FastCGI thread, also between the truncation and the
\* rewrite of the file (fputs and fclose are cancellation points); main returns.
Exit == phase = "closing" /\ Gone /\ UNCHANGED <<faults, crashed>>

\* SIGKILL or power loss.
Crash ==
  /\ phase # "off" /\ faults < MaxFaults
  /\ faults' = faults + 1 /\ crashed' = TRUE
  /\ Gone

Init ==
  /\ phase = "off" /\ store = Empty /\ file = Missing
  /\ pc = [t \in Threads |-> "idle"] /\ todo = [t \in Threads |-> NoJob]
  /\ idle = <<>> /\ boot = {} /\ subscribed = NoSubs
  /\ ops = 0 /\ faults = 0 /\ acked = Empty
  /\ crashed = FALSE /\ unsaved = FALSE /\ late = FALSE /\ raced = {}

Next ==
  \/ \E i \in Ids, on \in BOOLEAN : RuleEngine_Add(i, on)
  \/ \E i \in Ids, on \in BOOLEAN : RuleEngine_Update(i, on)
  \/ \E i \in Ids : RuleEngine_Delete(i)
  \/ \E t \in Admins, i \in Ids, on \in BOOLEAN : RuleEngine_SetEnabled(t, i, on)
  \/ \E t \in Threads : SaveDone(t)
  \/ \E t \in Threads : Queue(t)
  \/ RunJob
  \/ RuleEngine_Init
  \/ ScheduleLoaded
  \/ RuleEngine_Cleanup
  \/ Exit
  \/ Crash

Spec == Init /\ [][Next]_vars

\* Threads that hold the CPU go on, and the main loop dispatches idle sources.
Fairness ==
  /\ \A t \in Threads : WF_vars(SaveDone(t)) /\ WF_vars(Queue(t))
  /\ WF_vars(RunJob) /\ WF_vars(ScheduleLoaded)

FairSpec == Spec /\ Fairness

(***************************************************************************)
(* Properties.                                                             *)
(***************************************************************************)

\* The types, and the fixed size of rules[] (MAX_RULES): neither memory nor the
\* file, which Init loads back, ever holds more rules (rule_engine.c:486, 372).
TypeOK ==
  /\ phase \in {"boot", "run", "closing", "off"}
  /\ store \in Store /\ Cardinality(Present(store)) <= MaxRules
  /\ file \in [state : {"missing", "truncated", "ok"}, rules : Store]
  /\ Cardinality(Present(file.rules)) <= MaxRules
  /\ pc \in [Threads -> {"idle", "saving", "queueing"}]
  /\ todo \in [Threads -> Job \cup {NoJob}]
  /\ idle \in Seq(Job) /\ boot \in SUBSET Ids
  /\ subscribed \in [Ids -> Nat]
  /\ ops \in Nat /\ faults \in Nat /\ acked \in Store
  /\ crashed \in BOOLEAN /\ unsaved \in BOOLEAN /\ late \in BOOLEAN
  /\ raced \in SUBSET Ids

\* A job for rule i is queued, or a thread is about to queue it.
InFlight(op, i) ==
  \/ \E k \in DOMAIN idle : idle[k] = [op |-> op, id |-> i]
  \/ \E t \in Threads : todo[t] = [op |-> op, id |-> i]

\* A rule that no longer exists keeps subscriptions only until a job that drops
\* them, already queued or about to be, has run: whatever the two threads do,
\* a deleted rule does not stay subscribed (rule_engine.c:558, 337).
NoOrphanSubs ==
  \A i \in Ids : subscribed[i] # 0 /\ store[i] = NoRule => InFlight("unsub", i)

\* A rule is subscribed with triggers of an older save only while a job that
\* refreshes or drops them is on its way, although do_subscribe ignores the
\* copy of the triggers it was queued with (rule_engine.c:305).
NoStaleSubs ==
  \A i \in Ids :
    subscribed[i] # 0 /\ store[i] # NoRule /\ subscribed[i] # store[i].ver =>
      InFlight("sub", i) \/ InFlight("unsub", i)

\* Subscriptions agree with the store or are about to: neither orphaned nor stale.
SubsRight == NoOrphanSubs /\ NoStaleSubs

\* rule_engine.h "CRUD - callable from any thread": with nothing queued and no
\* operation under way, exactly the enabled rules are subscribed, with their current
\* triggers.  A rule is out of step only if its last change overtook a change of the
\* same rule on the other thread between that thread's unlock and its g_idle_add
\* (rule_engine.c:544, 567, 600).
Settled == phase = "run" /\ idle = <<>> /\ \A t \in Threads : pc[t] = "idle"
InStep(i) == subscribed[i] = (IF store[i].on THEN store[i].ver ELSE 0)
SubsFollowUnlessRaced == Settled => \A i \in Ids \ raced : InStep(i)

\* Outside a save, and unless the last one failed, a restart would load exactly
\* the rules in memory: a failed or cut save is healed by the next one, whatever
\* thread makes it (rule_engine.c:84, 352).
FileMatchesStore ==
  phase \in {"boot", "run"} /\ LockFree /\ ~unsaved => file.rules = store

\* README "Rules and settings are stored in localdata/ on the camera and survive
\* in-place application updates": while the process is down the file holds every rule
\* the completed operations left, unless its last save failed, an operation slipped in
\* after RuleEngine_Cleanup had emptied the store, or a crash fell into a save.
AckedSurvives ==
  phase = "off" /\ ~late /\ ~unsaved =>
    file.rules = acked \/ (crashed /\ file = Truncated)

\* The file is right while the process runs and after it has ended.
FileRight == FileMatchesStore /\ AckedSurvives

\* An enabled rule gets its subscriptions, unless the rule or the process goes or
\* two threads raced to change it (rule_engine.c:382, 510).
EnabledGetsSubscribed ==
  \A i \in Ids :
    (phase = "run" /\ store[i].on) ~>
      (phase # "run" \/ ~store[i].on \/ subscribed[i] = store[i].ver \/ i \in raced)
=============================================================================
