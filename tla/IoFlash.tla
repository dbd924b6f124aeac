------------------------------- MODULE IoFlash -------------------------------
(***************************************************************************)
(* The I/O Flash action of src/app/engine/actions.c: the table of flash    *)
(* runs, the worker thread of each run, and everything that ends a run or  *)
(* takes its ports over: another flash, an I/O Output action, a change of  *)
(* the rule, the undo of a while-active flash, shutdown.                   *)
(*                                                                         *)
(* Runs are started and ended by two threads, the main loop and the        *)
(* FastCGI thread, and driven by one worker each.  io_flash_lock guards    *)
(* the table; a step of a thread here is one critical section, from        *)
(* locking to unlocking or to g_cond_wait, or one request to the camera,   *)
(* which is always sent without the lock.  A run with a request in flight  *)
(* is busy: whoever ends it waits for that request, frees the slot and,    *)
(* after unlocking, switches the ports off itself.                         *)
(*                                                                         *)
(* A port stands for a host and a port number; on and off times are left   *)
(* out, a worker's sleep just ends.                                        *)
(***************************************************************************)
EXTENDS Integers, FiniteSets, SequencesExt

CONSTANTS
  MaxRuns,    \* IO_FLASH_MAX_RUNS
  Ports,      \* output ports
  Rules,      \* rule ids
  Test,       \* in place of a rule id: started by the Test button
  Flashes,    \* the io_flash actions of the configuration
  MaxStarts,  \* bound: io_flash actions carried out
  MaxOps,     \* bound: other operations
  MaxFails    \* bound: failed requests and failed thread starts

Slots   == 1 .. MaxRuns
Gens    == 1 .. MaxStarts
Threads == {"main", "http"}

\* What action_io_flash makes of its configuration.  gap: off_ms > 0; count: the
\* number of flashes, 0 for no such limit; timed: a time limit, which an otherwise
\* unlimited test also gets.
FlashConfig(f) ==
  /\ f.rule \in Rules \cup {Test}
  /\ f.ports \in Seq(Ports) /\ f.ports # <<>>
  /\ \A i, j \in DOMAIN f.ports : f.ports[i] = f.ports[j] => i = j
  /\ f.together \in BOOLEAN /\ (Len(f.ports) = 1 => f.together)
  /\ f.gap \in BOOLEAN /\ f.count \in Nat /\ f.timed \in BOOLEAN
  /\ ~(f.timed /\ f.count > 0)
  /\ f.rule = Test => f.timed \/ f.count > 0

ASSUME FlashParams ==
  /\ MaxRuns \in Nat \ {0} /\ Test \notin Rules
  /\ \A f \in Flashes : FlashConfig(f)
  /\ MaxStarts \in Nat /\ MaxOps \in Nat /\ MaxFails \in Nat

VARIABLES
  rules,    \* each rule: "on", "off" or "gone"
  delayed,  \* the flashes that wait behind a delay action (DelayCtx)
  run,      \* io_flash_runs
  gen,      \* io_flash_gen
  worker,   \* the worker thread of each run, by generation
  th,       \* what main loop and FastCGI thread are doing
  port,     \* each port at the camera: "off", "flash" (lit) or "set" (by io_output)
  starts, ops, fails,
  lost,     \* history: ports whose last request failed
  overlap   \* history: both threads were inside a port operation at once

count == <<starts, ops, fails>>
hist  == <<lost, overlap>>
vars  == <<rules, delayed, run, gen, worker, th, port, count, hist>>

NoRun == [used |-> FALSE]

\* A thread at rest; op, arg: the operation it carries out; check: check_enabled of
\* the new run; at, wgen: the slot whose busy run it waits for and that run's
\* generation (0: none yet); offs: ends of runs whose ports it has still to switch
\* off, then what it does after; slot, ok: its new run, the first edge's answer.
Idle == [pc |-> "idle", op |-> "none", arg |-> [rule |-> Test], check |-> FALSE,
         at |-> 1, wgen |-> 0, offs |-> {}, then |-> "idle", slot |-> 0, ok |-> FALSE]

NoWorker == [pc |-> "none", slot |-> 0, lit |-> {}, ports |-> {}, final |-> FALSE]
Gone     == [NoWorker EXCEPT !.pc = "gone"]

PortsOf(r) == Range(r.ports)

\* A thread is at work on ports.
Busy(t) == th[t].pc \notin {"idle", "ended"}

(***************************************************************************)
(* Requests to the camera.                                                 *)
(***************************************************************************)

\* io_flash_apply or the POST of io_output: the ports in on get state s, the
\* others in off are opened.
Switch(on, s, off) ==
  /\ port' = [p \in Ports |-> IF p \in on THEN s ELSE IF p \in off THEN "off" ELSE port[p]]
  /\ lost' = lost \ (on \cup off)
  /\ fails' = fails

\* No answer, or an error: nothing was switched.
SwitchFails(ps) ==
  /\ fails < MaxFails
  /\ fails' = fails + 1
  /\ lost' = lost \cup ps
  /\ port' = port

(***************************************************************************)
(* Operations: what a thread sets out to do.                               *)
(***************************************************************************)

\* The thread goes for io_flash_lock.
Locking(op, arg) == [Idle EXCEPT !.pc = "lock", !.op = op, !.arg = arg]

SetOut(t, rec) ==
  /\ th[t].pc = "idle"
  /\ th' = [th EXCEPT ![t] = rec]
  /\ overlap' = (overlap \/ \E u \in Threads \ {t} : Busy(u))

NewOp == ops < MaxOps /\ ops' = ops + 1

\* A rule with an io_flash action is executed, or the action is tested; only the
\* FastCGI thread runs tests.  A disabled rule can be fired by hand.
Decide(t, f) ==
  /\ starts < MaxStarts /\ starts' = starts + 1
  /\ IF f.rule = Test THEN t = "http" ELSE rules[f.rule] # "gone"
  /\ SetOut(t, [Idle EXCEPT !.pc = "decided", !.op = "flash", !.arg = f])
  /\ UNCHANGED <<rules, delayed, run, gen, worker, port, ops, fails, lost>>

\* A delay action comes first: the rest of the actions waits for a timer.
Delay(t) ==
  /\ th[t].pc = "decided" /\ th[t].arg.rule # Test
  /\ delayed' = Append(delayed, th[t].arg)
  /\ th' = [th EXCEPT ![t] = Idle]
  /\ UNCHANGED <<rules, run, gen, worker, port, count, hist>>

\* delay_resume on the main loop, whatever has become of the rule; each delay has a
\* timer of its own, so that any may run out next.
Resume(i) ==
  /\ delayed' = RemoveAt(delayed, i)
  /\ SetOut("main", [Idle EXCEPT !.pc = "decided", !.op = "flash", !.arg = delayed[i]])
  /\ UNCHANGED <<rules, run, gen, worker, port, count, lost>>

\* action_io_flash up to the lock: check_enabled.
ReadEnabled(t) ==
  /\ th[t].pc = "decided"
  /\ LET f == th[t].arg IN
     th' = [th EXCEPT ![t] = [Locking("flash", f) EXCEPT
              !.check = f.rule # Test /\ rules[f.rule] = "on"]]
  /\ UNCHANGED <<rules, delayed, run, gen, worker, port, count, hist>>

\* action_io_output: sets port p, after the flashes on it have been ended.
Output(t, p, closed) ==
  /\ NewOp
  /\ SetOut(t, Locking("output", [port |-> p, closed |-> closed]))
  /\ UNCHANGED <<rules, delayed, run, gen, worker, port, starts, fails, lost>>

\* RuleEngine_SetEnabled(1) touches no flash.
Enable(t, r) ==
  /\ NewOp
  /\ rules[r] # "gone" /\ th[t].pc = "idle"
  /\ rules' = [rules EXCEPT ![r] = "on"]
  /\ UNCHANGED <<delayed, run, gen, worker, th, port, starts, fails, hist>>

\* SetEnabled(0) on either thread, Update and Delete on the FastCGI thread: the
\* change first, Actions_IoFlash_Stop_Rule after store_lock is released.
Change(t, r, new) ==
  /\ NewOp
  /\ rules[r] # "gone" /\ (t = "main" => new = "off")
  /\ rules' = [rules EXCEPT ![r] = new]
  /\ SetOut(t, Locking("stop", [rule |-> r]))
  /\ UNCHANGED <<delayed, run, gen, worker, port, starts, fails, lost>>

\* while_active_undo of an io_flash, when the trigger goes inactive.
Undo(r) ==
  /\ NewOp
  /\ SetOut("main", Locking("stop", [rule |-> r]))
  /\ UNCHANGED <<rules, delayed, run, gen, worker, port, starts, fails, lost>>

\* Actions_IoFlash_Stop_All once the main loop has ended.
StopAll ==
  /\ SetOut("main", [Locking("stopall", [rule |-> Test]) EXCEPT !.then = "ended"])
  /\ UNCHANGED <<rules, delayed, run, gen, worker, port, count, lost>>

(***************************************************************************)
(* The critical sections.                                                  *)
(***************************************************************************)

\* Mutant: a run ends or a request completes without g_cond_broadcast.
NoneWoken(f) == f

\* g_cond_broadcast: the waiting threads compete for the lock again.
Woken(f) == [t \in Threads |->
               IF f[t].pc = "asleep" THEN [f[t] EXCEPT !.pc = "lock"] ELSE f[t]]

\* Mutant: only a run on exactly the same ports is taken over.
SameMask(f, r) == PortsOf(f) = PortsOf(r)

\* A flash drives a port of the run (r->mask & mask).
SharesPort(f, r) == PortsOf(f) \cap PortsOf(r) # {}

\* The run of slot s that the operation of thread t has to end.
MustEnd(t, s) ==
  /\ run[s].used
  /\ CASE th[t].op = "flash"  -> SharesPort(th[t].arg, run[s])
       [] th[t].op = "output" -> th[t].arg.port \in PortsOf(run[s])
       [] th[t].op = "stop"   -> run[s].rule = th[t].arg.rule
       [] OTHER               -> TRUE

\* Mutant: after a wait the run is taken as ended.
SkipAfterWait(t) == IF th[t].wgen # 0 THEN th[t].at + 1 ELSE th[t].at

\* Where the scan of the table goes on: after a wait, with the same slot unless its
\* run has ended meanwhile.
From(t) ==
  IF th[t].wgen # 0 /\ (run[th[t].at].used => run[th[t].at].gen # th[t].wgen)
  THEN th[t].at + 1 ELSE th[t].at

Hits(t)  == {s \in Slots : s >= From(t) /\ MustEnd(t, s)}

\* Mutant: a run is ended although a request of its worker is in flight.
StuckNever(t) == {}

Stuck(t) == {s \in Hits(t) : run[s].busy}

\* The run table with the runs in ss ended; the ends it leaves to switch off.
Freed(ss)  == [s \in Slots |-> IF s \in ss THEN NoRun ELSE run[s]]
OffsOf(ss) == {[gen |-> run[s].gen, ports |-> PortsOf(run[s])] : s \in ss}

\* Re-firing the same rule on the same ports refreshes the limits of its run.
SameRun(t, s) ==
  /\ run[s].used /\ th[t].op = "flash" /\ th[t].arg.rule # Test
  /\ run[s].rule = th[t].arg.rule /\ PortsOf(run[s]) = PortsOf(th[t].arg)

Refreshable(t) == th[t].wgen = 0 /\ \E s \in Slots : SameRun(t, s)

Refresh(t) ==
  /\ th[t].pc = "lock" /\ Refreshable(t)
  /\ LET s == Min({x \in Slots : SameRun(t, x)})
         f == th[t].arg IN
     run' = [run EXCEPT ![s].ports = f.ports, ![s].together = f.together,
                        ![s].gap = f.gap, ![s].left = f.count,
                        ![s].counted = f.count > 0, ![s].timed = f.timed,
                        ![s].late = FALSE, ![s].check = th[t].check]
  /\ th' = [th EXCEPT ![t] = Idle]
  /\ UNCHANGED <<rules, delayed, gen, worker, port, count, hist>>

\* io_flash_end_locked meets a busy run: ask it to stop, wait for its request.
ScanWaits(t) ==
  /\ th[t].pc = "lock" /\ ~Refreshable(t) /\ Stuck(t) # {}
  /\ LET j == Min(Stuck(t))
         ended == {s \in Hits(t) : s < j}
         me == [th[t] EXCEPT !.pc = "asleep", !.at = j, !.wgen = run[j].gen,
                             !.offs = @ \cup OffsOf(ended)] IN
     /\ run' = [Freed(ended) EXCEPT ![j].stop = TRUE]
     /\ th' = [(IF ended = {} THEN th ELSE Woken(th)) EXCEPT ![t] = me]
  /\ UNCHANGED <<rules, delayed, gen, worker, port, count, hist>>

\* The new run: busy with its first edge, which lights it.
NewRun(f, check, g) ==
  [used |-> TRUE, busy |-> TRUE, stop |-> FALSE, gen |-> g, rule |-> f.rule,
   check |-> check, ports |-> f.ports, together |-> f.together, gap |-> f.gap,
   left |-> f.count, counted |-> f.count > 0, timed |-> f.timed, late |-> FALSE,
   idx |-> 1, lit |-> TRUE]

\* After unlocking: the all-offs first, if any, then next.
OffsFirst(rec, next) ==
  IF rec.offs # {} THEN [rec EXCEPT !.pc = "offs", !.then = next]
  ELSE IF next \in {"idle", "ended"} THEN [Idle EXCEPT !.pc = next]
  ELSE [rec EXCEPT !.pc = next]

\* No run is in the way any more: the runs found are ended, and a flash takes the
\* first free slot, or gives up when there is none.
ScanDone(t) ==
  /\ th[t].pc = "lock" /\ ~Refreshable(t) /\ Stuck(t) = {}
  /\ LET ended == Hits(t)
         table == Freed(ended)
         free  == {s \in Slots : ~table[s].used}
         me    == [th[t] EXCEPT !.offs = @ \cup OffsOf(ended), !.at = 1, !.wgen = 0]
         woken == IF ended = {} THEN th ELSE Woken(th) IN
     \/ /\ th[t].op = "flash" /\ free # {}
        /\ gen' = gen + 1
        /\ run' = [table EXCEPT ![Min(free)] = NewRun(th[t].arg, th[t].check, gen + 1)]
        /\ th' = [woken EXCEPT ![t] =
                    OffsFirst([me EXCEPT !.slot = Min(free), !.wgen = gen + 1], "edge")]
     \/ /\ th[t].op = "flash" /\ free = {}
        /\ run' = table /\ gen' = gen
        /\ th' = [woken EXCEPT ![t] = OffsFirst(me, "idle")]
     \/ /\ th[t].op # "flash"
        /\ run' = table /\ gen' = gen
        /\ th' = [woken EXCEPT ![t] =
                    OffsFirst(me, IF th[t].op = "output" THEN "post" ELSE th[t].then)]
  /\ UNCHANGED <<rules, delayed, worker, port, count, hist>>

\* An all-off less to send.
Without(rec, o) == [rec EXCEPT !.offs = @ \ {o}]

\* io_flash_send_offs: one request for each run that was ended.
SendOff(t) ==
  /\ th[t].pc = "offs"
  /\ \E o \in th[t].offs :
       /\ th' = [th EXCEPT ![t] = OffsFirst(Without(@, o), @.then)]
       /\ Switch({}, "off", o.ports) \/ SwitchFails(o.ports)
  /\ UNCHANGED <<rules, delayed, run, gen, worker, starts, ops, overlap>>

\* The POST of io_output.
Post(t) ==
  /\ th[t].pc = "post"
  /\ LET p == th[t].arg.port IN
     \/ Switch(IF th[t].arg.closed THEN {p} ELSE {}, "set", {p})
     \/ SwitchFails({p})
  /\ th' = [th EXCEPT ![t] = Idle]
  /\ UNCHANGED <<rules, delayed, run, gen, worker, starts, ops, overlap>>

\* The first edge: all ports, or the first one.
FirstEdge(t) ==
  /\ th[t].pc = "edge"
  /\ LET f == th[t].arg
         lit == IF f.together THEN PortsOf(f) ELSE {f.ports[1]} IN
     \/ Switch(lit, "flash", PortsOf(f)) /\ th' = [th EXCEPT ![t].pc = "started", ![t].ok = TRUE]
     \/ SwitchFails(PortsOf(f)) /\ th' = [th EXCEPT ![t].pc = "started", ![t].ok = FALSE]
  /\ UNCHANGED <<rules, delayed, run, gen, worker, starts, ops, overlap>>

\* The run of slot s is still the one of generation g.
Mine(s, g) == run[s].used /\ run[s].gen = g

\* After the first edge: leave the run to whoever wants it stopped, hand it to a
\* worker, or end it when the edge or the thread start failed.
Started(t) ==
  /\ th[t].pc = "started"
  /\ LET s == th[t].slot
         g == th[t].wgen
         table == IF run[s].used THEN [run EXCEPT ![s].busy = FALSE] ELSE run IN
     \/ /\ ~(Mine(s, g) /\ ~run[s].stop)
        /\ run' = table
        /\ th' = [Woken(th) EXCEPT ![t] = Idle]
        /\ UNCHANGED <<worker, fails>>
     \/ /\ Mine(s, g) /\ ~run[s].stop /\ th[t].ok
        /\ run' = table
        /\ worker' = [worker EXCEPT ![g] = [NoWorker EXCEPT !.pc = "wait", !.slot = s]]
        /\ th' = [Woken(th) EXCEPT ![t] = Idle]
        /\ UNCHANGED fails
     \/ /\ Mine(s, g) /\ ~run[s].stop
        /\ IF th[t].ok THEN fails < MaxFails /\ fails' = fails + 1 ELSE fails' = fails
        /\ run' = Freed({s})
        /\ th' = [Woken(th) EXCEPT ![t] = OffsFirst([@ EXCEPT !.offs = OffsOf({s})], "idle")]
        /\ UNCHANGED worker
  /\ UNCHANGED <<rules, delayed, gen, port, starts, ops, hist>>

(***************************************************************************)
(* The worker of generation g.                                             *)
(***************************************************************************)

\* The time limit of the run of slot s is reached.
TimeUp(s) ==
  /\ run[s].used /\ run[s].timed /\ ~run[s].late
  /\ run' = [run EXCEPT ![s].late = TRUE]
  /\ UNCHANGED <<rules, delayed, gen, worker, th, port, count, hist>>

\* io_flash_wait has ended with 1: the run is this worker's and nobody waits to end it.
GoesOn(g) ==
  worker[g].pc = "wait" /\ Mine(worker[g].slot, g) /\ ~run[worker[g].slot].stop

\* The rule was disabled or removed, or the time is up.
EndsNow(r) == (r.check /\ rules[r.rule] # "on") \/ r.late

\* An on period ends: the sequence moves on, the count goes down after the last port.
CycleDone(r) == r.together \/ r.idx = Len(r.ports)

\* Mutant: the count is never taken down.
UncountedLeft(r) == r.left

CountedLeft(r) == IF CycleDone(r) /\ r.left > 0 THEN r.left - 1 ELSE r.left

\* Mutant: the sequence does not start over after its last port.
AfterOnNoWrap(r) ==
  [r EXCEPT !.lit = FALSE, !.left = CountedLeft(r),
            !.idx = IF r.together THEN 1 ELSE r.idx + 1]

AfterOn(r) ==
  [r EXCEPT !.lit = FALSE, !.left = CountedLeft(r),
            !.idx = IF r.together THEN 1 ELSE (r.idx % Len(r.ports)) + 1]

LightUp(r) == [r EXCEPT !.lit = TRUE]
LitNow(r)  == IF r.together THEN PortsOf(r) ELSE {r.ports[r.idx]}

\* The worker marks the run busy and unlocks to switch the ports in lit on and the
\* others off; final: this is the run's last request.
Sends(g, r, lit, final) ==
  /\ run' = [run EXCEPT ![worker[g].slot] = [r EXCEPT !.busy = TRUE]]
  /\ worker' = [worker EXCEPT ![g] = [pc |-> "send", slot |-> worker[g].slot, lit |-> lit,
                                       ports |-> PortsOf(r), final |-> final]]
  /\ UNCHANGED <<rules, delayed, gen, th, port, count, hist>>

\* The flash count is reached with the on period that ends.
LastFlash(r) == r.counted /\ CycleDone(r) /\ CountedLeft(r) = 0

WorkerEdge(g) ==
  /\ GoesOn(g)
  /\ LET r == run[worker[g].slot]
         dark == AfterOn(r) IN
     \/ EndsNow(r) /\ Sends(g, r, {}, TRUE)
     \/ ~EndsNow(r) /\ r.lit /\ LastFlash(r) /\ Sends(g, dark, {}, TRUE)
     \/ ~EndsNow(r) /\ r.lit /\ ~LastFlash(r) /\ r.gap /\ Sends(g, dark, {}, FALSE)
     \/ /\ ~EndsNow(r) /\ r.lit /\ ~LastFlash(r) /\ ~r.gap
        /\ Sends(g, LightUp(dark), LitNow(dark), FALSE)
     \/ ~EndsNow(r) /\ ~r.lit /\ Sends(g, LightUp(r), LitNow(r), FALSE)

\* io_flash_apply without the lock, on the ports copied before.
WorkerApplies(g) ==
  /\ worker[g].pc = "send"
  /\ Switch(worker[g].lit, "flash", worker[g].ports) \/ SwitchFails(worker[g].ports)
  /\ worker' = [worker EXCEPT ![g].pc = "sent"]
  /\ UNCHANGED <<rules, delayed, run, gen, th, starts, ops, overlap>>

\* Back under the lock: the last request ends the run.
WorkerApplied(g) ==
  /\ worker[g].pc = "sent"
  /\ LET s == worker[g].slot IN
     run' = IF worker[g].final /\ Mine(s, g) THEN Freed({s})
            ELSE IF run[s].used THEN [run EXCEPT ![s].busy = FALSE] ELSE run
  /\ worker' = [worker EXCEPT ![g] = IF worker[g].final THEN Gone
                                     ELSE [NoWorker EXCEPT !.pc = "wait", !.slot = worker[g].slot]]
  /\ th' = Woken(th)
  /\ UNCHANGED <<rules, delayed, gen, port, count, hist>>

\* io_flash_wait has ended with 0.
WorkerExits(g) ==
  /\ worker[g].pc = "wait" /\ ~GoesOn(g)
  /\ worker' = [worker EXCEPT ![g] = Gone]
  /\ UNCHANGED <<rules, delayed, run, gen, th, port, count, hist>>

(***************************************************************************)
(* The specification.                                                      *)
(***************************************************************************)
Init ==
  /\ rules \in [Rules -> {"on", "off"}] /\ delayed = <<>>
  /\ run = [s \in Slots |-> NoRun] /\ gen = 0
  /\ worker = [g \in Gens |-> NoWorker]
  /\ th = [t \in Threads |-> Idle]
  /\ port = [p \in Ports |-> "off"]
  /\ starts = 0 /\ ops = 0 /\ fails = 0
  /\ lost = {} /\ overlap = FALSE

ThreadStep(t) ==
  \/ Delay(t)
  \/ ReadEnabled(t)
  \/ Refresh(t)
  \/ ScanWaits(t)
  \/ ScanDone(t)
  \/ SendOff(t)
  \/ Post(t)
  \/ FirstEdge(t)
  \/ Started(t)

WorkerStep(g) ==
  \/ WorkerEdge(g)
  \/ WorkerApplies(g)
  \/ WorkerApplied(g)
  \/ WorkerExits(g)

Next ==
  \/ \E t \in Threads, f \in Flashes : Decide(t, f)
  \/ \E i \in DOMAIN delayed : Resume(i)
  \/ \E t \in Threads, p \in Ports, closed \in BOOLEAN : Output(t, p, closed)
  \/ \E t \in Threads, r \in Rules : Enable(t, r)
  \/ \E t \in Threads, r \in Rules, new \in {"on", "off", "gone"} : Change(t, r, new)
  \/ \E r \in Rules : Undo(r)
  \/ StopAll
  \/ \E t \in Threads : ThreadStep(t)
  \/ \E g \in Gens : WorkerStep(g)
  \/ \E s \in Slots : TimeUp(s)

Spec == Init /\ [][Next]_vars

\* Threads inside an operation and workers keep running (requests have timeouts,
\* the lock is held only briefly), and time passes.
Fairness ==
  /\ \A t \in Threads : WF_vars(ThreadStep(t))
  /\ \A g \in Gens : WF_vars(WorkerStep(g))
  /\ \A s \in Slots : WF_vars(TimeUp(s))

FairSpec == Spec /\ Fairness

(***************************************************************************)
(* Properties.                                                             *)
(***************************************************************************)

Run == [used : {TRUE}, busy : BOOLEAN, stop : BOOLEAN, gen : Gens,
        rule : Rules \cup {Test}, check : BOOLEAN, ports : Seq(Ports),
        together : BOOLEAN, gap : BOOLEAN, left : Nat, counted : BOOLEAN,
        timed : BOOLEAN, late : BOOLEAN, idx : Nat \ {0}, lit : BOOLEAN]

\* Types; a worker never indexes past its run's port list.
TypeOK ==
  /\ rules \in [Rules -> {"on", "off", "gone"}] /\ delayed \in Seq(Flashes)
  /\ \A s \in Slots : run[s] # NoRun => run[s] \in Run /\ run[s].idx <= Len(run[s].ports)
  /\ gen \in 0 .. MaxStarts
  /\ \A g \in Gens :
       /\ worker[g].pc \in {"none", "wait", "send", "sent", "gone"}
       /\ worker[g].slot \in 0 .. MaxRuns /\ worker[g].final \in BOOLEAN
       /\ worker[g].lit \subseteq worker[g].ports /\ worker[g].ports \subseteq Ports
  /\ \A t \in Threads :
       /\ th[t].pc \in {"idle", "decided", "lock", "asleep", "offs", "post", "edge",
                        "started", "ended"}
       /\ th[t].at \in Slots /\ th[t].wgen \in 0 .. MaxStarts
       /\ th[t].offs \subseteq [gen : Gens, ports : SUBSET Ports]
  /\ port \in [Ports -> {"off", "flash", "set"}]
  /\ lost \subseteq Ports /\ overlap \in BOOLEAN

\* README "Ports are left off when it stops": a port a flash has lit belongs to a
\* run in the table, or the all-off of its last run is still to be sent by the
\* thread that ended it, or the camera did not take it.  A late request of a run
\* that was ended, which would light the port again for good, is what the busy
\* flag and the wait for it must exclude (actions.c:1815, 1886).
PortsLeftOff ==
  \A p \in Ports \ lost :
    port[p] = "flash" =>
      \/ \E s \in Slots : run[s].used /\ p \in PortsOf(run[s])
      \/ \E t \in Threads : \E o \in th[t].offs : p \in o.ports

\* Every run in the table is in somebody's hands: the thread that starts it, its
\* worker, or a thread that waits to end it.  A run nobody drives would hold its
\* slot and its lit ports forever (actions.c:2079 "whoever stopped it switches it
\* off").
RunsDriven ==
  \A s \in Slots : run[s].used =>
    LET g == run[s].gen IN
    \/ \E t \in Threads : th[t].pc \in {"offs", "edge", "started"}
                         /\ th[t].slot = s /\ th[t].wgen = g
    \/ worker[g].slot = s /\ worker[g].pc \in {"send", "sent"}
    \/ worker[g].slot = s /\ worker[g].pc = "wait" /\ ~run[s].stop
    \/ \E t \in Threads : th[t].pc \in {"lock", "asleep"}
                         /\ th[t].at = s /\ th[t].wgen = g

\* Whatever a flash has lit is on its way to be switched off: it belongs to a run, and
\* somebody drives or ends that run.
LitPortsTended == PortsLeftOff /\ RunsDriven

\* AI_RULE_GUIDE "A new flash on a port takes over from any other flash on that
\* port": no two runs drive the same port.
ExclusivePort ==
  \A s, u \in Slots :
    run[s].used /\ run[u].used /\ s # u => PortsOf(run[s]) \cap PortsOf(run[u]) = {}

\* actions.c:1734 "so that request always lands before anything the caller sets
\* next": no all-off of an ended flash is still to come for a port that an I/O
\* Output action has closed since.
OutputStands ==
  \A p \in Ports \ lost :
    port[p] = "set" => \A t \in Threads : \A o \in th[t].offs : p \notin o.ports

\* What holds of these two: they can fail only after main loop and FastCGI thread
\* have been inside a port operation at the same time (actions.c:1906, 2049).
TakeoverUnlessOverlap == ~overlap => ExclusivePort /\ OutputStands

\* Every operation on ports returns, whatever it waits for: no broadcast is missed
\* and no two threads wait for each other (actions.c:1815, 1821, 1895, 2076).
OpsReturn == \A t \in Threads : Busy(t) ~> ~Busy(t)

\* A run with a count or time limit, or whose rule was disabled or removed since it
\* started, ends or is refreshed without a limit (actions.c:1859, 1869).
Bounded(r) == r.counted \/ r.timed \/ (r.check /\ rules[r.rule] # "on")
BoundedRunsEnd ==
  \A g \in Gens :
    (\E s \in Slots : Mine(s, g) /\ Bounded(run[s]))
      ~> (\A s \in Slots : Mine(s, g) => ~Bounded(run[s]))
=============================================================================
