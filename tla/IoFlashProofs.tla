---------------------------- MODULE IoFlashProofs ----------------------------
(***************************************************************************)
(* Proofs about the I/O Flash action, for any table size, ports, rules and *)
(* flashes, and any number of operations and failures.                     *)
(***************************************************************************)
EXTENDS IoFlash, FiniteSetTheorems, TLAPS

(***************************************************************************)
(* The inductive invariant.                                                *)
(***************************************************************************)

\* What a thread's record holds.
Args   == Flashes \cup [rule : Rules \cup {Test}] \cup [port : Ports, closed : BOOLEAN]
Ends   == [gen : Gens, ports : SUBSET Ports]
Thread == [pc : {"idle", "decided", "lock", "asleep", "offs", "post", "edge", "started",
                 "ended"},
           op : {"none", "flash", "output", "stop", "stopall"}, arg : Args,
           check : BOOLEAN, at : Slots, wgen : 0 .. MaxStarts, offs : SUBSET Ends,
           then : {"idle", "edge", "post", "ended"}, slot : 0 .. MaxRuns, ok : BOOLEAN]

\* A thread waits to end a busy run.
Waits(r) == r.pc \in {"lock", "asleep"} /\ r.wgen # 0

\* A thread starts a run: its first edge is still to come, or was sent.
BeforeEdge(r) == r.pc = "edge" \/ (r.pc = "offs" /\ r.then = "edge")
Starts(r)     == BeforeEdge(r) \/ r.pc = "started"

\* A thread is to set the port of io_output, the flashes on it being ended.
ToPost(r) == r.pc = "post" \/ (r.pc = "offs" /\ r.then = "post")

\* The operation and its argument go together, and ends are kept only on the way to
\* being switched off.
ArgRight(r) ==
  /\ r.op = "flash" => r.arg \in Flashes
  /\ r.op = "output" => r.arg \in [port : Ports, closed : BOOLEAN]
  /\ r.op \in {"stop", "stopall"} => r.arg \in [rule : Rules \cup {Test}]
ThreadRight(r) ==
  /\ ArgRight(r)
  /\ (r.pc = "decided" \/ Starts(r)) => r.op = "flash"
  /\ ToPost(r) => r.op = "output"
  /\ r.pc \in {"lock", "asleep"} => r.op # "none" /\ r.then \in {"idle", "ended"}
  /\ r.pc \notin {"lock", "asleep", "offs"} => r.offs = {}
  /\ r.pc \in {"lock", "asleep"} /\ r.wgen = 0 => r.at = 1 /\ r.offs = {}

Worker == [pc : {"none", "wait", "send", "sent", "gone"}, slot : 0 .. MaxRuns,
           lit : SUBSET Ports, ports : SUBSET Ports, final : BOOLEAN]
WorkerRight(w) ==
  /\ w.lit \subseteq w.ports /\ (w.final => w.lit = {})
  /\ w.pc \in {"wait", "send", "sent"} => w.slot \in Slots

\* A run names each port once, and its worker lights one of them.
Distinct(ps) == \A i, j \in DOMAIN ps : ps[i] = ps[j] => i = j
RunRight(r)  == r \in Run /\ Distinct(r.ports) /\ r.idx <= Len(r.ports)

\* The flash actions on their way to a run of their own.
ToRun(r)   == IF r.op = "flash" /\ r.pc \in {"decided", "lock", "asleep"} THEN 1 ELSE 0
Pending(f) == ToRun(f["main"]) + ToRun(f["http"])

\* Types; the generation counter stays within the bound on flash actions.
Types ==
  /\ rules \in [Rules -> {"on", "off", "gone"}] /\ delayed \in Seq(Flashes)
  /\ gen \in Nat /\ starts \in 0 .. MaxStarts
  /\ gen + Len(delayed) + Pending(th) <= starts
  /\ DOMAIN run = Slots /\ \A s \in Slots : run[s] = NoRun \/ RunRight(run[s])
  /\ worker \in [Gens -> Worker] /\ \A g \in Gens : WorkerRight(worker[g])
  /\ th \in [Threads -> Thread] /\ \A t \in Threads : ThreadRight(th[t])
  /\ port \in [Ports -> {"off", "flash", "set"}]
  /\ lost \subseteq Ports /\ overlap \in BOOLEAN

\* Generations are never used twice, and a run with a request in flight is in the table
\* and busy, so that nobody ends it or takes its ports: the request belongs to its worker
\* or to the thread that starts it.
GensRight ==
  /\ \A s, u \in Slots : run[s].used /\ run[u].used /\ run[s].gen = run[u].gen => s = u
  /\ \A s \in Slots : run[s].used => run[s].gen <= gen
  /\ \A g \in Gens : worker[g].pc # "none" => g <= gen
  /\ \A t \in Threads : th[t].wgen <= gen
Owns(t) ==
  /\ th[t].slot \in Slots /\ th[t].wgen \in Gens
  /\ Mine(th[t].slot, th[t].wgen) /\ run[th[t].slot].busy
  /\ PortsOf(run[th[t].slot]) = PortsOf(th[t].arg)
  /\ worker[th[t].wgen].pc = "none"
Holds(g) ==
  /\ Mine(worker[g].slot, g) /\ run[worker[g].slot].busy
  /\ PortsOf(run[worker[g].slot]) = worker[g].ports
OwnersRight ==
  /\ \A g \in Gens : worker[g].pc \in {"send", "sent"} => Holds(g)
  /\ \A t \in Threads : Starts(th[t]) => Owns(t)
  /\ \A t, u \in Threads : Starts(th[t]) /\ Starts(th[u]) /\ th[t].wgen = th[u].wgen => t = u

\* A run that is asked to stop has somebody who waits to end it, and will find it when he
\* looks again; any other has its starter or its worker.
Driver(s) ==
  \/ \E t \in Threads : Starts(th[t]) /\ th[t].slot = s /\ th[t].wgen = run[s].gen
  \/ /\ worker[run[s].gen].slot = s
     /\ worker[run[s].gen].pc \in {"wait", "send", "sent"}
Waiter(s) ==
  \E t \in Threads : Waits(th[t]) /\ th[t].at = s /\ th[t].wgen = run[s].gen
DrivenRight ==
  /\ \A s \in Slots : run[s].used => IF run[s].stop THEN Waiter(s) ELSE Driver(s)
  /\ \A t \in Threads : Waits(th[t]) /\ Mine(th[t].at, th[t].wgen) => MustEnd(t, th[t].at)

\* PortsLeftOff, not counting a run whose last request was already sent: its ports are
\* dark, or lit by another run.
FinalSent(g) == worker[g].pc = "sent" /\ worker[g].final
Kept(p) ==
  \/ \E s \in Slots : run[s].used /\ p \in PortsOf(run[s]) /\ ~FinalSent(run[s].gen)
  \/ \E t \in Threads : \E o \in th[t].offs : p \in o.ports
LitRight == \A p \in Ports \ lost : port[p] = "flash" => Kept(p)

\* While the threads have taken turns: what a scan has passed is not in its way, an I/O
\* Output action comes to a port without runs, and only a run whose first edge is still
\* to come is on a port that such an action has set.
Alone  == \A t, u \in Threads : Busy(t) /\ Busy(u) => t = u
Passed ==
  \A t \in Threads : th[t].pc \in {"lock", "asleep"} =>
    /\ \A s \in Slots : s < th[t].at => ~MustEnd(t, s)
    /\ th[t].wgen # 0 /\ run[th[t].at].used => run[th[t].at].gen = th[t].wgen
PostFree ==
  \A t \in Threads : ToPost(th[t]) =>
    \A s \in Slots : run[s].used => th[t].arg.port \notin PortsOf(run[s])
SetFree ==
  \A s \in Slots : run[s].used => \A p \in PortsOf(run[s]) \ lost : port[p] = "set" =>
    \E t \in Threads : BeforeEdge(th[t]) /\ th[t].slot = s
TurnsRight ==
  ~overlap => Alone /\ Passed /\ PostFree /\ SetFree /\ ExclusivePort /\ OutputStands

Inv == Types /\ GensRight /\ OwnersRight /\ DrivenRight /\ LitRight /\ TurnsRight

(***************************************************************************)
(* The operators.                                                          *)
(***************************************************************************)

\* A slot of the table is free or holds a run.
LEMMA RunFields ==
  ASSUME Types, NEW s \in Slots
  PROVE  /\ run[s].used \in BOOLEAN
         /\ run[s].used => RunRight(run[s]) /\ run[s] \in Run /\ run[s].gen \in Gens
         /\ ~run[s].used => run[s] = NoRun
<1>1. NoRun.used = FALSE BY DEF NoRun
<1>2. \A r \in Run : r.used = TRUE /\ r.gen \in Gens BY DEF Run
<1>3. run[s] = NoRun \/ (RunRight(run[s]) /\ run[s] \in Run) BY DEF Types, RunRight
<1> QED BY <1>1, <1>2, <1>3

\* Slots and generations are numbers.
LEMMA Numbers ==
  /\ Slots \subseteq Nat /\ 1 \in Slots /\ 0 \notin Slots /\ Slots \subseteq 0 .. MaxRuns
  /\ Gens \subseteq Nat /\ 0 \notin Gens /\ Gens \subseteq 0 .. MaxStarts
  /\ "main" \in Threads /\ "http" \in Threads
BY FlashParams DEF Slots, Gens, Threads

\* A configuration's ports.
LEMMA FlashPorts ==
  ASSUME NEW f \in Flashes
  PROVE  /\ FlashConfig(f) /\ PortsOf(f) \subseteq Ports /\ f.ports[1] \in PortsOf(f)
         /\ 1 <= Len(f.ports)
<1>1. FlashConfig(f) BY FlashParams
<1>2. f.ports \in Seq(Ports) /\ f.ports # <<>> BY <1>1 DEF FlashConfig
<1>3. 1 \in DOMAIN f.ports /\ 1 <= Len(f.ports) BY <1>2
<1>4. \A i \in DOMAIN f.ports : f.ports[i] \in Ports BY <1>2
<1> QED BY <1>1, <1>3, <1>4 DEF PortsOf, Range

\* Lists of the same ports, each named once, are equally long: a run that is refreshed
\* lights a port of the new list.
LEMMA SameLength ==
  ASSUME NEW q \in Seq(Ports), NEW r \in Seq(Ports), Distinct(q), Distinct(r),
         Range(q) = Range(r)
  PROVE  Len(q) = Len(r)
<1>1. ASSUME NEW p \in Seq(Ports), Distinct(p) PROVE Cardinality(Range(p)) = Len(p)
  <2>1. Len(p) \in Nat /\ DOMAIN p = 1 .. Len(p) /\ p \in [1 .. Len(p) -> Range(p)]
    BY DEF Range
  <2>2. p \in Bijection(1 .. Len(p), Range(p))
    BY <1>1, <2>1
    DEF Bijection, Injection, Surjection, IsInjective, Distinct, Range
  <2>3. ExistsBijection(1 .. Len(p), Range(p)) BY <2>2 DEF ExistsBijection
  <2> QED BY <2>1, <2>3, FS_CountingElements
<1> QED BY <1>1

\* A run's ports, and those that it lights.
LEMMA RunPorts ==
  ASSUME NEW r \in Run
  PROVE  PortsOf(r) \subseteq Ports /\ (r.idx <= Len(r.ports) => LitNow(r) \subseteq PortsOf(r))
<1>1. r.ports \in Seq(Ports) /\ r.idx \in Nat \ {0} BY DEF Run
<1>2. \A i \in DOMAIN r.ports : r.ports[i] \in Ports BY <1>1
<1>3. r.idx <= Len(r.ports) => r.idx \in DOMAIN r.ports BY <1>1
<1> QED BY <1>2, <1>3 DEF PortsOf, LitNow, Range

\* The first of some slots.
LEMMA FirstSlot ==
  ASSUME NEW S \in SUBSET Slots, S # {}
  PROVE  Min(S) \in S /\ \A s \in S : Min(S) <= s
<1>1. S \subseteq Nat BY Numbers
<1>2. PICK m \in S : \A r \in S : <<r, m>> \notin OpToRel(<, Nat)
  BY <1>1, NatLessThanWellFounded, WFMin
<1>3. \A r \in S : ~(r < m) BY <1>1, <1>2, Zenon DEF OpToRel
<1>4. \A r \in S : m <= r BY <1>1, <1>3
<1> QED BY <1>4 DEF Min

\* The table with some runs ended, and what they leave to switch off.
LEMMA EndsFacts ==
  ASSUME Types, NEW ss \in SUBSET Slots, \A s \in ss : run[s].used
  PROVE  /\ DOMAIN Freed(ss) = Slots
         /\ \A s \in Slots : Freed(ss)[s] = IF s \in ss THEN NoRun ELSE run[s]
         /\ OffsOf(ss) \subseteq Ends
         /\ \A s \in ss : \E o \in OffsOf(ss) : o.ports = PortsOf(run[s])
         /\ \A o \in OffsOf(ss) : \E s \in ss : o.ports = PortsOf(run[s])
<1>1. \A s \in ss : run[s].gen \in Gens /\ PortsOf(run[s]) \subseteq Ports
  BY RunFields, RunPorts
<1>2. \A s \in ss : [gen |-> run[s].gen, ports |-> PortsOf(run[s])] \in OffsOf(ss)
  BY DEF OffsOf
<1>3. \A o \in OffsOf(ss) : \E s \in ss : o = [gen |-> run[s].gen, ports |-> PortsOf(run[s])]
  BY DEF OffsOf
<1>4. OffsOf(ss) \subseteq Ends BY <1>1, <1>3 DEF Ends
<1>5. DOMAIN Freed(ss) = Slots
      /\ \A s \in Slots : Freed(ss)[s] = IF s \in ss THEN NoRun ELSE run[s]
  BY DEF Freed
<1>6. \A s \in ss : \E o \in OffsOf(ss) : o.ports = PortsOf(run[s])
  <2> TAKE s \in ss
  <2>1. [gen |-> run[s].gen, ports |-> PortsOf(run[s])].ports = PortsOf(run[s]) OBVIOUS
  <2> QED BY <1>2, <2>1
<1>7. \A o \in OffsOf(ss) : \E s \in ss : o.ports = PortsOf(run[s])
  <2> TAKE o \in OffsOf(ss)
  <2>1. PICK s \in ss : o = [gen |-> run[s].gen, ports |-> PortsOf(run[s])] BY <1>3
  <2>2. o.ports = PortsOf(run[s]) BY <2>1
  <2> QED BY <2>2
<1> QED BY <1>4, <1>5, <1>6, <1>7

\* A thread's record as it was, or woken.
Alike(q, r) == q = r \/ (r.pc = "asleep" /\ q = [r EXCEPT !.pc = "lock"])

\* Waking a thread changes nothing else about it.
LEMMA AlikeFacts ==
  ASSUME NEW r \in Thread, NEW q, Alike(q, r)
  PROVE  /\ q \in Thread /\ (ThreadRight(r) => ThreadRight(q)) /\ ToRun(q) = ToRun(r)
         /\ q.op = r.op /\ q.arg = r.arg /\ q.at = r.at /\ q.wgen = r.wgen /\ q.offs = r.offs
         /\ q.slot = r.slot /\ q.then = r.then
         /\ (Waits(q) <=> Waits(r)) /\ (BeforeEdge(q) <=> BeforeEdge(r))
         /\ (Starts(q) <=> Starts(r)) /\ (ToPost(q) <=> ToPost(r))
         /\ (q.pc \in {"lock", "asleep"} <=> r.pc \in {"lock", "asleep"})
         /\ (q.pc \in {"idle", "ended"} <=> r.pc \in {"idle", "ended"})
<1>1. CASE q = r BY <1>1
<1>2. CASE r.pc = "asleep" /\ q = [r EXCEPT !.pc = "lock"]
  <2>1. /\ q.pc = "lock" /\ q.op = r.op /\ q.arg = r.arg /\ q.at = r.at /\ q.wgen = r.wgen
        /\ q.offs = r.offs /\ q.slot = r.slot /\ q.then = r.then /\ q \in Thread
    BY <1>2 DEF Thread
  <2>2. ThreadRight(r) => ThreadRight(q)
    BY <1>2, <2>1 DEF ThreadRight, ArgRight, Starts, BeforeEdge, ToPost
  <2> QED BY <1>2, <2>1, <2>2 DEF ToRun, Waits, Starts, BeforeEdge, ToPost
<1> QED BY <1>1, <1>2 DEF Alike

LEMMA WokenFacts ==
  ASSUME NEW f \in [Threads -> Thread]
  PROVE  Woken(f) \in [Threads -> Thread] /\ \A t \in Threads : Alike(Woken(f)[t], f[t])
<1>1. \A t \in Threads : Alike(Woken(f)[t], f[t]) BY DEF Woken, Alike
<1>2. \A t \in Threads : Woken(f)[t] \in Thread BY <1>1, AlikeFacts
<1>3. Woken(f) = [t \in Threads |-> Woken(f)[t]] BY DEF Woken
<1> QED BY <1>1, <1>2, <1>3

\* After unlocking, a thread has its ends to switch off and what it does next.
LEMMA OffsFirstFacts ==
  ASSUME NEW rec \in Thread, NEW next \in {"idle", "edge", "post", "ended"},
         NEW q, q = OffsFirst(rec, next)
  PROVE  /\ q \in Thread /\ q.offs = rec.offs /\ q.pc \notin {"lock", "asleep", "decided", "started"}
         /\ ~Waits(q) /\ ToRun(q) = 0 /\ (q.wgen = rec.wgen \/ q.wgen = 0)
         /\ (BeforeEdge(q) <=> next = "edge") /\ (Starts(q) <=> next = "edge")
         /\ (ToPost(q) <=> next = "post")
         /\ next \in {"edge", "post"} =>
              /\ q.op = rec.op /\ q.arg = rec.arg /\ q.slot = rec.slot /\ q.wgen = rec.wgen
         /\ (ArgRight(rec) /\ (next = "edge" => rec.op = "flash")
               /\ (next = "post" => rec.op = "output") => ThreadRight(q))
<1> USE DEF Waits, Starts, BeforeEdge, ToPost, ToRun
<1>0. Idle \in Thread /\ Idle.op = "none" /\ Idle.offs = {} /\ Idle.wgen = 0
      /\ Idle.pc = "idle"
  BY FlashParams DEF Idle, Thread, Args, Slots
<1>1. CASE rec.offs # {}
  <2>1. q = [rec EXCEPT !.pc = "offs", !.then = next] BY <1>1 DEF OffsFirst
  <2>2. /\ q \in Thread /\ q.pc = "offs" /\ q.then = next /\ q.offs = rec.offs
        /\ q.op = rec.op /\ q.arg = rec.arg /\ q.slot = rec.slot /\ q.wgen = rec.wgen
    BY <2>1 DEF Thread
  <2>3. ArgRight(rec) /\ (next = "edge" => rec.op = "flash")
          /\ (next = "post" => rec.op = "output") => ThreadRight(q)
    BY <2>2 DEF ThreadRight, ArgRight
  <2> QED BY <2>2, <2>3
<1>2. CASE rec.offs = {} /\ next \in {"idle", "ended"}
  <2>1. q = [Idle EXCEPT !.pc = next] BY <1>2 DEF OffsFirst
  <2>2. /\ q \in Thread /\ q.pc = next /\ q.offs = rec.offs /\ q.op = "none" /\ q.wgen = 0
    BY <1>0, <1>2, <2>1 DEF Thread
  <2>3. ThreadRight(q) BY <1>2, <2>2 DEF ThreadRight, ArgRight
  <2> QED BY <1>2, <2>2, <2>3
<1>3. CASE rec.offs = {} /\ next \notin {"idle", "ended"}
  <2>1. q = [rec EXCEPT !.pc = next] BY <1>3 DEF OffsFirst
  <2>2. /\ q \in Thread /\ q.pc = next /\ q.offs = rec.offs
        /\ q.op = rec.op /\ q.arg = rec.arg /\ q.slot = rec.slot /\ q.wgen = rec.wgen
    BY <1>3, <2>1 DEF Thread
  <2>3. ArgRight(rec) /\ (next = "edge" => rec.op = "flash")
          /\ (next = "post" => rec.op = "output") => ThreadRight(q)
    BY <1>3, <2>2 DEF ThreadRight, ArgRight
  <2> QED BY <1>3, <2>2, <2>3
<1> QED BY <1>1, <1>2, <1>3

\* The same run, perhaps with another count, light or request.
Same(q, r) ==
  /\ q.used = r.used
  /\ r.used => q.gen = r.gen /\ q.rule = r.rule /\ PortsOf(q) = PortsOf(r)

\* What an edge makes of a run.
LEMMA EdgeFacts ==
  ASSUME NEW r, RunRight(r)
  PROVE  \A q \in {r, AfterOn(r), LightUp(AfterOn(r)), LightUp(r)} :
           /\ RunRight([q EXCEPT !.busy = TRUE]) /\ Same([q EXCEPT !.busy = TRUE], r)
           /\ [q EXCEPT !.busy = TRUE].stop = r.stop /\ [q EXCEPT !.busy = TRUE].busy
           /\ PortsOf(q) = PortsOf(r) /\ LitNow(q) \subseteq PortsOf(r)
<1> DEFINE Like(q) == RunRight(q) /\ q.gen = r.gen /\ q.rule = r.rule /\ q.ports = r.ports
                      /\ q.stop = r.stop
<1>1. r \in Run /\ r.ports \in Seq(Ports) /\ r.idx \in Nat \ {0} /\ r.left \in Nat
      /\ r.idx <= Len(r.ports)
  BY DEF RunRight, Run
<1>2. Len(r.ports) \in Nat \ {0} BY <1>1
<1>3. (r.idx % Len(r.ports)) + 1 \in Nat \ {0} /\ (r.idx % Len(r.ports)) + 1 <= Len(r.ports)
  BY <1>1, <1>2
<1>4. CountedLeft(r) \in Nat BY <1>1 DEF CountedLeft
<1>5. \A n \in Nat, i \in Nat \ {0} : i <= Len(r.ports) =>
        Like([r EXCEPT !.lit = FALSE, !.left = n, !.idx = i])
  BY <1>1 DEF RunRight, Run
<1>6. Like(AfterOn(r))
  <2> DEFINE i == IF r.together THEN 1 ELSE (r.idx % Len(r.ports)) + 1
  <2>1. i \in Nat \ {0} /\ i <= Len(r.ports) BY <1>2, <1>3
  <2>2. AfterOn(r) = [r EXCEPT !.lit = FALSE, !.left = CountedLeft(r), !.idx = i]
    BY DEF AfterOn
  <2> HIDE DEF i, Like
  <2> QED BY <1>4, <1>5, <2>1, <2>2
<1>7. Like(r) OBVIOUS
<1>8. \A q : Like(q) => Like(LightUp(q)) BY DEF LightUp, RunRight, Run
<1>9. \A q \in {r, AfterOn(r), LightUp(AfterOn(r)), LightUp(r)} : Like(q) BY <1>6, <1>7, <1>8
<1>10. \A q : Like(q) =>
         /\ RunRight([q EXCEPT !.busy = TRUE]) /\ Same([q EXCEPT !.busy = TRUE], r)
         /\ [q EXCEPT !.busy = TRUE].stop = r.stop /\ [q EXCEPT !.busy = TRUE].busy
  BY <1>1 DEF RunRight, Run, Same, PortsOf
<1>11. \A q : Like(q) => PortsOf(q) = PortsOf(r) /\ LitNow(q) \subseteq PortsOf(r)
  BY RunPorts DEF RunRight, PortsOf
<1> HIDE DEF Like
<1> QED BY <1>9, <1>10, <1>11

\* A delay that has run out leaves the others.
LEMMA RemoveFacts ==
  ASSUME NEW q \in Seq(Flashes), NEW i \in DOMAIN q
  PROVE  RemoveAt(q, i) \in Seq(Flashes) /\ Len(RemoveAt(q, i)) = Len(q) - 1 /\ q[i] \in Flashes
<1>1. i \in 1 .. Len(q) /\ Len(q) \in Nat BY SMT
<1>2. SubSeq(q, 1, i - 1) \in Seq(Flashes) /\ Len(SubSeq(q, 1, i - 1)) = i - 1
  BY <1>1, SMT
<1>3. SubSeq(q, i + 1, Len(q)) \in Seq(Flashes) /\ Len(SubSeq(q, i + 1, Len(q))) = Len(q) - i
  BY <1>1, SMT
<1>4. \A x, y \in Seq(Flashes) : x \o y \in Seq(Flashes) /\ Len(x \o y) = Len(x) + Len(y)
  BY SMT
<1>5. RemoveAt(q, i) \in Seq(Flashes)
      /\ Len(RemoveAt(q, i)) = Len(SubSeq(q, 1, i - 1)) + Len(SubSeq(q, i + 1, Len(q)))
  BY <1>2, <1>3, <1>4 DEF RemoveAt
<1>6. Len(RemoveAt(q, i)) = (i - 1) + (Len(q) - i) BY <1>2, <1>3, <1>5, Zenon
<1>7. Len(RemoveAt(q, i)) = Len(q) - 1 BY <1>1, <1>6
<1>8. q[i] \in Flashes BY SMT
<1> QED BY <1>5, <1>7, <1>8

\* Only the other thread is woken by what thread t does to its record.
Turned(f, g, t, rec) == g[t] = rec /\ \A u \in Threads \ {t} : Alike(g[u], f[u])

LEMMA PendingFacts ==
  ASSUME NEW f \in [Threads -> Thread], NEW g, NEW t \in Threads, NEW rec,
         Turned(f, g, t, rec)
  PROVE  Pending(g) = Pending(f) - ToRun(f[t]) + ToRun(rec)
<1>1. \A r : ToRun(r) \in {0, 1} BY DEF ToRun
<1>2. \A u \in Threads \ {t} : ToRun(g[u]) = ToRun(f[u]) BY AlikeFacts DEF Turned
<1>3. CASE t = "main"
  <2>1. ToRun(g["http"]) = ToRun(f["http"]) BY <1>2, <1>3 DEF Threads
  <2>2. g["main"] = rec BY <1>3 DEF Turned
  <2> QED BY <1>1, <1>3, <2>1, <2>2 DEF Pending
<1>4. CASE t = "http"
  <2>1. ToRun(g["main"]) = ToRun(f["main"]) BY <1>2, <1>4 DEF Threads
  <2>2. g["http"] = rec BY <1>4 DEF Turned
  <2> QED BY <1>1, <1>4, <2>1, <2>2 DEF Pending
<1> QED BY <1>3, <1>4 DEF Threads

\* The records of the threads after such a change.
LEMMA TurnedFacts ==
  ASSUME NEW f \in [Threads -> Thread], NEW t \in Threads, NEW rec \in Thread
  PROVE  /\ [f EXCEPT ![t] = rec] \in [Threads -> Thread]
         /\ Turned(f, [f EXCEPT ![t] = rec], t, rec)
         /\ [Woken(f) EXCEPT ![t] = rec] \in [Threads -> Thread]
         /\ Turned(f, [Woken(f) EXCEPT ![t] = rec], t, rec)
BY WokenFacts DEF Turned, Alike

\* The threads' part of Types after such a change.
LEMMA TurnedTypes ==
  ASSUME Types, NEW t \in Threads, NEW CONSTANT rec \in Thread, ThreadRight(rec),
         Turned(th, th', t, rec), th' \in [Threads -> Thread],
         gen' \in Nat, starts' \in 0 .. MaxStarts, delayed' \in Seq(Flashes),
         gen' + Len(delayed') + ToRun(rec) - ToRun(th[t]) - starts'
           <= gen + Len(delayed) - starts
  PROVE  /\ gen' + Len(delayed') + Pending(th') <= starts'
         /\ \A u \in Threads : ThreadRight(th'[u])
<1>1. th \in [Threads -> Thread] /\ gen \in Nat /\ starts \in 0 .. MaxStarts
      /\ delayed \in Seq(Flashes) /\ gen + Len(delayed) + Pending(th) <= starts
      /\ \A u \in Threads : ThreadRight(th[u])
  BY DEF Types
<1>2. Pending(th') = Pending(th) - ToRun(th[t]) + ToRun(rec) BY <1>1, PendingFacts
<1>3. \A r : ToRun(r) \in {0, 1} BY DEF ToRun
<1>4. Pending(th) \in Nat /\ Len(delayed) \in Nat /\ Len(delayed') \in Nat
  <2>1. ToRun(th["main"]) \in {0, 1} /\ ToRun(th["http"]) \in {0, 1} BY <1>3
  <2> QED BY <1>1, <2>1 DEF Pending
<1>5. MaxStarts \in Nat BY FlashParams
<1>6. ToRun(rec) \in {0, 1} /\ ToRun(th[t]) \in {0, 1} BY <1>3
<1>7. gen' + Len(delayed') + Pending(th') <= starts'
  <2>1. \A p, g, g2, l, l2 \in Nat, n, n2 \in 0 .. MaxStarts, a, b \in {0, 1} :
          g + l + p <= n /\ g2 + l2 + a - b - n2 <= g + l - n => g2 + l2 + (p - b + a) <= n2
    BY <1>5
  <2> QED BY <1>1, <1>2, <1>4, <1>6, <2>1
<1>8. \A u \in Threads \ {t} : ThreadRight(th'[u]) BY <1>1, AlikeFacts DEF Turned
<1> QED BY <1>7, <1>8 DEF Turned

(***************************************************************************)
(* Steps that only set a thread to work.                                   *)
(***************************************************************************)

\* Thread t takes up an operation, or goes on to the lock, or leaves the rest to a timer.
Quiet(t, rec) ==
  /\ rec \in Thread /\ ThreadRight(rec)
  /\ th[t].pc \in {"idle", "decided"} /\ rec.pc \in {"idle", "decided", "lock"}
  /\ rec.wgen = 0 /\ rec.at = 1 /\ rec.offs = {}
  /\ th' = [th EXCEPT ![t] = rec]
  /\ th[t].pc = "decided" => overlap' = overlap
  /\ th[t].pc = "idle" => overlap' = (overlap \/ \E u \in Threads \ {t} : Busy(u))
  /\ UNCHANGED <<run, gen, worker, port, lost>>
  /\ rules' \in [Rules -> {"on", "off", "gone"}] /\ delayed' \in Seq(Flashes)
  /\ starts' \in 0 .. MaxStarts
  /\ gen + Len(delayed') + ToRun(rec) - ToRun(th[t]) - starts' <= gen + Len(delayed) - starts

\* The records that such a step makes.
Ready(r, pc, n) ==
  /\ r \in Thread /\ ThreadRight(r) /\ ToRun(r) = n
  /\ r.pc = pc /\ r.wgen = 0 /\ r.at = 1 /\ r.offs = {}

LEMMA QuietRecords ==
  /\ Ready(Idle, "idle", 0)
  /\ \A f \in Flashes, c \in BOOLEAN :
       /\ Ready([Idle EXCEPT !.pc = "decided", !.op = "flash", !.arg = f], "decided", 1)
       /\ Ready([Locking("flash", f) EXCEPT !.check = c], "lock", 1)
  /\ \A p \in Ports, c \in BOOLEAN :
       Ready(Locking("output", [port |-> p, closed |-> c]), "lock", 0)
  /\ \A r \in Rules : Ready(Locking("stop", [rule |-> r]), "lock", 0)
  /\ Ready([Locking("stopall", [rule |-> Test]) EXCEPT !.then = "ended"], "lock", 0)
<1> USE DEF Ready, ThreadRight, ArgRight, ToRun, Starts, BeforeEdge, ToPost
<1>1. /\ Ready(Idle, "idle", 0)
      /\ Idle.op = "none" /\ Idle.then = "idle"
  BY FlashParams DEF Idle, Thread, Args, Slots
<1>2. ASSUME NEW f \in Flashes, NEW c \in BOOLEAN,
             NEW d, d = [Idle EXCEPT !.pc = "decided", !.op = "flash", !.arg = f],
             NEW l, l = [Locking("flash", f) EXCEPT !.check = c]
      PROVE  Ready(d, "decided", 1) /\ Ready(l, "lock", 1)
  <2>1. f \in Args BY DEF Args
  <2>2. /\ d \in Thread /\ d.pc = "decided" /\ d.op = "flash" /\ d.arg = f /\ d.wgen = 0
        /\ d.at = 1 /\ d.offs = {}
    BY <1>1, <1>2, <2>1 DEF Thread
  <2>3. /\ l \in Thread /\ l.pc = "lock" /\ l.op = "flash" /\ l.arg = f /\ l.wgen = 0
        /\ l.at = 1 /\ l.offs = {} /\ l.then = "idle"
    BY <1>1, <1>2, <2>1 DEF Thread, Locking
  <2> QED BY <2>2, <2>3
<1>3. ASSUME NEW p \in Ports, NEW c \in BOOLEAN,
             NEW l, l = Locking("output", [port |-> p, closed |-> c])
      PROVE  Ready(l, "lock", 0)
  <2>1. PICK a \in [port : Ports, closed : BOOLEAN] : a = [port |-> p, closed |-> c] OBVIOUS
  <2>2. a \in Args BY DEF Args
  <2>3. /\ l \in Thread /\ l.pc = "lock" /\ l.op = "output" /\ l.arg = a /\ l.wgen = 0
        /\ l.at = 1 /\ l.offs = {} /\ l.then = "idle"
    BY <1>1, <1>3, <2>1, <2>2 DEF Thread, Locking
  <2> QED BY <2>3
<1>4. ASSUME NEW r \in Rules, NEW l, l = Locking("stop", [rule |-> r])
      PROVE  Ready(l, "lock", 0)
  <2>1. PICK a \in [rule : Rules \cup {Test}] : a = [rule |-> r] OBVIOUS
  <2>2. a \in Args BY DEF Args
  <2>3. /\ l \in Thread /\ l.pc = "lock" /\ l.op = "stop" /\ l.arg = a /\ l.wgen = 0
        /\ l.at = 1 /\ l.offs = {} /\ l.then = "idle"
    BY <1>1, <1>4, <2>1, <2>2 DEF Thread, Locking
  <2> QED BY <2>3
<1>5. ASSUME NEW l, l = [Locking("stopall", [rule |-> Test]) EXCEPT !.then = "ended"]
      PROVE  Ready(l, "lock", 0)
  <2>1. PICK a \in [rule : Rules \cup {Test}] : a = [rule |-> Test] OBVIOUS
  <2>2. a \in Args BY DEF Args
  <2>3. /\ l \in Thread /\ l.pc = "lock" /\ l.op = "stopall" /\ l.arg = a /\ l.wgen = 0
        /\ l.at = 1 /\ l.offs = {} /\ l.then = "ended"
    BY <1>1, <1>5, <2>1, <2>2 DEF Thread, Locking
  <2> QED BY <2>3
<1> HIDE DEF Ready
<1> QED BY <1>1, <1>2, <1>3, <1>4, <1>5

\* A step that sets thread t, at rest, to work.
LEMMA SetOutQuiet ==
  ASSUME Types, NEW t \in Threads, NEW CONSTANT rec \in Thread, NEW CONSTANT pc \in {"decided", "lock"},
         NEW CONSTANT n \in {0, 1}, Ready(rec, pc, n), SetOut(t, rec),
         UNCHANGED <<run, gen, worker, port, lost>>,
         rules' \in [Rules -> {"on", "off", "gone"}], delayed' \in Seq(Flashes),
         starts' \in 0 .. MaxStarts, Len(delayed') + n - starts' <= Len(delayed) - starts
  PROVE  Quiet(t, rec)
<1>1. /\ th[t].pc = "idle" /\ th' = [th EXCEPT ![t] = rec]
      /\ overlap' = (overlap \/ \E u \in Threads \ {t} : Busy(u))
  BY DEF SetOut
<1>2. ToRun(th[t]) = 0 BY <1>1 DEF ToRun
<1>3. gen \in Nat /\ starts \in 0 .. MaxStarts /\ Len(delayed) \in Nat /\ Len(delayed') \in Nat
  BY DEF Types
<1>4. gen + Len(delayed') + n - 0 - starts' <= gen + Len(delayed) - starts
  BY <1>3, FlashParams
<1> QED BY <1>1, <1>2, <1>4 DEF Quiet, Ready

LEMMA Quiets ==
  ASSUME Types,
         \/ \E t \in Threads, f \in Flashes : Decide(t, f)
         \/ \E i \in DOMAIN delayed : Resume(i)
         \/ \E t \in Threads, p \in Ports, closed \in BOOLEAN : Output(t, p, closed)
         \/ \E t \in Threads, r \in Rules, new \in {"on", "off", "gone"} : Change(t, r, new)
         \/ \E r \in Rules : Undo(r)
         \/ StopAll
         \/ \E t \in Threads : Delay(t) \/ ReadEnabled(t)
  PROVE  \E t \in Threads, rec \in Thread : Quiet(t, rec)
<1>0. /\ rules \in [Rules -> {"on", "off", "gone"}] /\ delayed \in Seq(Flashes)
      /\ starts \in 0 .. MaxStarts /\ gen \in Nat /\ Len(delayed) \in Nat
      /\ MaxStarts \in Nat /\ th \in [Threads -> Thread] /\ \A t \in Threads : ThreadRight(th[t])
  BY FlashParams DEF Types
<1>1. ASSUME NEW t \in Threads, NEW f \in Flashes, Decide(t, f)
      PROVE  \E rec \in Thread : Quiet(t, rec)
  <2>1. PICK rec : rec = [Idle EXCEPT !.pc = "decided", !.op = "flash", !.arg = f] OBVIOUS
  <2>2. Ready(rec, "decided", 1) /\ rec \in Thread BY <2>1, QuietRecords DEF Ready
  <2>3. SetOut(t, rec) /\ UNCHANGED <<rules, delayed, run, gen, worker, port, lost>>
        /\ starts < MaxStarts /\ starts' = starts + 1
    BY <1>1, <2>1 DEF Decide
  <2>4. starts' \in 0 .. MaxStarts /\ Len(delayed') + 1 - starts' <= Len(delayed) - starts
    BY <1>0, <2>3
  <2> QED BY <1>0, <2>2, <2>3, <2>4, SetOutQuiet
<1>2. ASSUME NEW i \in DOMAIN delayed, Resume(i)
      PROVE  \E rec \in Thread : Quiet("main", rec)
  <2>1. PICK rec : rec = [Idle EXCEPT !.pc = "decided", !.op = "flash", !.arg = delayed[i]]
    OBVIOUS
  <2>2. delayed[i] \in Flashes BY <1>0, RemoveFacts
  <2>3. Ready(rec, "decided", 1) /\ rec \in Thread BY <2>1, <2>2, QuietRecords DEF Ready
  <2>4. SetOut("main", rec) /\ UNCHANGED <<rules, run, gen, worker, port, lost, starts>>
        /\ delayed' = RemoveAt(delayed, i)
    BY <1>2, <2>1 DEF Resume, count
  <2>5. delayed' \in Seq(Flashes) /\ Len(delayed') = Len(delayed) - 1
    BY <1>0, <2>4, RemoveFacts
  <2>6. starts' \in 0 .. MaxStarts /\ Len(delayed') + 1 - starts' <= Len(delayed) - starts
    BY <1>0, <2>4, <2>5
  <2> QED BY <1>0, <2>3, <2>4, <2>5, <2>6, Numbers, SetOutQuiet
<1>3. ASSUME NEW t \in Threads, NEW p \in Ports, NEW closed \in BOOLEAN, Output(t, p, closed)
      PROVE  \E rec \in Thread : Quiet(t, rec)
  <2>1. PICK rec : rec = Locking("output", [port |-> p, closed |-> closed]) OBVIOUS
  <2>2. Ready(rec, "lock", 0) /\ rec \in Thread BY ZenonT(40), <2>1, QuietRecords DEF Ready
  <2>3. SetOut(t, rec) /\ UNCHANGED <<rules, delayed, run, gen, worker, port, lost, starts>>
    BY <1>3, <2>1 DEF Output
  <2> QED BY <1>0, <2>2, <2>3, SetOutQuiet
<1>4. ASSUME NEW t \in Threads, NEW r \in Rules, NEW new \in {"on", "off", "gone"},
             Change(t, r, new)
      PROVE  \E rec \in Thread : Quiet(t, rec)
  <2>1. PICK rec : rec = Locking("stop", [rule |-> r]) OBVIOUS
  <2>2. Ready(rec, "lock", 0) /\ rec \in Thread BY <2>1, QuietRecords DEF Ready
  <2>3. SetOut(t, rec) /\ UNCHANGED <<delayed, run, gen, worker, port, lost, starts>>
        /\ rules' = [rules EXCEPT ![r] = new]
    BY <1>4, <2>1 DEF Change
  <2>4. rules' \in [Rules -> {"on", "off", "gone"}] BY <1>0, <2>3
  <2> QED BY <1>0, <2>2, <2>3, <2>4, SetOutQuiet
<1>5. ASSUME NEW r \in Rules, Undo(r) PROVE \E rec \in Thread : Quiet("main", rec)
  <2>1. PICK rec : rec = Locking("stop", [rule |-> r]) OBVIOUS
  <2>2. Ready(rec, "lock", 0) /\ rec \in Thread BY <2>1, QuietRecords DEF Ready
  <2>3. SetOut("main", rec) /\ UNCHANGED <<rules, delayed, run, gen, worker, port, lost, starts>>
    BY <1>5, <2>1 DEF Undo
  <2> QED BY <1>0, <2>2, <2>3, Numbers, SetOutQuiet
<1>6. CASE StopAll
  <2>1. PICK rec : rec = [Locking("stopall", [rule |-> Test]) EXCEPT !.then = "ended"] OBVIOUS
  <2>2. Ready(rec, "lock", 0) /\ rec \in Thread BY <2>1, QuietRecords DEF Ready
  <2>3. SetOut("main", rec) /\ UNCHANGED <<rules, delayed, run, gen, worker, port, lost, starts>>
    BY <1>6, <2>1 DEF StopAll, count
  <2>4. Quiet("main", rec) BY <1>0, <2>2, <2>3, Numbers, SetOutQuiet
  <2> QED BY <2>2, <2>4, Numbers
<1>7. ASSUME NEW t \in Threads, Delay(t) PROVE Quiet(t, Idle) /\ Idle \in Thread
  <2>1. /\ th[t].pc = "decided" /\ th' = [th EXCEPT ![t] = Idle]
        /\ delayed' = Append(delayed, th[t].arg)
        /\ UNCHANGED <<rules, run, gen, worker, port, lost, starts, overlap>>
    BY <1>7 DEF Delay, count, hist
  <2>2. th[t].op = "flash" /\ th[t].arg \in Flashes /\ ToRun(th[t]) = 1
    BY <1>0, <2>1 DEF ThreadRight, ArgRight, ToRun
  <2>3. delayed' \in Seq(Flashes) /\ Len(delayed') = Len(delayed) + 1 BY <1>0, <2>1, <2>2
  <2>4. gen + Len(delayed') + 0 - 1 - starts' <= gen + Len(delayed) - starts
    BY <1>0, <2>1, <2>3
  <2> QED BY <1>0, <2>1, <2>2, <2>3, <2>4, QuietRecords DEF Quiet, Ready
<1>8. ASSUME NEW t \in Threads, ReadEnabled(t) PROVE \E rec \in Thread : Quiet(t, rec)
  <2>1. PICK c \in BOOLEAN : c = (th[t].arg.rule # Test /\ rules[th[t].arg.rule] = "on") OBVIOUS
  <2>2. PICK rec : rec = [Locking("flash", th[t].arg) EXCEPT !.check = c] OBVIOUS
  <2>3. /\ th[t].pc = "decided" /\ th' = [th EXCEPT ![t] = rec]
        /\ UNCHANGED <<rules, delayed, run, gen, worker, port, lost, starts, overlap>>
    BY <1>8, <2>1, <2>2 DEF ReadEnabled, count, hist
  <2>4. th[t].op = "flash" /\ th[t].arg \in Flashes /\ ToRun(th[t]) = 1
    BY <1>0, <2>3 DEF ThreadRight, ArgRight, ToRun
  <2>5. Ready(rec, "lock", 1) BY <2>2, <2>4, QuietRecords
  <2>6. gen + Len(delayed') + 1 - 1 - starts' <= gen + Len(delayed) - starts
    BY <1>0, <2>3
  <2> QED BY <1>0, <2>3, <2>4, <2>5, <2>6 DEF Quiet, Ready
<1> QED BY <1>1, <1>2, <1>3, <1>4, <1>5, <1>6, <1>7, <1>8, Numbers

\* It keeps the types.
LEMMA QuietTypes ==
  ASSUME Types, NEW t \in Threads, NEW CONSTANT rec \in Thread, Quiet(t, rec)
  PROVE  Types'
<1>1. /\ th \in [Threads -> Thread] /\ th' = [th EXCEPT ![t] = rec] /\ ThreadRight(rec)
      /\ gen' = gen /\ gen' \in Nat /\ overlap \in BOOLEAN
  BY DEF Types, Quiet
<1>2. th' \in [Threads -> Thread] /\ Turned(th, th', t, rec) BY <1>1, TurnedFacts
<1>3. /\ starts' \in 0 .. MaxStarts /\ delayed' \in Seq(Flashes)
      /\ gen' + Len(delayed') + ToRun(rec) - ToRun(th[t]) - starts'
           <= gen + Len(delayed) - starts
  BY <1>1 DEF Quiet
<1>4. /\ gen' + Len(delayed') + Pending(th') <= starts'
      /\ \A u \in Threads : ThreadRight(th'[u])
  BY <1>1, <1>2, <1>3, TurnedTypes
<1>5. overlap' \in BOOLEAN BY <1>1 DEF Quiet
<1> QED BY <1>1, <1>2, <1>3, <1>4, <1>5 DEF Quiet, Types

(***************************************************************************)
(* What each step on the table or on ports does.                           *)
(***************************************************************************)

\* The same run, with the same request in flight and the same wish to stop it.
Steady(q, r) == Same(q, r) /\ (r.used => q.busy = r.busy /\ q.stop = r.stop)

\* A request: of the ports that are not lost, those in ps were switched.
Sets(on, s, ps) ==
  \A p \in Ports \ lost' :
    IF p \in ps THEN port'[p] = IF p \in on THEN s ELSE "off"
    ELSE port'[p] = port[p] /\ p \notin lost

LEMMA SwitchFacts ==
  ASSUME Types, NEW s \in {"off", "flash", "set"}, NEW ps \in SUBSET Ports,
         NEW on \in SUBSET ps,
         Switch(on, s, ps) \/ SwitchFails(ps)
  PROVE  /\ Sets(on, s, ps)
         /\ port' \in [Ports -> {"off", "flash", "set"}] /\ lost' \subseteq Ports
<1>0. port \in [Ports -> {"off", "flash", "set"}] /\ lost \subseteq Ports BY DEF Types
<1>1. CASE Switch(on, s, ps)
  <2>1. port' = [p \in Ports |-> IF p \in on THEN s ELSE IF p \in ps THEN "off" ELSE port[p]]
        /\ lost' = lost \ (on \cup ps)
    BY <1>1 DEF Switch
  <2> QED BY <1>0, <2>1 DEF Sets
<1>2. CASE SwitchFails(ps)
  <2>1. port' = port /\ lost' = lost \cup ps BY <1>2 DEF SwitchFails
  <2> QED BY <1>0, <2>1 DEF Sets
<1> QED BY <1>1, <1>2

\* A run with new limits.
Refreshed(r, ps, a, b, n, c, d, e) ==
  [r EXCEPT !.ports = ps, !.together = a, !.gap = b, !.left = n, !.counted = c,
            !.timed = d, !.late = FALSE, !.check = e]

Renewed(q, r, ps) ==
  /\ q \in Run /\ q.ports = ps /\ q.idx = r.idx /\ q.used = r.used /\ q.gen = r.gen
  /\ q.rule = r.rule /\ q.busy = r.busy /\ q.stop = r.stop

LEMMA RefreshedRun ==
  \A r \in Run, ps \in Seq(Ports), a, b, c, d, e \in BOOLEAN, n \in Nat :
    Renewed(Refreshed(r, ps, a, b, n, c, d, e), r, ps)
<1> SUFFICES ASSUME NEW r \in Run, NEW ps \in Seq(Ports), NEW a \in BOOLEAN,
                    NEW b \in BOOLEAN, NEW c \in BOOLEAN, NEW d \in BOOLEAN,
                    NEW e \in BOOLEAN, NEW n \in Nat,
                    NEW q, q = Refreshed(r, ps, a, b, n, c, d, e)
             PROVE  Renewed(q, r, ps)
  OBVIOUS
<1> USE DEF Renewed
<1>1. PICK q1 : q1 = [r EXCEPT !.ports = ps, !.together = a, !.gap = b, !.left = n] OBVIOUS
<1>2. /\ q1 \in Run /\ q1.ports = ps /\ q1.idx = r.idx /\ q1.used = r.used /\ q1.gen = r.gen
      /\ q1.rule = r.rule /\ q1.busy = r.busy /\ q1.stop = r.stop
  BY <1>1 DEF Run
<1>3. PICK q2 : q2 = [q1 EXCEPT !.counted = c, !.timed = d] OBVIOUS
<1>4. /\ q2 \in Run /\ q2.ports = ps /\ q2.idx = r.idx /\ q2.used = r.used /\ q2.gen = r.gen
      /\ q2.rule = r.rule /\ q2.busy = r.busy /\ q2.stop = r.stop
  BY <1>2, <1>3 DEF Run
<1>5. q = [q2 EXCEPT !.late = FALSE, !.check = e]
  BY <1>1, <1>3 DEF Refreshed
<1> QED BY ZenonT(40), <1>4, <1>5 DEF Run

\* A thread that refreshes a run.
LEMMA RefreshDoes ==
  ASSUME Types, NEW t \in Threads, Refresh(t)
  PROVE  /\ th[t].pc = "lock" /\ th[t].wgen = 0 /\ Turned(th, th', t, Idle)
         /\ \A s \in Slots : Steady(run'[s], run[s])
         /\ UNCHANGED <<gen, worker, port, lost, overlap>>
         /\ Types'
<1> DEFINE T == {x \in Slots : SameRun(t, x)}
           s == Min(T)
           f == th[t].arg
<1>1. /\ th[t].pc = "lock" /\ th[t].wgen = 0 /\ T # {}
  BY DEF Refresh, Refreshable
<1>2. s \in Slots /\ SameRun(t, s) BY <1>1, FirstSlot
<1>3. /\ run' = [run EXCEPT ![s].ports = f.ports, ![s].together = f.together,
                        ![s].gap = f.gap, ![s].left = f.count,
                        ![s].counted = f.count > 0, ![s].timed = f.timed,
                        ![s].late = FALSE, ![s].check = th[t].check]
      /\ th' = [th EXCEPT ![t] = Idle]
      /\ UNCHANGED <<rules, delayed, gen, worker, port, lost, overlap, starts>>
  BY DEF Refresh, count, hist
<1> HIDE DEF s
<1>4. Steady(run'[s], run[s]) /\ RunRight(run'[s])
  <2>1. /\ run[s] \in Run /\ RunRight(run[s]) /\ run[s].used
        /\ th[t].op = "flash" /\ PortsOf(run[s]) = PortsOf(f)
    BY <1>2, RunFields DEF SameRun
  <2>2. f \in Flashes /\ th[t].check \in BOOLEAN
    BY <2>1 DEF Types, ThreadRight, ArgRight, Thread
  <2>3. /\ f.ports \in Seq(Ports) /\ Distinct(f.ports) /\ f.together \in BOOLEAN
        /\ f.gap \in BOOLEAN /\ f.count \in Nat /\ f.timed \in BOOLEAN
    BY <2>2, FlashPorts DEF FlashConfig, Distinct
  <2>4. Len(run[s].ports) = Len(f.ports)
    BY <2>1, <2>3, SameLength DEF PortsOf, RunRight, Run
  <2>5. run'[s] = [run[s] EXCEPT !.ports = f.ports, !.together = f.together,
                        !.gap = f.gap, !.left = f.count,
                        !.counted = f.count > 0, !.timed = f.timed,
                        !.late = FALSE, !.check = th[t].check]
    BY <1>2, <1>3 DEF Types
  <2>6. PICK c \in BOOLEAN : c = (f.count > 0)
    <3>1. (f.count > 0) \in BOOLEAN OBVIOUS
    <3> QED BY <3>1
  <2>7. /\ run'[s] \in Run /\ run'[s].ports = f.ports /\ run'[s].idx = run[s].idx
        /\ run'[s].used = run[s].used /\ run'[s].gen = run[s].gen
        /\ run'[s].rule = run[s].rule /\ run'[s].busy = run[s].busy
        /\ run'[s].stop = run[s].stop
    <3>1. run'[s] = Refreshed(run[s], f.ports, f.together, f.gap, f.count, c, f.timed,
                              th[t].check)
      BY <2>5, <2>6 DEF Refreshed
    <3>2. /\ run[s] \in Run /\ f.ports \in Seq(Ports) /\ f.together \in BOOLEAN
          /\ f.gap \in BOOLEAN /\ f.count \in Nat /\ f.timed \in BOOLEAN
          /\ th[t].check \in BOOLEAN
      BY <2>1, <2>2, <2>3
    <3>3. Renewed(run'[s], run[s], f.ports) BY SMTT(30), <3>1, <3>2, RefreshedRun
    <3> QED BY <3>3 DEF Renewed
  <2>8. RunRight(run'[s]) BY <2>1, <2>3, <2>4, <2>7 DEF RunRight
  <2>9. PortsOf(run'[s]) = PortsOf(run[s]) BY <2>1, <2>7 DEF PortsOf
  <2> QED BY <2>7, <2>8, <2>9 DEF Steady, Same
<1>5. DOMAIN run' = Slots /\ \A x \in Slots \ {s} : run'[x] = run[x] BY <1>3 DEF Types
<1>6. \A x \in Slots : Steady(run'[x], run[x]) BY <1>4, <1>5 DEF Steady, Same
<1>7. \A x \in Slots : run'[x] = NoRun \/ RunRight(run'[x]) BY <1>4, <1>5 DEF Types
<1>8. /\ th \in [Threads -> Thread] /\ Idle \in Thread /\ ThreadRight(Idle) /\ ToRun(Idle) = 0
      /\ gen \in Nat /\ delayed \in Seq(Flashes) /\ starts \in 0 .. MaxStarts
  BY QuietRecords DEF Types, Ready
<1>9. th' \in [Threads -> Thread] /\ Turned(th, th', t, Idle) BY <1>3, <1>8, TurnedFacts
<1>10. gen' + Len(delayed') + 0 - ToRun(th[t]) - starts' <= gen + Len(delayed) - starts
  <2>1. ToRun(th[t]) \in {0, 1} BY DEF ToRun
  <2>2. gen' = gen /\ delayed' = delayed /\ starts' = starts BY <1>3
  <2>3. gen \in Nat /\ Len(delayed) \in Nat /\ starts \in Nat BY <1>8, FlashParams
  <2> QED BY <2>1, <2>2, <2>3
<1>11. /\ gen' + Len(delayed') + Pending(th') <= starts'
       /\ \A u \in Threads : ThreadRight(th'[u])
  BY <1>3, <1>8, <1>9, <1>10, TurnedTypes
<1>12. Types' BY <1>3, <1>5, <1>7, <1>9, <1>11 DEF Types
<1> QED BY <1>1, <1>3, <1>6, <1>9, <1>12

\* The runs in the way of a thread are in the table.
LEMMA HitsFacts ==
  ASSUME Types, NEW t \in Threads
  PROVE  /\ Hits(t) \subseteq Slots /\ Stuck(t) \subseteq Hits(t)
         /\ \A s \in Hits(t) : run[s].used /\ MustEnd(t, s)
         /\ \A s \in Hits(t) : s \in Stuck(t) <=> run[s].busy
BY DEF Hits, Stuck, MustEnd

\* The threads' part of Types after a step that sets out for nothing new.
LEMMA TurnKeeps ==
  ASSUME Types, NEW t \in Threads, NEW CONSTANT rec \in Thread, ThreadRight(rec),
         Turned(th, th', t, rec), th' \in [Threads -> Thread],
         UNCHANGED <<starts, delayed>>, gen' \in Nat,
         gen' - gen + ToRun(rec) <= ToRun(th[t])
  PROVE  /\ gen' + Len(delayed') + Pending(th') <= starts'
         /\ \A u \in Threads : ThreadRight(th'[u])
<1>1. gen \in Nat /\ delayed' = delayed /\ starts' = starts /\ delayed \in Seq(Flashes)
      /\ starts \in 0 .. MaxStarts
  BY DEF Types
<1>2. ToRun(rec) \in {0, 1} /\ ToRun(th[t]) \in {0, 1} BY DEF ToRun
<1>3. Len(delayed) \in Nat BY <1>1
<1>4. gen' + Len(delayed') + ToRun(rec) - ToRun(th[t]) - starts' <= gen + Len(delayed) - starts
  BY <1>1, <1>2, <1>3, FlashParams
<1> QED BY <1>1, <1>4, TurnedTypes

\* A thread that goes to sleep for slot j, having ended the runs of ended.
WaitsFor(t, j, ended, me) ==
  /\ th[t].pc = "lock" /\ j \in Hits(t) /\ run[j].busy /\ j \notin ended
  /\ ended \subseteq Hits(t)
  /\ \A s \in ended : ~run[s].busy
  /\ \A s \in Hits(t) \ ended : j <= s
  /\ Turned(th, th', t, me) /\ me.pc = "asleep" /\ me.at = j /\ me.wgen = run[j].gen
  /\ me.op = th[t].op /\ me.arg = th[t].arg /\ me.offs = th[t].offs \cup OffsOf(ended)
  /\ \A s \in ended : run'[s] = NoRun
  /\ \A s \in Slots \ ended : Same(run'[s], run[s]) /\ run'[s].busy = run[s].busy
  /\ \A s \in Slots \ (ended \cup {j}) : run'[s] = run[s]
  /\ run'[j].stop
  /\ UNCHANGED <<gen, worker, port, lost, overlap>>

LEMMA ScanWaitsDoes ==
  ASSUME Types, NEW t \in Threads, ScanWaits(t)
  PROVE  /\ Types'
         /\ \E j \in Slots, ended \in SUBSET Slots, me \in Thread : WaitsFor(t, j, ended, me)
<1> DEFINE j == Min(Stuck(t))
           ended == {s \in Hits(t) : s < j}
           me == [th[t] EXCEPT !.pc = "asleep", !.at = j, !.wgen = run[j].gen,
                               !.offs = @ \cup OffsOf(ended)]
<1>1. /\ th[t].pc = "lock" /\ Stuck(t) # {}
      /\ run' = [Freed(ended) EXCEPT ![j].stop = TRUE]
      /\ th' = [(IF ended = {} THEN th ELSE Woken(th)) EXCEPT ![t] = me]
      /\ UNCHANGED <<rules, delayed, gen, worker, port, lost, overlap, starts>>
  BY DEF ScanWaits, count, hist
<1>2. j \in Stuck(t) /\ \A s \in Stuck(t) : j <= s
  BY <1>1, HitsFacts, FirstSlot
<1> HIDE DEF j
<1>3. j \in Slots /\ j \in Hits(t) /\ run[j].busy /\ run[j].used /\ run[j].gen \in Gens
  BY <1>2, HitsFacts, RunFields
<1>4. ended \in SUBSET Slots /\ ended \subseteq Hits(t) /\ \A s \in ended : run[s].used
  BY HitsFacts
<1>5. j \notin ended BY <1>3, Numbers
<1>6. \A s \in ended : ~run[s].busy
  <2> SUFFICES ASSUME NEW s \in ended, run[s].busy PROVE FALSE OBVIOUS
  <2>1. s \in Stuck(t) /\ s < j /\ s \in Slots BY <1>4, HitsFacts
  <2>2. j <= s BY <1>2, <2>1
  <2>3. s \in Nat /\ j \in Nat BY <1>3, <2>1, Numbers
  <2> QED BY <2>1, <2>2, <2>3
<1>7. \A s \in Hits(t) \ ended : j <= s
  <2> TAKE s \in Hits(t) \ ended
  <2>1. s \in Nat /\ j \in Nat BY <1>3, HitsFacts, Numbers
  <2>2. ~(s < j) OBVIOUS
  <2> QED BY <2>1, <2>2
<1> HIDE DEF ended
<1>8. /\ th \in [Threads -> Thread] /\ th[t] \in Thread /\ ThreadRight(th[t])
      /\ gen \in Nat
  BY DEF Types
<1>9. OffsOf(ended) \subseteq Ends BY <1>4, EndsFacts
<1>10. /\ me \in Thread /\ me.pc = "asleep" /\ me.at = j /\ me.wgen = run[j].gen
       /\ me.op = th[t].op /\ me.arg = th[t].arg /\ me.offs = th[t].offs \cup OffsOf(ended)
       /\ me.then = th[t].then
  <2>1. th[t].offs \cup OffsOf(ended) \in SUBSET Ends /\ run[j].gen \in 0 .. MaxStarts
    BY <1>3, <1>8, <1>9, Numbers DEF Thread
  <2> QED BY <1>3, <1>8, <2>1 DEF Thread
<1>11. ThreadRight(me) /\ ToRun(me) = ToRun(th[t])
  <2>1. me.wgen # 0 BY <1>3, <1>10, Numbers
  <2> QED BY <1>1, <1>8, <1>10, <2>1 DEF ThreadRight, ArgRight, Starts, BeforeEdge, ToPost, ToRun
<1> HIDE DEF me
<1>12. Turned(th, th', t, me) /\ th' \in [Threads -> Thread]
  <2>1. CASE ended = {}
    <3>1. th' = [th EXCEPT ![t] = me] BY <1>1, <2>1
    <3> QED BY <1>8, <1>10, <3>1, TurnedFacts
  <2>2. CASE ended # {}
    <3>1. th' = [Woken(th) EXCEPT ![t] = me] BY <1>1, <2>2
    <3> QED BY <1>8, <1>10, <3>1, TurnedFacts
  <2> QED BY <2>1, <2>2
<1>13. /\ DOMAIN run' = Slots /\ \A s \in ended : run'[s] = NoRun
       /\ \A s \in Slots \ (ended \cup {j}) : run'[s] = run[s]
       /\ run'[j] = [run[j] EXCEPT !.stop = TRUE]
  <2>1. /\ DOMAIN Freed(ended) = Slots
        /\ \A s \in Slots : Freed(ended)[s] = IF s \in ended THEN NoRun ELSE run[s]
    BY <1>4, EndsFacts
  <2> HIDE DEF Freed
  <2> QED BY <1>1, <1>3, <1>4, <1>5, <2>1
<1>14. /\ RunRight(run'[j]) /\ run'[j].stop /\ Same(run'[j], run[j])
       /\ run'[j].busy = run[j].busy
  <2>1. RunRight(run[j]) /\ run[j] \in Run BY <1>3, RunFields
  <2> QED BY <1>13, <2>1 DEF RunRight, Run, Same, PortsOf
<1>15. \A s \in Slots \ ended : Same(run'[s], run[s]) /\ run'[s].busy = run[s].busy
  BY <1>13, <1>14 DEF Same
<1>16. \A s \in Slots : run'[s] = NoRun \/ RunRight(run'[s])
  BY <1>13, <1>14 DEF Types
<1>17. gen' = gen /\ gen' - gen + ToRun(me) <= ToRun(th[t])
  <2>1. ToRun(me) \in {0, 1} BY DEF ToRun
  <2> QED BY <1>1, <1>8, <1>11, <2>1
<1>18. /\ gen' + Len(delayed') + Pending(th') <= starts'
       /\ \A u \in Threads : ThreadRight(th'[u])
  BY <1>1, <1>8, <1>10, <1>11, <1>12, <1>17, TurnKeeps
<1>19. Types' BY <1>1, <1>12, <1>13, <1>16, <1>18 DEF Types
<1>20. WaitsFor(t, j, ended, me)
  BY <1>1, <1>3, <1>4, <1>5, <1>6, <1>7, <1>10, <1>12, <1>13, <1>14, <1>15 DEF WaitsFor
<1> QED BY <1>3, <1>4, <1>10, <1>19, <1>20

\* What a thread comes away with when nothing is in its way any more.
LEMMA ScanEnds ==
  ASSUME Types, NEW t \in Threads, ScanDone(t)
  PROVE  /\ Hits(t) \in SUBSET Slots /\ \A s \in Hits(t) : run[s].used /\ ~run[s].busy
         /\ th[t].pc = "lock" /\ th[t] \in Thread /\ ThreadRight(th[t])
         /\ OffsOf(Hits(t)) \subseteq Ends
         /\ DOMAIN Freed(Hits(t)) = Slots
         /\ \A s \in Slots : Freed(Hits(t))[s] = IF s \in Hits(t) THEN NoRun ELSE run[s]
         /\ UNCHANGED <<rules, delayed, worker, port, lost, overlap, starts>>
<1>1. /\ th[t].pc = "lock" /\ Stuck(t) = {}
      /\ UNCHANGED <<rules, delayed, worker, port, lost, overlap, starts>>
  BY DEF ScanDone, count, hist
<1>2. Hits(t) \in SUBSET Slots /\ \A s \in Hits(t) : run[s].used /\ ~run[s].busy
  BY <1>1, HitsFacts
<1>3. th[t] \in Thread /\ ThreadRight(th[t]) BY DEF Types
<1>4. /\ OffsOf(Hits(t)) \subseteq Ends
      /\ DOMAIN Freed(Hits(t)) = Slots
      /\ \A s \in Slots : Freed(Hits(t))[s] = IF s \in Hits(t) THEN NoRun ELSE run[s]
  BY <1>2, EndsFacts
<1> QED BY <1>1, <1>2, <1>3, <1>4

\* A flash that gets slot m for a new run, having ended the runs in its way.
TakesSlot(t, m, me) ==
  /\ th[t].pc = "lock" /\ th[t].op = "flash" /\ th[t].arg \in Flashes
  /\ Hits(t) \subseteq Slots /\ \A s \in Hits(t) : run[s].used /\ ~run[s].busy
  /\ m \in Hits(t) \/ ~run[m].used
  /\ Turned(th, th', t, me) /\ BeforeEdge(me) /\ ~Waits(me) /\ ~ToPost(me)
  /\ me.pc \notin {"lock", "asleep", "started", "idle", "ended"}
  /\ me.arg = th[t].arg /\ me.slot = m /\ me.wgen = gen + 1
  /\ me.offs = th[t].offs \cup OffsOf(Hits(t))
  /\ run'[m].used /\ run'[m].busy /\ ~run'[m].stop /\ run'[m].gen = gen + 1
  /\ PortsOf(run'[m]) = PortsOf(th[t].arg)
  /\ \A s \in Hits(t) \ {m} : run'[s] = NoRun
  /\ \A s \in Slots \ (Hits(t) \cup {m}) : run'[s] = run[s]
  /\ gen \in Nat /\ gen' = gen + 1 /\ gen + 1 \in Gens
  /\ UNCHANGED <<worker, port, lost, overlap>>

\* Any other operation, or a flash that finds no free slot.
TakesNone(t, me) ==
  /\ th[t].pc = "lock"
  /\ Hits(t) \subseteq Slots /\ \A s \in Hits(t) : run[s].used /\ ~run[s].busy
  /\ Turned(th, th', t, me) /\ ~Starts(me) /\ ~Waits(me)
  /\ me.pc \notin {"lock", "asleep"}
  /\ ToPost(me) => th[t].op = "output" /\ me.arg = th[t].arg
  /\ me.offs = th[t].offs \cup OffsOf(Hits(t)) /\ me.wgen = 0
  /\ \A s \in Hits(t) : run'[s] = NoRun
  /\ \A s \in Slots \ Hits(t) : run'[s] = run[s]
  /\ UNCHANGED <<gen, worker, port, lost, overlap>>

\* A new run.
LEMMA NewRunFacts ==
  ASSUME NEW f \in Flashes, NEW c \in BOOLEAN, NEW g \in Gens, NEW r, r = NewRun(f, c, g)
  PROVE  /\ RunRight(r) /\ r.used /\ r.busy /\ ~r.stop /\ r.gen = g /\ PortsOf(r) = PortsOf(f)
<1>1. FlashConfig(f) /\ 1 <= Len(f.ports) BY FlashPorts
<1>2. PICK d \in BOOLEAN : d = (f.count > 0)
  <2>1. (f.count > 0) \in BOOLEAN OBVIOUS
  <2> QED BY <2>1
<1>3. r = [used |-> TRUE, busy |-> TRUE, stop |-> FALSE, gen |-> g, rule |-> f.rule,
           check |-> c, ports |-> f.ports, together |-> f.together, gap |-> f.gap,
           left |-> f.count, counted |-> d, timed |-> f.timed, late |-> FALSE,
           idx |-> 1, lit |-> TRUE]
  BY <1>2 DEF NewRun
<1>4. /\ f.rule \in Rules \cup {Test} /\ f.ports \in Seq(Ports) /\ Distinct(f.ports)
      /\ f.together \in BOOLEAN /\ f.gap \in BOOLEAN /\ f.count \in Nat /\ f.timed \in BOOLEAN
  BY <1>1 DEF FlashConfig, Distinct
<1>5. r \in Run BY <1>3, <1>4 DEF Run
<1>6. /\ r.used /\ r.busy /\ ~r.stop /\ r.gen = g /\ r.ports = f.ports /\ r.idx = 1 BY <1>3
<1> QED BY <1>1, <1>4, <1>5, <1>6 DEF RunRight, PortsOf

LEMMA ScanDoneDoes ==
  ASSUME Types, NEW t \in Threads, ScanDone(t)
  PROVE  /\ Types'
         /\ \E me \in Thread : TakesNone(t, me) \/ \E m \in Slots : TakesSlot(t, m, me)
<1> DEFINE table == Freed(Hits(t))
           free == {s \in Slots : ~table[s].used}
           me == [th[t] EXCEPT !.offs = @ \cup OffsOf(Hits(t)), !.at = 1, !.wgen = 0]
           woken == IF Hits(t) = {} THEN th ELSE Woken(th)
<1>1. /\ Hits(t) \in SUBSET Slots /\ \A s \in Hits(t) : run[s].used /\ ~run[s].busy
      /\ th[t].pc = "lock" /\ th[t] \in Thread /\ ThreadRight(th[t])
      /\ OffsOf(Hits(t)) \subseteq Ends /\ DOMAIN table = Slots
      /\ \A s \in Slots : table[s] = IF s \in Hits(t) THEN NoRun ELSE run[s]
      /\ UNCHANGED <<rules, delayed, worker, port, lost, overlap, starts>>
  BY ScanEnds
<1>2. \/ /\ th[t].op = "flash" /\ free # {}
         /\ gen' = gen + 1
         /\ run' = [table EXCEPT ![Min(free)] = NewRun(th[t].arg, th[t].check, gen + 1)]
         /\ th' = [woken EXCEPT ![t] =
                     OffsFirst([me EXCEPT !.slot = Min(free), !.wgen = gen + 1], "edge")]
      \/ /\ th[t].op = "flash" /\ free = {}
         /\ run' = table /\ gen' = gen
         /\ th' = [woken EXCEPT ![t] = OffsFirst(me, "idle")]
      \/ /\ th[t].op # "flash"
         /\ run' = table /\ gen' = gen
         /\ th' = [woken EXCEPT ![t] =
                     OffsFirst(me, IF th[t].op = "output" THEN "post" ELSE th[t].then)]
  BY DEF ScanDone
<1> HIDE DEF table
<1>3. /\ th \in [Threads -> Thread] /\ gen \in Nat /\ starts \in 0 .. MaxStarts
      /\ delayed \in Seq(Flashes)
  BY DEF Types
<1>4. \A rec \in Thread : th' = [woken EXCEPT ![t] = rec] =>
        Turned(th, th', t, rec) /\ th' \in [Threads -> Thread]
  <2>1. woken = th \/ woken = Woken(th) OBVIOUS
  <2> HIDE DEF woken
  <2> TAKE rec \in Thread
  <2>2. /\ [th EXCEPT ![t] = rec] \in [Threads -> Thread]
        /\ Turned(th, [th EXCEPT ![t] = rec], t, rec)
        /\ [Woken(th) EXCEPT ![t] = rec] \in [Threads -> Thread]
        /\ Turned(th, [Woken(th) EXCEPT ![t] = rec], t, rec)
    BY <1>3, TurnedFacts
  <2>3. /\ [woken EXCEPT ![t] = rec] \in [Threads -> Thread]
        /\ Turned(th, [woken EXCEPT ![t] = rec], t, rec)
    <3>1. CASE woken = th BY <2>2, <3>1
    <3>2. CASE woken = Woken(th) BY <2>2, <3>2
    <3> QED BY <2>1, <3>1, <3>2
  <2> QED BY <2>3
<1> HIDE DEF woken
<1>5. /\ me \in Thread /\ me.pc = "lock" /\ me.op = th[t].op /\ me.arg = th[t].arg
      /\ me.wgen = 0 /\ me.offs = th[t].offs \cup OffsOf(Hits(t)) /\ ArgRight(me)
  <2>1. th[t].offs \cup OffsOf(Hits(t)) \in SUBSET Ends BY <1>1 DEF Thread
  <2>2. 0 \in 0 .. MaxStarts BY FlashParams
  <2>3. /\ me \in Thread /\ me.pc = "lock" /\ me.op = th[t].op /\ me.arg = th[t].arg
        /\ me.wgen = 0 /\ me.offs = th[t].offs \cup OffsOf(Hits(t))
    BY <1>1, <2>1, <2>2, Numbers DEF Thread
  <2> QED BY <1>1, <2>3 DEF ThreadRight, ArgRight
<1> HIDE DEF me
<1>6. CASE /\ th[t].op = "flash" /\ free # {}
           /\ gen' = gen + 1
           /\ run' = [table EXCEPT ![Min(free)] = NewRun(th[t].arg, th[t].check, gen + 1)]
           /\ th' = [woken EXCEPT ![t] =
                     OffsFirst([me EXCEPT !.slot = Min(free), !.wgen = gen + 1], "edge")]
  <2> DEFINE m == Min(free)
             rec == [me EXCEPT !.slot = m, !.wgen = gen + 1]
             q == OffsFirst(rec, "edge")
  <2>1. m \in free BY <1>6, FirstSlot
  <2> HIDE DEF m
  <2>2. m \in Slots /\ (m \in Hits(t) \/ ~run[m].used) BY <1>1, <2>1
  <2>3. ToRun(th[t]) = 1 BY <1>1, <1>6 DEF ToRun
  <2>4. gen + 1 \in Gens
    <3>1. gen + Len(delayed) + Pending(th) <= starts BY DEF Types
    <3>2. Pending(th) \in Nat /\ Pending(th) >= 1
      <4>1. \A u \in Threads : ToRun(th[u]) \in {0, 1} BY DEF ToRun
      <4>2. ToRun(th["main"]) \in {0, 1} /\ ToRun(th["http"]) \in {0, 1} BY <4>1, Numbers
      <4>3. t = "main" \/ t = "http" BY DEF Threads
      <4> QED BY <2>3, <4>2, <4>3 DEF Pending
    <3>3. Len(delayed) \in Nat BY <1>3
    <3> QED BY <1>3, <3>1, <3>2, <3>3, FlashParams DEF Gens
  <2>5. /\ rec \in Thread /\ rec.op = "flash" /\ rec.arg = th[t].arg /\ rec.slot = m
        /\ rec.wgen = gen + 1 /\ rec.offs = th[t].offs \cup OffsOf(Hits(t)) /\ ArgRight(rec)
    <3>1. m \in 0 .. MaxRuns /\ gen + 1 \in 0 .. MaxStarts BY <2>2, <2>4, Numbers
    <3>2. /\ rec \in Thread /\ rec.op = me.op /\ rec.arg = me.arg /\ rec.slot = m
          /\ rec.wgen = gen + 1 /\ rec.offs = me.offs
      BY <1>5, <3>1 DEF Thread
    <3> QED BY <1>5, <1>6, <3>2 DEF ArgRight
  <2>6. th' = [woken EXCEPT ![t] = q] BY <1>6 DEF m
  <2> HIDE DEF rec
  <2>7. /\ q \in Thread /\ q.offs = rec.offs
        /\ q.pc \notin {"lock", "asleep", "decided", "started"}
        /\ ~Waits(q) /\ ToRun(q) = 0 /\ BeforeEdge(q) /\ ~ToPost(q)
        /\ q.arg = rec.arg /\ q.slot = rec.slot /\ q.wgen = rec.wgen /\ ThreadRight(q)
    BY <2>5, OffsFirstFacts
  <2> HIDE DEF q
  <2>8. q.pc \notin {"idle", "ended"} BY <2>7 DEF BeforeEdge
  <2>9. Turned(th, th', t, q) /\ th' \in [Threads -> Thread] BY <1>4, <2>6, <2>7
  <2>10. gen' \in Nat /\ gen' - gen + ToRun(q) <= ToRun(th[t]) BY <1>3, <1>6, <2>3, <2>7
  <2>11. /\ gen' + Len(delayed') + Pending(th') <= starts'
         /\ \A u \in Threads : ThreadRight(th'[u])
    BY <1>1, <2>7, <2>9, <2>10, TurnKeeps
  <2>12. th[t].arg \in Flashes /\ th[t].check \in BOOLEAN
    BY <1>1, <1>6 DEF ThreadRight, ArgRight, Thread
  <2>13. /\ DOMAIN run' = Slots /\ run'[m] = NewRun(th[t].arg, th[t].check, gen + 1)
         /\ \A s \in Slots \ {m} : run'[s] = table[s]
    BY <1>1, <1>6, <2>2 DEF m
  <2>14. /\ RunRight(run'[m]) /\ run'[m].used /\ run'[m].busy /\ ~run'[m].stop
         /\ run'[m].gen = gen + 1 /\ PortsOf(run'[m]) = PortsOf(th[t].arg)
    BY <2>4, <2>12, <2>13, NewRunFacts
  <2>15. /\ \A s \in Hits(t) \ {m} : run'[s] = NoRun
         /\ \A s \in Slots \ (Hits(t) \cup {m}) : run'[s] = run[s]
    BY <1>1, <2>13
  <2>16. \A s \in Slots : run'[s] = NoRun \/ RunRight(run'[s])
    BY <2>14, <2>15 DEF Types
  <2>17. Types' BY <1>1, <2>9, <2>10, <2>11, <2>13, <2>16 DEF Types
  <2>18. TakesSlot(t, m, q)
    BY <1>1, <1>3, <1>6, <2>2, <2>4, <2>5, <2>7, <2>8, <2>9, <2>12, <2>14, <2>15 DEF TakesSlot
  <2> QED BY <2>2, <2>7, <2>17, <2>18
<1>7. ASSUME NEW next \in {"idle", "edge", "post", "ended"}, next # "edge",
             next = "post" => th[t].op = "output",
             run' = table, gen' = gen, th' = [woken EXCEPT ![t] = OffsFirst(me, next)]
      PROVE  Types' /\ \E rec \in Thread : TakesNone(t, rec)
  <2> DEFINE q == OffsFirst(me, next)
  <2>1. /\ q \in Thread /\ q.offs = me.offs
        /\ q.pc \notin {"lock", "asleep", "decided", "started"}
        /\ ~Waits(q) /\ ToRun(q) = 0 /\ ~Starts(q) /\ (ToPost(q) <=> next = "post")
        /\ (q.wgen = me.wgen \/ q.wgen = 0) /\ (next = "post" => q.arg = me.arg)
        /\ ThreadRight(q)
    BY <1>5, <1>7, OffsFirstFacts
  <2>2. th' = [woken EXCEPT ![t] = q] BY <1>7
  <2> HIDE DEF q
  <2>3. Turned(th, th', t, q) /\ th' \in [Threads -> Thread] BY <1>4, <2>1, <2>2
  <2>4. gen' \in Nat /\ gen' - gen + ToRun(q) <= ToRun(th[t])
    <3>1. ToRun(th[t]) \in {0, 1} BY DEF ToRun
    <3> QED BY <1>3, <1>7, <2>1, <3>1
  <2>5. /\ gen' + Len(delayed') + Pending(th') <= starts'
        /\ \A u \in Threads : ThreadRight(th'[u])
    BY <1>1, <2>1, <2>3, <2>4, TurnKeeps
  <2>6. /\ DOMAIN run' = Slots /\ \A s \in Hits(t) : run'[s] = NoRun
        /\ \A s \in Slots \ Hits(t) : run'[s] = run[s]
    BY <1>1, <1>7
  <2>7. \A s \in Slots : run'[s] = NoRun \/ RunRight(run'[s]) BY <2>6 DEF Types
  <2>8. Types' BY <1>1, <2>3, <2>4, <2>5, <2>6, <2>7 DEF Types
  <2>9. TakesNone(t, q) BY <1>1, <1>5, <1>7, <2>1, <2>3, <2>6 DEF TakesNone
  <2> QED BY <2>1, <2>8, <2>9
<1>8. CASE /\ th[t].op = "flash" /\ free = {}
           /\ run' = table /\ gen' = gen
           /\ th' = [woken EXCEPT ![t] = OffsFirst(me, "idle")]
  BY <1>7, <1>8
<1>9. CASE /\ th[t].op # "flash"
           /\ run' = table /\ gen' = gen
           /\ th' = [woken EXCEPT ![t] =
                       OffsFirst(me, IF th[t].op = "output" THEN "post" ELSE th[t].then)]
  <2> DEFINE next == IF th[t].op = "output" THEN "post" ELSE th[t].then
  <2>1. /\ next \in {"idle", "edge", "post", "ended"} /\ next # "edge"
        /\ next = "post" => th[t].op = "output"
    BY <1>1 DEF ThreadRight
  <2>2. th' = [woken EXCEPT ![t] = OffsFirst(me, next)] BY <1>9
  <2> HIDE DEF next
  <2> QED BY <1>7, <1>9, <2>1, <2>2
<1> QED BY <1>2, <1>6, <1>8, <1>9

\* A thread that has sent the all-off o.
SwitchesOff(t, o, me) ==
  /\ th[t].pc = "offs" /\ o \in th[t].offs
  /\ Turned(th, th', t, me) /\ me.offs = th[t].offs \ {o} /\ ~Waits(me)
  /\ (BeforeEdge(me) <=> BeforeEdge(th[t])) /\ (Starts(me) <=> Starts(th[t]))
  /\ (ToPost(me) <=> ToPost(th[t])) /\ me.pc \notin {"lock", "asleep"}
  /\ Starts(me) \/ ToPost(me) =>
       me.arg = th[t].arg /\ me.slot = th[t].slot /\ me.wgen = th[t].wgen
  /\ me.wgen \in {0, th[t].wgen}
  /\ Sets({}, "off", o.ports)
  /\ UNCHANGED <<run, gen, worker, overlap>>

LEMMA SendOffDoes ==
  ASSUME Types, NEW t \in Threads, SendOff(t)
  PROVE  /\ Types'
         /\ \E o \in th[t].offs, me \in Thread : SwitchesOff(t, o, me)
<1>1. PICK o \in th[t].offs :
        /\ th' = [th EXCEPT ![t] = OffsFirst(Without(@, o), @.then)]
        /\ Switch({}, "off", o.ports) \/ SwitchFails(o.ports)
  BY DEF SendOff
<1>2. th[t].pc = "offs" /\ UNCHANGED <<rules, delayed, run, gen, worker, starts, overlap>>
  BY DEF SendOff
<1>3. /\ th \in [Threads -> Thread] /\ th[t] \in Thread /\ ThreadRight(th[t])
      /\ gen \in Nat /\ o \in Ends /\ o.ports \in SUBSET Ports
  <2>1. th \in [Threads -> Thread] /\ th[t] \in Thread /\ ThreadRight(th[t]) /\ gen \in Nat
    BY DEF Types
  <2>2. o \in Ends BY <1>1, <2>1 DEF Thread
  <2> QED BY <2>1, <2>2 DEF Ends
<1>4. PICK rec : rec = Without(th[t], o) OBVIOUS
<1>5. /\ rec \in Thread /\ rec.offs = th[t].offs \ {o} /\ rec.op = th[t].op
      /\ rec.arg = th[t].arg /\ rec.slot = th[t].slot /\ rec.wgen = th[t].wgen
  BY <1>3, <1>4 DEF Thread, Without
<1>6. PICK next \in {"idle", "edge", "post", "ended"} : next = th[t].then BY <1>3 DEF Thread
<1>7. PICK me : me = OffsFirst(rec, next) OBVIOUS
<1>8. th' = [th EXCEPT ![t] = me]
  <2>1. th' = [th EXCEPT ![t] = OffsFirst(Without(th[t], o), th[t].then)] BY <1>1, <1>3
  <2> QED BY <1>4, <1>6, <1>7, <2>1
<1>9. /\ ArgRight(rec) /\ (next = "edge" => rec.op = "flash")
      /\ (next = "post" => rec.op = "output")
      /\ (BeforeEdge(th[t]) <=> next = "edge") /\ (Starts(th[t]) <=> next = "edge")
      /\ (ToPost(th[t]) <=> next = "post")
  BY <1>2, <1>3, <1>5, <1>6 DEF ThreadRight, ArgRight, Starts, BeforeEdge, ToPost
<1>10. /\ me \in Thread /\ me.offs = rec.offs
       /\ me.pc \notin {"lock", "asleep", "decided", "started"}
       /\ ~Waits(me) /\ ToRun(me) = 0 /\ (me.wgen = rec.wgen \/ me.wgen = 0)
       /\ (BeforeEdge(me) <=> next = "edge") /\ (Starts(me) <=> next = "edge")
       /\ (ToPost(me) <=> next = "post") /\ ThreadRight(me)
       /\ next \in {"edge", "post"} =>
            /\ me.arg = rec.arg /\ me.slot = rec.slot /\ me.wgen = rec.wgen
  BY <1>5, <1>7, <1>9, OffsFirstFacts
<1>11. Turned(th, th', t, me) /\ th' \in [Threads -> Thread] BY <1>3, <1>8, <1>10, TurnedFacts
<1>12. gen' \in Nat /\ gen' - gen + ToRun(me) <= ToRun(th[t])
  <2>1. ToRun(th[t]) \in {0, 1} BY DEF ToRun
  <2> QED BY <1>2, <1>3, <1>10, <2>1
<1>13. /\ gen' + Len(delayed') + Pending(th') <= starts'
       /\ \A u \in Threads : ThreadRight(th'[u])
  BY <1>2, <1>10, <1>11, <1>12, TurnKeeps
<1>14. /\ Sets({}, "off", o.ports)
       /\ port' \in [Ports -> {"off", "flash", "set"}] /\ lost' \subseteq Ports
  <2>1. {} \in SUBSET o.ports /\ "off" \in {"off", "flash", "set"} OBVIOUS
  <2> QED BY <1>1, <1>3, <2>1, SwitchFacts
<1>15. Types' BY <1>2, <1>11, <1>12, <1>13, <1>14 DEF Types
<1>16. SwitchesOff(t, o, me)
  BY <1>2, <1>5, <1>9, <1>10, <1>11, <1>14 DEF SwitchesOff
<1> QED BY <1>10, <1>15, <1>16

\* A thread that has sent the request of io_output.
Posts(t, on) ==
  /\ th[t].pc = "post" /\ th[t].offs = {} /\ Turned(th, th', t, Idle)
  /\ on \subseteq {th[t].arg.port} /\ Sets(on, "set", {th[t].arg.port})
  /\ UNCHANGED <<run, gen, worker, overlap>>

LEMMA PostDoes ==
  ASSUME Types, NEW t \in Threads, Post(t)
  PROVE  Types' /\ \E on \in SUBSET Ports : Posts(t, on)
<1>1. /\ th[t].pc = "post" /\ th' = [th EXCEPT ![t] = Idle]
      /\ UNCHANGED <<rules, delayed, run, gen, worker, starts, overlap>>
  BY DEF Post
<1>2. /\ th \in [Threads -> Thread] /\ th[t] \in Thread /\ ThreadRight(th[t])
      /\ gen \in Nat
  BY DEF Types
<1>3. th[t].offs = {} /\ th[t].arg.port \in Ports
  <2>1. th[t].op = "output" /\ th[t].offs = {} BY <1>1, <1>2 DEF ThreadRight, ToPost
  <2> QED BY <1>2, <2>1 DEF ThreadRight, ArgRight
<1>4. PICK on \in SUBSET {th[t].arg.port} :
        Switch(on, "set", {th[t].arg.port}) \/ SwitchFails({th[t].arg.port})
  BY DEF Post
<1>5. /\ Sets(on, "set", {th[t].arg.port})
      /\ port' \in [Ports -> {"off", "flash", "set"}] /\ lost' \subseteq Ports
  <2>1. {th[t].arg.port} \in SUBSET Ports /\ "set" \in {"off", "flash", "set"} BY <1>3
  <2> QED BY <1>4, <2>1, SwitchFacts
<1>6. Idle \in Thread /\ ThreadRight(Idle) /\ ToRun(Idle) = 0 BY QuietRecords DEF Ready
<1>7. Turned(th, th', t, Idle) /\ th' \in [Threads -> Thread] BY <1>1, <1>2, <1>6, TurnedFacts
<1>8. gen' \in Nat /\ gen' - gen + ToRun(Idle) <= ToRun(th[t])
  <2>1. ToRun(th[t]) \in {0, 1} BY DEF ToRun
  <2> QED BY <1>1, <1>2, <1>6, <2>1
<1>9. /\ gen' + Len(delayed') + Pending(th') <= starts'
      /\ \A u \in Threads : ThreadRight(th'[u])
  BY <1>1, <1>6, <1>7, <1>8, TurnKeeps
<1>10. Types' BY <1>1, <1>5, <1>7, <1>8, <1>9 DEF Types
<1>11. Posts(t, on) BY <1>1, <1>3, <1>5, <1>7 DEF Posts
<1> QED BY <1>3, <1>10, <1>11

\* A thread that has sent the first edge of its run.
Lights(t, lit, me) ==
  /\ th[t].pc = "edge" /\ th[t].arg \in Flashes /\ th[t].offs = {}
  /\ Turned(th, th', t, me) /\ me.pc = "started" /\ me.offs = {}
  /\ me.arg = th[t].arg /\ me.slot = th[t].slot /\ me.wgen = th[t].wgen
  /\ lit \subseteq PortsOf(th[t].arg) /\ Sets(lit, "flash", PortsOf(th[t].arg))
  /\ UNCHANGED <<run, gen, worker, overlap>>

LEMMA FirstEdgeDoes ==
  ASSUME Types, NEW t \in Threads, FirstEdge(t)
  PROVE  Types' /\ \E lit \in SUBSET Ports, me \in Thread : Lights(t, lit, me)
<1> DEFINE f == th[t].arg
           lit == IF f.together THEN PortsOf(f) ELSE {f.ports[1]}
<1>1. /\ th[t].pc = "edge" /\ UNCHANGED <<rules, delayed, run, gen, worker, starts, overlap>>
      /\ Switch(lit, "flash", PortsOf(f)) \/ SwitchFails(PortsOf(f))
  BY DEF FirstEdge
<1>2. /\ th \in [Threads -> Thread] /\ th[t] \in Thread /\ ThreadRight(th[t])
      /\ gen \in Nat
  BY DEF Types
<1>3. th[t].op = "flash" /\ f \in Flashes /\ th[t].offs = {}
  BY <1>1, <1>2 DEF ThreadRight, ArgRight, Starts, BeforeEdge
<1>4. PortsOf(f) \in SUBSET Ports /\ lit \in SUBSET PortsOf(f) BY <1>3, FlashPorts
<1> HIDE DEF lit
<1>5. /\ Sets(lit, "flash", PortsOf(f))
      /\ port' \in [Ports -> {"off", "flash", "set"}] /\ lost' \subseteq Ports
  <2>1. "flash" \in {"off", "flash", "set"} OBVIOUS
  <2> QED BY <1>1, <1>4, <2>1, SwitchFacts
<1>6. PICK ok \in BOOLEAN : th' = [th EXCEPT ![t].pc = "started", ![t].ok = ok]
  BY DEF FirstEdge
<1>7. PICK me : me = [th[t] EXCEPT !.pc = "started", !.ok = ok] OBVIOUS
<1>8. th' = [th EXCEPT ![t] = me] BY <1>2, <1>6, <1>7
<1>9. /\ me \in Thread /\ me.pc = "started" /\ me.offs = {} /\ me.op = "flash"
      /\ me.arg = th[t].arg /\ me.slot = th[t].slot /\ me.wgen = th[t].wgen
  BY <1>2, <1>3, <1>7 DEF Thread
<1>10. ThreadRight(me) /\ ToRun(me) = 0
  BY <1>3, <1>9 DEF ThreadRight, ArgRight, Starts, BeforeEdge, ToPost, ToRun
<1>11. Turned(th, th', t, me) /\ th' \in [Threads -> Thread] BY <1>2, <1>8, <1>9, TurnedFacts
<1>12. gen' \in Nat /\ gen' - gen + ToRun(me) <= ToRun(th[t])
  <2>1. ToRun(th[t]) \in {0, 1} BY DEF ToRun
  <2> QED BY <1>1, <1>2, <1>10, <2>1
<1>13. /\ gen' + Len(delayed') + Pending(th') <= starts'
       /\ \A u \in Threads : ThreadRight(th'[u])
  BY <1>1, <1>9, <1>10, <1>11, <1>12, TurnKeeps
<1>14. Types' BY <1>1, <1>5, <1>11, <1>12, <1>13 DEF Types
<1>15. Lights(t, lit, me) BY <1>1, <1>3, <1>4, <1>5, <1>9, <1>11 DEF Lights
<1> QED BY <1>4, <1>9, <1>14, <1>15

\* A thread that has started its run: it leaves the run to its worker or to somebody who
\* wants it stopped, or ends it.
Hands(t, me) ==
  /\ th[t].pc = "started" /\ Turned(th, th', t, me)
  /\ ~Starts(me) /\ ~Waits(me) /\ ~ToPost(me) /\ me.pc \notin {"lock", "asleep"}
  /\ me.wgen \in {0, th[t].wgen}
  /\ \A x \in Slots \ {th[t].slot} : run'[x] = run[x]
  /\ \/ /\ me.offs = {} /\ Same(run'[th[t].slot], run[th[t].slot])
        /\ run'[th[t].slot].stop = run[th[t].slot].stop
        /\ \/ run[th[t].slot].stop /\ worker' = worker
           \/ /\ ~run[th[t].slot].stop
              /\ worker' = [worker EXCEPT ![th[t].wgen] =
                              [NoWorker EXCEPT !.pc = "wait", !.slot = th[t].slot]]
     \/ /\ me.offs = OffsOf({th[t].slot}) /\ run'[th[t].slot] = NoRun /\ worker' = worker
  /\ UNCHANGED <<gen, port, lost, overlap>>

\* A run that is left idle by whoever drove it.
LEMMA LeftIdle ==
  ASSUME Types, NEW s \in Slots, run[s].used
  PROVE  LET q == [run[s] EXCEPT !.busy = FALSE] IN
         RunRight(q) /\ Same(q, run[s]) /\ q.stop = run[s].stop
<1>1. RunRight(run[s]) /\ run[s] \in Run BY RunFields
<1> QED BY <1>1 DEF RunRight, Run, Same, PortsOf

\* A worker that waits, and one that is gone.
LEMMA WorkerRecords ==
  /\ Gone \in Worker /\ WorkerRight(Gone) /\ Gone.pc = "gone"
  /\ NoWorker \in Worker /\ WorkerRight(NoWorker) /\ NoWorker.pc = "none"
  /\ \A s \in Slots :
       /\ [NoWorker EXCEPT !.pc = "wait", !.slot = s] \in Worker
       /\ WorkerRight([NoWorker EXCEPT !.pc = "wait", !.slot = s])
       /\ [NoWorker EXCEPT !.pc = "wait", !.slot = s].pc = "wait"
       /\ [NoWorker EXCEPT !.pc = "wait", !.slot = s].slot = s
<1>1. /\ NoWorker \in Worker /\ NoWorker.pc = "none" /\ NoWorker.lit = {}
      /\ NoWorker.ports = {} /\ NoWorker.final = FALSE
  BY FlashParams DEF NoWorker, Worker
<1>2. WorkerRight(NoWorker) BY <1>1 DEF WorkerRight
<1>3. PICK w : w = Gone OBVIOUS
<1>4. w \in Worker /\ w.pc = "gone" /\ w.lit = {} /\ w.ports = {} /\ w.final = FALSE
  BY <1>1, <1>3 DEF Gone, Worker
<1>5. WorkerRight(w) BY <1>4 DEF WorkerRight
<1>6. ASSUME NEW s \in Slots, NEW v, v = [NoWorker EXCEPT !.pc = "wait", !.slot = s]
      PROVE  v \in Worker /\ WorkerRight(v) /\ v.pc = "wait" /\ v.slot = s
  <2>1. /\ v \in Worker /\ v.pc = "wait" /\ v.slot = s /\ v.lit = {} /\ v.ports = {}
        /\ v.final = FALSE
    BY <1>1, <1>6, Numbers DEF Worker
  <2> QED BY <2>1 DEF WorkerRight
<1> QED BY <1>1, <1>2, <1>3, <1>4, <1>5, <1>6

LEMMA StartedDoes ==
  ASSUME Types, NEW t \in Threads, Started(t), Owns(t)
  PROVE  Types' /\ \E me \in Thread : Hands(t, me)
<1> DEFINE s == th[t].slot
           g == th[t].wgen
           table == IF run[s].used THEN [run EXCEPT ![s].busy = FALSE] ELSE run
<1>1. /\ th[t].pc = "started" /\ UNCHANGED <<rules, delayed, gen, port, starts, lost, overlap>>
  BY DEF Started, hist
<1>2. /\ th \in [Threads -> Thread] /\ th[t] \in Thread /\ ThreadRight(th[t])
      /\ gen \in Nat /\ worker \in [Gens -> Worker] /\ \A h \in Gens : WorkerRight(worker[h])
      /\ DOMAIN run = Slots /\ \A x \in Slots : run[x] = NoRun \/ RunRight(run[x])
  BY DEF Types
<1>3. s \in Slots /\ g \in Gens /\ run[s].used BY DEF Owns, Mine
<1>4. /\ DOMAIN table = Slots /\ table[s] = [run[s] EXCEPT !.busy = FALSE]
      /\ \A x \in Slots \ {s} : table[x] = run[x]
  BY <1>2, <1>3
<1>5. RunRight(table[s]) /\ Same(table[s], run[s]) /\ table[s].stop = run[s].stop
  BY <1>3, <1>4, LeftIdle
<1> HIDE DEF table
<1>6. /\ Idle \in Thread /\ ThreadRight(Idle) /\ ToRun(Idle) = 0 /\ Idle.pc = "idle"
      /\ Idle.offs = {} /\ Idle.wgen = 0
      /\ ~Starts(Idle) /\ ~Waits(Idle) /\ ~ToPost(Idle)
  BY QuietRecords DEF Ready, Starts, BeforeEdge, Waits, ToPost
<1>7. ASSUME NEW CONSTANT me \in Thread, ThreadRight(me), ToRun(me) = 0,
             th' = [Woken(th) EXCEPT ![t] = me]
      PROVE  /\ Turned(th, th', t, me) /\ th' \in [Threads -> Thread]
             /\ gen' \in Nat /\ gen' + Len(delayed') + Pending(th') <= starts'
             /\ \A u \in Threads : ThreadRight(th'[u])
  <2>1. Turned(th, th', t, me) /\ th' \in [Threads -> Thread] BY <1>2, <1>7, TurnedFacts
  <2>2. gen' \in Nat /\ gen' - gen + ToRun(me) <= ToRun(th[t])
    <3>1. ToRun(th[t]) \in {0, 1} BY DEF ToRun
    <3> QED BY <1>1, <1>2, <1>7, <3>1
  <2> QED BY <1>1, <1>7, <2>1, <2>2, TurnKeeps
<1>8. CASE /\ ~(Mine(s, g) /\ ~run[s].stop)
           /\ run' = table
           /\ th' = [Woken(th) EXCEPT ![t] = Idle]
           /\ UNCHANGED <<worker, fails>>
  <2>1. run[s].stop BY <1>8 DEF Owns
  <2>2. \A x \in Slots : run'[x] = NoRun \/ RunRight(run'[x])
    BY <1>2, <1>4, <1>5, <1>8
  <2>3. Types' BY <1>1, <1>2, <1>4, <1>6, <1>7, <1>8, <2>2 DEF Types
  <2>4. Hands(t, Idle) BY <1>1, <1>4, <1>5, <1>6, <1>7, <1>8, <2>1 DEF Hands
  <2> QED BY <1>6, <2>3, <2>4
<1>9. CASE /\ Mine(s, g) /\ ~run[s].stop /\ th[t].ok
           /\ run' = table
           /\ worker' = [worker EXCEPT ![g] = [NoWorker EXCEPT !.pc = "wait", !.slot = s]]
           /\ th' = [Woken(th) EXCEPT ![t] = Idle]
           /\ UNCHANGED fails
  <2>1. \A x \in Slots : run'[x] = NoRun \/ RunRight(run'[x])
    BY <1>2, <1>4, <1>5, <1>9
  <2>2. PICK w : w = [NoWorker EXCEPT !.pc = "wait", !.slot = s] OBVIOUS
  <2>3. w \in Worker /\ WorkerRight(w) BY <1>3, <2>2, WorkerRecords
  <2>4. worker' \in [Gens -> Worker] /\ \A h \in Gens : WorkerRight(worker'[h])
    BY <1>2, <1>3, <1>9, <2>2, <2>3
  <2>5. Types' BY <1>1, <1>2, <1>4, <1>6, <1>7, <1>9, <2>1, <2>4 DEF Types
  <2>6. Hands(t, Idle) BY <1>1, <1>4, <1>5, <1>6, <1>7, <1>9 DEF Hands
  <2> QED BY <1>6, <2>5, <2>6
<1>10. CASE /\ Mine(s, g) /\ ~run[s].stop
            /\ IF th[t].ok THEN fails < MaxFails /\ fails' = fails + 1 ELSE fails' = fails
            /\ run' = Freed({s})
            /\ th' = [Woken(th) EXCEPT ![t] =
                        OffsFirst([@ EXCEPT !.offs = OffsOf({s})], "idle")]
            /\ UNCHANGED worker
  <2>1. {s} \in SUBSET Slots /\ \A x \in {s} : run[x].used BY <1>3
  <2>2. /\ DOMAIN run' = Slots /\ run'[s] = NoRun /\ \A x \in Slots \ {s} : run'[x] = run[x]
        /\ OffsOf({s}) \subseteq Ends
    BY <1>3, <1>10, <2>1, EndsFacts
  <2>3. Woken(th)[t] = th[t] BY <1>1 DEF Woken
  <2>4. PICK rec : rec = [th[t] EXCEPT !.offs = OffsOf({s})] OBVIOUS
  <2>5. rec \in Thread /\ rec.offs = OffsOf({s}) /\ ArgRight(rec) /\ rec.wgen = th[t].wgen
    <3>1. OffsOf({s}) \in SUBSET Ends BY <2>2
    <3>2. /\ rec \in Thread /\ rec.offs = OffsOf({s}) /\ rec.wgen = th[t].wgen
          /\ rec.op = th[t].op /\ rec.arg = th[t].arg
      BY <1>2, <2>4, <3>1 DEF Thread
    <3> QED BY <1>2, <3>2 DEF ThreadRight, ArgRight
  <2>6. PICK me : me = OffsFirst(rec, "idle") OBVIOUS
  <2>7. /\ me \in Thread /\ me.offs = rec.offs /\ me.pc \notin {"lock", "asleep"}
        /\ ~Waits(me) /\ ToRun(me) = 0 /\ me.wgen \in {0, rec.wgen}
        /\ ~Starts(me) /\ ~ToPost(me) /\ ThreadRight(me)
    BY <2>5, <2>6, OffsFirstFacts
  <2>8. th' = [Woken(th) EXCEPT ![t] = me]
    <3>1. Woken(th) \in [Threads -> Thread] BY <1>2, WokenFacts
    <3> HIDE DEF Woken
    <3>2. th' = [Woken(th) EXCEPT ![t] = OffsFirst([Woken(th)[t] EXCEPT !.offs = OffsOf({s})], "idle")]
      BY <1>10, <3>1
    <3> QED BY <2>3, <2>4, <2>6, <3>2
  <2>9. \A x \in Slots : run'[x] = NoRun \/ RunRight(run'[x]) BY <1>2, <2>2
  <2>10. Types' BY <1>1, <1>2, <1>7, <1>10, <2>2, <2>7, <2>8, <2>9 DEF Types
  <2>11. Hands(t, me) BY <1>1, <1>7, <1>10, <2>2, <2>5, <2>7, <2>8 DEF Hands
  <2> QED BY <2>7, <2>10, <2>11
<1>11. \/ /\ ~(Mine(s, g) /\ ~run[s].stop)
          /\ run' = table
          /\ th' = [Woken(th) EXCEPT ![t] = Idle]
          /\ UNCHANGED <<worker, fails>>
       \/ /\ Mine(s, g) /\ ~run[s].stop /\ th[t].ok
          /\ run' = table
          /\ worker' = [worker EXCEPT ![g] = [NoWorker EXCEPT !.pc = "wait", !.slot = s]]
          /\ th' = [Woken(th) EXCEPT ![t] = Idle]
          /\ UNCHANGED fails
       \/ /\ Mine(s, g) /\ ~run[s].stop
          /\ IF th[t].ok THEN fails < MaxFails /\ fails' = fails + 1 ELSE fails' = fails
          /\ run' = Freed({s})
          /\ th' = [Woken(th) EXCEPT ![t] =
                      OffsFirst([@ EXCEPT !.offs = OffsOf({s})], "idle")]
          /\ UNCHANGED worker
  BY DEF Started, table
<1> QED BY <1>8, <1>9, <1>10, <1>11

\* The threads' part of Types after a step of a worker.
LEMMA WorkerTurn ==
  ASSUME Types, UNCHANGED <<rules, delayed, gen, starts, overlap>>,
         th' = th \/ th' = Woken(th)
  PROVE  /\ th' \in [Threads -> Thread] /\ \A t \in Threads : Alike(th'[t], th[t])
         /\ gen' + Len(delayed') + Pending(th') <= starts'
         /\ \A t \in Threads : ThreadRight(th'[t])
<1>1. th \in [Threads -> Thread] /\ \A t \in Threads : ThreadRight(th[t]) BY DEF Types
<1>2. th' \in [Threads -> Thread] /\ \A t \in Threads : Alike(th'[t], th[t])
  <2>1. CASE th' = th BY <1>1, <2>1 DEF Alike
  <2>2. CASE th' = Woken(th) BY <1>1, <2>2, WokenFacts
  <2> QED BY <2>1, <2>2
<1>3. \A t \in Threads : ToRun(th'[t]) = ToRun(th[t]) /\ ThreadRight(th'[t])
  BY <1>1, <1>2, AlikeFacts
<1>4. Pending(th') = Pending(th) BY <1>3, Numbers DEF Pending
<1>5. gen + Len(delayed) + Pending(th) <= starts BY DEF Types
<1> QED BY <1>2, <1>3, <1>4, <1>5

\* A worker that takes its run for a request.
TakesUp(g, s, q, w) ==
  /\ worker[g].pc = "wait" /\ worker[g].slot = s /\ Mine(s, g) /\ ~run[s].stop
  /\ q = run'[s] /\ \A x \in Slots \ {s} : run'[x] = run[x]
  /\ Same(q, run[s]) /\ q.busy /\ q.stop = run[s].stop
  /\ worker' = [worker EXCEPT ![g] = w] /\ w.pc = "send" /\ w.slot = s
  /\ w.ports = PortsOf(run[s])
  /\ UNCHANGED <<gen, th, port, lost, overlap>>

LEMMA WorkerEdgeDoes ==
  ASSUME Types, NEW g \in Gens, WorkerEdge(g)
  PROVE  /\ Types'
         /\ \E s \in Slots, w \in Worker : TakesUp(g, s, run'[s], w)
<1> DEFINE s == worker[g].slot
           r == run[s]
<1>1. /\ worker \in [Gens -> Worker] /\ WorkerRight(worker[g])
      /\ \A h \in Gens : WorkerRight(worker[h])
      /\ DOMAIN run = Slots /\ \A x \in Slots : run[x] = NoRun \/ RunRight(run[x])
  BY DEF Types
<1>2. /\ worker[g].pc = "wait" /\ Mine(s, g) /\ ~run[s].stop BY DEF WorkerEdge, GoesOn
<1>3. s \in Slots /\ RunRight(r) /\ r \in Run BY <1>1, <1>2, RunFields DEF WorkerRight, Mine
<1>4. PICK q \in {r, AfterOn(r), LightUp(AfterOn(r)), LightUp(r)}, lit \in SUBSET Ports,
           final \in BOOLEAN :
        Sends(g, q, lit, final) /\ (lit = {} \/ (~final /\ lit \subseteq PortsOf(r)))
  <2>1. \A q \in {r, AfterOn(r), LightUp(AfterOn(r)), LightUp(r)} : LitNow(q) \subseteq PortsOf(r)
    BY <1>3, EdgeFacts
  <2>2. PortsOf(r) \subseteq Ports BY <1>3, RunPorts
  <2>3. \/ Sends(g, r, {}, TRUE)
        \/ Sends(g, AfterOn(r), {}, TRUE)
        \/ Sends(g, AfterOn(r), {}, FALSE)
        \/ Sends(g, LightUp(AfterOn(r)), LitNow(AfterOn(r)), FALSE)
        \/ Sends(g, LightUp(r), LitNow(r), FALSE)
    BY DEF WorkerEdge
  <2> HIDE DEF r
  <2>4. LitNow(AfterOn(r)) \subseteq PortsOf(r) /\ LitNow(r) \subseteq PortsOf(r) BY <2>1
  <2>5. CASE Sends(g, r, {}, TRUE) BY <2>5
  <2>6. CASE Sends(g, AfterOn(r), {}, TRUE) BY <2>6
  <2>7. CASE Sends(g, AfterOn(r), {}, FALSE) BY <2>7
  <2>8. CASE Sends(g, LightUp(AfterOn(r)), LitNow(AfterOn(r)), FALSE) BY <2>2, <2>4, <2>8
  <2>9. CASE Sends(g, LightUp(r), LitNow(r), FALSE) BY <2>2, <2>4, <2>9
  <2> QED BY <2>3, <2>5, <2>6, <2>7, <2>8, <2>9
<1>5. PICK q2 : q2 = [q EXCEPT !.busy = TRUE] OBVIOUS
<1>6. RunRight(q2) /\ Same(q2, r) /\ q2.stop = r.stop /\ q2.busy /\ PortsOf(q) = PortsOf(r)
  BY <1>3, <1>5, EdgeFacts
<1>7. PICK w : w = [pc |-> "send", slot |-> s, lit |-> lit, ports |-> PortsOf(q),
                    final |-> final]
  OBVIOUS
<1>8. /\ w \in Worker /\ WorkerRight(w) /\ w.pc = "send" /\ w.slot = s
      /\ w.ports = PortsOf(r)
  <2>1. PortsOf(r) \in SUBSET Ports /\ lit \in SUBSET PortsOf(r) /\ (final => lit = {})
    BY <1>3, <1>4, RunPorts
  <2>2. s \in 0 .. MaxRuns BY <1>3, Numbers
  <2>3. /\ w.pc = "send" /\ w.slot = s /\ w.lit = lit /\ w.ports = PortsOf(r)
        /\ w.final = final /\ w \in Worker
    BY <1>6, <1>7, <2>1, <2>2 DEF Worker
  <2> QED BY <1>3, <2>1, <2>3 DEF WorkerRight
<1>9. /\ run' = [run EXCEPT ![s] = q2] /\ worker' = [worker EXCEPT ![g] = w]
      /\ UNCHANGED <<rules, delayed, gen, th, starts, port, lost, overlap>>
  BY <1>4, <1>5, <1>7 DEF Sends, count, hist
<1> HIDE DEF s
<1>10. /\ DOMAIN run' = Slots /\ run'[s] = q2 /\ \A x \in Slots \ {s} : run'[x] = run[x]
  BY <1>1, <1>3, <1>9
<1>11. \A x \in Slots : run'[x] = NoRun \/ RunRight(run'[x]) BY <1>1, <1>6, <1>10
<1>12. worker' \in [Gens -> Worker] /\ \A h \in Gens : WorkerRight(worker'[h])
  BY <1>1, <1>8, <1>9
<1>13. Types' BY <1>9, <1>10, <1>11, <1>12 DEF Types
<1>14. TakesUp(g, s, run'[s], w)
  BY <1>2, <1>6, <1>8, <1>9, <1>10 DEF TakesUp, s
<1> QED BY <1>3, <1>8, <1>13, <1>14

\* A worker that has sent its request.
Applies(g, w) ==
  /\ worker[g].pc = "send" /\ worker' = [worker EXCEPT ![g] = w]
  /\ w.pc = "sent" /\ w.slot = worker[g].slot /\ w.ports = worker[g].ports
  /\ w.final = worker[g].final
  /\ worker[g].lit \subseteq worker[g].ports /\ (w.final => worker[g].lit = {})
  /\ Sets(worker[g].lit, "flash", worker[g].ports)
  /\ UNCHANGED <<run, gen, th, overlap>>

LEMMA WorkerAppliesDoes ==
  ASSUME Types, NEW g \in Gens, WorkerApplies(g)
  PROVE  Types' /\ \E w \in Worker : Applies(g, w)
<1>1. /\ worker[g].pc = "send" /\ worker' = [worker EXCEPT ![g].pc = "sent"]
      /\ Switch(worker[g].lit, "flash", worker[g].ports) \/ SwitchFails(worker[g].ports)
      /\ UNCHANGED <<rules, delayed, run, gen, th, starts, overlap>>
  BY DEF WorkerApplies
<1>2. /\ worker \in [Gens -> Worker] /\ WorkerRight(worker[g])
      /\ \A h \in Gens : WorkerRight(worker[h])
  BY DEF Types
<1>3. PICK w : w = [worker[g] EXCEPT !.pc = "sent"] OBVIOUS
<1>4. /\ w \in Worker /\ w.pc = "sent" /\ w.slot = worker[g].slot
      /\ w.ports = worker[g].ports /\ w.final = worker[g].final /\ w.lit = worker[g].lit
  BY <1>2, <1>3 DEF Worker
<1>5. WorkerRight(w) BY <1>1, <1>2, <1>4 DEF WorkerRight
<1>6. worker' = [worker EXCEPT ![g] = w] BY <1>1, <1>2, <1>3
<1>7. worker' \in [Gens -> Worker] /\ \A h \in Gens : WorkerRight(worker'[h])
  BY <1>2, <1>4, <1>5, <1>6
<1>8. worker[g].lit \in SUBSET worker[g].ports /\ worker[g].ports \in SUBSET Ports
  BY <1>2 DEF Worker, WorkerRight
<1>9. /\ Sets(worker[g].lit, "flash", worker[g].ports)
      /\ port' \in [Ports -> {"off", "flash", "set"}] /\ lost' \subseteq Ports
  <2>1. "flash" \in {"off", "flash", "set"} OBVIOUS
  <2>2. PICK lit, ps : lit = worker[g].lit /\ ps = worker[g].ports OBVIOUS
  <2>3. /\ ps \in SUBSET Ports /\ lit \in SUBSET ps
        /\ Switch(lit, "flash", ps) \/ SwitchFails(ps)
    BY <1>1, <1>8, <2>2
  <2>4. /\ Sets(lit, "flash", ps)
        /\ port' \in [Ports -> {"off", "flash", "set"}] /\ lost' \subseteq Ports
    BY <2>1, <2>3, SwitchFacts
  <2> QED BY <2>2, <2>4
<1>10. Types' BY <1>1, <1>7, <1>9 DEF Types
<1>11. Applies(g, w)
  BY <1>1, <1>2, <1>4, <1>6, <1>8, <1>9 DEF Applies, WorkerRight
<1> QED BY <1>4, <1>10, <1>11

\* A worker back under the lock: it goes on with its run, or has ended it.
Answered(g, s, w) ==
  /\ worker[g].pc = "sent" /\ worker[g].slot = s /\ Mine(s, g)
  /\ \A t \in Threads : Alike(th'[t], th[t])
  /\ \A x \in Slots \ {s} : run'[x] = run[x]
  /\ worker' = [worker EXCEPT ![g] = w]
  /\ \/ /\ worker[g].final /\ run'[s] = NoRun /\ w.pc = "gone"
     \/ /\ ~worker[g].final /\ Same(run'[s], run[s]) /\ run'[s].stop = run[s].stop
        /\ w.pc = "wait" /\ w.slot = s
  /\ UNCHANGED <<gen, port, lost, overlap>>

LEMMA WorkerAppliedDoes ==
  ASSUME Types, NEW g \in Gens, WorkerApplied(g), Holds(g)
  PROVE  /\ Types'
         /\ \E s \in Slots, w \in Worker : Answered(g, s, w)
<1> DEFINE s == worker[g].slot
<1>1. /\ worker[g].pc = "sent" /\ th' = Woken(th)
      /\ worker' = [worker EXCEPT ![g] = IF worker[g].final THEN Gone
                                     ELSE [NoWorker EXCEPT !.pc = "wait", !.slot = s]]
      /\ run' = IF worker[g].final /\ Mine(s, g) THEN Freed({s})
                ELSE IF run[s].used THEN [run EXCEPT ![s].busy = FALSE] ELSE run
      /\ UNCHANGED <<rules, delayed, gen, port, starts, lost, overlap>>
  BY DEF WorkerApplied, count, hist
<1>2. /\ worker \in [Gens -> Worker] /\ WorkerRight(worker[g])
      /\ \A h \in Gens : WorkerRight(worker[h])
      /\ DOMAIN run = Slots /\ \A x \in Slots : run[x] = NoRun \/ RunRight(run[x])
  BY DEF Types
<1>3. s \in Slots /\ Mine(s, g) /\ run[s].used BY <1>1, <1>2 DEF WorkerRight, Holds, Mine
<1>4. /\ th' \in [Threads -> Thread] /\ \A t \in Threads : Alike(th'[t], th[t])
      /\ gen' + Len(delayed') + Pending(th') <= starts'
      /\ \A t \in Threads : ThreadRight(th'[t])
  BY <1>1, WorkerTurn
<1>5. CASE worker[g].final
  <2>1. run' = Freed({s}) /\ worker' = [worker EXCEPT ![g] = Gone] BY <1>1, <1>3, <1>5
  <2>2. {s} \in SUBSET Slots /\ \A x \in {s} : run[x].used BY <1>3
  <2>3. DOMAIN run' = Slots /\ run'[s] = NoRun /\ \A x \in Slots \ {s} : run'[x] = run[x]
    BY <1>3, <2>1, <2>2, EndsFacts
  <2>4. Gone \in Worker /\ WorkerRight(Gone) /\ Gone.pc = "gone" BY WorkerRecords
  <2>5. worker' \in [Gens -> Worker] /\ \A h \in Gens : WorkerRight(worker'[h])
    BY <1>2, <2>1, <2>4
  <2>6. \A x \in Slots : run'[x] = NoRun \/ RunRight(run'[x]) BY <1>2, <2>3
  <2>7. Types' BY <1>1, <1>4, <2>3, <2>5, <2>6 DEF Types
  <2>8. Answered(g, s, Gone) BY <1>1, <1>3, <1>4, <1>5, <2>1, <2>3, <2>4 DEF Answered
  <2> QED BY <1>3, <2>4, <2>7, <2>8
<1>6. CASE ~worker[g].final
  <2>1. PICK w : w = [NoWorker EXCEPT !.pc = "wait", !.slot = s] OBVIOUS
  <2>2. w \in Worker /\ WorkerRight(w) /\ w.pc = "wait" /\ w.slot = s
    BY <1>3, <2>1, WorkerRecords
  <2>3. run' = [run EXCEPT ![s].busy = FALSE] /\ worker' = [worker EXCEPT ![g] = w]
    BY <1>1, <1>3, <1>6, <2>1
  <2>4. /\ DOMAIN run' = Slots /\ run'[s] = [run[s] EXCEPT !.busy = FALSE]
        /\ \A x \in Slots \ {s} : run'[x] = run[x]
    BY <1>2, <1>3, <2>3
  <2>5. RunRight(run'[s]) /\ Same(run'[s], run[s]) /\ run'[s].stop = run[s].stop
    BY <1>3, <2>4, LeftIdle
  <2>6. worker' \in [Gens -> Worker] /\ \A h \in Gens : WorkerRight(worker'[h])
    BY <1>2, <2>2, <2>3
  <2>7. \A x \in Slots : run'[x] = NoRun \/ RunRight(run'[x]) BY <1>2, <2>4, <2>5
  <2>8. Types' BY <1>1, <1>4, <2>4, <2>6, <2>7 DEF Types
  <2>9. Answered(g, s, w) BY <1>1, <1>3, <1>4, <1>6, <2>2, <2>3, <2>4, <2>5 DEF Answered
  <2> QED BY <1>3, <2>2, <2>8, <2>9
<1> QED BY <1>5, <1>6

\* A worker whose run is no longer its own, or is to be stopped.
Exits(g) ==
  /\ worker[g].pc = "wait" /\ ~(Mine(worker[g].slot, g) /\ ~run[worker[g].slot].stop)
  /\ worker' = [worker EXCEPT ![g] = Gone]
  /\ UNCHANGED <<run, gen, th, port, lost, overlap>>

LEMMA WorkerExitsDoes ==
  ASSUME Types, NEW g \in Gens, WorkerExits(g)
  PROVE  Types' /\ Exits(g)
<1>1. /\ worker' = [worker EXCEPT ![g] = Gone]
      /\ UNCHANGED <<rules, delayed, run, gen, th, starts, port, lost, overlap>>
  BY DEF WorkerExits, count, hist
<1>2. worker' \in [Gens -> Worker] /\ \A h \in Gens : WorkerRight(worker'[h])
  BY <1>1, WorkerRecords DEF Types
<1>3. Types' BY <1>1, <1>2 DEF Types
<1>4. Exits(g) BY <1>1 DEF WorkerExits, GoesOn, Exits
<1> QED BY <1>3, <1>4

\* A run whose time is up.
Ages ==
  /\ \A s \in Slots : Steady(run'[s], run[s])
  /\ UNCHANGED <<gen, worker, th, port, lost, overlap>>

LEMMA TimeUpDoes ==
  ASSUME Types, NEW s \in Slots, TimeUp(s)
  PROVE  Types' /\ Ages
<1>1. /\ run[s].used /\ run' = [run EXCEPT ![s].late = TRUE]
      /\ UNCHANGED <<rules, delayed, gen, worker, th, starts, port, lost, overlap>>
  BY DEF TimeUp, count, hist
<1>2. RunRight(run[s]) /\ run[s] \in Run BY <1>1, RunFields
<1>3. /\ DOMAIN run' = Slots /\ run'[s] = [run[s] EXCEPT !.late = TRUE]
      /\ \A x \in Slots \ {s} : run'[x] = run[x]
  BY <1>1 DEF Types
<1>4. RunRight(run'[s]) /\ Steady(run'[s], run[s])
  BY <1>2, <1>3 DEF RunRight, Run, Steady, Same, PortsOf
<1>5. \A x \in Slots : run'[x] = NoRun \/ RunRight(run'[x]) BY <1>3, <1>4 DEF Types
<1>6. Types' BY <1>1, <1>3, <1>5 DEF Types
<1>7. Ages BY <1>1, <1>3, <1>4 DEF Ages, Steady, Same
<1> QED BY <1>6, <1>7

\* A thread that refreshes a run.
Refreshes(t) ==
  /\ th[t].pc = "lock" /\ th[t].wgen = 0 /\ Turned(th, th', t, Idle)
  /\ \A s \in Slots : Steady(run'[s], run[s])
  /\ UNCHANGED <<gen, worker, port, lost, overlap>>

\* Each step is one of these.
ThreadDoes(t) ==
  \/ \E rec \in Thread : Quiet(t, rec)
  \/ Refreshes(t)
  \/ \E j \in Slots, ended \in SUBSET Slots, me \in Thread : WaitsFor(t, j, ended, me)
  \/ \E me \in Thread, m \in Slots : TakesSlot(t, m, me)
  \/ \E me \in Thread : TakesNone(t, me)
  \/ \E o \in th[t].offs, me \in Thread : SwitchesOff(t, o, me)
  \/ \E on \in SUBSET Ports : Posts(t, on)
  \/ \E lit \in SUBSET Ports, me \in Thread : Lights(t, lit, me)
  \/ \E me \in Thread : Hands(t, me)

WorkerDoes(g) ==
  \/ \E s \in Slots, w \in Worker : TakesUp(g, s, run'[s], w)
  \/ \E w \in Worker : Applies(g, w)
  \/ \E s \in Slots, w \in Worker : Answered(g, s, w)
  \/ Exits(g)

Does ==
  \/ \E t \in Threads : ThreadDoes(t)
  \/ \E g \in Gens : WorkerDoes(g)
  \/ Ages

\* Every step keeps the types, and is one of the steps above.
LEMMA StepDoes ==
  ASSUME Types, OwnersRight, [Next]_vars
  PROVE  Types' /\ Does
<1>1. CASE \/ \E t \in Threads, f \in Flashes : Decide(t, f)
           \/ \E i \in DOMAIN delayed : Resume(i)
           \/ \E t \in Threads, p \in Ports, closed \in BOOLEAN : Output(t, p, closed)
           \/ \E t \in Threads, r \in Rules, new \in {"on", "off", "gone"} : Change(t, r, new)
           \/ \E r \in Rules : Undo(r)
           \/ StopAll
           \/ \E t \in Threads : Delay(t) \/ ReadEnabled(t)
  <2>1. PICK t \in Threads, rec \in Thread : Quiet(t, rec) BY <1>1, Quiets
  <2>2. Types' BY <2>1, QuietTypes
  <2> QED BY <2>1, <2>2 DEF Does, ThreadDoes
<1>2. ASSUME NEW t \in Threads, Refresh(t) PROVE Types' /\ ThreadDoes(t)
  BY <1>2, RefreshDoes DEF ThreadDoes, Refreshes
<1>3. ASSUME NEW t \in Threads, ScanWaits(t) PROVE Types' /\ ThreadDoes(t)
  BY <1>3, ScanWaitsDoes DEF ThreadDoes
<1>4. ASSUME NEW t \in Threads, ScanDone(t) PROVE Types' /\ ThreadDoes(t)
  BY <1>4, ScanDoneDoes DEF ThreadDoes
<1>5. ASSUME NEW t \in Threads, SendOff(t) PROVE Types' /\ ThreadDoes(t)
  BY <1>5, SendOffDoes DEF ThreadDoes
<1>6. ASSUME NEW t \in Threads, Post(t) PROVE Types' /\ ThreadDoes(t)
  BY <1>6, PostDoes DEF ThreadDoes
<1>7. ASSUME NEW t \in Threads, FirstEdge(t) PROVE Types' /\ ThreadDoes(t)
  BY <1>7, FirstEdgeDoes DEF ThreadDoes
<1>8. ASSUME NEW t \in Threads, Started(t) PROVE Types' /\ ThreadDoes(t)
  <2>1. Owns(t) BY <1>8 DEF OwnersRight, Starts, Started
  <2> QED BY <1>8, <2>1, StartedDoes DEF ThreadDoes
<1>9. ASSUME NEW g \in Gens, WorkerStep(g) PROVE Types' /\ WorkerDoes(g)
  <2>1. CASE WorkerEdge(g) BY <2>1, WorkerEdgeDoes DEF WorkerDoes
  <2>2. CASE WorkerApplies(g) BY <2>2, WorkerAppliesDoes DEF WorkerDoes
  <2>3. CASE WorkerApplied(g)
    <3>1. Holds(g) BY <2>3 DEF OwnersRight, WorkerApplied
    <3> QED BY <2>3, <3>1, WorkerAppliedDoes DEF WorkerDoes
  <2>4. CASE WorkerExits(g) BY <2>4, WorkerExitsDoes DEF WorkerDoes
  <2> QED BY <1>9, <2>1, <2>2, <2>3, <2>4 DEF WorkerStep
<1>10. ASSUME NEW s \in Slots, TimeUp(s) PROVE Types' /\ Ages BY <1>10, TimeUpDoes
<1>11. ASSUME NEW t \in Threads, NEW r \in Rules, Enable(t, r) PROVE Types' /\ Ages
  <2>1. /\ rules' = [rules EXCEPT ![r] = "on"]
        /\ UNCHANGED <<delayed, run, gen, worker, th, port, starts, lost, overlap>>
    BY <1>11 DEF Enable, hist
  <2>2. Types' BY <2>1 DEF Types
  <2> QED BY <2>1, <2>2 DEF Ages, Steady, Same
<1>12. CASE UNCHANGED vars
  <2>1. UNCHANGED <<rules, delayed, run, gen, worker, th, port, starts, lost, overlap>>
    BY <1>12 DEF vars, count, hist
  <2>2. Types' BY <2>1 DEF Types
  <2> QED BY <2>1, <2>2 DEF Does, Ages, Steady, Same
<1>13. CASE Next
  <2>1. \/ \E t \in Threads, f \in Flashes : Decide(t, f)
        \/ \E i \in DOMAIN delayed : Resume(i)
        \/ \E t \in Threads, p \in Ports, closed \in BOOLEAN : Output(t, p, closed)
        \/ \E t \in Threads, r \in Rules, new \in {"on", "off", "gone"} : Change(t, r, new)
        \/ \E r \in Rules : Undo(r)
        \/ StopAll
        \/ \E t \in Threads : Delay(t) \/ ReadEnabled(t)
        \/ \E t \in Threads, r \in Rules : Enable(t, r)
        \/ \E t \in Threads : \/ Refresh(t)
                              \/ ScanWaits(t)
                              \/ ScanDone(t)
                              \/ SendOff(t)
                              \/ Post(t)
                              \/ FirstEdge(t)
                              \/ Started(t)
        \/ \E g \in Gens : WorkerStep(g)
        \/ \E s \in Slots : TimeUp(s)
    BY <1>13, Zenon DEF Next, ThreadStep
  <2> QED BY <2>1, <1>1, <1>2, <1>3, <1>4, <1>5, <1>6, <1>7, <1>8, <1>9, <1>10, <1>11,
             Zenon
          DEF Does
<1> QED BY <1>12, <1>13

(***************************************************************************)
(* Generations are never used twice.                                       *)
(***************************************************************************)

\* The same operation, at the same point but for being awake.
Akin(q, r) ==
  /\ q.op = r.op /\ q.arg = r.arg /\ q.at = r.at /\ q.wgen = r.wgen /\ q.offs = r.offs
  /\ q.slot = r.slot
  /\ (Waits(q) <=> Waits(r)) /\ (BeforeEdge(q) <=> BeforeEdge(r))
  /\ (Starts(q) <=> Starts(r)) /\ (ToPost(q) <=> ToPost(r))
  /\ (q.pc \in {"lock", "asleep"} <=> r.pc \in {"lock", "asleep"})
  /\ (q.pc \in {"idle", "ended"} <=> r.pc \in {"idle", "ended"})

\* Where thread t is after its step, and the other thread.
LEMMA Others ==
  ASSUME Types, NEW t \in Threads, NEW rec, Turned(th, th', t, rec)
  PROVE  th'[t] = rec /\ \A u \in Threads \ {t} : Akin(th'[u], th[u])
<1>1. th \in [Threads -> Thread] BY DEF Types
<1> QED BY <1>1, AlikeFacts DEF Turned, Akin

\* After a step of a worker.
LEMMA AllAkin ==
  ASSUME Types, \A u \in Threads : Alike(th'[u], th[u])
  PROVE  \A u \in Threads : Akin(th'[u], th[u])
<1>1. th \in [Threads -> Thread] BY DEF Types
<1> QED BY <1>1, AlikeFacts DEF Akin

\* No step but the start of a run uses a new generation.
LEMMA GensKeep ==
  ASSUME Types, Types', GensRight, gen' = gen,
         \A s \in Slots : run'[s].used => run[s].used /\ run'[s].gen = run[s].gen,
         \A g \in Gens : worker'[g].pc # "none" => g <= gen,
         \A t \in Threads : th'[t].wgen <= gen
  PROVE  GensRight'
BY DEF GensRight

LEMMA NoRunFacts == ~NoRun.used
BY DEF NoRun

LEMMA GensKept ==
  ASSUME Types, GensRight, OwnersRight, Types', Does
  PROVE  GensRight'
<1>0. /\ gen \in Nat /\ \A u \in Threads : th[u].wgen <= gen /\ th[u].wgen \in Nat
      /\ \A g \in Gens : worker[g].pc # "none" => g <= gen
      /\ \A s \in Slots : run[s].used => run[s].gen <= gen /\ run[s].gen \in Gens
      /\ worker \in [Gens -> Worker]
  <2>1. \A u \in Threads : th[u].wgen \in Nat BY Numbers, FlashParams DEF Types, Thread
  <2> QED BY <2>1, RunFields DEF GensRight, Types
<1>1. ASSUME NEW t \in Threads, NEW rec, Turned(th, th', t, rec), rec.wgen <= gen
      PROVE  \A u \in Threads : th'[u].wgen <= gen
  BY <1>0, <1>1, Others DEF Akin
<1>2. ASSUME NEW t \in Threads, NEW rec \in Thread, Quiet(t, rec) PROVE GensRight'
  <2>1. Turned(th, th', t, rec) BY <1>2, TurnedFacts DEF Quiet, Types
  <2>2. rec.wgen <= gen BY <1>0, <1>2 DEF Quiet
  <2>3. UNCHANGED <<run, gen, worker>> BY <1>2 DEF Quiet
  <2> QED BY <1>0, <1>1, <2>1, <2>2, <2>3, GensKeep
<1>3. ASSUME NEW t \in Threads, Refreshes(t) PROVE GensRight'
  <2>1. Turned(th, th', t, Idle) /\ Idle.wgen = 0 BY <1>3, QuietRecords DEF Refreshes, Ready
  <2>2. \A u \in Threads : th'[u].wgen <= gen BY <1>0, <1>1, <2>1
  <2>3. \A s \in Slots : run'[s].used => run[s].used /\ run'[s].gen = run[s].gen
    BY <1>3 DEF Refreshes, Steady, Same
  <2>4. UNCHANGED <<gen, worker>> BY <1>3 DEF Refreshes
  <2> QED BY <1>0, <2>2, <2>3, <2>4, GensKeep
<1>4. ASSUME NEW t \in Threads, NEW j \in Slots, NEW ended \in SUBSET Slots, NEW me \in Thread,
             WaitsFor(t, j, ended, me)
      PROVE  GensRight'
  <2>1. Turned(th, th', t, me) /\ me.wgen = run[j].gen /\ run[j].used
    BY <1>4, HitsFacts DEF WaitsFor
  <2>2. \A u \in Threads : th'[u].wgen <= gen BY <1>0, <1>1, <2>1
  <2>3. \A s \in Slots : run'[s].used => run[s].used /\ run'[s].gen = run[s].gen
    BY <1>4, NoRunFacts DEF WaitsFor, Same
  <2>4. UNCHANGED <<gen, worker>> BY <1>4 DEF WaitsFor
  <2> QED BY <1>0, <2>2, <2>3, <2>4, GensKeep
<1>5. ASSUME NEW t \in Threads, NEW me \in Thread, NEW m \in Slots, TakesSlot(t, m, me)
      PROVE  GensRight'
  <2>1. /\ Turned(th, th', t, me) /\ me.wgen = gen + 1 /\ gen' = gen + 1 /\ worker' = worker
        /\ run'[m].gen = gen + 1
        /\ \A s \in Slots \ {m} : run'[s] = NoRun \/ run'[s] = run[s]
    BY <1>5 DEF TakesSlot
  <2>2. \A u \in Threads : th'[u].wgen <= gen'
    BY <1>0, <2>1, Others DEF Akin
  <2>3. \A s \in Slots \ {m} : run'[s].used => run[s].used /\ run'[s].gen = run[s].gen
    BY <2>1, NoRunFacts
  <2>4. \A s \in Slots \ {m} : run'[s].used => run'[s].gen <= gen /\ run'[s].gen # gen + 1
    BY <1>0, <2>3, Numbers
  <2>5. \A s \in Slots : run'[s].used => run'[s].gen <= gen'
    <3>1. \A s \in Slots \ {m} : run'[s].used => run'[s].gen <= gen /\ run'[s].gen \in Nat
      BY <1>0, <2>3, Numbers
    <3>2. \A n \in Nat : n <= gen => n <= gen' BY <1>0, <2>1
    <3>3. run'[m].gen <= gen' BY <1>0, <2>1
    <3> QED BY <3>1, <3>2, <3>3
  <2>6. \A s, u \in Slots : run'[s].used /\ run'[u].used /\ run'[s].gen = run'[u].gen => s = u
    BY <2>1, <2>3, <2>4 DEF GensRight
  <2>7. \A g \in Gens : worker'[g].pc # "none" => g <= gen' BY <1>0, <2>1, Numbers
  <2> QED BY <2>2, <2>5, <2>6, <2>7 DEF GensRight
<1>6. ASSUME NEW t \in Threads, NEW me \in Thread, TakesNone(t, me) PROVE GensRight'
  <2>1. Turned(th, th', t, me) /\ me.wgen = 0 BY <1>6 DEF TakesNone
  <2>2. \A u \in Threads : th'[u].wgen <= gen BY <1>0, <1>1, <2>1
  <2>3. \A s \in Slots : run'[s].used => run[s].used /\ run'[s].gen = run[s].gen
    BY <1>6, NoRunFacts DEF TakesNone
  <2>4. UNCHANGED <<gen, worker>> BY <1>6 DEF TakesNone
  <2> QED BY <1>0, <2>2, <2>3, <2>4, GensKeep
<1>7. ASSUME NEW t \in Threads, NEW o, NEW me \in Thread, SwitchesOff(t, o, me)
      PROVE  GensRight'
  <2>1. Turned(th, th', t, me) /\ me.wgen <= gen BY <1>0, <1>7 DEF SwitchesOff
  <2>2. \A u \in Threads : th'[u].wgen <= gen BY <1>1, <2>1
  <2>3. UNCHANGED <<run, gen, worker>> BY <1>7 DEF SwitchesOff
  <2> QED BY <1>0, <2>2, <2>3, GensKeep
<1>8. ASSUME NEW t \in Threads, NEW on, Posts(t, on) PROVE GensRight'
  <2>1. Turned(th, th', t, Idle) /\ Idle.wgen = 0 BY <1>8, QuietRecords DEF Posts, Ready
  <2>2. \A u \in Threads : th'[u].wgen <= gen BY <1>0, <1>1, <2>1
  <2>3. UNCHANGED <<run, gen, worker>> BY <1>8 DEF Posts
  <2> QED BY <1>0, <2>2, <2>3, GensKeep
<1>9. ASSUME NEW t \in Threads, NEW lit, NEW me \in Thread, Lights(t, lit, me)
      PROVE  GensRight'
  <2>1. Turned(th, th', t, me) /\ me.wgen <= gen BY <1>0, <1>9 DEF Lights
  <2>2. \A u \in Threads : th'[u].wgen <= gen BY <1>1, <2>1
  <2>3. UNCHANGED <<run, gen, worker>> BY <1>9 DEF Lights
  <2> QED BY <1>0, <2>2, <2>3, GensKeep
<1>10. ASSUME NEW t \in Threads, NEW me \in Thread, Hands(t, me) PROVE GensRight'
  <2>1. Turned(th, th', t, me) /\ me.wgen <= gen BY <1>0, <1>10 DEF Hands
  <2>2. \A u \in Threads : th'[u].wgen <= gen BY <1>1, <2>1
  <2>3. \A s \in Slots : run'[s].used => run[s].used /\ run'[s].gen = run[s].gen
    BY <1>10, NoRunFacts DEF Hands, Same
  <2>4. \A g \in Gens : worker'[g].pc # "none" => g <= gen
    <3>1. \/ worker' = worker
          \/ worker' = [worker EXCEPT ![th[t].wgen] =
                          [NoWorker EXCEPT !.pc = "wait", !.slot = th[t].slot]]
      BY <1>10 DEF Hands
    <3>2. \A g \in Gens : g = th[t].wgen \/ worker'[g] = worker[g] BY <1>0, <3>1
    <3> QED BY <1>0, <3>2
  <2>5. gen' = gen BY <1>10 DEF Hands
  <2> QED BY <2>2, <2>3, <2>4, <2>5, GensKeep
<1>11. ASSUME NEW g \in Gens, NEW s \in Slots, NEW w \in Worker, TakesUp(g, s, run'[s], w)
       PROVE  GensRight'
  <2>1. \A x \in Slots : run'[x].used => run[x].used /\ run'[x].gen = run[x].gen
    BY <1>11 DEF TakesUp, Same
  <2>2. \A h \in Gens : worker'[h].pc # "none" => h <= gen BY <1>0, <1>11 DEF TakesUp
  <2>3. UNCHANGED <<gen, th>> BY <1>11 DEF TakesUp
  <2> QED BY <1>0, <2>1, <2>2, <2>3, GensKeep
<1>12. ASSUME NEW g \in Gens, NEW w \in Worker, Applies(g, w) PROVE GensRight'
  <2>1. \A h \in Gens : worker'[h].pc # "none" => h <= gen BY <1>0, <1>12 DEF Applies
  <2>2. UNCHANGED <<run, gen, th>> BY <1>12 DEF Applies
  <2> QED BY <1>0, <2>1, <2>2, GensKeep
<1>13. ASSUME NEW g \in Gens, NEW s \in Slots, NEW w \in Worker, Answered(g, s, w)
       PROVE  GensRight'
  <2>1. \A x \in Slots : run'[x].used => run[x].used /\ run'[x].gen = run[x].gen
    BY <1>13, NoRunFacts DEF Answered, Same
  <2>2. \A h \in Gens : worker'[h].pc # "none" => h <= gen BY <1>0, <1>13 DEF Answered
  <2>3. \A u \in Threads : Akin(th'[u], th[u]) BY <1>13, AllAkin DEF Answered
  <2>4. \A u \in Threads : th'[u].wgen <= gen BY <1>0, <2>3 DEF Akin
  <2>5. gen' = gen BY <1>13 DEF Answered
  <2> QED BY <2>1, <2>2, <2>4, <2>5, GensKeep
<1>14. ASSUME NEW g \in Gens, Exits(g) PROVE GensRight'
  <2>1. \A h \in Gens : worker'[h].pc # "none" => h <= gen BY <1>0, <1>14 DEF Exits
  <2>2. UNCHANGED <<run, gen, th>> BY <1>14 DEF Exits
  <2> QED BY <1>0, <2>1, <2>2, GensKeep
<1>15. CASE Ages
  <2>1. \A x \in Slots : run'[x].used => run[x].used /\ run'[x].gen = run[x].gen
    BY <1>15 DEF Ages, Steady, Same
  <2>2. UNCHANGED <<gen, th, worker>> BY <1>15 DEF Ages
  <2> QED BY <1>0, <2>1, <2>2, GensKeep
<1>16. ASSUME NEW t \in Threads, ThreadDoes(t) PROVE GensRight'
  BY <1>2, <1>3, <1>4, <1>5, <1>6, <1>7, <1>8, <1>9, <1>10, <1>16, Zenon DEF ThreadDoes
<1>17. ASSUME NEW g \in Gens, WorkerDoes(g) PROVE GensRight'
  BY <1>11, <1>12, <1>13, <1>14, <1>17, Zenon DEF WorkerDoes
<1> QED BY <1>15, <1>16, <1>17 DEF Does

(***************************************************************************)
(* A run with a request in flight stays with whoever sends it.             *)
(***************************************************************************)

LEMMA OwnsKeeps ==
  ASSUME NEW u \in Threads, Owns(u), th'[u].arg = th[u].arg, th'[u].slot = th[u].slot,
         th'[u].wgen = th[u].wgen, worker'[th[u].wgen].pc = "none",
         run'[th[u].slot].busy, Same(run'[th[u].slot], run[th[u].slot])
  PROVE  Owns(u)'
BY DEF Owns, Mine, Same

LEMMA HoldsKeeps ==
  ASSUME NEW g \in Gens, Holds(g), worker'[g].slot = worker[g].slot,
         worker'[g].ports = worker[g].ports,
         run'[worker[g].slot].busy, Same(run'[worker[g].slot], run[worker[g].slot])
  PROVE  Holds(g)'
BY DEF Holds, Mine, Same

\* No step but those that start, take up or hand over a run changes who drives it.
LEMMA OwnersKeep ==
  ASSUME Types, OwnersRight,
         \A u \in Threads : Starts(th'[u]) =>
           /\ Starts(th[u]) /\ th'[u].arg = th[u].arg /\ th'[u].slot = th[u].slot
           /\ th'[u].wgen = th[u].wgen,
         \A g \in Gens : worker'[g].pc \in {"send", "sent"} =>
           /\ worker[g].pc \in {"send", "sent"} /\ worker'[g].slot = worker[g].slot
           /\ worker'[g].ports = worker[g].ports,
         \A g \in Gens : worker[g].pc = "none" => worker'[g].pc = "none",
         \A s \in Slots : run[s].used /\ run[s].busy => run'[s].busy /\ Same(run'[s], run[s])
  PROVE  OwnersRight'
<1>1. ASSUME NEW u \in Threads, Starts(th'[u]) PROVE Owns(u)'
  <2>1. Owns(u) BY <1>1 DEF OwnersRight
  <2> QED BY <1>1, <2>1, OwnsKeeps DEF Owns, Mine
<1>2. ASSUME NEW g \in Gens, worker'[g].pc \in {"send", "sent"} PROVE Holds(g)'
  <2>1. Holds(g) /\ worker[g].slot \in Slots BY <1>2 DEF OwnersRight, Types, WorkerRight
  <2> QED BY <1>2, <2>1, HoldsKeeps DEF Holds, Mine
<1> QED BY <1>1, <1>2 DEF OwnersRight

\* The run that a thread starts has no other starter and no worker.
LEMMA Sole ==
  ASSUME OwnersRight, NEW t \in Threads, Starts(th[t])
  PROVE  /\ \A u \in Threads : Starts(th[u]) /\ th[u].slot = th[t].slot => u = t
         /\ \A g \in Gens : worker[g].pc \in {"send", "sent"} =>
              worker[g].slot # th[t].slot /\ g # th[t].wgen
<1>1. Owns(t) /\ \A u \in Threads : Starts(th[u]) => Owns(u) BY DEF OwnersRight
<1>2. \A u \in Threads : Starts(th[u]) /\ th[u].slot = th[t].slot => th[u].wgen = th[t].wgen
  BY <1>1 DEF Owns, Mine
<1>3. \A g \in Gens : worker[g].pc \in {"send", "sent"} => Holds(g) BY DEF OwnersRight
<1>4. ASSUME NEW g \in Gens, worker[g].pc \in {"send", "sent"}
      PROVE  worker[g].slot # th[t].slot /\ g # th[t].wgen
  <2>1. worker[th[t].wgen].pc = "none" /\ run[th[t].slot].gen = th[t].wgen
    BY <1>1 DEF Owns, Mine
  <2>2. run[worker[g].slot].gen = g BY <1>3, <1>4 DEF Holds, Mine
  <2>3. g # th[t].wgen BY <1>4, <2>1
  <2> QED BY <2>1, <2>2, <2>3
<1> QED BY <1>2, <1>4 DEF OwnersRight

LEMMA OwnersKept ==
  ASSUME Types, GensRight, OwnersRight, Types', Does
  PROVE  OwnersRight'
<1>0. /\ gen \in Nat /\ \A u \in Threads : th[u].wgen <= gen /\ th[u].wgen \in Nat
      /\ \A g \in Gens : worker[g].pc # "none" => g <= gen
      /\ worker \in [Gens -> Worker] /\ \A g \in Gens : WorkerRight(worker[g])
  <2>1. \A u \in Threads : th[u].wgen \in Nat BY Numbers, FlashParams DEF Types, Thread
  <2> QED BY <2>1 DEF GensRight, Types
<1>1. ASSUME NEW t \in Threads, NEW rec, Turned(th, th', t, rec),
             Starts(rec) => /\ Starts(th[t]) /\ rec.arg = th[t].arg
                            /\ rec.slot = th[t].slot /\ rec.wgen = th[t].wgen,
             UNCHANGED worker,
             \A s \in Slots : run[s].used /\ run[s].busy =>
               run'[s].busy /\ Same(run'[s], run[s])
      PROVE  OwnersRight'
  <2>1. \A u \in Threads : Starts(th'[u]) =>
           /\ Starts(th[u]) /\ th'[u].arg = th[u].arg /\ th'[u].slot = th[u].slot
           /\ th'[u].wgen = th[u].wgen
    BY <1>1, Others DEF Akin
  <2> QED BY <1>1, <2>1, OwnersKeep
<1>2. ASSUME NEW t \in Threads, NEW rec \in Thread, Quiet(t, rec) PROVE OwnersRight'
  <2>1. Turned(th, th', t, rec) BY <1>2, TurnedFacts DEF Quiet, Types
  <2>2. ~Starts(rec) BY <1>2 DEF Quiet, Starts, BeforeEdge
  <2>3. UNCHANGED <<run, worker>> BY <1>2 DEF Quiet
  <2> QED BY <1>1, <2>1, <2>2, <2>3 DEF Same
<1>3. ASSUME NEW t \in Threads, Refreshes(t) PROVE OwnersRight'
  <2>1. Turned(th, th', t, Idle) /\ ~Starts(Idle)
    BY <1>3, QuietRecords DEF Refreshes, Ready, Starts, BeforeEdge
  <2>2. \A s \in Slots : run[s].used /\ run[s].busy => run'[s].busy /\ Same(run'[s], run[s])
    BY <1>3 DEF Refreshes, Steady
  <2>3. UNCHANGED worker BY <1>3 DEF Refreshes
  <2> QED BY <1>1, <2>1, <2>2, <2>3
<1>4. ASSUME NEW t \in Threads, NEW j \in Slots, NEW ended \in SUBSET Slots, NEW me \in Thread,
             WaitsFor(t, j, ended, me)
      PROVE  OwnersRight'
  <2>1. Turned(th, th', t, me) /\ ~Starts(me) BY <1>4 DEF WaitsFor, Starts, BeforeEdge
  <2>2. \A s \in Slots : run[s].used /\ run[s].busy => run'[s].busy /\ Same(run'[s], run[s])
    BY <1>4 DEF WaitsFor
  <2>3. UNCHANGED worker BY <1>4 DEF WaitsFor
  <2> QED BY <1>1, <2>1, <2>2, <2>3
<1>5. ASSUME NEW t \in Threads, NEW me \in Thread, NEW m \in Slots, TakesSlot(t, m, me)
      PROVE  OwnersRight'
  <2>1. /\ th'[t] = me /\ me.wgen = gen + 1 /\ gen + 1 \in Gens /\ me.slot = m
        /\ me.arg = th[t].arg /\ worker' = worker
        /\ \A u \in Threads \ {t} : Akin(th'[u], th[u])
    BY <1>5, Others DEF TakesSlot
  <2>2. \A s \in Slots : run[s].used /\ run[s].busy => run'[s].busy /\ Same(run'[s], run[s])
    BY <1>5 DEF TakesSlot, Same
  <2>3. worker[gen + 1].pc = "none" BY <1>0, <2>1
  <2>4. Owns(t)'
    BY <1>5, <2>1, <2>3 DEF TakesSlot, Owns, Mine
  <2>5. ASSUME NEW u \in Threads \ {t}, Starts(th'[u])
        PROVE  Owns(u)' /\ th'[u].wgen = th[u].wgen /\ Starts(th[u])
    <3>1. /\ Starts(th[u]) /\ th'[u].arg = th[u].arg /\ th'[u].slot = th[u].slot
          /\ th'[u].wgen = th[u].wgen
      BY <2>1, <2>5 DEF Akin
    <3>2. Owns(u) BY <3>1 DEF OwnersRight
    <3> QED BY <2>1, <2>2, <3>1, <3>2, OwnsKeeps DEF Owns, Mine
  <2>6. ASSUME NEW g \in Gens, worker'[g].pc \in {"send", "sent"} PROVE Holds(g)'
    <3>1. Holds(g) /\ worker[g].slot \in Slots
      BY <1>0, <2>1, <2>6 DEF OwnersRight, WorkerRight
    <3> QED BY <2>1, <2>2, <3>1, HoldsKeeps DEF Holds, Mine
  <2>7. \A u \in Threads \ {t} : Starts(th'[u]) => th'[u].wgen # th'[t].wgen
    BY <1>0, <2>1, <2>5
  <2>8. \A u, v \in Threads :
          Starts(th'[u]) /\ Starts(th'[v]) /\ th'[u].wgen = th'[v].wgen => u = v
    BY <2>5, <2>7 DEF OwnersRight
  <2> QED BY <2>4, <2>5, <2>6, <2>8 DEF OwnersRight
<1>6. ASSUME NEW t \in Threads, NEW me \in Thread, TakesNone(t, me) PROVE OwnersRight'
  <2>1. Turned(th, th', t, me) /\ ~Starts(me) BY <1>6 DEF TakesNone
  <2>2. \A s \in Slots : run[s].used /\ run[s].busy => run'[s].busy /\ Same(run'[s], run[s])
    BY <1>6 DEF TakesNone, Same
  <2>3. UNCHANGED worker BY <1>6 DEF TakesNone
  <2> QED BY <1>1, <2>1, <2>2, <2>3
<1>7. ASSUME NEW t \in Threads, NEW o, NEW me \in Thread, SwitchesOff(t, o, me)
      PROVE  OwnersRight'
  <2>1. /\ Turned(th, th', t, me)
        /\ Starts(me) => /\ Starts(th[t]) /\ me.arg = th[t].arg
                         /\ me.slot = th[t].slot /\ me.wgen = th[t].wgen
    BY <1>7 DEF SwitchesOff
  <2>2. UNCHANGED <<run, worker>> BY <1>7 DEF SwitchesOff
  <2> QED BY <1>1, <2>1, <2>2 DEF Same
<1>8. ASSUME NEW t \in Threads, NEW on, Posts(t, on) PROVE OwnersRight'
  <2>1. Turned(th, th', t, Idle) /\ ~Starts(Idle)
    BY <1>8, QuietRecords DEF Posts, Ready, Starts, BeforeEdge
  <2>2. UNCHANGED <<run, worker>> BY <1>8 DEF Posts
  <2> QED BY <1>1, <2>1, <2>2 DEF Same
<1>9. ASSUME NEW t \in Threads, NEW lit, NEW me \in Thread, Lights(t, lit, me)
      PROVE  OwnersRight'
  <2>1. /\ Turned(th, th', t, me) /\ Starts(th[t]) /\ me.arg = th[t].arg
        /\ me.slot = th[t].slot /\ me.wgen = th[t].wgen
    BY <1>9 DEF Lights, Starts, BeforeEdge
  <2>2. UNCHANGED <<run, worker>> BY <1>9 DEF Lights
  <2> QED BY <1>1, <2>1, <2>2 DEF Same
<1>10. ASSUME NEW t \in Threads, NEW me \in Thread, Hands(t, me) PROVE OwnersRight'
  <2>1. /\ th'[t] = me /\ ~Starts(me) /\ Starts(th[t])
        /\ \A u \in Threads \ {t} : Akin(th'[u], th[u])
        /\ \A x \in Slots \ {th[t].slot} : run'[x] = run[x]
    BY <1>10, Others DEF Hands, Starts
  <2>2. Owns(t) /\ th[t].wgen \in Gens BY <2>1 DEF OwnersRight, Owns
  <2>3. \A g \in Gens \ {th[t].wgen} : worker'[g] = worker[g]
    BY <1>0, <1>10 DEF Hands
  <2>4. worker'[th[t].wgen].pc \in {"none", "wait"}
    <3>1. worker[th[t].wgen].pc = "none" BY <2>2 DEF Owns
    <3>2. th[t].slot \in Slots BY <2>2 DEF Owns
    <3>3. [NoWorker EXCEPT !.pc = "wait", !.slot = th[t].slot].pc = "wait"
      BY <3>2, WorkerRecords
    <3>4. \/ worker' = worker
          \/ worker' = [worker EXCEPT ![th[t].wgen] =
                          [NoWorker EXCEPT !.pc = "wait", !.slot = th[t].slot]]
      BY <1>10 DEF Hands
    <3> QED BY <1>0, <2>2, <3>1, <3>3, <3>4
  <2>5. ASSUME NEW u \in Threads, Starts(th'[u])
        PROVE  Owns(u)' /\ th'[u].wgen = th[u].wgen /\ Starts(th[u])
    <3>1. /\ u # t /\ Starts(th[u]) /\ th'[u].arg = th[u].arg /\ th'[u].slot = th[u].slot
          /\ th'[u].wgen = th[u].wgen
      BY <2>1, <2>5 DEF Akin
    <3>2. Owns(u) /\ th[u].slot # th[t].slot /\ th[u].wgen # th[t].wgen
      BY <2>1, <3>1, Sole DEF OwnersRight
    <3>3. run'[th[u].slot] = run[th[u].slot] /\ worker'[th[u].wgen] = worker[th[u].wgen]
      BY <2>1, <2>3, <3>2 DEF Owns
    <3> QED BY <3>1, <3>2, <3>3, OwnsKeeps DEF Owns, Same
  <2>6. ASSUME NEW g \in Gens, worker'[g].pc \in {"send", "sent"} PROVE Holds(g)'
    <3>1. g # th[t].wgen BY <2>4, <2>6
    <3>2. worker'[g] = worker[g] BY <2>3, <3>1
    <3>3. Holds(g) /\ worker[g].slot \in Slots /\ worker[g].slot # th[t].slot
      BY <1>0, <2>1, <2>6, <3>2, Sole DEF OwnersRight, WorkerRight
    <3>4. run'[worker[g].slot] = run[worker[g].slot] BY <2>1, <3>3
    <3> QED BY <3>2, <3>3, <3>4, HoldsKeeps DEF Holds, Same
  <2> QED BY <2>5, <2>6 DEF OwnersRight
<1>11. ASSUME NEW g \in Gens, NEW s \in Slots, NEW w \in Worker, TakesUp(g, s, run'[s], w)
       PROVE  OwnersRight'
  <2>1. \A x \in Slots : run[x].used /\ run[x].busy => run'[x].busy /\ Same(run'[x], run[x])
    BY <1>11 DEF TakesUp, Same
  <2>2. /\ th' = th /\ worker[g].pc = "wait" /\ worker'[g] = w
        /\ \A h \in Gens \ {g} : worker'[h] = worker[h]
    BY <1>0, <1>11 DEF TakesUp
  <2>3. Holds(g)' BY <1>11, <2>2 DEF TakesUp, Holds, Mine, Same
  <2>4. ASSUME NEW h \in Gens \ {g}, worker'[h].pc \in {"send", "sent"} PROVE Holds(h)'
    <3>1. Holds(h) /\ worker[h].slot \in Slots
      BY <1>0, <2>2, <2>4 DEF OwnersRight, WorkerRight
    <3> QED BY <2>1, <2>2, <3>1, HoldsKeeps DEF Holds, Mine
  <2>5. ASSUME NEW u \in Threads, Starts(th'[u]) PROVE Owns(u)'
    <3>1. Owns(u) /\ th[u].wgen # g BY <2>2, <2>5 DEF OwnersRight, Owns
    <3> QED BY <2>1, <2>2, <3>1, OwnsKeeps DEF Owns, Mine
  <2> QED BY <2>2, <2>3, <2>4, <2>5 DEF OwnersRight
<1>12. ASSUME NEW g \in Gens, NEW w \in Worker, Applies(g, w) PROVE OwnersRight'
  <2>1. /\ UNCHANGED <<run, th>> /\ worker[g].pc = "send" /\ worker'[g] = w
        /\ \A h \in Gens \ {g} : worker'[h] = worker[h]
        /\ w.slot = worker[g].slot /\ w.ports = worker[g].ports
    BY <1>0, <1>12 DEF Applies
  <2> QED BY <2>1, OwnersKeep DEF Same
<1>13. ASSUME NEW g \in Gens, NEW s \in Slots, NEW w \in Worker, Answered(g, s, w)
       PROVE  OwnersRight'
  <2>1. /\ worker[g].pc = "sent" /\ worker[g].slot = s /\ worker'[g] = w
        /\ \A h \in Gens \ {g} : worker'[h] = worker[h]
        /\ \A x \in Slots \ {s} : run'[x] = run[x]
        /\ w.pc \in {"gone", "wait"} /\ Mine(s, g)
    BY <1>0, <1>13 DEF Answered
  <2>2. \A u \in Threads : Akin(th'[u], th[u]) BY <1>13, AllAkin DEF Answered
  <2>3. ASSUME NEW h \in Gens, worker'[h].pc \in {"send", "sent"} PROVE Holds(h)'
    <3>1. h # g /\ worker'[h] = worker[h] BY <2>1, <2>3
    <3>2. Holds(h) /\ worker[h].slot \in Slots
      BY <1>0, <2>3, <3>1 DEF OwnersRight, WorkerRight
    <3>3. worker[h].slot # s BY <2>1, <3>1, <3>2 DEF Holds, Mine
    <3> QED BY <2>1, <3>1, <3>2, <3>3, HoldsKeeps DEF Holds, Same
  <2>4. ASSUME NEW u \in Threads, Starts(th'[u]) PROVE Owns(u)' /\ Akin(th'[u], th[u])
    <3>1. Starts(th[u]) /\ Akin(th'[u], th[u]) BY <2>2, <2>4 DEF Akin
    <3>2. Owns(u) /\ th[u].slot # s /\ th[u].wgen # g
      BY <2>1, <3>1, Sole DEF OwnersRight
    <3>3. run'[th[u].slot] = run[th[u].slot] /\ worker'[th[u].wgen] = worker[th[u].wgen]
      BY <2>1, <3>2 DEF Owns
    <3> QED BY <3>1, <3>2, <3>3, OwnsKeeps DEF Owns, Same, Akin
  <2> QED BY <2>3, <2>4 DEF OwnersRight, Akin
<1>14. ASSUME NEW g \in Gens, Exits(g) PROVE OwnersRight'
  <2>1. /\ UNCHANGED <<run, th>> /\ worker[g].pc = "wait" /\ worker'[g].pc = "gone"
        /\ \A h \in Gens \ {g} : worker'[h] = worker[h]
    BY <1>0, <1>14, WorkerRecords DEF Exits
  <2> QED BY <2>1, OwnersKeep DEF Same
<1>15. CASE Ages
  <2>1. \A s \in Slots : run[s].used /\ run[s].busy => run'[s].busy /\ Same(run'[s], run[s])
    BY <1>15 DEF Ages, Steady
  <2>2. UNCHANGED <<th, worker>> BY <1>15 DEF Ages
  <2> QED BY <2>1, <2>2, OwnersKeep
<1>16. ASSUME NEW t \in Threads, ThreadDoes(t) PROVE OwnersRight'
  BY <1>2, <1>3, <1>4, <1>5, <1>6, <1>7, <1>8, <1>9, <1>10, <1>16, Zenon DEF ThreadDoes
<1>17. ASSUME NEW g \in Gens, WorkerDoes(g) PROVE OwnersRight'
  BY <1>11, <1>12, <1>13, <1>14, <1>17, Zenon DEF WorkerDoes
<1> QED BY <1>15, <1>16, <1>17 DEF Does

(***************************************************************************)
(* Every run is in somebody's hands.                                       *)
(***************************************************************************)

\* MustEnd, of the records of a thread and a run.
InWay(r, q) ==
  /\ q.used
  /\ CASE r.op = "flash"  -> SharesPort(r.arg, q)
       [] r.op = "output" -> r.arg.port \in PortsOf(q)
       [] r.op = "stop"   -> q.rule = r.arg.rule
       [] OTHER           -> TRUE

LEMMA InWayFacts ==
  \A t \in Threads, s \in Slots : MustEnd(t, s) <=> InWay(th[t], run[s])
BY DEF MustEnd, InWay

LEMMA InWaySame ==
  \A a, b, q, r : a.op = b.op /\ a.arg = b.arg /\ Same(q, r) => (InWay(a, q) <=> InWay(b, r))
<1> SUFFICES ASSUME NEW a, NEW b, NEW q, NEW r, a.op = b.op, a.arg = b.arg, Same(q, r)
             PROVE  InWay(a, q) <=> InWay(b, r)
  OBVIOUS
<1>1. CASE ~r.used BY <1>1 DEF InWay, Same
<1>2. CASE r.used
  <2>1. q.used /\ q.rule = r.rule /\ PortsOf(q) = PortsOf(r) BY <1>2 DEF Same
  <2>2. SharesPort(a.arg, q) <=> SharesPort(b.arg, r) BY <2>1 DEF SharesPort
  <2> QED BY <1>2, <2>1, <2>2 DEF InWay
<1> QED BY <1>1, <1>2

\* A driver that stays at work.
LEMMA DriverStays ==
  ASSUME NEW s \in Slots, Driver(s), run'[s].gen = run[s].gen,
         \A u \in Threads : Starts(th[u]) /\ th[u].slot = s =>
           Starts(th'[u]) /\ th'[u].slot = s /\ th'[u].wgen = th[u].wgen,
         worker[run[s].gen].slot = s /\ worker[run[s].gen].pc \in {"wait", "send", "sent"} =>
           worker'[run[s].gen].slot = s /\ worker'[run[s].gen].pc \in {"wait", "send", "sent"}
  PROVE  Driver(s)'
<1>1. CASE /\ worker[run[s].gen].slot = s
           /\ worker[run[s].gen].pc \in {"wait", "send", "sent"}
  BY <1>1 DEF Driver
<1>2. CASE \E u \in Threads : Starts(th[u]) /\ th[u].slot = s /\ th[u].wgen = run[s].gen
  <2>1. PICK u \in Threads : Starts(th[u]) /\ th[u].slot = s /\ th[u].wgen = run[s].gen BY <1>2
  <2>2. Starts(th'[u]) /\ th'[u].slot = s /\ th'[u].wgen = run'[s].gen BY <2>1
  <2> QED BY <2>2 DEF Driver
<1> QED BY <1>1, <1>2 DEF Driver

\* A step that changes nothing about waiting threads.
LEMMA DrivenKeep ==
  ASSUME Types, DrivenRight,
         \A u \in Threads : /\ Waits(th'[u]) <=> Waits(th[u])
                            /\ Waits(th[u]) =>
                                 /\ th'[u].at = th[u].at /\ th'[u].wgen = th[u].wgen
                                 /\ th'[u].op = th[u].op /\ th'[u].arg = th[u].arg,
         \A s \in Slots : run'[s].used =>
           run[s].used /\ Same(run'[s], run[s]) /\ run'[s].stop = run[s].stop,
         \A s \in Slots : run'[s].used /\ Driver(s) /\ ~run[s].stop => Driver(s)'
  PROVE  DrivenRight'
<1>1. ASSUME NEW s \in Slots, run'[s].used
      PROVE  IF run'[s].stop THEN Waiter(s)' ELSE Driver(s)'
  <2>1. run[s].used /\ run'[s].gen = run[s].gen /\ run'[s].stop = run[s].stop
    BY <1>1 DEF Same
  <2>2. CASE run[s].stop
    <3>1. PICK u \in Threads : Waits(th[u]) /\ th[u].at = s /\ th[u].wgen = run[s].gen
      BY <2>1, <2>2 DEF DrivenRight, Waiter
    <3>2. Waits(th'[u]) /\ th'[u].at = s /\ th'[u].wgen = run'[s].gen BY <2>1, <3>1
    <3> QED BY <2>1, <2>2, <3>2 DEF Waiter
  <2>3. CASE ~run[s].stop BY <1>1, <2>1, <2>3 DEF DrivenRight
  <2> QED BY <2>2, <2>3
<1>2. ASSUME NEW u \in Threads, Waits(th'[u]), Mine(th[u].at, th[u].wgen)'
      PROVE  MustEnd(u, th[u].at)'
  <2>1. /\ Waits(th[u]) /\ th'[u].at = th[u].at /\ th'[u].wgen = th[u].wgen
        /\ th'[u].op = th[u].op /\ th'[u].arg = th[u].arg /\ th[u].at \in Slots
    BY <1>2 DEF Types, Thread
  <2>2. run'[th[u].at].used /\ run'[th[u].at].gen = th[u].wgen BY <1>2, <2>1 DEF Mine
  <2>3. Same(run'[th[u].at], run[th[u].at]) /\ Mine(th[u].at, th[u].wgen)
    BY <2>1, <2>2 DEF Same, Mine
  <2>4. MustEnd(u, th[u].at) BY <2>1, <2>3 DEF DrivenRight
  <2>5. InWay(th'[u], run'[th'[u].at]) BY <2>1, <2>3, <2>4, InWayFacts, InWaySame
  <2> QED BY <2>5 DEF InWay, MustEnd
<1> QED BY <1>1, <1>2 DEF DrivenRight

\* Where a scan finds the run that its thread has waited for.
LEMMA WaitedFor ==
  ASSUME Types, DrivenRight, NEW t \in Threads, NEW s \in Slots, run[s].used, Waits(th[t]),
         th[t].at = s, th[t].wgen = run[s].gen
  PROVE  s \in Hits(t) /\ \A x \in Hits(t) : s <= x
<1>1. From(t) = s BY DEF From, Waits
<1>2. MustEnd(t, s) BY DEF DrivenRight, Mine
<1>3. s \in Nat BY Numbers
<1> QED BY <1>1, <1>2, <1>3 DEF Hits

LEMMA DrivenKept ==
  ASSUME Types, GensRight, OwnersRight, DrivenRight, Types', Does
  PROVE  DrivenRight'
<1>0. /\ gen \in Nat /\ \A u \in Threads : th[u].wgen <= gen /\ th[u].wgen \in Nat
      /\ \A s \in Slots : run[s].used => run[s].gen \in Gens
      /\ worker \in [Gens -> Worker] /\ \A g \in Gens : WorkerRight(worker[g])
      /\ \A u \in Threads : th[u].at \in Slots
  <2>1. \A u \in Threads : th[u].wgen \in Nat /\ th[u].at \in Slots
    <3>1. \A u \in Threads : th[u] \in Thread BY DEF Types
    <3>2. \A r \in Thread : r.wgen \in 0 .. MaxStarts /\ r.at \in Slots BY DEF Thread
    <3> QED BY <3>1, <3>2, FlashParams
  <2> QED BY <2>1, RunFields DEF GensRight, Types
<1>1. ASSUME NEW t \in Threads, NEW rec, Turned(th, th', t, rec), ~Waits(th[t]), ~Waits(rec)
      PROVE  \A u \in Threads : /\ Waits(th'[u]) <=> Waits(th[u])
                                /\ Waits(th[u]) =>
                                     /\ th'[u].at = th[u].at /\ th'[u].wgen = th[u].wgen
                                     /\ th'[u].op = th[u].op /\ th'[u].arg = th[u].arg
  BY <1>1, Others DEF Akin
<1>2. ASSUME NEW t \in Threads, NEW rec, Turned(th, th', t, rec), ~Waits(th[t]), ~Waits(rec),
             Starts(th[t]) => Starts(rec) /\ rec.slot = th[t].slot /\ rec.wgen = th[t].wgen,
             UNCHANGED worker,
             \A s \in Slots : Same(run'[s], run[s]) /\ (run[s].used => run'[s].stop = run[s].stop)
      PROVE  DrivenRight'
  <2>1. \A u \in Threads : Starts(th[u]) =>
          Starts(th'[u]) /\ th'[u].slot = th[u].slot /\ th'[u].wgen = th[u].wgen
    BY <1>2, Others DEF Akin
  <2>2. \A s \in Slots : run'[s].used =>
          run[s].used /\ run'[s].gen = run[s].gen /\ run'[s].stop = run[s].stop
    BY <1>2 DEF Same
  <2>3. \A s \in Slots : run'[s].used /\ Driver(s) /\ ~run[s].stop => Driver(s)'
    BY <1>2, <2>1, <2>2, DriverStays
  <2> QED BY <1>1, <1>2, <2>2, <2>3, DrivenKeep
<1>3. ASSUME NEW t \in Threads, NEW rec \in Thread, Quiet(t, rec) PROVE DrivenRight'
  <2>1. /\ Turned(th, th', t, rec) /\ ~Waits(th[t]) /\ ~Waits(rec) /\ ~Starts(th[t])
    BY <1>3, TurnedFacts DEF Quiet, Types, Waits, Starts, BeforeEdge
  <2>2. UNCHANGED <<run, worker>> BY <1>3 DEF Quiet
  <2> QED BY <1>2, <2>1, <2>2 DEF Same
<1>4. ASSUME NEW t \in Threads, Refreshes(t) PROVE DrivenRight'
  <2>1. Turned(th, th', t, Idle) /\ ~Waits(th[t]) /\ ~Waits(Idle) /\ ~Starts(th[t])
    BY <1>4, QuietRecords DEF Refreshes, Ready, Waits, Starts, BeforeEdge
  <2> QED BY <1>2, <1>4, <2>1 DEF Refreshes, Steady
<1>5. ASSUME NEW t \in Threads, NEW o, NEW me \in Thread, SwitchesOff(t, o, me)
      PROVE  DrivenRight'
  <2>1. /\ Turned(th, th', t, me) /\ ~Waits(th[t]) /\ ~Waits(me)
        /\ Starts(th[t]) => Starts(me) /\ me.slot = th[t].slot /\ me.wgen = th[t].wgen
    BY <1>5 DEF SwitchesOff, Waits
  <2>2. UNCHANGED <<run, worker>> BY <1>5 DEF SwitchesOff
  <2> QED BY <1>2, <2>1, <2>2 DEF Same
<1>6. ASSUME NEW t \in Threads, NEW on, Posts(t, on) PROVE DrivenRight'
  <2>1. Turned(th, th', t, Idle) /\ ~Waits(th[t]) /\ ~Waits(Idle) /\ ~Starts(th[t])
    BY <1>6, QuietRecords DEF Posts, Ready, Waits, Starts, BeforeEdge
  <2>2. UNCHANGED <<run, worker>> BY <1>6 DEF Posts
  <2> QED BY <1>2, <2>1, <2>2 DEF Same
<1>7. ASSUME NEW t \in Threads, NEW lit, NEW me \in Thread, Lights(t, lit, me)
      PROVE  DrivenRight'
  <2>1. /\ Turned(th, th', t, me) /\ ~Waits(th[t]) /\ ~Waits(me)
        /\ Starts(me) /\ me.slot = th[t].slot /\ me.wgen = th[t].wgen
    BY <1>7 DEF Lights, Waits, Starts
  <2>2. UNCHANGED <<run, worker>> BY <1>7 DEF Lights
  <2> QED BY <1>2, <2>1, <2>2 DEF Same
<1>8. ASSUME NEW t \in Threads, NEW j \in Slots, NEW ended \in SUBSET Slots, NEW me \in Thread,
             WaitsFor(t, j, ended, me)
      PROVE  DrivenRight'
  <2>1. /\ th'[t] = me /\ \A u \in Threads \ {t} : Akin(th'[u], th[u])
    BY <1>8, Others DEF WaitsFor
  <2>2. /\ th[t].pc = "lock" /\ me.pc = "asleep" /\ me.at = j /\ me.wgen = run[j].gen
        /\ me.op = th[t].op /\ me.arg = th[t].arg /\ worker' = worker
        /\ j \in Hits(t) /\ run'[j].stop /\ ended \subseteq Hits(t)
        /\ \A s \in ended : ~run'[s].used
        /\ \A s \in Slots \ ended : Same(run'[s], run[s])
        /\ \A s \in Slots \ (ended \cup {j}) : run'[s] = run[s]
        /\ \A s \in Hits(t) \ ended : j <= s
    BY <1>8, NoRunFacts DEF WaitsFor
  <2>3. run[j].used /\ run'[j].used /\ run'[j].gen = run[j].gen /\ j \notin ended
    BY <1>8, <2>2, HitsFacts DEF Same, WaitsFor
  <2>4. Waits(me) /\ ~Starts(th[t])
    BY <1>0, <2>2, <2>3, Numbers DEF Waits, Starts, BeforeEdge
  <2>5. ASSUME NEW s \in Slots, run'[s].used
        PROVE  IF run'[s].stop THEN Waiter(s)' ELSE Driver(s)'
    <3>1. CASE s = j
      <4>1. Waits(th'[t]) /\ th'[t].at = j /\ th'[t].wgen = run'[j].gen
        BY <2>1, <2>2, <2>3, <2>4
      <4> QED BY <2>2, <3>1, <4>1 DEF Waiter
    <3>2. CASE s # j
      <4>1. s \notin ended /\ run'[s] = run[s] BY <2>2, <2>5, <3>2
      <4>2. CASE run[s].stop
        <5>1. PICK u \in Threads : Waits(th[u]) /\ th[u].at = s /\ th[u].wgen = run[s].gen
          BY <2>5, <4>1, <4>2 DEF DrivenRight, Waiter
        <5>2. u # t
          <6> SUFFICES ASSUME u = t PROVE FALSE OBVIOUS
          <6>1. s \in Hits(t) /\ \A x \in Hits(t) : s <= x
            BY <2>5, <4>1, <5>1, WaitedFor
          <6>2. s <= j /\ j <= s BY <2>2, <4>1, <6>1
          <6>3. s \in Nat /\ j \in Nat BY Numbers
          <6> QED BY <3>2, <6>2, <6>3
        <5>3. Waits(th'[u]) /\ th'[u].at = s /\ th'[u].wgen = run'[s].gen
          BY <2>1, <4>1, <5>1, <5>2 DEF Akin
        <5> QED BY <4>1, <4>2, <5>3 DEF Waiter
      <4>3. CASE ~run[s].stop
        <5>1. Driver(s) BY <2>5, <4>1, <4>3 DEF DrivenRight
        <5>2. \A u \in Threads : Starts(th[u]) /\ th[u].slot = s =>
                Starts(th'[u]) /\ th'[u].slot = s /\ th'[u].wgen = th[u].wgen
          BY <2>1, <2>4 DEF Akin
        <5>3. Driver(s)' BY <2>2, <4>1, <5>1, <5>2, DriverStays
        <5> QED BY <4>1, <4>3, <5>3
      <4> QED BY <4>2, <4>3
    <3> QED BY <3>1, <3>2
  <2>6. ASSUME NEW u \in Threads, Waits(th'[u]), run'[th'[u].at].used,
               run'[th'[u].at].gen = th'[u].wgen
        PROVE  InWay(th'[u], run'[th'[u].at])
    <3>1. CASE u = t
      <4>1. InWay(th[t], run[j]) BY <2>2, HitsFacts, InWayFacts
      <4>2. Same(run'[j], run[j]) BY <2>2, <2>3
      <4>3. InWay(me, run'[j]) BY <2>2, <4>1, <4>2, InWaySame
      <4> QED BY <2>1, <2>2, <3>1, <4>3
    <3>2. CASE u # t
      <4>1. /\ Waits(th[u]) /\ th'[u].at = th[u].at /\ th'[u].wgen = th[u].wgen
            /\ th'[u].op = th[u].op /\ th'[u].arg = th[u].arg /\ th[u].at \in Slots
        BY <1>0, <2>1, <2>6, <3>2 DEF Akin
      <4>2. Same(run'[th[u].at], run[th[u].at]) BY <2>2, <2>6, <4>1
      <4>3. Mine(th[u].at, th[u].wgen) BY <2>6, <4>1, <4>2 DEF Same, Mine
      <4>4. MustEnd(u, th[u].at) BY <4>1, <4>3 DEF DrivenRight
      <4> QED BY <4>1, <4>2, <4>4, InWayFacts, InWaySame
    <3> QED BY <3>1, <3>2
  <2> QED BY <2>5, <2>6 DEF DrivenRight, Mine, MustEnd, InWay
<1>9. ASSUME NEW t \in Threads, NEW me, NEW M \in SUBSET Slots, th[t].pc = "lock",
             Turned(th, th', t, me), ~Waits(me), worker' = worker,
             \A s \in Slots \ M : run'[s].used => s \notin Hits(t) /\ run'[s] = run[s],
             \A s \in M : /\ run'[s].used /\ ~run'[s].stop /\ run'[s].gen = gen + 1
                          /\ Starts(me) /\ me.slot = s /\ me.wgen = run'[s].gen
      PROVE  DrivenRight'
  <2>1. th'[t] = me /\ \A u \in Threads \ {t} : Akin(th'[u], th[u]) BY <1>9, Others
  <2>2. ~Starts(th[t]) BY <1>9 DEF Starts, BeforeEdge
  <2>3. ASSUME NEW s \in Slots, run'[s].used
        PROVE  IF run'[s].stop THEN Waiter(s)' ELSE Driver(s)'
    <3>1. CASE s \in M
      <4>1. Starts(th'[t]) /\ th'[t].slot = s /\ th'[t].wgen = run'[s].gen
        BY <1>9, <2>1, <3>1
      <4> QED BY <1>9, <3>1, <4>1 DEF Driver
    <3>2. CASE s \notin M
      <4>1. s \notin Hits(t) /\ run'[s] = run[s] BY <1>9, <2>3, <3>2
      <4>2. CASE run[s].stop
        <5>1. PICK u \in Threads : Waits(th[u]) /\ th[u].at = s /\ th[u].wgen = run[s].gen
          BY <2>3, <4>1, <4>2 DEF DrivenRight, Waiter
        <5>2. u # t BY <2>3, <4>1, <5>1, WaitedFor
        <5>3. Waits(th'[u]) /\ th'[u].at = s /\ th'[u].wgen = run'[s].gen
          BY <2>1, <4>1, <5>1, <5>2 DEF Akin
        <5> QED BY <4>1, <4>2, <5>3 DEF Waiter
      <4>3. CASE ~run[s].stop
        <5>1. Driver(s) BY <2>3, <4>1, <4>3 DEF DrivenRight
        <5>2. \A u \in Threads : Starts(th[u]) /\ th[u].slot = s =>
                Starts(th'[u]) /\ th'[u].slot = s /\ th'[u].wgen = th[u].wgen
          BY <2>1, <2>2 DEF Akin
        <5>3. Driver(s)' BY <1>9, <4>1, <5>1, <5>2, DriverStays
        <5> QED BY <4>1, <4>3, <5>3
      <4> QED BY <4>2, <4>3
    <3> QED BY <3>1, <3>2
  <2>4. ASSUME NEW u \in Threads, Waits(th'[u]), run'[th'[u].at].used,
               run'[th'[u].at].gen = th'[u].wgen
        PROVE  InWay(th'[u], run'[th'[u].at])
    <3>1. u # t BY <1>9, <2>1, <2>4
    <3>2. /\ Waits(th[u]) /\ th'[u].at = th[u].at /\ th'[u].wgen = th[u].wgen
          /\ th'[u].op = th[u].op /\ th'[u].arg = th[u].arg /\ th[u].at \in Slots
      BY <1>0, <2>1, <2>4, <3>1 DEF Akin
    <3>3. th[u].at \notin M
      <4> SUFFICES ASSUME th[u].at \in M PROVE FALSE OBVIOUS
      <4>1. th[u].wgen = gen + 1 BY <1>9, <2>4, <3>2
      <4> QED BY <1>0, <4>1
    <3>4. run'[th[u].at] = run[th[u].at] BY <1>9, <2>4, <3>2, <3>3
    <3>5. MustEnd(u, th[u].at) BY <2>4, <3>2, <3>4 DEF DrivenRight, Mine
    <3>6. Same(run'[th[u].at], run[th[u].at]) BY <3>4 DEF Same
    <3> QED BY <3>2, <3>5, <3>6, InWayFacts, InWaySame
  <2> QED BY <2>3, <2>4 DEF DrivenRight, Mine, MustEnd, InWay
<1>10. ASSUME NEW t \in Threads, NEW me \in Thread, NEW m \in Slots, TakesSlot(t, m, me)
       PROVE  DrivenRight'
  <2>1. \A s \in Slots \ {m} : run'[s].used => s \notin Hits(t) /\ run'[s] = run[s]
    BY <1>10, NoRunFacts DEF TakesSlot
  <2>2. \A s \in {m} : /\ run'[s].used /\ ~run'[s].stop /\ run'[s].gen = gen + 1
                       /\ Starts(me) /\ me.slot = s /\ me.wgen = run'[s].gen
    BY <1>10 DEF TakesSlot, Starts
  <2>3. /\ th[t].pc = "lock" /\ Turned(th, th', t, me) /\ ~Waits(me) /\ worker' = worker
        /\ {m} \in SUBSET Slots
    BY <1>10 DEF TakesSlot
  <2> QED BY <1>9, <2>1, <2>2, <2>3
<1>11. ASSUME NEW t \in Threads, NEW me \in Thread, TakesNone(t, me) PROVE DrivenRight'
  <2>1. \A s \in Slots \ {} : run'[s].used => s \notin Hits(t) /\ run'[s] = run[s]
    BY <1>11, NoRunFacts DEF TakesNone
  <2>2. /\ th[t].pc = "lock" /\ Turned(th, th', t, me) /\ ~Waits(me) /\ worker' = worker
        /\ {} \in SUBSET Slots
    BY <1>11 DEF TakesNone
  <2> QED BY <1>9, <2>1, <2>2
<1>12. ASSUME NEW t \in Threads, NEW me \in Thread, Hands(t, me) PROVE DrivenRight'
  <2>1. /\ Turned(th, th', t, me) /\ ~Waits(me) /\ ~Waits(th[t]) /\ Starts(th[t])
        /\ \A x \in Slots \ {th[t].slot} : run'[x] = run[x]
    BY <1>12 DEF Hands, Waits, Starts
  <2>2. /\ Owns(t) /\ th[t].wgen \in Gens /\ th[t].slot \in Slots
        /\ run[th[t].slot].used /\ run[th[t].slot].gen = th[t].wgen
        /\ worker[th[t].wgen].pc = "none"
    BY <2>1 DEF OwnersRight, Owns, Mine
  <2>3. \A s \in Slots : run'[s].used =>
          run[s].used /\ Same(run'[s], run[s]) /\ run'[s].stop = run[s].stop
    BY <1>12, <2>1, NoRunFacts DEF Hands, Same
  <2>4. \A g \in Gens \ {th[t].wgen} : worker'[g] = worker[g] BY <1>0, <1>12 DEF Hands
  <2>5. ASSUME NEW s \in Slots, run'[s].used, Driver(s), ~run[s].stop PROVE Driver(s)'
    <3>1. CASE s = th[t].slot
      <4>1. worker' = [worker EXCEPT ![th[t].wgen] =
                              [NoWorker EXCEPT !.pc = "wait", !.slot = th[t].slot]]
        BY <1>12, <2>5, <3>1, NoRunFacts DEF Hands
      <4>2. worker'[th[t].wgen].pc = "wait" /\ worker'[th[t].wgen].slot = s
        BY <1>0, <2>2, <3>1, <4>1, WorkerRecords
      <4>3. run'[s].gen = th[t].wgen BY <2>2, <2>3, <2>5, <3>1 DEF Same
      <4> QED BY <4>2, <4>3 DEF Driver
    <3>2. CASE s # th[t].slot
      <4>1. run'[s] = run[s] BY <2>1, <3>2
      <4>2. th'[t] = me /\ \A u \in Threads \ {t} : Akin(th'[u], th[u]) BY <2>1, Others
      <4>3. \A u \in Threads : Starts(th[u]) /\ th[u].slot = s =>
              Starts(th'[u]) /\ th'[u].slot = s /\ th'[u].wgen = th[u].wgen
        BY <3>2, <4>2 DEF Akin
      <4>4. run[s].gen \in Gens BY <1>0, <2>5, <4>1
      <4>5. worker[run[s].gen].pc \in {"wait", "send", "sent"} =>
              worker'[run[s].gen] = worker[run[s].gen]
        BY <2>2, <2>4, <4>4
      <4> QED BY <2>5, <4>1, <4>3, <4>5, DriverStays
    <3> QED BY <3>1, <3>2
  <2> QED BY <1>1, <2>1, <2>3, <2>5, DrivenKeep
<1>13. ASSUME NEW g \in Gens, NEW w, worker' = [worker EXCEPT ![g] = w],
              \A u \in Threads : Akin(th'[u], th[u]),
              \A s \in Slots : run'[s].used =>
                run[s].used /\ Same(run'[s], run[s]) /\ run'[s].stop = run[s].stop,
              \A s \in Slots :
                run'[s].used /\ ~run[s].stop /\ run[s].gen = g /\ worker[g].slot = s
                  /\ worker[g].pc \in {"wait", "send", "sent"}
                => w.slot = s /\ w.pc \in {"wait", "send", "sent"}
       PROVE  DrivenRight'
  <2>1. worker'[g] = w /\ \A h \in Gens \ {g} : worker'[h] = worker[h] BY <1>0, <1>13
  <2>2. ASSUME NEW s \in Slots, run'[s].used, Driver(s), ~run[s].stop PROVE Driver(s)'
    <3>1. run'[s].gen = run[s].gen /\ run[s].gen \in Gens BY <1>0, <1>13, <2>2 DEF Same
    <3>2. worker[run[s].gen].slot = s /\ worker[run[s].gen].pc \in {"wait", "send", "sent"} =>
            worker'[run[s].gen].slot = s /\ worker'[run[s].gen].pc \in {"wait", "send", "sent"}
      BY <1>13, <2>1, <2>2, <3>1
    <3>3. \A u \in Threads : Starts(th[u]) /\ th[u].slot = s =>
            Starts(th'[u]) /\ th'[u].slot = s /\ th'[u].wgen = th[u].wgen
      BY <1>13 DEF Akin
    <3> QED BY <2>2, <3>1, <3>2, <3>3, DriverStays
  <2>3. \A u \in Threads : /\ Waits(th'[u]) <=> Waits(th[u])
                           /\ Waits(th[u]) =>
                                /\ th'[u].at = th[u].at /\ th'[u].wgen = th[u].wgen
                                /\ th'[u].op = th[u].op /\ th'[u].arg = th[u].arg
    BY <1>13 DEF Akin
  <2> QED BY <1>13, <2>2, <2>3, DrivenKeep
<1>14. th' = th => \A u \in Threads : Akin(th'[u], th[u]) BY DEF Akin
<1>15. ASSUME NEW g \in Gens, NEW s \in Slots, NEW w \in Worker, TakesUp(g, s, run'[s], w)
       PROVE  DrivenRight'
  <2>1. \A x \in Slots : run'[x].used =>
          run[x].used /\ Same(run'[x], run[x]) /\ run'[x].stop = run[x].stop
    BY <1>15 DEF TakesUp, Same
  <2>2. /\ worker' = [worker EXCEPT ![g] = w] /\ th' = th /\ w.slot = s /\ w.pc = "send"
        /\ worker[g].slot = s
    BY <1>15 DEF TakesUp
  <2>3. \A u \in Threads : Akin(th'[u], th[u]) BY <1>14, <2>2
  <2>4. \A x \in Slots :
          run'[x].used /\ ~run[x].stop /\ run[x].gen = g /\ worker[g].slot = x
            /\ worker[g].pc \in {"wait", "send", "sent"}
          => w.slot = x /\ w.pc \in {"wait", "send", "sent"}
    BY <2>2
  <2> QED BY <1>13, <2>1, <2>2, <2>3, <2>4
<1>16. ASSUME NEW g \in Gens, NEW w \in Worker, Applies(g, w) PROVE DrivenRight'
  <2>1. /\ worker' = [worker EXCEPT ![g] = w] /\ th' = th /\ run' = run
        /\ w.slot = worker[g].slot /\ w.pc = "sent"
    BY <1>16 DEF Applies
  <2>2. \A u \in Threads : Akin(th'[u], th[u]) BY <1>14, <2>1
  <2>3. \A x \in Slots : run'[x].used =>
          run[x].used /\ Same(run'[x], run[x]) /\ run'[x].stop = run[x].stop
    BY <2>1 DEF Same
  <2>4. \A x \in Slots :
          run'[x].used /\ ~run[x].stop /\ run[x].gen = g /\ worker[g].slot = x
            /\ worker[g].pc \in {"wait", "send", "sent"}
          => w.slot = x /\ w.pc \in {"wait", "send", "sent"}
    BY <2>1
  <2> QED BY <1>13, <2>1, <2>2, <2>3, <2>4
<1>17. ASSUME NEW g \in Gens, NEW s \in Slots, NEW w \in Worker, Answered(g, s, w)
       PROVE  DrivenRight'
  <2>1. \A x \in Slots : run'[x].used =>
          run[x].used /\ Same(run'[x], run[x]) /\ run'[x].stop = run[x].stop
    BY <1>17, NoRunFacts DEF Answered, Same
  <2>2. /\ worker' = [worker EXCEPT ![g] = w] /\ worker[g].slot = s
        /\ run'[s].used => w.slot = s /\ w.pc = "wait"
    BY <1>17, NoRunFacts DEF Answered
  <2>3. \A u \in Threads : Akin(th'[u], th[u]) BY <1>17, AllAkin DEF Answered
  <2>4. \A x \in Slots :
          run'[x].used /\ ~run[x].stop /\ run[x].gen = g /\ worker[g].slot = x
            /\ worker[g].pc \in {"wait", "send", "sent"}
          => w.slot = x /\ w.pc \in {"wait", "send", "sent"}
    BY <2>2
  <2> QED BY <1>13, <2>1, <2>2, <2>3, <2>4
<1>18. ASSUME NEW g \in Gens, Exits(g) PROVE DrivenRight'
  <2>1. /\ worker' = [worker EXCEPT ![g] = Gone] /\ th' = th /\ run' = run
        /\ ~(Mine(worker[g].slot, g) /\ ~run[worker[g].slot].stop)
    BY <1>18 DEF Exits
  <2> QED BY <1>13, <1>14, <2>1 DEF Same, Mine
<1>19. CASE Ages
  <2>1. \A s \in Slots : run'[s].used =>
          run[s].used /\ Same(run'[s], run[s]) /\ run'[s].stop = run[s].stop
    BY <1>19 DEF Ages, Steady, Same
  <2>2. th' = th /\ worker' = worker BY <1>19 DEF Ages
  <2>3. \A s \in Slots : run'[s].used /\ Driver(s) /\ ~run[s].stop => Driver(s)'
    BY <2>1, <2>2, DriverStays DEF Same
  <2> QED BY <2>1, <2>2, <2>3, DrivenKeep
<1>20. ASSUME NEW t \in Threads, ThreadDoes(t) PROVE DrivenRight'
  BY <1>3, <1>4, <1>5, <1>6, <1>7, <1>8, <1>10, <1>11, <1>12, <1>20, Zenon DEF ThreadDoes
<1>21. ASSUME NEW g \in Gens, WorkerDoes(g) PROVE DrivenRight'
  BY <1>15, <1>16, <1>17, <1>18, <1>21, Zenon DEF WorkerDoes
<1> QED BY <1>19, <1>20, <1>21 DEF Does

(***************************************************************************)
(* What a flash has lit is on its way to be switched off.                  *)
(***************************************************************************)

\* An end that is still to be switched off concerns port p.
Due(r, p) == \E o \in r.offs : p \in o.ports

\* Run and worker as before, but for the limits of the run.
LEMMA KeptStays ==
  ASSUME NEW p, Kept(p),
         \A s \in Slots : run[s].used /\ p \in PortsOf(run[s]) /\ ~FinalSent(run[s].gen) =>
           \/ /\ run'[s].used /\ Same(run'[s], run[s])
              /\ ~(worker'[run[s].gen].pc = "sent" /\ worker'[run[s].gen].final)
           \/ \E u \in Threads : Due(th'[u], p),
         \A t \in Threads : Due(th[t], p) => \E u \in Threads : Due(th'[u], p)
  PROVE  Kept(p)'
<1>1. CASE \E u \in Threads : Due(th'[u], p) BY <1>1 DEF Due, Kept
<1>2. CASE ~\E u \in Threads : Due(th'[u], p)
  <2>1. PICK s \in Slots : run[s].used /\ p \in PortsOf(run[s]) /\ ~FinalSent(run[s].gen)
    BY <1>2 DEF Kept, Due
  <2>2. /\ run'[s].used /\ Same(run'[s], run[s])
        /\ ~(worker'[run[s].gen].pc = "sent" /\ worker'[run[s].gen].final)
    BY <1>2, <2>1
  <2>3. /\ p \in PortsOf(run'[s])
        /\ ~(worker'[run'[s].gen].pc = "sent" /\ worker'[run'[s].gen].final)
    BY <2>1, <2>2 DEF Same
  <2> QED BY <2>2, <2>3 DEF Kept, FinalSent, PortsOf
<1> QED BY <1>1, <1>2

LEMMA LitKept ==
  ASSUME Types, GensRight, OwnersRight, LitRight, Types', Does
  PROVE  LitRight'
<1>0. /\ \A s \in Slots : run[s].used => run[s].gen \in Gens
      /\ worker \in [Gens -> Worker]
      /\ \A t \in Threads : th[t].pc \notin {"lock", "asleep", "offs"} => th[t].offs = {}
      /\ \A t \in Threads : th[t].pc = "lock" /\ th[t].wgen = 0 => th[t].offs = {}
      /\ \A t \in Threads : th[t].offs \subseteq Ends
  BY RunFields DEF Types, ThreadRight, Thread
<1>1. ASSUME \A p \in Ports \ lost' : port'[p] = "flash" =>
               Kept(p)' \/ (p \notin lost /\ port[p] = "flash" /\ (Kept(p) => Kept(p)'))
      PROVE  LitRight'
  BY <1>1 DEF LitRight
<1>2. ASSUME NEW t \in Threads, NEW rec, Turned(th, th', t, rec), UNCHANGED worker,
             \A p \in Ports \ lost' : port'[p] = "flash" =>
               Kept(p)' \/ (p \notin lost /\ port[p] = "flash"),
             \A p \in Ports \ lost' : port'[p] = "flash" /\ Due(th[t], p) => Due(rec, p),
             \A s \in Slots : run[s].used =>
               \/ run'[s].used /\ Same(run'[s], run[s])
               \/ \A p \in PortsOf(run[s]) : Due(rec, p)
      PROVE  LitRight'
  <2>1. th'[t] = rec /\ \A u \in Threads \ {t} : th'[u].offs = th[u].offs
    BY <1>2, Others DEF Akin
  <2>2. ASSUME NEW p \in Ports \ lost', port'[p] = "flash", Kept(p) PROVE Kept(p)'
    <3>1. \A u \in Threads : Due(th[u], p) => Due(th'[u], p) BY <1>2, <2>1, <2>2 DEF Due
    <3>2. \A s \in Slots : run[s].used /\ p \in PortsOf(run[s]) /\ ~FinalSent(run[s].gen) =>
            \/ /\ run'[s].used /\ Same(run'[s], run[s])
               /\ ~(worker'[run[s].gen].pc = "sent" /\ worker'[run[s].gen].final)
            \/ \E u \in Threads : Due(th'[u], p)
      BY <1>2, <2>1 DEF FinalSent
    <3> QED BY <2>2, <3>1, <3>2, KeptStays
  <2> QED BY <1>1, <1>2, <2>2
<1>3. ASSUME NEW t \in Threads, NEW rec \in Thread, Quiet(t, rec) PROVE LitRight'
  <2>1. Turned(th, th', t, rec) BY <1>3, TurnedFacts DEF Quiet, Types
  <2>2. UNCHANGED <<run, worker, port, lost>> /\ th[t].offs = {} BY <1>0, <1>3 DEF Quiet
  <2> QED BY <1>2, <2>1, <2>2 DEF Same, Due
<1>4. ASSUME NEW t \in Threads, Refreshes(t) PROVE LitRight'
  <2>1. /\ Turned(th, th', t, Idle) /\ th[t].offs = {} /\ UNCHANGED <<worker, port, lost>>
        /\ \A s \in Slots : run[s].used => run'[s].used /\ Same(run'[s], run[s])
    BY <1>0, <1>4 DEF Refreshes, Steady, Same
  <2> QED BY <1>2, <2>1 DEF Due
<1>5. ASSUME NEW t \in Threads, NEW j \in Slots, NEW ended \in SUBSET Slots, NEW me \in Thread,
             WaitsFor(t, j, ended, me)
      PROVE  LitRight'
  <2>1. /\ Turned(th, th', t, me) /\ me.offs = th[t].offs \cup OffsOf(ended)
        /\ UNCHANGED <<worker, port, lost>>
        /\ \A s \in Slots \ ended : Same(run'[s], run[s])
    BY <1>5 DEF WaitsFor
  <2>2. \A s \in ended : run[s].used BY <1>5, HitsFacts DEF WaitsFor
  <2>3. \A s \in ended : \A p \in PortsOf(run[s]) : Due(me, p)
    BY <2>1, <2>2, EndsFacts DEF Due
  <2>4. \A s \in Slots : run[s].used =>
          \/ run'[s].used /\ Same(run'[s], run[s])
          \/ \A p \in PortsOf(run[s]) : Due(me, p)
    BY <2>1, <2>3 DEF Same
  <2>5. \A p : Due(th[t], p) => Due(me, p) BY <2>1 DEF Due
  <2> QED BY <1>2, <2>1, <2>4, <2>5
<1>6. ASSUME NEW t \in Threads, NEW me \in Thread, NEW m \in Slots, TakesSlot(t, m, me)
      PROVE  LitRight'
  <2>1. /\ Turned(th, th', t, me) /\ me.offs = th[t].offs \cup OffsOf(Hits(t))
        /\ UNCHANGED <<worker, port, lost>>
        /\ \A s \in Slots \ (Hits(t) \cup {m}) : run'[s] = run[s]
        /\ m \in Hits(t) \/ ~run[m].used
    BY <1>6 DEF TakesSlot
  <2>2. \A s \in Hits(t) : \A p \in PortsOf(run[s]) : Due(me, p)
    BY <2>1, HitsFacts, EndsFacts DEF Due
  <2>3. \A s \in Slots : run[s].used =>
          \/ run'[s].used /\ Same(run'[s], run[s])
          \/ \A p \in PortsOf(run[s]) : Due(me, p)
    BY <2>1, <2>2 DEF Same
  <2>4. \A p : Due(th[t], p) => Due(me, p) BY <2>1 DEF Due
  <2> QED BY <1>2, <2>1, <2>3, <2>4
<1>7. ASSUME NEW t \in Threads, NEW me \in Thread, TakesNone(t, me) PROVE LitRight'
  <2>1. /\ Turned(th, th', t, me) /\ me.offs = th[t].offs \cup OffsOf(Hits(t))
        /\ UNCHANGED <<worker, port, lost>>
        /\ \A s \in Slots \ Hits(t) : run'[s] = run[s]
    BY <1>7 DEF TakesNone
  <2>2. \A s \in Hits(t) : \A p \in PortsOf(run[s]) : Due(me, p)
    BY <2>1, HitsFacts, EndsFacts DEF Due
  <2>3. \A s \in Slots : run[s].used =>
          \/ run'[s].used /\ Same(run'[s], run[s])
          \/ \A p \in PortsOf(run[s]) : Due(me, p)
    BY <2>1, <2>2 DEF Same
  <2>4. \A p : Due(th[t], p) => Due(me, p) BY <2>1 DEF Due
  <2> QED BY <1>2, <2>1, <2>3, <2>4
<1>8. ASSUME NEW t \in Threads, NEW o \in th[t].offs, NEW me \in Thread, SwitchesOff(t, o, me)
      PROVE  LitRight'
  <2>1. /\ Turned(th, th', t, me) /\ me.offs = th[t].offs \ {o}
        /\ UNCHANGED <<run, worker>> /\ Sets({}, "off", o.ports)
    BY <1>8 DEF SwitchesOff
  <2>2. \A p \in Ports \ lost' : port'[p] = "flash" =>
          p \notin o.ports /\ p \notin lost /\ port[p] = "flash"
    BY <2>1 DEF Sets
  <2>3. \A p \in Ports \ lost' : port'[p] = "flash" /\ Due(th[t], p) => Due(me, p)
    BY <2>1, <2>2 DEF Due
  <2> QED BY <1>2, <2>1, <2>2, <2>3 DEF Same
<1>9. ASSUME NEW t \in Threads, NEW on, Posts(t, on) PROVE LitRight'
  <2>1. /\ Turned(th, th', t, Idle) /\ th[t].offs = {} /\ UNCHANGED <<run, worker>>
        /\ Sets(on, "set", {th[t].arg.port})
    BY <1>9 DEF Posts
  <2>2. \A p \in Ports \ lost' : port'[p] = "flash" => p \notin lost /\ port[p] = "flash"
    BY <2>1 DEF Sets
  <2> QED BY <1>2, <2>1, <2>2 DEF Same, Due
<1>10. ASSUME NEW t \in Threads, NEW lit \in SUBSET Ports, NEW me \in Thread, Lights(t, lit, me)
       PROVE  LitRight'
  <2>1. /\ Turned(th, th', t, me) /\ th[t].offs = {} /\ UNCHANGED <<run, worker>>
        /\ Sets(lit, "flash", PortsOf(th[t].arg)) /\ Starts(th[t])
    BY <1>10 DEF Lights, Starts, BeforeEdge
  <2>2. Owns(t) BY <2>1 DEF OwnersRight
  <2>3. \A p \in PortsOf(th[t].arg) : Kept(p)'
    <3> TAKE p \in PortsOf(th[t].arg)
    <3>1. PICK s \in Slots : s = th[t].slot BY <2>2 DEF Owns
    <3>2. run'[s].used /\ p \in PortsOf(run'[s]) BY <2>1, <2>2, <3>1 DEF Owns, Mine
    <3>3. worker'[run'[s].gen].pc = "none" BY <2>1, <2>2, <3>1 DEF Owns, Mine
    <3> QED BY <3>2, <3>3 DEF Kept, FinalSent, PortsOf
  <2>4. \A p \in Ports \ lost' : port'[p] = "flash" =>
          Kept(p)' \/ (p \notin lost /\ port[p] = "flash")
    BY <2>1, <2>3 DEF Sets
  <2> QED BY <1>2, <2>1, <2>4 DEF Same, Due
<1>11. ASSUME NEW t \in Threads, NEW me \in Thread, Hands(t, me) PROVE LitRight'
  <2>1. /\ th'[t] = me /\ \A u \in Threads \ {t} : th'[u].offs = th[u].offs
        /\ th[t].offs = {} /\ UNCHANGED <<port, lost>> /\ Starts(th[t])
        /\ \A x \in Slots \ {th[t].slot} : run'[x] = run[x]
    BY <1>0, <1>11, Others DEF Hands, Starts, Akin
  <2>2. /\ th[t].slot \in Slots /\ run[th[t].slot].used /\ run[th[t].slot].gen = th[t].wgen
        /\ th[t].wgen \in Gens /\ worker[th[t].wgen].pc = "none"
    BY <2>1 DEF OwnersRight, Owns, Mine
  <2>3. /\ worker'[th[t].wgen].pc # "sent"
        /\ \A g \in Gens \ {th[t].wgen} : worker'[g] = worker[g]
    <3>1. [NoWorker EXCEPT !.pc = "wait", !.slot = th[t].slot].pc = "wait"
      BY <2>2, WorkerRecords
    <3>2. \/ worker' = worker
          \/ worker' = [worker EXCEPT ![th[t].wgen] =
                          [NoWorker EXCEPT !.pc = "wait", !.slot = th[t].slot]]
      BY <1>11 DEF Hands
    <3> QED BY <1>0, <2>2, <3>1, <3>2
  <2>4. \/ run'[th[t].slot].used /\ Same(run'[th[t].slot], run[th[t].slot])
        \/ \A p \in PortsOf(run[th[t].slot]) : Due(me, p)
    <3>1. CASE Same(run'[th[t].slot], run[th[t].slot]) BY <2>2, <3>1 DEF Same
    <3>2. CASE me.offs = OffsOf({th[t].slot})
      <4>1. {th[t].slot} \in SUBSET Slots /\ \A x \in {th[t].slot} : run[x].used BY <2>2
      <4>2. \A s \in {th[t].slot} : \E o \in OffsOf({th[t].slot}) : o.ports = PortsOf(run[s])
        BY <4>1, EndsFacts
      <4> QED BY <3>2, <4>2 DEF Due
    <3> QED BY <1>11, <3>1, <3>2 DEF Hands
  <2>5. ASSUME NEW p \in Ports, Kept(p) PROVE Kept(p)'
    <3>1. \A u \in Threads : Due(th[u], p) => Due(th'[u], p) BY <2>1 DEF Due
    <3>2. ASSUME NEW s \in Slots, run[s].used, p \in PortsOf(run[s]), ~FinalSent(run[s].gen)
          PROVE  \/ /\ run'[s].used /\ Same(run'[s], run[s])
                    /\ ~(worker'[run[s].gen].pc = "sent" /\ worker'[run[s].gen].final)
                 \/ \E u \in Threads : Due(th'[u], p)
      <4>1. CASE s = th[t].slot BY <2>1, <2>2, <2>3, <2>4, <3>2, <4>1
      <4>2. CASE s # th[t].slot
        <5>1. run'[s] = run[s] /\ run[s].gen \in Gens BY <1>0, <2>1, <3>2, <4>2
        <5>2. worker'[run[s].gen] = worker[run[s].gen] \/ worker'[run[s].gen].pc # "sent"
          BY <2>3, <5>1
        <5> QED BY <3>2, <5>1, <5>2 DEF Same, FinalSent
      <4> QED BY <4>1, <4>2
    <3> QED BY <2>5, <3>1, <3>2, KeptStays
  <2> QED BY <1>1, <2>1, <2>5
<1>12. ASSUME NEW g \in Gens, NEW w, worker' = [worker EXCEPT ![g] = w],
              \A u \in Threads : th'[u].offs = th[u].offs,
              \A p \in Ports \ lost' : port'[p] = "flash" =>
                Kept(p)' \/ (p \notin lost /\ port[p] = "flash"),
              \A s \in Slots : run[s].used =>
                \/ run[s].gen = g /\ FinalSent(g)
                \/ \A p \in PortsOf(run[s]) \ lost' : port'[p] # "flash"
                \/ /\ run'[s].used /\ Same(run'[s], run[s])
                   /\ ~(run[s].gen = g /\ w.pc = "sent" /\ w.final)
       PROVE  LitRight'
  <2>1. worker'[g] = w /\ \A h \in Gens \ {g} : worker'[h] = worker[h] BY <1>0, <1>12
  <2>2. ASSUME NEW p \in Ports \ lost', port'[p] = "flash", Kept(p) PROVE Kept(p)'
    <3>1. \A u \in Threads : Due(th[u], p) => Due(th'[u], p) BY <1>12 DEF Due
    <3>2. ASSUME NEW s \in Slots, run[s].used, p \in PortsOf(run[s]), ~FinalSent(run[s].gen)
          PROVE  /\ run'[s].used /\ Same(run'[s], run[s])
                 /\ ~(worker'[run[s].gen].pc = "sent" /\ worker'[run[s].gen].final)
      <4>1. /\ run'[s].used /\ Same(run'[s], run[s])
            /\ ~(run[s].gen = g /\ w.pc = "sent" /\ w.final)
        BY <1>12, <2>2, <3>2
      <4>2. run[s].gen \in Gens BY <1>0, <3>2
      <4> QED BY <2>1, <3>2, <4>1, <4>2 DEF FinalSent
    <3> QED BY <2>2, <3>1, <3>2, KeptStays
  <2> QED BY <1>1, <1>12, <2>2
<1>13. ASSUME NEW g \in Gens, NEW s \in Slots, NEW w \in Worker, TakesUp(g, s, run'[s], w)
       PROVE  LitRight'
  <2>1. /\ worker' = [worker EXCEPT ![g] = w] /\ th' = th /\ UNCHANGED <<port, lost>>
        /\ w.pc = "send" /\ \A x \in Slots : Same(run'[x], run[x])
    BY <1>13 DEF TakesUp, Same
  <2> QED BY ZenonT(40), <1>12, <2>1 DEF Same
<1>14. ASSUME NEW g \in Gens, NEW w \in Worker, Applies(g, w) PROVE LitRight'
  <2>1. /\ worker[g].pc = "send" /\ worker' = [worker EXCEPT ![g] = w]
        /\ w.pc = "sent" /\ w.final = worker[g].final
        /\ worker[g].lit \subseteq worker[g].ports /\ (w.final => worker[g].lit = {})
        /\ Sets(worker[g].lit, "flash", worker[g].ports)
        /\ UNCHANGED <<run, th>>
    BY <1>14 DEF Applies
  <2>2. Holds(g) BY <2>1 DEF OwnersRight
  <2>3. PICK s \in Slots : s = worker[g].slot BY <2>1 DEF Types, WorkerRight
  <2>4. run[s].used /\ run[s].gen = g /\ PortsOf(run[s]) = worker[g].ports
    BY <2>2, <2>3 DEF Holds, Mine
  <2>5. \A x \in Slots : run[x].used /\ run[x].gen = g => x = s BY <2>4 DEF GensRight
  <2>6. \A p \in PortsOf(run[s]) \ lost' : p \in Ports /\ (w.final => port'[p] # "flash")
    <3>1. PortsOf(run[s]) \subseteq Ports BY <2>4, RunFields, RunPorts
    <3> QED BY <2>1, <2>4, <3>1 DEF Sets
  <2>7. \A p \in PortsOf(run[s]) : ~w.final => Kept(p)'
    <3> TAKE p \in PortsOf(run[s])
    <3>1. run'[s].used /\ run'[s].gen = g /\ p \in PortsOf(run'[s]) BY <2>1, <2>4
    <3>2. worker'[run'[s].gen] = w BY <1>0, <2>1, <3>1
    <3> QED BY <3>1, <3>2 DEF Kept, FinalSent, PortsOf
  <2>8. \A p \in Ports \ lost' : port'[p] = "flash" =>
          Kept(p)' \/ (p \notin lost /\ port[p] = "flash")
    BY <2>1, <2>4, <2>6, <2>7 DEF Sets
  <2>9. \A x \in Slots : run[x].used =>
          \/ \A p \in PortsOf(run[x]) \ lost' : port'[p] # "flash"
          \/ /\ run'[x].used /\ Same(run'[x], run[x])
             /\ ~(run[x].gen = g /\ w.pc = "sent" /\ w.final)
    BY <2>1, <2>5, <2>6 DEF Same
  <2> QED BY <1>12, <2>1, <2>8, <2>9
<1>15. ASSUME NEW g \in Gens, NEW s \in Slots, NEW w \in Worker, Answered(g, s, w)
       PROVE  LitRight'
  <2>1. /\ worker[g].pc = "sent" /\ Mine(s, g) /\ worker' = [worker EXCEPT ![g] = w]
        /\ UNCHANGED <<port, lost>> /\ \A x \in Slots \ {s} : run'[x] = run[x]
        /\ w.pc # "sent" /\ (worker[g].final \/ Same(run'[s], run[s]))
    BY <1>15 DEF Answered
  <2>2. \A u \in Threads : th'[u].offs = th[u].offs BY <1>15, AllAkin DEF Answered, Akin
  <2>3. \A x \in Slots : run[x].used =>
          \/ run[x].gen = g /\ FinalSent(g)
          \/ run'[x].used /\ Same(run'[x], run[x])
    BY <2>1 DEF Same, FinalSent, Mine
  <2> QED BY <1>12, <2>1, <2>2, <2>3
<1>16. ASSUME NEW g \in Gens, Exits(g) PROVE LitRight'
  <2>1. /\ worker' = [worker EXCEPT ![g] = Gone] /\ UNCHANGED <<run, th, port, lost>>
        /\ Gone.pc = "gone"
    BY <1>16, WorkerRecords DEF Exits
  <2> QED BY <1>12, <2>1 DEF Same
<1>17. CASE Ages
  <2>1. /\ UNCHANGED <<th, worker, port, lost>>
        /\ \A s \in Slots : run[s].used => run'[s].used /\ Same(run'[s], run[s])
    BY <1>17 DEF Ages, Steady, Same
  <2>2. \A p \in Ports : Kept(p) => Kept(p)' BY <2>1, KeptStays DEF FinalSent
  <2> QED BY <1>1, <2>1, <2>2
<1>18. ASSUME NEW t \in Threads, ThreadDoes(t) PROVE LitRight'
  BY <1>3, <1>4, <1>5, <1>6, <1>7, <1>8, <1>9, <1>10, <1>11, <1>18, Zenon DEF ThreadDoes
<1>19. ASSUME NEW g \in Gens, WorkerDoes(g) PROVE LitRight'
  BY <1>13, <1>14, <1>15, <1>16, <1>19, Zenon DEF WorkerDoes
<1> QED BY <1>17, <1>18, <1>19 DEF Does

(***************************************************************************)
(* While the threads take turns.                                           *)
(***************************************************************************)

\* A thread that does nothing with ports.
Rests(r) ==
  /\ r.pc \in {"idle", "ended"} /\ r.offs = {} /\ ~BeforeEdge(r) /\ ~Starts(r) /\ ~ToPost(r)

\* Only the acting thread is at work.
LEMMA Resting ==
  ASSUME Types, NEW t \in Threads, NEW rec, Turned(th, th', t, rec), Alone,
         Busy(t) \/ ~\E u \in Threads \ {t} : Busy(u)
  PROVE  \A u \in Threads \ {t} : Rests(th[u]) /\ Rests(th'[u])
<1>1. \A u \in Threads \ {t} : th[u].pc \in {"idle", "ended"} BY DEF Alone, Busy
<1>2. \A u \in Threads \ {t} : Akin(th'[u], th[u]) BY Others
<1>3. \A u \in Threads \ {t} : th[u].offs = {} BY <1>1 DEF Types, ThreadRight
<1>4. \A r : r.pc \in {"idle", "ended"} => ~BeforeEdge(r) /\ ~Starts(r) /\ ~ToPost(r)
  BY DEF BeforeEdge, Starts, ToPost
<1> QED BY <1>1, <1>2, <1>3, <1>4 DEF Rests, Akin

\* What has to be shown of the thread that acts, and of the table.
Orderly(rec, table, ports, gone) ==
  /\ rec.pc \in {"lock", "asleep"} =>
       /\ \A s \in Slots : s < rec.at => ~InWay(rec, table[s])
       /\ rec.wgen # 0 /\ table[rec.at].used => table[rec.at].gen = rec.wgen
  /\ ToPost(rec) => \A s \in Slots : table[s].used => rec.arg.port \notin PortsOf(table[s])
  /\ \A s \in Slots : table[s].used =>
       \A p \in PortsOf(table[s]) \ gone : ports[p] = "set" => BeforeEdge(rec) /\ rec.slot = s
  /\ \A s, u \in Slots :
       table[s].used /\ table[u].used /\ s # u => PortsOf(table[s]) \cap PortsOf(table[u]) = {}
  /\ \A p \in Ports \ gone : ports[p] = "set" => ~Due(rec, p)

LEMMA OrderlyFacts ==
  ASSUME Types, NEW t \in Threads, Alone, Busy(t) \/ ~\E u \in Threads \ {t} : Busy(u),
         Passed, PostFree, SetFree, ExclusivePort, OutputStands
  PROVE  Orderly(th[t], run, port, lost)
<1>1. \A u \in Threads \ {t} : ~BeforeEdge(th[u])
  <2>1. \A u \in Threads \ {t} : th[u].pc \in {"idle", "ended"} BY DEF Alone, Busy
  <2> QED BY <2>1 DEF BeforeEdge
<1>2. \A s \in Slots : run[s].used =>
        \A p \in PortsOf(run[s]) \ lost : port[p] = "set" =>
          BeforeEdge(th[t]) /\ th[t].slot = s
  BY <1>1 DEF SetFree
<1>3. th[t].pc \in {"lock", "asleep"} =>
        /\ \A s \in Slots : s < th[t].at => ~InWay(th[t], run[s])
        /\ th[t].wgen # 0 /\ run[th[t].at].used => run[th[t].at].gen = th[t].wgen
  BY InWayFacts DEF Passed
<1>4. \A p \in Ports \ lost : port[p] = "set" => ~Due(th[t], p) BY DEF OutputStands, Due
<1>5. ToPost(th[t]) => \A s \in Slots : run[s].used => th[t].arg.port \notin PortsOf(run[s])
  BY DEF PostFree
<1>6. \A s, u \in Slots :
        run[s].used /\ run[u].used /\ s # u => PortsOf(run[s]) \cap PortsOf(run[u]) = {}
  BY DEF ExclusivePort
<1> QED BY <1>2, <1>3, <1>4, <1>5, <1>6 DEF Orderly

LEMMA TurnsKeep ==
  ASSUME NEW t \in Threads, \A u \in Threads \ {t} : Rests(th'[u]),
         Orderly(th'[t], run', port', lost')
  PROVE  TurnsRight'
<1>1. \A u, v \in Threads : Busy(u)' /\ Busy(v)' => u = v BY DEF Busy, Rests
<1>2. \A u \in Threads : th'[u].pc \in {"lock", "asleep"} =>
        /\ \A s \in Slots : s < th'[u].at => ~InWay(th'[u], run'[s])
        /\ th'[u].wgen # 0 /\ run'[th'[u].at].used => run'[th'[u].at].gen = th'[u].wgen
  BY DEF Rests, Orderly
<1>3. \A u \in Threads : ToPost(th'[u]) =>
        \A s \in Slots : run'[s].used => th'[u].arg.port \notin PortsOf(run'[s])
  BY DEF Rests, Orderly
<1>4. \A s \in Slots : run'[s].used => \A p \in PortsOf(run'[s]) \ lost' : port'[p] = "set" =>
        \E u \in Threads : BeforeEdge(th'[u]) /\ th'[u].slot = s
  BY DEF Orderly
<1>5. \A s, u \in Slots :
        run'[s].used /\ run'[u].used /\ s # u => PortsOf(run'[s]) \cap PortsOf(run'[u]) = {}
  BY DEF Orderly
<1>6. \A p \in Ports \ lost' : port'[p] = "set" =>
        \A u \in Threads : \A o \in th'[u].offs : p \notin o.ports
  BY DEF Orderly, Rests, Due
<1>7. Alone' /\ Passed' BY <1>1, <1>2 DEF Alone, Passed, MustEnd, InWay
<1>8. PostFree' /\ SetFree' /\ ExclusivePort' /\ OutputStands'
  BY <1>3, <1>4, <1>5, <1>6 DEF PostFree, SetFree, ExclusivePort, OutputStands
<1> QED BY <1>7, <1>8 DEF TurnsRight

\* A scan leaves nothing in its way behind.
LEMMA NoneBehind ==
  ASSUME Types, NEW t \in Threads, th[t].pc = "lock", Orderly(th[t], run, port, lost),
         NEW s \in Slots, s \notin Hits(t)
  PROVE  ~InWay(th[t], run[s])
<1>1. th[t].at \in Slots /\ th[t].at \in Nat /\ s \in Nat
  <2>1. th[t] \in Thread BY DEF Types
  <2>2. th[t].at \in Slots BY <2>1 DEF Thread
  <2> QED BY <2>2, Numbers
<1>2. CASE s >= From(t) BY <1>2, InWayFacts DEF Hits
<1>3. CASE ~(s >= From(t)) /\ From(t) = th[t].at
  <2>1. s < th[t].at BY <1>1, <1>3
  <2> QED BY <2>1 DEF Orderly
<1>4. CASE ~(s >= From(t)) /\ From(t) # th[t].at
  <2>1. /\ th[t].wgen # 0 /\ (run[th[t].at].used => run[th[t].at].gen # th[t].wgen)
        /\ From(t) = th[t].at + 1
    BY <1>4 DEF From
  <2>2. ~run[th[t].at].used BY <2>1 DEF Orderly
  <2>3. s < th[t].at \/ s = th[t].at BY <1>1, <1>4, <2>1
  <2> QED BY <2>2, <2>3 DEF Orderly, InWay
<1> QED BY <1>2, <1>3, <1>4

\* A step of a thread under way keeps order.
LEMMA OrderKept ==
  ASSUME Types, OwnersRight, NEW t \in Threads, Orderly(th[t], run, port, lost)
  PROVE  /\ Refreshes(t) => Orderly(Idle, run', port', lost')
         /\ \A j \in Slots, ended \in SUBSET Slots, me \in Thread :
              WaitsFor(t, j, ended, me) => Orderly(me, run', port', lost')
         /\ \A me \in Thread, m \in Slots :
              TakesSlot(t, m, me) => Orderly(me, run', port', lost')
         /\ \A me \in Thread : TakesNone(t, me) => Orderly(me, run', port', lost')
         /\ \A o \in th[t].offs, me \in Thread :
              SwitchesOff(t, o, me) => Orderly(me, run', port', lost')
         /\ \A on \in SUBSET Ports : Posts(t, on) => Orderly(Idle, run', port', lost')
         /\ \A lit \in SUBSET Ports, me \in Thread :
              Lights(t, lit, me) => Orderly(me, run', port', lost')
         /\ \A me \in Thread : Hands(t, me) => Orderly(me, run', port', lost')
<1>0. /\ Idle.pc = "idle" /\ Idle.offs = {} /\ ~BeforeEdge(Idle) /\ ~ToPost(Idle)
  BY QuietRecords DEF Ready, BeforeEdge, ToPost
<1>1. ASSUME NEW rec, UNCHANGED <<port, lost>>, ~BeforeEdge(th[t]),
             rec.pc \notin {"lock", "asleep"}, ~ToPost(rec),
             \A s \in Slots : run'[s].used => run[s].used /\ PortsOf(run'[s]) = PortsOf(run[s]),
             \A p \in Ports \ lost : Due(rec, p) =>
               Due(th[t], p) \/ \E s \in Slots : run[s].used /\ p \in PortsOf(run[s])
      PROVE  Orderly(rec, run', port', lost')
  <2>1. \A s \in Slots : run'[s].used =>
          \A p \in PortsOf(run'[s]) \ lost' : port'[p] # "set"
    BY <1>1 DEF Orderly
  <2>2. \A s, u \in Slots :
          run'[s].used /\ run'[u].used /\ s # u => PortsOf(run'[s]) \cap PortsOf(run'[u]) = {}
    BY <1>1 DEF Orderly
  <2>3. \A p \in Ports \ lost' : port'[p] = "set" => ~Due(rec, p) BY <1>1 DEF Orderly
  <2> QED BY <1>1, <2>1, <2>2, <2>3 DEF Orderly
<1>2. ASSUME Refreshes(t) PROVE Orderly(Idle, run', port', lost')
  <2>1. /\ UNCHANGED <<port, lost>> /\ ~BeforeEdge(th[t])
        /\ \A s \in Slots : run'[s].used => run[s].used /\ PortsOf(run'[s]) = PortsOf(run[s])
    BY <1>2 DEF Refreshes, Steady, Same, BeforeEdge
  <2>2. \A p : ~Due(Idle, p) BY <1>0 DEF Due
  <2> QED BY <1>0, <1>1, <2>1, <2>2
<1>3. ASSUME NEW j \in Slots, NEW ended \in SUBSET Slots, NEW me \in Thread,
             WaitsFor(t, j, ended, me)
      PROVE  Orderly(me, run', port', lost')
  <2>1. /\ th[t].pc = "lock" /\ me.pc = "asleep" /\ me.at = j /\ me.wgen = run[j].gen
        /\ me.op = th[t].op /\ me.arg = th[t].arg /\ UNCHANGED <<port, lost>>
        /\ me.offs = th[t].offs \cup OffsOf(ended)
        /\ ended \subseteq Hits(t) /\ j \notin ended
        /\ \A s \in ended : ~run'[s].used
        /\ \A s \in Slots \ ended : Same(run'[s], run[s])
        /\ \A s \in Hits(t) \ ended : j <= s
    BY <1>3, NoRunFacts DEF WaitsFor
  <2>2. ASSUME NEW s \in Slots, s < me.at PROVE ~InWay(me, run'[s])
    <3>1. CASE s \in ended BY <2>1, <3>1 DEF InWay
    <3>2. CASE s \notin ended
      <4>1. s \in Nat /\ j \in Nat BY Numbers
      <4>2. s \notin Hits(t) BY <2>1, <2>2, <3>2, <4>1
      <4>3. ~InWay(th[t], run[s]) BY <2>1, <4>2, NoneBehind
      <4>4. Same(run'[s], run[s]) BY <2>1, <3>2
      <4> QED BY <2>1, <4>3, <4>4, InWaySame
    <3> QED BY <3>1, <3>2
  <2>3. run'[me.at].used => run'[me.at].gen = me.wgen BY <2>1 DEF Same
  <2>4. \A s \in Slots : run'[s].used => run[s].used /\ PortsOf(run'[s]) = PortsOf(run[s])
    BY <2>1 DEF Same
  <2>5. ~BeforeEdge(th[t]) /\ ~BeforeEdge(me) /\ ~ToPost(me) BY <2>1 DEF BeforeEdge, ToPost
  <2>6. \A s \in ended : run[s].used BY <2>1, HitsFacts
  <2>7. \A p : Due(me, p) =>
          Due(th[t], p) \/ \E s \in Slots : run[s].used /\ p \in PortsOf(run[s])
    BY <2>1, <2>6, EndsFacts DEF Due
  <2>8. \A s \in Slots : run'[s].used =>
          \A p \in PortsOf(run'[s]) \ lost' : port'[p] # "set"
    BY <2>1, <2>4, <2>5 DEF Orderly
  <2>9. \A s, u \in Slots :
          run'[s].used /\ run'[u].used /\ s # u => PortsOf(run'[s]) \cap PortsOf(run'[u]) = {}
    BY <2>4 DEF Orderly
  <2>10. \A p \in Ports \ lost' : port'[p] = "set" => ~Due(me, p)
    BY <2>1, <2>5, <2>7 DEF Orderly
  <2> QED BY <2>2, <2>3, <2>5, <2>8, <2>9, <2>10 DEF Orderly
<1>4. ASSUME NEW me \in Thread, NEW m \in Slots, TakesSlot(t, m, me)
      PROVE  Orderly(me, run', port', lost')
  <2>1. /\ th[t].pc = "lock" /\ th[t].op = "flash" /\ UNCHANGED <<port, lost>>
        /\ BeforeEdge(me) /\ ~ToPost(me) /\ me.pc \notin {"lock", "asleep"} /\ me.slot = m
        /\ me.offs = th[t].offs \cup OffsOf(Hits(t))
        /\ PortsOf(run'[m]) = PortsOf(th[t].arg)
        /\ \A s \in Slots \ {m} : run'[s].used => s \notin Hits(t) /\ run'[s] = run[s]
    BY <1>4, NoRunFacts DEF TakesSlot
  <2>2. \A s \in Slots \ {m} : run'[s].used => PortsOf(run'[s]) \cap PortsOf(run'[m]) = {}
    <3> TAKE s \in Slots \ {m}
    <3> HAVE run'[s].used
    <3>1. s \notin Hits(t) /\ run'[s] = run[s] BY <2>1
    <3>2. ~InWay(th[t], run[s]) BY <2>1, <3>1, NoneBehind
    <3>3. ~SharesPort(th[t].arg, run[s]) BY <2>1, <3>1, <3>2 DEF InWay
    <3> QED BY <2>1, <3>1, <3>3 DEF SharesPort
  <2>3. \A s, u \in Slots :
          run'[s].used /\ run'[u].used /\ s # u => PortsOf(run'[s]) \cap PortsOf(run'[u]) = {}
    <3> TAKE s, u \in Slots
    <3> HAVE run'[s].used /\ run'[u].used /\ s # u
    <3>1. CASE s = m \/ u = m BY <2>2, <3>1
    <3>2. CASE s # m /\ u # m BY <2>1, <3>2 DEF Orderly
    <3> QED BY <3>1, <3>2
  <2>4. ~BeforeEdge(th[t]) BY <2>1 DEF BeforeEdge
  <2>5. \A s \in Slots : run'[s].used =>
          \A p \in PortsOf(run'[s]) \ lost' : port'[p] = "set" => me.slot = s
    BY <2>1, <2>4 DEF Orderly
  <2>6. \A p : Due(me, p) =>
          Due(th[t], p) \/ \E s \in Slots : run[s].used /\ p \in PortsOf(run[s])
    BY <2>1, HitsFacts, EndsFacts DEF Due
  <2>7. \A p \in Ports \ lost' : port'[p] = "set" => ~Due(me, p)
    BY <2>1, <2>4, <2>6 DEF Orderly
  <2> QED BY <2>1, <2>3, <2>5, <2>7 DEF Orderly
<1>5. ASSUME NEW me \in Thread, TakesNone(t, me) PROVE Orderly(me, run', port', lost')
  <2>1. /\ th[t].pc = "lock" /\ UNCHANGED <<port, lost>>
        /\ ~Starts(me) /\ me.pc \notin {"lock", "asleep"}
        /\ me.offs = th[t].offs \cup OffsOf(Hits(t))
        /\ \A s \in Slots : run'[s].used => s \notin Hits(t) /\ run'[s] = run[s]
        /\ ToPost(me) => th[t].op = "output" /\ me.arg = th[t].arg
    BY <1>5, NoRunFacts DEF TakesNone
  <2>2. ~BeforeEdge(th[t]) /\ ~BeforeEdge(me) BY <2>1 DEF BeforeEdge, Starts
  <2>3. ToPost(me) => \A s \in Slots : run'[s].used => me.arg.port \notin PortsOf(run'[s])
    <3> HAVE ToPost(me)
    <3> TAKE s \in Slots
    <3> HAVE run'[s].used
    <3>1. s \notin Hits(t) /\ run'[s] = run[s] BY <2>1
    <3>2. ~InWay(th[t], run[s]) BY <2>1, <3>1, NoneBehind
    <3> QED BY <2>1, <3>1, <3>2 DEF InWay
  <2>4. \A s \in Slots : run'[s].used =>
          \A p \in PortsOf(run'[s]) \ lost' : port'[p] # "set"
    BY <2>1, <2>2 DEF Orderly
  <2>5. \A s, u \in Slots :
          run'[s].used /\ run'[u].used /\ s # u => PortsOf(run'[s]) \cap PortsOf(run'[u]) = {}
    BY <2>1 DEF Orderly
  <2>6. \A p : Due(me, p) =>
          Due(th[t], p) \/ \E s \in Slots : run[s].used /\ p \in PortsOf(run[s])
    BY <2>1, HitsFacts, EndsFacts DEF Due
  <2>7. \A p \in Ports \ lost' : port'[p] = "set" => ~Due(me, p)
    BY <2>1, <2>2, <2>6 DEF Orderly
  <2> QED BY <2>1, <2>3, <2>4, <2>5, <2>7 DEF Orderly
<1>6. ASSUME NEW o \in th[t].offs, NEW me \in Thread, SwitchesOff(t, o, me)
      PROVE  Orderly(me, run', port', lost')
  <2>1. /\ run' = run /\ me.offs = th[t].offs \ {o} /\ me.pc \notin {"lock", "asleep"}
        /\ BeforeEdge(th[t]) => BeforeEdge(me) /\ me.slot = th[t].slot
        /\ ToPost(me) => ToPost(th[t]) /\ me.arg = th[t].arg
        /\ Sets({}, "off", o.ports)
    BY <1>6 DEF SwitchesOff, Starts
  <2>2. \A p \in Ports \ lost' : port'[p] = "set" => p \notin lost /\ port[p] = "set"
    BY <2>1 DEF Sets
  <2>3. \A s \in Slots : run[s].used => PortsOf(run[s]) \subseteq Ports BY RunFields, RunPorts
  <2>4. \A s \in Slots : run'[s].used =>
          \A p \in PortsOf(run'[s]) \ lost' : port'[p] = "set" => BeforeEdge(me) /\ me.slot = s
    BY <2>1, <2>2, <2>3 DEF Orderly
  <2>5. \A p \in Ports \ lost' : port'[p] = "set" => ~Due(me, p)
    BY <2>1, <2>2 DEF Orderly, Due
  <2> QED BY <2>1, <2>4, <2>5 DEF Orderly
<1>7. ASSUME NEW on \in SUBSET Ports, Posts(t, on) PROVE Orderly(Idle, run', port', lost')
  <2>1. /\ run' = run /\ ToPost(th[t]) /\ ~BeforeEdge(th[t])
        /\ Sets(on, "set", {th[t].arg.port})
    BY <1>7 DEF Posts, ToPost, BeforeEdge
  <2>2. \A p \in Ports \ lost' : port'[p] = "set" =>
          p = th[t].arg.port \/ (p \notin lost /\ port[p] = "set")
    BY <2>1 DEF Sets
  <2>3. \A s \in Slots : run[s].used => PortsOf(run[s]) \subseteq Ports BY RunFields, RunPorts
  <2>4. \A s \in Slots : run'[s].used =>
          \A p \in PortsOf(run'[s]) \ lost' : port'[p] # "set"
    BY <2>1, <2>2, <2>3 DEF Orderly
  <2>5. \A p : ~Due(Idle, p) BY <1>0 DEF Due
  <2> QED BY <1>0, <2>1, <2>4, <2>5 DEF Orderly
<1>8. ASSUME NEW lit \in SUBSET Ports, NEW me \in Thread, Lights(t, lit, me)
      PROVE  Orderly(me, run', port', lost')
  <2>1. /\ run' = run /\ Starts(th[t]) /\ me.pc = "started" /\ me.offs = {}
        /\ Sets(lit, "flash", PortsOf(th[t].arg))
    BY <1>8 DEF Lights, Starts, BeforeEdge
  <2>2. PortsOf(run[th[t].slot]) = PortsOf(th[t].arg) BY <2>1 DEF OwnersRight, Owns
  <2>3. \A p \in Ports \ lost' : port'[p] = "set" =>
          p \notin PortsOf(th[t].arg) /\ p \notin lost /\ port[p] = "set"
    BY <2>1 DEF Sets
  <2>4. \A s \in Slots : run[s].used => PortsOf(run[s]) \subseteq Ports BY RunFields, RunPorts
  <2>5. \A s \in Slots : run'[s].used =>
          \A p \in PortsOf(run'[s]) \ lost' : port'[p] # "set"
    BY <2>1, <2>2, <2>3, <2>4 DEF Orderly
  <2>6. ~ToPost(me) BY <2>1 DEF ToPost
  <2> QED BY <2>1, <2>5, <2>6 DEF Orderly, Due
<1>9. ASSUME NEW me \in Thread, Hands(t, me) PROVE Orderly(me, run', port', lost')
  <2>1. /\ UNCHANGED <<port, lost>> /\ ~ToPost(me) /\ me.pc \notin {"lock", "asleep"}
        /\ th[t].pc = "started"
        /\ \A x \in Slots \ {th[t].slot} : run'[x] = run[x]
        /\ me.offs \in {{}, OffsOf({th[t].slot})}
        /\ \/ Same(run'[th[t].slot], run[th[t].slot])
           \/ ~run'[th[t].slot].used
    BY <1>9, NoRunFacts DEF Hands
  <2>2. ~BeforeEdge(th[t]) BY <2>1 DEF BeforeEdge
  <2>3. th[t].slot \in Slots /\ run[th[t].slot].used
    BY <2>1 DEF OwnersRight, Starts, Owns, Mine
  <2>4. \A s \in Slots : run'[s].used => run[s].used /\ PortsOf(run'[s]) = PortsOf(run[s])
    BY <2>1, <2>3 DEF Same
  <2>5. \A p : Due(me, p) => \E s \in Slots : run[s].used /\ p \in PortsOf(run[s])
    <3>1. {th[t].slot} \in SUBSET Slots /\ \A x \in {th[t].slot} : run[x].used BY <2>3
    <3>2. \A o \in OffsOf({th[t].slot}) : \E s \in {th[t].slot} : o.ports = PortsOf(run[s])
      BY <3>1, EndsFacts
    <3> QED BY <2>1, <2>3, <3>2 DEF Due
  <2> QED BY <1>1, <2>1, <2>2, <2>4, <2>5
<1> QED BY <1>2, <1>3, <1>4, <1>5, <1>6, <1>7, <1>8, <1>9

LEMMA TurnsKept ==
  ASSUME Types, OwnersRight, TurnsRight, Types', Does
  PROVE  TurnsRight'
<1>1. ASSUME NEW t \in Threads, NEW rec, Turned(th, th', t, rec), ~overlap,
             Busy(t) \/ ~\E u \in Threads \ {t} : Busy(u),
             Orderly(th[t], run, port, lost) => Orderly(rec, run', port', lost')
      PROVE  TurnsRight'
  <2>1. Alone /\ Passed /\ PostFree /\ SetFree /\ ExclusivePort /\ OutputStands
    BY <1>1 DEF TurnsRight
  <2>2. Orderly(th[t], run, port, lost) BY <1>1, <2>1, OrderlyFacts
  <2>3. \A u \in Threads \ {t} : Rests(th'[u]) BY <1>1, <2>1, Resting
  <2>4. th'[t] = rec BY <1>1, Others
  <2> QED BY <1>1, <2>2, <2>3, <2>4, TurnsKeep
<1>2. ASSUME overlap' PROVE TurnsRight' BY <1>2 DEF TurnsRight
<1>3. ASSUME NEW t \in Threads, NEW rec \in Thread, Quiet(t, rec) PROVE TurnsRight'
  <2>1. Turned(th, th', t, rec) BY <1>3, TurnedFacts DEF Quiet, Types
  <2>2. /\ UNCHANGED <<run, port, lost>> /\ rec.pc \in {"idle", "decided", "lock"}
        /\ th[t].pc \in {"idle", "decided"}
        /\ rec.wgen = 0 /\ rec.at = 1 /\ rec.offs = {}
    BY <1>3 DEF Quiet
  <2>3. CASE ~overlap'
    <3>1. ~overlap /\ (Busy(t) \/ ~\E u \in Threads \ {t} : Busy(u))
      <4>1. /\ th[t].pc = "decided" => overlap' = overlap
            /\ th[t].pc = "idle" => overlap' = (overlap \/ \E u \in Threads \ {t} : Busy(u))
        BY <1>3 DEF Quiet
      <4>2. CASE th[t].pc = "decided"
        <5>1. Busy(t) BY <4>2 DEF Busy
        <5> QED BY <2>3, <4>1, <4>2, <5>1
      <4>3. CASE th[t].pc = "idle"
        <5>1. overlap' = (overlap \/ \E u \in Threads \ {t} : Busy(u)) BY <4>1, <4>3
        <5> QED BY <2>3, <5>1, Zenon
      <4> QED BY <2>2, <4>2, <4>3
    <3>2. Orderly(th[t], run, port, lost) => Orderly(rec, run', port', lost')
      <4>1. ~BeforeEdge(th[t]) /\ ~ToPost(rec) BY <2>2 DEF BeforeEdge, ToPost
      <4>2. \A s \in Slots : ~(s < rec.at) BY <2>2 DEF Slots
      <4> QED BY <2>2, <4>1, <4>2 DEF Orderly, Due
    <3> QED BY <1>1, <2>1, <3>1, <3>2
  <2> QED BY <1>2, <2>3
<1>4. ASSUME NEW t \in Threads, NEW rec, Turned(th, th', t, rec), overlap' = overlap,
             th[t].pc \notin {"idle", "ended"},
             Orderly(th[t], run, port, lost) => Orderly(rec, run', port', lost')
      PROVE  TurnsRight'
  BY <1>1, <1>2, <1>4 DEF Busy
<1>5. ASSUME NEW t \in Threads, ThreadDoes(t) PROVE TurnsRight'
  <2>1. CASE \E rec \in Thread : Quiet(t, rec) BY <1>3, <2>1
  <2>2. CASE Refreshes(t) BY <1>4, <2>2, OrderKept DEF Refreshes
  <2>3. ASSUME NEW j \in Slots, NEW ended \in SUBSET Slots, NEW me \in Thread,
               WaitsFor(t, j, ended, me)
        PROVE  TurnsRight'
    BY <1>4, <2>3, OrderKept DEF WaitsFor
  <2>4. ASSUME NEW me \in Thread, NEW m \in Slots, TakesSlot(t, m, me) PROVE TurnsRight'
    BY <1>4, <2>4, OrderKept DEF TakesSlot
  <2>5. ASSUME NEW me \in Thread, TakesNone(t, me) PROVE TurnsRight'
    BY <1>4, <2>5, OrderKept DEF TakesNone
  <2>6. ASSUME NEW o \in th[t].offs, NEW me \in Thread, SwitchesOff(t, o, me)
        PROVE  TurnsRight'
    BY <1>4, <2>6, OrderKept DEF SwitchesOff
  <2>7. ASSUME NEW on \in SUBSET Ports, Posts(t, on) PROVE TurnsRight'
    BY <1>4, <2>7, OrderKept DEF Posts
  <2>8. ASSUME NEW lit \in SUBSET Ports, NEW me \in Thread, Lights(t, lit, me)
        PROVE  TurnsRight'
    BY <1>4, <2>8, OrderKept DEF Lights
  <2>9. ASSUME NEW me \in Thread, Hands(t, me) PROVE TurnsRight'
    BY <1>4, <2>9, OrderKept DEF Hands
  <2> QED BY <1>5, <2>1, <2>2, <2>3, <2>4, <2>5, <2>6, <2>7, <2>8, <2>9, Zenon
          DEF ThreadDoes
<1>6. ASSUME overlap' = overlap, \A u \in Threads : Akin(th'[u], th[u]),
             \A s \in Slots : run'[s].used => run[s].used /\ Same(run'[s], run[s]),
             \A p \in Ports \ lost' : port'[p] = "set" => p \notin lost /\ port[p] = "set"
      PROVE  TurnsRight'
  <2> SUFFICES ASSUME ~overlap
               PROVE  /\ Alone' /\ Passed' /\ PostFree' /\ SetFree' /\ ExclusivePort'
                      /\ OutputStands'
    BY <1>6 DEF TurnsRight
  <2>1. Alone /\ Passed /\ PostFree /\ SetFree /\ ExclusivePort /\ OutputStands
    BY DEF TurnsRight
  <2>2. Alone' BY <1>6, <2>1 DEF Alone, Busy, Akin
  <2>3. Passed'
    <3>1. \A u \in Threads : th[u].at \in Slots
      <4>1. \A u \in Threads : th[u] \in Thread BY DEF Types
      <4> QED BY <4>1 DEF Thread
    <3>2. ASSUME NEW u \in Threads, th'[u].pc \in {"lock", "asleep"}
          PROVE  /\ \A s \in Slots : s < th'[u].at => ~InWay(th'[u], run'[s])
                 /\ th'[u].wgen # 0 /\ run'[th'[u].at].used =>
                      run'[th'[u].at].gen = th'[u].wgen
      <4>1. /\ th[u].pc \in {"lock", "asleep"} /\ th'[u].at = th[u].at
            /\ th'[u].wgen = th[u].wgen /\ th'[u].op = th[u].op /\ th'[u].arg = th[u].arg
        BY <1>6, <3>2 DEF Akin
      <4>2. \A s \in Slots : s < th[u].at => ~InWay(th[u], run[s])
        BY <2>1, <4>1, InWayFacts DEF Passed
      <4>3. ASSUME NEW s \in Slots, s < th'[u].at PROVE ~InWay(th'[u], run'[s])
        <5>1. ~InWay(th[u], run[s]) BY <4>1, <4>2, <4>3
        <5>2. InWay(th'[u], run'[s]) => Same(run'[s], run[s]) BY <1>6 DEF InWay
        <5> QED BY <4>1, <5>1, <5>2, InWaySame
      <4>4. th[u].wgen # 0 /\ run'[th[u].at].used => run'[th[u].at].gen = th[u].wgen
        BY <1>6, <2>1, <3>1, <4>1 DEF Passed, Same
      <4> QED BY <4>1, <4>3, <4>4
    <3> QED BY <3>2 DEF Passed, MustEnd, InWay
  <2>4. \A s \in Slots : run'[s].used => run[s].used /\ PortsOf(run'[s]) = PortsOf(run[s])
    BY <1>6 DEF Same
  <2>5. \A u \in Threads : ToPost(th'[u]) =>
          \A s \in Slots : run'[s].used => th'[u].arg.port \notin PortsOf(run'[s])
    BY <1>6, <2>1, <2>4 DEF PostFree, Akin
  <2>6. \A s \in Slots : run'[s].used => \A p \in PortsOf(run'[s]) \ lost' : port'[p] = "set" =>
          \E u \in Threads : BeforeEdge(th'[u]) /\ th'[u].slot = s
    <3>1. \A s \in Slots : run[s].used => PortsOf(run[s]) \subseteq Ports
      BY RunFields, RunPorts
    <3>2. \A s \in Slots : run'[s].used => \A p \in PortsOf(run'[s]) \ lost' :
            port'[p] = "set" => \E u \in Threads : BeforeEdge(th[u]) /\ th[u].slot = s
      BY <1>6, <2>1, <2>4, <3>1 DEF SetFree
    <3> QED BY <1>6, <3>2 DEF Akin
  <2>7. \A s, u \in Slots :
          run'[s].used /\ run'[u].used /\ s # u => PortsOf(run'[s]) \cap PortsOf(run'[u]) = {}
    BY <2>1, <2>4 DEF ExclusivePort
  <2>8. \A p \in Ports \ lost' : port'[p] = "set" =>
          \A u \in Threads : \A o \in th'[u].offs : p \notin o.ports
    BY <1>6, <2>1 DEF OutputStands, Akin
  <2>9. PostFree' /\ SetFree' /\ ExclusivePort' /\ OutputStands'
    BY <2>5, <2>6, <2>7, <2>8 DEF PostFree, SetFree, ExclusivePort, OutputStands
  <2> QED BY <2>2, <2>3, <2>9
<1>7. th' = th => \A u \in Threads : Akin(th'[u], th[u]) BY DEF Akin
<1>8. ASSUME NEW g \in Gens, NEW s \in Slots, NEW w \in Worker, TakesUp(g, s, run'[s], w)
      PROVE  TurnsRight'
  <2>1. /\ overlap' = overlap /\ th' = th /\ UNCHANGED <<port, lost>>
        /\ \A x \in Slots : run'[x].used => run[x].used /\ Same(run'[x], run[x])
    BY <1>8 DEF TakesUp, Same
  <2> QED BY <1>6, <1>7, <2>1
<1>9. ASSUME NEW g \in Gens, NEW w \in Worker, Applies(g, w) PROVE TurnsRight'
  <2>1. /\ overlap' = overlap /\ th' = th /\ run' = run
        /\ Sets(worker[g].lit, "flash", worker[g].ports)
    BY <1>9 DEF Applies
  <2>2. \A p \in Ports \ lost' : port'[p] = "set" => p \notin lost /\ port[p] = "set"
    BY <2>1 DEF Sets
  <2> QED BY <1>6, <1>7, <2>1, <2>2 DEF Same
<1>10. ASSUME NEW g \in Gens, NEW s \in Slots, NEW w \in Worker, Answered(g, s, w)
       PROVE  TurnsRight'
  <2>1. /\ overlap' = overlap /\ UNCHANGED <<port, lost>>
        /\ \A x \in Slots : run'[x].used => run[x].used /\ Same(run'[x], run[x])
    BY <1>10, NoRunFacts DEF Answered, Same
  <2>2. \A u \in Threads : Akin(th'[u], th[u]) BY <1>10, AllAkin DEF Answered
  <2> QED BY <1>6, <2>1, <2>2
<1>11. ASSUME NEW g \in Gens, Exits(g) PROVE TurnsRight'
  BY <1>6, <1>7, <1>11 DEF Exits, Same
<1>12. CASE Ages
  BY <1>6, <1>7, <1>12 DEF Ages, Steady, Same
<1>13. ASSUME NEW g \in Gens, WorkerDoes(g) PROVE TurnsRight'
  BY <1>8, <1>9, <1>10, <1>11, <1>13, Zenon DEF WorkerDoes
<1> QED BY <1>5, <1>12, <1>13 DEF Does

(***************************************************************************)
(* The invariant holds.                                                    *)
(***************************************************************************)

LEMMA InitInv ==
  ASSUME Init
  PROVE  Inv
<1>1. /\ rules \in [Rules -> {"on", "off"}] /\ delayed = <<>> /\ gen = 0 /\ starts = 0
      /\ run = [s \in Slots |-> NoRun] /\ worker = [g \in Gens |-> NoWorker]
      /\ th = [t \in Threads |-> Idle] /\ port = [p \in Ports |-> "off"]
      /\ lost = {} /\ overlap = FALSE
  BY DEF Init
<1>2. /\ \A s \in Slots : run[s] = NoRun /\ ~run[s].used
      /\ \A t \in Threads : th[t] = Idle
      /\ \A g \in Gens : worker[g] = NoWorker /\ worker[g].pc = "none"
      /\ \A p \in Ports : port[p] = "off"
  BY <1>1, NoRunFacts, WorkerRecords
<1>3. /\ Idle \in Thread /\ ThreadRight(Idle) /\ ToRun(Idle) = 0 /\ Idle.pc = "idle"
      /\ Idle.wgen = 0 /\ Idle.offs = {}
      /\ ~Starts(Idle) /\ ~ToPost(Idle) /\ ~Waits(Idle) /\ ~BeforeEdge(Idle)
  BY QuietRecords DEF Ready, Starts, BeforeEdge, ToPost, Waits
<1>4. Types
  <2>1. rules \in [Rules -> {"on", "off", "gone"}] BY <1>1
  <2>2. delayed \in Seq(Flashes) /\ Len(delayed) = 0 BY <1>1
  <2>3. gen + Len(delayed) + Pending(th) <= starts
    BY <1>1, <1>2, <1>3, <2>2, Numbers DEF Pending
  <2>4. gen \in Nat /\ starts \in 0 .. MaxStarts BY <1>1, FlashParams
  <2>5. worker \in [Gens -> Worker] /\ \A g \in Gens : WorkerRight(worker[g])
    BY <1>1, <1>2, WorkerRecords
  <2>6. th \in [Threads -> Thread] /\ \A t \in Threads : ThreadRight(th[t])
    BY <1>1, <1>2, <1>3
  <2> QED BY <1>1, <1>2, <2>1, <2>2, <2>3, <2>4, <2>5, <2>6 DEF Types
<1>5. GensRight BY <1>1, <1>2, <1>3 DEF GensRight
<1>6. OwnersRight BY <1>2, <1>3 DEF OwnersRight
<1>7. DrivenRight BY <1>2, <1>3 DEF DrivenRight
<1>8. LitRight BY <1>2 DEF LitRight
<1>9. TurnsRight
  BY <1>2, <1>3
  DEF TurnsRight, Alone, Busy, Passed, PostFree, SetFree, ExclusivePort, OutputStands
<1> QED BY <1>4, <1>5, <1>6, <1>7, <1>8, <1>9 DEF Inv

LEMMA InvHolds == Spec => []Inv
<1>1. Init => Inv BY InitInv
<1>2. Inv /\ [Next]_vars => Inv'
  <2> SUFFICES ASSUME Inv, [Next]_vars PROVE Inv' OBVIOUS
  <2>1. Types /\ GensRight /\ OwnersRight /\ DrivenRight /\ LitRight /\ TurnsRight BY DEF Inv
  <2>2. Types' /\ Does BY <2>1, StepDoes
  <2>3. GensRight' BY <2>1, <2>2, GensKept
  <2>4. OwnersRight' BY <2>1, <2>2, OwnersKept
  <2>5. DrivenRight' BY <2>1, <2>2, DrivenKept
  <2>6. LitRight' BY <2>1, <2>2, LitKept
  <2>7. TurnsRight' BY <2>1, <2>2, TurnsKept
  <2> QED BY <2>2, <2>3, <2>4, <2>5, <2>6, <2>7 DEF Inv
<1> QED BY <1>1, <1>2, PTL DEF Spec

\* The variables have their types, and a worker never indexes past its run's port list
\* (io_flash_worker), even when its run is refreshed while it sleeps.
THEOREM Typed == Spec => []TypeOK
<1>1. Inv => TypeOK
  <2> SUFFICES ASSUME Types PROVE TypeOK BY DEF Inv
  <2>1. \A s \in Slots : run[s] # NoRun => run[s] \in Run /\ run[s].idx <= Len(run[s].ports)
    BY DEF Types, RunRight
  <2>2. gen \in 0 .. MaxStarts
    <3>1. /\ gen \in Nat /\ Len(delayed) \in Nat /\ starts \in 0 .. MaxStarts
          /\ gen + Len(delayed) + Pending(th) <= starts
      BY DEF Types
    <3>2. Pending(th) \in Nat
      <4>1. ToRun(th["main"]) \in {0, 1} /\ ToRun(th["http"]) \in {0, 1} BY DEF ToRun
      <4> QED BY <4>1 DEF Pending
    <3> QED BY <3>1, <3>2, FlashParams
  <2>3. \A g \in Gens :
          /\ worker[g].pc \in {"none", "wait", "send", "sent", "gone"}
          /\ worker[g].slot \in 0 .. MaxRuns /\ worker[g].final \in BOOLEAN
          /\ worker[g].lit \subseteq worker[g].ports /\ worker[g].ports \subseteq Ports
    BY DEF Types, Worker, WorkerRight
  <2>4. \A t \in Threads :
          /\ th[t].pc \in {"idle", "decided", "lock", "asleep", "offs", "post", "edge",
                           "started", "ended"}
          /\ th[t].at \in Slots /\ th[t].wgen \in 0 .. MaxStarts
          /\ th[t].offs \subseteq [gen : Gens, ports : SUBSET Ports]
    <3>1. \A t \in Threads : th[t] \in Thread BY DEF Types
    <3> QED BY <3>1 DEF Thread, Ends
  <2> QED BY <2>1, <2>2, <2>3, <2>4 DEF Types, TypeOK
<1> QED BY <1>1, InvHolds, PTL

\* "Ports are left off when it stops" (README), and no run is left to itself
\* (actions.c:2079): whatever the threads do at once and whichever request fails, a port
\* that a flash has lit belongs to a run or waits for its all-off, and every run has
\* somebody who drives it or waits to end it.
THEOREM Tended == Spec => []LitPortsTended
<1>1. Inv => LitPortsTended
  <2> SUFFICES ASSUME Inv PROVE PortsLeftOff /\ RunsDriven BY DEF LitPortsTended
  <2>1. LitRight /\ DrivenRight BY DEF Inv
  <2>2. PortsLeftOff BY <2>1 DEF LitRight, Kept, PortsLeftOff
  <2>3. ASSUME NEW s \in Slots, run[s].used, run[s].stop
        PROVE  \E t \in Threads : /\ th[t].pc \in {"lock", "asleep"} /\ th[t].at = s
                                  /\ th[t].wgen = run[s].gen
    BY <2>1, <2>3 DEF DrivenRight, Waiter, Waits
  <2>4. ASSUME NEW s \in Slots, run[s].used, ~run[s].stop PROVE Driver(s)
    BY <2>1, <2>4 DEF DrivenRight
  <2>5. \A r : Starts(r) => r.pc \in {"offs", "edge", "started"} BY DEF Starts, BeforeEdge
  <2>6. RunsDriven BY <2>3, <2>4, <2>5 DEF RunsDriven, Driver
  <2> QED BY <2>2, <2>6
<1> QED BY <1>1, InvHolds, PTL

\* "A new flash on a port takes over from any other flash on that port" (AI_RULE_GUIDE),
\* and its all-off lands before the request of an I/O Output action (actions.c:1734), as
\* long as main loop and FastCGI thread have not been inside a port operation at once.
THEOREM TakesOver == Spec => []TakeoverUnlessOverlap
<1>1. Inv => TakeoverUnlessOverlap BY DEF Inv, TurnsRight, TakeoverUnlessOverlap
<1> QED BY <1>1, InvHolds, PTL
==============================================================================
