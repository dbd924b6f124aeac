------------------------- MODULE SubscriptionProofs -------------------------
(***************************************************************************)
(* Proofs about the rules and their subscriptions: first the rule store,   *)
(* for any set of rules, any number of operations and crashes, and any     *)
(* interleaving of the two threads; then the subscription table, for all   *)
(* rules, triggers, table sizes, events, messages and subscription jobs.   *)
(*                                                                         *)
(* The store.  The four operations share one shape (OpShape): they change  *)
(* one rule under the lock and leave one job to queue.  SubsInv is         *)
(* inductive once two facts are added to the two subscription invariants:  *)
(* a thread that is not inside an operation has no job left to queue, and  *)
(* no process means no subscriptions.  FileInv adds to the file invariants *)
(* that one thread at a time is saving and that the file stays truncated   *)
(* meanwhile.                                                              *)
(*                                                                         *)
(* The table.  Its loops are recursive functions; a fact about one holds   *)
(* before the first turn and survives a turn.  TableInv ties the table to  *)
(* its rules, to what is on its way to it and to what its triggers have    *)
(* seen, and the while-active effects to all of that.                      *)
(***************************************************************************)
EXTENDS RuleStore, TriggerTable, FiniteSetTheorems, SequenceTheorems, WellFoundedInduction,
        TLAPS

(***************************************************************************)
(* Operators.                                                              *)
(***************************************************************************)

\* An empty store is typed and holds no rules.
LEMMA EmptyStore == Empty \in Store /\ Cardinality(Present(Empty)) <= MaxRules
<1>1. Empty \in Store BY DEF Empty, Store
<1>2. Present(Empty) = {} BY DEF Present, Empty
<1> QED BY <1>1, <1>2, FS_EmptySet, StoreParams

\* Replacing a present rule by a rule, or removing it, does not grow the store;
\* adding one to a store with room keeps it within MaxRules.
LEMMA Sizes ==
  ASSUME NEW s \in Store, NEW i \in Ids, NEW r \in Rule \cup {NoRule},
         Cardinality(Present(s)) <= MaxRules,
         s[i] # NoRule \/ Cardinality(Present(s)) < MaxRules
  PROVE  /\ [s EXCEPT ![i] = r] \in Store
         /\ Cardinality(Present([s EXCEPT ![i] = r])) <= MaxRules
<1> DEFINE n == [s EXCEPT ![i] = r]
<1>1. n \in Store BY DEF Store
<1>2. IsFiniteSet(Present(s))
  BY StoreParams, FS_Subset DEF Present
<1>3. Cardinality(Present(s)) \in Nat BY <1>2, FS_CardinalityType
<1>4. Present(n) \subseteq Present(s) \cup {i}
  BY DEF Present, Store
<1>5. IsFiniteSet(Present(s) \cup {i})
  BY <1>2, FS_AddElement
<1>6. Cardinality(Present(n)) <= Cardinality(Present(s) \cup {i})
  BY <1>4, <1>5, FS_Subset
<1>7. Cardinality(Present(s) \cup {i}) <= MaxRules
  <2>1. CASE i \in Present(s)
    <3>1. Present(s) \cup {i} = Present(s) BY <2>1
    <3> QED BY <3>1
  <2>2. CASE i \notin Present(s)
    <3>1. Cardinality(Present(s) \cup {i}) = Cardinality(Present(s)) + 1
      BY <2>2, <1>2, FS_AddElement
    <3>2. s[i] = NoRule BY <2>2 DEF Present
    <3> QED BY <3>1, <3>2, <1>3, StoreParams
  <2> QED BY <2>1, <2>2
<1>8. Cardinality(Present(n)) \in Nat
  BY <1>4, <1>5, FS_Subset, FS_CardinalityType
<1>9. Cardinality(Present(s) \cup {i}) \in Nat BY <1>5, FS_CardinalityType
<1> HIDE DEF n
<1>10. Cardinality(Present(n)) <= MaxRules BY <1>6, <1>7, <1>8, <1>9, StoreParams
<1> QED BY <1>1, <1>10 DEF n

\* The effect of an operation of thread t on rule i that leaves job to queue.
Op(t, i, r, job) ==
  /\ CanStart(t)
  /\ r \in Rule \cup {NoRule}
  /\ Begin(t, i, r, job)
  /\ \/ store[i] # NoRule /\ r = NoRule /\ job = Unsub(i)
     \/ store[i] = NoRule /\ r # NoRule /\ HasRoom /\ job \in {Sub(i), NoJob}
     \/ store[i] # NoRule /\ r # NoRule /\ job \in {Sub(i), Unsub(i)}
  /\ job # NoJob => (job.op = "sub" <=> r.on)
  /\ job = NoJob => store[i] = NoRule /\ ~r.on

Operation ==
  \/ \E i \in Ids, en \in BOOLEAN : RuleEngine_Add(i, en)
  \/ \E i \in Ids, en \in BOOLEAN : RuleEngine_Update(i, en)
  \/ \E i \in Ids : RuleEngine_Delete(i)
  \/ \E t \in Admins, i \in Ids, en \in BOOLEAN : RuleEngine_SetEnabled(t, i, en)

\* Every operation has that shape.
LEMMA OpShape ==
  ASSUME TypeOK, Operation
  PROVE  \E t \in Threads, i \in Ids :
           \E r \in Rule \cup {NoRule}, job \in Job \cup {NoJob} : Op(t, i, r, job)
<1>0. store \in Store /\ ops \in Nat BY DEF TypeOK
<1>1. CASE \E i \in Ids, en \in BOOLEAN : RuleEngine_Add(i, en)
  <2> PICK i \in Ids, en \in BOOLEAN : RuleEngine_Add(i, en) BY <1>1
  <2> DEFINE r == [on |-> en, ver |-> ops + 1]
             job == IF en THEN Sub(i) ELSE NoJob
  <2>1. r \in Rule /\ r # NoRule BY <1>0 DEF Rule, NoRule
  <2>2. job \in Job \cup {NoJob} BY DEF Job, Sub
  <2>3. Op("http", i, r, job) BY <2>1 DEF RuleEngine_Add, Op, Sub, NoJob
  <2> QED BY <2>1, <2>2, <2>3 DEF Threads
<1>2. CASE \E i \in Ids, en \in BOOLEAN : RuleEngine_Update(i, en)
  <2> PICK i \in Ids, en \in BOOLEAN : RuleEngine_Update(i, en) BY <1>2
  <2> DEFINE r == [on |-> en, ver |-> ops + 1]
             job == JobFor(i, en)
  <2>1. r \in Rule /\ r # NoRule BY <1>0 DEF Rule, NoRule
  <2>2. job \in Job /\ job \in {Sub(i), Unsub(i)} BY DEF Job, Sub, Unsub, JobFor
  <2>4. job # NoJob /\ (job.op = "sub" <=> r.on) BY DEF JobFor, Sub, Unsub, NoJob
  <2>3. Op("http", i, r, job) BY <2>1, <2>2, <2>4 DEF RuleEngine_Update, Op
  <2> QED BY <2>1, <2>2, <2>3 DEF Threads
<1>3. CASE \E i \in Ids : RuleEngine_Delete(i)
  <2> PICK i \in Ids : RuleEngine_Delete(i) BY <1>3
  <2>1. Unsub(i) \in Job BY DEF Job, Unsub
  <2>2. Op("http", i, NoRule, Unsub(i)) BY DEF RuleEngine_Delete, Op, JobForDeleted, Unsub, NoJob, NoRule
  <2> QED BY <2>1, <2>2 DEF Threads
<1>4. CASE \E t \in Admins, i \in Ids, en \in BOOLEAN : RuleEngine_SetEnabled(t, i, en)
  <2> PICK t \in Admins, i \in Ids, en \in BOOLEAN : RuleEngine_SetEnabled(t, i, en)
    BY <1>4
  <2> DEFINE r == [on |-> en, ver |-> store[i].ver]
             job == JobFor(i, en)
  <2>1. store[i] # NoRule BY DEF RuleEngine_SetEnabled
  <2>2. store[i] \in Rule BY <1>0, <2>1 DEF Store
  <2>3. r \in Rule /\ r.ver # 0 BY <2>2 DEF Rule
  <2>4. r # NoRule BY <2>3 DEF NoRule
  <2>5. job \in Job /\ job \in {Sub(i), Unsub(i)} BY DEF Job, Sub, Unsub, JobFor
  <2>7. CanStart(t) /\ Begin(t, i, r, job)
    BY DEF RuleEngine_SetEnabled
  <2>10. job # NoJob /\ (job.op = "sub" <=> r.on) BY DEF JobFor, Sub, Unsub, NoJob
  <2>8. Op(t, i, r, job) BY <2>1, <2>3, <2>4, <2>5, <2>7, <2>10 DEF Op
  <2>9. t \in Threads BY StoreParams DEF Threads
  <2> QED BY <2>3, <2>5, <2>8, <2>9
<1> QED BY <1>1, <1>2, <1>3, <1>4 DEF Operation

(***************************************************************************)
(* Type correctness.                                                       *)
(***************************************************************************)

\* The other steps, by name.
LEMMA NextSplit ==
  ASSUME Next
  PROVE  \/ Operation
         \/ \E t \in Threads : SaveDone(t)
         \/ \E t \in Threads : Queue(t)
         \/ RunJob \/ RuleEngine_Init \/ ScheduleLoaded \/ RuleEngine_Cleanup
         \/ Exit \/ Crash
BY DEF Next, Operation

\* A step of the specification keeps the types.
LEMMA TypeStep ==
  ASSUME TypeOK, [Next]_vars
  PROVE  TypeOK'
<1> USE DEF TypeOK
<1>1. CASE Operation
  <2> PICK t \in Threads, i \in Ids, r \in Rule \cup {NoRule}, job \in Job \cup {NoJob} :
             Op(t, i, r, job) BY <1>1, OpShape
  <2>1. store[i] # NoRule \/ Cardinality(Present(store)) < MaxRules
    BY DEF Op, HasRoom
  <2>2. [store EXCEPT ![i] = r] \in Store
        /\ Cardinality(Present([store EXCEPT ![i] = r])) <= MaxRules
    BY <2>1, Sizes
  <2>3. Begin(t, i, r, job) BY DEF Op
  <2>4. store' \in Store /\ Cardinality(Present(store')) <= MaxRules
    BY <2>2, <2>3 DEF Begin
  <2>5. file' = Truncated BY <2>3 DEF Begin
  <2>6. file' \in [state : {"missing", "truncated", "ok"}, rules : Store]
        /\ Cardinality(Present(file'.rules)) <= MaxRules
    BY <2>5, EmptyStore DEF Truncated
  <2>7. pc' \in [Threads -> {"idle", "saving", "queueing"}] /\ todo' \in [Threads -> Job \cup {NoJob}]
    BY <2>3 DEF Begin
  <2>8. ops' \in Nat /\ late' \in BOOLEAN BY <2>3 DEF Begin
  <2>9. UNCHANGED <<phase, idle, boot, subscribed, faults, crashed, unsaved, acked>>
    BY <2>3 DEF Begin
  <2>10. raced' \in {raced, raced \cup {i}, raced \ {i}} BY <2>3 DEF Begin
  <2>11. raced' \in SUBSET Ids BY <2>10
  <2> QED BY <2>4, <2>6, <2>7, <2>8, <2>9, <2>11
<1>2. ASSUME NEW t \in Threads, SaveDone(t) PROVE TypeOK'
  <2>1. UNCHANGED <<phase, store, todo, idle, boot, subscribed, ops, crashed, late, raced>>
    BY <1>2 DEF SaveDone
  <2>2. pc' \in [Threads -> {"idle", "saving", "queueing"}]
    <3>1. pc' = [pc EXCEPT ![t] = "queueing"] BY <1>2 DEF SaveDone
    <3> QED BY <3>1
  <2>3. file' = file \/ file' = Holding(store) BY <1>2 DEF SaveDone, Written
  <2>4. file' \in [state : {"missing", "truncated", "ok"}, rules : Store]
        /\ Cardinality(Present(file'.rules)) <= MaxRules
    BY <2>3 DEF Holding
  <2>5. faults' \in Nat BY <1>2 DEF SaveDone
  <2>7. unsaved' \in BOOLEAN BY <1>2 DEF SaveDone
  <2>6. acked' \in Store BY <1>2 DEF SaveDone, Store
  <2> QED BY <2>1, <2>2, <2>4, <2>5, <2>6, <2>7
<1>3. ASSUME NEW t \in Threads, Queue(t) PROVE TypeOK'
  <2>1. UNCHANGED <<phase, store, file, boot, subscribed, ops, faults, hist>>
    BY <1>3 DEF Queue
  <2>2. pc' \in [Threads -> {"idle", "saving", "queueing"}] /\ todo' \in [Threads -> Job \cup {NoJob}]
    BY <1>3 DEF Queue
  <2>3. idle' \in Seq(Job)
    <3>1. todo[t] \in Job \cup {NoJob} OBVIOUS
    <3> QED BY <1>3, <3>1 DEF Queue
  <2> QED BY <2>1, <2>2, <2>3 DEF hist
<1>4. CASE RunJob
  <2>1. UNCHANGED <<phase, store, file, pc, todo, boot, ops, faults, hist>>
    BY <1>4 DEF RunJob
  <2>2. idle # <<>> /\ idle' = Tail(idle) BY <1>4 DEF RunJob, JobsLeft
  <2>3. Head(idle) \in Job /\ idle' \in Seq(Job) BY <2>2
  <2>4. Head(idle).id \in Ids BY <2>3 DEF Job
  <2>5. store[Head(idle).id].ver \in Nat BY <2>4 DEF Store, Rule, NoRule
  <2>6. \/ subscribed' = subscribed
        \/ subscribed' = [subscribed EXCEPT ![Head(idle).id] = store[Head(idle).id].ver]
        \/ subscribed' = [subscribed EXCEPT ![Head(idle).id] = 0]
    BY <1>4 DEF RunJob, CurrentTriggers
  <2>7. subscribed' \in [Ids -> Nat] BY <2>4, <2>5, <2>6
  <2> QED BY <2>1, <2>3, <2>7 DEF hist
<1>5. CASE RuleEngine_Init
  <2>1. UNCHANGED <<file, pc, todo, idle, subscribed, ops, faults>> BY <1>5 DEF RuleEngine_Init
  <2>2. store' = file.rules /\ acked' = store' BY <1>5 DEF RuleEngine_Init
  <2>3. store' \in Store /\ Cardinality(Present(store')) <= MaxRules BY <2>2
  <2>4. phase' = "boot" /\ boot' \in SUBSET Ids
        /\ crashed' = FALSE /\ unsaved' = FALSE /\ late' = FALSE /\ raced' = {}
    BY <1>5 DEF RuleEngine_Init
  <2> QED BY <2>1, <2>2, <2>3, <2>4
<1>6. CASE ScheduleLoaded
  <2>1. UNCHANGED <<store, file, pc, todo, subscribed, ops, faults, hist>>
    BY <1>6 DEF ScheduleLoaded
  <2>2. phase' \in {"boot", "run"} /\ boot' \in SUBSET Ids BY <1>6 DEF ScheduleLoaded
  <2>3. idle' \in Seq(Job)
    <3>1. CASE \E i \in boot : idle' = Append(idle, Sub(i))
      <4> PICK i \in boot : idle' = Append(idle, Sub(i)) BY <3>1
      <4>1. Sub(i) \in Job BY DEF Job, Sub
      <4> QED BY <4>1
    <3>2. CASE idle' = idle BY <3>2
    <3> QED BY <1>6, <3>1, <3>2 DEF ScheduleLoaded
  <2> QED BY <2>1, <2>2, <2>3 DEF hist
<1>7. CASE RuleEngine_Cleanup
  <2>1. phase' = "closing" /\ store' = Empty /\ subscribed' \in [Ids -> Nat]
    BY <1>7 DEF RuleEngine_Cleanup, NoSubs
  <2>2. UNCHANGED <<file, pc, todo, idle, boot, ops, faults, hist>>
    BY <1>7 DEF RuleEngine_Cleanup
  <2> QED BY <2>1, <2>2, EmptyStore DEF hist
<1>8. ASSUME Gone PROVE /\ phase' = "off" /\ store' = Empty /\ subscribed' \in [Ids -> Nat]
                        /\ idle' \in Seq(Job) /\ boot' \in SUBSET Ids
                        /\ pc' \in [Threads -> {"idle", "saving", "queueing"}]
                        /\ todo' \in [Threads -> Job \cup {NoJob}]
                        /\ UNCHANGED <<file, ops, unsaved, acked, late, raced>>
  BY <1>8 DEF Gone, NoSubs
<1>9. CASE Exit BY <1>8, <1>9, EmptyStore DEF Exit
<1>10. CASE Crash BY <1>8, <1>10, EmptyStore DEF Crash
<1>11. CASE UNCHANGED vars BY <1>11 DEF vars, volatile, hist
<1> QED BY <1>1, <1>2, <1>3, <1>4, <1>5, <1>6, <1>7, <1>9, <1>10, <1>11, NextSplit

\* Type correctness of the store, its file and the two queues; the rule table
\* never exceeds MAX_RULES.
THEOREM TypeCorrect == Spec => []TypeOK
<1>1. ASSUME Init PROVE TypeOK
  <2>1. phase = "off" /\ store = Empty /\ acked = Empty /\ file = Missing
        /\ boot = {} /\ ops = 0 /\ faults = 0 /\ raced = {}
    BY <1>1 DEF Init
  <2>2. file \in [state : {"missing", "truncated", "ok"}, rules : Store]
        /\ file.rules = Empty
    BY <2>1, EmptyStore DEF Missing
  <2>3. idle \in Seq(Job) BY <1>1 DEF Init
  <2>4. pc \in [Threads -> {"idle", "saving", "queueing"}]
        /\ todo \in [Threads -> Job \cup {NoJob}]
    BY <1>1 DEF Init
  <2>5. subscribed \in [Ids -> Nat] BY <1>1 DEF Init, NoSubs
  <2>6. crashed \in BOOLEAN /\ unsaved \in BOOLEAN /\ late \in BOOLEAN
    BY <1>1 DEF Init
  <2> QED BY <2>1, <2>2, <2>3, <2>4, <2>5, <2>6, EmptyStore DEF TypeOK
<1>2. TypeOK /\ [Next]_vars => TypeOK' BY TypeStep
<1> QED BY <1>1, <1>2, PTL DEF Spec

(***************************************************************************)
(* Subscriptions.                                                          *)
(***************************************************************************)

\* A thread outside an operation has nothing left to queue.
IdleHasNoJob == \A t \in Threads : pc[t] = "idle" => todo[t] = NoJob

\* Without a process there are no subscriptions.
OffHasNoSubs == phase = "off" => subscribed = NoSubs

SubsInv == IdleHasNoJob /\ OffHasNoSubs /\ NoOrphanSubs /\ NoStaleSubs

\* Appending keeps the elements that were there.
LEMMA AppendKeeps ==
  ASSUME NEW q \in Seq(Job), NEW x \in Job, NEW k \in DOMAIN q
  PROVE  k \in DOMAIN Append(q, x) /\ Append(q, x)[k] = q[k]
<1>1. DOMAIN q = 1 .. Len(q) /\ Len(q) \in Nat OBVIOUS
<1>2. k \in 1 .. (Len(q) + 1) BY <1>1
<1>3. DOMAIN Append(q, x) = 1 .. (Len(q) + 1) /\ Append(q, x)[k] = q[k] BY <1>1
<1> QED BY <1>2, <1>3, Zenon

\* A job in flight stays in flight when nothing takes it off the queue.
LEMMA StillInFlight ==
  ASSUME TypeOK, NEW op \in {"sub", "unsub"}, NEW i \in Ids, InFlight(op, i),
         \/ idle' = idle
         \/ \E job \in Job : idle' = Append(idle, job),
         \A t \in Threads : todo'[t] = todo[t] \/ todo[t] = NoJob
  PROVE  InFlight(op, i)'
<1> DEFINE j == [op |-> op, id |-> i]
<1>0. idle \in Seq(Job) BY DEF TypeOK
<1>5. j # NoJob BY DEF NoJob
<1>3. InFlight(op, i) <=> (\E k \in DOMAIN idle : idle[k] = j) \/ (\E t \in Threads : todo[t] = j)
  BY DEF InFlight
<1>4. InFlight(op, i)' <=> (\E k \in DOMAIN idle' : idle'[k] = j) \/ (\E t \in Threads : todo'[t] = j)
  BY DEF InFlight
<1> HIDE DEF j
<1>1. CASE \E k \in DOMAIN idle : idle[k] = j
  <2> PICK k \in DOMAIN idle : idle[k] = j BY <1>1
  <2>1. k \in DOMAIN idle' /\ idle'[k] = j
    <3>1. CASE idle' = idle BY <3>1
    <3>2. CASE \E job \in Job : idle' = Append(idle, job)
      <4> PICK job \in Job : idle' = Append(idle, job) BY <3>2
      <4> QED BY <1>0, AppendKeeps
    <3> QED BY <3>1, <3>2
  <2> QED BY <2>1, <1>4
<1>2. CASE \E t \in Threads : todo[t] = j
  <2> PICK t \in Threads : todo[t] = j BY <1>2
  <2>1. todo'[t] = j BY <1>5
  <2> QED BY <2>1, <1>4
<1> QED BY <1>1, <1>2, <1>3

\* An operation keeps SubsInv: it leaves a job exactly where it is needed.
LEMMA SubsOperation ==
  ASSUME TypeOK, SubsInv, Operation
  PROVE  SubsInv'
<1> PICK t \in Threads, i \in Ids, r \in Rule \cup {NoRule}, job \in Job \cup {NoJob} :
           Op(t, i, r, job) BY OpShape
<1>1. /\ store' = [store EXCEPT ![i] = r]
      /\ pc' = [pc EXCEPT ![t] = "saving"]
      /\ todo' = [todo EXCEPT ![t] = job]
      /\ UNCHANGED <<phase, idle, subscribed>>
  BY DEF Op, Begin
<1>2. pc[t] = "idle" BY DEF Op, CanStart
<1>3. todo[t] = NoJob BY <1>2 DEF SubsInv, IdleHasNoJob
<1>4. pc \in [Threads -> {"idle", "saving", "queueing"}]
      /\ todo \in [Threads -> Job \cup {NoJob}] /\ store \in Store
  BY DEF TypeOK
<1>5. IdleHasNoJob'
  BY <1>1, <1>4 DEF SubsInv, IdleHasNoJob
<1>6. OffHasNoSubs' BY <1>1 DEF SubsInv, OffHasNoSubs, NoSubs
<1>7. \A u \in Threads : todo'[u] = todo[u] \/ todo[u] = NoJob BY <1>1, <1>3, <1>4
<1>8. \A op \in {"sub", "unsub"}, j \in Ids : InFlight(op, j) => InFlight(op, j)'
  BY <1>1, <1>7, StillInFlight
<1>9. todo'[t] = job BY <1>1, <1>4
<1>10. \A j \in Ids : j # i => store'[j] = store[j] BY <1>1, <1>4 DEF Store
<1>11. store'[i] = r BY <1>1, <1>4 DEF Store
<1>12. NoOrphanSubs'
  <2> SUFFICES ASSUME NEW j \in Ids, subscribed'[j] # 0, store'[j] = NoRule
               PROVE  InFlight("unsub", j)'
    BY DEF NoOrphanSubs
  <2>1. CASE j # i \/ store[i] = NoRule
    <3>1. store[j] = NoRule BY <2>1, <1>10, <1>11 DEF Op
    <3>2. InFlight("unsub", j) BY <3>1, <1>1 DEF SubsInv, NoOrphanSubs
    <3> QED BY <3>2, <1>8
  <2>2. CASE j = i /\ store[i] # NoRule
    <3>1. job = Unsub(i) BY <2>2, <1>11 DEF Op
    <3> QED BY <3>1, <2>2, <1>9 DEF InFlight, Unsub
  <2> QED BY <2>1, <2>2
<1>13. NoStaleSubs'
  <2> SUFFICES ASSUME NEW j \in Ids, subscribed'[j] # 0, store'[j] # NoRule,
                      subscribed'[j] # store'[j].ver
               PROVE  InFlight("sub", j)' \/ InFlight("unsub", j)'
    BY DEF NoStaleSubs
  <2>1. CASE j # i
    <3>1. InFlight("sub", j) \/ InFlight("unsub", j)
      BY <2>1, <1>1, <1>10 DEF SubsInv, NoStaleSubs
    <3> QED BY <3>1, <1>8
  <2>2. CASE j = i /\ store[i] = NoRule
    <3>1. InFlight("unsub", j) BY <2>2, <1>1 DEF SubsInv, NoOrphanSubs
    <3> QED BY <3>1, <1>8
  <2>3. CASE j = i /\ store[i] # NoRule
    <3>1. job = Sub(i) \/ job = Unsub(i) BY <2>3, <1>11 DEF Op
    <3> QED BY <3>1, <2>3, <1>9 DEF InFlight, Sub, Unsub
  <2> QED BY <2>1, <2>2, <2>3
<1> QED BY <1>5, <1>6, <1>12, <1>13 DEF SubsInv

\* A job that runs makes the subscriptions of its rule current or drops them.
LEMMA SubsRunJob ==
  ASSUME TypeOK, SubsInv, RunJob
  PROVE  SubsInv'
<1> DEFINE job == Head(idle)
<1>0. idle \in Seq(Job) /\ idle # <<>> BY DEF TypeOK, RunJob
<1>1. job \in Job BY <1>0
<1>2. job.id \in Ids /\ job = [op |-> job.op, id |-> job.id] BY <1>1 DEF Job
<1> PICK i \in Ids : i = job.id BY <1>2
<1>3. UNCHANGED <<phase, store, pc, todo>> /\ idle' = Tail(idle) BY DEF RunJob, JobsLeft
<1>4. \A op \in {"sub", "unsub"}, j \in Ids :
        j # i /\ InFlight(op, j) => InFlight(op, j)'
  <2> SUFFICES ASSUME NEW op \in {"sub", "unsub"}, NEW j \in Ids, j # i,
                      InFlight(op, j)
               PROVE  InFlight(op, j)'
    OBVIOUS
  <2>1. CASE \E k \in DOMAIN idle : idle[k] = [op |-> op, id |-> j]
    <3> PICK k \in DOMAIN idle : idle[k] = [op |-> op, id |-> j] BY <2>1
    <3>1. idle[k].id = j OBVIOUS
    <3>2. k # 1 BY <3>1, <1>0
    <3>3. DOMAIN idle = 1 .. Len(idle) /\ Len(idle) \in Nat BY <1>0
    <3>4. k - 1 \in 1 .. (Len(idle) - 1) BY <3>2, <3>3
    <3>5. DOMAIN Tail(idle) = 1 .. (Len(idle) - 1) /\ Tail(idle)[k - 1] = idle[k]
      BY <1>0, <3>3, <3>4
    <3> QED BY <1>3, <3>4, <3>5 DEF InFlight
  <2>2. CASE \E t \in Threads : todo[t] = [op |-> op, id |-> j]
    BY <2>2, <1>3 DEF InFlight
  <2> QED BY <2>1, <2>2 DEF InFlight
<1>5. \A j \in Ids : j # i => subscribed'[j] = subscribed[j]
  BY <1>2 DEF RunJob, TypeOK
<1>6. \/ job.op = "unsub" /\ subscribed'[i] = 0
      \/ job.op = "sub" /\ store[i] = NoRule /\ subscribed' = subscribed
      \/ job.op = "sub" /\ store[i] # NoRule /\ subscribed'[i] = store[i].ver
  BY <1>2 DEF RunJob, TypeOK, CurrentTriggers
<1>7. store[i] = NoRule /\ subscribed[i] # 0 /\ job.op = "sub"
        => InFlight("unsub", i)'
  <2> SUFFICES ASSUME store[i] = NoRule, subscribed[i] # 0, job.op = "sub"
               PROVE  InFlight("unsub", i)'
    OBVIOUS
  <2>1. InFlight("unsub", i) BY <1>2 DEF SubsInv, NoOrphanSubs
  <2>2. CASE \E k \in DOMAIN idle : idle[k] = [op |-> "unsub", id |-> i]
    <3> PICK k \in DOMAIN idle : idle[k] = [op |-> "unsub", id |-> i] BY <2>2
    <3>1. idle[k].op = "unsub" OBVIOUS
    <3>2. k # 1 BY <3>1, <1>0
    <3>3. DOMAIN idle = 1 .. Len(idle) /\ Len(idle) \in Nat BY <1>0
    <3>4. k - 1 \in 1 .. (Len(idle) - 1) BY <3>2, <3>3
    <3>5. DOMAIN Tail(idle) = 1 .. (Len(idle) - 1) /\ Tail(idle)[k - 1] = idle[k]
      BY <1>0, <3>3, <3>4
    <3> QED BY <1>3, <3>4, <3>5 DEF InFlight
  <2>3. CASE \E t \in Threads : todo[t] = [op |-> "unsub", id |-> i]
    BY <2>3, <1>3 DEF InFlight
  <2> QED BY <2>1, <2>2, <2>3 DEF InFlight
<1> HIDE DEF job
<1>8. IdleHasNoJob' BY <1>3 DEF SubsInv, IdleHasNoJob
<1>9. OffHasNoSubs' BY <1>3 DEF OffHasNoSubs, RunJob
<1>10. NoOrphanSubs'
  <2> SUFFICES ASSUME NEW j \in Ids, subscribed'[j] # 0, store'[j] = NoRule
               PROVE  InFlight("unsub", j)'
    BY DEF NoOrphanSubs
  <2>1. CASE j # i BY <2>1, <1>3, <1>4, <1>5 DEF SubsInv, NoOrphanSubs
  <2>2. CASE j = i BY <2>2, <1>3, <1>6, <1>7
  <2> QED BY <2>1, <2>2
<1>11. NoStaleSubs'
  <2> SUFFICES ASSUME NEW j \in Ids, subscribed'[j] # 0, store'[j] # NoRule,
                      subscribed'[j] # store'[j].ver
               PROVE  InFlight("sub", j)' \/ InFlight("unsub", j)'
    BY DEF NoStaleSubs
  <2>1. CASE j # i BY <2>1, <1>3, <1>4, <1>5 DEF SubsInv, NoStaleSubs
  <2>2. CASE j = i BY <2>2, <1>3, <1>6
  <2> QED BY <2>1, <2>2
<1> QED BY <1>8, <1>9, <1>10, <1>11 DEF SubsInv

\* Any step keeps SubsInv.
LEMMA SubsStep ==
  ASSUME TypeOK, SubsInv, [Next]_vars
  PROVE  SubsInv'
<1>1. CASE Operation BY <1>1, SubsOperation
<1>2. CASE RunJob BY <1>2, SubsRunJob
<1>3. ASSUME NEW t \in Threads, SaveDone(t) PROVE SubsInv'
  <2>1. UNCHANGED <<phase, store, todo, idle, subscribed>>
        /\ pc' = [pc EXCEPT ![t] = "queueing"]
    BY <1>3 DEF SaveDone
  <2>2. IdleHasNoJob' BY <2>1 DEF SubsInv, IdleHasNoJob, TypeOK
  <2>3. \A op \in {"sub", "unsub"}, j \in Ids : InFlight(op, j) => InFlight(op, j)'
    BY <2>1, StillInFlight
  <2>4. OffHasNoSubs' BY <2>1 DEF SubsInv, OffHasNoSubs, NoSubs
  <2>5. NoOrphanSubs' BY <2>1, <2>3 DEF SubsInv, NoOrphanSubs
  <2>6. NoStaleSubs' BY <2>1, <2>3 DEF SubsInv, NoStaleSubs
  <2> QED BY <2>2, <2>4, <2>5, <2>6 DEF SubsInv
<1>4. ASSUME NEW t \in Threads, Queue(t) PROVE SubsInv'
  <2>1. /\ UNCHANGED <<phase, store, subscribed>>
        /\ pc' = [pc EXCEPT ![t] = "idle"]
        /\ todo' = [todo EXCEPT ![t] = NoJob]
        /\ idle' = IF todo[t] = NoJob THEN idle ELSE Append(idle, todo[t])
    BY <1>4 DEF Queue
  <2>2. IdleHasNoJob' BY <2>1 DEF SubsInv, IdleHasNoJob, TypeOK
  <2>3. \A op \in {"sub", "unsub"}, j \in Ids : InFlight(op, j) => InFlight(op, j)'
    <3> SUFFICES ASSUME NEW op \in {"sub", "unsub"}, NEW j \in Ids, InFlight(op, j)
                 PROVE  InFlight(op, j)'
      OBVIOUS
    <3>0. idle \in Seq(Job) /\ todo[t] \in Job \cup {NoJob} BY DEF TypeOK
    <3>1. CASE todo[t] # [op |-> op, id |-> j]
      <4> DEFINE J == [op |-> op, id |-> j]
      <4>0. /\ InFlight(op, j) <=> (\E k \in DOMAIN idle : idle[k] = J)
                                   \/ (\E u \in Threads : todo[u] = J)
            /\ InFlight(op, j)' <=> (\E k \in DOMAIN idle' : idle'[k] = J)
                                   \/ (\E u \in Threads : todo'[u] = J)
            /\ todo[t] # J
        BY <3>1 DEF InFlight
      <4> HIDE DEF J
      <4>1. CASE \E u \in Threads : todo[u] = J
        <5> PICK u \in Threads : todo[u] = J BY <4>1
        <5>1. u # t BY <4>0
        <5>2. todo'[u] = J BY <5>1, <2>1 DEF TypeOK
        <5> QED BY <5>2, <4>0
      <4>2. CASE \E k \in DOMAIN idle : idle[k] = J
        <5> PICK k \in DOMAIN idle : idle[k] = J BY <4>2
        <5>1. CASE idle' = idle BY <5>1, <4>0
        <5>2. CASE todo[t] # NoJob
          <6>1. idle' = Append(idle, todo[t]) BY <5>2, <2>1
          <6>2. todo[t] \in Job BY <5>2, <3>0
          <6>3. k \in DOMAIN idle' /\ idle'[k] = J BY <3>0, <6>1, <6>2, AppendKeeps
          <6> QED BY <6>3, <4>0
        <5> QED BY <5>1, <5>2, <2>1
      <4> QED BY <4>0, <4>1, <4>2
    <3>2. CASE todo[t] = [op |-> op, id |-> j]
      <4>1. todo[t] # NoJob BY <3>2 DEF NoJob
      <4>2. idle' = Append(idle, todo[t]) /\ todo[t] \in Job BY <4>1, <2>1, <3>0
      <4>3. Len(idle) \in Nat BY <3>0
      <4>4. DOMAIN idle' = 1 .. (Len(idle) + 1) /\ idle'[Len(idle) + 1] = todo[t]
        BY <3>0, <4>2
      <4>5. Len(idle) + 1 \in 1 .. (Len(idle) + 1) BY <4>3
      <4>6. \E k \in DOMAIN idle' : idle'[k] = todo[t] BY <4>4, <4>5, Zenon
      <4> QED BY <4>6, <3>2 DEF InFlight
    <3> QED BY <3>1, <3>2
  <2>4. OffHasNoSubs' BY <2>1 DEF SubsInv, OffHasNoSubs, NoSubs
  <2>5. NoOrphanSubs' BY <2>1, <2>3 DEF SubsInv, NoOrphanSubs
  <2>6. NoStaleSubs' BY <2>1, <2>3 DEF SubsInv, NoStaleSubs
  <2> QED BY <2>2, <2>4, <2>5, <2>6 DEF SubsInv
<1>5. CASE RuleEngine_Init
  <2>1. UNCHANGED <<pc, todo, subscribed>> /\ phase = "off" /\ phase' = "boot"
    BY <1>5 DEF RuleEngine_Init
  <2>2. \A i \in Ids : subscribed'[i] = 0 BY <2>1 DEF SubsInv, OffHasNoSubs, NoSubs
  <2> QED BY <2>1, <2>2
        DEF SubsInv, IdleHasNoJob, OffHasNoSubs, NoOrphanSubs, NoStaleSubs
<1>6. CASE ScheduleLoaded
  <2>1. UNCHANGED <<store, pc, todo, subscribed>> /\ phase' # "off"
    BY <1>6 DEF ScheduleLoaded
  <2>2. idle' = idle \/ \E job \in Job : idle' = Append(idle, job)
    <3>1. CASE \E i \in boot : idle' = Append(idle, Sub(i))
      <4> PICK i \in boot : idle' = Append(idle, Sub(i)) BY <3>1
      <4>1. Sub(i) \in Job BY DEF Job, Sub, TypeOK
      <4> QED BY <4>1
    <3> QED BY <1>6, <3>1 DEF ScheduleLoaded
  <2>3. \A op \in {"sub", "unsub"}, j \in Ids : InFlight(op, j) => InFlight(op, j)'
    BY <2>1, <2>2, StillInFlight
  <2> QED BY <2>1, <2>3
        DEF SubsInv, IdleHasNoJob, OffHasNoSubs, NoOrphanSubs, NoStaleSubs
<1>7. ASSUME subscribed' = NoSubs, IdleHasNoJob' PROVE SubsInv'
  BY <1>7 DEF SubsInv, OffHasNoSubs, NoOrphanSubs, NoStaleSubs, NoSubs
<1>8. CASE RuleEngine_Cleanup
  BY <1>7, <1>8 DEF RuleEngine_Cleanup, SubsInv, IdleHasNoJob
<1>9. CASE Exit \/ Crash
  BY <1>7, <1>9 DEF Exit, Crash, Gone, IdleHasNoJob
<1>10. CASE UNCHANGED vars
  BY <1>10 DEF vars, volatile, SubsInv, IdleHasNoJob, OffHasNoSubs, NoSubs,
               NoOrphanSubs, NoStaleSubs, InFlight
<1> QED BY <1>1, <1>2, <1>3, <1>4, <1>5, <1>6, <1>8, <1>9, <1>10, NextSplit

\* Both subscription invariants hold with the strengthening.
LEMMA SubsInvariant == Spec => []SubsInv
<1>1. Init => SubsInv
  BY DEF Init, SubsInv, IdleHasNoJob, OffHasNoSubs, NoOrphanSubs, NoStaleSubs, NoSubs
<1>2. TypeOK /\ SubsInv /\ [Next]_vars => SubsInv' BY SubsStep
<1> QED BY <1>1, <1>2, TypeCorrect, PTL DEF Spec

\* A deleted rule never stays subscribed once the queued jobs have run, however
\* the two threads interleave (rule_engine.c:558, 337).
THEOREM NoOrphans == Spec => []NoOrphanSubs
<1>1. SubsInv => NoOrphanSubs BY DEF SubsInv
<1> QED BY <1>1, SubsInvariant, PTL

\* A rule never stays subscribed with the triggers of an older save
\* (rule_engine.c:305).
THEOREM NoStale == Spec => []NoStaleSubs
<1>1. SubsInv => NoStaleSubs BY DEF SubsInv
<1> QED BY <1>1, SubsInvariant, PTL

(***************************************************************************)
(* Subscriptions follow the store.                                         *)
(***************************************************************************)

\* Thread t has still to queue a job for rule i.
Todo(t, i) == todo[t] # NoJob /\ todo[t].id = i

\* The job makes the subscriptions of i follow the flag of i.
Fits(job, i) == job.op = "sub" <=> store[i].on

\* Position k of the queue holds the last job for rule i.
LastJob(k, i) ==
  /\ k \in DOMAIN idle /\ idle[k].id = i
  /\ \A m \in DOMAIN idle : m > k => idle[m].id # i

\* Whatever will be done for rule i last leaves its subscriptions right: the job a
\* thread is about to queue, or else the last job in the queue, or else nothing has
\* to be done, but for what RuleEngine_Init has still to schedule.
FollowsRule(i) ==
  /\ \A t \in Threads : Todo(t, i) => Fits(todo[t], i)
  /\ (\A t \in Threads : ~Todo(t, i)) =>
        /\ \A k \in DOMAIN idle : LastJob(k, i) => Fits(idle[k], i)
        /\ (\A k \in DOMAIN idle : idle[k].id # i) => InStep(i) \/ i \in boot

\* A process that is gone has left no work; rules still to be scheduled are enabled.
FollowsInv ==
  /\ phase = "off" => idle = <<>> /\ \A t \in Threads : todo[t] = NoJob
  /\ \A i \in boot : store[i].on
  /\ phase \in {"run", "closing"} => boot = {}
  /\ phase \in {"boot", "run"} => \A i \in Ids \ raced : FollowsRule(i)

\* One more job at the end of the queue, or the first one gone.
LEMMA QueueEnds ==
  ASSUME NEW q \in Seq(Job)
  PROVE  /\ \A x \in Job : /\ DOMAIN Append(q, x) = 1 .. Len(q) + 1
                           /\ Append(q, x)[Len(q) + 1] = x
                           /\ \A k \in DOMAIN q : Append(q, x)[k] = q[k]
         /\ q # <<>> => /\ DOMAIN Tail(q) = 1 .. Len(q) - 1
                        /\ \A k \in DOMAIN Tail(q) : Tail(q)[k] = q[k + 1]
         /\ DOMAIN q = 1 .. Len(q) /\ Len(q) \in Nat
OBVIOUS

\* A rule whose flag, subscriptions and jobs do not change keeps following.
LEMMA FollowsUntouched ==
  ASSUME NEW i \in Ids, FollowsRule(i),
         store'[i].on = store[i].on,
         InStep(i) => InStep(i)',
         i \in boot => i \in boot',
         idle' = idle,
         \A t \in Threads : Todo(t, i)' => Todo(t, i) /\ todo'[t] = todo[t],
         \A t \in Threads : Todo(t, i) => Todo(t, i)'
  PROVE  FollowsRule(i)'
<1>1. \A t \in Threads : Todo(t, i)' => Fits(todo[t], i)' BY DEF FollowsRule, Fits
<1>2. \A k : LastJob(k, i)' <=> LastJob(k, i) BY DEF LastJob
<1>3. (\A t \in Threads : ~Todo(t, i)') =>
        /\ \A k \in DOMAIN idle' : LastJob(k, i)' => Fits(idle[k], i)'
        /\ (\A k \in DOMAIN idle' : idle'[k].id # i) => InStep(i)' \/ i \in boot'
  BY <1>2 DEF FollowsRule, Fits
<1> QED BY <1>1, <1>3 DEF FollowsRule

\* An operation leaves the job that fits, or finds nobody to overtake.
LEMMA FollowsOperation ==
  ASSUME TypeOK, SubsInv, FollowsInv, Operation
  PROVE  FollowsInv'
<1> PICK t \in Threads, i \in Ids, r \in Rule \cup {NoRule}, job \in Job \cup {NoJob} :
           Op(t, i, r, job) BY OpShape
<1>1. /\ store' = [store EXCEPT ![i] = r]
      /\ todo' = [todo EXCEPT ![t] = job]
      /\ UNCHANGED <<phase, idle, subscribed, boot>>
      /\ raced' = IF Overlaps(t, i) THEN raced \cup {i}
                  ELSE IF job = NoJob THEN raced ELSE raced \ {i}
  BY DEF Op, Begin
<1>2. pc[t] = "idle" /\ phase \in {"run", "closing"} BY DEF Op, CanStart
<1>3. todo[t] = NoJob BY <1>2 DEF SubsInv, IdleHasNoJob
<1>4. todo \in [Threads -> Job \cup {NoJob}] /\ store \in Store BY DEF TypeOK
<1>5. boot = {} BY <1>2 DEF FollowsInv
<1>6. todo'[t] = job /\ \A u \in Threads \ {t} : todo'[u] = todo[u] BY <1>1, <1>4
<1>7. store'[i] = r /\ \A j \in Ids \ {i} : store'[j] = store[j] BY <1>1, <1>4 DEF Store
<1>8. ASSUME NEW j \in Ids \ raced', phase' = "run" PROVE FollowsRule(j)'
  <2>1. CASE j # i
    <3>1. FollowsRule(j) BY <1>1, <1>8, <2>1 DEF FollowsInv
    <3>2. job # NoJob => job.id = i BY DEF Op, Sub, Unsub, NoJob
    <3>3. ~Todo(t, j) /\ ~Todo(t, j)' BY <1>3, <1>6, <2>1, <3>2 DEF Todo
    <3>4. \A u \in Threads \ {t} : Todo(u, j)' <=> Todo(u, j) BY <1>6 DEF Todo
    <3>5. InStep(j) => InStep(j)' BY <1>1, <1>7, <2>1 DEF InStep
    <3> QED BY <1>1, <1>6, <1>7, <2>1, <3>1, <3>3, <3>4, <3>5, FollowsUntouched
  <2>2. CASE j = i /\ job # NoJob
    <3>1. ~Overlaps(t, i) BY <1>1, <1>8, <2>2
    <3>2. \A u \in Threads \ {t} : ~Todo(u, i)' BY <1>6, <3>1 DEF Overlaps, Todo
    <3>3. job.id = i /\ (job.op = "sub" <=> r.on) BY <2>2 DEF Op, Sub, Unsub, NoJob
    <3>4. Todo(t, i)' /\ Fits(todo[t], i)' BY <1>6, <1>7, <2>2, <3>3 DEF Todo, Fits
    <3> QED BY <2>2, <3>2, <3>4 DEF FollowsRule
  <2>3. CASE j = i /\ job = NoJob
    <3>1. i \notin raced /\ ~Overlaps(t, i) BY <1>1, <1>8, <2>3
    <3>2. store[i] = NoRule /\ ~r.on BY <2>3 DEF Op
    <3>3. store'[i].on = store[i].on /\ ~store[i].on
      <4>1. NoRule.on = FALSE BY DEF NoRule
      <4>2. r.on \in BOOLEAN BY <4>1 DEF Rule
      <4> QED BY <1>7, <3>2, <4>1, <4>2
    <3>4. \A u \in Threads : ~Todo(u, i) /\ ~Todo(u, i)'
      BY <1>3, <1>6, <2>3, <3>1 DEF Overlaps, Todo
    <3>5. InStep(i) => InStep(i)' BY <1>1, <3>3 DEF InStep
    <3>6. FollowsRule(i) BY <1>1, <1>8, <3>1 DEF FollowsInv
    <3> QED BY <1>1, <2>3, <3>3, <3>4, <3>5, <3>6, FollowsUntouched
  <2> QED BY <2>1, <2>2, <2>3
<1> QED BY <1>1, <1>2, <1>5, <1>8 DEF FollowsInv

\* The job that runs leaves what comes after it, and if nothing does, the rule in step.
LEMMA FollowsRunJob ==
  ASSUME TypeOK, FollowsInv, RunJob
  PROVE  FollowsInv'
<1> DEFINE job == Head(idle)
<1>1. idle \in Seq(Job) /\ idle # <<>> BY DEF TypeOK, RunJob
<1>2. job \in Job /\ job.id \in Ids /\ job = idle[1] /\ 1 \in DOMAIN idle
  <2>1. 1 \in DOMAIN idle /\ idle[1] \in Job BY <1>1
  <2>2. job = idle[1] BY <1>1
  <2>3. \A x \in Job : x.id \in Ids BY DEF Job
  <2> QED BY <2>1, <2>2, <2>3
<1>3. UNCHANGED <<phase, store, todo, boot, raced>> /\ idle' = Tail(idle)
  BY DEF RunJob, JobsLeft, hist
<1>4. DOMAIN idle = 1 .. Len(idle) /\ Len(idle) \in Nat
      /\ DOMAIN idle' = 1 .. Len(idle) - 1 /\ \A k \in DOMAIN idle' : idle'[k] = idle[k + 1]
  BY <1>1, <1>3, QueueEnds
<1>5. ASSUME NEW i \in Ids, FollowsRule(i), phase = "run" PROVE FollowsRule(i)'
  <2>1. \A t \in Threads : Todo(t, i)' => Fits(todo[t], i)'
    BY <1>3, <1>5 DEF FollowsRule, Todo, Fits
  <2>2. ASSUME \A t \in Threads : ~Todo(t, i)', NEW k \in DOMAIN idle', LastJob(k, i)'
        PROVE  Fits(idle[k], i)'
    <3>1. k + 1 \in DOMAIN idle /\ idle[k + 1] = idle'[k] BY <1>4
    <3>2. \A m \in DOMAIN idle : m > k + 1 => idle[m].id # i
      <4> SUFFICES ASSUME NEW m \in DOMAIN idle, m > k + 1 PROVE idle[m].id # i OBVIOUS
      <4>1. m - 1 \in DOMAIN idle' /\ m - 1 > k /\ idle'[m - 1] = idle[m] BY <1>4
      <4> QED BY <2>2, <4>1 DEF LastJob
    <3>3. LastJob(k + 1, i) BY <2>2, <3>1, <3>2 DEF LastJob
    <3>4. Fits(idle[k + 1], i) BY <1>3, <1>5, <2>2, <3>1, <3>3 DEF FollowsRule, Todo
    <3> QED BY <1>3, <3>1, <3>4 DEF Fits
  <2>3. ASSUME \A t \in Threads : ~Todo(t, i)', \A k \in DOMAIN idle' : idle'[k].id # i
        PROVE  InStep(i)' \/ i \in boot'
    <3>1. \A t \in Threads : ~Todo(t, i) BY <1>3, <2>3 DEF Todo
    <3>2. \A m \in DOMAIN idle : m > 1 => idle[m].id # i
      <4> SUFFICES ASSUME NEW m \in DOMAIN idle, m > 1 PROVE idle[m].id # i OBVIOUS
      <4>1. m - 1 \in DOMAIN idle' /\ idle'[m - 1] = idle[m] BY <1>4
      <4> QED BY <2>3, <4>1
    <3>3. CASE job.id # i
      <4>1. \A m \in DOMAIN idle : idle[m].id # i
        <5> SUFFICES ASSUME NEW m \in DOMAIN idle PROVE idle[m].id # i OBVIOUS
        <5>1. CASE m = 1 BY <5>1, <1>2, <3>3
        <5>2. CASE m > 1 BY <5>2, <3>2
        <5> QED BY <5>1, <5>2, <1>4
      <4>2. InStep(i) \/ i \in boot BY <1>5, <3>1, <4>1 DEF FollowsRule
      <4>3. subscribed' = subscribed \/ subscribed' = [subscribed EXCEPT ![job.id] = store[job.id].ver]
                         \/ subscribed' = [subscribed EXCEPT ![job.id] = 0]
        BY DEF RunJob, CurrentTriggers
      <4>4. subscribed'[i] = subscribed[i] BY <1>2, <3>3, <4>3 DEF TypeOK
      <4> QED BY <1>3, <4>2, <4>4 DEF InStep
    <3>4. CASE job.id = i
      <4>1. LastJob(1, i) BY <1>2, <3>2, <3>4 DEF LastJob
      <4>2. job.op = "sub" <=> store[i].on
        BY <1>2, <1>5, <3>1, <4>1 DEF FollowsRule, Fits
      <4>3. CASE job.op = "sub"
        <5>1. store[i] # NoRule BY <4>2, <4>3 DEF NoRule
        <5>2. subscribed' = [subscribed EXCEPT ![i] = store[i].ver]
          BY <3>4, <4>3, <5>1 DEF RunJob, CurrentTriggers
        <5>3. subscribed'[i] = store[i].ver BY <5>2 DEF TypeOK
        <5> QED BY <1>3, <4>2, <4>3, <5>3 DEF InStep
      <4>4. CASE job.op # "sub"
        <5>1. subscribed' = [subscribed EXCEPT ![i] = 0] BY <3>4, <4>4 DEF RunJob
        <5>2. subscribed'[i] = 0 BY <5>1 DEF TypeOK
        <5> QED BY <1>3, <4>2, <4>4, <5>2 DEF InStep
      <4> QED BY <4>3, <4>4
    <3> QED BY <3>3, <3>4
  <2> QED BY <2>1, <2>2, <2>3 DEF FollowsRule
<1>6. phase = "run" BY DEF RunJob
<1> QED BY <1>3, <1>5, <1>6 DEF FollowsInv

\* A job at the end of the queue is the last one of its rule.
LEMMA FollowsAppend ==
  ASSUME TypeOK, NEW i \in Ids, FollowsRule(i), NEW job \in Job, idle' = Append(idle, job),
         UNCHANGED <<store, subscribed>>, \A j \in boot : j # job.id => j \in boot',
         \A t \in Threads : Todo(t, i)' => Todo(t, i) /\ todo'[t] = todo[t],
         \A t \in Threads : Todo(t, i) => Todo(t, i)' \/ job.id = i,
         job.id = i => Fits(job, i)
  PROVE  FollowsRule(i)'
<1>1. idle \in Seq(Job) BY DEF TypeOK
<1>2. /\ DOMAIN idle = 1 .. Len(idle) /\ Len(idle) \in Nat
      /\ DOMAIN idle' = 1 .. Len(idle) + 1 /\ idle'[Len(idle) + 1] = job
      /\ \A k \in DOMAIN idle : idle'[k] = idle[k]
  BY <1>1, QueueEnds
<1>3. \A t \in Threads : Todo(t, i)' => Fits(todo[t], i)' BY DEF FollowsRule, Fits
<1>4. ASSUME job.id = i PROVE FollowsRule(i)'
  <2>1. \A k \in DOMAIN idle' : LastJob(k, i)' => k = Len(idle) + 1
    BY <1>2, <1>4 DEF LastJob
  <2>2. ~\A k \in DOMAIN idle' : idle'[k].id # i BY <1>2, <1>4
  <2>3. \A k \in DOMAIN idle' : LastJob(k, i)' => Fits(idle[k], i)'
    BY <1>2, <1>4, <2>1 DEF Fits
  <2> QED BY <1>3, <2>2, <2>3 DEF FollowsRule
<1>5. ASSUME job.id # i PROVE FollowsRule(i)'
  <2>1. \A k \in DOMAIN idle' : LastJob(k, i)' => k \in DOMAIN idle /\ LastJob(k, i)
    BY <1>2, <1>5 DEF LastJob
  <2>2. (\A k \in DOMAIN idle' : idle'[k].id # i) => \A k \in DOMAIN idle : idle[k].id # i
    BY <1>2
  <2>3. InStep(i) => InStep(i)' BY DEF InStep
  <2>4. \A t \in Threads : Todo(t, i) => Todo(t, i)' BY <1>5
  <2>5. ASSUME \A t \in Threads : ~Todo(t, i)', NEW k \in DOMAIN idle', LastJob(k, i)'
        PROVE  Fits(idle[k], i)'
    <3>1. Fits(idle[k], i) BY <2>1, <2>4, <2>5 DEF FollowsRule
    <3> QED BY <1>2, <2>1, <2>5, <3>1 DEF Fits
  <2> QED BY <1>3, <1>5, <2>2, <2>3, <2>4, <2>5 DEF FollowsRule
<1> QED BY <1>4, <1>5

\* Any step keeps FollowsInv.
LEMMA FollowsStep ==
  ASSUME TypeOK, SubsInv, FollowsInv, [Next]_vars
  PROVE  FollowsInv'
<1>1. CASE Operation BY <1>1, FollowsOperation
<1>2. CASE RunJob BY <1>2, FollowsRunJob
<1>3. ASSUME UNCHANGED <<phase, store, todo, idle, boot, subscribed, raced>> PROVE FollowsInv'
  BY <1>3 DEF FollowsInv, FollowsRule, Todo, Fits, LastJob, InStep
<1>4. ASSUME NEW t \in Threads, SaveDone(t) PROVE FollowsInv'
  BY <1>3, <1>4 DEF SaveDone
<1>5. ASSUME NEW t \in Threads, Queue(t) PROVE FollowsInv'
  <2>1. /\ UNCHANGED <<phase, store, subscribed, boot, raced>>
        /\ todo' = [todo EXCEPT ![t] = NoJob]
        /\ idle' = IF todo[t] = NoJob THEN idle ELSE Append(idle, todo[t])
        /\ pc[t] = "queueing"
    BY <1>5 DEF Queue, hist
  <2>2. todo'[t] = NoJob /\ \A u \in Threads \ {t} : todo'[u] = todo[u] BY <2>1 DEF TypeOK
  <2>3. \A i \in Ids, u \in Threads : Todo(u, i)' => Todo(u, i) /\ todo'[u] = todo[u]
    BY <2>2 DEF Todo
  <2>4. \A i \in Ids, u \in Threads : Todo(u, i) /\ ~Todo(u, i)' => u = t
    BY <2>2 DEF Todo
  <2>5. ASSUME NEW i \in Ids, FollowsRule(i) PROVE FollowsRule(i)'
    <3>1. CASE todo[t] = NoJob
      <4>1. \A u \in Threads : Todo(u, i) => Todo(u, i)' BY <2>4, <3>1 DEF Todo
      <4>2. InStep(i) => InStep(i)' BY <2>1 DEF InStep
      <4>3. idle' = idle /\ store'[i].on = store[i].on /\ (i \in boot => i \in boot')
        BY <2>1, <3>1
      <4> QED BY <2>3, <2>5, <4>1, <4>2, <4>3, FollowsUntouched
    <3>2. CASE todo[t] # NoJob
      <4>1. todo[t] \in Job BY <3>2 DEF TypeOK
      <4>2. \A u \in Threads : Todo(u, i) => Todo(u, i)' \/ todo[t].id = i
        BY <2>4 DEF Todo
      <4>3. todo[t].id = i => Fits(todo[t], i) BY <2>5, <3>2 DEF FollowsRule, Todo
      <4>4. idle' = Append(idle, todo[t]) /\ UNCHANGED <<store, subscribed, boot>> BY <2>1, <3>2
      <4>5. \A j \in boot : j # todo[t].id => j \in boot' BY <4>4
      <4> HIDE DEF FollowsRule
      <4> QED BY <2>3, <2>5, <4>1, <4>2, <4>3, <4>4, <4>5, FollowsAppend
    <3> QED BY <3>1, <3>2
  <2>6. phase = "off" => idle' = <<>> /\ \A u \in Threads : todo'[u] = NoJob
    BY <2>1, <2>2 DEF FollowsInv
  <2> QED BY <2>1, <2>5, <2>6 DEF FollowsInv
<1>6. CASE RuleEngine_Init
  <2>1. /\ phase = "off" /\ phase' = "boot" /\ UNCHANGED <<todo, idle, subscribed>>
        /\ boot' = {i \in Ids : store'[i] # NoRule /\ store'[i].on}
    BY <1>6 DEF RuleEngine_Init
  <2>2. idle' = <<>> /\ \A t \in Threads : todo'[t] = NoJob BY <2>1 DEF FollowsInv
  <2>3. \A i \in Ids : subscribed'[i] = 0 BY <2>1 DEF SubsInv, OffHasNoSubs, NoSubs
  <2>4. ASSUME NEW i \in Ids PROVE FollowsRule(i)'
    <3>1. \A t \in Threads : ~Todo(t, i)' BY <2>2 DEF Todo
    <3>2. DOMAIN idle' = {} BY <2>2
    <3>3. InStep(i)' \/ i \in boot' BY <2>1, <2>3 DEF InStep, NoRule
    <3> QED BY <3>1, <3>2, <3>3 DEF FollowsRule
  <2> QED BY <2>1, <2>4 DEF FollowsInv
<1>7. CASE ScheduleLoaded
  <2>1. phase = "boot" /\ UNCHANGED <<store, todo, subscribed, raced>>
    BY <1>7 DEF ScheduleLoaded, hist
  <2>2. CASE \E i \in boot : idle' = Append(idle, Sub(i)) /\ boot' = boot \ {i} /\ phase' = phase
    <3> PICK i \in boot : idle' = Append(idle, Sub(i)) /\ boot' = boot \ {i} /\ phase' = phase
      BY <2>2
    <3>1. Sub(i) \in Job /\ Sub(i).id = i /\ Fits(Sub(i), i)
      BY DEF TypeOK, Job, Sub, Fits, FollowsInv
    <3>2. ASSUME NEW j \in Ids, FollowsRule(j) PROVE FollowsRule(j)'
      <4>1. \A t \in Threads : (Todo(t, j)' <=> Todo(t, j)) /\ todo'[t] = todo[t]
        BY <2>1 DEF Todo
      <4> QED BY <2>1, <3>1, <3>2, <4>1, FollowsAppend
    <3> QED BY <2>1, <3>2 DEF FollowsInv
  <2>3. CASE boot = {} /\ phase' = "run" /\ UNCHANGED <<idle, boot>>
    BY <2>1, <2>3 DEF FollowsInv, FollowsRule, Todo, Fits, LastJob, InStep
  <2> QED BY <1>7, <2>2, <2>3 DEF ScheduleLoaded
<1>8. CASE RuleEngine_Cleanup
  BY <1>8 DEF RuleEngine_Cleanup, FollowsInv
<1>9. CASE Exit \/ Crash
  <2>1. Gone BY <1>9 DEF Exit, Crash
  <2>2. phase' = "off" /\ idle' = <<>> /\ boot' = {} /\ \A t \in Threads : todo'[t] = NoJob
    BY <2>1 DEF Gone
  <2> QED BY <2>2 DEF FollowsInv
<1>10. CASE UNCHANGED vars BY <1>3, <1>10 DEF vars, volatile, hist
<1> QED BY <1>1, <1>2, <1>4, <1>5, <1>6, <1>7, <1>8, <1>9, <1>10, NextSplit

\* With nothing queued and no operation under way exactly the enabled rules are
\* subscribed, with their current triggers, unless the two threads raced to change
\* the rule (rule_engine.c:544, 567, 600).
THEOREM FollowsHolds == Spec => []SubsFollowUnlessRaced
<1>1. Init => FollowsInv BY DEF Init, FollowsInv
<1>2. TypeOK /\ SubsInv /\ FollowsInv /\ [Next]_vars => FollowsInv' BY FollowsStep
<1>3. SubsInv /\ FollowsInv => SubsFollowUnlessRaced
  <2> SUFFICES ASSUME SubsInv, FollowsInv, Settled, NEW i \in Ids \ raced
               PROVE  InStep(i)
    BY DEF SubsFollowUnlessRaced
  <2>1. phase = "run" /\ idle = <<>> /\ \A t \in Threads : todo[t] = NoJob
    BY DEF Settled, SubsInv, IdleHasNoJob
  <2>2. FollowsRule(i) /\ boot = {} BY <2>1 DEF FollowsInv
  <2>3. (\A t \in Threads : ~Todo(t, i)) /\ \A k \in DOMAIN idle : idle[k].id # i
    BY <2>1 DEF Todo
  <2> QED BY <2>2, <2>3 DEF FollowsRule
<1> QED BY <1>1, <1>2, <1>3, TypeCorrect, SubsInvariant, PTL DEF Spec

(***************************************************************************)
(* The file.                                                               *)
(***************************************************************************)

\* One save at a time; meanwhile the file is truncated; between saves the
\* acknowledged rules are the ones in memory; after Cleanup nothing is being
\* saved unless an operation came late.
FileInv ==
  /\ \A t, u \in Threads : pc[t] = "saving" /\ pc[u] = "saving" => t = u
  /\ phase \in {"boot", "run"} /\ LockFree => acked = store
  /\ phase \in {"boot", "run"} /\ ~LockFree => file = Truncated
  /\ phase = "closing" /\ ~late => LockFree /\ (~unsaved => file.rules = acked)
  /\ phase = "off" => LockFree
  /\ FileMatchesStore
  /\ AckedSurvives

\* Any step keeps FileInv.
LEMMA FileStep ==
  ASSUME TypeOK, FileInv, [Next]_vars
  PROVE  FileInv'
<1>1. CASE Operation
  <2> PICK t \in Threads, i \in Ids, r \in Rule \cup {NoRule}, job \in Job \cup {NoJob} :
             Op(t, i, r, job) BY <1>1, OpShape
  <2>1. /\ pc' = [pc EXCEPT ![t] = "saving"] /\ file' = Truncated
        /\ UNCHANGED <<phase, unsaved, acked, crashed>>
        /\ late' = (late \/ phase = "closing")
    BY DEF Op, Begin
  <2>2. LockFree /\ phase \in {"run", "closing"} BY DEF Op, CanStart
  <2>3. ~LockFree' BY <2>1 DEF LockFree, TypeOK
  <2>4. \A u, v \in Threads : pc'[u] = "saving" /\ pc'[v] = "saving" => u = v
    BY <2>1, <2>2 DEF LockFree, TypeOK
  <2>5. phase' # "off" BY <2>1, <2>2
  <2>6. FileMatchesStore' /\ AckedSurvives' BY <2>3, <2>5 DEF FileMatchesStore, AckedSurvives
  <2>7. phase' = "closing" => late' BY <2>1
  <2> QED BY <2>1, <2>3, <2>4, <2>5, <2>6, <2>7 DEF FileInv
<1>2. ASSUME NEW t \in Threads, SaveDone(t) PROVE FileInv'
  <2>1. /\ pc' = [pc EXCEPT ![t] = "queueing"]
        /\ UNCHANGED <<phase, store, crashed, late>>
    BY <1>2 DEF SaveDone
  <2>2. pc[t] = "saving" BY <1>2 DEF SaveDone
  <2>3. ~LockFree BY <2>2 DEF LockFree
  <2>4. LockFree' BY <2>1, <2>2 DEF LockFree, FileInv, TypeOK
  <2>5. phase # "off" /\ (phase = "closing" => late) BY <2>3 DEF FileInv
  <2>6. phase \in {"boot", "run"} => acked' = store
    <3>1. phase # "closing" => acked' = [i \in Ids |-> store[i]] BY <1>2 DEF SaveDone
    <3>2. store = [i \in Ids |-> store[i]] BY DEF TypeOK, Store
    <3> QED BY <3>1, <3>2
  <2>7. ~unsaved' => file'.rules = store
    <3>1. ~unsaved' => file' = Holding(store) BY <1>2, Zenon DEF SaveDone, Written
    <3> QED BY <3>1 DEF Holding
  <2>8. FileMatchesStore' /\ AckedSurvives'
    BY <2>1, <2>5, <2>7 DEF FileMatchesStore, AckedSurvives
  <2>9. \A u, v \in Threads : pc'[u] = "saving" /\ pc'[v] = "saving" => u = v
    BY <2>4 DEF LockFree
  <2> QED BY <2>1, <2>4, <2>5, <2>6, <2>8, <2>9 DEF FileInv
<1>3. ASSUME NEW t \in Threads, Queue(t) PROVE FileInv'
  <2>1. pc' = [pc EXCEPT ![t] = "idle"] /\ pc[t] = "queueing"
        /\ UNCHANGED <<phase, store, file, crashed, unsaved, acked, late>>
    BY <1>3 DEF Queue, hist
  <2>2. \A u \in Threads : pc'[u] = "saving" <=> pc[u] = "saving" BY <2>1 DEF TypeOK
  <2>3. LockFree' <=> LockFree BY <2>2 DEF LockFree
  <2> QED BY <2>1, <2>2, <2>3 DEF FileInv, FileMatchesStore, AckedSurvives
<1>4. ASSUME UNCHANGED <<phase, store, file, pc, hist>> PROVE FileInv'
  BY <1>4 DEF FileInv, FileMatchesStore, AckedSurvives, LockFree, hist
<1>5. CASE RunJob BY <1>4, <1>5 DEF RunJob
<1>6. CASE UNCHANGED vars BY <1>4, <1>6 DEF vars, volatile
<1>7. CASE RuleEngine_Init
  <2>1. phase = "off" /\ phase' = "boot" /\ store' = file.rules /\ acked' = store'
        /\ UNCHANGED <<file, pc>>
    BY <1>7 DEF RuleEngine_Init
  <2>2. LockFree' BY <2>1 DEF FileInv, LockFree
  <2> QED BY <2>1, <2>2 DEF FileInv, FileMatchesStore, AckedSurvives
<1>8. CASE ScheduleLoaded
  <2>1. phase = "boot" /\ phase' \in {"boot", "run"}
        /\ UNCHANGED <<store, file, pc, crashed, unsaved, acked, late>>
    BY <1>8 DEF ScheduleLoaded, hist
  <2>2. LockFree' <=> LockFree BY <2>1 DEF LockFree
  <2> QED BY <2>1, <2>2 DEF FileInv, FileMatchesStore, AckedSurvives
<1>9. CASE RuleEngine_Cleanup
  <2>1. phase = "run" /\ phase' = "closing" /\ LockFree
        /\ UNCHANGED <<file, pc, crashed, unsaved, acked, late>>
    BY <1>9 DEF RuleEngine_Cleanup, hist
  <2>2. LockFree' BY <2>1 DEF LockFree
  <2>3. ~unsaved => file.rules = acked BY <2>1 DEF FileInv, FileMatchesStore
  <2> QED BY <2>1, <2>2, <2>3 DEF FileInv, FileMatchesStore, AckedSurvives
<1>10. ASSUME Gone, phase # "off",
              ~late /\ ~unsaved => file.rules = acked \/ (crashed' /\ file = Truncated)
       PROVE  FileInv'
  <2>1. phase' = "off" /\ UNCHANGED <<file, unsaved, acked, late>>
    BY <1>10 DEF Gone
  <2>2. \A t \in Threads : pc'[t] = "idle" BY <1>10 DEF Gone
  <2>3. LockFree' BY <2>2 DEF LockFree
  <2>4. \A u, v \in Threads : pc'[u] = "saving" /\ pc'[v] = "saving" => u = v BY <2>2
  <2>5. AckedSurvives' BY <1>10, <2>1 DEF AckedSurvives
  <2>6. FileMatchesStore' BY <2>1 DEF FileMatchesStore
  <2> QED BY <2>1, <2>3, <2>4, <2>5, <2>6 DEF FileInv
<1>11. CASE Exit
  <2>1. ~late /\ ~unsaved => file.rules = acked BY <1>11 DEF Exit, FileInv
  <2> QED BY <1>10, <1>11, <2>1 DEF Exit
<1>12. CASE Crash
  <2>1. phase \in {"boot", "run", "closing"} BY <1>12 DEF Crash, TypeOK
  <2>2. ~late /\ ~unsaved => file.rules = acked \/ file = Truncated
    BY <2>1 DEF FileInv, FileMatchesStore
  <2> QED BY <1>10, <1>12, <2>2 DEF Crash
<1> QED BY <1>1, <1>2, <1>3, <1>5, <1>6, <1>7, <1>8, <1>9, <1>11, <1>12, NextSplit

\* The file invariants hold with the strengthening.
LEMMA FileInvariant == Spec => []FileInv
<1>1. ASSUME Init PROVE FileInv
  <2>1. phase = "off" /\ file.rules = acked BY <1>1 DEF Init, Missing
  <2>2. \A t \in Threads : pc[t] = "idle" BY <1>1 DEF Init
  <2>3. LockFree BY <2>2 DEF LockFree
  <2> QED BY <2>1, <2>2, <2>3 DEF FileInv, FileMatchesStore, AckedSurvives
<1>2. TypeOK /\ FileInv /\ [Next]_vars => FileInv' BY FileStep
<1> QED BY <1>1, <1>2, TypeCorrect, PTL DEF Spec

\* Between saves the file loads back to the rules in memory, unless the last save
\* failed (rule_engine.c:84, 352).
THEOREM FileMatches == Spec => []FileMatchesStore
<1>1. FileInv => FileMatchesStore BY DEF FileInv
<1> QED BY <1>1, FileInvariant, PTL

\* Acknowledged operations survive the process, except for a crash inside a save,
\* a failed write, or an operation accepted after RuleEngine_Cleanup.
THEOREM AckedHolds == Spec => []AckedSurvives
<1>1. FileInv => AckedSurvives BY DEF FileInv
<1> QED BY <1>1, FileInvariant, PTL

\* No subscription is orphaned or stale without a job on its way that mends it.
THEOREM SubsHold == Spec => []SubsRight
<1>1. NoOrphanSubs /\ NoStaleSubs => SubsRight BY DEF SubsRight
<1> QED BY <1>1, NoOrphans, NoStale, PTL

\* rules.json is right while the process runs and after it has ended.
THEOREM FileHolds == Spec => []FileRight
<1>1. FileMatchesStore /\ AckedSurvives => FileRight BY DEF FileRight
<1> QED BY <1>1, FileMatches, AckedHolds, PTL

(***************************************************************************)
(* The three loops: over the table to unsubscribe, over a rule's effects   *)
(* and over the table to fire.  Each is a recursive function; its facts    *)
(* hold before the first turn and survive a turn.                          *)
(***************************************************************************)

\* Induction over the turns of a loop.
LEMMA EveryTurn ==
  ASSUME NEW n \in Nat, NEW G \in SUBSET (0 .. n), 0 \in G,
         \A k \in 1 .. n : k - 1 \in G => k \in G
  PROVE  \A k \in 0 .. n : k \in G
<1> DEFINE T == (0 .. n) \ G
<1>1. CASE T = {} BY <1>1
<1>2. CASE T # {}
  <2>1. T \in SUBSET Nat OBVIOUS
  <2>2. PICK m \in T : \A y \in T : <<y, m>> \notin OpToRel(<, Nat)
    <3> HIDE DEF T
    <3> QED BY <1>2, <2>1, NatLessThanWellFounded, WFMin
  <2>3. m \in 0 .. n /\ m # 0 /\ m \notin G OBVIOUS
  <2>4. m - 1 \in Nat /\ m - 1 < m /\ m - 1 \in 0 .. n /\ m \in 1 .. n /\ m \in Nat BY <2>3
  <2>5. m - 1 \notin T
    <3>1. SUFFICES ASSUME m - 1 \in T PROVE FALSE OBVIOUS
    <3>2. <<m - 1, m>> \notin OpToRel(<, Nat) BY <2>2, <3>1
    <3>3. <<m - 1, m>> \in OpToRel(<, Nat)
      <4> DEFINE b == m - 1
      <4>1. b \in Nat /\ m \in Nat /\ b < m BY <2>4
      <4> HIDE DEF b
      <4>2. <<b, m>> \in OpToRel(<, Nat) BY <4>1, Zenon DEF OpToRel
      <4> QED BY <4>2 DEF b
    <3> QED BY <3>2, <3>3
  <2>6. m - 1 \in G BY <2>4, <2>5
  <2> QED BY <2>3, <2>4, <2>6
<1> QED BY <1>1, <1>2

\* L: the loop of Without, turn by turn.
Sweeps(t, r, n, L) == L = [k \in 0 .. n |-> IF k = 0 THEN [i |-> 1, t |-> t] ELSE SweepOne(L[k - 1], r)]

LEMMA SweepsExist ==
  ASSUME NEW t, NEW r, NEW n \in Nat
  PROVE  \E L : Sweeps(t, r, n, L)
<1> DEFINE G == {m \in 0 .. n : \E L : Sweeps(t, r, m, L)}
<1>1. 0 \in G
  <2> DEFINE L == [k \in 0 .. 0 |-> [i |-> 1, t |-> t]]
  <2>1. \A k \in 0 .. 0 : k = 0 OBVIOUS
  <2>2. Sweeps(t, r, 0, L) BY <2>1 DEF Sweeps
  <2> QED BY <2>2
<1>2. ASSUME NEW m \in 1 .. n, m - 1 \in G PROVE m \in G
  <2> DEFINE b == m - 1
  <2>1. b \in Nat /\ m \in Nat /\ m # 0 /\ m \in 0 .. n OBVIOUS
  <2>2. PICK L : Sweeps(t, r, b, L) BY <1>2
  <2> DEFINE v == SweepOne(L[b], r)
             M == [k \in 0 .. m |-> IF k = m THEN v ELSE L[k]]
  <2>3. /\ \A k \in 0 .. m : k = m \/ k \in 0 .. b
        /\ \A k \in 0 .. b : k # m /\ k \in 0 .. m /\ (k # 0 => k - 1 \in 0 .. b)
        /\ b \in 0 .. b /\ m \in 0 .. m
    BY <2>1
  <2>4. \A k \in 0 .. b : L[k] = IF k = 0 THEN [i |-> 1, t |-> t] ELSE SweepOne(L[k - 1], r)
    BY <2>2, Zenon DEF Sweeps
  <2>5. M[b] = L[b] /\ \A k \in 0 .. b : M[k] = L[k] BY <2>3
  <2>6. \A k \in 0 .. m : M[k] = IF k = 0 THEN [i |-> 1, t |-> t] ELSE SweepOne(M[k - 1], r)
    <3> SUFFICES ASSUME NEW k \in 0 .. m
                 PROVE  M[k] = IF k = 0 THEN [i |-> 1, t |-> t] ELSE SweepOne(M[k - 1], r)
      OBVIOUS
    <3>1. CASE k = m
      <4>1. M[k] = v /\ k - 1 = b BY <3>1
      <4> HIDE DEF M
      <4> QED BY <2>1, <2>5, <3>1, <4>1
    <3>2. CASE k # m
      <4>1. k \in 0 .. b BY <2>3, <3>2
      <4>2. M[k] = L[k] /\ (k # 0 => M[k - 1] = L[k - 1]) BY <2>3, <2>5, <4>1
      <4> HIDE DEF M
      <4> QED BY <2>4, <4>1, <4>2
    <3> QED BY <3>1, <3>2
  <2>7. M = [k \in 0 .. m |-> M[k]] OBVIOUS
  <2>8. Sweeps(t, r, m, M)
    <3> HIDE DEF M
    <3> QED BY <2>6, <2>7 DEF Sweeps
  <2> QED BY <2>1, <2>8
<1>3. G \in SUBSET (0 .. n) /\ n \in 0 .. n OBVIOUS
<1> HIDE DEF G
<1>4. n \in G BY <1>1, <1>2, <1>3, EveryTurn
<1> QED BY <1>4 DEF G

LEMMA WithoutFacts ==
  ASSUME NEW t, NEW r, Len(t) \in Nat
  PROVE  \E L : Sweeps(t, r, Len(t), L) /\ Without(t, r) = L[Len(t)].t
<1> DEFINE L == CHOOSE f : Sweeps(t, r, Len(t), f)
<1>1. Sweeps(t, r, Len(t), L) BY SweepsExist
<1>2. Without(t, r) = L[Len(t)].t BY DEF Without, Sweeps
<1> QED BY <1>1, <1>2

\* L: the loop of StartRule.
Starts(w, r, n, L) == L = [k \in 0 .. n |-> IF k = 0 THEN w ELSE StartEffect(L[k - 1], r, Effects[r][k])]

LEMMA StartsExist ==
  ASSUME NEW w, NEW r, NEW n \in Nat
  PROVE  \E L : Starts(w, r, n, L)
<1> DEFINE G == {m \in 0 .. n : \E L : Starts(w, r, m, L)}
<1>1. 0 \in G
  <2> DEFINE L == [k \in 0 .. 0 |-> w]
  <2>1. \A k \in 0 .. 0 : k = 0 OBVIOUS
  <2>2. Starts(w, r, 0, L) BY <2>1 DEF Starts
  <2> QED BY <2>2
<1>2. ASSUME NEW m \in 1 .. n, m - 1 \in G PROVE m \in G
  <2> DEFINE b == m - 1
  <2>1. b \in Nat /\ m \in Nat /\ m # 0 /\ m \in 0 .. n OBVIOUS
  <2>2. PICK L : Starts(w, r, b, L) BY <1>2
  <2> DEFINE v == StartEffect(L[b], r, Effects[r][m])
             M == [k \in 0 .. m |-> IF k = m THEN v ELSE L[k]]
  <2>3. /\ \A k \in 0 .. m : k = m \/ k \in 0 .. b
        /\ \A k \in 0 .. b : k # m /\ k \in 0 .. m /\ (k # 0 => k - 1 \in 0 .. b)
        /\ b \in 0 .. b /\ m \in 0 .. m
    BY <2>1
  <2>4. \A k \in 0 .. b : L[k] = IF k = 0 THEN w ELSE StartEffect(L[k - 1], r, Effects[r][k])
    BY <2>2, Zenon DEF Starts
  <2>5. M[b] = L[b] /\ \A k \in 0 .. b : M[k] = L[k] BY <2>3
  <2>6. \A k \in 0 .. m : M[k] = IF k = 0 THEN w ELSE StartEffect(M[k - 1], r, Effects[r][k])
    <3> SUFFICES ASSUME NEW k \in 0 .. m
                 PROVE  M[k] = IF k = 0 THEN w ELSE StartEffect(M[k - 1], r, Effects[r][k])
      OBVIOUS
    <3>1. CASE k = m
      <4>1. M[k] = v /\ k - 1 = b BY <3>1
      <4> HIDE DEF M
      <4> QED BY <2>1, <2>5, <3>1, <4>1
    <3>2. CASE k # m
      <4>1. k \in 0 .. b BY <2>3, <3>2
      <4>2. M[k] = L[k] /\ (k # 0 => M[k - 1] = L[k - 1]) BY <2>3, <2>5, <4>1
      <4> HIDE DEF M
      <4> QED BY <2>4, <4>1, <4>2
    <3> QED BY <3>1, <3>2
  <2>7. M = [k \in 0 .. m |-> M[k]] OBVIOUS
  <2>8. Starts(w, r, m, M)
    <3> HIDE DEF M
    <3> QED BY <2>6, <2>7 DEF Starts
  <2> QED BY <2>1, <2>8
<1>3. G \in SUBSET (0 .. n) /\ n \in 0 .. n OBVIOUS
<1> HIDE DEF G
<1>4. n \in G BY <1>1, <1>2, <1>3, EveryTurn
<1> QED BY <1>4 DEF G

LEMMA StartFacts ==
  ASSUME NEW w, NEW r, Len(Effects[r]) \in Nat
  PROVE  \E L : Starts(w, r, Len(Effects[r]), L) /\ StartRule(w, r) = L[Len(Effects[r])]
<1> DEFINE L == CHOOSE f : Starts(w, r, Len(Effects[r]), f)
<1>1. Starts(w, r, Len(Effects[r]), L) BY StartsExist
<1>2. StartRule(w, r) = L[Len(Effects[r])] BY DEF StartRule, Starts
<1> QED BY <1>1, <1>2

\* L: the loop of Serve.
Serves(w, undo, hit, n, L) == L = [k \in 0 .. n |-> IF k = 0 THEN w ELSE ServeOne(L[k - 1], k, undo, hit)]

LEMMA ServesExist ==
  ASSUME NEW w, NEW undo, NEW hit, NEW n \in Nat
  PROVE  \E L : Serves(w, undo, hit, n, L)
<1> DEFINE G == {m \in 0 .. n : \E L : Serves(w, undo, hit, m, L)}
<1>1. 0 \in G
  <2> DEFINE L == [k \in 0 .. 0 |-> w]
  <2>1. \A k \in 0 .. 0 : k = 0 OBVIOUS
  <2>2. Serves(w, undo, hit, 0, L) BY <2>1 DEF Serves
  <2> QED BY <2>2
<1>2. ASSUME NEW m \in 1 .. n, m - 1 \in G PROVE m \in G
  <2> DEFINE b == m - 1
  <2>1. b \in Nat /\ m \in Nat /\ m # 0 /\ m \in 0 .. n OBVIOUS
  <2>2. PICK L : Serves(w, undo, hit, b, L) BY <1>2
  <2> DEFINE v == ServeOne(L[b], m, undo, hit)
             M == [k \in 0 .. m |-> IF k = m THEN v ELSE L[k]]
  <2>3. /\ \A k \in 0 .. m : k = m \/ k \in 0 .. b
        /\ \A k \in 0 .. b : k # m /\ k \in 0 .. m /\ (k # 0 => k - 1 \in 0 .. b)
        /\ b \in 0 .. b /\ m \in 0 .. m
    BY <2>1
  <2>4. \A k \in 0 .. b : L[k] = IF k = 0 THEN w ELSE ServeOne(L[k - 1], k, undo, hit)
    BY <2>2, Zenon DEF Serves
  <2>5. M[b] = L[b] /\ \A k \in 0 .. b : M[k] = L[k] BY <2>3
  <2>6. \A k \in 0 .. m : M[k] = IF k = 0 THEN w ELSE ServeOne(M[k - 1], k, undo, hit)
    <3> SUFFICES ASSUME NEW k \in 0 .. m
                 PROVE  M[k] = IF k = 0 THEN w ELSE ServeOne(M[k - 1], k, undo, hit)
      OBVIOUS
    <3>1. CASE k = m
      <4>1. M[k] = v /\ k - 1 = b BY <3>1
      <4> HIDE DEF M
      <4> QED BY <2>1, <2>5, <3>1, <4>1
    <3>2. CASE k # m
      <4>1. k \in 0 .. b BY <2>3, <3>2
      <4>2. M[k] = L[k] /\ (k # 0 => M[k - 1] = L[k - 1]) BY <2>3, <2>5, <4>1
      <4> HIDE DEF M
      <4> QED BY <2>4, <4>1, <4>2
    <3> QED BY <3>1, <3>2
  <2>7. M = [k \in 0 .. m |-> M[k]] OBVIOUS
  <2>8. Serves(w, undo, hit, m, M)
    <3> HIDE DEF M
    <3> QED BY <2>6, <2>7 DEF Serves
  <2> QED BY <2>1, <2>8
<1>3. G \in SUBSET (0 .. n) /\ n \in 0 .. n OBVIOUS
<1> HIDE DEF G
<1>4. n \in G BY <1>1, <1>2, <1>3, EveryTurn
<1> QED BY <1>4 DEF G

LEMMA ServeFacts ==
  ASSUME NEW w, NEW undo, NEW hit, Len(subs) \in Nat
  PROVE  \E L : Serves(w, undo, hit, Len(subs), L) /\ Serve(w, undo, hit) = L[Len(subs)]
<1> DEFINE L == CHOOSE f : Serves(w, undo, hit, Len(subs), f)
<1>1. Serves(w, undo, hit, Len(subs), L) BY ServesExist
<1>2. Serve(w, undo, hit) = L[Len(subs)] BY DEF Serve, Serves
<1> QED BY <1>1, <1>2

(***************************************************************************)
(* Unsubscribing.                                                          *)
(***************************************************************************)

Different(u) == \A i, j \in DOMAIN u : u[i] = u[j] => i = j

\* The loop of Without after k turns: the entries before i stay, nothing of another rule is
\* lost, no entry is there twice, and none has moved up.
Swept(S, t, r, k, st) ==
  /\ st \in [i : Nat \ {0}, t : Seq(S)]
  /\ st.i <= Len(st.t) => k + Len(st.t) < Len(t) + st.i
  /\ Len(st.t) <= Len(t) /\ Different(st.t)
  /\ \A j \in DOMAIN st.t : j < st.i => st.t[j].rule # r
  /\ \A j \in DOMAIN st.t : \E i \in DOMAIN t : t[i] = st.t[j] /\ i >= j
  /\ \A i \in DOMAIN t : t[i].rule # r => \E j \in DOMAIN st.t : st.t[j] = t[i]

\* The last entry takes the place of entry i.
Moved(s, i, u) == u = Front([s EXCEPT ![i] = Last(s)])
MovedTo(S, s, i, u) ==
  /\ u \in Seq(S) /\ Len(u) = Len(s) - 1 /\ Len(s) \in Nat \ {0} /\ Len(s) \in DOMAIN s
  /\ DOMAIN u = 1 .. Len(s) - 1
  /\ \A j \in 1 .. Len(s) - 1 : u[j] = IF j = i THEN s[Len(s)] ELSE s[j]

LEMMA LastMoved ==
  ASSUME NEW S, NEW s \in Seq(S), NEW i \in DOMAIN s,
         NEW u, Moved(s, i, u)
  PROVE  MovedTo(S, s, i, u)
<1>1. DOMAIN s = 1 .. Len(s) /\ Len(s) \in Nat \ {0} /\ Len(s) \in DOMAIN s OBVIOUS
<1> DEFINE m == [s EXCEPT ![i] = s[Len(s)]]
<1>2. /\ m \in Seq(S) /\ Len(m) = Len(s)
      /\ \A j \in 1 .. Len(s) : m[j] = IF j = i THEN s[Len(s)] ELSE s[j]
  BY <1>1
<1>3. u = SubSeq(m, 1, Len(m) - 1) BY DEF Moved, Front, Last
<1> HIDE DEF m
<1>4. /\ u \in Seq(S) /\ Len(u) = Len(m) - 1
      /\ \A j \in 1 .. Len(m) - 1 : u[j] = m[j]
  <2> DEFINE n == Len(m) - 1
  <2>1. n \in Nat /\ 1 \in Int /\ \A j \in 1 .. n : m[j] \in S BY <1>1, <1>2
  <2>2. u = SubSeq(m, 1, n) BY <1>3
  <2> HIDE DEF n
  <2>3. /\ SubSeq(m, 1, n) \in Seq(S)
        /\ Len(SubSeq(m, 1, n)) = IF 1 <= n THEN n - 1 + 1 ELSE 0
        /\ \A j \in 1 .. n - 1 + 1 : SubSeq(m, 1, n)[j] = m[1 + j - 1]
    BY <2>1, SubSeqProperties
  <2>5. n - 1 + 1 = n /\ (IF 1 <= n THEN n - 1 + 1 ELSE 0) = n /\ \A j \in 1 .. n : 1 + j - 1 = j
    BY <2>1
  <2>4. /\ u \in Seq(S) /\ Len(u) = n /\ \A j \in 1 .. n : u[j] = m[j]
    BY <2>2, <2>3, <2>5, Zenon
  <2> QED BY <2>4 DEF n
<1>5. DOMAIN u = 1 .. Len(u) BY <1>4
<1>6. Len(m) - 1 = Len(s) - 1 BY <1>2
<1>7. \A j \in 1 .. Len(s) - 1 : u[j] = IF j = i THEN s[Len(s)] ELSE s[j]
  <2>1. ASSUME NEW j \in 1 .. Len(s) - 1 PROVE j \in 1 .. Len(s) /\ j \in 1 .. Len(m) - 1
    BY <1>1, <1>2
  <2> QED BY <1>2, <1>4, <2>1
<1> QED BY <1>1, <1>4, <1>5, <1>6, <1>7 DEF MovedTo

\* A turn of the loop.
LEMMA SweptOne ==
  ASSUME NEW S, NEW t \in Seq(S), NEW r, NEW k \in Nat, NEW st, Swept(S, t, r, k, st)
  PROVE  Swept(S, t, r, k + 1, SweepOne(st, r))
<1>1. /\ st \in [i : Nat \ {0}, t : Seq(S)] /\ st.i \in Nat \ {0} /\ st.t \in Seq(S)
      /\ Len(st.t) \in Nat /\ Len(t) \in Nat /\ DOMAIN st.t = 1 .. Len(st.t)
  BY DEF Swept
<1>2. CASE st.i > Len(st.t)
  <2>1. SweepOne(st, r) = st BY <1>2 DEF SweepOne
  <2>2. ~(st.i <= Len(st.t)) BY <1>1, <1>2
  <2> QED BY <2>1, <2>2, Zenon DEF Swept
<1>3. CASE ~(st.i > Len(st.t)) /\ st.t[st.i].rule # r
  <2> DEFINE v == [st EXCEPT !.i = @ + 1]
  <2>1. SweepOne(st, r) = v BY <1>3, Zenon DEF SweepOne
  <2>2. v \in [i : Nat \ {0}, t : Seq(S)] /\ v.i = st.i + 1 /\ v.t = st.t BY <1>1
  <2> HIDE DEF v
  <2>3. v.i <= Len(v.t) => k + 1 + Len(v.t) < Len(t) + v.i BY <1>1, <1>3, <2>2 DEF Swept
  <2>4. \A j \in DOMAIN v.t : j < v.i => v.t[j].rule # r
    <3>1. \A j \in 1 .. Len(st.t) : j < st.i + 1 => j < st.i \/ j = st.i BY <1>1
    <3> QED BY <1>1, <1>3, <2>2, <3>1 DEF Swept
  <2>5. Swept(S, t, r, k + 1, v) BY <2>2, <2>3, <2>4 DEF Swept
  <2> QED BY <2>1, <2>5
<1>4. CASE ~(st.i > Len(st.t)) /\ ~(st.t[st.i].rule # r)
  <2> DEFINE n == Len(st.t)
             i == st.i
             s == st.t
             u == Front([s EXCEPT ![i] = Last(s)])
             v == [st EXCEPT !.t = u]
  <2>1. SweepOne(st, r) = v BY <1>4, Zenon DEF SweepOne, Stay
  <2>2. i \in DOMAIN s /\ s \in Seq(S) /\ s[i].rule = r /\ i \in 1 .. n BY <1>1, <1>4
  <2>3. /\ u \in Seq(S) /\ Len(u) = n - 1 /\ n \in Nat \ {0} /\ n \in DOMAIN s
        /\ DOMAIN u = 1 .. n - 1
        /\ \A j \in 1 .. n - 1 : u[j] = IF j = i THEN s[n] ELSE s[j]
    <3>1. Moved(s, i, u) /\ n = Len(s) BY DEF Moved
    <3> HIDE DEF u, s, i, n
    <3>2. MovedTo(S, s, i, u) BY <2>2, <3>1, LastMoved
    <3> QED BY <3>1, <3>2 DEF MovedTo
  <2> HIDE DEF u
  <2>4. v \in [i : Nat \ {0}, t : Seq(S)] /\ v.i = i /\ v.t = u BY <1>1, <2>3
  <2> HIDE DEF v
  <2>5. /\ \A j, l \in DOMAIN s : s[j] = s[l] => j = l
        /\ \A j \in DOMAIN s : j < i => s[j].rule # r
        /\ \A j \in DOMAIN s : \E p \in DOMAIN t : t[p] = s[j] /\ p >= j
        /\ \A p \in DOMAIN t : t[p].rule # r => \E j \in DOMAIN s : s[j] = t[p]
        /\ n <= Len(t) /\ (i <= n => k + n < Len(t) + i)
    BY DEF Swept, Different
  <2>6. DOMAIN s = 1 .. n BY <1>1
  <2> HIDE DEF n, i, s
  <2>7. \A j \in 1 .. n : j = n \/ j \in 1 .. n - 1 BY <2>3
  <2>8. \A j \in 1 .. n - 1 : j \in 1 .. n /\ j # n BY <2>3
  <2>9. \A j \in DOMAIN u : j < i => u[j].rule # r
    <3> SUFFICES ASSUME NEW j \in DOMAIN u, j < i PROVE u[j].rule # r OBVIOUS
    <3>1. j \in DOMAIN s /\ j # i BY <2>3, <2>4, <2>6, <2>8
    <3>2. u[j] = s[j] BY <2>3, <3>1
    <3> QED BY <2>5, <3>1, <3>2
  <2>10. \A j \in DOMAIN u : \E p \in DOMAIN t : t[p] = u[j] /\ p >= j
    <3> SUFFICES ASSUME NEW j \in DOMAIN u PROVE \E p \in DOMAIN t : t[p] = u[j] /\ p >= j
      OBVIOUS
    <3>1. PICK l \in DOMAIN s : u[j] = s[l] /\ l >= j BY <2>3, <2>6, <2>8
    <3>2. PICK p \in DOMAIN t : t[p] = s[l] /\ p >= l BY <2>5
    <3>3. p \in Nat /\ l \in Nat /\ j \in Nat BY <1>1, <2>3, <2>6
    <3>4. p >= j BY <3>1, <3>2, <3>3
    <3> QED BY <3>1, <3>2, <3>4
  <2>11. \A p \in DOMAIN t : t[p].rule # r => \E j \in DOMAIN u : u[j] = t[p]
    <3> SUFFICES ASSUME NEW p \in DOMAIN t, t[p].rule # r PROVE \E j \in DOMAIN u : u[j] = t[p]
      OBVIOUS
    <3>1. PICK l \in DOMAIN s : s[l] = t[p] BY <2>5
    <3>2. l # i BY <2>2, <3>1
    <3>3. CASE l = n
      <4>1. i \in 1 .. n - 1 BY <2>2, <2>7, <3>2, <3>3
      <4>2. u[i] = s[n] BY <2>3, <4>1
      <4> QED BY <2>3, <3>1, <3>3, <4>1, <4>2
    <3>4. CASE l # n
      <4>1. l \in 1 .. n - 1 BY <2>6, <2>7, <3>4
      <4> QED BY <2>3, <3>1, <3>2, <4>1
    <3> QED BY <3>3, <3>4
  <2>12. Different(u)
    <3> SUFFICES ASSUME NEW a \in DOMAIN u, NEW b \in DOMAIN u, u[a] = u[b] PROVE a = b
      BY DEF Different
    <3> DEFINE Y(x) == IF x = i THEN n ELSE x
    <3>1. u[a] = s[Y(a)] /\ u[b] = s[Y(b)] /\ Y(a) \in DOMAIN s /\ Y(b) \in DOMAIN s
      BY <2>3, <2>6, <2>8
    <3>2. Y(a) = Y(b) BY <2>5, <3>1
    <3> QED BY <2>3, <2>8, <3>2
  <2>13. i <= Len(u) => k + 1 + Len(u) < Len(t) + i
    <3>1. i \in Nat /\ k \in Nat /\ Len(t) \in Nat BY <1>1, <2>2, <2>3
    <3> QED BY <2>3, <2>5, <3>1
  <2>14. Len(u) <= Len(t) BY <1>1, <2>3, <2>5
  <2>15. Swept(S, t, r, k + 1, v)
    BY <2>4, <2>9, <2>10, <2>11, <2>12, <2>13, <2>14, Zenon DEF Swept
  <2> QED BY <2>1, <2>15
<1> QED BY <1>2, <1>3, <1>4

\* Of u nothing is of rule r; what t has of other rules is there, not higher up, and nothing
\* else.
Purged(t, r, u) ==
  /\ Len(u) <= Len(t) /\ Different(u)
  /\ \A j \in DOMAIN u : u[j].rule # r /\ \E i \in DOMAIN t : t[i] = u[j] /\ i >= j
  /\ \A i \in DOMAIN t : t[i].rule # r => \E j \in DOMAIN u : u[j] = t[i]

\* Unsubscribing a rule loses nothing of the others (Triggers_Unsubscribe_Rule).
LEMMA WithoutRight ==
  ASSUME NEW S, NEW t \in Seq(S), Different(t), NEW r
  PROVE  Without(t, r) \in Seq(S) /\ Purged(t, r, Without(t, r))
<1> DEFINE n == Len(t)
<1>1. n \in Nat /\ DOMAIN t = 1 .. n OBVIOUS
<1>2. PICK L : Sweeps(t, r, n, L) /\ Without(t, r) = L[n].t BY <1>1, WithoutFacts
<1>3. \A k \in 0 .. n : L[k] = IF k = 0 THEN [i |-> 1, t |-> t] ELSE SweepOne(L[k - 1], r)
  BY <1>2, Zenon DEF Sweeps
<1> DEFINE G == {k \in 0 .. n : Swept(S, t, r, k, L[k])}
<1>4. 0 \in G
  <2>1. L[0] = [i |-> 1, t |-> t] /\ 0 \in 0 .. n BY <1>1, <1>3
  <2>2. Swept(S, t, r, 0, [i |-> 1, t |-> t]) BY <1>1 DEF Swept
  <2> QED BY <2>1, <2>2
<1>5. ASSUME NEW k \in 1 .. n, k - 1 \in G PROVE k \in G
  <2> DEFINE b == k - 1
  <2>1. b \in Nat /\ b + 1 = k /\ k \in 0 .. n /\ k # 0 BY <1>1
  <2>2. Swept(S, t, r, b, L[b]) BY <1>5
  <2>3. L[k] = SweepOne(L[b], r) BY <1>3, <2>1
  <2> HIDE DEF b
  <2>4. Swept(S, t, r, b + 1, SweepOne(L[b], r)) BY <2>1, <2>2, SweptOne
  <2> QED BY <2>1, <2>3, <2>4
<1>6. G \in SUBSET (0 .. n) /\ n \in 0 .. n BY <1>1
<1> HIDE DEF G
<1>7. n \in G BY <1>1, <1>4, <1>5, <1>6, EveryTurn
<1>8. Swept(S, t, r, n, L[n]) BY <1>7 DEF G
<1> DEFINE st == L[n]
<1>9. /\ st.i \in Nat \ {0} /\ st.t \in Seq(S) /\ Len(st.t) \in Nat /\ DOMAIN st.t = 1 .. Len(st.t)
      /\ (st.i <= Len(st.t) => n + Len(st.t) < n + st.i)
  BY <1>8 DEF Swept
<1>10. \A j \in DOMAIN st.t : j < st.i BY <1>1, <1>9
<1> QED BY <1>2, <1>8, <1>9, <1>10 DEF Swept, Purged

(***************************************************************************)
(* While-active effects.                                                   *)
(***************************************************************************)

\* What can be undone is on; the table of it is typed and has room.
WaRight(w) ==
  /\ w.undoable \in [DOMAIN w.undoable -> UNION {EffectsOf(r) : r \in Rules}]
  /\ IsFiniteSet(DOMAIN w.undoable) /\ Cardinality(DOMAIN w.undoable) <= MAX_WHILE_ACTIVE
  /\ \A k \in DOMAIN w.undoable :
       /\ k[1] \in Rules /\ w.undoable[k] \in EffectsOf(k[1])
       /\ k = <<k[1], w.undoable[k].atype>>
       /\ <<k[1], w.undoable[k]>> \in w.on
  /\ w.on \subseteq UNION {{<<r, e>> : e \in EffectsOf(r)} : r \in Rules}

\* From w to v only rules of R have got an effect that can be undone.
OnlyOf(w, v, R) == \A k \in DOMAIN v.undoable : k \in DOMAIN w.undoable \/ k[1] \in R

\* while_active_register.
LEMMA StartEffectRight ==
  ASSUME NEW w, WaRight(w), NEW r \in Rules, NEW e \in EffectsOf(r)
  PROVE  WaRight(StartEffect(w, r, e)) /\ OnlyOf(w, StartEffect(w, r, e), {r})
<1> DEFINE k == <<r, e.atype>>
           D == DOMAIN w.undoable
           All == UNION {EffectsOf(q) : q \in Rules}
           f == [x \in D \cup {k} |-> IF x = k THEN e ELSE w.undoable[x]]
           on2 == w.on \cup {<<r, e>>}
           v == StartEffect(w, r, e)
<1>1. /\ w.undoable \in [D -> All] /\ IsFiniteSet(D) /\ Cardinality(D) <= MAX_WHILE_ACTIVE
      /\ \A x \in D : /\ x[1] \in Rules /\ w.undoable[x] \in EffectsOf(x[1])
                      /\ x = <<x[1], w.undoable[x].atype>> /\ <<x[1], w.undoable[x]>> \in w.on
      /\ w.on \subseteq UNION {{<<q, d>> : d \in EffectsOf(q)} : q \in Rules}
  BY Zenon DEF WaRight
<1>2. on2 \subseteq UNION {{<<q, d>> : d \in EffectsOf(q)} : q \in Rules}
  <2>1. <<r, e>> \in UNION {{<<q, d>> : d \in EffectsOf(q)} : q \in Rules} OBVIOUS
  <2> QED BY <1>1, <2>1
<1>3. CASE k \in D \/ Cardinality(D) < MAX_WHILE_ACTIVE
  <2>1. v.undoable = f /\ v.on = on2 BY <1>3, Zenon DEF StartEffect
  <2>2. DOMAIN f = D \cup {k} /\ \A x \in D \cup {k} : f[x] = IF x = k THEN e ELSE w.undoable[x]
    OBVIOUS
  <2>3. e \in All /\ f \in [D \cup {k} -> All] BY <1>1
  <2>4. IsFiniteSet(D \cup {k}) /\ Cardinality(D \cup {k}) <= MAX_WHILE_ACTIVE
    <3>1. CASE k \in D
      <4>1. D \cup {k} = D BY <3>1
      <4> QED BY <1>1, <4>1
    <3>2. CASE k \notin D
      <4>1. IsFiniteSet(D \cup {k}) /\ Cardinality(D \cup {k}) = Cardinality(D) + 1
        <5> HIDE DEF D, k
        <5> QED BY <1>1, <3>2, FS_AddElement
      <4>2. Cardinality(D) \in Nat
        <5> HIDE DEF D
        <5> QED BY <1>1, FS_CardinalityType
      <4> QED BY <1>3, <3>2, <4>1, <4>2, TableParams
    <3> QED BY <3>1, <3>2
  <2>5. k[1] = r /\ k = <<k[1], e.atype>> OBVIOUS
  <2> HIDE DEF v, f, k
  <2>6. \A x \in DOMAIN f :
          /\ x[1] \in Rules /\ f[x] \in EffectsOf(x[1]) /\ x = <<x[1], f[x].atype>>
          /\ <<x[1], f[x]>> \in on2
    <3> SUFFICES ASSUME NEW x \in D \cup {k}
                 PROVE  /\ x[1] \in Rules /\ f[x] \in EffectsOf(x[1]) /\ x = <<x[1], f[x].atype>>
                        /\ <<x[1], f[x]>> \in on2
      BY <2>2
    <3>1. CASE x = k
      <4>1. f[x] = e /\ x[1] = r /\ x = <<r, e.atype>> BY <2>2, <2>5, <3>1
      <4> QED BY <4>1
    <3>2. CASE x # k
      <4>1. x \in D /\ f[x] = w.undoable[x] BY <2>2, <3>2
      <4> QED BY <1>1, <4>1
    <3> QED BY <3>1, <3>2
  <2>7. WaRight(v) BY <1>2, <2>1, <2>2, <2>3, <2>4, <2>6, Zenon DEF WaRight
  <2>8. OnlyOf(w, v, {r}) BY <2>1, <2>2, <2>5 DEF OnlyOf
  <2> QED BY <2>7, <2>8 DEF v
<1>4. CASE ~(k \in D \/ Cardinality(D) < MAX_WHILE_ACTIVE)
  <2>1. v.undoable = w.undoable /\ v.on = on2 BY <1>4, Zenon DEF StartEffect
  <2>2. w.on \subseteq on2 OBVIOUS
  <2> HIDE DEF v, on2
  <2>3. WaRight(v) BY <1>1, <1>2, <2>1, <2>2, Zenon DEF WaRight
  <2>4. OnlyOf(w, v, {r}) BY <2>1, Zenon DEF OnlyOf
  <2> QED BY <2>3, <2>4 DEF v
<1> QED BY <1>3, <1>4

\* A rule's effects start.
LEMMA StartRuleRight ==
  ASSUME NEW w, WaRight(w), NEW r \in Rules
  PROVE  WaRight(StartRule(w, r)) /\ OnlyOf(w, StartRule(w, r), {r})
<1> DEFINE n == Len(Effects[r])
<1>1. n \in Nat /\ \A k \in 1 .. n : Effects[r][k] \in EffectsOf(r)
  <2>1. Effects[r] \in Seq(Range(Effects[r])) BY TriggerParams
  <2> QED BY <2>1 DEF EffectsOf
<1>2. PICK L : Starts(w, r, n, L) /\ StartRule(w, r) = L[n] BY <1>1, StartFacts
<1>3. \A k \in 0 .. n : L[k] = IF k = 0 THEN w ELSE StartEffect(L[k - 1], r, Effects[r][k])
  BY <1>2, Zenon DEF Starts
<1> DEFINE G == {k \in 0 .. n : WaRight(L[k]) /\ OnlyOf(w, L[k], {r})}
<1>4. 0 \in G
  <2>1. L[0] = w /\ 0 \in 0 .. n BY <1>1, <1>3
  <2>2. OnlyOf(w, w, {r}) BY DEF OnlyOf
  <2> QED BY <2>1, <2>2
<1>5. ASSUME NEW k \in 1 .. n, k - 1 \in G PROVE k \in G
  <2> DEFINE b == k - 1
  <2>1. k \in 0 .. n /\ k # 0 BY <1>1
  <2>2. WaRight(L[b]) /\ OnlyOf(w, L[b], {r}) BY <1>5
  <2>3. L[k] = StartEffect(L[b], r, Effects[r][k]) BY <1>3, <2>1
  <2> HIDE DEF b
  <2>4. WaRight(L[k]) /\ OnlyOf(L[b], L[k], {r}) BY <1>1, <2>2, <2>3, StartEffectRight
  <2>5. OnlyOf(w, L[k], {r}) BY <2>2, <2>4 DEF OnlyOf
  <2> QED BY <2>1, <2>4, <2>5
<1>6. G \in SUBSET (0 .. n) /\ n \in 0 .. n BY <1>1
<1> HIDE DEF G
<1>7. n \in G BY <1>1, <1>4, <1>5, <1>6, EveryTurn
<1> QED BY <1>2, <1>7 DEF G

\* Effects are undone: of the rules rs nothing can be undone any more.
LEMMA UndoRight ==
  ASSUME NEW w, WaRight(w), NEW rs
  PROVE  /\ WaRight(Undo(w, rs))
         /\ \A k \in DOMAIN Undo(w, rs).undoable : k \in DOMAIN w.undoable /\ k[1] \notin rs
<1> DEFINE D == DOMAIN w.undoable
           gone == {k \in D : k[1] \in rs}
           f == [k \in D \ gone |-> w.undoable[k]]
           on2 == w.on \ {<<k[1], w.undoable[k]>> : k \in gone}
           v == Undo(w, rs)
<1>1. /\ w.undoable \in [D -> UNION {EffectsOf(q) : q \in Rules}]
      /\ IsFiniteSet(D) /\ Cardinality(D) <= MAX_WHILE_ACTIVE
      /\ \A x \in D : /\ x[1] \in Rules /\ w.undoable[x] \in EffectsOf(x[1])
                      /\ x = <<x[1], w.undoable[x].atype>> /\ <<x[1], w.undoable[x]>> \in w.on
      /\ w.on \subseteq UNION {{<<q, d>> : d \in EffectsOf(q)} : q \in Rules}
  BY Zenon DEF WaRight
<1>2. v.undoable = f /\ v.on = on2 BY Zenon DEF Undo
<1>3. DOMAIN f = D \ gone /\ \A x \in D \ gone : f[x] = w.undoable[x] OBVIOUS
<1>4. f \in [D \ gone -> UNION {EffectsOf(q) : q \in Rules}] BY <1>1
<1>5. IsFiniteSet(D \ gone) /\ Cardinality(D \ gone) <= MAX_WHILE_ACTIVE
  <2> DEFINE E == D \ gone
  <2>1. E \in SUBSET D OBVIOUS
  <2> HIDE DEF E, D
  <2>2. IsFiniteSet(E) /\ Cardinality(E) <= Cardinality(D) /\ Cardinality(D) \in Nat
        /\ Cardinality(E) \in Nat
    BY <1>1, <2>1, FS_Subset, FS_CardinalityType
  <2>3. Cardinality(E) <= MAX_WHILE_ACTIVE BY <1>1, <2>2, TableParams
  <2> QED BY <2>2, <2>3 DEF E
<1>6. \A x \in D \ gone : /\ x[1] \in Rules /\ f[x] \in EffectsOf(x[1]) /\ x = <<x[1], f[x].atype>>
                          /\ <<x[1], f[x]>> \in on2
  <2> SUFFICES ASSUME NEW x \in D \ gone
               PROVE  /\ x[1] \in Rules /\ f[x] \in EffectsOf(x[1]) /\ x = <<x[1], f[x].atype>>
                      /\ <<x[1], f[x]>> \in on2
    OBVIOUS
  <2>1. f[x] = w.undoable[x] /\ x \in D /\ x[1] \notin rs BY <1>3
  <2>2. \A k \in gone : <<k[1], w.undoable[k]>> # <<x[1], w.undoable[x]>>
    <3> SUFFICES ASSUME NEW k \in gone, <<k[1], w.undoable[k]>> = <<x[1], w.undoable[x]>>
                 PROVE  FALSE
      OBVIOUS
    <3>1. k[1] = x[1] OBVIOUS
    <3> QED BY <2>1, <3>1
  <2> HIDE DEF f
  <2> QED BY <1>1, <2>1, <2>2
<1>7. on2 \subseteq UNION {{<<q, d>> : d \in EffectsOf(q)} : q \in Rules} BY <1>1
<1> HIDE DEF f, v
<1>8. WaRight(v) BY <1>2, <1>3, <1>4, <1>5, <1>6, <1>7, Zenon DEF WaRight
<1>9. \A k \in DOMAIN v.undoable : k \in D /\ k[1] \notin rs BY <1>2, <1>3
<1> QED BY <1>8, <1>9 DEF v

\* The fields of an entry.
AllConfigs == UNION {Configs(r) : r \in Rules}

LEMMA EntryTypes ==
  ASSUME NEW s \in Entries
  PROVE  /\ s.rule \in Rules /\ s.idx \in Int /\ s.cfg \in AllConfigs /\ s.id \in Nat
         /\ s.passive \in BOOLEAN /\ s.since \in Nat /\ s.latched \in BOOLEAN
         /\ s.cached \in Nat /\ s.polled \in Nat
BY DEF Entries, AllConfigs

\* What can be undone after j entries of the table have been served.
Served(w, j, undo, hit, v) ==
  /\ WaRight(v)
  /\ \A k \in DOMAIN v.undoable :
       \/ \E i \in hit : subs[i].rule = k[1]
       \/ k \in DOMAIN w.undoable /\ \A i \in undo : i <= j => subs[i].rule # k[1]

LEMMA ServedOne ==
  ASSUME NEW w, NEW undo, NEW hit, NEW j \in Nat, NEW v, Served(w, j, undo, hit, v),
         undo \subseteq Nat, subs[j + 1].rule \in Rules
  PROVE  Served(w, j + 1, undo, hit, ServeOne(v, j + 1, undo, hit))
<1> DEFINE m == j + 1
           r == subs[m].rule
           u == IF m \in undo THEN Undo(v, {r}) ELSE v
           x == IF m \in hit THEN StartRule(u, r) ELSE u
<1>1. ServeOne(v, m, undo, hit) = x BY DEF ServeOne
<1>2. /\ WaRight(u)
      /\ \A k \in DOMAIN u.undoable : k \in DOMAIN v.undoable /\ (m \in undo => k[1] # r)
  <2>1. CASE m \in undo
    <3>1. u = Undo(v, {r}) BY <2>1
    <3> HIDE DEF u
    <3> QED BY <2>1, <3>1, UndoRight DEF Served
  <2>2. CASE m \notin undo BY <2>2 DEF Served
  <2> QED BY <2>1, <2>2
<1> HIDE DEF u
<1>3. \A i \in undo : i <= m => i <= j \/ i = m
  BY DEF m
<1> HIDE DEF m
<1>4. \A k \in DOMAIN u.undoable :
        \/ \E i \in hit : subs[i].rule = k[1]
        \/ k \in DOMAIN w.undoable /\ \A i \in undo : i <= m => subs[i].rule # k[1]
  BY <1>2, <1>3 DEF Served
<1>5. CASE m \in hit
  <2>1. x = StartRule(u, r) BY <1>5
  <2>2. WaRight(x) /\ OnlyOf(u, x, {r}) BY <1>2, <2>1, StartRuleRight DEF m
  <2> HIDE DEF x
  <2>3. \A k \in DOMAIN x.undoable : k \in DOMAIN u.undoable \/ k[1] = r BY <2>2 DEF OnlyOf
  <2>4. \A k \in DOMAIN x.undoable :
          \/ \E i \in hit : subs[i].rule = k[1]
          \/ k \in DOMAIN w.undoable /\ \A i \in undo : i <= m => subs[i].rule # k[1]
    BY <1>4, <1>5, <2>3
  <2>5. Served(w, m, undo, hit, x) BY <2>2, <2>4, Zenon DEF Served
  <2> QED BY <1>1, <2>5 DEF m
<1>6. CASE m \notin hit
  <2>1. x = u BY <1>6
  <2> HIDE DEF x
  <2>2. Served(w, m, undo, hit, x) BY <1>2, <1>4, <2>1, Zenon DEF Served
  <2> QED BY <1>1, <2>2 DEF m
<1> QED BY <1>5, <1>6

\* A loop over the table: only the rules of `hit` may have got effects, and of the other rules
\* of `undo` nothing can be undone.
LEMMA ServeRight ==
  ASSUME NEW w, WaRight(w), NEW undo, NEW hit, undo \subseteq DOMAIN subs,
         subs \in Seq(Entries)
  PROVE  Served(w, Len(subs), undo, hit, Serve(w, undo, hit))
<1> DEFINE n == Len(subs)
<1>1. n \in Nat /\ DOMAIN subs = 1 .. n /\ \A i \in 1 .. n : subs[i].rule \in Rules
  BY EntryTypes
<1>2. PICK L : Serves(w, undo, hit, n, L) /\ Serve(w, undo, hit) = L[n] BY <1>1, ServeFacts
<1>3. \A k \in 0 .. n : L[k] = IF k = 0 THEN w ELSE ServeOne(L[k - 1], k, undo, hit)
  BY <1>2, Zenon DEF Serves
<1>4. undo \subseteq Nat /\ \A i \in undo : ~(i <= 0) BY <1>1
<1> DEFINE G == {k \in 0 .. n : Served(w, k, undo, hit, L[k])}
<1>5. 0 \in G
  <2>1. L[0] = w /\ 0 \in 0 .. n BY <1>1, <1>3
  <2>2. Served(w, 0, undo, hit, w) BY <1>4 DEF Served
  <2> QED BY <2>1, <2>2
<1>6. ASSUME NEW k \in 1 .. n, k - 1 \in G PROVE k \in G
  <2> DEFINE b == k - 1
  <2>1. b \in Nat /\ b + 1 = k /\ k \in 0 .. n /\ k # 0 BY <1>1
  <2>2. Served(w, b, undo, hit, L[b]) BY <1>6
  <2>3. L[k] = ServeOne(L[b], k, undo, hit) BY <1>3, <2>1
  <2> HIDE DEF b
  <2>4. subs[b + 1].rule \in Rules BY <1>1, <2>1
  <2>5. Served(w, b + 1, undo, hit, ServeOne(L[b], b + 1, undo, hit))
    BY <1>4, <2>1, <2>2, <2>4, ServedOne
  <2> QED BY <2>1, <2>3, <2>5
<1>7. G \in SUBSET (0 .. n) /\ n \in 0 .. n BY <1>1
<1> HIDE DEF G
<1>8. n \in G BY <1>1, <1>5, <1>6, <1>7, EveryTurn
<1> QED BY <1>2, <1>8 DEF G

(***************************************************************************)
(* One entry and one occurrence.                                           *)
(***************************************************************************)

\* Entry x is entry s with another state.
SameEntry(s, x) ==
  /\ x \in Entries /\ x.rule = s.rule /\ x.idx = s.idx /\ x.cfg = s.cfg /\ x.id = s.id
  /\ x.passive = s.passive

\* x has these state fields and the rest from s.
HasState(s, x, since, latched) == SameEntry(s, x) /\ x.since = since /\ x.latched = latched

LEMMA EntryChanged ==
  ASSUME NEW s \in Entries, NEW a \in Nat, NEW l \in BOOLEAN
  PROVE  /\ HasState(s, s, s.since, s.latched)
         /\ HasState(s, [s EXCEPT !.since = a], a, s.latched)
         /\ HasState(s, [s EXCEPT !.latched = l], s.since, l)
         /\ HasState(s, [s EXCEPT !.cached = a], s.since, s.latched)
         /\ HasState(s, [s EXCEPT !.polled = a], s.since, s.latched)
BY DEF Entries, HasState, SameEntry

LEMMA StateAgain ==
  ASSUME NEW s, NEW x, NEW y, NEW a, NEW l, NEW b, NEW m, HasState(s, x, a, l),
         HasState(x, y, b, m)
  PROVE  HasState(s, y, b, m)
BY DEF HasState, SameEntry

LEMMA ChangedAgain ==
  ASSUME NEW s, NEW a, NEW l, NEW x \in Entries, HasState(s, x, a, l),
         NEW b \in Nat, NEW m \in BOOLEAN
  PROVE  HasState(s, [x EXCEPT !.since = b], b, l) /\ HasState(s, [x EXCEPT !.latched = m], a, m)
<1> DEFINE y == [x EXCEPT !.since = b]
           z == [x EXCEPT !.latched = m]
<1>1. HasState(x, y, b, x.latched) /\ HasState(x, z, x.since, m) BY EntryChanged
<1>2. x.since = a /\ x.latched = l BY DEF HasState
<1> HIDE DEF y, z
<1>3. HasState(s, y, b, l) /\ HasState(s, z, a, m) BY <1>1, <1>2, StateAgain
<1> QED BY <1>3 DEF y, z

\* What an entry remembers agrees with what its trigger has seen.
EntrySeen(s, k) ==
  /\ s.since # 0 => /\ s.cfg.type \in {"io_input", "value"}
                    /\ k.level = "active" /\ k.since <= s.since
  /\ s.cfg.type = "value" /\ ~(s.cfg.hold > 0) /\ k.level = "active" => s.latched

\* The same with the state spelt out.
StateSeen(cfg, since, latched, k) ==
  /\ since # 0 => /\ cfg.type \in {"io_input", "value"}
                  /\ k.level = "active" /\ k.since <= since
  /\ cfg.type = "value" /\ ~(cfg.hold > 0) /\ k.level = "active" => latched

Views == [level : {"none", "clear", "active"}, since : Nat]
IsCopy(c) ==
  /\ c.n \in Nat /\ c.ev.level \in BOOLEAN /\ c.ev.stateful \in BOOLEAN
  /\ c.ev.fault \in BOOLEAN /\ c.ev.numeric \in BOOLEAN /\ c.ev.num \in Int

\* A trigger's configuration has the fields of its type.
IsConfig(g) ==
  /\ g.type = "io_input" => g.edge \in {"cut", "rising", "falling", "both"} /\ g.hold \in Int
  /\ g.type = "value" => g.bound \in Int /\ g.hold \in Int
  /\ g.type \in {"counter_threshold", "modbus_read"} => g.bound \in Int

\* What becomes of an entry s that answers o to event e while its trigger goes from view k to
\* view m.
Answered(s, k, o, m, e) ==
  /\ o.fire \in BOOLEAN /\ o.undo \in BOOLEAN /\ SameEntry(s, o.sub)
  /\ m \in Views /\ m.since <= now /\ EntrySeen(o.sub, m)
  /\ o.fire /\ s.cfg.type = "value" =>
       IF s.cfg.hold > 0 THEN k.level = "active" /\ now - k.since >= s.cfg.hold
       ELSE k.level # "active"
  /\ m.level = "clear" /\ s.cfg.type \notin {"io_input", "any", "string"} =>
       ~o.fire /\ (o.undo \/ (s.cfg.type = "value" /\ ~s.latched) \/ Loosens(s, e))
  /\ s.cfg.type = "value" /\ ~o.sub.latched =>
       ~o.fire /\ (o.undo \/ ~s.latched \/ Loosens(s, e))

\* The view of an event.
LEMMA SawFacts ==
  ASSUME NEW g, NEW k \in Views, k.since <= now, NEW e, now \in Nat
  PROVE  /\ Saw(g, k, e) \in Views /\ Saw(g, k, e).since <= now
         /\ g.type # "io_input" =>
              /\ Matches(g, e) => Saw(g, k, e).level = "active"
              /\ ~Matches(g, e) => Saw(g, k, e).level = "clear"
         /\ ~(g.type = "io_input" /\ g.port # e.port) /\ Matches(g, e) =>
              /\ Saw(g, k, e).level = "active"
              /\ k.level = "active" => Saw(g, k, e).since = k.since
         /\ g.type = "io_input" /\ g.port # e.port => Saw(g, k, e) = k
BY DEF Saw, Views

\* An entry's answer, from the state it ends in.
Answers(s, k, o, m, a, l, fire, undo) ==
  /\ HasState(s, o.sub, a, l) /\ o.fire = fire /\ o.undo = undo
  /\ StateSeen(s.cfg, a, l, m)

LEMMA AnswersSeen ==
  ASSUME NEW s, NEW k, NEW o, NEW m, NEW a, NEW l, NEW fire, NEW undo,
         Answers(s, k, o, m, a, l, fire, undo)
  PROVE  SameEntry(s, o.sub) /\ EntrySeen(o.sub, m) /\ o.fire = fire /\ o.undo = undo
         /\ o.sub.latched = l /\ o.sub.since = a
BY DEF Answers, HasState, SameEntry, StateSeen, EntrySeen

\* An I/O input's answer to an event of its port.
LEMMA InputAnswered ==
  ASSUME NEW s \in Entries, s.cfg.type = "io_input", IsConfig(s.cfg), NEW c, IsCopy(c),
         NEW k \in Views, k.since <= now, now \in Nat, now # 0, EntrySeen(s, k),
         NEW x, HasState(s, x, s.since, s.latched), s.cfg.port = c.ev.port
  PROVE  Answered(s, k, OnInput(x, c.ev), Saw(s.cfg, k, c.ev), c.ev)
<1> DEFINE e == c.ev
           m == Saw(s.cfg, k, e)
           o == OnInput(x, e)
           match == Matches(s.cfg, e)
           clear == (s.cfg.edge = "cut" /\ ~match) \/ (e.stateful /\ ~e.level)
<1>1. /\ x \in Entries /\ x.cfg = s.cfg /\ x.since = s.since /\ x.latched = s.latched
      /\ s.since \in Nat /\ s.latched \in BOOLEAN
  BY EntryTypes DEF HasState, SameEntry
<1>2. /\ s.cfg.edge \in {"cut", "rising", "falling", "both"} /\ s.cfg.hold \in Int
      /\ e.level \in BOOLEAN /\ e.fault \in BOOLEAN /\ c.n \in Nat
  BY DEF IsConfig, IsCopy
<1>3. /\ m \in Views /\ m.since <= now
      /\ ~match => m = [level |-> "clear", since |-> 0]
      /\ match => m.level = "active" /\ (k.level = "active" => m.since = k.since)
  BY DEF Saw, Views
<1>4. match \in BOOLEAN /\ clear \in BOOLEAN BY <1>2 DEF Matches
<1>5. o = IF ~match THEN [Stays(HoldCancelled(x)) EXCEPT !.undo = clear]
          ELSE IF s.cfg.hold > 0
               THEN [Stays([x EXCEPT !.since = IF @ = 0 THEN now ELSE @]) EXCEPT !.undo = clear]
          ELSE [FiresNow(x) EXCEPT !.undo = clear]
  BY <1>1, <1>2 DEF OnInput, Matches
<1> HIDE DEF match, clear, m
<1>6. CASE ~match
  <2> DEFINE y == HoldCancelled(x)
  <2>1. o = [sub |-> y, fire |-> FALSE, undo |-> clear] BY <1>5, <1>6 DEF Stays
  <2>2. HasState(s, y, 0, s.latched) BY <1>1, ChangedAgain DEF HoldCancelled
  <2> QED BY <1>3, <1>4, <1>6, <2>1, <2>2 DEF Answered, HasState, SameEntry, EntrySeen, m
<1>7. CASE match /\ s.cfg.hold > 0
  <2> DEFINE a == IF s.since = 0 THEN now ELSE s.since
             y == [x EXCEPT !.since = a]
  <2>1. o = [sub |-> y, fire |-> FALSE, undo |-> clear] BY <1>1, <1>5, <1>7 DEF Stays
  <2>2. a \in Nat BY <1>1
  <2>3. a # 0 => m.level = "active" /\ m.since <= a
    BY <1>1, <1>3, <1>7 DEF EntrySeen
  <2> HIDE DEF a
  <2>4. HasState(s, y, a, s.latched) BY <1>1, <2>2, ChangedAgain
  <2> HIDE DEF y
  <2> QED BY <1>3, <1>4, <1>7, <2>1, <2>3, <2>4 DEF Answered, HasState, SameEntry, EntrySeen, m
<1>8. CASE match /\ ~(s.cfg.hold > 0)
  <2>1. o = [sub |-> x, fire |-> TRUE, undo |-> clear] BY <1>5, <1>8 DEF FiresNow
  <2>2. x.since # 0 => m.level = "active" /\ m.since <= x.since
    BY <1>1, <1>3, <1>8 DEF EntrySeen
  <2> QED BY <1>3, <1>4, <1>8, <2>1, <2>2 DEF Answered, HasState, SameEntry, EntrySeen, m
<1> QED BY <1>4, <1>6, <1>7, <1>8

\* A threshold's answer.
LEMMA ValueAnswered ==
  ASSUME NEW s \in Entries, s.cfg.type = "value", IsConfig(s.cfg), NEW c, IsCopy(c),
         NEW k \in Views, k.since <= now, now \in Nat, now # 0, EntrySeen(s, k),
         NEW x, HasState(s, x, s.since, s.latched)
  PROVE  Answered(s, k, OnValue(x, c.ev), Saw(s.cfg, k, c.ev), c.ev)
<1> DEFINE e == c.ev
           m == Saw(s.cfg, k, e)
           o == OnValue(x, e)
           g == s.cfg
<1>1. /\ x \in Entries /\ x.cfg = g /\ x.since = s.since /\ x.latched = s.latched
      /\ s.since \in Nat /\ s.latched \in BOOLEAN
  BY EntryTypes DEF HasState, SameEntry
<1>2. g.bound \in Int /\ g.hold \in Int /\ e.num \in Int /\ e.numeric \in BOOLEAN
  BY DEF IsConfig, IsCopy
<1>3. /\ m \in Views /\ m.since <= now
      /\ ~e.numeric \/ e.num < g.bound => m = [level |-> "clear", since |-> 0]
      /\ e.numeric /\ ~(e.num < g.bound) => m.level = "active" /\ (k.level = "active" => m.since = k.since)
  BY <1>2 DEF Saw, Views, Matches
<1>4. /\ s.since # 0 => k.level = "active" /\ k.since <= s.since
      /\ ~(g.hold > 0) /\ k.level = "active" => s.latched
  BY DEF EntrySeen
<1>5. k.since \in Nat /\ m.since \in Nat BY <1>3 DEF Views
<1> HIDE DEF m
<1>6. CASE e.numeric /\ e.num < g.bound
  <2> DEFINE z == HoldCancelled(x)
             y == [z EXCEPT !.latched = FALSE]
  <2>1. o = [sub |-> y, fire |-> FALSE, undo |-> x.latched] BY <1>1, <1>6 DEF OnValue, Stays
  <2>2. HasState(s, z, 0, s.latched) BY <1>1, ChangedAgain DEF HoldCancelled
  <2>3. z \in Entries /\ z.since = 0 BY <2>2 DEF HasState, SameEntry
  <2> HIDE DEF z
  <2>4. HasState(s, y, 0, FALSE) BY <2>2, <2>3, ChangedAgain
  <2> HIDE DEF y, o
  <2>5. y.since = 0 /\ y.latched = FALSE /\ SameEntry(s, y) BY <2>4 DEF HasState
  <2>6. m \in Views /\ m.since <= now /\ m.level = "clear" BY <1>3, <1>6
  <2>7. EntrySeen(y, m) BY <2>5, <2>6 DEF EntrySeen
  <2>8. o.sub = y /\ o.fire = FALSE /\ o.undo = s.latched BY <1>1, <2>1
  <2>9. Answered(s, k, o, m, e) BY <1>1, <2>5, <2>6, <2>7, <2>8 DEF Answered
  <2> QED BY <2>9 DEF o, m
<1>10. CASE ~e.numeric
  <2> DEFINE z == HoldCancelled(x)
             y == [z EXCEPT !.latched = FALSE]
  <2>1. o = [sub |-> y, fire |-> FALSE, undo |-> FALSE] BY <1>1, <1>10 DEF OnValue, Stays
  <2>2. HasState(s, z, 0, s.latched) BY <1>1, ChangedAgain DEF HoldCancelled
  <2>3. z \in Entries /\ z.since = 0 BY <2>2 DEF HasState, SameEntry
  <2> HIDE DEF z
  <2>4. HasState(s, y, 0, FALSE) BY <2>2, <2>3, ChangedAgain
  <2> HIDE DEF y, o
  <2>5. y.since = 0 /\ y.latched = FALSE /\ SameEntry(s, y) BY <2>4 DEF HasState
  <2>6. m \in Views /\ m.since <= now /\ m.level = "clear" BY <1>3, <1>10
  <2>7. EntrySeen(y, m) BY <2>5, <2>6 DEF EntrySeen
  <2>8. o.sub = y /\ o.fire = FALSE /\ o.undo = FALSE BY <2>1
  <2>10. ~s.latched \/ Loosens(s, e) BY <1>10 DEF Loosens
  <2> HIDE DEF e
  <2>9. Answered(s, k, o, m, e) BY <1>1, <2>5, <2>6, <2>7, <2>8, <2>10 DEF Answered
  <2> QED BY <2>9 DEF o, m, e
<1>7. CASE e.numeric /\ ~(e.num < g.bound) /\ (s.latched \/ (g.hold > 0 /\ s.since # 0 /\ now - s.since < g.hold))
  <2>1. o = [sub |-> x, fire |-> FALSE, undo |-> FALSE] BY <1>1, <1>7 DEF OnValue, Stays
  <2>2. EntrySeen(x, m) BY <1>1, <1>3, <1>4, <1>7 DEF EntrySeen
  <2> HIDE DEF o
  <2>3. m.level = "active" /\ m \in Views /\ m.since <= now BY <1>3, <1>7
  <2>4. o.sub = x /\ o.fire = FALSE /\ o.undo = FALSE BY <2>1
  <2>5. SameEntry(s, x) BY DEF HasState
  <2>6. x.latched => s.latched BY <1>1
  <2>7. Answered(s, k, o, m, e) BY <1>1, <2>2, <2>3, <2>4, <2>5, <2>6 DEF Answered
  <2> QED BY <2>7 DEF o, m
<1>8. CASE e.numeric /\ ~(e.num < g.bound) /\ ~s.latched /\ g.hold > 0 /\ s.since = 0
  <2> DEFINE y == [x EXCEPT !.since = now]
  <2>1. o = [sub |-> y, fire |-> FALSE, undo |-> FALSE] BY <1>1, <1>8 DEF OnValue, Stays
  <2>2. HasState(s, y, now, FALSE)
    <3>1. HasState(s, y, now, s.latched) BY <1>1, ChangedAgain
    <3>2. s.latched = FALSE BY <1>1, <1>8
    <3> QED BY <3>1, <3>2
  <2> HIDE DEF y, o
  <2>3. m.level = "active" /\ m \in Views /\ m.since <= now BY <1>3, <1>8
  <2>4. y.since = now /\ y.latched = FALSE /\ SameEntry(s, y) BY <2>2 DEF HasState
  <2>5. y.cfg = s.cfg BY <2>4 DEF SameEntry
  <2>6. EntrySeen(y, m) BY <1>8, <2>3, <2>4, <2>5 DEF EntrySeen
  <2>7. o.sub = y /\ o.fire = FALSE /\ o.undo = FALSE BY <2>1
  <2>8. Answered(s, k, o, m, e) BY <1>1, <1>8, <2>3, <2>4, <2>6, <2>7 DEF Answered
  <2> QED BY <2>8 DEF o, m
<1>9. CASE e.numeric /\ ~(e.num < g.bound) /\ ~s.latched /\
           ~(g.hold > 0 /\ (s.since = 0 \/ now - s.since < g.hold))
  <2> DEFINE y == Latch(x)
  <2>1. o = [sub |-> y, fire |-> TRUE, undo |-> FALSE] BY <1>1, <1>9 DEF OnValue, FiresNow
  <2>2. HasState(s, y, s.since, TRUE) BY <1>1, ChangedAgain DEF Latch
  <2> HIDE DEF y
  <2>3. s.since # 0 => m.level = "active" /\ m.since <= s.since BY <1>3, <1>4, <1>9
  <2>4. EntrySeen(y, m) BY <2>2, <2>3 DEF HasState, SameEntry, EntrySeen
  <2>5. IF g.hold > 0 THEN k.level = "active" /\ now - k.since >= g.hold
        ELSE k.level # "active"
    <3>1. CASE g.hold > 0
      <4>1. s.since # 0 /\ ~(now - s.since < g.hold) BY <1>9, <3>1
      <4> QED BY <1>1, <1>2, <1>4, <1>5, <3>1, <4>1
    <3>2. CASE ~(g.hold > 0) BY <1>4, <1>9, <3>2
    <3> QED BY <3>1, <3>2
  <2>6. m.level = "active" /\ m \in Views /\ m.since <= now BY <1>3, <1>9
  <2>7. y.latched = TRUE /\ SameEntry(s, y) BY <2>2 DEF HasState
  <2> HIDE DEF o
  <2>8. o.sub = y /\ o.fire = TRUE /\ o.undo = FALSE BY <2>1
  <2>9. Answered(s, k, o, m, e) BY <2>4, <2>5, <2>6, <2>7, <2>8 DEF Answered
  <2> QED BY <2>9 DEF o, m
<1> QED BY <1>2, <1>6, <1>7, <1>8, <1>9, <1>10

\* What every trigger of a device event answers (Triggers_On_VAPIX_Event).
LEMMA EventAnswered ==
  ASSUME NEW s \in Entries, s.cfg.type \in DeviceTypes, IsConfig(s.cfg), NEW c, IsCopy(c),
         NEW k \in Views, k.since <= now, now \in Nat, now # 0, EntrySeen(s, k)
  PROVE  Answered(s, k, OnEvent(s, c), Saw(s.cfg, k, c.ev), c.ev)
<1> DEFINE e == c.ev
           x == [s EXCEPT !.cached = c.n]
           g == s.cfg
           m == Saw(g, k, e)
           o == OnEvent(s, c)
<1>1. HasState(s, x, s.since, s.latched) BY EntryChanged DEF IsCopy
<1>2. HasState(s, s, s.since, s.latched) BY EntryChanged, EntryTypes
<1>3. x \in Entries /\ x.cfg = g /\ x.since = s.since /\ x.latched = s.latched
  BY <1>1 DEF HasState, SameEntry
<1>4. /\ m \in Views /\ m.since <= now
      /\ g.type # "io_input" =>
           /\ Matches(g, e) => m.level = "active" /\ (k.level = "active" => m.since = k.since)
           /\ ~Matches(g, e) => m = [level |-> "clear", since |-> 0]
      /\ g.type = "io_input" /\ g.port # e.port => m = k
  BY DEF Saw, Views
<1>5. /\ g.type = "io_input" => o = IF e.port # g.port THEN Stays(s) ELSE OnInput(x, e)
      /\ g.type = "bool" => o = IF e.level # g.want THEN Clears(x) ELSE FiresNow(x)
      /\ g.type = "any" => o = [FiresNow(x) EXCEPT !.undo = e.stateful /\ ~e.level]
      /\ g.type = "string" => o = OnString(x, e)
      /\ g.type = "value" => o = OnValue(x, e)
      /\ g.type = "aoa_scenario" => o = IF ~e.level THEN Clears(x)
                                        ELSE IF e.num # g.class THEN Stays(x) ELSE FiresNow(x)
  BY DEF OnEvent
<1> HIDE DEF x
<1>6. CASE g.type = "io_input" /\ e.port # g.port
  <2>1. o = [sub |-> s, fire |-> FALSE, undo |-> FALSE] BY <1>5, <1>6 DEF Stays
  <2>2. m = k BY <1>4, <1>6
  <2> HIDE DEF m, o
  <2> QED BY <1>2, <1>4, <1>6, <2>1, <2>2 DEF Answered, HasState, m, o
<1>7. CASE g.type = "io_input" /\ e.port = g.port
  <2>1. o = OnInput(x, e) BY <1>5, <1>7
  <2> QED BY <1>1, <1>7, <2>1, InputAnswered
<1>8. CASE g.type = "value"
  <2>1. o = OnValue(x, e) BY <1>5, <1>8
  <2> QED BY <1>1, <1>8, <2>1, ValueAnswered
<1>9. CASE g.type \in {"bool", "any", "string", "aoa_scenario"}
  <2>1. s.since = 0 BY <1>9 DEF EntrySeen
  <2>2. EntrySeen(x, m) BY <1>3, <1>9, <2>1 DEF EntrySeen
  <2>3. e.level \in BOOLEAN /\ e.stateful \in BOOLEAN BY DEF IsCopy
  <2>7. /\ Clears(x).sub = x /\ Clears(x).fire = FALSE /\ Clears(x).undo = TRUE
        /\ FiresNow(x).sub = x /\ FiresNow(x).fire = TRUE /\ FiresNow(x).undo = FALSE
        /\ Stays(x).sub = x /\ Stays(x).fire = FALSE /\ Stays(x).undo = FALSE
    BY DEF Clears, FiresNow, Stays
  <2> HIDE DEF m, o
  <2>4. /\ o.sub = x /\ o.fire \in BOOLEAN /\ o.undo \in BOOLEAN
        /\ ~Matches(g, e) /\ g.type \notin {"any", "string"} => ~o.fire /\ o.undo
    <3>1. CASE g.type = "bool"
      <4>1. o = IF e.level # g.want THEN Clears(x) ELSE FiresNow(x) BY <1>5, <3>1, Zenon
      <4>3. Matches(g, e) <=> e.level = g.want BY <3>1 DEF Matches
      <4>2. o = Clears(x) \/ (o = FiresNow(x) /\ Matches(g, e)) BY <4>1, <4>3, Zenon
      <4>4. CASE o = Clears(x) BY <2>7, <4>4
      <4>5. CASE o = FiresNow(x) /\ Matches(g, e) BY <2>7, <4>5
      <4> QED BY <4>2, <4>4, <4>5
    <3>2. CASE g.type = "any"
      <4>1. o = [FiresNow(x) EXCEPT !.undo = e.stateful /\ ~e.level] BY <1>5, <3>2
      <4> DEFINE un == e.stateful /\ ~e.level
      <4>2. un \in BOOLEAN /\ o = [FiresNow(x) EXCEPT !.undo = un] BY <2>3, <4>1
      <4> HIDE DEF un
      <4> QED BY <3>2, <4>2 DEF FiresNow
    <3>3. CASE g.type = "aoa_scenario"
      <4>1. o = IF ~e.level THEN Clears(x)
                ELSE IF e.num # g.class THEN Stays(x) ELSE FiresNow(x)
        BY <1>5, <3>3, Zenon
      <4>2. o = Clears(x) \/ (o \in {Stays(x), FiresNow(x)} /\ e.level) BY <4>1
      <4>3. Matches(g, e) <=> e.level BY <3>3 DEF Matches
      <4>4. /\ o.sub = x /\ o.fire \in BOOLEAN /\ o.undo \in BOOLEAN
            /\ (o.fire = FALSE /\ o.undo = TRUE) \/ Matches(g, e)
        BY <2>7, <4>2, <4>3
      <4> QED BY <4>4
    <3>4. CASE g.type = "string"
      <4>1. o \in {Stays(x), FiresNow(x)} BY <1>5, <3>4 DEF OnString
      <4> QED BY <2>7, <3>4, <4>1
    <3> QED BY <1>9, <3>1, <3>2, <3>3, <3>4
  <2>5. m.level = "clear" /\ g.type \notin {"any", "string"} => ~o.fire /\ o.undo
    BY <1>4, <1>9, <2>4 DEF m
  <2>6. SameEntry(s, x) BY <1>1 DEF HasState
  <2> QED BY <1>4, <1>9, <2>2, <2>4, <2>5, <2>6 DEF Answered, m, o
<1> QED BY <1>6, <1>7, <1>8, <1>9 DEF DeviceTypes

(***************************************************************************)
(* The table and its rules.                                                *)
(***************************************************************************)

\* An entry is a trigger or a query of its rule; only queries and device triggers have a
\* subscription, one of those the event service has given out (below id n).
EntryRight(s, n) ==
  /\ s.id < n
  /\ s.passive => /\ 0 - s.idx \in DOMAIN Queries[s.rule]
                  /\ s.cfg = [type |-> "query", topic |-> Queries[s.rule][0 - s.idx]]
  /\ ~s.passive => s.idx \in DOMAIN Triggers[s.rule] /\ s.cfg = Triggers[s.rule][s.idx]
  /\ s.id # 0 => s.passive \/ s.cfg.type \in DeviceTypes

Apart(t) ==
  \A i, j \in DOMAIN t : t[i].rule = t[j].rule /\ Place(t[i]) = Place(t[j]) => i = j

Holds(t, r, p) == \E j \in DOMAIN t : t[j].rule = r /\ Place(t[j]) = p
Filled(t) == \A i \in DOMAIN t : \A p \in 1 .. Place(t[i]) : Holds(t, t[i].rule, p)
Owned(t, n) == \A i \in DOMAIN t : EntryRight(t[i], n)
OneIdEach(t) == \A i, j \in DOMAIN t : t[i].id = t[j].id /\ t[i].id # 0 => i = j

\* The table t serves its rules, with ids below n.
ListOk(t, n) ==
  /\ t \in Seq(Entries) /\ Len(t) <= MAX_SUBS
  /\ Apart(t) /\ Filled(t) /\ Owned(t, n) /\ OneIdEach(t)

\* An entry by its kind.
Proper(s) ==
  /\ s \in Entries /\ IsConfig(s.cfg)
  /\ Place(s) \in 1 .. Len(Triggers[s.rule]) + Len(Queries[s.rule])
  /\ ~s.passive => /\ s.idx \in DOMAIN Triggers[s.rule] /\ s.cfg = Triggers[s.rule][s.idx]
                   /\ Key(s) \in Keys /\ s.idx = Place(s) /\ s.idx > 0
                   /\ Triggers[Key(s)[1]][Key(s)[2]] = s.cfg
  /\ s.passive => s.cfg.type = "query" /\ s.idx < 0

LEMMA ParamFacts ==
  ASSUME NEW r \in Rules
  PROVE  /\ Len(Triggers[r]) \in Nat /\ Len(Queries[r]) \in Nat
         /\ DOMAIN Triggers[r] = 1 .. Len(Triggers[r])
         /\ DOMAIN Queries[r] = 1 .. Len(Queries[r])
         /\ \A i \in DOMAIN Triggers[r] : IsConfig(Triggers[r][i])
<1>1. Triggers[r] \in Seq(Range(Triggers[r])) /\ Queries[r] \in Seq(Range(Queries[r]))
  BY TriggerParams
<1>2. \A i \in DOMAIN Triggers[r] : Triggers[r][i] \in Range(Triggers[r]) BY DEF Range
<1>3. \A c \in Range(Triggers[r]) : IsConfig(c) BY TriggerParams DEF IsConfig
<1>4. ASSUME NEW S, NEW q \in Seq(S) PROVE Len(q) \in Nat /\ DOMAIN q = 1 .. Len(q) OBVIOUS
<1>5. Len(Triggers[r]) \in Nat /\ DOMAIN Triggers[r] = 1 .. Len(Triggers[r]) BY <1>1, <1>4
<1>6. Len(Queries[r]) \in Nat /\ DOMAIN Queries[r] = 1 .. Len(Queries[r]) BY <1>1, <1>4
<1> QED BY <1>2, <1>3, <1>5, <1>6, Zenon

LEMMA EntryProper ==
  ASSUME NEW s \in Entries, NEW n, EntryRight(s, n)
  PROVE  Proper(s)
<1> DEFINE r == s.rule
           a == Len(Triggers[r])
           b == Len(Queries[r])
<1>1. r \in Rules /\ s.idx \in Int /\ s.passive \in BOOLEAN BY EntryTypes
<1>2. /\ a \in Nat /\ b \in Nat /\ DOMAIN Triggers[r] = 1 .. a /\ DOMAIN Queries[r] = 1 .. b
      /\ \A i \in DOMAIN Triggers[r] : IsConfig(Triggers[r][i])
  BY <1>1, ParamFacts
<1>3. CASE s.passive
  <2>1. s.idx < 0 /\ Place(s) = a - s.idx /\ 0 - s.idx \in 1 .. b BY <1>1, <1>2, <1>3 DEF EntryRight, Place
  <2>2. Place(s) \in 1 .. a + b
    <3> HIDE DEF a, b
    <3> QED BY <1>1, <1>2, <2>1
  <2>3. s.cfg.type = "query" BY <1>3 DEF EntryRight
  <2>4. IsConfig(s.cfg) BY <2>3 DEF IsConfig
  <2> QED BY <1>3, <2>1, <2>2, <2>3, <2>4 DEF Proper
<1>4. CASE ~s.passive
  <2>1. /\ s.idx \in DOMAIN Triggers[r] /\ s.cfg = Triggers[r][s.idx] /\ s.idx \in 1 .. a
        /\ Place(s) = s.idx
    BY <1>2, <1>4 DEF EntryRight, Place
  <2>2. Place(s) \in 1 .. a + b /\ s.idx > 0
    <3> HIDE DEF a, b
    <3> QED BY <1>2, <2>1
  <2>3. Key(s) \in Keys /\ Key(s)[1] = r /\ Key(s)[2] = s.idx BY <1>1, <2>1 DEF Key, Keys
  <2> QED BY <1>2, <1>4, <2>1, <2>2, <2>3 DEF Proper
<1> QED BY <1>1, <1>3, <1>4

\* Two places of the table with triggers of one name are one.
LEMMA ListFacts ==
  ASSUME NEW t, NEW n, ListOk(t, n)
  PROVE  /\ Len(t) \in Nat /\ DOMAIN t = 1 .. Len(t)
         /\ \A i \in DOMAIN t : t[i] \in Entries /\ Proper(t[i])
         /\ \A i, j \in DOMAIN t : t[i].rule = t[j].rule /\ t[i].idx = t[j].idx => i = j
<1>1. t \in Seq(Entries) /\ Apart(t) /\ Owned(t, n) BY DEF ListOk
<1>2. Len(t) \in Nat /\ DOMAIN t = 1 .. Len(t) /\ \A i \in DOMAIN t : t[i] \in Entries BY <1>1
<1>3. \A i \in DOMAIN t : Proper(t[i]) BY <1>1, <1>2, EntryProper DEF Owned
<1>4. ASSUME NEW i \in DOMAIN t, NEW j \in DOMAIN t, t[i].rule = t[j].rule, t[i].idx = t[j].idx
      PROVE  i = j
  <2>1. t[i].passive = t[j].passive
    <3>1. t[i].passive \in BOOLEAN /\ t[j].passive \in BOOLEAN BY <1>2, EntryTypes
    <3>2. t[i].passive => t[i].idx < 0 BY <1>3 DEF Proper
    <3>3. t[j].passive => t[j].idx < 0 BY <1>3 DEF Proper
    <3>4. ~t[i].passive => t[i].idx > 0 BY <1>3 DEF Proper
    <3>5. ~t[j].passive => t[j].idx > 0 BY <1>3 DEF Proper
    <3>6. t[i].idx \in Int BY <1>2, EntryTypes
    <3> QED BY <1>4, <3>1, <3>2, <3>3, <3>4, <3>5, <3>6
  <2>2. Place(t[i]) = Place(t[j]) BY <1>4, <2>1 DEF Place
  <2> QED BY <1>1, <1>4, <2>2 DEF Apart
<1> QED BY <1>2, <1>3, <1>4

\* The entries keep their places.
Kept(t, u) ==
  /\ u \in Seq(Entries) /\ Len(u) = Len(t) /\ DOMAIN u = DOMAIN t
  /\ \A i \in DOMAIN t : SameEntry(t[i], u[i])

LEMMA KeptOk ==
  ASSUME NEW t, NEW n, ListOk(t, n), NEW u, Kept(t, u)
  PROVE  ListOk(u, n) /\ SubIds(u) = SubIds(t)
<1>1. /\ u \in Seq(Entries) /\ Len(u) = Len(t) /\ DOMAIN u = DOMAIN t
      /\ \A i \in DOMAIN t : SameEntry(t[i], u[i])
  BY DEF Kept
<1>2. \A i \in DOMAIN t : /\ u[i].rule = t[i].rule /\ u[i].idx = t[i].idx /\ u[i].cfg = t[i].cfg
                          /\ u[i].id = t[i].id /\ u[i].passive = t[i].passive
                          /\ Place(u[i]) = Place(t[i])
  BY <1>1 DEF SameEntry, Place
<1>3. Apart(u) BY <1>1, <1>2 DEF Apart, ListOk
<1>4. Filled(u)
  <2> SUFFICES ASSUME NEW i \in DOMAIN u, NEW p \in 1 .. Place(u[i])
               PROVE  Holds(u, u[i].rule, p)
    BY DEF Filled
  <2>1. Holds(t, t[i].rule, p) BY <1>1, <1>2 DEF ListOk, Filled
  <2> QED BY <1>1, <1>2, <2>1 DEF Holds
<1>5. Owned(u, n)
  <2> SUFFICES ASSUME NEW i \in DOMAIN u PROVE EntryRight(u[i], n) BY DEF Owned
  <2>1. EntryRight(t[i], n) BY <1>1 DEF ListOk, Owned
  <2> QED BY <1>1, <1>2, <2>1 DEF EntryRight
<1>6. OneIdEach(u) BY <1>1, <1>2 DEF OneIdEach, ListOk
<1>7. SubIds(u) = SubIds(t) BY <1>1, <1>2 DEF SubIds
<1> QED BY <1>1, <1>3, <1>4, <1>5, <1>6, <1>7 DEF ListOk

\* Without rule r the table serves the others.
LEMMA UnlistedOk ==
  ASSUME NEW t, NEW n, ListOk(t, n), NEW r, NEW u, u = Without(t, r)
  PROVE  ListOk(u, n) /\ Purged(t, r, u) /\ SubIds(u) \subseteq SubIds(t)
<1>1. /\ t \in Seq(Entries) /\ Len(t) \in Nat /\ Len(t) <= MAX_SUBS /\ DOMAIN t = 1 .. Len(t)
      /\ \A i, j \in DOMAIN t : t[i].rule = t[j].rule /\ t[i].idx = t[j].idx => i = j
  BY ListFacts DEF ListOk
<1>2. Different(t) BY <1>1, Zenon DEF Different
<1>3. u \in Seq(Entries) /\ Purged(t, r, u) BY <1>1, <1>2, WithoutRight
<1>4. /\ Len(u) <= Len(t) /\ \A j, l \in DOMAIN u : u[j] = u[l] => j = l
      /\ \A j \in DOMAIN u : u[j].rule # r /\ \E i \in DOMAIN t : t[i] = u[j]
      /\ \A i \in DOMAIN t : t[i].rule # r => \E j \in DOMAIN u : u[j] = t[i]
  BY <1>3 DEF Purged, Different
<1>5. Len(u) \in Nat /\ DOMAIN u = 1 .. Len(u) BY <1>3
<1>6. Len(u) <= MAX_SUBS BY <1>1, <1>4, <1>5, TableParams
<1>7. Apart(u)
  <2> SUFFICES ASSUME NEW i \in DOMAIN u, NEW j \in DOMAIN u, u[i].rule = u[j].rule,
                      Place(u[i]) = Place(u[j])
               PROVE  i = j
    BY DEF Apart
  <2>1. PICK k \in DOMAIN t : t[k] = u[i] BY <1>4
  <2>2. PICK l \in DOMAIN t : t[l] = u[j] BY <1>4
  <2>3. k = l BY <2>1, <2>2, Zenon DEF ListOk, Apart
  <2> QED BY <1>4, <2>1, <2>2, <2>3
<1>8. Filled(u)
  <2> SUFFICES ASSUME NEW i \in DOMAIN u, NEW p \in 1 .. Place(u[i])
               PROVE  Holds(u, u[i].rule, p)
    BY DEF Filled
  <2>1. PICK k \in DOMAIN t : t[k] = u[i] BY <1>4
  <2>2. Holds(t, u[i].rule, p) BY <2>1 DEF ListOk, Filled
  <2>3. PICK l \in DOMAIN t : t[l].rule = u[i].rule /\ Place(t[l]) = p BY <2>2 DEF Holds
  <2>4. PICK m \in DOMAIN u : u[m] = t[l] BY <1>4, <2>3
  <2> QED BY <2>3, <2>4 DEF Holds
<1>9. Owned(u, n)
  <2> SUFFICES ASSUME NEW i \in DOMAIN u PROVE EntryRight(u[i], n) BY DEF Owned
  <2>1. PICK k \in DOMAIN t : t[k] = u[i] BY <1>4
  <2> QED BY <2>1 DEF ListOk, Owned
<1>10. OneIdEach(u)
  <2> SUFFICES ASSUME NEW i \in DOMAIN u, NEW j \in DOMAIN u, u[i].id = u[j].id, u[i].id # 0
               PROVE  i = j
    BY DEF OneIdEach
  <2>1. PICK k \in DOMAIN t : t[k] = u[i] BY <1>4
  <2>2. PICK l \in DOMAIN t : t[l] = u[j] BY <1>4
  <2>3. k = l BY <2>1, <2>2, Zenon DEF ListOk, OneIdEach
  <2> QED BY <1>4, <2>1, <2>2, <2>3
<1>11. SubIds(u) \subseteq SubIds(t)
  <2> SUFFICES ASSUME NEW i \in DOMAIN u, u[i].id # 0 PROVE u[i].id \in SubIds(t) BY DEF SubIds
  <2>1. PICK k \in DOMAIN t : t[k] = u[i] BY <1>4
  <2> QED BY <2>1 DEF SubIds
<1> QED BY <1>3, <1>6, <1>7, <1>8, <1>9, <1>10, <1>11 DEF ListOk

\* Entry s of rule r is new: p-th of its rule, with the p-th of the ids from n on or none.
NewEntry(s, r, n, p) ==
  /\ s \in Entries /\ s.rule = r /\ Place(s) = p /\ s.since = 0 /\ s.latched = FALSE
  /\ s.id = 0 \/ s.id = n + p - 1
  /\ s.passive => /\ 0 - s.idx \in DOMAIN Queries[s.rule]
                  /\ s.cfg = [type |-> "query", topic |-> Queries[s.rule][0 - s.idx]]
  /\ ~s.passive => s.idx \in DOMAIN Triggers[s.rule] /\ s.cfg = Triggers[s.rule][s.idx]
  /\ s.id # 0 => s.passive \/ s.cfg.type \in DeviceTypes

NewEntries(add, r, n) ==
  /\ add \in Seq(Entries) /\ Len(add) = Len(Triggers[r]) + Len(Queries[r])
  /\ \A p \in DOMAIN add : NewEntry(add[p], r, n, p)

LEMMA WantedRight ==
  ASSUME NEW r \in Rules, NEW n \in Nat \ {0}, NEW ok \in BOOLEAN
  PROVE  NewEntries(Wanted(r, n, ok), r, n)
<1> DEFINE T == Triggers[r]
           Q == Queries[r]
           a == Len(T)
           b == Len(Q)
           F(i) == NewSub(r, i, T[i], IF T[i].type \in DeviceTypes /\ ok THEN n + i - 1 ELSE 0, FALSE)
           G(i) == NewSub(r, 0 - i, [type |-> "query", topic |-> Q[i]],
                          IF ok THEN n + a + i - 1 ELSE 0, TRUE)
           f == [i \in 1 .. a |-> F(i)]
           g == [i \in 1 .. b |-> G(i)]
           add == Wanted(r, n, ok)
<1>1. add = f \o g BY DEF Wanted
<1>2. a \in Nat /\ b \in Nat /\ DOMAIN T = 1 .. a /\ DOMAIN Q = 1 .. b BY ParamFacts
<1>3. ASSUME NEW i \in 1 .. a PROVE NewEntry(F(i), r, n, i)
  <2> DEFINE id == IF T[i].type \in DeviceTypes /\ ok THEN n + i - 1 ELSE 0
             s == F(i)
  <2>1. id \in Nat /\ (id = 0 \/ id = n + i - 1) /\ (id # 0 => T[i].type \in DeviceTypes)
        /\ i \in Int /\ i \in DOMAIN T
    BY <1>2
  <2>2. T[i] \in Configs(r) BY <2>1 DEF Configs, Range
  <2>3. s = NewSub(r, i, T[i], id, FALSE) OBVIOUS
  <2> HIDE DEF s, id
  <2>4. /\ s \in Entries /\ s.rule = r /\ s.idx = i /\ s.cfg = T[i] /\ s.id = id
        /\ s.passive = FALSE /\ s.since = 0 /\ s.latched = FALSE
    <3>1. T[i] \in UNION {Configs(q) : q \in Rules} BY <2>2
    <3> QED BY <2>1, <2>3, <3>1 DEF NewSub, Entries
  <2>5. Place(s) = i BY <2>4 DEF Place
  <2>6. NewEntry(s, r, n, i) BY <2>1, <2>4, <2>5 DEF NewEntry
  <2> QED BY <2>6 DEF s
<1>4. ASSUME NEW i \in 1 .. b PROVE NewEntry(G(i), r, n, a + i)
  <2> DEFINE id == IF ok THEN n + a + i - 1 ELSE 0
             c == [type |-> "query", topic |-> Q[i]]
             s == G(i)
  <2>1. id \in Nat /\ (id = 0 \/ id = n + (a + i) - 1) /\ 0 - i \in Int /\ 0 - (0 - i) = i
        /\ i \in DOMAIN Q /\ a - (0 - i) = a + i
    <3> HIDE DEF a
    <3> QED BY <1>2
  <2>2. c \in Configs(r) BY <2>1 DEF Configs, Range
  <2>3. s = NewSub(r, 0 - i, c, id, TRUE) OBVIOUS
  <2> HIDE DEF s, id
  <2>4. /\ s \in Entries /\ s.rule = r /\ s.idx = 0 - i /\ s.cfg = c /\ s.id = id
        /\ s.passive = TRUE /\ s.since = 0 /\ s.latched = FALSE
    <3> HIDE DEF c
    <3>1. c \in UNION {Configs(q) : q \in Rules} BY <2>2
    <3> QED BY <2>1, <2>3, <3>1 DEF NewSub, Entries
  <2>5. Place(s) = a + i BY <2>1, <2>4 DEF Place
  <2>6. 0 - s.idx = i BY <2>1, <2>4
  <2>7. s.cfg = [type |-> "query", topic |-> Queries[s.rule][0 - s.idx]] BY <2>4, <2>6
  <2>8. NewEntry(s, r, n, a + i)
    <3> HIDE DEF a, c
    <3> QED BY <2>1, <2>4, <2>5, <2>6, <2>7 DEF NewEntry
  <2> QED BY <2>8 DEF s
<1>5. (\A i \in 1 .. a : F(i) \in Entries) /\ (\A i \in 1 .. b : G(i) \in Entries)
  BY <1>3, <1>4 DEF NewEntry
<1>6. /\ f \in Seq(Entries) /\ Len(f) = a /\ g \in Seq(Entries) /\ Len(g) = b
      /\ (\A i \in 1 .. a : f[i] = F(i)) /\ (\A i \in 1 .. b : g[i] = G(i))
  <2> HIDE DEF F, G, a, b
  <2> QED BY <1>2, <1>5
<1> HIDE DEF f, g, F, G, a, b
<1>7. /\ add \in Seq(Entries) /\ Len(add) = a + b /\ DOMAIN add = 1 .. a + b
      /\ \A p \in 1 .. a + b : add[p] = IF p <= a THEN f[p] ELSE g[p - a]
  <2> HIDE DEF add
  <2>1. /\ f \o g \in Seq(Entries) /\ Len(f \o g) = Len(f) + Len(g)
        /\ \A p \in 1 .. Len(f) + Len(g) : (f \o g)[p] = IF p <= Len(f) THEN f[p] ELSE g[p - Len(f)]
    BY <1>6, ConcatProperties
  <2>2. /\ add \in Seq(Entries) /\ Len(add) = a + b
        /\ \A p \in 1 .. a + b : add[p] = IF p <= a THEN f[p] ELSE g[p - a]
    BY <1>1, <1>6, <2>1, Zenon
  <2> QED BY <2>2
<1>8. ASSUME NEW p \in DOMAIN add PROVE NewEntry(add[p], r, n, p)
  <2>1. CASE p <= a
    <3>1. p \in 1 .. a BY <1>2, <1>7, <2>1
    <3> QED BY <1>3, <1>6, <1>7, <2>1, <3>1
  <2>2. CASE ~(p <= a)
    <3>1. p - a \in 1 .. b /\ a + (p - a) = p BY <1>2, <1>7, <2>2
    <3> QED BY <1>4, <1>6, <1>7, <2>2, <3>1
  <2> QED BY <2>1, <2>2
<1> QED BY <1>7, <1>8 DEF NewEntries, a, b

\* u is t and as many of `add` as fit.
Extended(t, add, u) ==
  /\ u \in Seq(Entries) /\ Len(u) \in Len(t) .. Len(t) + Len(add) /\ Len(u) <= MAX_SUBS
  /\ DOMAIN u = 1 .. Len(u)
  /\ \A i \in DOMAIN u : u[i] = IF i <= Len(t) THEN t[i] ELSE add[i - Len(t)]

LEMMA FittingRight ==
  ASSUME NEW t \in Seq(Entries), Len(t) <= MAX_SUBS, NEW add \in Seq(Entries)
  PROVE  Extended(t, add, Fitting(t, add))
<1> DEFINE a == Len(t)
           b == Len(add)
           room == MAX_SUBS - a
           m == IF b <= room THEN b ELSE room
           h == SubSeq(add, 1, m)
           u == Fitting(t, add)
<1>1. a \in Nat /\ b \in Nat /\ room \in Nat /\ m \in Nat /\ m <= b /\ a + m <= MAX_SUBS
  <2>1. a \in Nat /\ b \in Nat OBVIOUS
  <2> HIDE DEF a, b
  <2> QED BY <2>1, TableParams DEF a
<1>2. u = t \o h BY DEF Fitting
<1>3. \A i \in 1 .. b : add[i] \in Entries OBVIOUS
<1> HIDE DEF m, room, u
<1>4. /\ h \in Seq(Entries) /\ Len(h) = m /\ \A i \in 1 .. m : h[i] = add[i]
  <2>1. 1 \in Int /\ m \in Int /\ \A i \in 1 .. m : add[i] \in Entries BY <1>1, <1>3
  <2>2. /\ h \in Seq(Entries) /\ Len(h) = IF 1 <= m THEN m - 1 + 1 ELSE 0
        /\ \A i \in 1 .. m - 1 + 1 : h[i] = add[1 + i - 1]
    BY <2>1, SubSeqProperties
  <2>3. m - 1 + 1 = m /\ (IF 1 <= m THEN m - 1 + 1 ELSE 0) = m /\ \A j \in 1 .. m : 1 + j - 1 = j
    BY <1>1
  <2> HIDE DEF h
  <2> QED BY <2>2, <2>3, Zenon
<1> HIDE DEF h
<1>5. /\ u \in Seq(Entries) /\ Len(u) = a + m
      /\ \A i \in 1 .. a + m : u[i] = IF i <= a THEN t[i] ELSE h[i - a]
  <2>1. /\ t \o h \in Seq(Entries) /\ Len(t \o h) = Len(t) + Len(h)
        /\ \A p \in 1 .. Len(t) + Len(h) : (t \o h)[p] = IF p <= Len(t) THEN t[p] ELSE h[p - Len(t)]
    BY <1>4, ConcatProperties
  <2> QED BY <1>2, <1>4, <2>1, Zenon
<1> HIDE DEF a, b
<1>6. /\ Len(u) \in a .. a + b /\ DOMAIN u = 1 .. Len(u) /\ Len(u) <= MAX_SUBS
  BY <1>1, <1>5
<1>7. \A i \in DOMAIN u : u[i] = IF i <= a THEN t[i] ELSE add[i - a]
  <2> SUFFICES ASSUME NEW i \in DOMAIN u PROVE u[i] = IF i <= a THEN t[i] ELSE add[i - a] OBVIOUS
  <2>1. i \in 1 .. a + m BY <1>5, <1>6
  <2>2. ~(i <= a) => i - a \in 1 .. m BY <1>1, <2>1
  <2> QED BY <1>4, <1>5, <2>1, <2>2
<1> QED BY <1>5, <1>6, <1>7 DEF Extended, a, b, u

\* A rule that enters a table without it.
LEMMA EnteredOk ==
  ASSUME NEW t, NEW n \in Nat \ {0}, ListOk(t, n), NEW r \in Rules,
         \A i \in DOMAIN t : t[i].rule # r,
         NEW add, NewEntries(add, r, n), NEW u, Extended(t, add, u)
  PROVE  ListOk(u, n + Len(add))
<1> DEFINE a == Len(t)
           b == Len(add)
<1>1. /\ a \in Nat /\ DOMAIN t = 1 .. a
      /\ \A i \in DOMAIN t : t[i] \in Entries /\ Proper(t[i])
      /\ t \in Seq(Entries)
  BY ListFacts DEF ListOk
<1>2. b \in Nat /\ DOMAIN add = 1 .. b /\ \A p \in 1 .. b : NewEntry(add[p], r, n, p)
  <2>1. add \in Seq(Entries) /\ \A p \in DOMAIN add : NewEntry(add[p], r, n, p) BY DEF NewEntries
  <2>2. Len(add) \in Nat /\ DOMAIN add = 1 .. Len(add) BY <2>1
  <2> QED BY <2>1, <2>2
<1>3. /\ u \in Seq(Entries) /\ Len(u) \in a .. a + b /\ Len(u) <= MAX_SUBS
      /\ DOMAIN u = 1 .. Len(u)
      /\ \A i \in DOMAIN u : u[i] = IF i <= a THEN t[i] ELSE add[i - a]
  BY DEF Extended
<1> HIDE DEF a, b
<1>4. /\ \A i \in DOMAIN u : i <= a \/ i - a \in 1 .. b
      /\ \A i \in DOMAIN u : i <= a => i \in DOMAIN t
      /\ \A i \in DOMAIN t : i \in DOMAIN u /\ i <= a
      /\ DOMAIN u \subseteq Nat
  BY <1>1, <1>2, <1>3
<1>5. \A i \in DOMAIN u : i <= a => u[i] = t[i] /\ u[i].rule # r BY <1>3, <1>4
<1>6. \A i \in DOMAIN u : ~(i <= a) =>
        u[i] = add[i - a] /\ NewEntry(u[i], r, n, i - a) /\ u[i].rule = r /\ i - a \in 1 .. b
  BY <1>2, <1>3, <1>4 DEF NewEntry
<1>7. Apart(u)
  <2> SUFFICES ASSUME NEW i \in DOMAIN u, NEW j \in DOMAIN u, u[i].rule = u[j].rule,
                      Place(u[i]) = Place(u[j])
               PROVE  i = j
    BY DEF Apart
  <2>1. CASE i <= a
    <3>1. j <= a BY <1>5, <1>6, <2>1
    <3> QED BY <1>4, <1>5, <2>1, <3>1, Zenon DEF Apart, ListOk
  <2>2. CASE ~(i <= a)
    <3>1. ~(j <= a) BY <1>5, <1>6, <2>2
    <3>2. i - a = j - a BY <1>6, <2>2, <3>1 DEF NewEntry
    <3> QED BY <1>1, <1>4, <3>2
  <2> QED BY <2>1, <2>2
<1>8. Filled(u)
  <2> SUFFICES ASSUME NEW i \in DOMAIN u, NEW p \in 1 .. Place(u[i])
               PROVE  Holds(u, u[i].rule, p)
    BY DEF Filled
  <2>1. CASE i <= a
    <3>1. u[i] = t[i] /\ i \in DOMAIN t BY <1>4, <1>5, <2>1
    <3>2. Holds(t, t[i].rule, p) BY <3>1 DEF ListOk, Filled
    <3>3. PICK l \in DOMAIN t : t[l].rule = u[i].rule /\ Place(t[l]) = p BY <3>1, <3>2 DEF Holds
    <3>4. l \in DOMAIN u /\ u[l] = t[l] BY <1>4, <1>5
    <3> QED BY <3>3, <3>4 DEF Holds
  <2>2. CASE ~(i <= a)
    <3>1. Place(u[i]) = i - a /\ u[i].rule = r BY <1>6, <2>2 DEF NewEntry
    <3>2. p \in 1 .. i - a BY <3>1
    <3>3. a + p \in DOMAIN u /\ ~(a + p <= a) /\ (a + p) - a = p BY <1>1, <1>3, <1>4, <3>2
    <3>4. u[a + p].rule = r /\ Place(u[a + p]) = p BY <1>6, <3>3 DEF NewEntry
    <3> QED BY <3>1, <3>3, <3>4 DEF Holds
  <2> QED BY <2>1, <2>2
<1>9. Owned(u, n + b)
  <2> SUFFICES ASSUME NEW i \in DOMAIN u PROVE EntryRight(u[i], n + b) BY DEF Owned
  <2>1. CASE i <= a
    <3>1. u[i] = t[i] /\ EntryRight(t[i], n) BY <1>4, <1>5, <2>1 DEF ListOk, Owned
    <3>2. t[i].id \in Nat BY <1>1, <1>4, <2>1, EntryTypes
    <3>3. t[i].id < n + b BY <1>2, <3>1, <3>2 DEF EntryRight
    <3> QED BY <3>1, <3>3 DEF EntryRight
  <2>2. CASE ~(i <= a)
    <3> DEFINE p == i - a
    <3>1. NewEntry(u[i], r, n, p) /\ p \in 1 .. b BY <1>6, <2>2
    <3> HIDE DEF p
    <3>2. u[i].id < n + b BY <1>2, <3>1 DEF NewEntry
    <3> QED BY <3>1, <3>2 DEF NewEntry, EntryRight
  <2> QED BY <2>1, <2>2
<1>10. OneIdEach(u)
  <2> SUFFICES ASSUME NEW i \in DOMAIN u, NEW j \in DOMAIN u, u[i].id = u[j].id, u[i].id # 0
               PROVE  i = j
    BY DEF OneIdEach
  <2>1. \A k \in DOMAIN u : k <= a => u[k].id < n /\ u[k].id \in Nat
    <3>1. \A k \in DOMAIN u : k <= a => EntryRight(u[k], n) /\ u[k] \in Entries
      BY <1>1, <1>4, <1>5 DEF ListOk, Owned
    <3> QED BY <3>1, EntryTypes DEF EntryRight
  <2>2. \A k \in DOMAIN u : ~(k <= a) => u[k].id = 0 \/ u[k].id = n + (k - a) - 1
    BY <1>6 DEF NewEntry
  <2>3. CASE i <= a /\ j <= a
    BY <1>4, <1>5, <2>3, Zenon DEF ListOk, OneIdEach
  <2>4. CASE i <= a /\ ~(j <= a)
    <3>1. u[j].id = n + (j - a) - 1 /\ u[j].id < n BY <2>1, <2>2, <2>4
    <3> QED BY <1>1, <1>4, <2>4, <3>1
  <2>5. CASE ~(i <= a) /\ j <= a
    <3>1. u[i].id = n + (i - a) - 1 /\ u[i].id < n BY <2>1, <2>2, <2>5
    <3> QED BY <1>1, <1>4, <2>5, <3>1
  <2>6. CASE ~(i <= a) /\ ~(j <= a)
    <3>1. n + (i - a) - 1 = n + (j - a) - 1 BY <2>2, <2>6
    <3> QED BY <1>1, <1>4, <3>1
  <2> QED BY <2>3, <2>4, <2>5, <2>6
<1> QED BY <1>3, <1>7, <1>8, <1>9, <1>10 DEF ListOk, b

(***************************************************************************)
(* The inductive invariant.                                                *)
(***************************************************************************)

\* What is on its way: one copy of an event per subscription, for a topic it subscribed, and
\* none the trigger has fired on.
QueueOk(Q, t, F) ==
  /\ \A c, d \in Q : c.n = d.n /\ c.id = d.id => c = d
  /\ \A c \in Q : \A i \in DOMAIN t : t[i].id = c.id =>
       t[i].cfg.topic = c.ev.topic /\ <<t[i].rule, t[i].idx, c.n>> \notin F

\* Holds and latches agree with what the triggers have seen.
SeenOk(t, sn, time) ==
  /\ \A k \in Keys : sn[k].since <= time
  /\ \A i \in DOMAIN t : ~t[i].passive => EntrySeen(t[i], sn[Key(t[i])])

\* What a walk owes has been met or is ahead of it, and nothing ahead has been met.
Ahead(wk, t, k) == \E i \in DOMAIN t : i >= wk.at /\ Key(t[i]) = k /\ Named(t[i], wk.token)
WalkOk(wk, t) ==
  /\ wk.at \in Nat
  /\ wk.at > 0 => \A k \in wk.must : k \in wk.hit \/ Ahead(wk, t, k)
  /\ \A i \in DOMAIN t : i >= wk.at => Key(t[i]) \notin wk.hit

\* A rule whose only trigger undoes effects when its condition clears.
Undoing == DeviceTypes \ {"io_input", "any", "string"}
Lone(r) == Len(Triggers[r]) = 1 /\ Triggers[r][1].type \in Undoing

Nothing(r, w) == \A k \in DOMAIN w.undoable : k[1] # r

\* Of such a rule nothing can be undone once its condition is clear or its threshold open.
LoneOk(r, w, t, sn) ==
  /\ sn[<<r, 1>>].level = "clear" => Nothing(r, w)
  /\ Triggers[r][1].type = "value" =>
       \A i \in DOMAIN t : t[i].rule = r /\ ~t[i].passive /\ ~t[i].latched => Nothing(r, w)

EffectsOk(w, t, sn, R) == WaRight(w) /\ \A r \in Rules \ R : Lone(r) => LoneOk(r, w, t, sn)

Basics ==
  /\ now \in 1 .. MaxTime + 1 /\ nextId \in Nat \ {0} /\ counter \in Values \cup {0}
  /\ queue \subseteq [n : 1 .. events, ev : Events, id : 1 .. nextId - 1]
  /\ status \in [Rules -> {"enabled", "disabled", "gone"}]
  /\ events \in 0 .. MaxEvents /\ jobs \in 0 .. MaxJobs
  /\ seen \in [Keys -> Views]
  /\ fired \subseteq {<<k[1], k[2], n>> : k \in Keys, n \in 1 .. events}
  /\ loose \subseteq Rules

TableInv ==
  /\ Basics
  /\ ListOk(subs, nextId) /\ live = SubIds(subs)
  /\ QueueOk(queue, subs, fired)
  /\ SeenOk(subs, seen, now)
  /\ WalkOk(walk, subs)
  /\ EffectsOk(Held, subs, seen, loose)
  /\ wrong = {}

LEMMA InvTypes ==
  ASSUME TableInv
  PROVE  TableTypes
<1>1. Held.undoable = undoable /\ Held.on = on BY DEF Held
<1>2. WaRight(Held) BY DEF TableInv, EffectsOk
<1>3. /\ undoable \in [DOMAIN undoable -> UNION {EffectsOf(r) : r \in Rules}]
      /\ IsFiniteSet(DOMAIN undoable) /\ Cardinality(DOMAIN undoable) <= MAX_WHILE_ACTIVE
      /\ \A k \in DOMAIN undoable :
           k[1] \in Rules /\ undoable[k] \in EffectsOf(k[1]) /\ k = <<k[1], undoable[k].atype>>
      /\ on \subseteq UNION {{<<r, e>> : e \in EffectsOf(r)} : r \in Rules}
  BY <1>1, <1>2, Zenon DEF WaRight
<1>4. subs \in Seq(Entries) /\ Len(subs) <= MAX_SUBS BY DEF TableInv, ListOk
<1>5. walk.at \in Nat BY DEF TableInv, WalkOk
<1>6. Basics BY DEF TableInv
<1> QED BY <1>3, <1>4, <1>5, <1>6 DEF Basics, Views, TableTypes

LEMMA InvServes ==
  ASSUME TableInv
  PROVE  TableServesRules
<1>1. ListOk(subs, nextId) /\ live = SubIds(subs) BY DEF TableInv
<1>2. \A i, j \in DOMAIN subs :
       subs[i].rule = subs[j].rule /\ Place(subs[i]) = Place(subs[j]) => i = j
  BY <1>1, Zenon DEF ListOk, Apart
<1>3. ASSUME NEW s \in Table
      PROVE  /\ Place(s) \in 1 .. Len(Triggers[s.rule]) + Len(Queries[s.rule])
             /\ \A p \in 1 .. Place(s) : \E x \in Table : x.rule = s.rule /\ Place(x) = p
  <2>1. PICK i \in DOMAIN subs : subs[i] = s BY DEF Table
  <2>2. Proper(s) BY <1>1, <2>1, ListFacts
  <2>3. ASSUME NEW p \in 1 .. Place(s) PROVE \E x \in Table : x.rule = s.rule /\ Place(x) = p
    <3>1. Holds(subs, s.rule, p) BY <1>1, <2>1 DEF ListOk, Filled
    <3> QED BY <3>1 DEF Holds, Table
  <2> QED BY <2>2, <2>3 DEF Proper
<1> QED BY <1>1, <1>2, <1>3 DEF TableServesRules

LEMMA InvEnds ==
  ASSUME TableInv
  PROVE  EffectsEndIfUndoable
<1>1. Held.undoable = undoable /\ Held.on = on /\ EffectsOk(Held, subs, seen, loose)
  BY DEF TableInv, Held
<1>2. SUFFICES ASSUME NEW x \in on, Cleared(x[1]), Triggers[x[1]][1].type \notin {"io_input", "any", "string"},
                      x[1] \notin loose, <<x[1], x[2].atype>> \in DOMAIN undoable
               PROVE  FALSE
  BY DEF EffectsEndIfUndoable
<1> DEFINE r == x[1]
           k == <<x[1], x[2].atype>>
<1>3. k[1] = r /\ k \in DOMAIN undoable BY <1>2
<1>4. r \in Rules BY <1>1, <1>3 DEF EffectsOk, WaRight
<1>5. Lone(r) BY <1>2 DEF Lone, Undoing, Cleared
<1>6. Nothing(r, Held) BY <1>1, <1>2, <1>4, <1>5 DEF EffectsOk, LoneOk, Cleared
<1> QED BY <1>1, <1>3, <1>6 DEF Nothing

\* Entries that keep their places keep what is on its way to them, and the walk.
LEMMA KeptQueue ==
  ASSUME NEW t, NEW u, Kept(t, u), NEW Q, NEW F, QueueOk(Q, t, F)
  PROVE  QueueOk(Q, u, F)
<1>1. /\ DOMAIN u = DOMAIN t
      /\ \A i \in DOMAIN t : /\ u[i].id = t[i].id /\ u[i].cfg = t[i].cfg
                             /\ u[i].rule = t[i].rule /\ u[i].idx = t[i].idx
  BY DEF Kept, SameEntry
<1> QED BY <1>1 DEF QueueOk

LEMMA KeptWalk ==
  ASSUME NEW t, NEW u, Kept(t, u), NEW wk, WalkOk(wk, t)
  PROVE  WalkOk(wk, u)
<1>1. /\ DOMAIN u = DOMAIN t
      /\ \A i \in DOMAIN t : Key(u[i]) = Key(t[i]) /\ u[i].cfg = t[i].cfg
  BY DEF Kept, SameEntry, Key
<1>2. \A k : Ahead(wk, t, k) => Ahead(wk, u, k) BY <1>1 DEF Ahead, Named
<1>3. \A i \in DOMAIN u : i >= wk.at => Key(u[i]) \notin wk.hit BY <1>1 DEF WalkOk
<1> QED BY <1>2, <1>3, Zenon DEF WalkOk

\* From w to v no rule with a lone trigger has got an effect that can be undone.
NoneNew(w, v) == \A r \in Rules : Lone(r) /\ Nothing(r, w) => Nothing(r, v)

\* The entries of such a rule are not queries, and are its trigger.
LEMMA LoneEntry ==
  ASSUME NEW s, Proper(s), ~s.passive, Lone(s.rule)
  PROVE  s.idx = 1 /\ s.cfg = Triggers[s.rule][1] /\ Key(s) = <<s.rule, 1>>
<1>1. s.idx \in DOMAIN Triggers[s.rule] /\ s.cfg = Triggers[s.rule][s.idx] /\ s.rule \in Rules
  BY EntryTypes DEF Proper
<1>2. DOMAIN Triggers[s.rule] = 1 .. 1 BY <1>1, ParamFacts DEF Lone
<1>3. s.idx = 1 BY <1>1, <1>2
<1> QED BY <1>1, <1>3 DEF Key

\* A loop that fires no device trigger with a lone rule.
LEMMA QuietServe ==
  ASSUME NEW n, ListOk(subs, n), NEW w, WaRight(w), NEW undo, undo \subseteq DOMAIN subs,
         NEW hit, hit \subseteq DOMAIN subs,
         \A i \in hit : ~subs[i].passive /\ subs[i].cfg.type \notin Undoing
  PROVE  WaRight(Serve(w, undo, hit)) /\ NoneNew(w, Serve(w, undo, hit))
<1> DEFINE v == Serve(w, undo, hit)
<1>1. Served(w, Len(subs), undo, hit, v) BY ServeRight DEF ListOk
<1> HIDE DEF v
<1>2. ASSUME NEW r \in Rules, Lone(r), Nothing(r, w), NEW k \in DOMAIN v.undoable, k[1] = r
      PROVE  FALSE
  <2>1. k \notin DOMAIN w.undoable BY <1>2 DEF Nothing
  <2>2. PICK i \in hit : subs[i].rule = k[1] BY <1>1, <1>2, <2>1 DEF Served
  <2>3. Proper(subs[i]) /\ ~subs[i].passive BY ListFacts
  <2>4. subs[i].cfg = Triggers[r][1] BY <1>2, <2>2, <2>3, LoneEntry
  <2> QED BY <1>2, <2>4 DEF Lone
<1>3. NoneNew(w, v) BY <1>2 DEF NoneNew, Nothing
<1> QED BY <1>1, <1>3 DEF Served, v

LEMMA NoneNewAgain ==
  ASSUME NEW w, NEW v, NEW u, NoneNew(w, v), NoneNew(v, u)
  PROVE  NoneNew(w, u)
BY Zenon DEF NoneNew

\* The latches of thresholds are as before.
LatchesKept(t, u) ==
  \A i \in DOMAIN t : ~t[i].passive /\ t[i].cfg.type = "value" => u[i].latched = t[i].latched

LEMMA EffectsStay ==
  ASSUME NEW t, NEW n, ListOk(t, n), NEW w, NEW sn, NEW R, EffectsOk(w, t, sn, R),
         NEW v, WaRight(v), NoneNew(w, v), NEW u, Kept(t, u), LatchesKept(t, u)
  PROVE  EffectsOk(v, u, sn, R)
<1>1. SUFFICES ASSUME NEW r \in Rules \ R, Lone(r) PROVE LoneOk(r, v, u, sn) BY DEF EffectsOk
<1>2. LoneOk(r, w, t, sn) BY <1>1 DEF EffectsOk
<1>3. Nothing(r, w) => Nothing(r, v) BY <1>1 DEF NoneNew
<1>4. ASSUME Triggers[r][1].type = "value", NEW i \in DOMAIN u, u[i].rule = r, ~u[i].passive,
             ~u[i].latched
      PROVE  Nothing(r, w)
  <2>1. i \in DOMAIN t /\ SameEntry(t[i], u[i]) BY <1>4 DEF Kept
  <2>2. t[i].rule = r /\ ~t[i].passive /\ Proper(t[i]) BY <1>4, <2>1, ListFacts DEF SameEntry
  <2>3. t[i].cfg = Triggers[r][1] BY <1>1, <2>2, LoneEntry
  <2>4. ~t[i].latched BY <1>4, <2>1, <2>2, <2>3 DEF LatchesKept
  <2> QED BY <1>2, <1>4, <2>1, <2>2, <2>4 DEF LoneOk
<1> QED BY <1>2, <1>3, <1>4 DEF LoneOk

(***************************************************************************)
(* The initial state and the steps.                                        *)
(***************************************************************************)

LEMMA InitInv ==
  ASSUME TableInit
  PROVE  TableInv
<1>1. subs = <<>> /\ DOMAIN subs = {} /\ nextId = 1 /\ live = {} /\ queue = {}
  BY DEF TableInit
<1>2. seen = [k \in Keys |-> Unseen] BY DEF TableInit, Keys
<1>3. \A k \in Keys : seen[k] = Unseen BY <1>2
<1>4. seen \in [Keys -> Views] BY <1>2 DEF Unseen, Views
<1>5. Basics
  <2>1. MaxTime \in Nat /\ MaxEvents \in Nat /\ MaxJobs \in Nat BY TableParams
  <2> QED BY <1>1, <1>4, <2>1 DEF TableInit, Basics
<1>6. ListOk(subs, nextId) /\ live = SubIds(subs)
  <2>1. subs \in Seq(Entries) /\ Len(subs) = 0 BY <1>1
  <2>2. Len(subs) <= MAX_SUBS BY <2>1, TableParams
  <2> QED BY <1>1, <2>1, <2>2 DEF ListOk, Apart, Filled, Owned, OneIdEach, SubIds
<1>7. QueueOk(queue, subs, fired) BY <1>1 DEF QueueOk
<1>8. SeenOk(subs, seen, now) BY <1>1, <1>3 DEF SeenOk, Unseen, TableInit
<1>9. WalkOk(walk, subs) BY DEF WalkOk, TableInit, Resting
<1>10. EffectsOk(Held, subs, seen, loose)
  <2>1. Held.undoable = [k \in {} |-> 0] /\ Held.on = {} /\ DOMAIN Held.undoable = {}
    BY DEF Held, TableInit
  <2>2. IsFiniteSet({}) /\ Cardinality({}) = 0 BY FS_EmptySet
  <2>3. Held.undoable \in [{} -> UNION {EffectsOf(r) : r \in Rules}] BY <2>1
  <2>4. WaRight(Held) BY <2>1, <2>2, <2>3, TableParams DEF WaRight
  <2>5. \A r : Nothing(r, Held) BY <2>1 DEF Nothing
  <2> QED BY <2>4, <2>5 DEF EffectsOk, LoneOk
<1>11. wrong = {} BY DEF TableInit
<1> QED BY <1>5, <1>6, <1>7, <1>8, <1>9, <1>10, <1>11 DEF TableInv

\* Nothing of the table has changed.
LEMMA StutterInv ==
  ASSUME TableInv, UNCHANGED tableVars
  PROVE  TableInv'
<1>1. /\ now' = now /\ subs' = subs /\ live' = live /\ nextId' = nextId /\ queue' = queue
      /\ counter' = counter /\ undoable' = undoable /\ on' = on /\ walk' = walk
      /\ status' = status /\ events' = events /\ jobs' = jobs /\ seen' = seen
      /\ fired' = fired /\ wrong' = wrong /\ loose' = loose
  BY DEF tableVars, ghost
<1>2. Basics' BY <1>1 DEF TableInv, Basics
<1>3. Held' = Held BY <1>1 DEF Held
<1> QED BY <1>1, <1>2, <1>3 DEF TableInv

\* A step that leaves the table, what is on its way and what was seen alone.
LEMMA EffectsStep ==
  ASSUME TableInv, Basics',
         UNCHANGED <<now, subs, live, nextId, queue, seen, fired, loose>>,
         WaRight(Held'), NoneNew(Held, Held'), WalkOk(walk', subs), wrong' = {}
  PROVE  TableInv'
<1>1. ListOk(subs, nextId) /\ EffectsOk(Held, subs, seen, loose) BY DEF TableInv
<1>2. Kept(subs, subs) /\ LatchesKept(subs, subs)
  <2>1. subs \in Seq(Entries) BY <1>1 DEF ListOk
  <2> QED BY <2>1, EntryTypes DEF Kept, LatchesKept, SameEntry
<1> DEFINE h == Held'
<1>3. WaRight(h) /\ NoneNew(Held, h) OBVIOUS
<1> HIDE DEF h
<1>4. EffectsOk(h, subs, seen, loose) BY <1>1, <1>2, <1>3, EffectsStay
<1> QED BY <1>4 DEF TableInv, h

LEMMA OccurInv ==
  ASSUME TableInv, NEW e \in Events, Occur(e)
  PROVE  TableInv'
<1> DEFINE add == {[n |-> events + 1, ev |-> e, id |-> s.id] :
                     s \in {x \in Table : x.id # 0 /\ x.cfg.topic = e.topic}}
<1>1. /\ events' = events + 1 /\ events < MaxEvents /\ queue' = queue \cup add
      /\ now' = now /\ subs' = subs /\ live' = live /\ nextId' = nextId
      /\ counter' = counter /\ undoable' = undoable /\ on' = on /\ walk' = walk
      /\ status' = status /\ jobs' = jobs /\ seen' = seen
      /\ fired' = fired /\ wrong' = wrong /\ loose' = loose
  BY DEF Occur, MoreEvents, ghost
<1>2. /\ Basics /\ ListOk(subs, nextId) /\ QueueOk(queue, subs, fired) BY DEF TableInv
<1>3. /\ events \in Nat /\ nextId \in Nat \ {0} /\ MaxEvents \in Nat
      /\ queue \subseteq [n : 1 .. events, ev : Events, id : 1 .. nextId - 1]
  BY <1>2, TableParams DEF Basics
<1>4. ASSUME NEW c \in add
      PROVE  /\ c \in [n : 1 .. events + 1, ev : Events, id : 1 .. nextId - 1]
             /\ c.n = events + 1 /\ c.ev = e
             /\ \E i \in DOMAIN subs : subs[i].id = c.id /\ c.id # 0 /\ subs[i].cfg.topic = e.topic
  <2>1. PICK s \in Table : s.id # 0 /\ s.cfg.topic = e.topic
                           /\ c = [n |-> events + 1, ev |-> e, id |-> s.id]
    OBVIOUS
  <2>2. PICK i \in DOMAIN subs : subs[i] = s BY DEF Table
  <2>3. s \in Entries /\ EntryRight(s, nextId) BY <1>2, <2>2, ListFacts DEF ListOk, Owned
  <2>4. s.id \in 1 .. nextId - 1 BY <1>3, <2>1, <2>3, EntryTypes DEF EntryRight
  <2>5. events + 1 \in 1 .. events + 1 BY <1>3
  <2> QED BY <2>1, <2>2, <2>4, <2>5
<1> HIDE DEF add
<1>5. \A c \in queue : /\ c \in [n : 1 .. events + 1, ev : Events, id : 1 .. nextId - 1]
                       /\ c.n # events + 1
  <2>1. 1 .. events \subseteq 1 .. events + 1 /\ events + 1 \notin 1 .. events BY <1>3
  <2> HIDE DEF TableInv
  <2> QED BY <1>3, <2>1
<1>6. Basics'
  <2>1. queue' \subseteq [n : 1 .. events', ev : Events, id : 1 .. nextId' - 1]
    BY <1>1, <1>4, <1>5
  <2>2. events' \in 0 .. MaxEvents BY <1>1, <1>3
  <2>3. fired' \subseteq {<<k[1], k[2], n>> : k \in Keys, n \in 1 .. events'}
    <3>1. 1 .. events \subseteq 1 .. events' BY <1>1, <1>3
    <3>2. fired \subseteq {<<k[1], k[2], n>> : k \in Keys, n \in 1 .. events}
      BY <1>2 DEF Basics
    <3> QED BY <1>1, <3>1, <3>2
  <2> QED BY <1>1, <1>2, <2>1, <2>2, <2>3 DEF Basics
<1>7. QueueOk(queue', subs, fired)
  <2>1. \A c, d \in queue' : c.n = d.n /\ c.id = d.id => c = d
    <3> SUFFICES ASSUME NEW c \in queue', NEW d \in queue', c.n = d.n, c.id = d.id
                 PROVE  c = d
      OBVIOUS
    <3>1. CASE c \in queue
      <4>1. d \in queue BY <1>1, <1>4, <1>5, <3>1
      <4> QED BY <1>2, <3>1, <4>1 DEF QueueOk
    <3>2. CASE c \in add
      <4>1. d \in add BY <1>1, <1>4, <1>5, <3>2
      <4>2. /\ c \in [n : 1 .. events + 1, ev : Events, id : 1 .. nextId - 1]
            /\ d \in [n : 1 .. events + 1, ev : Events, id : 1 .. nextId - 1]
            /\ c.ev = d.ev
        BY <1>4, <3>2, <4>1
      <4> QED BY <4>2
    <3> QED BY <1>1, <3>1, <3>2
  <2>2. ASSUME NEW c \in queue', NEW i \in DOMAIN subs, subs[i].id = c.id
        PROVE  subs[i].cfg.topic = c.ev.topic /\ <<subs[i].rule, subs[i].idx, c.n>> \notin fired
    <3>1. CASE c \in queue BY <1>2, <2>2, <3>1 DEF QueueOk
    <3>2. CASE c \in add
      <4>1. PICK j \in DOMAIN subs : subs[j].id = c.id /\ c.id # 0 /\ subs[j].cfg.topic = e.topic
        BY <1>4, <3>2
      <4>2. i = j BY <1>2, <2>2, <4>1, Zenon DEF ListOk, OneIdEach
      <4>3. <<subs[i].rule, subs[i].idx, c.n>> \notin fired
        <5>1. SUFFICES ASSUME <<subs[i].rule, subs[i].idx, c.n>> \in fired PROVE FALSE OBVIOUS
        <5>2. fired \subseteq {<<k[1], k[2], n>> : k \in Keys, n \in 1 .. events}
          BY <1>2 DEF Basics
        <5>3. c.n \in 1 .. events BY <5>1, <5>2
        <5>4. c.n = events + 1 BY <1>4, <3>2
        <5> QED BY <1>3, <5>3, <5>4
      <4> QED BY <1>4, <3>2, <4>1, <4>2, <4>3
    <3> QED BY <1>1, <3>1, <3>2
  <2> QED BY <2>1, <2>2 DEF QueueOk
<1>8. Held' = Held BY <1>1 DEF Held
<1> QED BY <1>1, <1>6, <1>7, <1>8 DEF TableInv

LEMMA CountInv ==
  ASSUME TableInv, NEW v \in Values, Count(v)
  PROVE  TableInv'
<1>1. /\ events' = events + 1 /\ events < MaxEvents /\ counter' = v
      /\ UNCHANGED <<now, subs, live, nextId, queue, undoable, on, walk, jobs, status,
                     seen, fired, wrong, loose>>
  BY DEF Count, MoreEvents, ghost
<1>2. Basics'
  <2>1. events \in 0 .. MaxEvents /\ MaxEvents \in Nat BY TableParams DEF TableInv, Basics
  <2>2. events' \in 0 .. MaxEvents /\ 1 .. events \subseteq 1 .. events' BY <1>1, <2>1
  <2>3. Basics BY DEF TableInv
  <2>4. queue' \subseteq [n : 1 .. events', ev : Events, id : 1 .. nextId' - 1]
    BY <1>1, <2>2, <2>3 DEF Basics
  <2>5. fired' \subseteq {<<k[1], k[2], n>> : k \in Keys, n \in 1 .. events'}
    BY <1>1, <2>2, <2>3 DEF Basics
  <2> QED BY <1>1, <2>2, <2>3, <2>4, <2>5 DEF Basics
<1>3. Held' = Held BY <1>1 DEF Held
<1> QED BY <1>1, <1>2, <1>3 DEF TableInv

\* One more event, and nothing of the types disturbed.
LEMMA OneMoreEvent ==
  ASSUME TableInv, events < MaxEvents, events' = events + 1,
         UNCHANGED <<now, nextId, counter, queue, jobs, status, seen, fired, loose>>
  PROVE  Basics'
<1>1. events \in 0 .. MaxEvents /\ MaxEvents \in Nat BY TableParams DEF TableInv, Basics
<1>2. events' \in 0 .. MaxEvents /\ 1 .. events \subseteq 1 .. events' BY <1>1
<1>3. Basics BY DEF TableInv
<1>4. queue' \subseteq [n : 1 .. events', ev : Events, id : 1 .. nextId' - 1]
  BY <1>2, <1>3 DEF Basics
<1>5. fired' \subseteq {<<k[1], k[2], n>> : k \in Keys, n \in 1 .. events'}
  BY <1>2, <1>3 DEF Basics
<1> QED BY <1>2, <1>3, <1>4, <1>5 DEF Basics

LEMMA MessageInv ==
  ASSUME TableInv, NEW m \in Messages, Message(m)
  PROVE  TableInv'
<1> DEFINE hit == {i \in DOMAIN subs : subs[i].cfg.type = "message" /\ subs[i].cfg.match = m}
           w == Serve(Held, {}, hit)
<1>1. /\ events < MaxEvents /\ events' = events + 1 /\ undoable' = w.undoable /\ on' = w.on
      /\ UNCHANGED <<now, subs, live, nextId, queue, counter, walk, jobs, status,
                     seen, fired, wrong, loose>>
  BY DEF Message, MoreEvents, ghost
<1>2. ListOk(subs, nextId) /\ WaRight(Held) /\ WalkOk(walk, subs) /\ wrong = {}
  BY DEF TableInv, EffectsOk
<1>3. \A i \in hit : ~subs[i].passive /\ subs[i].cfg.type \notin Undoing
  <2> SUFFICES ASSUME NEW i \in DOMAIN subs, subs[i].cfg.type = "message"
               PROVE  ~subs[i].passive
    BY DEF Undoing, DeviceTypes
  <2>1. Proper(subs[i]) BY <1>2, ListFacts
  <2> QED BY <2>1 DEF Proper
<1>4. hit \subseteq DOMAIN subs /\ {} \subseteq DOMAIN subs OBVIOUS
<1> HIDE DEF hit
<1>5. WaRight(w) /\ NoneNew(Held, w) BY <1>2, <1>3, <1>4, QuietServe
<1> HIDE DEF w
<1>6. Held'.undoable = w.undoable /\ Held'.on = w.on BY <1>1 DEF Held
<1>7. WaRight(Held') /\ NoneNew(Held, Held')
  <2> DEFINE h == Held'
  <2>1. h.undoable = w.undoable /\ h.on = w.on BY <1>6
  <2> HIDE DEF h
  <2>2. WaRight(h) BY <1>5, <2>1, Zenon DEF WaRight
  <2>3. NoneNew(Held, h) BY <1>5, <2>1, Zenon DEF NoneNew, Nothing
  <2> QED BY <2>2, <2>3 DEF h
<1>8. Basics' BY <1>1, OneMoreEvent
<1>9. WalkOk(walk', subs) /\ wrong' = {} BY <1>1, <1>2
<1> QED BY <1>1, <1>7, <1>8, <1>9, EffectsStep

LEMMA WebhookInv ==
  ASSUME TableInv, NEW token \in Tokens, Webhook(token)
  PROVE  TableInv'
<1> DEFINE wk == [at |-> 1, token |-> token,
                  must |-> {Key(s) : s \in {x \in Table : Named(x, token)}},
                  hit |-> {}]
<1>1. /\ events < MaxEvents /\ events' = events + 1 /\ walk' = wk
      /\ UNCHANGED <<now, subs, live, nextId, queue, counter, undoable, on, jobs, status,
                     seen, fired, wrong, loose>>
  BY DEF Webhook, MoreEvents, ghost
<1>2. ListOk(subs, nextId) /\ WaRight(Held) /\ wrong = {} BY DEF TableInv, EffectsOk
<1>3. DOMAIN subs \subseteq Nat \ {0} BY <1>2, ListFacts
<1>4. \A k \in wk.must : Ahead(wk, subs, k)
  <2> SUFFICES ASSUME NEW k \in wk.must PROVE Ahead(wk, subs, k) OBVIOUS
  <2>1. PICK s \in Table : Named(s, token) /\ Key(s) = k OBVIOUS
  <2>2. PICK i \in DOMAIN subs : subs[i] = s BY DEF Table
  <2>3. wk.at = 1 /\ wk.token = token OBVIOUS
  <2> HIDE DEF wk
  <2> QED BY <1>3, <2>1, <2>2, <2>3 DEF Ahead
<1>5. WalkOk(wk, subs)
  <2>1. wk.at \in Nat /\ wk.hit = {} OBVIOUS
  <2> HIDE DEF wk
  <2> QED BY <1>4, <2>1, Zenon DEF WalkOk
<1> HIDE DEF wk
<1>6. Held' = Held BY <1>1 DEF Held
<1>7. NoneNew(Held, Held) BY DEF NoneNew
<1>8. Basics' BY <1>1, OneMoreEvent
<1>9. WalkOk(walk', subs) /\ wrong' = {} BY <1>1, <1>2, <1>5
<1>10. WaRight(Held') /\ NoneNew(Held, Held') BY <1>2, <1>6, <1>7
<1> QED BY <1>1, <1>8, <1>9, <1>10, EffectsStep

LEMMA WebhookStepInv ==
  ASSUME TableInv, WebhookStep
  PROVE  TableInv'
<1>1. /\ walk.at > 0
      /\ UNCHANGED <<now, subs, live, nextId, queue, counter, status, events, jobs, seen, fired,
                     loose>>
  BY DEF WebhookStep
<1>2. ListOk(subs, nextId) /\ WaRight(Held) /\ WalkOk(walk, subs) /\ wrong = {}
  BY DEF TableInv, EffectsOk
<1>3. Basics' BY <1>1 DEF TableInv, Basics
<1>4. Len(subs) \in Nat /\ DOMAIN subs = 1 .. Len(subs) /\ walk.at \in Nat
  BY <1>2, ListFacts DEF WalkOk
<1>5. CASE PastEnd
  <2>1. /\ wrong' = wrong \cup Blame("missed", ~(walk.must \subseteq walk.hit))
        /\ walk' = Resting /\ UNCHANGED <<undoable, on>>
    BY <1>5 DEF WebhookStep
  <2>2. walk.must \subseteq walk.hit
    <3> SUFFICES ASSUME NEW k \in walk.must PROVE k \in walk.hit OBVIOUS
    <3>1. ~Ahead(walk, subs, k) BY <1>4, <1>5 DEF Ahead, PastEnd
    <3> QED BY <1>1, <1>2, <3>1 DEF WalkOk
  <2>3. wrong' = {} BY <1>2, <2>1, <2>2 DEF Blame
  <2>4. WalkOk(walk', subs) BY <2>1 DEF WalkOk, Resting
  <2>5. Held' = Held BY <2>1 DEF Held
  <2>6. NoneNew(Held, Held) BY DEF NoneNew
  <2>7. WaRight(Held') /\ NoneNew(Held, Held') BY <1>2, <2>5, <2>6
  <2> QED BY <1>1, <1>3, <2>3, <2>4, <2>7, EffectsStep
<1>6. CASE ~PastEnd
  <2> DEFINE s == subs[walk.at]
             w == StartRule(Held, s.rule)
             named == Named(s, walk.token)
             hit2 == walk.hit \cup {x \in {Key(s)} : named}
             wk == [at |-> walk.at + 1, token |-> walk.token, must |-> walk.must, hit |-> hit2]
             v == IF named THEN w ELSE Held
  <2>1. /\ walk' = wk
        /\ wrong' = wrong \cup Blame("again", named /\ Key(s) \in walk.hit)
        /\ undoable' = IF named THEN w.undoable ELSE undoable
        /\ on' = IF named THEN w.on ELSE on
    BY <1>6 DEF WebhookStep
  <2>2. walk.at \in DOMAIN subs BY <1>1, <1>4, <1>6 DEF PastEnd
  <2>3. s \in Entries /\ Proper(s) /\ s.rule \in Rules BY <1>2, <2>2, ListFacts, EntryTypes
  <2>4. v.undoable = undoable' /\ v.on = on' BY <2>1 DEF Held
  <2>5. WaRight(v) /\ NoneNew(Held, v)
    <3>1. CASE named
      <4>1. v = w BY <3>1
      <4>2. WaRight(w) /\ OnlyOf(Held, w, {s.rule}) BY <1>2, <2>3, StartRuleRight
      <4> HIDE DEF v, w
      <4>3. s.cfg.type = "http_webhook" /\ ~s.passive BY <2>3, <3>1 DEF Named, Proper
      <4>4. ~Lone(s.rule)
        <5>1. SUFFICES ASSUME Lone(s.rule) PROVE FALSE OBVIOUS
        <5>2. s.cfg = Triggers[s.rule][1] BY <2>3, <4>3, <5>1, LoneEntry
        <5> QED BY <4>3, <5>1, <5>2 DEF Lone, Undoing, DeviceTypes
      <4>5. NoneNew(Held, w) BY <4>2, <4>4 DEF OnlyOf, NoneNew, Nothing
      <4> QED BY <4>1, <4>2, <4>5
    <3>2. CASE ~named
      <4>1. v = Held BY <3>2
      <4>2. NoneNew(Held, Held) BY DEF NoneNew
      <4> QED BY <1>2, <4>1, <4>2
    <3> QED BY <3>1, <3>2
  <2> HIDE DEF v, w
  <2>6. WaRight(Held') /\ NoneNew(Held, Held')
    <3> DEFINE h == Held'
    <3>1. h.undoable = v.undoable /\ h.on = v.on BY <2>4 DEF Held
    <3> HIDE DEF h
    <3>2. WaRight(h) BY <2>5, <3>1, Zenon DEF WaRight
    <3>3. NoneNew(Held, h) BY <2>5, <3>1, Zenon DEF NoneNew, Nothing
    <3> QED BY <3>2, <3>3 DEF h
  <2>7. WalkOk(wk, subs)
    <3>1. /\ wk.at = walk.at + 1 /\ wk.token = walk.token /\ wk.must = walk.must
          /\ wk.hit = hit2
      OBVIOUS
    <3>2. Key(s) \in hit2 <=> named \/ Key(s) \in walk.hit OBVIOUS
    <3>3. walk.hit \subseteq hit2 /\ hit2 \subseteq walk.hit \cup {Key(s)} OBVIOUS
    <3> HIDE DEF wk, hit2
    <3>4. ASSUME NEW k \in walk.must PROVE k \in hit2 \/ Ahead(wk, subs, k)
      <4>1. k \in walk.hit \/ Ahead(walk, subs, k) BY <1>1, <1>2, <3>4 DEF WalkOk
      <4>2. CASE k \in walk.hit BY <3>3, <4>2
      <4>3. CASE Ahead(walk, subs, k)
        <5>1. PICK i \in DOMAIN subs : i >= walk.at /\ Key(subs[i]) = k /\ Named(subs[i], walk.token)
          BY <4>3 DEF Ahead
        <5>2. CASE i = walk.at BY <3>2, <5>1, <5>2
        <5>3. CASE i # walk.at
          <6>1. i >= walk.at + 1 BY <1>4, <5>1, <5>3
          <6> QED BY <3>1, <5>1, <6>1 DEF Ahead
        <5> QED BY <5>2, <5>3
      <4> QED BY <4>1, <4>2, <4>3
    <3>5. ASSUME NEW i \in DOMAIN subs, i >= walk.at + 1 PROVE Key(subs[i]) \notin hit2
      <4>1. i >= walk.at /\ i # walk.at BY <1>4, <3>5
      <4>2. Key(subs[i]) \notin walk.hit BY <1>2, <4>1 DEF WalkOk
      <4>3. Key(subs[i]) # Key(s) BY <1>2, <2>2, <4>1, ListFacts DEF Key
      <4> QED BY <3>3, <4>2, <4>3
    <3>6. walk.at + 1 \in Nat BY <1>4
    <3> QED BY <3>1, <3>4, <3>5, <3>6 DEF WalkOk
  <2>9. Key(s) \notin walk.hit BY <1>2, <1>4, <2>2 DEF WalkOk
  <2> HIDE DEF wk
  <2>8. WalkOk(walk', subs) /\ wrong' = {} BY <1>2, <2>1, <2>7, <2>9 DEF Blame
  <2> QED BY <1>1, <1>3, <2>6, <2>8, EffectsStep
<1> QED BY <1>5, <1>6

\* u: the table after a job of rule r, its other entries as they were, those of r new.
AfterJob(u, r) ==
  \A i \in DOMAIN u :
    \/ u[i].rule # r /\ \E l \in DOMAIN subs : subs[l] = u[i]
    \/ u[i].rule = r /\ u[i].since = 0 /\ u[i].id \notin 1 .. nextId - 1

LEMMA LoneKey ==
  ASSUME NEW r \in Rules, Lone(r)
  PROVE  <<r, 1>> \in Keys
<1>1. DOMAIN Triggers[r] = 1 .. 1 BY ParamFacts DEF Lone
<1>2. 1 \in DOMAIN Triggers[r] BY <1>1
<1> QED BY <1>2 DEF Keys

LEMMA JobHistory ==
  ASSUME TableInv, NEW r \in Rules
  PROVE  /\ Forget(r) \in [Keys -> Views] /\ Resaved(r) \subseteq Rules
         /\ \A k \in Keys : Forget(r)[k] = IF k[1] = r THEN Unseen ELSE seen[k]
<1>1. seen \in [Keys -> Views] /\ loose \subseteq Rules BY DEF TableInv, Basics
<1>2. Unseen \in Views BY DEF Unseen, Views
<1>3. DOMAIN seen = Keys /\ \A k \in Keys : seen[k] \in Views BY <1>1
<1>4. Forget(r) \in [Keys -> Views] BY <1>2, <1>3 DEF Forget
<1>5. \A k \in Keys : Forget(r)[k] = IF k[1] = r THEN Unseen ELSE seen[k] BY <1>3 DEF Forget
<1>6. Resaved(r) \subseteq Rules BY <1>1 DEF Resaved
<1> QED BY <1>4, <1>5, <1>6

LEMMA AfterJobOk ==
  ASSUME TableInv, NEW r \in Rules, NEW t, NEW n, NEW u, ListOk(u, n), AfterJob(u, r)
  PROVE  /\ QueueOk(Arriving(t), u, fired)
         /\ SeenOk(u, Forget(r), now)
         /\ EffectsOk(Held, u, Forget(r), Resaved(r))
<1> DEFINE f == Forget(r)
<1>1. /\ ListOk(subs, nextId) /\ QueueOk(queue, subs, fired) /\ SeenOk(subs, seen, now)
      /\ EffectsOk(Held, subs, seen, loose) /\ Basics
  BY DEF TableInv
<1>2. \A k \in Keys : f[k] = IF k[1] = r THEN Unseen ELSE seen[k] BY JobHistory
<1> HIDE DEF f
<1>3. \A i \in DOMAIN u : Proper(u[i]) BY ListFacts
<1>4. Arriving(t) \subseteq queue BY DEF Arriving
<1>5. QueueOk(Arriving(t), u, fired)
  <2>1. \A c \in queue : c.id \in 1 .. nextId - 1 BY <1>1 DEF Basics
  <2>2. ASSUME NEW c \in queue, NEW i \in DOMAIN u, u[i].id = c.id
        PROVE  u[i].cfg.topic = c.ev.topic /\ <<u[i].rule, u[i].idx, c.n>> \notin fired
    <3>1. PICK l \in DOMAIN subs : subs[l] = u[i] BY <2>1, <2>2 DEF AfterJob
    <3> QED BY <1>1, <2>2, <3>1 DEF QueueOk
  <2>3. \A c, d \in queue : c.n = d.n /\ c.id = d.id => c = d BY <1>1 DEF QueueOk
  <2> QED BY <1>4, <2>2, <2>3 DEF QueueOk
<1>6. SeenOk(u, f, now)
  <2>1. ASSUME NEW k \in Keys PROVE f[k].since <= now
    <3>1. seen[k].since <= now /\ 0 <= now BY <1>1 DEF SeenOk, Basics
    <3> QED BY <1>2, <3>1 DEF Unseen
  <2>2. ASSUME NEW i \in DOMAIN u, ~u[i].passive PROVE EntrySeen(u[i], f[Key(u[i])])
    <3>1. Key(u[i]) \in Keys /\ Key(u[i])[1] = u[i].rule BY <1>3, <2>2 DEF Proper, Key
    <3>2. CASE u[i].rule = r
      <4>1. f[Key(u[i])] = Unseen BY <1>2, <3>1, <3>2
      <4>2. u[i].since = 0 BY <3>2 DEF AfterJob
      <4> QED BY <4>1, <4>2 DEF EntrySeen, Unseen
    <3>3. CASE u[i].rule # r
      <4>1. f[Key(u[i])] = seen[Key(u[i])] BY <1>2, <3>1, <3>3
      <4>2. PICK l \in DOMAIN subs : subs[l] = u[i] BY <3>3 DEF AfterJob
      <4> QED BY <1>1, <2>2, <4>1, <4>2 DEF SeenOk
    <3> QED BY <3>2, <3>3
  <2> QED BY <2>1, <2>2 DEF SeenOk
<1>7. EffectsOk(Held, u, f, Resaved(r))
  <2> SUFFICES ASSUME NEW q \in Rules \ Resaved(r), Lone(q) PROVE LoneOk(q, Held, u, f)
    BY <1>1 DEF EffectsOk
  <2>1. CASE q = r
    <3>1. ~\E x \in on : x[1] = r BY <2>1 DEF Resaved
    <3>2. Nothing(r, Held)
      <4> SUFFICES ASSUME NEW k \in DOMAIN Held.undoable, k[1] = r PROVE FALSE BY DEF Nothing
      <4>1. <<k[1], Held.undoable[k]>> \in Held.on BY <1>1 DEF EffectsOk, WaRight
      <4> QED BY <3>1, <4>1 DEF Held
    <3> QED BY <2>1, <3>2 DEF LoneOk
  <2>2. CASE q # r
    <3>1. q \in Rules \ loose BY <2>2 DEF Resaved
    <3>2. LoneOk(q, Held, subs, seen) BY <1>1, <3>1 DEF EffectsOk
    <3>3. f[<<q, 1>>] = seen[<<q, 1>>] BY <1>2, <2>2, LoneKey
    <3>4. \A i \in DOMAIN u : u[i].rule = q => \E l \in DOMAIN subs : subs[l] = u[i]
      BY <2>2 DEF AfterJob
    <3> QED BY <3>2, <3>3, <3>4 DEF LoneOk
  <2> QED BY <2>1, <2>2
<1> QED BY <1>5, <1>6, <1>7 DEF f

\* A walk in table u, to which rule r has left its places of t and come back behind.
LEMMA WalkMoved ==
  ASSUME WalkOk(walk, subs), NEW r, NEW u,
         \A j \in DOMAIN u : u[j].rule = r \/ \E p \in DOMAIN subs : subs[p] = u[j] /\ p >= j,
         \A i, j \in DOMAIN subs : Key(subs[i]) = Key(subs[j]) => i = j,
         DOMAIN subs \subseteq Nat, DOMAIN u \subseteq Nat
  PROVE  WalkOk(WalkIn(u, r), u)
<1> DEFINE v == WalkIn(u, r)
<1>1. /\ v.at = walk.at /\ v.token = walk.token /\ v.at \in Nat
      /\ v.hit = {k \in walk.hit : k[1] # r}
      /\ v.must = {k \in walk.must : k[1] # r /\ \E i \in DOMAIN u \cap DOMAIN subs :
                                                  u[i] = subs[i] /\ Key(u[i]) = k}
  BY DEF WalkIn, WalkOk
<1> HIDE DEF v
<1>2. ASSUME v.at > 0, NEW k \in v.must PROVE k \in v.hit \/ Ahead(v, u, k)
  <2>1. k \in walk.must /\ k[1] # r BY <1>1, <1>2
  <2>2. PICK i \in DOMAIN u \cap DOMAIN subs : u[i] = subs[i] /\ Key(u[i]) = k BY <1>1, <1>2
  <2>3. k \in walk.hit \/ Ahead(walk, subs, k) BY <1>1, <1>2, <2>1 DEF WalkOk
  <2>4. CASE k \in walk.hit BY <1>1, <2>1, <2>4
  <2>5. CASE k \notin walk.hit
    <3>1. PICK l \in DOMAIN subs : l >= walk.at /\ Key(subs[l]) = k /\ Named(subs[l], walk.token)
      BY <2>3, <2>5 DEF Ahead
    <3>2. i = l BY <2>2, <3>1
    <3> QED BY <1>1, <2>2, <3>1, <3>2 DEF Ahead
  <2> QED BY <2>4, <2>5
<1>3. ASSUME NEW j \in DOMAIN u, j >= v.at PROVE Key(u[j]) \notin v.hit
  <2>1. CASE u[j].rule = r BY <1>1, <2>1 DEF Key
  <2>2. CASE u[j].rule # r
    <3>1. PICK p \in DOMAIN subs : subs[p] = u[j] /\ p >= j BY <2>2
    <3>2. p >= walk.at BY <1>1, <1>3, <3>1
    <3>3. Key(subs[p]) \notin walk.hit BY <3>2 DEF WalkOk
    <3> QED BY <1>1, <3>1, <3>3
  <2> QED BY <2>1, <2>2
<1>4. WalkOk(v, u) BY <1>1, <1>2, <1>3 DEF WalkOk
<1> QED BY <1>4 DEF v

LEMMA UnsubscribeInv ==
  ASSUME TableInv, NEW r \in Rules, NEW to \in {"disabled", "gone"}, Unsubscribe(r, to)
  PROVE  TableInv'
<1> DEFINE t == Without(subs, r)
<1>1. /\ jobs < MaxJobs /\ jobs' = jobs + 1 /\ subs' = t
      /\ live' = live \ (SubIds(subs) \ SubIds(t)) /\ queue' = Arriving(t)
      /\ seen' = Forget(r) /\ walk' = WalkIn(t, r)
      /\ status' = [status EXCEPT ![r] = to] /\ loose' = Resaved(r)
      /\ UNCHANGED <<now, nextId, counter, undoable, on, events, fired, wrong>>
  BY DEF Unsubscribe, MoreJobs
<1>2. ListOk(subs, nextId) /\ live = SubIds(subs) /\ WalkOk(walk, subs) /\ wrong = {} /\ Basics
  BY DEF TableInv
<1>3. ListOk(t, nextId) /\ Purged(subs, r, t) /\ SubIds(t) \subseteq SubIds(subs)
  BY <1>2, UnlistedOk
<1>4. AfterJob(t, r) BY <1>3 DEF Purged, AfterJob
<1>5. /\ QueueOk(Arriving(t), t, fired) /\ SeenOk(t, Forget(r), now)
      /\ EffectsOk(Held, t, Forget(r), Resaved(r))
  <2> HIDE DEF t
  <2> QED BY <1>3, <1>4, AfterJobOk
<1>6. live' = SubIds(t) BY <1>1, <1>2, <1>3
<1>7. WalkOk(walk', t)
  <2>1. DOMAIN subs \subseteq Nat /\ DOMAIN t \subseteq Nat BY <1>2, <1>3, ListFacts
  <2>2. \A i, j \in DOMAIN subs : Key(subs[i]) = Key(subs[j]) => i = j BY <1>2, ListFacts DEF Key
  <2> HIDE DEF t
  <2> QED BY <1>1, <1>2, <1>3, <2>1, <2>2, WalkMoved DEF Purged
<1> HIDE DEF t
<1>8. Basics'
  <2>1. jobs' \in 0 .. MaxJobs BY <1>1, <1>2, TableParams DEF Basics
  <2>2. queue' \subseteq queue BY <1>1 DEF Arriving
  <2>3. seen' \in [Keys -> Views] /\ loose' \subseteq Rules BY <1>1, JobHistory
  <2>4. status' \in [Rules -> {"enabled", "disabled", "gone"}] BY <1>1, <1>2 DEF Basics
  <2> QED BY <1>1, <1>2, <2>1, <2>2, <2>3, <2>4 DEF Basics
<1>9. Held' = Held BY <1>1 DEF Held
<1> QED BY <1>1, <1>2, <1>3, <1>5, <1>6, <1>7, <1>8, <1>9 DEF TableInv

LEMMA SubscribeInv ==
  ASSUME TableInv, NEW r \in Rules, Subscribe(r)
  PROVE  TableInv'
<1> DEFINE t == Without(subs, r)
<1>1. PICK ok \in BOOLEAN :
        /\ jobs < MaxJobs /\ jobs' = jobs + 1
        /\ subs' = Fitting(t, Wanted(r, nextId, ok))
        /\ live' = (live \ (SubIds(subs) \ SubIds(t))) \cup
                   (SubIds(Fitting(t, Wanted(r, nextId, ok))) \ SubIds(t))
        /\ nextId' = nextId + Len(Wanted(r, nextId, ok))
        /\ queue' = Arriving(t) /\ seen' = Forget(r)
        /\ walk' = WalkIn(Fitting(t, Wanted(r, nextId, ok)), r)
        /\ status' = [status EXCEPT ![r] = "enabled"] /\ loose' = Resaved(r)
        /\ UNCHANGED <<now, counter, undoable, on, events, fired, wrong>>
  BY DEF Subscribe, MoreJobs
<1> DEFINE add == Wanted(r, nextId, ok)
           u == Fitting(t, add)
<1>2. ListOk(subs, nextId) /\ live = SubIds(subs) /\ WalkOk(walk, subs) /\ wrong = {} /\ Basics
  BY DEF TableInv
<1>3. ListOk(t, nextId) /\ Purged(subs, r, t) /\ SubIds(t) \subseteq SubIds(subs)
  BY <1>2, UnlistedOk
<1>4. nextId \in Nat \ {0} BY <1>2 DEF Basics
<1>5. NewEntries(add, r, nextId) BY <1>4, WantedRight
<1>6. t \in Seq(Entries) /\ Len(t) \in Nat /\ Len(t) <= MAX_SUBS /\ DOMAIN t = 1 .. Len(t)
  BY <1>3, ListFacts DEF ListOk
<1>7. add \in Seq(Entries) /\ Len(add) \in Nat
  <2>1. add \in Seq(Entries) BY <1>5 DEF NewEntries
  <2> HIDE DEF add
  <2> QED BY <2>1
<1> HIDE DEF t, add
<1>8. Extended(t, add, u) BY <1>6, <1>7, FittingRight
<1> HIDE DEF u
<1>9. \A i \in DOMAIN t : t[i].rule # r BY <1>3 DEF Purged
<1>10. ListOk(u, nextId + Len(add)) BY <1>3, <1>4, <1>5, <1>8, <1>9, EnteredOk
<1>11. /\ DOMAIN u = 1 .. Len(u) /\ Len(u) \in Len(t) .. Len(t) + Len(add)
       /\ \A i \in DOMAIN u : u[i] = IF i <= Len(t) THEN t[i] ELSE add[i - Len(t)]
  BY <1>8 DEF Extended
<1>12. ASSUME NEW i \in DOMAIN u, ~(i <= Len(t)) PROVE NewEntry(u[i], r, nextId, i - Len(t))
                                                       /\ i - Len(t) >= 1 /\ i - Len(t) \in Int
  <2>1. i - Len(t) \in DOMAIN add BY <1>6, <1>7, <1>11, <1>12
  <2>2. i - Len(t) >= 1 /\ i - Len(t) \in Int BY <1>6, <1>11, <1>12
  <2> QED BY <1>5, <1>11, <1>12, <2>1, <2>2 DEF NewEntries
<1>13. AfterJob(u, r)
  <2> SUFFICES ASSUME NEW i \in DOMAIN u
               PROVE  \/ u[i].rule # r /\ \E l \in DOMAIN subs : subs[l] = u[i]
                      \/ u[i].rule = r /\ u[i].since = 0 /\ u[i].id \notin 1 .. nextId - 1
    BY DEF AfterJob
  <2>1. CASE i <= Len(t)
    <3>1. i \in DOMAIN t /\ u[i] = t[i] BY <1>6, <1>11, <2>1
    <3> QED BY <1>3, <3>1 DEF Purged
  <2>2. CASE ~(i <= Len(t))
    <3> DEFINE p == i - Len(t)
    <3>1. NewEntry(u[i], r, nextId, p) /\ p >= 1 /\ p \in Int BY <1>12, <2>2
    <3> HIDE DEF p
    <3>2. u[i].id = 0 \/ u[i].id = nextId + p - 1 BY <3>1 DEF NewEntry
    <3>3. u[i].id \notin 1 .. nextId - 1 BY <1>4, <3>1, <3>2
    <3> QED BY <3>1, <3>3 DEF NewEntry
  <2> QED BY <2>1, <2>2
<1>14. /\ QueueOk(Arriving(t), u, fired) /\ SeenOk(u, Forget(r), now)
       /\ EffectsOk(Held, u, Forget(r), Resaved(r))
  BY <1>10, <1>13, AfterJobOk
<1>15. SubIds(t) \subseteq SubIds(u)
  <2> SUFFICES ASSUME NEW i \in DOMAIN t, t[i].id # 0 PROVE t[i].id \in SubIds(u) BY DEF SubIds
  <2>1. i \in DOMAIN u /\ i <= Len(t) BY <1>6, <1>7, <1>11
  <2>2. u[i] = t[i] BY <1>11, <2>1
  <2> QED BY <2>1, <2>2 DEF SubIds
<1>16. live' = SubIds(u) BY <1>1, <1>2, <1>3, <1>15 DEF u, add
<1>18. subs' = u /\ nextId' = nextId + Len(add) /\ walk' = WalkIn(u, r) BY <1>1 DEF u, add
<1>17. WalkOk(walk', u)
  <2>1. DOMAIN subs \subseteq Nat /\ DOMAIN u \subseteq Nat BY <1>2, <1>11, ListFacts
  <2>2. ASSUME NEW j \in DOMAIN u, u[j].rule # r PROVE \E p \in DOMAIN subs : subs[p] = u[j] /\ p >= j
    <3>1. j <= Len(t) BY <1>12, <2>2 DEF NewEntry
    <3>2. j \in DOMAIN t /\ u[j] = t[j] BY <1>6, <1>11, <3>1
    <3> QED BY <1>3, <3>2 DEF Purged
  <2>3. \A i, j \in DOMAIN subs : Key(subs[i]) = Key(subs[j]) => i = j BY <1>2, ListFacts DEF Key
  <2> QED BY <1>2, <1>18, <2>1, <2>2, <2>3, WalkMoved
<1>19. Basics'
  <2>1. jobs' \in 0 .. MaxJobs BY <1>1, <1>2, TableParams DEF Basics
  <2>2. queue' \subseteq queue BY <1>1 DEF Arriving
  <2>3. seen' \in [Keys -> Views] /\ loose' \subseteq Rules BY <1>1, JobHistory
  <2>4. status' \in [Rules -> {"enabled", "disabled", "gone"}] BY <1>1, <1>2 DEF Basics
  <2>5. nextId' \in Nat \ {0} /\ 1 .. nextId - 1 \subseteq 1 .. nextId' - 1 BY <1>4, <1>7, <1>18
  <2>6. queue' \subseteq [n : 1 .. events', ev : Events, id : 1 .. nextId' - 1]
    BY <1>1, <1>2, <2>2, <2>5 DEF Basics
  <2> QED BY <1>1, <1>2, <2>1, <2>3, <2>4, <2>5, <2>6 DEF Basics
<1>20. Held' = Held BY <1>1 DEF Held
<1>21. ListOk(subs', nextId') /\ live' = SubIds(subs') BY <1>10, <1>16, <1>18
<1>22. /\ QueueOk(queue', subs', fired') /\ SeenOk(subs', seen', now')
       /\ EffectsOk(Held', subs', seen', loose')
  BY <1>1, <1>14, <1>18, <1>20
<1> QED BY <1>1, <1>2, <1>17, <1>18, <1>19, <1>21, <1>22 DEF TableInv

\* What a loop of Triggers_Tick makes of entry s.
Ticked(s, x) ==
  /\ SameEntry(s, x) /\ x.since \in {0, s.since}
  /\ s.cfg.type \notin {"counter_threshold", "modbus_read"} => x.latched = s.latched

LEMMA HoldTicked ==
  ASSUME NEW s \in Entries, NEW t
  PROVE  /\ Ticked(s, OnHold(s, t).sub)
         /\ OnHold(s, t).fire =>
              s.cfg.type = "io_input" /\ s.since # 0 /\ s.cfg.hold > 0 /\ t - s.since >= s.cfg.hold
<1> DEFINE o == OnHold(s, t)
           over == s.cfg.type = "io_input" /\ s.since # 0 /\ s.cfg.hold > 0 /\ t - s.since >= s.cfg.hold
           x == [s EXCEPT !.since = 0]
<1>1. HasState(s, x, 0, s.latched) /\ HasState(s, s, s.since, s.latched)
  BY EntryChanged, EntryTypes
<1>2. CASE over
  <2>1. o = [sub |-> x, fire |-> TRUE, undo |-> FALSE] BY <1>2 DEF OnHold, FiresNow
  <2> HIDE DEF x
  <2>2. Ticked(s, o.sub) BY <1>1, <2>1 DEF Ticked, HasState
  <2> QED BY <1>2, <2>2
<1>3. CASE ~over
  <2>1. o = [sub |-> s, fire |-> FALSE, undo |-> FALSE] BY <1>3, Zenon DEF OnHold, Stays
  <2>2. Ticked(s, o.sub) BY <1>1, <2>1 DEF Ticked, HasState
  <2> QED BY <2>1, <2>2
<1> QED BY <1>2, <1>3

LEMMA CounterTicked ==
  ASSUME NEW s \in Entries, NEW v
  PROVE  /\ Ticked(s, OnCounter(s, v).sub)
         /\ OnCounter(s, v).fire => s.cfg.type = "counter_threshold"
<1> DEFINE o == OnCounter(s, v)
           x == [s EXCEPT !.latched = FALSE]
           y == [s EXCEPT !.latched = TRUE]
<1>1. /\ HasState(s, x, s.since, FALSE) /\ HasState(s, y, s.since, TRUE)
      /\ HasState(s, s, s.since, s.latched)
  BY EntryChanged, EntryTypes
<1>2. o.sub \in {s, x, y} /\ (s.cfg.type # "counter_threshold" => o.sub = s /\ o.fire = FALSE)
  BY DEF OnCounter, Stays, FiresNow, Latch
<1> HIDE DEF o, x, y
<1>3. Ticked(s, o.sub)
  <2>1. CASE s.cfg.type # "counter_threshold" BY <1>1, <1>2, <2>1 DEF Ticked, HasState
  <2>2. CASE s.cfg.type = "counter_threshold" BY <1>1, <1>2, <2>2 DEF Ticked, HasState
  <2> QED BY <2>1, <2>2
<1>4. o.fire => s.cfg.type = "counter_threshold" BY <1>2
<1> QED BY <1>3, <1>4 DEF o

LEMMA PollTicked ==
  ASSUME NEW s \in Entries, NEW t \in Nat, NEW v
  PROVE  /\ Ticked(s, OnPoll(s, t, v).sub)
         /\ OnPoll(s, t, v).fire => s.cfg.type = "modbus_read"
<1> DEFINE o == OnPoll(s, t, v)
           p == [s EXCEPT !.polled = t]
           x == [p EXCEPT !.latched = FALSE]
           y == [p EXCEPT !.latched = TRUE]
<1>1. HasState(s, p, s.since, s.latched) /\ HasState(s, s, s.since, s.latched)
  BY EntryChanged, EntryTypes
<1>2. p \in Entries /\ p.since = s.since BY <1>1 DEF HasState, SameEntry
<1>3. /\ o.sub \in {s, p, x, y}
      /\ s.cfg.type # "modbus_read" => o.sub = s /\ o.fire = FALSE
  <2> HIDE DEF p
  <2>1. o = IF s.cfg.type # "modbus_read" \/ (s.polled > 0 /\ t - s.polled < s.cfg.poll) THEN Stays(s)
            ELSE IF v < 0 THEN Stays(p)
            ELSE IF v < s.cfg.bound THEN [Stays(x) EXCEPT !.undo = s.latched]
            ELSE IF s.latched THEN Stays(p) ELSE FiresNow(y)
    BY DEF OnPoll, Latch, p
  <2> HIDE DEF x, y, o
  <2> QED BY <2>1 DEF Stays, FiresNow
<1> HIDE DEF p, o
<1>4. HasState(s, x, s.since, FALSE) /\ HasState(s, y, s.since, TRUE)
  <2>1. HasState(p, x, p.since, FALSE) BY <1>2, EntryChanged
  <2>2. HasState(p, y, p.since, TRUE) BY <1>2, EntryChanged
  <2> HIDE DEF x, y
  <2> QED BY <1>1, <1>2, <2>1, <2>2, StateAgain
<1> HIDE DEF x, y
<1>5. Ticked(s, o.sub)
  <2>1. CASE s.cfg.type # "modbus_read" BY <1>1, <1>3, <2>1 DEF Ticked, HasState
  <2>2. CASE s.cfg.type = "modbus_read" BY <1>1, <1>3, <1>4, <2>2 DEF Ticked, HasState
  <2> QED BY <2>1, <2>2
<1>6. o.fire => s.cfg.type = "modbus_read" BY <1>3
<1> QED BY <1>5, <1>6 DEF o

LEMMA TickedSeen ==
  ASSUME NEW s, NEW x, Ticked(s, x), NEW k, EntrySeen(s, k)
  PROVE  EntrySeen(x, k)
BY DEF Ticked, SameEntry, EntrySeen

\* Only a hold of an input, a counter or a register fires; its rule has no lone trigger.
LEMMA TickInv ==
  ASSUME TableInv, NEW v, NEW failing, TableTick(v, failing)
  PROVE  TableInv'
<1> DEFINE t == now + 1
           hold(i) == OnHold(subs[i], t)
           count(i) == OnCounter(subs[i], counter)
           poll(i) == OnPoll(subs[i], t, v)
           hit1 == {i \in DOMAIN subs : hold(i).fire}
           hit2 == {i \in DOMAIN subs : count(i).fire}
           hit3 == {i \in DOMAIN subs : poll(i).fire}
           undo3 == {i \in DOMAIN subs : poll(i).undo}
           holds == Serve(Held, {}, hit1)
           counts == Serve(holds, {}, hit2)
           polls == Serve(counts, undo3, hit3)
           rs == {r \in Rules : status[r] = "gone" \/ (status[r] = "enabled" /\ r \in failing)}
           w == Undo(polls, rs)
           u == [i \in DOMAIN subs |->
                   CASE subs[i].cfg.type = "io_input"    -> hold(i).sub
                     [] subs[i].cfg.type = "modbus_read" -> poll(i).sub
                     [] OTHER                            -> count(i).sub]
           short == \E i \in DOMAIN subs :
                      hold(i).fire /\ ~HeldFor(Key(subs[i]), subs[i].cfg.hold, t)
<1>1. /\ t <= MaxTime /\ now' = t /\ subs' = u /\ undoable' = w.undoable /\ on' = w.on
      /\ wrong' = wrong \cup Blame("short", short)
      /\ UNCHANGED <<live, nextId, queue, counter, walk, status, events, jobs, seen, fired, loose>>
  BY DEF TableTick
<1>2. /\ ListOk(subs, nextId) /\ live = SubIds(subs) /\ QueueOk(queue, subs, fired)
      /\ SeenOk(subs, seen, now) /\ WalkOk(walk, subs) /\ EffectsOk(Held, subs, seen, loose)
      /\ WaRight(Held) /\ wrong = {} /\ Basics
  BY DEF TableInv, EffectsOk
<1>3. /\ subs \in Seq(Entries) /\ Len(subs) \in Nat /\ DOMAIN subs = 1 .. Len(subs)
      /\ \A i \in DOMAIN subs : subs[i] \in Entries /\ Proper(subs[i])
  BY <1>2, ListFacts DEF ListOk
<1>4. now \in Nat /\ t \in Nat BY <1>2 DEF Basics
<1>5. ASSUME NEW i \in DOMAIN subs PROVE Ticked(subs[i], u[i])
  <2>1. /\ Ticked(subs[i], hold(i).sub) /\ Ticked(subs[i], count(i).sub)
        /\ Ticked(subs[i], poll(i).sub)
    BY <1>3, <1>4, HoldTicked, CounterTicked, PollTicked
  <2>2. u[i] = CASE subs[i].cfg.type = "io_input"    -> hold(i).sub
                 [] subs[i].cfg.type = "modbus_read" -> poll(i).sub
                 [] OTHER                            -> count(i).sub
    OBVIOUS
  <2> HIDE DEF u, hold, count, poll
  <2> QED BY <2>1, <2>2
<1>6. DOMAIN u = 1 .. Len(subs) BY <1>3
<1> HIDE DEF u
<1>7. Kept(subs, u) /\ LatchesKept(subs, u)
  <2>1. \A i \in DOMAIN subs : SameEntry(subs[i], u[i]) BY <1>5 DEF Ticked
  <2>2. \A i \in 1 .. Len(subs) : u[i] \in Entries BY <1>3, <2>1 DEF SameEntry
  <2>3. u \in Seq(Entries) /\ Len(u) = Len(subs)
    <3>1. u = [i \in 1 .. Len(subs) |-> u[i]] BY <1>1, <1>6 DEF u
    <3> QED BY <1>3, <2>2, <3>1
  <2>4. LatchesKept(subs, u) BY <1>5 DEF LatchesKept, Ticked
  <2> QED BY <1>3, <1>6, <2>1, <2>3, <2>4 DEF Kept
<1>8. /\ \A i \in hit1 : ~subs[i].passive /\ subs[i].cfg.type = "io_input"
      /\ \A i \in hit2 : ~subs[i].passive /\ subs[i].cfg.type = "counter_threshold"
      /\ \A i \in hit3 : ~subs[i].passive /\ subs[i].cfg.type = "modbus_read"
  <2>1. \A i \in DOMAIN subs : hold(i).fire => subs[i].cfg.type = "io_input" BY <1>3, HoldTicked
  <2>2. \A i \in DOMAIN subs : count(i).fire => subs[i].cfg.type = "counter_threshold"
    BY <1>3, CounterTicked
  <2>3. \A i \in DOMAIN subs : poll(i).fire => subs[i].cfg.type = "modbus_read"
    BY <1>3, <1>4, PollTicked
  <2>4. \A i \in DOMAIN subs : subs[i].cfg.type \in {"io_input", "counter_threshold", "modbus_read"}
          => ~subs[i].passive
    BY <1>3 DEF Proper
  <2> HIDE DEF hold, count, poll
  <2> QED BY <2>1, <2>2, <2>3, <2>4
<1>9. ~short
  <2> SUFFICES ASSUME NEW i \in DOMAIN subs, hold(i).fire
               PROVE  HeldFor(Key(subs[i]), subs[i].cfg.hold, t)
    OBVIOUS
  <2> DEFINE s == subs[i]
             k == seen[Key(s)]
             h == s.cfg.hold
  <2>1. s.cfg.type = "io_input" /\ s.since # 0 /\ t - s.since >= h BY <1>3, HoldTicked
  <2>2. ~s.passive /\ Key(s) \in Keys /\ IsConfig(s.cfg)
    <3>1. Proper(s) BY <1>3
    <3> QED BY <2>1, <3>1 DEF Proper
  <2>3. EntrySeen(s, k) BY <1>2, <2>2 DEF SeenOk
  <2>4. k.level = "active" /\ k.since <= s.since BY <2>1, <2>3 DEF EntrySeen
  <2>5. h \in Int /\ s.since \in Nat BY <1>3, <2>1, <2>2, EntryTypes DEF IsConfig
  <2>6. k.since \in Nat
    <3>1. k \in Views BY <1>2, <2>2 DEF Basics
    <3> QED BY <3>1 DEF Views
  <2>7. t - k.since >= h
    <3> HIDE DEF k, h, s, t
    <3> QED BY <1>4, <2>1, <2>4, <2>5, <2>6
  <2> QED BY <2>4, <2>7 DEF HeldFor
<1>10. wrong' = {} BY <1>1, <1>2, <1>9 DEF Blame
<1> HIDE DEF short
<1>11. hit1 \subseteq DOMAIN subs /\ hit2 \subseteq DOMAIN subs /\ hit3 \subseteq DOMAIN subs
       /\ undo3 \subseteq DOMAIN subs /\ {} \subseteq DOMAIN subs
  OBVIOUS
<1> HIDE DEF hit1, hit2, hit3, undo3, t
<1>12. WaRight(holds) /\ NoneNew(Held, holds)
  <2>1. \A i \in hit1 : ~subs[i].passive /\ subs[i].cfg.type \notin Undoing BY <1>8 DEF Undoing
  <2> QED BY <1>2, <1>11, <2>1, QuietServe
<1> HIDE DEF holds
<1>13. \A i \in hit2 : ~subs[i].passive /\ subs[i].cfg.type \notin Undoing
  BY <1>8 DEF Undoing, DeviceTypes
<1>14. WaRight(counts) /\ NoneNew(holds, counts) BY <1>2, <1>11, <1>12, <1>13, QuietServe
<1> HIDE DEF counts
<1>15. \A i \in hit3 : ~subs[i].passive /\ subs[i].cfg.type \notin Undoing
  BY <1>8 DEF Undoing, DeviceTypes
<1>16. WaRight(polls) /\ NoneNew(counts, polls) BY <1>2, <1>11, <1>14, <1>15, QuietServe
<1> HIDE DEF polls, rs
<1>17. WaRight(w) /\ NoneNew(polls, w)
  <2>1. WaRight(w) /\ \A k \in DOMAIN w.undoable : k \in DOMAIN polls.undoable
    BY <1>16, UndoRight
  <2> HIDE DEF w
  <2> QED BY <2>1 DEF NoneNew, Nothing
<1> HIDE DEF w
<1>18. NoneNew(Held, w) BY <1>12, <1>14, <1>16, <1>17, NoneNewAgain
<1>19. WaRight(Held') /\ NoneNew(Held, Held')
  <2> DEFINE h == Held'
  <2>1. h.undoable = w.undoable /\ h.on = w.on BY <1>1 DEF Held
  <2> HIDE DEF h
  <2>2. WaRight(h) BY <1>17, <2>1, Zenon DEF WaRight
  <2>3. NoneNew(Held, h) BY <1>18, <2>1, Zenon DEF NoneNew, Nothing
  <2> QED BY <2>2, <2>3 DEF h
<1>20. EffectsOk(Held', u, seen, loose)
  <2> DEFINE h == Held'
  <2>1. WaRight(h) /\ NoneNew(Held, h) BY <1>19
  <2> HIDE DEF h
  <2>2. EffectsOk(h, u, seen, loose) BY <1>2, <1>7, <2>1, EffectsStay
  <2> QED BY <2>2 DEF h
<1>21. ListOk(u, nextId) /\ SubIds(u) = SubIds(subs) BY <1>2, <1>7, KeptOk
<1>22. QueueOk(queue, u, fired) /\ WalkOk(walk, u) BY <1>2, <1>7, KeptQueue, KeptWalk
<1>23. SeenOk(u, seen, t)
  <2>1. \A k \in Keys : seen[k].since <= t
    <3>1. \A k \in Keys : seen[k].since <= now /\ seen[k] \in Views BY <1>2 DEF SeenOk, Basics
    <3> QED BY <1>4, <3>1 DEF Views, t
  <2>2. ASSUME NEW i \in DOMAIN u, ~u[i].passive PROVE EntrySeen(u[i], seen[Key(u[i])])
    <3>1. i \in DOMAIN subs /\ Ticked(subs[i], u[i]) BY <1>3, <1>5, <1>6
    <3>2. ~subs[i].passive /\ Key(u[i]) = Key(subs[i]) BY <2>2, <3>1 DEF Ticked, SameEntry, Key
    <3>3. EntrySeen(subs[i], seen[Key(subs[i])]) BY <1>2, <3>1, <3>2 DEF SeenOk
    <3> QED BY <3>1, <3>2, <3>3, TickedSeen
  <2> QED BY <2>1, <2>2 DEF SeenOk
<1>24. Basics'
  <2>1. now' \in 1 .. MaxTime + 1 BY <1>1, <1>4, TableParams DEF t
  <2> QED BY <1>1, <1>2, <2>1 DEF Basics
<1> QED BY <1>1, <1>2, <1>10, <1>20, <1>21, <1>22, <1>23, <1>24 DEF TableInv

(***************************************************************************)
(* The next copy of an event.                                              *)
(***************************************************************************)

LEMMA RefreshedRight ==
  ASSUME TableInv, NEW c, c.n \in Nat
  PROVE  /\ Kept(subs, Refreshed(c))
         /\ \A i \in DOMAIN subs : /\ Refreshed(c)[i].since = subs[i].since
                                   /\ Refreshed(c)[i].latched = subs[i].latched
         /\ \A i \in DOMAIN subs : subs[i].passive /\ subs[i].cfg.topic = c.ev.topic =>
              Refreshed(c)[i].cached = c.n
<1> DEFINE q == Refreshed(c)
           X(i) == IF subs[i].passive /\ subs[i].cfg.topic = c.ev.topic
                   THEN [subs[i] EXCEPT !.cached = c.n] ELSE subs[i]
<1>1. ListOk(subs, nextId) BY DEF TableInv
<1>2. /\ subs \in Seq(Entries) /\ Len(subs) \in Nat /\ DOMAIN subs = 1 .. Len(subs)
      /\ \A i \in DOMAIN subs : subs[i] \in Entries
  BY <1>1, ListFacts DEF ListOk
<1>3. q = [i \in DOMAIN subs |-> X(i)] BY DEF Refreshed
<1>4. ASSUME NEW i \in DOMAIN subs
      PROVE  /\ HasState(subs[i], X(i), subs[i].since, subs[i].latched)
             /\ subs[i].passive /\ subs[i].cfg.topic = c.ev.topic => X(i).cached = c.n
  <2> DEFINE s == subs[i]
             y == [s EXCEPT !.cached = c.n]
  <2>1. s \in Entries BY <1>2
  <2>2. HasState(s, s, s.since, s.latched) /\ HasState(s, y, s.since, s.latched)
    <3> HIDE DEF s
    <3> QED BY <2>1, EntryChanged, EntryTypes
  <2>3. y.cached = c.n BY <2>1 DEF Entries
  <2>4. X(i) = IF s.passive /\ s.cfg.topic = c.ev.topic THEN y ELSE s OBVIOUS
  <2> HIDE DEF X, y
  <2> QED BY <2>2, <2>3, <2>4
<1> HIDE DEF X, q
<1>5. \A i \in DOMAIN subs : q[i] = X(i) BY <1>3
<1>6. DOMAIN q = DOMAIN subs BY <1>3
<1>7. \A i \in DOMAIN subs : SameEntry(subs[i], q[i]) /\ q[i].since = subs[i].since
                            /\ q[i].latched = subs[i].latched
  BY <1>4, <1>5 DEF HasState
<1>8. q \in Seq(Entries) /\ Len(q) = Len(subs)
  <2>1. \A i \in 1 .. Len(subs) : q[i] \in Entries BY <1>2, <1>7 DEF SameEntry
  <2>2. q = [i \in 1 .. Len(subs) |-> q[i]] BY <1>2, <1>3, <1>5
  <2> QED BY <1>2, <2>1, <2>2
<1>9. Kept(subs, q) BY <1>6, <1>7, <1>8 DEF Kept
<1>10. \A i \in DOMAIN subs : subs[i].passive /\ subs[i].cfg.topic = c.ev.topic => q[i].cached = c.n
  BY <1>4, <1>5
<1> QED BY <1>7, <1>9, <1>10 DEF q


\* The entries of q at the places `at` answer O; m is what the triggers have then seen.
Answering(q, at, O, m, e) ==
  /\ \A i \in at :
       /\ i \in DOMAIN q /\ ~q[i].passive /\ q[i].cfg.type \in DeviceTypes /\ Key(q[i]) \in Keys
       /\ Answered(q[i], seen[Key(q[i])], O[i], m[Key(q[i])], e)
  /\ \A k \in Keys : (\E i \in at : Key(q[i]) = k) \/ m[k] = seen[k]

\* u: the entries after their answers.
AnsweredTo(q, at, O, u) ==
  /\ DOMAIN u = DOMAIN q /\ Len(u) = Len(q) /\ u \in Seq(Entries)
  /\ \A i \in DOMAIN q : u[i] = IF i \in at THEN O[i].sub ELSE q[i]

\* A lone rule's effects after the answers.
LEMMA LoneAnswered ==
  ASSUME NEW n, ListOk(subs, n), NEW q, Kept(subs, q),
         \A i \in DOMAIN subs : q[i].latched = subs[i].latched,
         NEW at, NEW O, NEW m, NEW e, Answering(q, at, O, m, e), NEW u, AnsweredTo(q, at, O, u),
         NEW hit, hit = {i \in at : O[i].fire}, NEW undo, undo = {i \in at : O[i].undo},
         NEW w, Served(Held, Len(subs), undo, hit, w),
         NEW r \in Rules, Lone(r), LoneOk(r, Held, subs, seen),
         \A i \in at : subs[i].rule = r => ~Loosens(q[i], e)
  PROVE  LoneOk(r, w, u, m)
<1>1. /\ Len(subs) \in Nat /\ DOMAIN subs = 1 .. Len(subs)
      /\ \A i \in DOMAIN subs : subs[i] \in Entries /\ Proper(subs[i])
      /\ \A i, j \in DOMAIN subs : subs[i].rule = subs[j].rule /\ subs[i].idx = subs[j].idx => i = j
  BY ListFacts
<1>2. /\ DOMAIN q = DOMAIN subs
      /\ \A i \in DOMAIN subs : /\ q[i].rule = subs[i].rule /\ q[i].idx = subs[i].idx
                                /\ q[i].cfg = subs[i].cfg /\ q[i].passive = subs[i].passive
                                /\ Key(q[i]) = Key(subs[i])
  BY DEF Kept, SameEntry, Key
<1>3. \A i \in at : /\ i \in DOMAIN subs /\ ~subs[i].passive /\ Key(subs[i]) \in Keys
                    /\ Answered(q[i], seen[Key(subs[i])], O[i], m[Key(subs[i])], e)
  BY <1>2, Zenon DEF Answering
<1>4. ASSUME NEW i \in DOMAIN subs, ~subs[i].passive, subs[i].rule = r
      PROVE  /\ subs[i].idx = 1 /\ subs[i].cfg = Triggers[r][1] /\ Key(subs[i]) = <<r, 1>>
             /\ subs[i].cfg.type \in Undoing
  <2>1. /\ subs[i].idx = 1 /\ subs[i].cfg = Triggers[r][1] /\ Key(subs[i]) = <<r, 1>>
    BY <1>1, <1>4, LoneEntry
  <2> QED BY <2>1 DEF Lone
<1>5. <<r, 1>> \in Keys BY LoneKey
\* The one that answers is the rule's only trigger.
<1>6. ASSUME NEW k \in DOMAIN w.undoable, k[1] = r
      PROVE  \/ \E i \in at : subs[i].rule = r /\ ~subs[i].passive /\ O[i].fire
             \/ /\ ~Nothing(r, Held)
                /\ \A i \in at : subs[i].rule = r => ~O[i].undo
  <2>1. \/ \E i \in hit : subs[i].rule = r
        \/ k \in DOMAIN Held.undoable /\ \A i \in undo : i <= Len(subs) => subs[i].rule # r
    BY <1>6, Zenon DEF Served
  <2>2. CASE \E i \in hit : subs[i].rule = r BY <1>3, <2>2
  <2>3. CASE k \in DOMAIN Held.undoable /\ \A i \in undo : i <= Len(subs) => subs[i].rule # r
    <3>1. ~Nothing(r, Held) BY <1>6, <2>3 DEF Nothing
    <3>2. \A i \in at : i <= Len(subs) BY <1>1, <1>3
    <3> QED BY <2>3, <3>1, <3>2
  <2> QED BY <2>1, <2>2, <2>3
\* An entry of the rule that answers.
<1>7. ASSUME NEW i \in at, subs[i].rule = r
      PROVE  /\ m[<<r, 1>>].level = "clear" =>
                  ~O[i].fire /\ (O[i].undo \/ (Triggers[r][1].type = "value" /\ ~subs[i].latched))
             /\ Triggers[r][1].type = "value" /\ ~O[i].sub.latched =>
                  ~O[i].fire /\ (O[i].undo \/ ~subs[i].latched)
  <2>1. /\ i \in DOMAIN subs /\ ~subs[i].passive
        /\ Answered(q[i], seen[Key(subs[i])], O[i], m[Key(subs[i])], e)
    BY <1>3
  <2>2. /\ ~Loosens(q[i], e)
        /\ Key(subs[i]) = <<r, 1>> /\ q[i].cfg = Triggers[r][1] /\ q[i].latched = subs[i].latched
        /\ Triggers[r][1].type \notin {"io_input", "any", "string"}
    BY <1>2, <1>4, <1>7, <2>1 DEF Undoing
  <2> QED BY <2>1, <2>2 DEF Answered
<1>8. ASSUME m[<<r, 1>>].level = "clear" PROVE Nothing(r, w)
  <2> SUFFICES ASSUME NEW k \in DOMAIN w.undoable, k[1] = r PROVE FALSE BY DEF Nothing
  <2>1. /\ ~Nothing(r, Held) /\ \A i \in at : subs[i].rule = r => ~O[i].undo
    BY <1>6, <1>7, <1>8
  <2>2. CASE m[<<r, 1>>] = seen[<<r, 1>>] BY <1>8, <2>1, <2>2 DEF LoneOk
  <2>3. CASE \E i \in at : Key(q[i]) = <<r, 1>>
    <3>1. PICK i \in at : Key(q[i]) = <<r, 1>> BY <2>3
    <3>2. i \in DOMAIN subs /\ ~subs[i].passive /\ subs[i].rule = r BY <1>2, <1>3, <3>1 DEF Key
    <3>3. Triggers[r][1].type = "value" /\ ~subs[i].latched BY <1>7, <1>8, <2>1, <3>2
    <3> QED BY <2>1, <3>2, <3>3 DEF LoneOk
  <2> QED BY <1>5, <2>2, <2>3 DEF Answering
<1>9. ASSUME Triggers[r][1].type = "value", NEW i \in DOMAIN u, u[i].rule = r, ~u[i].passive,
             ~u[i].latched
      PROVE  Nothing(r, w)
  <2> SUFFICES ASSUME NEW k \in DOMAIN w.undoable, k[1] = r PROVE FALSE BY DEF Nothing
  <2>1. i \in DOMAIN subs /\ u[i] = IF i \in at THEN O[i].sub ELSE q[i] BY <1>2, <1>9 DEF AnsweredTo
  <2>2. subs[i].rule = r /\ ~subs[i].passive
    <3>1. CASE i \in at
      <4>1. SameEntry(q[i], O[i].sub) BY <1>3, <3>1 DEF Answered
      <4> QED BY <1>2, <1>9, <2>1, <3>1, <4>1 DEF SameEntry
    <3>2. CASE i \notin at BY <1>2, <1>9, <2>1, <3>2
    <3> QED BY <3>1, <3>2
  <2>3. \A j \in at : subs[j].rule = r => j = i
    <3> SUFFICES ASSUME NEW j \in at, subs[j].rule = r PROVE j = i OBVIOUS
    <3>1. j \in DOMAIN subs /\ ~subs[j].passive BY <1>3
    <3> QED BY <1>1, <1>4, <2>1, <2>2, <3>1
  <2>4. CASE i \in at
    <3>1. ~O[i].sub.latched BY <1>9, <2>1, <2>4
    <3>2. ~O[i].fire /\ (O[i].undo \/ ~subs[i].latched) BY <1>7, <1>9, <2>2, <2>4, <3>1
    <3>3. ~Nothing(r, Held) /\ ~O[i].undo BY <1>6, <2>2, <2>3, <2>4, <3>2
    <3> QED BY <1>9, <2>1, <2>2, <3>2, <3>3 DEF LoneOk
  <2>5. CASE i \notin at
    <3>1. ~Nothing(r, Held) BY <1>6, <2>3, <2>5
    <3>2. ~subs[i].latched BY <1>9, <2>1, <2>5
    <3> QED BY <1>9, <2>1, <2>2, <3>1, <3>2 DEF LoneOk
  <2> QED BY <2>4, <2>5
<1> QED BY <1>8, <1>9 DEF LoneOk

\* A lone rule that fires: its trigger's condition is on, and its threshold latched.
LEMMA LoneFired ==
  ASSUME NEW n, ListOk(subs, n), NEW q, Kept(subs, q), NEW at, NEW O, NEW m, NEW e,
         Answering(q, at, O, m, e), NEW u, AnsweredTo(q, at, O, u), NEW w,
         NEW r \in Rules, Lone(r), NEW f \in at, q[f].rule = r, O[f].fire
  PROVE  LoneOk(r, w, u, m)
<1>1. /\ \A i \in DOMAIN subs : subs[i] \in Entries /\ Proper(subs[i])
      /\ \A i, j \in DOMAIN subs : subs[i].rule = subs[j].rule /\ subs[i].idx = subs[j].idx => i = j
  BY ListFacts
<1>2. /\ DOMAIN q = DOMAIN subs
      /\ \A i \in DOMAIN subs : /\ q[i].rule = subs[i].rule /\ q[i].idx = subs[i].idx
                                /\ q[i].cfg = subs[i].cfg /\ q[i].passive = subs[i].passive
                                /\ Key(q[i]) = Key(subs[i])
  BY DEF Kept, SameEntry, Key
<1>3. /\ f \in DOMAIN subs /\ ~subs[f].passive /\ subs[f].rule = r
      /\ Answered(q[f], seen[Key(q[f])], O[f], m[Key(q[f])], e)
  BY <1>2, Zenon DEF Answering
<1>4. /\ subs[f].idx = 1 /\ Key(q[f]) = <<r, 1>> /\ q[f].cfg = Triggers[r][1]
      /\ q[f].cfg.type \notin {"io_input", "any", "string"}
  <2>1. subs[f].idx = 1 /\ subs[f].cfg = Triggers[r][1] /\ Key(subs[f]) = <<r, 1>>
    BY <1>1, <1>3, LoneEntry
  <2> QED BY <1>2, <1>3, <2>1 DEF Lone, Undoing
<1>5. m[<<r, 1>>].level # "clear" BY <1>3, <1>4 DEF Answered
<1>6. Triggers[r][1].type = "value" => O[f].sub.latched BY <1>3, <1>4 DEF Answered
<1>7. ASSUME Triggers[r][1].type = "value", NEW i \in DOMAIN u, u[i].rule = r, ~u[i].passive
      PROVE  u[i].latched
  <2>1. i \in DOMAIN subs /\ u[i] = IF i \in at THEN O[i].sub ELSE q[i] BY <1>2, <1>7 DEF AnsweredTo
  <2>2. subs[i].rule = r /\ ~subs[i].passive
    <3>1. CASE i \in at
      <4>1. Answered(q[i], seen[Key(q[i])], O[i], m[Key(q[i])], e) BY <3>1, Zenon DEF Answering
      <4>2. SameEntry(q[i], O[i].sub) BY <4>1 DEF Answered
      <4> QED BY <1>2, <1>7, <2>1, <3>1, <4>2 DEF SameEntry
    <3>2. CASE i \notin at BY <1>2, <1>7, <2>1, <3>2
    <3> QED BY <3>1, <3>2
  <2>3. subs[i].idx = 1 BY <1>1, <2>1, <2>2, LoneEntry
  <2>4. i = f BY <1>1, <1>3, <1>4, <2>1, <2>2, <2>3
  <2> QED BY <1>6, <1>7, <2>1, <2>4
<1> QED BY <1>5, <1>7 DEF LoneOk

\* An event is handled by the entries its copy is for.
LEMMA DeliverInv ==
  ASSUME TableInv, NEW c \in queue, Deliver(c)
  PROVE  TableInv'
<1> DEFINE q == Refreshed(c)
           at == Handlers(q, c)
           O == [i \in at |-> OnEvent(q[i], c)]
           hit == {i \in at : O[i].fire}
           undo == {i \in at : O[i].undo}
           w == Serve(Held, undo, hit)
           u == [i \in DOMAIN q |-> IF i \in at THEN OnEvent(q[i], c).sub ELSE q[i]]
           mine(k) == \E i \in DOMAIN q : ~q[i].passive /\ Key(q[i]) = k /\ q[i].id = c.id
           m == [k \in DOMAIN seen |->
                   IF mine(k) THEN Saw(Triggers[k[1]][k[2]], seen[k], c.ev) ELSE seen[k]]
           value(i, held) == q[i].cfg.type = "value" /\ (held <=> q[i].cfg.hold > 0)
           twice == \E i \in hit : <<q[i].rule, q[i].idx, c.n>> \in fired
           unlatched == \E i \in hit : value(i, FALSE) /\ seen[Key(q[i])].level = "active"
           short == \E i \in hit : value(i, TRUE) /\ ~HeldFor(Key(q[i]), q[i].cfg.hold, now)
           stale == \E i \in hit, j \in DOMAIN q :
                      q[j].passive /\ q[j].cfg.topic = c.ev.topic /\ q[j].cached # c.n
           new == {<<q[i].rule, q[i].idx, c.n>> : i \in hit}
           lost == {q[i].rule : i \in {j \in at : Loosens(q[j], c.ev)}}
           again == {q[i].rule : i \in hit}
           L == (loose \cup lost) \ again
<1>1. \A i \in at : O[i] = OnEvent(q[i], c) OBVIOUS
<1>2. /\ hit = {i \in at : OnEvent(q[i], c).fire} /\ undo = {i \in at : OnEvent(q[i], c).undo}
  <2> HIDE DEF O, at
  <2> QED BY <1>1
<1>3. /\ queue' = queue \ {c} /\ subs' = u /\ undoable' = w.undoable /\ on' = w.on
      /\ seen' = m /\ fired' = fired \cup new
      /\ wrong' = wrong \cup Blame("twice", twice) \cup Blame("unlatched", unlatched)
                        \cup Blame("short", short) \cup Blame("stale", stale)
      /\ loose' = L
      /\ UNCHANGED <<now, live, nextId, counter, walk, status, events, jobs>>
  <2> HIDE DEF O, at, q
  <2> QED BY <1>2 DEF Deliver, at, q
<1>4. /\ ListOk(subs, nextId) /\ live = SubIds(subs) /\ QueueOk(queue, subs, fired)
      /\ SeenOk(subs, seen, now) /\ WalkOk(walk, subs) /\ EffectsOk(Held, subs, seen, loose)
      /\ WaRight(Held) /\ wrong = {} /\ Basics
  BY DEF TableInv, EffectsOk
<1>5. /\ subs \in Seq(Entries) /\ Len(subs) \in Nat /\ DOMAIN subs = 1 .. Len(subs)
      /\ \A i \in DOMAIN subs : subs[i] \in Entries /\ Proper(subs[i])
      /\ \A i, j \in DOMAIN subs : subs[i].rule = subs[j].rule /\ subs[i].idx = subs[j].idx => i = j
  BY <1>4, ListFacts DEF ListOk
<1>6. /\ c.n \in 1 .. events /\ c.ev \in Events /\ c.id \in 1 .. nextId - 1
      /\ now \in Nat /\ now # 0 /\ events \in Nat /\ c.n \in Nat /\ c.id # 0
  BY <1>4 DEF Basics
<1>7. IsCopy(c) BY <1>6, TableParams DEF IsCopy
<1>8. /\ Kept(subs, q)
      /\ \A i \in DOMAIN subs : q[i].since = subs[i].since /\ q[i].latched = subs[i].latched
      /\ \A i \in DOMAIN subs : subs[i].passive /\ subs[i].cfg.topic = c.ev.topic =>
           q[i].cached = c.n
  BY <1>6, RefreshedRight
<1> HIDE DEF q
<1>9. /\ DOMAIN q = DOMAIN subs /\ Len(q) = Len(subs) /\ q \in Seq(Entries)
      /\ \A i \in DOMAIN subs : /\ q[i].rule = subs[i].rule /\ q[i].idx = subs[i].idx
                                /\ q[i].cfg = subs[i].cfg /\ q[i].passive = subs[i].passive
                                /\ q[i].id = subs[i].id /\ Key(q[i]) = Key(subs[i])
                                /\ q[i] \in Entries /\ SameEntry(subs[i], q[i])
  BY <1>8 DEF Kept, SameEntry, Key
<1>10. \A i \in at : /\ i \in DOMAIN subs /\ ~subs[i].passive /\ subs[i].cfg.type \in DeviceTypes
                     /\ subs[i].id = c.id
  BY <1>9 DEF Handlers, Addressed
<1>11. ASSUME NEW i \in DOMAIN subs, ~subs[i].passive, subs[i].id = c.id PROVE i \in at
  <2>1. subs[i].cfg.type \in DeviceTypes BY <1>4, <1>6, <1>11 DEF ListOk, Owned, EntryRight
  <2>2. subs[i].cfg.topic = c.ev.topic BY <1>4, <1>11 DEF QueueOk
  <2> QED BY <1>9, <1>11, <2>1, <2>2 DEF Handlers, Addressed
<1>12. \A k : mine(k) <=> \E i \in at : Key(q[i]) = k BY <1>9, <1>10, <1>11
<1>13. seen \in [Keys -> Views] /\ DOMAIN seen = Keys /\ \A k \in Keys : seen[k] \in Views
  BY <1>4 DEF Basics
<1>14. \A k \in Keys : m[k] = IF mine(k) THEN Saw(Triggers[k[1]][k[2]], seen[k], c.ev) ELSE seen[k]
  BY <1>13
<1>15. DOMAIN m = Keys BY <1>13
<1>16. ASSUME NEW i \in at
       PROVE  /\ Key(q[i]) \in Keys /\ m[Key(q[i])] = Saw(q[i].cfg, seen[Key(q[i])], c.ev)
              /\ Answered(q[i], seen[Key(q[i])], OnEvent(q[i], c), m[Key(q[i])], c.ev)
  <2> DEFINE s == q[i]
             k == seen[Key(s)]
  <2>1. Proper(subs[i]) /\ ~subs[i].passive /\ i \in DOMAIN subs BY <1>5, <1>10
  <2>2. Key(s) \in Keys /\ Triggers[Key(s)[1]][Key(s)[2]] = s.cfg /\ IsConfig(s.cfg)
    BY <1>9, <2>1 DEF Proper
  <2>3. m[Key(s)] = Saw(s.cfg, k, c.ev)
    <3>1. mine(Key(s)) BY <1>12
    <3> HIDE DEF mine, m, s
    <3> QED BY <1>14, <2>2, <3>1
  <2>4. s \in Entries /\ s.cfg.type \in DeviceTypes BY <1>9, <1>10, <2>1
  <2>5. k \in Views /\ k.since <= now BY <1>4, <1>13, <2>2 DEF SeenOk
  <2>6. EntrySeen(s, k)
    <3>1. EntrySeen(subs[i], seen[Key(subs[i])]) BY <1>4, <2>1 DEF SeenOk
    <3> QED BY <1>8, <1>9, <2>1, <3>1 DEF EntrySeen
  <2> HIDE DEF s, k
  <2>7. Answered(s, k, OnEvent(s, c), Saw(s.cfg, k, c.ev), c.ev)
    BY <1>6, <1>7, <2>2, <2>4, <2>5, <2>6, EventAnswered
  <2> HIDE DEF m
  <2> QED BY <2>2, <2>3, <2>7 DEF s, k
<1>17. \A k \in Keys : (\E i \in at : Key(q[i]) = k) \/ m[k] = seen[k]
  <2>1. \A k \in Keys : mine(k) \/ m[k] = seen[k]
    <3> HIDE DEF mine, m
    <3> QED BY <1>14
  <2> HIDE DEF mine, m, at
  <2> QED BY <1>12, <2>1
<1>18. \A i \in DOMAIN q : u[i] = IF i \in at THEN O[i].sub ELSE q[i]
  <2> HIDE DEF O, at
  <2> QED BY <1>1
<1>19. DOMAIN u = DOMAIN q OBVIOUS
<1>20. u = [i \in 1 .. Len(subs) |-> u[i]] BY <1>5, <1>9
<1> HIDE DEF mine, m, u, O, at, hit, undo
<1>21. \A i \in at : SameEntry(q[i], O[i].sub) /\ O[i].sub \in Entries
  BY <1>1, <1>16 DEF Answered, SameEntry
<1>22. u \in Seq(Entries) /\ Len(u) = Len(subs)
  <2>1. \A i \in 1 .. Len(subs) : u[i] \in Entries BY <1>5, <1>9, <1>18, <1>21
  <2> QED BY <1>5, <1>20, <2>1
<1>23. Answering(q, at, O, m, c.ev)
  <2>1. \A i \in at : /\ i \in DOMAIN q /\ ~q[i].passive /\ q[i].cfg.type \in DeviceTypes
                      /\ Key(q[i]) \in Keys
    BY <1>9, <1>10, <1>16
  <2>2. \A i \in at : Answered(q[i], seen[Key(q[i])], O[i], m[Key(q[i])], c.ev) BY <1>1, <1>16
  <2> QED BY <1>17, <2>1, <2>2, Zenon DEF Answering
<1>24. AnsweredTo(q, at, O, u) BY <1>9, <1>18, <1>19, <1>22 DEF AnsweredTo
<1>25. Kept(subs, u)
  <2>1. \A i \in DOMAIN subs : SameEntry(subs[i], u[i])
    <3> SUFFICES ASSUME NEW i \in DOMAIN subs PROVE SameEntry(subs[i], u[i]) OBVIOUS
    <3>1. CASE i \in at
      <4>1. u[i] = O[i].sub /\ SameEntry(q[i], O[i].sub) BY <1>9, <1>18, <1>21, <3>1
      <4> QED BY <1>9, <4>1 DEF SameEntry
    <3>2. CASE i \notin at BY <1>9, <1>18, <3>2
    <3> QED BY <3>1, <3>2
  <2> QED BY <1>9, <1>19, <1>22, <2>1 DEF Kept
<1>26. ListOk(u, nextId) /\ SubIds(u) = SubIds(subs) /\ WalkOk(walk, u) BY <1>4, <1>25, KeptOk, KeptWalk
\* What the triggers see.
<1>27. m \in [Keys -> Views] /\ \A k \in Keys : m[k].since <= now
  <2>1. ASSUME NEW k \in Keys PROVE m[k] \in Views /\ m[k].since <= now
    <3>1. CASE m[k] = seen[k] BY <1>4, <1>13, <3>1 DEF SeenOk
    <3>2. CASE \E i \in at : Key(q[i]) = k BY <1>16, <3>2 DEF Answered
    <3> QED BY <1>17, <3>1, <3>2
  <2>2. m = [k \in Keys |-> m[k]] BY <1>13 DEF m
  <2> QED BY <2>1, <2>2
<1>28. SeenOk(u, m, now)
  <2>1. ASSUME NEW i \in DOMAIN u, ~u[i].passive PROVE EntrySeen(u[i], m[Key(u[i])])
    <3>1. i \in DOMAIN subs /\ SameEntry(subs[i], u[i]) BY <1>25, <2>1 DEF Kept
    <3>2. Key(u[i]) = Key(q[i]) /\ ~subs[i].passive BY <1>9, <2>1, <3>1 DEF SameEntry, Key
    <3>3. CASE i \in at
      <4>1. u[i] = O[i].sub /\ O[i] = OnEvent(q[i], c) BY <1>1, <1>9, <1>18, <3>1, <3>3
      <4>2. EntrySeen(O[i].sub, m[Key(q[i])]) BY <1>16, <3>3, <4>1 DEF Answered
      <4> QED BY <3>2, <4>1, <4>2
    <3>4. CASE i \notin at
      <4>1. u[i] = q[i] BY <1>9, <1>18, <3>1, <3>4
      <4>2. \A j \in at : Key(q[j]) # Key(q[i])
        <5> SUFFICES ASSUME NEW j \in at, Key(q[j]) = Key(q[i]) PROVE FALSE OBVIOUS
        <5>1. j \in DOMAIN subs /\ subs[j].rule = subs[i].rule /\ subs[j].idx = subs[i].idx
          BY <1>9, <1>10, <3>1 DEF Key
        <5>2. i = j BY <1>5, <3>1, <5>1
        <5> QED BY <3>4, <5>2
      <4>3. Key(q[i]) \in Keys
        <5>1. Proper(subs[i]) BY <1>5, <3>1
        <5> QED BY <1>9, <3>1, <3>2, <5>1 DEF Proper
      <4>4. m[Key(q[i])] = seen[Key(subs[i])] BY <1>9, <1>17, <3>1, <4>2, <4>3
      <4>5. EntrySeen(subs[i], seen[Key(subs[i])]) BY <1>4, <3>1, <3>2 DEF SeenOk
      <4> QED BY <1>8, <1>9, <3>1, <3>2, <4>1, <4>4, <4>5 DEF EntrySeen
    <3> QED BY <3>3, <3>4
  <2> QED BY <1>27, <2>1 DEF SeenOk
\* Effects.
<1>29. hit = {i \in at : O[i].fire} /\ undo = {i \in at : O[i].undo} BY DEF hit, undo
<1>30. undo \subseteq DOMAIN subs BY <1>10, <1>29
<1>31. Served(Held, Len(subs), undo, hit, w) BY <1>4, <1>5, <1>30, ServeRight
<1> HIDE DEF w
<1>32. EffectsOk(w, u, m, L)
  <2> SUFFICES ASSUME NEW r \in Rules \ L, Lone(r) PROVE LoneOk(r, w, u, m)
    BY <1>31 DEF EffectsOk, Served
  <2>1. CASE r \in again
    <3>1. PICK f \in hit : q[f].rule = r BY <2>1
    <3>2. f \in at /\ O[f].fire BY <1>29
    <3> QED BY <1>4, <1>8, <1>23, <1>24, <3>1, <3>2, LoneFired
  <2>2. CASE r \notin loose \cup lost
    <3>1. LoneOk(r, Held, subs, seen) BY <1>4, <2>2 DEF EffectsOk
    <3>2. \A i \in DOMAIN subs : q[i].latched = subs[i].latched BY <1>8
    <3>3. \A i \in at : q[i].rule = r => ~Loosens(q[i], c.ev) BY <2>2
    <3>4. \A i \in at : subs[i].rule = r => ~Loosens(q[i], c.ev) BY <1>9, <1>10, <3>3
    <3> QED BY <1>4, <1>8, <1>23, <1>24, <1>29, <1>31, <3>1, <3>2, <3>4, LoneAnswered
  <2> QED BY <2>1, <2>2
<1> HIDE DEF lost, again
<1>33. EffectsOk(Held', u, m, L)
  <2> DEFINE h == Held'
  <2>1. h.undoable = w.undoable /\ h.on = w.on BY <1>3 DEF Held
  <2> HIDE DEF h
  <2>2. WaRight(h) BY <1>32, <2>1, Zenon DEF WaRight, EffectsOk
  <2>3. \A r : Nothing(r, w) => Nothing(r, h) BY <2>1, Zenon DEF Nothing
  <2>4. EffectsOk(h, u, m, L) BY <1>32, <2>2, <2>3 DEF EffectsOk, LoneOk
  <2> QED BY <2>4 DEF h
\* The firings.
<1>34. \A i \in hit : i \in at /\ i \in DOMAIN subs /\ O[i].fire /\ O[i] = OnEvent(q[i], c)
  BY <1>1, <1>10, <1>29
<1>35. ~twice
  <2> SUFFICES ASSUME NEW i \in hit PROVE <<q[i].rule, q[i].idx, c.n>> \notin fired OBVIOUS
  <2>1. i \in DOMAIN subs /\ subs[i].id = c.id BY <1>10, <1>34
  <2>2. <<subs[i].rule, subs[i].idx, c.n>> \notin fired BY <1>4, <2>1 DEF QueueOk
  <2> QED BY <1>9, <2>1, <2>2
<1>36. ASSUME NEW i \in hit, q[i].cfg.type = "value"
       PROVE  IF q[i].cfg.hold > 0
              THEN seen[Key(q[i])].level = "active" /\ now - seen[Key(q[i])].since >= q[i].cfg.hold
              ELSE seen[Key(q[i])].level # "active"
  <2>1. Answered(q[i], seen[Key(q[i])], O[i], m[Key(q[i])], c.ev) /\ O[i].fire BY <1>16, <1>34
  <2> QED BY <1>36, <2>1 DEF Answered
<1>37. ~unlatched BY <1>36
<1>38. ~short BY <1>36 DEF HeldFor
<1>39. ~stale
  <2> SUFFICES ASSUME NEW j \in DOMAIN q, q[j].passive, q[j].cfg.topic = c.ev.topic
               PROVE  q[j].cached = c.n
    OBVIOUS
  <2> QED BY <1>8, <1>9
<1> HIDE DEF twice, unlatched, short, stale
<1>40. wrong' = {} BY <1>3, <1>4, <1>35, <1>37, <1>38, <1>39 DEF Blame
\* What is on its way.
<1>41. QueueOk(queue', u, fired')
  <2>1. QueueOk(queue, u, fired) BY <1>4, <1>25, KeptQueue
  <2>2. ASSUME NEW d \in queue \ {c}, NEW j \in DOMAIN u, u[j].id = d.id
        PROVE  <<u[j].rule, u[j].idx, d.n>> \notin new
    <3> SUFFICES ASSUME <<u[j].rule, u[j].idx, d.n>> \in new PROVE FALSE OBVIOUS
    <3>1. PICK i \in hit : <<u[j].rule, u[j].idx, d.n>> = <<q[i].rule, q[i].idx, c.n>> OBVIOUS
    <3>2. u[j].rule = q[i].rule /\ u[j].idx = q[i].idx /\ d.n = c.n BY <3>1
    <3> HIDE DEF new
    <3>3. /\ j \in DOMAIN subs /\ subs[j].rule = u[j].rule /\ subs[j].idx = u[j].idx
          /\ subs[j].id = u[j].id
      BY <1>25, <2>2 DEF Kept, SameEntry
    <3>4. i \in DOMAIN subs /\ subs[i].id = c.id BY <1>10, <1>34
    <3>5. i = j BY <1>5, <1>9, <3>2, <3>3, <3>4
    <3>6. d.id = c.id BY <2>2, <3>3, <3>4, <3>5
    <3>7. d = c BY <1>4, <3>2, <3>6 DEF QueueOk
    <3> QED BY <3>7
  <2> HIDE DEF new
  <2> QED BY <1>3, <2>1, <2>2 DEF QueueOk
<1>42. Basics'
  <2>1. ASSUME NEW x \in new PROVE x \in {<<k[1], k[2], n>> : k \in Keys, n \in 1 .. events}
    <3>1. PICK i \in hit : x = <<q[i].rule, q[i].idx, c.n>> OBVIOUS
    <3>2. Key(q[i]) \in Keys BY <1>16, <1>34
    <3> DEFINE k == Key(q[i])
    <3>3. k \in Keys /\ x = <<k[1], k[2], c.n>> BY <3>1, <3>2 DEF Key
    <3> HIDE DEF k
    <3> QED BY <1>6, <3>3
  <2> HIDE DEF new
  <2>2. fired' \subseteq {<<k[1], k[2], n>> : k \in Keys, n \in 1 .. events'}
    BY <1>3, <1>4, <2>1 DEF Basics
  <2>3. queue' \subseteq [n : 1 .. events', ev : Events, id : 1 .. nextId' - 1]
    BY <1>3, <1>4 DEF Basics
  <2>4. loose' \subseteq Rules
    <3>1. \A i \in at : q[i].rule \in Rules BY <1>9, <1>10, EntryTypes
    <3> QED BY <1>3, <1>4, <3>1 DEF Basics, lost
  <2> HIDE DEF L
  <2> QED BY <1>3, <1>4, <1>27, <2>2, <2>3, <2>4 DEF Basics
<1> HIDE DEF L
<1> QED BY <1>3, <1>4, <1>26, <1>28, <1>33, <1>40, <1>41, <1>42 DEF TableInv

(***************************************************************************)
(* The theorems.                                                           *)
(***************************************************************************)

LEMMA StepInv ==
  ASSUME TableInv, [TableNext]_tableVars
  PROVE  TableInv'
<1>1. CASE UNCHANGED tableVars BY <1>1, StutterInv
<1>2. ASSUME NEW r \in Rules, Subscribe(r) PROVE TableInv' BY <1>2, SubscribeInv
<1>3. ASSUME NEW r \in Rules, NEW to \in {"disabled", "gone"}, Unsubscribe(r, to) PROVE TableInv'
  BY <1>3, UnsubscribeInv
<1>4. ASSUME NEW e \in Events, Occur(e) PROVE TableInv' BY <1>4, OccurInv
<1>5. ASSUME NEW c \in queue, Deliver(c) PROVE TableInv' BY <1>5, DeliverInv
<1>6. ASSUME NEW m \in Messages, Message(m) PROVE TableInv' BY <1>6, MessageInv
<1>7. ASSUME NEW k \in Tokens, Webhook(k) PROVE TableInv' BY <1>7, WebhookInv
<1>8. CASE WebhookStep BY <1>8, WebhookStepInv
<1>9. ASSUME NEW v, NEW failing, TableTick(v, failing) PROVE TableInv' BY <1>9, TickInv
<1>10. ASSUME NEW v \in Values, Count(v) PROVE TableInv' BY <1>10, CountInv
<1> QED BY <1>1, <1>2, <1>3, <1>4, <1>5, <1>6, <1>7, <1>8, <1>9, <1>10 DEF TableNext

\* Types, and the sizes of the table and of the table of while-active effects.
THEOREM TableTyped == TableSpec => []TableTypes
<1>1. TableInit => TableInv BY InitInv
<1>2. TableInv /\ [TableNext]_tableVars => TableInv' BY StepInv
<1>3. TableInv => TableTypes BY InvTypes
<1> QED BY <1>1, <1>2, <1>3, PTL DEF TableSpec

\* The table serves its rules: whatever rules enter and leave it, it holds of each all its
\* triggers and queries or as many as had room, once, and the event service has exactly
\* its subscriptions (Triggers_Subscribe_Rule, Triggers_Unsubscribe_Rule).
THEOREM ServesRules == TableSpec => []TableServesRules
<1>1. TableInit => TableInv BY InitInv
<1>2. TableInv /\ [TableNext]_tableVars => TableInv' BY StepInv
<1>3. TableInv => TableServesRules BY InvServes
<1> QED BY <1>1, <1>2, <1>3, PTL DEF TableSpec

\* Every firing is right: once per event, once per crossing of a threshold, after the whole
\* hold, with the event in the caches, and a webhook meets each of its triggers that keeps
\* its place, none twice.
THEOREM FireRight == TableSpec => []FiringsRight
<1>1. TableInit => TableInv BY InitInv
<1>2. TableInv /\ [TableNext]_tableVars => TableInv' BY StepInv
<1>3. TableInv => FiringsRight BY DEF TableInv, FiringsRight
<1> QED BY <1>1, <1>2, <1>3, PTL DEF TableSpec

\* When the condition of a rule's only trigger has cleared, no effect of the rule is on that
\* could still be undone, unless nothing watches it any more (`loose`).
THEOREM EffectsEnd == TableSpec => []EffectsEndIfUndoable
<1>1. TableInit => TableInv BY InitInv
<1>2. TableInv /\ [TableNext]_tableVars => TableInv' BY StepInv
<1>3. TableInv => EffectsEndIfUndoable BY InvEnds
<1> QED BY <1>1, <1>2, <1>3, PTL DEF TableSpec
==============================================================================
