----------------------------- MODULE ActionRunner -----------------------------
(***************************************************************************)
(* The action executor of src/app/engine/actions.c: execute_from_ex walks  *)
(* a rule's action list on the thread that fired the rule (the main loop,  *)
(* or the FastCGI thread for webhooks, manual firing and the test          *)
(* endpoint).  A "delay" and an HTTP request that waits for a plate image  *)
(* leave the rest of the list to a main-loop timer; "run_rule" and an      *)
(* action's on_failure list call execute_from_ex again on the same stack.  *)
(*                                                                         *)
(* Two globals are shared by every list that is being walked: the id of    *)
(* the current rule, a pointer into the caller's frame or into the timer's *)
(* context (cur), and the last error (gerr).  A pointer whose owner has    *)
(* returned dangles: what an error is then recorded for is left open.      *)
(*                                                                         *)
(* An action is [tag, type, seconds, target, enable, alpv, onFailure].     *)
(* ActionHandlers says what becomes of a request.                          *)
(***************************************************************************)
EXTENDS Integers, Sequences, FiniteSets, SequencesExt, ActionHandlers

CONSTANTS Rules,          \* rule ids
          Actions,          \* the actions of the rules and of the tests
          Program,          \* Program[r]: the action list of rule r
          Lists,            \* Lists[r]: the action lists of rule r: its own and, however
                            \* deep, the on_failure lists in it
          MaxFires,         \* bound: firings and tests, what run_rule fires not counted
          TestActions,      \* what the test endpoint is called with
          NoRule,           \* no rule id, or one no rule has
          ALPV_IMAGE_MAX_ATTEMPTS,
          MAX_DIGEST_BUFFERS, MAX_DIGEST_LINES, DigestInterval

Tags(acts) == {acts[k].tag : k \in DOMAIN acts}

\* Actions have the fields of their kind, on_failure lists hold actions.
ASSUME ActionParams ==
  /\ NoRule \notin Rules /\ TestActions \subseteq Actions
  /\ \A a \in Actions :
       a.seconds \in Int /\ a.alpv \in BOOLEAN /\ a.onFailure \in Seq(Actions)
  /\ MaxFires \in Nat /\ ALPV_IMAGE_MAX_ATTEMPTS \in Nat
  /\ MAX_DIGEST_BUFFERS \in Nat /\ MAX_DIGEST_LINES \in Nat \ {0} /\ DigestInterval \in Nat

\* A tag names one action of a rule, and every on_failure list belongs to one action.
ASSUME ProgramParams ==
  \A r \in Rules :
    /\ Program[r] \in Lists[r]
    /\ \A L \in Lists[r] :
         /\ L \in Seq(Actions)
         /\ \A i \in DOMAIN L :
              /\ L[i].onFailure # <<>> => L[i].onFailure \in Lists[r] \ {Program[r]}
              /\ \A M \in Lists[r] : \A j \in DOMAIN M :
                   \/ L[i].tag = M[j].tag
                   \/ L[i].onFailure # <<>> /\ L[i].onFailure = M[j].onFailure
                   => L = M /\ i = j

VARIABLES
  stack,     \* thread -> the calls of execute_from_ex on its stack, innermost first
  timers,    \* delay_resume and alpv_retry_resume sources
  cur,       \* g_current_rule_id
  gerr,      \* g_action_error is not empty
  enabled,   \* the enabled rules
  digest,    \* rule -> [lines, age] of its digest buffer; age counts since last_flush
  calls,     \* firings and tests so far
  runs,      \* history: of every firing its rule; the actions done, with the trigger data
             \*          they saw; the requests that failed
  strayed,   \* history: whose errors went to another rule or to none: those of an "action",
             \*          though nothing had mixed the rules up, or those of a "digest"
  tests      \* history: answers of the test endpoint

vars == <<stack, timers, cur, gerr, enabled, digest, calls, runs, strayed, tests>>

Threads == {"main", "http"}
NoRun   == 0
NULL    == [rule |-> NoRule, run |-> NoRun, acts |-> <<>>, attempt |-> 0]

Init ==
  /\ stack = [t \in Threads |-> <<>>]
  /\ timers = {}
  /\ cur = NULL
  /\ gerr = FALSE
  /\ enabled = Rules
  /\ digest = << >>
  /\ calls = 0
  /\ runs = <<>>
  /\ strayed = {}
  /\ tests = <<>>

(***************************************************************************)
(* Calls of execute_from_ex.                                               *)
(***************************************************************************)

\* The caller's rule_id argument: a buffer that belongs to this call only.
Pointer(run, rule, acts, attempt) ==
  [rule |-> rule, run |-> run, acts |-> acts, attempt |-> attempt]

Frame(run, ptr, acts, attempt, td, kind) ==
  [run |-> run, ptr |-> ptr, acts |-> acts, i |-> 1, attempt |-> attempt, td |-> td,
   kind |-> kind, erred |-> FALSE, crossed |-> FALSE, nested |-> FALSE]

Other(t) == CHOOSE u \in Threads : u # t

\* A call marks what it disturbs: the calls of the other thread and, unless it walks an
\* on_failure list of the same rule, the calls below it.
Pushed(t, f, below) ==
  [u \in Threads |->
     IF u = t
     THEN <<[f EXCEPT !.crossed = stack[Other(t)] # <<>>]>> \o
          [k \in 1..Len(below) |-> [below[k] EXCEPT !.nested = @ \/ f.ptr # below[k].ptr]]
     ELSE [k \in 1..Len(stack[u]) |-> [stack[u][k] EXCEPT !.crossed = TRUE]]]

\* Mutant: a resumed list leaves g_current_rule_id alone.
CallAnonymous(t, f, below) ==
  /\ stack' = Pushed(t, f, below)
  /\ cur' = IF f.kind = "resume" THEN cur ELSE f.ptr

Call(t, f, below) ==
  /\ stack' = Pushed(t, f, below)
  /\ cur' = f.ptr

\* The call continues with the next action of its list.
Advance(t, f) == [stack EXCEPT ![t] = <<[f EXCEPT !.i = @ + 1]>> \o Tail(@)]

Idle(t)   == stack[t] = <<>>
Top(t)    == Head(stack[t])
Act(t)    == Top(t).acts[Top(t).i]
Ready(t)  == ~Idle(t) /\ Top(t).i <= Len(Top(t).acts)
\* Mutants: the action after the delay is lost; the delay itself is taken along.
RestSkipping(f, from)  == SubSeq(f.acts, IF from > f.i THEN from + 1 ELSE from, Len(f.acts))
RestRepeating(f, from) == SubSeq(f.acts, f.i, Len(f.acts))

Rest(f, from) == SubSeq(f.acts, from, Len(f.acts))

\* The histories of the firing a call belongs to.
Note(f, a, td, failed) ==
  IF f.run = NoRun THEN runs
  ELSE LET run == runs[f.run] IN
       [runs EXCEPT ![f.run] =
          [run EXCEPT !.did = Append(@, [tag |-> a.tag, td |-> td]),
                      !.failed = IF failed THEN @ \cup {a.tag} ELSE @]]

(***************************************************************************)
(* Errors.                                                                 *)
(***************************************************************************)

Alive(ptr) == \E t \in Threads : \E k \in 1..Len(stack[t]) : stack[t][k].ptr = ptr

\* The rules EventLog_Set_Action_Error may be called for.
Blamed == IF cur = NULL THEN {NoRule}
          ELSE IF Alive(cur) THEN {cur.rule} ELSE Rules \cup {NoRule}

\* LOG_ACTION_ERR of the innermost call of thread t.
ActionError(t, f) ==
  /\ gerr' = TRUE
  /\ \E on \in Blamed :
       strayed' = strayed \cup {e \in {"action"} : on # f.ptr.rule /\ ~f.nested /\ ~f.crossed}

Erred(below) == [k \in 1..Len(below) |-> [below[k] EXCEPT !.erred = TRUE]]

(***************************************************************************)
(* Firing a rule: on_trigger_fired and RuleEngine_Fire call                *)
(* Actions_Execute with a copy of the id and of the action list.           *)
(***************************************************************************)

Started(r) == [rule |-> r, did |-> <<>>, failed |-> {}]

\* `done` is the history so far.
Execute(t, done, r, below) ==
  LET n == Len(done) + 1 IN
  /\ runs' = Append(done, Started(r))
  /\ Call(t, Frame(n, Pointer(n, r, Program[r], 0), Program[r], 0, FALSE, "fire"), below)

\* RuleEngine_Fire, on the FastCGI thread, takes a disabled rule too.
Fire(t, r) ==
  /\ Idle(t)
  /\ t = "main" => r \in enabled
  /\ calls < MaxFires /\ calls' = calls + 1
  /\ Execute(t, runs, r, <<>>)
  /\ UNCHANGED <<timers, gerr, enabled, digest, strayed, tests>>

\* Mutant: the error of an earlier action is not cleared.
TestUncleared(a) ==
  /\ Idle("http")
  /\ calls < MaxFires /\ calls' = calls + 1
  /\ Call("http", Frame(NoRun, NULL, <<a>>, 0, FALSE, "test"), <<>>)
  /\ UNCHANGED <<timers, gerr, enabled, digest, runs, strayed, tests>>

\* The test endpoint walks a list of one action for no rule.
Actions_Test(a) ==
  /\ Idle("http")
  /\ calls < MaxFires /\ calls' = calls + 1
  /\ gerr' = FALSE
  /\ Call("http", Frame(NoRun, NULL, <<a>>, 0, FALSE, "test"), <<>>)
  /\ UNCHANGED <<timers, enabled, digest, runs, strayed, tests>>

(***************************************************************************)
(* The actions of a list.                                                  *)
(***************************************************************************)

\* Mutant: the timer's context gets no trigger data.
PostponeBare(t, f, acts, attempt, left) ==
  /\ timers' = timers \cup {[run |-> f.run, rule |-> f.ptr.rule, acts |-> acts,
                             attempt |-> attempt, td |-> FALSE, left |-> left]}
  /\ stack' = [stack EXCEPT ![t] = <<[f EXCEPT !.i = Len(f.acts) + 1]>> \o Tail(@)]

\* The rest of the list waits in a timer; the call returns without walking it.
Postpone(t, f, acts, attempt, left) ==
  /\ timers' = timers \cup {[run |-> f.run, rule |-> f.ptr.rule, acts |-> acts,
                             attempt |-> attempt, td |-> f.td, left |-> left]}
  /\ stack' = [stack EXCEPT ![t] = <<[f EXCEPT !.i = Len(f.acts) + 1]>> \o Tail(@)]

Longer(s) == IF s < 1 THEN 1 ELSE s

DoDelay(t) ==
  /\ Ready(t) /\ Act(t).type = "delay"
  /\ Postpone(t, Top(t), Rest(Top(t), Top(t).i + 1), 0, Longer(Act(t).seconds))
  /\ runs' = Note(Top(t), Act(t), Top(t).td, FALSE)
  /\ UNCHANGED <<cur, gerr, enabled, digest, calls, strayed, tests>>

\* The tail of every request: record the error, then walk on_failure with the same rule id.
\* kind says whether on_failure works on the list's trigger data or on the request's copy.
Finish(t, f, a, out, kind) ==
  LET next == [f EXCEPT !.i = @ + 1, !.erred = @ \/ out.error]
      rest == IF out.error THEN Erred(Tail(stack[t])) ELSE Tail(stack[t])
      fall == Frame(f.run, f.ptr, a.onFailure, 0, f.td, kind)
  IN /\ IF out.failed /\ a.onFailure # <<>>
        THEN Call(t, fall, <<next>> \o rest)
        ELSE stack' = [stack EXCEPT ![t] = <<next>> \o rest] /\ cur' = cur
     /\ IF out.error THEN ActionError(t, f) ELSE UNCHANGED <<gerr, strayed>>
     /\ runs' = Note(f, a, f.td, out.failed)

DoRequest(t) ==
  /\ Ready(t) /\ Act(t).type \in Handlers /\ ~Act(t).alpv
  /\ \E out \in {Outcome(Act(t).type, q) : q \in Request} :
       Finish(t, Top(t), Act(t), out, "failure")
  /\ UNCHANGED <<timers, enabled, digest, calls, tests>>

\* The attempt of a retried call is that of its first action.
AttemptOf(f) == IF f.i = 1 THEN f.attempt ELSE 0

\* alpv_try_image_base64 has the image, finds it not saved yet, or fails.  The request is
\* put off for a second, or sent with a copy of the trigger data.
DoAlpv(t) ==
  /\ Ready(t) /\ Act(t).alpv
  /\ LET again == AttemptOf(Top(t)) + 1 IN
     \E image \in {"got", "later", "never"} :
       IF image = "later" /\ again < ALPV_IMAGE_MAX_ATTEMPTS
       THEN /\ Postpone(t, Top(t), Rest(Top(t), Top(t).i), again, 1)
            /\ UNCHANGED <<cur, gerr, runs, strayed>>
       ELSE /\ \E out \in {HttpRequest(q) : q \in Request} :
                 Finish(t, Top(t), Act(t), out, "copied")
            /\ timers' = timers
  /\ UNCHANGED <<enabled, digest, calls, tests>>

\* run_rule asks only whether the rule is enabled: no cooldown, limit or condition.
DoRunRule(t) ==
  /\ Ready(t) /\ Act(t).type = "run_rule"
  /\ LET noted == Note(Top(t), Act(t), Top(t).td, FALSE)
     IN IF Act(t).target \in enabled
        THEN Execute(t, noted, Act(t).target, <<[Top(t) EXCEPT !.i = @ + 1]>> \o Tail(stack[t]))
        ELSE /\ runs' = noted
             /\ stack' = Advance(t, Top(t)) /\ cur' = cur
  /\ UNCHANGED <<timers, gerr, enabled, digest, calls, strayed, tests>>

\* RuleEngine_SetEnabled finds no rule with an unknown id.
DoSetRuleEnabled(t) ==
  /\ Ready(t) /\ Act(t).type = "set_rule_enabled"
  /\ enabled' = IF Act(t).enable THEN enabled \cup ({Act(t).target} \cap Rules)
                ELSE enabled \ {Act(t).target}
  /\ stack' = Advance(t, Top(t))
  /\ runs' = Note(Top(t), Act(t), Top(t).td, FALSE)
  /\ UNCHANGED <<timers, cur, gerr, digest, calls, strayed, tests>>

\* vapix_query (local cache or ONVIF pull point) and aoa_get_counts add what they fetch to
\* the list's trigger data, or leave it alone.
DoQuery(t) ==
  /\ Ready(t) /\ Act(t).type \in {"vapix_query", "aoa_get_counts"}
  /\ \E fetched \in BOOLEAN :
       LET f == [Top(t) EXCEPT !.td = @ \/ fetched] IN
       /\ stack' = Advance(t, f)
       /\ runs' = Note(f, Act(t), f.td, FALSE)
  /\ UNCHANGED <<timers, cur, gerr, enabled, digest, calls, strayed, tests>>

\* The line joins the rule's buffer, which is created on first use; with all buffers taken
\* or the buffer full it is dropped.
DigestAdd(r) ==
  IF r \in DOMAIN digest
  THEN [digest EXCEPT ![r].lines = IF @ < MAX_DIGEST_LINES THEN @ + 1 ELSE @]
  ELSE IF Cardinality(DOMAIN digest) >= MAX_DIGEST_BUFFERS THEN digest
  ELSE [s \in DOMAIN digest \cup {r} |->
          IF s = r THEN [lines |-> 1, age |-> 0] ELSE digest[s]]

DoDigest(t) ==
  /\ Ready(t) /\ Act(t).type = "digest"
  /\ Top(t).ptr.rule # NoRule
  /\ digest' = DigestAdd(Top(t).ptr.rule)
  /\ stack' = Advance(t, Top(t))
  /\ runs' = Note(Top(t), Act(t), Top(t).td, FALSE)
  /\ UNCHANGED <<timers, cur, gerr, enabled, calls, strayed, tests>>

\* The list is done.  An on_failure list worked on the trigger data of the list below it;
\* a test answers with what g_action_error holds by now.
Return(t) ==
  /\ ~Idle(t) /\ ~Ready(t)
  /\ LET f == Top(t)
         below == Tail(stack[t])
     IN /\ stack' = [stack EXCEPT ![t] =
             IF f.kind = "failure" THEN <<[Head(below) EXCEPT !.td = f.td]>> \o Tail(below)
             ELSE below]
        /\ tests' = IF f.kind # "test" THEN tests
                    ELSE Append(tests, [erred |-> f.erred, failed |-> gerr,
                                        crossed |-> f.crossed])
  /\ UNCHANGED <<timers, cur, gerr, enabled, digest, calls, runs, strayed>>

Step(t) ==
  \/ DoDelay(t) \/ DoRequest(t) \/ DoAlpv(t) \/ DoRunRule(t)
  \/ DoSetRuleEnabled(t) \/ DoQuery(t) \/ DoDigest(t) \/ Return(t)

(***************************************************************************)
(* The main loop.                                                          *)
(***************************************************************************)

\* delay_resume and alpv_retry_resume.
Resume ==
  /\ Idle("main")
  /\ \E w \in timers :
       /\ w.left = 0
       /\ timers' = timers \ {w}
       /\ Call("main", Frame(w.run, Pointer(w.run, w.rule, w.acts, w.attempt), w.acts,
                             w.attempt, w.td, "resume"), <<>>)
  /\ UNCHANGED <<gerr, enabled, digest, calls, runs, strayed, tests>>

\* A second passes.  What passes while the main loop is busy shows when it is idle again.
Tick ==
  /\ Idle("main")
  /\ \/ \E w \in timers : w.left > 0
     \/ \E r \in DOMAIN digest : digest[r].lines > 0 /\ digest[r].age < DigestInterval
  /\ timers' = {[w EXCEPT !.left = IF @ > 0 THEN @ - 1 ELSE 0] : w \in timers}
  /\ digest' = [r \in DOMAIN digest |->
       [digest[r] EXCEPT !.age = IF @ < DigestInterval THEN @ + 1 ELSE @]]
  /\ UNCHANGED <<stack, cur, gerr, enabled, calls, runs, strayed, tests>>

\* Mutant: a buffer is sent once it is full.
DueFull(r) == digest[r].lines >= MAX_DIGEST_LINES

Due(r) == digest[r].lines > 0 /\ digest[r].age >= DigestInterval

\* Actions_Digest_Tick sends the lines of a buffer that is old enough; they are gone then,
\* sent or not.  An error is recorded for whatever rule g_current_rule_id names.
Actions_Digest_Tick ==
  /\ Idle("main")
  /\ \E r \in DOMAIN digest :
       /\ Due(r)
       /\ digest' = [digest EXCEPT ![r] = [lines |-> 0, age |-> 0]]
       /\ stack' = [stack EXCEPT !["http"] =
            [k \in 1..Len(@) |-> [@[k] EXCEPT !.crossed = TRUE]]]
       /\ \/ UNCHANGED <<gerr, strayed>>
          \/ /\ gerr' = TRUE
             /\ \E on \in Blamed : strayed' = strayed \cup {e \in {"digest"} : on # r}
  /\ UNCHANGED <<timers, cur, enabled, calls, runs, tests>>

Next ==
  \/ \E t \in Threads : Step(t)
  \/ \E t \in Threads, r \in Rules : Fire(t, r)
  \/ \E a \in TestActions : Actions_Test(a)
  \/ Resume \/ Tick \/ Actions_Digest_Tick

\* A handler returns (its transfers have timeouts), the main loop dispatches its sources,
\* and time passes.
Fairness ==
  /\ \A t \in Threads : WF_vars(Step(t))
  /\ WF_vars(Resume) /\ WF_vars(Tick) /\ WF_vars(Actions_Digest_Tick)

Spec == Init /\ [][Next]_vars /\ Fairness

(***************************************************************************)
(* Properties.                                                             *)
(***************************************************************************)

\* Types and table sizes.
Names    == {a.tag : a \in Actions}
RuleIds  == Rules \cup {NoRule}
Pointers == [rule : RuleIds, run : Nat, acts : Seq(Actions), attempt : Nat]
Frames   == [run : Nat, ptr : Pointers, acts : Seq(Actions), i : Nat \ {0}, attempt : Nat,
             td : BOOLEAN, kind : {"fire", "test", "failure", "copied", "resume"},
             erred : BOOLEAN, crossed : BOOLEAN, nested : BOOLEAN]
Timers   == [run : Nat, rule : RuleIds, acts : Seq(Actions), attempt : Nat, td : BOOLEAN,
             left : Nat]
Runs     == [rule : Rules, did : Seq([tag : Names, td : BOOLEAN]), failed : SUBSET Names]
Buffer   == [lines : 0..MAX_DIGEST_LINES, age : 0..DigestInterval]
TypeOK ==
  /\ stack \in [Threads -> Seq(Frames)] /\ timers \subseteq Timers
  /\ cur \in Pointers /\ gerr \in BOOLEAN /\ enabled \subseteq Rules
  /\ DOMAIN digest \subseteq Rules /\ digest \in [DOMAIN digest -> Buffer]
  /\ IsFiniteSet(DOMAIN digest) /\ Cardinality(DOMAIN digest) <= MAX_DIGEST_BUFFERS
  /\ calls \in 0..MaxFires /\ runs \in Seq(Runs) /\ strayed \subseteq {"action", "digest"}
  /\ tests \in Seq([erred : BOOLEAN, failed : BOOLEAN, crossed : BOOLEAN])

DoneIn(run) == {run.did[j].tag : j \in DOMAIN run.did}

\* A firing executes its rule's actions one after another, each exactly once, however often
\* delays and image retries put the rest of the list into a timer and other rules run in
\* between; the on_failure list of a request runs, in its own order, only if that request
\* failed (execute_from_ex, delay_resume, alpv_retry_resume).
RunsInOrder ==
  \A n \in DOMAIN runs :
    LET run == runs[n] IN
    /\ \A j, k \in DOMAIN run.did : run.did[j].tag = run.did[k].tag => j = k
    /\ \A L \in Lists[run.rule] : \A q \in DOMAIN L :
         /\ \A k \in DOMAIN run.did : run.did[k].tag = L[q].tag =>
              \A p \in 1..q - 1 : \E j \in 1..k - 1 : run.did[j].tag = L[p].tag
         /\ DoneIn(run) \cap Tags(L[q].onFailure) # {} => L[q].tag \in run.failed

\* What a query put into the trigger data is still there for every later action of the
\* list, across delays and retries (DelayCtx and AlpvRetryCtx duplicate the data).
DataKept ==
  \A n \in DOMAIN runs : \A L \in Lists[runs[n].rule] :
    \A k \in DOMAIN runs[n].did : \A j \in 1..k - 1 :
      LET e == runs[n].did[j]
          f == runs[n].did[k]
      IN e.tag \in Tags(L) /\ f.tag \in Tags(L) /\ e.td => f.td

\* A list survives being put into a timer: its order, its place and its data.
ListsKept == RunsInOrder /\ DataKept

\* An error of an action in a list is recorded for the rule whose action failed, unless that
\* list has run another rule before, or the other thread executed actions meanwhile
\* (LOG_ACTION_ERR reads the global g_current_rule_id).  Of the errors of a digest's delivery
\* nothing is promised: they go to whatever rule the global still names (actions.c:3990).
ErrorsOwnUnlessMixed == "action" \notin strayed

\* The test endpoint reports a failure exactly if the tested action recorded an error,
\* unless the main loop executed actions meanwhile (g_action_error is shared).
VerdictsRightUnlessCrossed ==
  \A k \in 1..Len(tests) : tests[k].crossed \/ tests[k].failed = tests[k].erred

\* The lists a firing has to execute: its rule's, and the on_failure lists of what failed.
Owed(run) ==
  {L \in Lists[run.rule] :
     \/ L = Program[run.rule]
     \/ \E M \in Lists[run.rule] : \E i \in DOMAIN M :
          M[i].onFailure = L /\ M[i].tag \in run.failed}

\* Every firing gets to the end of its action list, and to the end of the on_failure list
\* of each request that failed: with no more firings (MaxFires), nothing stays undone.
RunsComplete ==
  []<>(\A n \in DOMAIN runs : \A L \in Owed(runs[n]) : Tags(L) \subseteq DoneIn(runs[n]))

\* Lines collected for a digest are eventually sent.
DigestsSent ==
  \A r \in Rules :
    LET pending == r \in DOMAIN digest /\ digest[r].lines > 0 IN pending ~> ~pending

\* Nothing that a firing has started is left undone.
WorkEnds == RunsComplete /\ DigestsSent
=============================================================================
