------------------------------ MODULE Conditions ------------------------------
(***************************************************************************)
(* The conditions of a rule, src/app/engine/conditions.c: the walk over    *)
(* the list with its early returns, and what each kind makes of the answer *)
(* it gets.  Devices, servers and the clock answer anew for every          *)
(* condition, so the answers of one evaluation need not fit together.      *)
(*                                                                         *)
(* A day has DayLength seconds.  A value is [kind, v]: a number, a         *)
(* Boolean, or a text, which may read as a number ("numtext") or as a      *)
(* Boolean ("booltext").  Texts have the order of strcmp, which is not     *)
(* that of the numbers they read as, and a text contains itself only.      *)
(***************************************************************************)
EXTENDS Integers, Sequences, FiniteSets

CONSTANTS DayLength,
          Conds,          \* conditions: [type, ...]
          CondLists,      \* lists of conditions to evaluate
          Numbers,        \* the numbers that answers hold
          TextOrder       \* the pairs of texts of which the first is less for strcmp

CondTypes == {"time_window", "day_night", "io_state", "http_check", "counter",
              "variable_compare", "aoa_occupancy", "trigger_data", "vapix_event_state",
              "unknown"}

None == [kind |-> "none", v |-> 0]

\* named: the keys that the handler cannot do without are there, under the names it reads.  An
\* operator that is left out is "none", a list of days that is left out is empty and not listed.
ASSUME CondParams ==
  /\ DayLength \in Nat \ {0} /\ Numbers \subseteq Nat
  /\ CondLists \subseteq Seq(Conds)
  /\ \A c \in Conds :
       /\ c.type \in CondTypes
       /\ c.named \in BOOLEAN
       /\ c.type = "time_window" => /\ c.start \in 0..DayLength - 1 /\ c.end \in 0..DayLength - 1
                                   /\ c.listed \in BOOLEAN /\ (c.listed \/ c.days = {})
       /\ c.type \in {"variable_compare", "trigger_data", "vapix_event_state"} =>
            c.expected \in {None} \cup [kind : {"numtext", "text"}, v : Nat]
                           \cup [kind : {"booltext"}, v : 0..1]

VARIABLE eval    \* [list, logic, skip, i, done, result, answers]

Values == {[kind |-> k, v |-> n] : k \in {"number", "numtext", "text"}, n \in Numbers}
          \cup {[kind |-> k, v |-> n] : k \in {"bool", "booltext"}, n \in 0..1}

Compare(op, a, b) ==
  \/ op = "eq"  /\ a = b
  \/ op = "ne"  /\ a # b
  \/ op = "gt"  /\ a > b
  \/ op = "gte" /\ a >= b
  \/ op = "lt"  /\ a < b
  \/ op = "lte" /\ a <= b

\* What a value reads as, and how it is printed.
IsNumber(x) == x.kind \in {"number", "numtext"}
Text(x) == <<IF IsNumber(x) THEN "number" ELSE IF x.kind = "text" THEN "word" ELSE "truth", x.v>>

strcmp(x, y) == IF Text(x) = Text(y) THEN 0
                ELSE IF <<Text(x), Text(y)>> \in TextOrder THEN -1 ELSE 1

(***************************************************************************)
(* One condition and its answer.                                           *)
(***************************************************************************)

\* Mutant: a window that ends before it starts is empty.
WindowNoWrap(c, now) ==
  /\ c.named
  /\ c.listed => now.dow \in c.days
  /\ now.sod >= c.start /\ now.sod < c.end

\* The days are those of the present moment, also after midnight; an empty list has no day.
cond_time_window(c, now) ==
  /\ c.named
  /\ c.listed => now.dow \in c.days
  /\ IF c.start <= c.end
     THEN now.sod >= c.start /\ now.sod < c.end
     ELSE now.sod >= c.start \/ now.sod < c.end

\* Scheduler_Is_Daytime is negative where the sun does not rise or set.
cond_day_night(c, sun) == sun >= 0 /\ (sun = 1) = (c.want \in {"day", "none"})

value_passes_cond(actual, c) ==
  IF c.op = "between" THEN actual >= c.threshold /\ actual <= c.threshold2
  ELSE c.op # "ne" /\ Compare(c.op, actual, c.threshold)

\* x is the value of the data key; a word has no number, and a Boolean is printed as 1 or 0.
True(x) == x.v = 1 /\ x.kind \in {"bool", "booltext", "numtext"}
cond_vapix_event_state(c, x) ==
  /\ c.named /\ x # None
  /\ CASE c.op \in {"eq_str", "none"} ->
            /\ c.expected # None
            /\ IF x.kind = "bool" THEN Text(c.expected) = <<"number", x.v>>
               ELSE Text(x) = Text(c.expected)
       [] c.op = "boolean" ->
            /\ c.expected # None
            /\ (IF x.kind = "number" THEN x.v # 0 ELSE True(x)) = True(c.expected)
       [] c.op = "contains" ->
            c.expected # None /\ x.kind # "bool" /\ Text(x) = Text(c.expected)
       [] OTHER -> x.kind \notin {"text", "booltext"} /\ value_passes_cond(x.v, c)

\* Counter_Compare: a counter that does not exist counts as 0.
cond_counter(c, x) == c.named /\ Compare(c.op, x.v, c.threshold)

\* Variables_Compare: the texts, for every operator; a variable that does not exist fails.
cond_variable_compare(c, x) == c.named /\ x # None /\ Compare(c.op, strcmp(x, c.expected), 0)

\* A status that is not asked for.
AnyStatus == -1

\* reply: its status, its body (None if the server sent none) and what the JSON path finds in
\* the body (None if nothing); NoReply if the request failed.
NoReply == [status |-> 0, body |-> None, field |-> None]
cond_http_check(c, reply) ==
  /\ c.named /\ reply # NoReply
  /\ c.status \in {AnyStatus, reply.status}
  /\ c.expected = None \/ reply.body = None \/ Text(reply.body) = Text(c.expected)
  /\ \/ c.json = None \/ reply.body = None
     \/ reply.field # None /\ Text(reply.field) = Text(c.json)

cond_io_state(c, x) == c.named /\ x # None /\ (x.v = 1) = (c.want = "active")

cond_aoa_occupancy(c, x) ==
  c.named /\ x.kind = "number" /\ c.op # "ne" /\ Compare(c.op, x.v, c.threshold)

\* Numbers are compared as such if both sides read as one.
trigger_data_compare(x, c) ==
  CASE c.op = "contains"     -> Text(x) = Text(c.expected)
    [] c.op = "not_contains" -> Text(x) # Text(c.expected)
    [] OTHER -> IF IsNumber(x) /\ IsNumber(c.expected) THEN Compare(c.op, x.v, c.expected.v)
                ELSE Compare(c.op, strcmp(x, c.expected), 0)

cond_trigger_data(c, x) == c.named /\ x # None /\ trigger_data_compare(x, c)

Expensive == {"vapix_event_state", "http_check", "aoa_occupancy", "trigger_data"}

Texts   == {x \in Values : x.kind = "text"}
Replies == {r \in [status : {200, 404}, body : {None} \cup Texts, field : {None} \cup Values] :
              r.body = None => r.field = None}

\* What a condition of each type may be answered.
Answers(type) ==
  CASE type = "time_window" -> [sod : 0..DayLength - 1, dow : 0..6]
    [] type = "day_night"   -> -1..1
    [] type = "http_check"  -> {NoReply} \cup Replies
    [] type = "aoa_occupancy" -> {None} \cup {x \in Values : x.kind = "number"}
    [] type = "counter"     -> {None} \cup {x \in Values : x.kind = "number"}
    [] type = "io_state"    -> {None} \cup {x \in Values : x.kind = "bool"}
    [] type = "variable_compare" ->
         {None} \cup {x \in Values : x.kind \in {"numtext", "text", "booltext"}}
    [] OTHER -> {None} \cup Values

Passes(c, a) ==
  CASE c.type = "time_window"       -> cond_time_window(c, a)
    [] c.type = "day_night"         -> cond_day_night(c, a)
    [] c.type = "counter"           -> cond_counter(c, a)
    [] c.type = "io_state"          -> cond_io_state(c, a)
    [] c.type = "variable_compare"  -> cond_variable_compare(c, a)
    [] c.type = "vapix_event_state" -> cond_vapix_event_state(c, a)
    [] c.type = "http_check"        -> cond_http_check(c, a)
    [] c.type = "aoa_occupancy"     -> cond_aoa_occupancy(c, a)
    [] c.type = "trigger_data"      -> cond_trigger_data(c, a)

(***************************************************************************)
(* conditions_evaluate_internal.                                           *)
(***************************************************************************)

CondInit ==
  \E list \in CondLists, logic \in {"AND", "OR"}, skip \in BOOLEAN :
    eval = [list |-> list, logic |-> logic, skip |-> skip, i |-> 1, done |-> FALSE,
            result |-> FALSE, answers |-> <<>>]

\* An empty list passes; a list that is used up passes if the logic is AND.
EvalEnds ==
  /\ ~eval.done /\ eval.i > Len(eval.list)
  /\ eval' = [eval EXCEPT !.done = TRUE, !.result = eval.list = <<>> \/ eval.logic = "AND"]

\* An entry of unknown type is passed over.
EvalSkips ==
  /\ ~eval.done /\ eval.i <= Len(eval.list)
  /\ eval.list[eval.i].type = "unknown"
  /\ eval' = [eval EXCEPT !.i = @ + 1, !.answers = Append(@, None)]

\* AND ends with the first condition that fails, OR with the first that passes; the
\* lightweight walk takes the expensive ones for passed.
EvalStep(a) ==
  LET c    == eval.list[eval.i]
      pass == (eval.skip /\ c.type \in Expensive) \/ Passes(c, a)
  IN eval' = [eval EXCEPT !.answers = Append(@, a),
                          !.i = @ + 1,
                          !.done = pass = (eval.logic = "OR"),
                          !.result = pass /\ eval.logic = "OR"]

EvalCondition ==
  /\ ~eval.done /\ eval.i <= Len(eval.list)
  /\ eval.list[eval.i].type # "unknown"
  /\ \E a \in Answers(eval.list[eval.i].type) : EvalStep(a)

CondNext == EvalEnds \/ EvalSkips \/ EvalCondition

CondSpec == CondInit /\ [][CondNext]_eval

(***************************************************************************)
(* Properties.                                                             *)
(***************************************************************************)

\* The seconds from start up to end, around midnight where need be.
Window(c) == {(c.start + k) % DayLength : k \in 0..((c.end - c.start) % DayLength) - 1}

\* What the documentation says of a condition (README.md:133-141, AI_RULE_GUIDE.md:412-600,
\* docs/help.html:586-673), named as it names things; of an entry without a key that has to be
\* there, that it is not met.
Truths(x) == IF x.kind \in {"bool", "booltext"} \/ (IsNumber(x) /\ x.v \in 0..1) THEN {x.v} ELSE {}

EventMet(op, c, a) ==
  CASE op = "eq_str"   -> c.expected # None /\ Text(a) = Text(c.expected)
    [] op = "contains" -> c.expected # None /\ Text(a) = Text(c.expected)
    [] op = "boolean"  -> Truths(a) \cap Truths(c.expected) # {}
    [] op = "between"  -> IsNumber(a) /\ a.v >= c.threshold /\ a.v <= c.threshold2
    [] OTHER -> /\ op \in {"gt", "gte", "lt", "lte", "eq"}
                /\ IsNumber(a) /\ Compare(op, a.v, c.threshold)

\* An operator that is left out means eq.
DataMet(op, c, a) ==
  CASE op = "contains"     -> Text(a) = Text(c.expected)
    [] op = "not_contains" -> Text(a) # Text(c.expected)
    [] OTHER -> IF IsNumber(a) /\ IsNumber(c.expected) THEN Compare(op, a.v, c.expected.v)
                ELSE Compare(op, strcmp(a, c.expected), 0)

\* eq and neq look at the texts, gt and lt at numbers.
VariableMet(op, c, a) ==
  CASE op = "eq"            -> Text(a) = Text(c.expected)
    [] op \in {"ne", "neq"} -> Text(a) # Text(c.expected)
    [] OTHER -> IsNumber(a) /\ IsNumber(c.expected) /\ Compare(op, a.v, c.expected.v)

Default(op, d) == IF op = "none" THEN d ELSE op

Met(c, a) ==
  CASE c.type = "time_window"  -> /\ c.named /\ a.sod \in Window(c)
                                  /\ c.days = {} \/ a.dow \in c.days
    [] c.type = "day_night"    -> a = (IF c.want = "day" THEN 1 ELSE 0) /\ c.want # "none"
    [] c.type = "io_state"     -> /\ c.named
                                  /\ a = [kind |-> "bool", v |-> IF c.want = "active" THEN 1 ELSE 0]
    [] c.type = "http_check"   -> /\ c.named /\ a # NoReply
                                  /\ a.status = IF c.status = AnyStatus THEN 200 ELSE c.status
                                  /\ c.expected # None => a.body # None
                                                         /\ Text(a.body) = Text(c.expected)
                                  /\ c.json # None => a.field # None
                                                     /\ Text(a.field) = Text(c.json)
    [] c.type = "counter"      -> Compare(c.op, IF a = None THEN 0 ELSE a.v, c.threshold)
    [] c.type = "aoa_occupancy" -> /\ c.named /\ a # None
                                   /\ c.op \in {"gt", "gte", "lt", "lte", "eq"}
                                   /\ Compare(c.op, a.v, c.threshold)
    [] c.type = "variable_compare" -> c.named /\ a # None /\ VariableMet(Default(c.op, "eq"), c, a)
    [] c.type = "trigger_data"     -> c.named /\ a # None /\ DataMet(Default(c.op, "eq"), c, a)
    [] c.type = "vapix_event_state" ->
         c.named /\ a # None /\ EventMet(Default(c.op, "eq_str"), c, a)

\* Where the code departs from its documentation.
Departs(c, a) ==
  \* An empty list of days is no day for the code (conditions.c:76), "every day" for
  \* docs/help.html:593.
  \/ c.type = "time_window" /\ c.listed /\ c.days = {}
  \* Without a state the code takes "day" (conditions.c:101); AI_RULE_GUIDE.md:571 requires one.
  \/ c.type = "day_night" /\ c.want = "none"
  \* AI_RULE_GUIDE.md:459 spells the keys counter_name and threshold, conditions.c:280 reads name
  \* and value.
  \/ c.type = "counter" /\ ~c.named
  \* The operator is "eq" by default (AI_RULE_GUIDE.md:477, 498), the code insists on one.
  \/ c.type \in {"variable_compare", "trigger_data"} /\ c.op = "none"
  \* AI_RULE_GUIDE.md:477 writes "neq", the code reads "ne"; :478 compares numbers, the code
  \* texts (variables.c:156).
  \/ c.type = "variable_compare" /\ c.op = "neq"
  \/ /\ c.type = "variable_compare" /\ c.op \in {"gt", "gte", "lt", "lte"} /\ a # None
     /\ ~(IsNumber(a) /\ IsNumber(c.expected)
           /\ (a.v < c.expected.v <=> strcmp(a, c.expected) < 0))
  \* The status is 200 by default (AI_RULE_GUIDE.md:524), the code takes any; and it looks for
  \* nothing in a reply without a body (conditions.c:687, 692).
  \/ /\ c.type = "http_check" /\ a # NoReply
     /\ \/ c.status = AnyStatus /\ a.status # 200
        \/ a.body = None /\ (c.expected # None \/ c.json # None)
  \* A Boolean is "1" or "0" for eq_str, a number for numeric operators and nothing for
  \* contains; what is no Boolean counts as false, a number but 0 as true (conditions.c:222-262).
  \/ /\ c.type = "vapix_event_state" /\ a # None
     /\ \/ c.op # "boolean" /\ a.kind = "bool"
        \/ c.op = "boolean" /\ (Truths(a) = {} \/ Truths(c.expected) = {})

Known(list) == {i \in 1..Len(list) : list[i].type # "unknown"}
Counted == {i \in 1..Len(eval.answers) : i \in Known(eval.list)}
Fine(i) == \/ eval.skip /\ eval.list[i].type \in Expensive
           \/ Met(eval.list[i], eval.answers[i])

\* A list passes exactly if its conditions are met, as the documentation says of each, by the
\* answers they got: all of them for AND, one of them for OR; a question that failed is never
\* taken for one that was answered.
EvaluatedRight ==
  eval.done /\ (\A i \in Counted : ~Departs(eval.list[i], eval.answers[i])) =>
    IF eval.logic = "AND"
    THEN eval.result = (Counted = Known(eval.list) /\ \A i \in Counted : Fine(i))
    ELSE /\ eval.result => eval.list = <<>> \/ \E i \in Counted : Fine(i)
         /\ ~eval.result => Counted = Known(eval.list) /\ \A i \in Counted : ~Fine(i)
=============================================================================
