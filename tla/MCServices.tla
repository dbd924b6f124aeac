------------------------------ MODULE MCServices ------------------------------
(***************************************************************************)
(* Services of the engine that share no state: the scheduler, the event    *)
(* log, the variables, the conditions, the pull point query, the Modbus    *)
(* pool and the output ports.  A behaviour is of the one that side names.  *)
(***************************************************************************)
EXTENDS MCScheduler, EventLog, Variables, Conditions, PullPoint, ModbusPool,
        Outputs, TLC

VARIABLE side

\* A TCP device and a serial one.
TargetTransport == [a |-> "tcp", b |-> "rtu"]

\* One port for a time, both for a time in different states, one while a rule is active,
\* one for good.
PortActions ==
  {[rule |-> "r1", kind |-> "timed", set |-> 1 :> TRUE],
   [rule |-> "r1", kind |-> "timed", set |-> 2 :> TRUE],
   [rule |-> "r1", kind |-> "timed", set |-> 1 :> FALSE @@ 2 :> TRUE],
   [rule |-> "r1", kind |-> "while_active", set |-> 1 :> TRUE],
   [rule |-> "r2", kind |-> "while_active", set |-> 2 :> TRUE],
   [rule |-> "r2", kind |-> "plain", set |-> 1 :> TRUE]}

Word(n)    == [kind |-> "text", v |-> n]
Numeral(n) == [kind |-> "numtext", v |-> n]
Truth(n)   == [kind |-> "booltext", v |-> n]

\* The texts in the order of strcmp: 20 is less than 9.
Ascending == <<<<"number", 0>>, <<"number", 1>>, <<"number", 20>>, <<"number", 9>>,
               <<"truth", 0>>, <<"truth", 1>>, <<"word", 1>>, <<"word", 9>>, <<"word", 20>>>>
StrOrder  == {<<Ascending[p[1]], Ascending[p[2]]>> :
                p \in {q \in (1..9) \X (1..9) : q[1] < q[2]}}

\* One or more conditions of each type, with the operators that differ, and one of each that
\* lacks what the handler asks for.
Samples ==
  UNION {
    {[type |-> "time_window", named |-> TRUE, start |-> s, end |-> e, listed |-> d # "no",
      days |-> IF d = "one" THEN {1} ELSE {}] :
       s \in 0..DayLength - 1, e \in 0..DayLength - 1, d \in {"no", "one", "empty"}},
    {[type |-> "day_night", named |-> TRUE, want |-> w] : w \in {"day", "night", "none"}},
    {[type |-> "io_state", named |-> n, want |-> w] : n \in BOOLEAN, w \in {"active", "inactive"}},
    {[type |-> "http_check", named |-> TRUE, status |-> t, expected |-> x, json |-> y] :
       t \in {AnyStatus, 200}, x \in {None, Word(1)}, y \in {None, Numeral(1)}},
    {[type |-> "counter", named |-> n, op |-> o, threshold |-> 9] :
       n \in BOOLEAN, o \in {"lt", "gte", "none"}},
    {[type |-> "variable_compare", named |-> TRUE, op |-> o, expected |-> x] :
       o \in {"eq", "ne", "neq", "gt", "lte", "none"}, x \in {Word(1), Numeral(9)}},
    {[type |-> "aoa_occupancy", named |-> n, op |-> o, threshold |-> 9] :
       n \in BOOLEAN, o \in {"gt", "lte", "ne"}},
    {[type |-> "trigger_data", named |-> TRUE, op |-> o, expected |-> x] :
       o \in {"eq", "not_contains", "lt", "none"}, x \in {Word(1), Numeral(9), Truth(1)}},
    {[type |-> "vapix_event_state", named |-> TRUE, op |-> o, expected |-> x, threshold |-> 1,
      threshold2 |-> 9] :
       o \in {"eq_str", "boolean", "contains", "between", "gt", "none"},
       x \in {None, Numeral(1), Truth(0)}},
    {[type |-> "unknown", named |-> TRUE]}}

SampleLists ==
  {<<>>} \cup {<<c>> : c \in Samples}
         \cup {<<c, e>> : c \in Samples, e \in {x \in Samples : x.type \in {"io_state", "unknown"}}}

ServicesInit ==
  /\ Init /\ LogInit /\ VarInit /\ CondInit /\ PpInit /\ MbInit /\ OutInit
  /\ side \in {"scheduler", "log", "variables", "conditions", "query", "modbus", "outputs"}
  /\ side # "conditions" => eval.list = <<>> /\ eval.logic = "AND" /\ eval.skip
  /\ side # "log" => logFile = <<>>
  /\ side # "scheduler" => now = 1

ServicesNext ==
  /\ UNCHANGED side
  /\ IF side = "scheduler"  THEN Next     ELSE UNCHANGED vars
  /\ IF side = "log"        THEN LogNext  ELSE UNCHANGED logVars
  /\ IF side = "variables"  THEN VarNext  ELSE UNCHANGED varVars
  /\ IF side = "conditions" THEN CondNext ELSE UNCHANGED eval
  /\ IF side = "query"      THEN PpNext   ELSE UNCHANGED ppVars
  /\ IF side = "modbus"     THEN MbNext   ELSE UNCHANGED mbVars
  /\ IF side = "outputs"    THEN OutNext  ELSE UNCHANGED outVars

serviceVars == <<side, vars, logVars, varVars, eval, ppVars, mbVars, outVars>>

ServicesSpec == ServicesInit /\ [][ServicesNext]_serviceVars
=============================================================================
