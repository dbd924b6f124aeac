--------------------------- MODULE MCTriggerTable ---------------------------
(***************************************************************************)
(* Rules for model checking TriggerTable.  r1: an I/O input with a hold    *)
(* and other triggers on the port's topic, which it queries, and a siren.  *)
(* r2: a threshold, two effects of one type.  r3: a counter, a webhook, a  *)
(* register, a message and a threshold with a hold.  r4: an analytics      *)
(* scenario on the port's topic.                                           *)
(***************************************************************************)
EXTENDS TriggerTable

MCTriggers ==
  [r1 |-> <<[type |-> "io_input", topic |-> "port", port |-> 1, edge |-> "rising", hold |-> 1],
            [type |-> "io_input", topic |-> "port", port |-> 1, edge |-> "cut", hold |-> 0],
            [type |-> "any", topic |-> "port"],
            [type |-> "string", topic |-> "port", word |-> "a"]>>,
   r2 |-> <<[type |-> "value", topic |-> "temp", bound |-> 1, hold |-> 0]>>,
   r3 |-> <<[type |-> "counter_threshold", bound |-> 1], [type |-> "http_webhook", token |-> "k"],
            [type |-> "modbus_read", bound |-> 1, poll |-> 1], [type |-> "message", match |-> "m"],
            [type |-> "value", topic |-> "temp", bound |-> 1, hold |-> 1],
            [type |-> "bool", topic |-> "temp", want |-> TRUE]>>,
   r4 |-> <<[type |-> "aoa_scenario", topic |-> "port", class |-> 0]>>]

MCQueries == [r \in {"r1", "r2", "r3", "r4"} |-> IF r = "r1" THEN <<"port">> ELSE <<>>]

Siren   == [atype |-> "siren_light", target |-> 1]
Light   == [atype |-> "siren_light", target |-> 3]
Output  == [atype |-> "io_output", target |-> 2]
MCEffects == [r1 |-> <<Siren>>, r2 |-> <<Siren, Light>>, r3 |-> <<Output>>, r4 |-> <<Siren>>]

Port(l) ==
  [topic |-> "port", port |-> 1, level |-> l, stateful |-> l, fault |-> l,
   numeric |-> TRUE, num |-> 0, word |-> IF l THEN "a" ELSE "b"]

\* Temp(2) has no number.
Temp(n) ==
  [topic |-> "temp", port |-> 0, level |-> n = 1, stateful |-> FALSE, fault |-> FALSE,
   numeric |-> n < 2, num |-> n, word |-> ""]

MCEvents == {Port(TRUE), Port(FALSE), Temp(0), Temp(1), Temp(2)}
=============================================================================
