--------------------------- MODULE MCMqttTraffic ---------------------------
(***************************************************************************)
(* Owners for model checking MqttTraffic: two rule triggers on the main    *)
(* loop and Sparkplug on the FastCGI thread.                               *)
(***************************************************************************)
EXTENDS MqttTraffic, TLC

CONSTANTS rule1, rule2, sparkplug, main, http, fa, fb

TwoThreads == rule1 :> main @@ rule2 :> main @@ sparkplug :> http

FilterSymmetry == Permutations({fa, fb})
=============================================================================
