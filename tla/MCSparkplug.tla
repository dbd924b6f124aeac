---------------------------- MODULE MCSparkplug ----------------------------
(***************************************************************************)
(* Settings for model checking Sparkplug: a node with two metrics and a    *)
(* primary host; the same with the list the other way round; another node  *)
(* with a device; a node switched off.                                     *)
(***************************************************************************)
EXTENDS Sparkplug

Plain   == [on |-> TRUE, id |-> "n1", dev |-> FALSE, watch |-> TRUE, list |-> <<"a", "b">>]
Swapped == [Plain EXCEPT !.list = <<"b">>]
Renamed == [Plain EXCEPT !.id = "n2", !.dev = TRUE]
Off     == [Plain EXCEPT !.on = FALSE]

Settings == {Plain, Swapped, Renamed, Off}
=============================================================================
