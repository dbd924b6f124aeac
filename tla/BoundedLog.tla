------------------------------ MODULE BoundedLog ------------------------------
(***************************************************************************)
(* What the event log promises: the newest Size entries in the order they  *)
(* were added, an error mark on the newest entry of a rule, and a file     *)
(* with the newest Saved of them that a restart brings back, ordered by    *)
(* their time stamps.                                                      *)
(***************************************************************************)
EXTENDS Integers, Sequences

CONSTANTS Entries,       \* what can be logged; an entry has rule, at and error
          Size, Saved

VARIABLES log, file

Newest(s, n) == IF Len(s) <= n THEN s ELSE SubSeq(s, Len(s) - n + 1, Len(s))

\* By time stamp; entries of one second keep their order.
Before(s, x, y) == s[x].at < s[y].at \/ (s[x].at = s[y].at /\ x < y)
Order(s) == CHOOSE p \in [1..Len(s) -> 1..Len(s)] :
              \A i, j \in 1..Len(s) : i < j => Before(s, p[i], p[j])
ByTime(s) == [k \in 1..Len(s) |-> s[Order(s)[k]]]

\* A file does not bring error marks back.
Unmarked(s) == [k \in 1..Len(s) |-> [s[k] EXCEPT !.error = FALSE]]

\* What an earlier process has left.
Init == log = Newest(Unmarked(ByTime(file)), Size)

Add == \E e \in Entries : log' = Newest(Append(log, e), Size) /\ file' = file

\* The newest entry of some rule is marked.
Mark ==
  \E k \in 1..Len(log) :
    /\ \A j \in k + 1..Len(log) : log[j].rule # log[k].rule
    /\ log' = [log EXCEPT ![k].error = TRUE]
    /\ file' = file

Clear == log' = <<>> /\ file' = file

Save == file' = Newest(log, Saved) /\ log' = log

\* A save that cannot write the file it has opened empties it.
Lose == file' = <<>> /\ log' = log

Restart == log' = Newest(Unmarked(ByTime(file)), Size) /\ file' = file

\* A process that dies while it writes the file loses it.
Tear == log' = <<>> /\ file' = <<>>

Next == Add \/ Mark \/ Clear \/ Save \/ Lose \/ Restart \/ Tear

Spec == Init /\ [][Next]_<<log, file>>
=============================================================================
