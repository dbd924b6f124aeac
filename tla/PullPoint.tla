------------------------------- MODULE PullPoint -------------------------------
(***************************************************************************)
(* The question for the state of an event that a camera is asked over      *)
(* ONVIF: make a pull point subscription, pull its messages until one has  *)
(* the event's topic, end the subscription.  The program has it three      *)
(* times, in conditions.c for this and for another device and in           *)
(* actions.c, with the same steps.                                         *)
(*                                                                         *)
(* A subscription first delivers the state that every topic has, in any    *)
(* order and as the device finds time, then changes.  "w" is the topic     *)
(* that is asked for.  A call may fail, before or after the device has     *)
(* done what it asks (a timeout, a fault, a connection that breaks).       *)
(***************************************************************************)
EXTENDS Integers, Sequences, FiniteSets

CONSTANTS OtherTopics,
          MaxPulls,        \* 53
          MessageLimit,    \* messages in one answer (200)
          MaxQueries, MaxChanges, MaxQueue   \* bounds

ASSUME PullParams == MaxPulls \in Nat /\ MessageLimit \in Nat

VARIABLES
  topicState,     \* the device's state of "w": the changes so far
  subs,           \* the device's subscriptions: [open, todo, queue, since]
  query,          \* the query under way: [at, sub, attempt, drained]
  result,         \* the last message it found, or -1
  asks,           \* history: queries so far
  excused,        \* history: subscriptions nobody could end, a call for them having failed
  failed,         \* history: a call of this query has failed
  pulls           \* history: [made, empty] of this query

ppVars == <<topicState, subs, query, result, asks, excused, failed, pulls>>

Topics  == OtherTopics \cup {"w"}
NoQuery == [at |-> "idle", sub |-> 0, attempt |-> 0, drained |-> FALSE]

PpInit ==
  /\ topicState = 0
  /\ subs = <<>>
  /\ query = NoQuery
  /\ result = -1
  /\ asks = 0
  /\ excused = {}
  /\ failed = FALSE
  /\ pulls = [made |-> 0, empty |-> 0]

(***************************************************************************)
(* The device.                                                             *)
(***************************************************************************)

Message(topic) == [topic |-> topic, value |-> IF topic = "w" THEN topicState ELSE 0]

DeviceReports(s, topic) ==
  /\ subs[s].open /\ topic \in subs[s].todo
  /\ subs' = [subs EXCEPT ![s].todo = @ \ {topic}, ![s].queue = Append(@, Message(topic))]
  /\ UNCHANGED <<topicState, query, result, asks, excused, failed, pulls>>

\* A topic changes; every subscription that has had its state hears of it.
DeviceChanges(topic) ==
  LET value == IF topic = "w" THEN topicState + 1 ELSE 0
      hears(s) == subs[s].open /\ topic \notin subs[s].todo
  IN /\ topicState < MaxChanges
     /\ \A s \in 1..Len(subs) : hears(s) => Len(subs[s].queue) < MaxQueue
     /\ topicState' = IF topic = "w" THEN topicState + 1 ELSE topicState
     /\ subs' = [s \in 1..Len(subs) |->
          IF hears(s) THEN [subs[s] EXCEPT !.queue = Append(@, [topic |-> topic, value |-> value])]
                      ELSE subs[s]]
     /\ UNCHANGED <<query, result, asks, excused, failed, pulls>>

\* The termination time of 60 seconds ends what nobody ends.
DeviceExpires(s) ==
  /\ subs[s].open /\ s \in excused
  /\ subs' = [subs EXCEPT ![s].open = FALSE, ![s].queue = <<>>]
  /\ UNCHANGED <<topicState, query, result, asks, excused, failed, pulls>>

(***************************************************************************)
(* The caller.                                                             *)
(***************************************************************************)

\* CreatePullPointSubscription: no answer, a fault or an id that cannot be read end the
\* query, though the device may have a subscription by then.
AskDevice ==
  LET new == [open |-> TRUE, todo |-> Topics, queue |-> <<>>, since |-> topicState]
      s   == Len(subs) + 1
  IN /\ query.at = "idle" /\ asks < MaxQueries
     /\ asks' = asks + 1
     /\ result' = -1
     /\ pulls' = [made |-> 0, empty |-> 0]
     /\ \/ /\ subs' = Append(subs, new)
           /\ query' = [at |-> "pull", sub |-> s, attempt |-> 0, drained |-> FALSE]
           /\ failed' = FALSE
           /\ excused' = excused
        \/ /\ subs' = Append(subs, new)
           /\ failed' = TRUE
           /\ excused' = excused \cup {s}
           /\ query' = query
        \/ /\ failed' = TRUE
           /\ UNCHANGED <<subs, query, excused>>
     /\ topicState' = topicState

cond_remote_pullpoint  == AskDevice
cond_local_pullpoint   == AskDevice
remote_pullpoint_query == AskDevice

\* The first message of an answer with the topic.
Matches(answer) == {i \in 1..Len(answer) : answer[i].topic = "w"}
Match(answer)   == answer[CHOOSE i \in Matches(answer) : \A j \in Matches(answer) : i <= j].value

\* Mutant: the first empty answer ends the query.
EndsAtFirst(q, answer) == answer = <<>>

\* An empty answer ends the query if there was one before.
EndsEmpty(q, answer) == answer = <<>> /\ q.drained

\* PullMessages: the oldest messages, or none if there are none in time (1 second, and 5
\* after the first empty answer).
Pull ==
  LET s == query.sub
      n == IF Len(subs[s].queue) < MessageLimit THEN Len(subs[s].queue) ELSE MessageLimit
      answer == SubSeq(subs[s].queue, 1, n)
  IN /\ query.at = "pull"
     /\ query.attempt < MaxPulls /\ result = -1
     /\ subs' = [subs EXCEPT ![s].queue = SubSeq(@, n + 1, Len(@))]
     /\ result' = IF Matches(answer) = {} THEN -1 ELSE Match(answer)
     /\ pulls' = [made |-> pulls.made + 1, empty |-> pulls.empty + (IF answer = <<>> THEN 1 ELSE 0)]
     /\ query' = [query EXCEPT !.attempt = @ + 1,
                               !.drained = @ \/ answer = <<>>,
                               !.at = IF EndsEmpty(query, answer) THEN "unsubscribe" ELSE @]
     /\ UNCHANGED <<topicState, asks, excused, failed>>

\* Mutant: the query ends where it fails.
PullFailsReturn ==
  /\ query.at = "pull"
  /\ query.attempt < MaxPulls /\ result = -1
  /\ query' = NoQuery
  /\ failed' = TRUE
  /\ UNCHANGED <<topicState, subs, result, asks, excused, pulls>>

PullFails ==
  /\ query.at = "pull"
  /\ query.attempt < MaxPulls /\ result = -1
  /\ query' = [query EXCEPT !.at = "unsubscribe"]
  /\ failed' = TRUE
  /\ UNCHANGED <<topicState, subs, result, asks, excused, pulls>>

\* The loop's condition.
LoopEnds ==
  /\ query.at = "pull"
  /\ query.attempt = MaxPulls \/ result # -1
  /\ query' = [query EXCEPT !.at = "unsubscribe"]
  /\ UNCHANGED <<topicState, subs, result, asks, excused, failed, pulls>>

\* Unsubscribe: what comes of it is at most logged.
Unsubscribe ==
  /\ query.at = "unsubscribe"
  /\ \/ /\ subs' = [subs EXCEPT ![query.sub].open = FALSE, ![query.sub].queue = <<>>]
        /\ excused' = excused
     \/ /\ excused' = excused \cup {query.sub}
        /\ subs' = subs
  /\ query' = NoQuery
  /\ UNCHANGED <<topicState, result, asks, failed, pulls>>

PpNext ==
  \/ \E s \in 1..Len(subs) :
       DeviceExpires(s) \/ \E topic \in Topics : DeviceReports(s, topic)
  \/ \E topic \in Topics : DeviceChanges(topic)
  \/ cond_remote_pullpoint \/ cond_local_pullpoint \/ remote_pullpoint_query
  \/ Pull \/ PullFails \/ LoopEnds \/ Unsubscribe

PpSpec == PpInit /\ [][PpNext]_ppVars

(***************************************************************************)
(* Properties.                                                             *)
(***************************************************************************)

\* When no query is under way, the device keeps no subscription but those it was asked to
\* make or to end in a call that failed, whichever way the query went (the subscriptions of
\* a device are few, and every check of the condition makes one).
SubscriptionsReturned ==
  query.at = "idle" => \A s \in 1..Len(subs) : subs[s].open => s \in excused

\* A query answers with a state the event has had since it was asked, and comes back without
\* one only if a call failed, two answers were empty, or its pulls were used up
\* (cond_vapix_event_state takes no answer for a condition that is not met).
AnswerFresh ==
  /\ result # -1 => result \in subs[Len(subs)].since..topicState
  /\ query.at = "idle" /\ asks > 0 /\ result = -1 =>
       failed \/ pulls.empty >= 2 \/ pulls.made = MaxPulls
=============================================================================
