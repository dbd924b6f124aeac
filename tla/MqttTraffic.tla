---------------------------- MODULE MqttTraffic ----------------------------
(***************************************************************************)
(* What travels over the MQTT connections of src/app/engine/mqtt_client.c: *)
(* the table of topic filters with its reference counts, SUBSCRIBE and     *)
(* UNSUBSCRIBE packets sent after the table's lock was released, QoS 1     *)
(* publishes with their in-flight table, retransmission and packet ids     *)
(* that wrap, over sessions that come and go (MqttSession says when).      *)
(*                                                                         *)
(* Filters are wanted by owners: the MQTT triggers of rules, subscribed on *)
(* the main loop, and Sparkplug, configured from the FastCGI thread.  A    *)
(* descriptor is named by the session it was opened for; a thread may send *)
(* on one that has been closed meanwhile.  The broker handles a packet     *)
(* when it likes, and answers a PUBLISH with a PUBACK; what it has not     *)
(* handled when the session ends is lost.                                  *)
(***************************************************************************)
EXTENDS Integers, FiniteSets

CONSTANTS
  Filters,       \* topic filters
  Owners,        \* who subscribes: triggers, Sparkplug
  Threads,       \* the threads they run on
  ThreadOf,      \* the thread of each owner
  NoFilter,      \* an owner without subscription
  MaxSubs,       \* MAX_SUBSCRIPTIONS
  MaxInflight,   \* MQTT_MAX_INFLIGHT
  MaxPid,        \* UINT16_MAX
  MaxRetries,    \* MQTT_MAX_RETRIES
  MaxCalls,      \* bound: Subscribe, Unsubscribe and QoS 1 Publish calls
  MaxSessions    \* bound: connections

Pids  == 1 .. MaxPid
Slots == 1 .. MaxInflight
Msgs  == 1 .. MaxCalls

ASSUME TrafficParams ==
  /\ ThreadOf \in [Owners -> Threads] /\ NoFilter \notin Filters
  /\ IsFiniteSet(Filters) /\ IsFiniteSet(Owners)
  /\ MaxSubs \in Nat \ {0} /\ MaxInflight \in Nat \ {0} /\ MaxPid \in Nat \ {0}
  /\ MaxRetries \in Nat /\ MaxCalls \in Nat /\ MaxSessions \in Nat

VARIABLES
  refs,       \* sub_refs of each filter, 0 when it is not in the table
  holds,      \* the filter each owner has asked for and will release
  caller,     \* where each thread is in MQTT_Subscribe or MQTT_Unsubscribe
  session,    \* number of the current or latest session
  sock,       \* sockfd: the session it belongs to, 0 for -1
  worker,     \* "down", "locking", "restore" (do_subscribe_all), "callback", "receive", "closed"
  todo,       \* filters do_subscribe_all has still to send
  packet_id,  \* the next packet id
  inflight,   \* the in-flight table
  served,     \* at the broker: the filters of the session
  inbox,      \* QoS 1 packets on their way to the broker
  acks,       \* PUBACKs on their way back, by packet id
  calls,      \* calls made so far
  pubs,       \* QoS 1 messages published so far
  delivered,  \* history: messages the broker has got
  excused,    \* history: messages dropped with a session, given up, or not tracked
  reused,     \* history: a packet id was handed out that was still in use
  raced,      \* history: filters two threads worked on at once, see Marks and Connected
  refused,    \* history: owners whose Subscribe found the table full
  undone      \* history: one of those has released what it never had

table  == <<refs, holds>>
link   == <<session, sock, worker, todo>>
qos    == <<packet_id, inflight, inbox, acks, pubs, delivered, excused, reused>>
owned  == <<refused, undone>>
vars   == <<table, caller, link, qos, served, calls, raced, owned>>

Free    == [used |-> FALSE]
AtRest  == [pc |-> "idle", op |-> "none", f |-> NoFilter, fd |-> 0]
InTable == {f \in Filters : refs[f] > 0}

\* Thread t has changed filter f in the table and has its packet still to send.
Working(t, f) == caller[t].pc # "idle" /\ caller[t].f = f

\* Do the packets in flight still use a packet id?
InUse(p) ==
  \/ \E i \in Slots : inflight[i].used /\ inflight[i].pid = p
  \/ \E m \in inbox : m.pid = p
  \/ acks[p] > 0

\* Mutant: the counter runs on to 0.
NextPidZero(p) == (p + 1) % (MaxPid + 1)

\* packet_id++, without 0.
NextPid(p) == IF p = MaxPid THEN 1 ELSE p + 1

TakePid ==
  /\ packet_id' = NextPid(packet_id)
  /\ reused' = (reused \/ InUse(packet_id))

(***************************************************************************)
(* Subscribing and unsubscribing, each in three steps: the table under     *)
(* sub_lock, the descriptor under send_lock, the packet under send_lock.   *)
(***************************************************************************)

\* Mutant: do_subscribe_all sends from a copy, without the lock.
TableFreeAlways == TRUE

\* sub_lock is free: do_subscribe_all keeps it while it sends.
TableFree == worker # "restore"

\* Thread t begins to work on f while another thread has not sent its packet.
Marks(t, f) ==
  raced' = IF \E u \in Threads \ {t} : Working(u, f) THEN raced \cup {f} ELSE raced

Enters(t, op, f) == caller' = [caller EXCEPT ![t] = [pc |-> "read", op |-> op, f |-> f, fd |-> 0]]

\* MQTT_Subscribe for owner o, up to releasing sub_lock: a filter in the table gets a
\* reference, a new one an entry and a packet; a full table refuses it, which
\* Triggers_Subscribe and Sparkplug do not look at.
MQTT_Subscribe(o, f) ==
  LET t == ThreadOf[o] IN
  /\ calls < MaxCalls /\ calls' = calls + 1
  /\ caller[t].pc = "idle" /\ TableFree /\ holds[o] = NoFilter
  /\ holds' = [holds EXCEPT ![o] = f]
  /\ \/ /\ refs[f] > 0
        /\ refs' = [refs EXCEPT ![f] = @ + 1]
        /\ UNCHANGED <<caller, raced, refused>>
     \/ /\ refs[f] = 0 /\ Cardinality(InTable) >= MaxSubs
        /\ refused' = refused \cup {o}
        /\ UNCHANGED <<refs, caller, raced>>
     \/ /\ refs[f] = 0 /\ Cardinality(InTable) < MaxSubs
        /\ refs' = [refs EXCEPT ![f] = 1]
        /\ Enters(t, "sub", f) /\ Marks(t, f)
        /\ UNCHANGED refused
  /\ UNCHANGED <<link, qos, served, undone>>

\* Mutant: the first owner that lets go ends the subscription.
LastOwnerAny(f) == TRUE

\* --sub_refs has reached 0.
LastOwner(f) == refs[f] = 1

\* MQTT_Unsubscribe: only the last reference removes the filter.
MQTT_Unsubscribe(o) ==
  LET t == ThreadOf[o]
      f == holds[o] IN
  /\ calls < MaxCalls /\ calls' = calls + 1
  /\ caller[t].pc = "idle" /\ TableFree /\ f # NoFilter
  /\ holds' = [holds EXCEPT ![o] = NoFilter]
  /\ refused' = refused \ {o}
  /\ undone' = (undone \/ o \in refused)
  /\ \/ /\ refs[f] = 0
        /\ UNCHANGED <<refs, caller, raced>>
     \/ /\ refs[f] > 0 /\ ~LastOwner(f)
        /\ refs' = [refs EXCEPT ![f] = @ - 1]
        /\ UNCHANGED <<caller, raced>>
     \/ /\ refs[f] > 0 /\ LastOwner(f)
        /\ refs' = [refs EXCEPT ![f] = 0]
        /\ Enters(t, "unsub", f) /\ Marks(t, f)
  /\ UNCHANGED <<link, qos, served>>

\* The descriptor is read; without one there is nothing to send.
ReadSocket(t) ==
  /\ caller[t].pc = "read"
  /\ caller' = [caller EXCEPT ![t] = IF sock = 0 THEN AtRest
                                     ELSE [@ EXCEPT !.pc = "send", !.fd = sock]]
  /\ UNCHANGED <<table, link, qos, served, calls, raced, owned>>

\* The packet arrives: the broker adds or drops the filter.
Arrives(op, f) == served' = IF op = "sub" THEN served \cup {f} ELSE served \ {f}

\* send_subscribe or send_unsubscribe on the descriptor read before.  When its
\* session has ended the packet is lost, or goes to the connection that has got
\* the same descriptor number since.
SendSub(t) ==
  /\ caller[t].pc = "send"
  /\ TakePid
  /\ \/ caller[t].fd = sock /\ Arrives(caller[t].op, caller[t].f)
     \/ caller[t].fd # sock /\ UNCHANGED served
     \/ caller[t].fd # sock /\ sock # 0 /\ Arrives(caller[t].op, caller[t].f)
  /\ caller' = [caller EXCEPT ![t] = AtRest]
  /\ UNCHANGED <<table, link, inflight, inbox, acks, pubs, delivered, excused,
                 calls, raced, owned>>

(***************************************************************************)
(* Publishing with QoS 1: one critical section of send_lock.               *)
(***************************************************************************)

\* inflight_add: the first free slot; without one the message is not tracked.
FreeSlots == {i \in Slots : ~inflight[i].used}

MQTT_Publish_Binary ==
  /\ calls < MaxCalls /\ calls' = calls + 1 /\ pubs' = pubs + 1
  /\ sock # 0
  /\ TakePid
  /\ inbox' = inbox \cup {[pid |-> packet_id, msg |-> pubs + 1, try |-> 0]}
  /\ IF FreeSlots = {} THEN excused' = excused \cup {pubs + 1} /\ UNCHANGED inflight
     ELSE /\ LET i == CHOOSE x \in FreeSlots : \A y \in FreeSlots : x <= y IN
             inflight' = [inflight EXCEPT ![i] =
               [used |-> TRUE, pid |-> packet_id, msg |-> pubs + 1, sess |-> sock,
                retries |-> 0]]
          /\ UNCHANGED excused
  /\ UNCHANGED <<table, caller, link, acks, delivered, served, raced, owned>>

\* The retry budget is used up.
Exhausted(i) == inflight[i].retries >= MaxRetries

\* What a retransmission makes of a slot.
AfterResend(i) ==
  IF Exhausted(i) THEN Free
  ELSE [inflight[i] EXCEPT !.retries = @ + 1]

\* inflight_retransmit of the slots sent MQTT_ACK_TIMEOUT_SEC ago, in slot order; it
\* stops at the first send that fails, which has been counted as a try.
inflight_retransmit(due) ==
  /\ worker = "receive"
  /\ \A i \in due : inflight[i].used
  /\ \E upto \in due :
       LET done == {i \in due : i <= upto}
           sent == {i \in done : ~Exhausted(i)} IN
       /\ inflight' = [i \in Slots |-> IF i \in done THEN AfterResend(i) ELSE inflight[i]]
       /\ excused' = excused \cup {inflight[i].msg : i \in {j \in done : Exhausted(j)}}
       /\ \E lost \in {{}, {upto}} :
            /\ (\E i \in due : i > upto) => lost = {upto} /\ upto \in sent
            /\ inbox' = inbox \cup
                 {[pid |-> inflight[i].pid, msg |-> inflight[i].msg,
                   try |-> inflight[i].retries + 1] : i \in sent \ lost}
  /\ UNCHANGED <<table, caller, link, packet_id, acks, pubs, delivered, reused,
                 served, calls, raced, owned>>

\* The broker takes a message and acknowledges it.  External.
BrokerTakes ==
  \E m \in inbox :
    /\ inbox' = inbox \ {m}
    /\ delivered' = delivered \cup {m.msg}
    /\ acks' = [acks EXCEPT ![m.pid] = @ + 1]
    /\ UNCHANGED <<table, caller, link, packet_id, inflight, pubs, excused, reused,
                   served, calls, raced, owned>>

\* Mutant: whatever is first in the table counts as acknowledged.
AckedAny(p) == {i \in Slots : inflight[i].used}

Acked(p) == {i \in Slots : inflight[i].used /\ inflight[i].pid = p}

\* A PUBACK: inflight_ack releases the first slot with its packet id.
inflight_ack(p) ==
  /\ worker = "receive" /\ acks[p] > 0
  /\ acks' = [acks EXCEPT ![p] = @ - 1]
  /\ IF Acked(p) = {} THEN UNCHANGED inflight
     ELSE LET i == CHOOSE x \in Acked(p) : \A y \in Acked(p) : x <= y IN
          inflight' = [inflight EXCEPT ![i] = Free]
  /\ UNCHANGED <<table, caller, link, packet_id, inbox, pubs, delivered, excused, reused,
                 served, calls, raced, owned>>

(***************************************************************************)
(* Sessions: what worker_fn does around the receive loop.                  *)
(***************************************************************************)

\* The broker has accepted the connection: the descriptor is published first, then
\* do_subscribe_all takes sub_lock, so that a filter added meanwhile is sent by one
\* of the two.  A race of two threads outlives the session they ran in as long as one
\* of them has its packet still to send.
Connected ==
  /\ worker = "down" /\ session < MaxSessions
  /\ session' = session + 1
  /\ sock' = session + 1
  /\ worker' = "locking"
  /\ served' = {}
  /\ raced' = {f \in raced : \E t \in Threads : Working(t, f)}
  /\ UNCHANGED <<table, caller, todo, qos, calls, owned>>

LockTable ==
  /\ worker = "locking"
  /\ worker' = "restore"
  /\ todo' = InTable
  /\ UNCHANGED <<table, caller, session, sock, qos, served, calls, raced, owned>>

\* One send_subscribe of do_subscribe_all.  A send that fails is left out here and in
\* SendSub: the connection is lost then, and with it what the broker knew.
RestoreOne ==
  /\ worker = "restore"
  /\ \E f \in todo :
       /\ todo' = todo \ {f}
       /\ Arrives("sub", f)
  /\ TakePid
  /\ UNCHANGED <<table, caller, session, sock, worker, inflight, inbox, acks, pubs, delivered,
                 excused, calls, raced, owned>>

\* Every filter is sent.
Restored ==
  /\ worker = "restore" /\ todo = {}
  /\ worker' = "callback"
  /\ UNCHANGED <<table, caller, session, sock, todo, qos, served, calls, raced, owned>>

\* state_cb publishes the birth certificate, with QoS 0, which touches no table.
Birth ==
  /\ worker = "callback"
  /\ worker' = "receive"
  /\ UNCHANGED <<table, caller, session, sock, todo, qos, served, calls, raced, owned>>

\* The receive loop ends: the connection is lost or a reconnect was asked for.
Disconnected ==
  /\ worker = "receive"
  /\ worker' = "closed"
  /\ sock' = 0
  /\ served' = {} /\ inbox' = {}
  /\ UNCHANGED <<table, caller, session, todo, packet_id, inflight, acks, pubs, delivered,
                 excused, reused, calls, raced, owned>>

\* Mutant: the in-flight table survives the session.
ClearedNothing == inflight

\* inflight_clear.
Cleared == [i \in Slots |-> Free]

\* inflight_clear, once no publisher finds a descriptor any more.
Clear ==
  /\ worker = "closed"
  /\ worker' = "down"
  /\ inflight' = Cleared
  /\ excused' = excused \cup {inflight[i].msg : i \in {j \in Slots : inflight[j].used}}
  /\ acks' = [p \in Pids |-> 0]
  /\ UNCHANGED <<table, caller, session, sock, todo, packet_id, inbox, pubs, delivered,
                 reused, served, calls, raced, owned>>

(***************************************************************************)
(* The specification.                                                      *)
(***************************************************************************)
Init ==
  /\ refs = [f \in Filters |-> 0] /\ holds = [o \in Owners |-> NoFilter]
  /\ caller = [t \in Threads |-> AtRest]
  /\ session = 0 /\ sock = 0 /\ worker = "down" /\ todo = {}
  /\ packet_id = 1 /\ inflight = [i \in Slots |-> Free]
  /\ served = {} /\ inbox = {} /\ acks = [p \in Pids |-> 0]
  /\ calls = 0 /\ pubs = 0
  /\ delivered = {} /\ excused = {} /\ reused = FALSE
  /\ raced = {} /\ refused = {} /\ undone = FALSE

Next ==
  \/ \E o \in Owners, f \in Filters : MQTT_Subscribe(o, f)
  \/ \E o \in Owners : MQTT_Unsubscribe(o)
  \/ \E t \in Threads : ReadSocket(t)
  \/ \E t \in Threads : SendSub(t)
  \/ MQTT_Publish_Binary
  \/ \E due \in SUBSET Slots : inflight_retransmit(due)
  \/ BrokerTakes
  \/ \E p \in Pids : inflight_ack(p)
  \/ Connected
  \/ LockTable
  \/ RestoreOne
  \/ Restored
  \/ Birth
  \/ Disconnected
  \/ Clear

Spec == Init /\ [][Next]_vars

(***************************************************************************)
(* Properties.                                                             *)
(***************************************************************************)

Entry == [used : {TRUE}, pid : Pids, msg : Msgs, sess : 1 .. MaxSessions,
          retries : 0 .. MaxRetries]

\* Types; the filter table never outgrows its array, and no packet has id 0, which
\* MQTT forbids, when the 16-bit counter wraps (mqtt_client.c:481, 1115).
TypeOK ==
  /\ refs \in [Filters -> Nat] /\ Cardinality(InTable) <= MaxSubs
  /\ holds \in [Owners -> Filters \cup {NoFilter}]
  /\ caller \in [Threads -> [pc : {"idle", "read", "send"}, op : {"none", "sub", "unsub"},
                             f : Filters \cup {NoFilter}, fd : 0 .. MaxSessions]]
  /\ session \in 0 .. MaxSessions /\ sock \in {0, session}
  /\ worker \in {"down", "locking", "restore", "callback", "receive", "closed"}
  /\ todo \subseteq Filters /\ served \subseteq Filters /\ raced \subseteq Filters
  /\ packet_id \in Pids /\ inflight \in [Slots -> Entry \cup {Free}]
  /\ inbox \subseteq [pid : Pids, msg : Msgs, try : 0 .. MaxRetries]
  /\ acks \in [Pids -> Nat]
  /\ calls \in 0 .. MaxCalls /\ pubs \in 0 .. calls
  /\ delivered \subseteq Msgs /\ excused \subseteq Msgs
  /\ reused \in BOOLEAN /\ undone \in BOOLEAN /\ refused \subseteq Owners

\* mqtt_client.h:98 "resubscribed on reconnect": once the worker receives and no
\* thread is inside Subscribe or Unsubscribe, the broker serves exactly the filters
\* of the table, whatever sessions came and went while filters were added and
\* removed, and although a packet may leave on the descriptor of a session that is
\* over and reach the next one; except a filter that two threads worked on at once
\* in this session, or in an earlier one with one of their packets still to send,
\* whose packets may leave in the wrong order (mqtt_client.c:1128, 1157).
SubsServed ==
  (worker = "receive" /\ \A t \in Threads : caller[t].pc = "idle") =>
    \A f \in Filters \ raced : f \in served <=> refs[f] > 0

\* mqtt_client.c:80 "a filter stays subscribed until the last of them releases it":
\* the references of a filter are its owners, until an owner that the full table had
\* turned away releases the filter of somebody else (triggers.c:390 and 256,
\* sparkplug.c:396).
RefsCount ==
  ~undone => \A f \in Filters :
    refs[f] = Cardinality({o \in Owners \ refused : holds[o] = f})

\* Both together: the broker serves the filters that some owner wants.
OwnersServed == SubsServed /\ RefsCount

\* mqtt_client.h:16 "unacknowledged publishes are resent with DUP set until the
\* broker acknowledges them or the retry budget runs out": a QoS 1 message leaves
\* the table unseen by the broker only when its session ends, its retries are used
\* up or the table had no room for it, unless a packet id came round again while it
\* was in use (mqtt_client.c:576, 593).
AtLeastOnce ==
  ~reused => \A m \in 1 .. pubs :
    \/ m \in delivered \cup excused
    \/ \E i \in Slots : inflight[i].used /\ inflight[i].msg = m

\* No message of an earlier session is left in the table to be resent in a later
\* one, where its packet id means something else (mqtt_client.c:918).
InflightOfSession ==
  \A i \in Slots : inflight[i].used =>
    inflight[i].sess = session /\ (sock = session \/ worker = "closed")
=============================================================================
