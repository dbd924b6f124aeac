----------------------------- MODULE MqttProofs ------------------------------
(***************************************************************************)
(* Proofs about the MQTT client: the life of its connection, for any list  *)
(* of servers and any number of changes of the settings and of the         *)
(* brokers; and what travels over the connections, for any number of       *)
(* filters, owners, threads, slots, packet ids, retries, calls and         *)
(* sessions: types, the in-flight table, and the table of filters.         *)
(***************************************************************************)
EXTENDS MqttSession, MqttTraffic, FiniteSetTheorems, WellFoundedInduction, TLAPS

(***************************************************************************)
(* The life of the connection.                                             *)
(***************************************************************************)

\* Indexes modulo the length of a list stay inside it.
LEMMA ModInRange ==
  ASSUME NEW i \in Nat, NEW n \in Nat \ {0}
  PROVE  (i + 1) % n \in 0 .. (n - 1)
OBVIOUS

\* A step keeps the types.
LEMMA TypeStep ==
  ASSUME SessionTypes, [SessionNext]_sessionVars
  PROVE  SessionTypes'
<1> USE DEF SessionNext, WorkerStep, CopyConfig, StopAtTop, PickBroker, DrainWake,
            ConnectFails, ConnectWorks, HandshakeFails, HandshakeBumps, HandshakeWorks,
            WaitEnds, SleepEnds, RecvStop, RecvWake, RecvLost, ReconfigureWakes,
            Force_Reconnect, MQTT_Cleanup, BrokerChanges, ReconfigureKeepalive, sessionVars,
            sessionWorker, shared, env, hist
<1>0. /\ cfg \in Config /\ active \in Config /\ cfg.ver \in Nat /\ cfg.keepalive \in Nat
      /\ active.n \in Nat \ {0} /\ active.n <= MaxServers
      /\ active.n \in 1 .. MaxServers
  BY SessionParams DEF SessionTypes, Config
<1>7. 0 \in Brokers /\ \A i \in Nat : NextServer(i) \in Brokers
  <2>1. 0 \in Brokers BY SessionParams DEF Brokers
  <2>2. ASSUME NEW i \in Nat PROVE (i + 1) % active.n \in Brokers
    <3>1. (i + 1) % active.n \in 0 .. (active.n - 1) BY <1>0, ModInRange
    <3> QED BY <3>1, <1>0, SessionParams DEF Brokers
  <2> QED BY <2>1, <2>2 DEF NextServer
<1>8. Brokers \subseteq Nat BY SessionParams DEF Brokers
<1>1. /\ server_index' \in Brokers /\ idx' \in Brokers /\ seen' \in Brokers
  <2>0. server_index \in Brokers /\ idx \in Brokers /\ seen \in Brokers
        /\ server_index \in Nat /\ seen \in Nat
    BY <1>8 DEF SessionTypes
  <2>1. /\ \/ server_index' = server_index \/ server_index' = 0
           \/ server_index' = NextServer(server_index) \/ server_index' = NextServer(seen)
        /\ idx' = idx \/ idx' = server_index \/ idx' = 0
        /\ seen' = seen \/ seen' = server_index \/ seen' = 0
    BY DEF Reconfigure, Clamped, IndexReset
  <2> QED BY <2>0, <2>1, <1>7
<1>2. cfg' \in Config /\ active' \in Config
  <2>1. ASSUME NEW on \in BOOLEAN, NEW n \in 1 .. MaxServers, Reconfigure(on, n)
        PROVE  cfg' \in Config /\ active' = active
    <3>1. cfg' = [ver |-> cfg.ver + 1, keepalive |-> cfg.keepalive, on |-> on, n |-> n] /\ active' = active
      BY <2>1 DEF Reconfigure
    <3>2. cfg.ver + 1 \in Nat BY <1>0
    <3> HIDE DEF SessionNext, sessionVars
    <3> QED BY <1>0, <3>1, <3>2 DEF Config
  <2>2. \/ cfg' = cfg /\ (active' = active \/ active' = cfg)
        \/ \E on \in BOOLEAN, n \in 1 .. MaxServers : Reconfigure(on, n)
        \/ ReconfigureKeepalive
    OBVIOUS
  <2>3. ASSUME ReconfigureKeepalive PROVE cfg' \in Config /\ active' = active
    BY <1>0, <2>3 DEF ReconfigureKeepalive, Config
  <2> QED BY <1>0, <2>1, <2>2, <2>3
<1>3. /\ setter' \in {"idle", "waking"}
      /\ pc' \in {"top", "wait", "sleep", "recv", "stopped"} \cup Attempting
  BY DEF SessionTypes, Attempting, Reconfigure
<1>4. wake' \in BOOLEAN /\ stop' \in BOOLEAN /\ connected' \in BOOLEAN
  BY DEF SessionTypes, Reconfigure, Wakes
<1>5. /\ fresh' \in {"nothing", "keepalive", "settings"}
      /\ busy' \in BOOLEAN /\ drained' \in BOOLEAN
  <2>1. fresh' = fresh \/ fresh' = News
    BY DEF Reconfigure
  <2>2. busy' = busy \/ busy' = (pc \in Attempting)
    BY DEF Reconfigure
  <2>3. drained' = drained \/ drained' = FALSE \/ drained' = (wake /\ active.ver # cfg.ver)
    BY DEF Reconfigure
  <2> HIDE DEF SessionNext, sessionVars
  <2>4. fresh' \in {"nothing", "keepalive", "settings"}
    BY <2>1 DEF SessionTypes, News
  <2>5. busy' \in BOOLEAN
    <3>1. (pc \in Attempting) \in BOOLEAN OBVIOUS
    <3>2. busy \in BOOLEAN BY DEF SessionTypes
    <3> QED BY <2>2, <3>1, <3>2
  <2>6. drained' \in BOOLEAN
    <3>1. (wake /\ active.ver # cfg.ver) \in BOOLEAN BY Zenon
    <3>2. drained \in BOOLEAN BY DEF SessionTypes
    <3> QED BY <2>3, <3>1, <3>2
  <2> QED BY <2>4, <2>5, <2>6
<1>6. /\ broker' \in [Brokers -> {"down", "refusing", "up"}]
      /\ flaps' \in Nat /\ losses' \in Nat
  BY DEF SessionTypes, Reconfigure
<1> QED BY <1>1, <1>2, <1>3, <1>4, <1>5, <1>6 DEF SessionTypes

\* Types, with every broker index inside the server table.
THEOREM SessionTyped == SessionSpec => []SessionTypes
<1>1. ASSUME SessionInit PROVE SessionTypes
  <2>1. cfg \in Config /\ active \in Config BY <1>1, SessionParams DEF SessionInit, Config
  <2>2. server_index \in Brokers /\ idx \in Brokers /\ seen \in Brokers
    BY <1>1, SessionParams DEF SessionInit, Brokers
  <2>3. broker \in [Brokers -> {"down", "refusing", "up"}] /\ flaps \in Nat /\ losses \in Nat
    BY <1>1 DEF SessionInit
  <2>4. setter \in {"idle", "waking"} /\ pc = "top" BY <1>1 DEF SessionInit
  <2>5. wake \in BOOLEAN /\ stop \in BOOLEAN /\ connected \in BOOLEAN
        /\ fresh = "nothing" /\ busy \in BOOLEAN /\ drained \in BOOLEAN
    BY <1>1 DEF SessionInit
  <2> QED BY <2>1, <2>2, <2>3, <2>4, <2>5 DEF SessionTypes
<1>2. SessionTypes /\ [SessionNext]_sessionVars => SessionTypes' BY TypeStep
<1> QED BY <1>1, <1>2, PTL DEF SessionSpec

(***************************************************************************)
(* The inductive invariant.                                                *)
(*                                                                         *)
(* Wake-ups: from the copy of the settings to the end of the connection,   *)
(* superseded settings imply a wake byte in the pipe or on its way, or one *)
(* thrown away.  Primary: settings that changed outside an attempt left    *)
(* server_index at 0 and nothing has moved it since.  Both are about the   *)
(* settings that restart the client: what has not changed of them in the   *)
(* worker's copy (Same) differs from the current ones in the keepalive     *)
(* alone.                                                                  *)
(***************************************************************************)
Stale == active.ver # cfg.ver

Same == active.ver = cfg.ver => active = [cfg EXCEPT !.keepalive = active.keepalive]

WakeInv ==
  /\ pc \in Attempting \cup {"recv"} /\ Stale => wake \/ setter = "waking" \/ drained
  /\ pc \in {"pick", "drain"} => ~drained

PrimaryInv ==
  /\ pc \in Attempting /\ Stale => busy
  /\ pc \in {"top", "wait", "sleep", "recv"} /\ Stale /\ ~busy => server_index = 0
  /\ pc = "pick" /\ fresh = "settings" /\ ~busy => server_index = 0
  /\ PrimaryFirstUnlessBusy

SameInv == Same /\ active.ver <= cfg.ver

SessionInv == IndexInRange /\ WakeInv /\ PrimaryInv /\ SameInv

\* A step keeps the index of the broker in use inside the copied list.
LEMMA IndexStep ==
  ASSUME SessionTypes, IndexInRange, [SessionNext]_sessionVars
  PROVE  IndexInRange'
<1> USE DEF IndexInRange
<1>0. active.n \in Nat \ {0} /\ server_index \in Nat
  BY SessionParams DEF SessionTypes, Config, Brokers
<1>1. CASE PickBroker
  <2>1. idx' = Clamped /\ active' = active BY <1>1 DEF PickBroker
  <2>2. Clamped < active.n BY <1>0 DEF Clamped
  <2> QED BY <2>1, <2>2
<1>2. CASE UNCHANGED <<idx, active>> /\ (pc' \in {"drain", "connect", "hello", "bump", "recv"}
                                         => pc \in {"drain", "connect", "hello", "bump", "recv"})
  BY <1>2
<1>3. CASE CopyConfig BY <1>3 DEF CopyConfig
<1>4. CASE WorkerStep /\ ~PickBroker /\ ~CopyConfig
  BY <1>2, <1>4 DEF WorkerStep, StopAtTop, DrainWake, ConnectFails, ConnectWorks,
     HandshakeFails, HandshakeBumps, HandshakeWorks, WaitEnds, SleepEnds, RecvStop, RecvWake
<1>5. CASE RecvLost BY <1>2, <1>5 DEF RecvLost
<1>6. CASE UNCHANGED sessionWorker BY <1>2, <1>6 DEF sessionWorker
<1> QED
  BY <1>1, <1>3, <1>4, <1>5, <1>6
  DEF SessionNext, Reconfigure, ReconfigureKeepalive, ReconfigureWakes, Force_Reconnect,
      MQTT_Cleanup, BrokerChanges, sessionVars

\* A step keeps WakeInv: only the drain before an attempt loses a byte.
LEMMA WakeStep ==
  ASSUME SessionTypes, WakeInv, [SessionNext]_sessionVars
  PROVE  WakeInv'
<1> USE DEF WakeInv, Stale
<1>1. CASE CopyConfig
  <2>1. active' = cfg /\ cfg' = cfg /\ drained' = FALSE BY <1>1 DEF CopyConfig, shared
  <2> QED BY <2>1
<1>2. CASE DrainWake
  <2>1. UNCHANGED <<active, cfg, setter>> /\ pc = "drain" /\ pc' = "connect"
    BY <1>2 DEF DrainWake
  <2>2. wake /\ Stale => drained' BY <1>2 DEF DrainWake
  <2>3. Stale /\ ~wake => setter = "waking" BY <2>1 DEF Attempting
  <2> QED BY <2>1, <2>2, <2>3
<1>3. CASE \E on \in BOOLEAN, n \in 1 .. MaxServers : Reconfigure(on, n)
  <2>1. setter' = "waking" /\ UNCHANGED <<pc, drained>> BY <1>3 DEF Reconfigure, sessionWorker
  <2> QED BY <2>1
<1>4. CASE ReconfigureWakes
  <2>1. wake' = TRUE /\ UNCHANGED <<pc, drained>> BY <1>4 DEF ReconfigureWakes, Wakes, sessionWorker, hist
  <2> QED BY <2>1
<1>5. CASE Force_Reconnect
  <2>1. wake' = TRUE /\ UNCHANGED <<pc, drained>> BY <1>5 DEF Force_Reconnect, sessionWorker, hist
  <2> QED BY <2>1
<1>6. CASE WaitEnds \/ RecvWake \/ StopAtTop \/ SleepEnds \/ RecvStop \/ RecvLost \/ ConnectFails
           \/ HandshakeBumps
  <2>1. pc' \in {"top", "sleep", "stopped", "wait"}
    BY <1>6 DEF WaitEnds, RecvWake, StopAtTop, SleepEnds, RecvStop, RecvLost, ConnectFails,
                HandshakeBumps
  <2> QED BY <2>1 DEF Attempting
<1>7. CASE PickBroker \/ ConnectWorks \/ HandshakeFails \/ HandshakeWorks
  <2>1. /\ UNCHANGED <<active, cfg, wake, setter, drained>>
        /\ pc \in Attempting /\ (pc' \in {"pick", "drain"} => pc = "pick")
    BY <1>7 DEF PickBroker, ConnectWorks, HandshakeFails, HandshakeWorks, shared, hist,
                Attempting
  <2> QED BY <2>1
<1>8. CASE UNCHANGED <<sessionWorker, cfg, wake, setter, hist>>
  BY <1>8 DEF sessionWorker, hist
<1>9. CASE ReconfigureKeepalive
  <2>1. UNCHANGED <<pc, active, wake, setter, drained>> /\ cfg'.ver = cfg.ver
    BY <1>9 DEF ReconfigureKeepalive, sessionWorker, hist, SessionTypes, Config
  <2> QED BY <2>1
<1> QED
  BY <1>1, <1>2, <1>3, <1>4, <1>5, <1>6, <1>7, <1>8, <1>9
  DEF SessionNext, WorkerStep, MQTT_Cleanup, BrokerChanges, sessionVars, shared

\* A step keeps PrimaryInv: only an attempt moves server_index off the primary.
LEMMA PrimaryStep ==
  ASSUME SessionTypes, PrimaryInv, [SessionNext]_sessionVars
  PROVE  PrimaryInv'
<1> USE DEF PrimaryInv, PrimaryFirstUnlessBusy, Stale
<1>0. active.n \in Nat \ {0} BY SessionParams DEF SessionTypes, Config
<1>1. CASE CopyConfig
  <2>1. /\ active' = cfg /\ UNCHANGED <<cfg, server_index, busy>> /\ pc = "top"
        /\ pc' \in {"pick", "wait"}
    BY <1>1 DEF CopyConfig, shared
  <2>2. fresh' = "settings" => Stale BY <1>1 DEF CopyConfig, News
  <2> QED BY <2>1, <2>2
<1>2. CASE PickBroker
  <2>1. /\ UNCHANGED <<active, cfg, fresh, busy>> /\ pc = "pick" /\ pc' = "drain"
        /\ idx' = Clamped
    BY <1>2 DEF PickBroker, hist
  <2>2. server_index = 0 => Clamped = 0 BY <1>0 DEF Clamped
  <2>3. fresh' # "nothing" /\ ~busy' => idx' = 0 \/ fresh' = "keepalive"
    BY <2>1, <2>2 DEF SessionTypes
  <2> QED BY <2>1, <2>2, <2>3 DEF Attempting
<1>3. CASE \E on \in BOOLEAN, n \in 1 .. MaxServers : Reconfigure(on, n)
  <2>1. /\ server_index' = 0 /\ UNCHANGED <<pc, idx, fresh>>
    BY <1>3 DEF Reconfigure, sessionWorker, IndexReset
  <2>2. pc \in Attempting => busy' BY <1>3 DEF Reconfigure
  <2> QED BY <2>1, <2>2 DEF Attempting
<1>4. CASE DrainWake \/ ConnectWorks \/ HandshakeFails \/ HandshakeWorks
  <2>1. /\ UNCHANGED <<active, cfg, server_index, busy, fresh>> /\ pc \in Attempting
        /\ pc' \in {"connect", "hello", "bump", "recv"}
    BY <1>4 DEF DrainWake, ConnectWorks, HandshakeFails, HandshakeWorks, shared, hist,
                Attempting
  <2> QED BY <2>1
<1>5. CASE ConnectFails \/ HandshakeBumps
  <2>1. UNCHANGED <<active, cfg, busy>> /\ pc \in Attempting /\ pc' \in {"wait", "sleep"}
    BY <1>5 DEF ConnectFails, HandshakeBumps, hist, Attempting
  <2> QED BY <2>1 DEF Attempting
<1>6. CASE WaitEnds \/ SleepEnds \/ RecvWake \/ RecvLost
  <2>1. /\ UNCHANGED <<active, cfg, server_index, busy>>
        /\ pc \in {"wait", "sleep", "recv"} /\ pc' \in {"top", "sleep"}
    BY <1>6 DEF WaitEnds, SleepEnds, RecvWake, RecvLost, shared, hist
  <2> QED BY <2>1 DEF Attempting
<1>7. CASE StopAtTop \/ RecvStop
  <2>1. pc' = "stopped" BY <1>7 DEF StopAtTop, RecvStop
  <2> QED BY <2>1 DEF Attempting
<1>8. CASE UNCHANGED <<sessionWorker, cfg, server_index, hist>>
  BY <1>8 DEF sessionWorker, hist
<1>9. CASE ReconfigureKeepalive
  <2>1. UNCHANGED <<pc, idx, active, server_index, fresh, busy>> /\ cfg'.ver = cfg.ver
    BY <1>9 DEF ReconfigureKeepalive, sessionWorker, hist, SessionTypes, Config
  <2> QED BY <2>1
<1> QED
  BY <1>1, <1>2, <1>3, <1>4, <1>5, <1>6, <1>7, <1>8, <1>9
  DEF SessionNext, WorkerStep, ReconfigureWakes, Force_Reconnect, MQTT_Cleanup, BrokerChanges,
      sessionVars, shared

\* A step keeps SameInv: a change with the same version is one of the keepalive.
LEMMA SameStep ==
  ASSUME SessionTypes, SameInv, [SessionNext]_sessionVars
  PROVE  SameInv'
<1> USE DEF SameInv, Same
<1>0. cfg \in Config /\ active \in Config /\ cfg.ver \in Nat /\ active.ver \in Nat
  BY DEF SessionTypes, Config
<1>1. CASE CopyConfig
  <2>1. active' = cfg /\ cfg' = cfg BY <1>1 DEF CopyConfig, shared
  <2> QED BY <2>1, <1>0 DEF Config
<1>2. CASE \E on \in BOOLEAN, n \in 1 .. MaxServers : Reconfigure(on, n)
  <2>1. active' = active /\ cfg'.ver = cfg.ver + 1
    BY <1>2, <1>0 DEF Reconfigure, sessionWorker, Config
  <2> QED BY <2>1, <1>0
<1>3. CASE ReconfigureKeepalive
  <2>1. active' = active /\ cfg' = [cfg EXCEPT !.keepalive = cfg.keepalive + 1]
    BY <1>3 DEF ReconfigureKeepalive, sessionWorker
  <2>2. cfg'.ver = cfg.ver BY <2>1, <1>0 DEF Config
  <2>3. [cfg' EXCEPT !.keepalive = active.keepalive] = [cfg EXCEPT !.keepalive = active.keepalive]
    BY <2>1, <1>0 DEF Config
  <2> QED BY <2>1, <2>2, <2>3
<1>4. CASE UNCHANGED <<active, cfg>> BY <1>4
<1> QED
  BY <1>1, <1>2, <1>3, <1>4
  DEF SessionNext, WorkerStep, StopAtTop, PickBroker, DrainWake, ConnectFails, ConnectWorks,
      HandshakeFails, HandshakeBumps, HandshakeWorks, WaitEnds, SleepEnds, RecvStop, RecvWake,
      RecvLost, ReconfigureWakes, Force_Reconnect, MQTT_Cleanup, BrokerChanges, sessionVars,
      sessionWorker, shared

\* The invariant holds in every reachable state.
LEMMA SessionInvariant == SessionSpec => []SessionInv
<1>1. SessionInit => SessionInv
  BY DEF SessionInit, SessionInv, IndexInRange, WakeInv, PrimaryInv, PrimaryFirstUnlessBusy,
         SameInv, Same, Attempting
<1>2. SessionTypes /\ SessionInv /\ [SessionNext]_sessionVars => SessionInv'
  BY IndexStep, WakeStep, PrimaryStep, SameStep DEF SessionInv
<1> QED BY <1>1, <1>2, SessionTyped, PTL DEF SessionSpec

\* The worker never indexes past its copy of the server list
\* (mqtt_client.c:747, 802).
THEOREM IndexHolds == SessionSpec => []IndexInRange
<1>1. SessionInv => IndexInRange BY DEF SessionInv
<1> QED BY <1>1, SessionInvariant, PTL

\* The drain before an attempt is the only place where a reconnect request for
\* new settings is lost (mqtt_client.c:773), and a change of the keepalive is the
\* only one that makes none (mqtt_client.c:1011).
THEOREM StaleHolds == SessionSpec => []StaleOnlyIfDrained
<1>1. SessionTypes /\ SessionInv => StaleOnlyIfDrained
  <2> SUFFICES ASSUME SessionTypes, WakeInv, Same, pc = "recv", active # cfg, ~Stale
               PROVE  OnlyKeepalive
    BY DEF SessionInv, SameInv, WakeInv, StaleOnlyIfDrained
  <2>1. active = [cfg EXCEPT !.keepalive = active.keepalive] BY DEF Stale, Same
  <2>2. active.keepalive # cfg.keepalive BY <2>1 DEF SessionTypes, Config
  <2> QED BY <2>2 DEF OnlyKeepalive, Stale
<1> QED BY <1>1, SessionTyped, SessionInvariant, PTL

\* New settings start with the primary unless they came during an attempt
\* (mqtt_client.c:1012) or differ in the keepalive alone (mqtt_client.c:1011).
THEOREM PrimaryHolds == SessionSpec => []PrimaryFirstUnlessBusy
<1>1. SessionInv => PrimaryFirstUnlessBusy BY DEF SessionInv, PrimaryInv
<1> QED BY <1>1, SessionInvariant, PTL

\* Every attempt goes to a broker of the list, and to the primary where promised.
THEOREM BrokerHolds == SessionSpec => []BrokerRight
<1>1. IndexInRange /\ PrimaryFirstUnlessBusy => BrokerRight BY DEF BrokerRight
<1> QED BY <1>1, IndexHolds, PrimaryHolds, PTL

(***************************************************************************)
(* Types, in three parts.                                                  *)
(***************************************************************************)

\* The table of filters and who works on it.
Caller     == [pc : {"idle", "read", "send"}, op : {"none", "sub", "unsub"},
               f : Filters \cup {NoFilter}, fd : 0 .. MaxSessions]
BusyRight(t) == caller[t].pc # "idle" => caller[t].f \in Filters /\ caller[t].op # "none"
TableTypes ==
  /\ refs \in [Filters -> Nat] /\ Cardinality(InTable) <= MaxSubs
  /\ holds \in [Owners -> Filters \cup {NoFilter}]
  /\ caller \in [Threads -> Caller]
  /\ \A t \in Threads : BusyRight(t)
  /\ raced \subseteq Filters /\ undone \in BOOLEAN /\ refused \subseteq Owners

\* The connection and what the broker serves.
LinkTypes ==
  /\ session \in 0 .. MaxSessions /\ sock \in {0, session}
  /\ worker \in {"down", "locking", "restore", "callback", "receive", "closed"}
  /\ todo \subseteq Filters /\ served \subseteq Filters

\* Publishes.
Packet   == [pid : Pids, msg : Msgs, try : 0 .. MaxRetries]
QosTypes ==
  /\ packet_id \in Pids /\ inflight \in [Slots -> Entry \cup {Free}]
  /\ inbox \subseteq Packet
  /\ acks \in [Pids -> Nat]
  /\ calls \in 0 .. MaxCalls /\ pubs \in 0 .. calls
  /\ delivered \subseteq Msgs /\ excused \subseteq Msgs
  /\ reused \in BOOLEAN

\* The parts are all of it.
LEMMA TypeParts == TableTypes /\ LinkTypes /\ QosTypes => TypeOK
BY DEF TypeOK, TableTypes, LinkTypes, QosTypes, Packet, Caller

\* A set of numbers has a least one.
LEMMA LeastIn ==
  ASSUME NEW S \in SUBSET Nat, S # {}
  PROVE  (CHOOSE x \in S : \A y \in S : x <= y) \in S
<1>1. PICK m \in S : \A r \in S : <<r, m>> \notin OpToRel(<, Nat)
  BY NatLessThanWellFounded, WFMin
<1>2. \A r \in S : ~(r < m) BY <1>1, Zenon DEF OpToRel
<1>3. \A r \in S : m <= r BY <1>2
<1> QED BY <1>3

\* What a slot holds.
LEMMA SlotFacts ==
  ASSUME QosTypes, NEW i \in Slots
  PROVE  /\ inflight[i] \in Entry \cup {Free}
         /\ inflight[i].used => inflight[i] \in Entry
         /\ ~inflight[i].used => inflight[i] = Free
<1>1. inflight[i] \in Entry \cup {Free} BY DEF QosTypes
<1>2. CASE inflight[i] \in Entry
  <2>1. inflight[i].used = TRUE BY <1>2 DEF Entry
  <2> QED BY <1>2, <2>1
<1>3. CASE inflight[i] = Free BY <1>3 DEF Free
<1> QED BY <1>1, <1>2, <1>3

\* The next packet id is one, never 0.
LEMMA PidStep ==
  ASSUME QosTypes, TakePid
  PROVE  packet_id' \in Pids /\ reused' \in BOOLEAN
<1>1. packet_id \in 1 .. MaxPid /\ reused \in BOOLEAN BY DEF QosTypes, Pids
<1>2. packet_id' \in Pids BY <1>1, TrafficParams DEF TakePid, NextPid, Pids
<1>3. reused' = TRUE \/ reused' = FALSE BY <1>1 DEF TakePid
<1> QED BY <1>2, <1>3

\* The filter a thread begins to work on, and which filters two threads work on.
LEMMA EnterTypes ==
  ASSUME TableTypes, NEW t \in Threads, NEW f \in Filters, NEW op \in {"sub", "unsub"},
         Enters(t, op, f), Marks(t, f)
  PROVE  /\ caller' \in [Threads -> Caller] /\ raced' \subseteq Filters
         /\ \A u \in Threads : BusyRight(u)'
<1>1. 0 \in 0 .. MaxSessions BY TrafficParams
<1>2. [pc |-> "read", op |-> op, f |-> f, fd |-> 0] \in Caller BY <1>1 DEF Caller
<1>3. caller' \in [Threads -> Caller] BY <1>2 DEF Enters, TableTypes
<1>4. raced' \subseteq Filters BY DEF Marks, TableTypes
<1>5. ASSUME NEW u \in Threads PROVE BusyRight(u)'
  <2>1. caller'[u] = IF u = t THEN [pc |-> "read", op |-> op, f |-> f, fd |-> 0] ELSE caller[u]
    BY DEF Enters, TableTypes
  <2> QED BY <2>1 DEF TableTypes, BusyRight
<1> QED BY <1>3, <1>4, <1>5

\* Adding one filter to the table, or taking one out of it.
LEMMA TableSize ==
  ASSUME TableTypes, NEW f \in Filters, NEW n \in Nat, refs' = [refs EXCEPT ![f] = n]
  PROVE  /\ IsFiniteSet(InTable) /\ Cardinality(InTable) \in Nat
         /\ n > 0 /\ refs[f] > 0 => InTable' = InTable
         /\ n > 0 /\ refs[f] = 0 => InTable' = InTable \cup {f} /\ Cardinality(InTable') = Cardinality(InTable) + 1
         /\ n = 0 => Cardinality(InTable') <= Cardinality(InTable)
<1>1. IsFiniteSet(InTable) BY FS_Subset, TrafficParams DEF InTable
<1>2. Cardinality(InTable) \in Nat BY <1>1, FS_CardinalityType
<1>3. \A g \in Filters : refs'[g] = IF g = f THEN n ELSE refs[g] BY DEF TableTypes
<1>4. ASSUME n > 0, refs[f] > 0 PROVE InTable' = InTable BY <1>3, <1>4 DEF InTable
<1>5. ASSUME n > 0, refs[f] = 0
      PROVE  InTable' = InTable \cup {f} /\ Cardinality(InTable') = Cardinality(InTable) + 1
  <2>1. InTable' = InTable \cup {f} BY <1>3, <1>5 DEF InTable
  <2>2. f \notin InTable BY <1>5 DEF InTable
  <2> QED BY <1>1, <2>1, <2>2, FS_AddElement
<1>6. ASSUME n = 0 PROVE Cardinality(InTable') <= Cardinality(InTable)
  <2>1. InTable' \subseteq InTable BY <1>3, <1>6 DEF InTable
  <2> QED BY <1>1, <2>1, FS_Subset
<1> QED BY <1>1, <1>2, <1>4, <1>5, <1>6

\* The table keeps its types.
LEMMA TableTypeStep ==
  ASSUME TableTypes, LinkTypes, [Next]_vars
  PROVE  TableTypes'
<1>0. /\ refs \in [Filters -> Nat] /\ holds \in [Owners -> Filters \cup {NoFilter}]
      /\ ThreadOf \in [Owners -> Threads]
  BY TrafficParams DEF TableTypes
<1>1. ASSUME UNCHANGED <<table, caller, raced, owned>> PROVE TableTypes'
  BY <1>1 DEF table, owned, TableTypes, InTable, BusyRight
<1>2. ASSUME NEW o \in Owners, NEW f \in Filters, MQTT_Subscribe(o, f) PROVE TableTypes'
  <2>1. holds' = [holds EXCEPT ![o] = f] /\ undone' = undone
    BY <1>2 DEF MQTT_Subscribe
  <2>2. holds' \in [Owners -> Filters \cup {NoFilter}] /\ undone' \in BOOLEAN
    BY <1>0, <2>1 DEF TableTypes
  <2>3. CASE /\ refs[f] > 0 /\ refs' = [refs EXCEPT ![f] = refs[f] + 1]
             /\ UNCHANGED <<caller, raced, refused>>
    <3>1. refs[f] + 1 \in Nat /\ refs[f] + 1 > 0 BY <1>0
    <3>2. InTable' = InTable BY <2>3, <3>1, TableSize
    <3>3. refs' \in [Filters -> Nat] BY <1>0, <2>3, <3>1
    <3> QED BY <2>2, <2>3, <3>2, <3>3 DEF TableTypes, BusyRight
  <2>4. CASE refused' = refused \cup {o} /\ UNCHANGED <<refs, caller, raced>>
    BY <2>2, <2>4 DEF TableTypes, InTable, BusyRight
  <2>5. CASE /\ refs[f] = 0 /\ Cardinality(InTable) < MaxSubs /\ refs' = [refs EXCEPT ![f] = 1]
             /\ Enters(ThreadOf[o], "sub", f) /\ Marks(ThreadOf[o], f) /\ refused' = refused
    <3>1. ThreadOf[o] \in Threads BY <1>0
    <3>2. /\ caller' \in [Threads -> Caller] /\ raced' \subseteq Filters
          /\ \A u \in Threads : BusyRight(u)'
      BY <2>5, <3>1, EnterTypes
    <3>3. Cardinality(InTable') = Cardinality(InTable) + 1 /\ Cardinality(InTable) \in Nat
      <4>1. 1 \in Nat /\ 1 > 0 OBVIOUS
      <4> QED BY <2>5, <4>1, TableSize
    <3>4. refs' \in [Filters -> Nat] BY <1>0, <2>5
    <3> QED BY <2>2, <2>5, <3>2, <3>3, <3>4, TrafficParams DEF TableTypes
  <2> QED BY <1>2, <2>3, <2>4, <2>5 DEF MQTT_Subscribe
<1>3. ASSUME NEW o \in Owners, MQTT_Unsubscribe(o) PROVE TableTypes'
  <2> PICK f \in Filters : f = holds[o] BY <1>0, <1>3 DEF MQTT_Unsubscribe
  <2>1. /\ holds' = [holds EXCEPT ![o] = NoFilter] /\ refused' = refused \ {o}
        /\ undone' = (undone \/ o \in refused)
    BY <1>3 DEF MQTT_Unsubscribe
  <2>2. /\ holds' \in [Owners -> Filters \cup {NoFilter}] /\ undone' \in BOOLEAN
        /\ refused' \subseteq Owners
    BY <1>0, <2>1 DEF TableTypes
  <2>3. CASE UNCHANGED <<refs, caller, raced>>
    BY <2>2, <2>3 DEF TableTypes, InTable, BusyRight
  <2>4. CASE /\ refs[f] > 1 /\ refs' = [refs EXCEPT ![f] = refs[f] - 1]
             /\ UNCHANGED <<caller, raced>>
    <3>1. refs[f] - 1 \in Nat /\ refs[f] - 1 > 0 /\ refs[f] > 0 BY <1>0, <2>4
    <3>2. InTable' = InTable BY <2>4, <3>1, TableSize
    <3>3. refs' \in [Filters -> Nat] BY <1>0, <2>4, <3>1
    <3> QED BY <2>2, <2>4, <3>2, <3>3 DEF TableTypes, BusyRight
  <2>5. CASE /\ refs' = [refs EXCEPT ![f] = 0]
             /\ Enters(ThreadOf[o], "unsub", f) /\ Marks(ThreadOf[o], f)
    <3>1. ThreadOf[o] \in Threads BY <1>0
    <3>2. /\ caller' \in [Threads -> Caller] /\ raced' \subseteq Filters
          /\ \A u \in Threads : BusyRight(u)'
      BY <2>5, <3>1, EnterTypes
    <3>3. Cardinality(InTable') <= Cardinality(InTable) /\ Cardinality(InTable) \in Nat
      BY <2>5, TableSize
    <3>4. InTable' \subseteq InTable /\ IsFiniteSet(InTable)
      <4>1. \A g \in Filters : refs'[g] = IF g = f THEN 0 ELSE refs[g] BY <1>0, <2>5
      <4>2. IsFiniteSet(InTable) BY <2>5, TableSize
      <4> QED BY <4>1, <4>2 DEF InTable
    <3>5. Cardinality(InTable') \in Nat BY <3>4, FS_Subset, FS_CardinalityType
    <3>6. refs' \in [Filters -> Nat] BY <1>0, <2>5
    <3>7. Cardinality(InTable') <= MaxSubs BY <3>3, <3>5, TrafficParams DEF TableTypes
    <3> QED BY <2>2, <3>2, <3>6, <3>7 DEF TableTypes
  <2>6. refs[f] > 0 /\ ~LastOwner(f) => refs[f] > 1 BY <1>0 DEF LastOwner
  <2> QED BY <1>3, <2>3, <2>4, <2>5, <2>6 DEF MQTT_Unsubscribe
<1>4. ASSUME NEW t \in Threads, ReadSocket(t) \/ SendSub(t) PROVE TableTypes'
  <2>1. AtRest \in Caller BY TrafficParams DEF AtRest, Caller
  <2>2. [caller[t] EXCEPT !.pc = "send", !.fd = sock] \in Caller
    <3>1. sock \in 0 .. MaxSessions BY TrafficParams DEF LinkTypes
    <3>2. caller[t] \in Caller BY DEF TableTypes
    <3> QED BY <3>1, <3>2 DEF Caller
  <2>3. PICK c \in Caller : /\ caller' = [caller EXCEPT ![t] = c]
                            /\ c.pc # "idle" => /\ caller[t].pc # "idle" /\ c.f = caller[t].f
                                                /\ c.op = caller[t].op
    <3>1. caller' = [caller EXCEPT ![t] = AtRest]
          \/ caller' = [caller EXCEPT ![t] = [caller[t] EXCEPT !.pc = "send", !.fd = sock]]
      BY <1>4 DEF ReadSocket, SendSub
    <3>2. AtRest.pc = "idle" BY DEF AtRest
    <3>3. caller[t].pc # "idle" BY <1>4 DEF ReadSocket, SendSub
    <3>4. caller[t] \in Caller BY DEF TableTypes
    <3>5. LET c == [caller[t] EXCEPT !.pc = "send", !.fd = sock]
          IN c.f = caller[t].f /\ c.op = caller[t].op
      BY <3>4 DEF Caller
    <3> QED BY <2>1, <2>2, <3>1, <3>2, <3>3, <3>5
  <2>4. UNCHANGED <<table, raced, owned>> BY <1>4 DEF ReadSocket, SendSub
  <2>5. caller' \in [Threads -> Caller] BY <2>3 DEF TableTypes
  <2>6. ASSUME NEW u \in Threads PROVE BusyRight(u)'
    <3>1. caller'[u] = IF u = t THEN c ELSE caller[u] BY <2>3 DEF TableTypes
    <3> QED BY <2>3, <3>1 DEF TableTypes, BusyRight
  <2> QED BY <2>4, <2>5, <2>6 DEF table, owned, TableTypes, InTable
<1>5. ASSUME Connected PROVE TableTypes'
  <2>1. raced' \subseteq Filters /\ UNCHANGED <<table, caller, owned>>
    BY <1>5 DEF Connected, TableTypes
  <2> QED BY <2>1 DEF table, owned, TableTypes, InTable, BusyRight
<1>6. ASSUME \/ MQTT_Publish_Binary \/ BrokerTakes \/ LockTable \/ RestoreOne \/ Restored
             \/ Birth \/ Disconnected \/ Clear
             \/ \E due \in SUBSET Slots : inflight_retransmit(due)
             \/ \E p \in Pids : inflight_ack(p)
      PROVE  TableTypes'
  <2>1. UNCHANGED <<table, caller, raced, owned>>
    BY <1>6 DEF MQTT_Publish_Binary, BrokerTakes, LockTable, RestoreOne, Restored, Birth,
                Disconnected, Clear, inflight_retransmit, inflight_ack
  <2> QED BY <1>1, <2>1
<1>7. CASE UNCHANGED vars
  <2>1. UNCHANGED <<table, caller, raced, owned>> BY <1>7 DEF vars
  <2> QED BY <1>1, <2>1
<1> QED BY <1>2, <1>3, <1>4, <1>5, <1>6, <1>7 DEF Next

\* So does the connection.
LEMMA LinkTypeStep ==
  ASSUME TableTypes, LinkTypes, [Next]_vars
  PROVE  LinkTypes'
<1>1. ASSUME UNCHANGED <<link, served>> PROVE LinkTypes' BY <1>1 DEF link, LinkTypes
<1>2. ASSUME NEW t \in Threads, SendSub(t) PROVE LinkTypes'
  <2>1. caller[t].f \in Filters BY <1>2 DEF TableTypes, BusyRight, SendSub
  <2>2. served' = served \/ Arrives(caller[t].op, caller[t].f) BY <1>2 DEF SendSub
  <2>3. served' \subseteq Filters BY <2>1, <2>2 DEF Arrives, LinkTypes
  <2> QED BY <1>2, <2>3 DEF SendSub, link, LinkTypes
<1>3. ASSUME RestoreOne PROVE LinkTypes'
  <2>1. PICK f \in todo : todo' = todo \ {f} /\ served' = served \cup {f}
    BY <1>3 DEF RestoreOne, Arrives
  <2> QED BY <1>3, <2>1 DEF RestoreOne, LinkTypes
<1>4. ASSUME Connected PROVE LinkTypes'
  <2>1. session + 1 \in 0 .. MaxSessions BY <1>4, TrafficParams DEF Connected, LinkTypes
  <2> QED BY <1>4, <2>1 DEF Connected, LinkTypes
<1>5. ASSUME LockTable PROVE LinkTypes' BY <1>5 DEF LockTable, LinkTypes, InTable
<1>6. ASSUME Restored \/ Birth \/ Clear PROVE LinkTypes'
  BY <1>6 DEF Restored, Birth, Clear, LinkTypes
<1>7. ASSUME Disconnected PROVE LinkTypes' BY <1>7 DEF Disconnected, LinkTypes
<1>8. ASSUME \/ \E o \in Owners, f \in Filters : MQTT_Subscribe(o, f)
             \/ \E o \in Owners : MQTT_Unsubscribe(o)
             \/ \E t \in Threads : ReadSocket(t)
             \/ MQTT_Publish_Binary \/ BrokerTakes
             \/ \E due \in SUBSET Slots : inflight_retransmit(due)
             \/ \E p \in Pids : inflight_ack(p)
      PROVE  LinkTypes'
  <2>1. UNCHANGED <<link, served>>
    BY <1>8 DEF MQTT_Subscribe, MQTT_Unsubscribe, ReadSocket, MQTT_Publish_Binary, BrokerTakes,
                inflight_retransmit, inflight_ack
  <2> QED BY <1>1, <2>1
<1>9. CASE UNCHANGED vars
  <2>1. UNCHANGED <<link, served>> BY <1>9 DEF vars
  <2> QED BY <1>1, <2>1
<1> QED BY <1>2, <1>3, <1>4, <1>5, <1>6, <1>7, <1>8, <1>9 DEF Next

\* What a resend leaves in a slot, and what it sends.
LEMMA ResendFacts ==
  ASSUME QosTypes, NEW i \in Slots, inflight[i].used
  PROVE  /\ AfterResend(i) \in Entry \cup {Free}
         /\ inflight[i].msg \in Msgs
         /\ AfterResend(i).used <=> ~Exhausted(i)
         /\ ~Exhausted(i) =>
              /\ AfterResend(i) \in Entry
              /\ AfterResend(i).pid = inflight[i].pid /\ AfterResend(i).msg = inflight[i].msg
              /\ AfterResend(i).sess = inflight[i].sess
              /\ [pid |-> inflight[i].pid, msg |-> inflight[i].msg,
                  try |-> inflight[i].retries + 1] \in Packet
<1>1. inflight[i] \in Entry BY SlotFacts
<1>2. inflight[i].retries \in 0 .. MaxRetries BY <1>1 DEF Entry
<1>3. CASE Exhausted(i)
  <2>1. AfterResend(i) = Free BY <1>3 DEF AfterResend
  <2>2. inflight[i].msg \in Msgs BY <1>1 DEF Entry
  <2>3. ~AfterResend(i).used BY <2>1 DEF Free
  <2> QED BY <1>3, <2>1, <2>2, <2>3
<1>4. CASE ~Exhausted(i)
  <2> PICK n \in 0 .. MaxRetries : n = inflight[i].retries + 1
    BY <1>2, <1>4, TrafficParams DEF Exhausted
  <2>1. AfterResend(i) = [inflight[i] EXCEPT !.retries = n] BY <1>4 DEF AfterResend
  <2>2. AfterResend(i) \in Entry /\ AfterResend(i).used BY <1>1, <2>1 DEF Entry
  <2>3. /\ AfterResend(i).pid = inflight[i].pid /\ AfterResend(i).msg = inflight[i].msg
        /\ AfterResend(i).sess = inflight[i].sess
    BY <1>1, <2>1 DEF Entry
  <2>4. [pid |-> inflight[i].pid, msg |-> inflight[i].msg, try |-> n] \in Packet
    BY <1>1 DEF Entry, Packet
  <2> QED BY <1>1, <1>4, <2>2, <2>3, <2>4 DEF Entry
<1> QED BY <1>3, <1>4

\* A publish puts its message in a slot that is free, or lets it go.
LEMMA PublishFacts ==
  ASSUME QosTypes, LinkTypes, MQTT_Publish_Binary
  PROVE  /\ sock = session /\ session \in 1 .. MaxSessions
         /\ pubs + 1 \in Msgs
         /\ \/ excused' = excused \cup {pubs + 1} /\ inflight' = inflight
            \/ /\ excused' = excused
               /\ \E i \in Slots, e \in Entry :
                    /\ ~inflight[i].used /\ inflight' = [inflight EXCEPT ![i] = e]
                    /\ e.pid = packet_id /\ e.msg = pubs + 1 /\ e.sess = session
<1>1. pubs + 1 \in Msgs BY TrafficParams DEF QosTypes, MQTT_Publish_Binary, Msgs
<1>2. sock = session /\ session \in 1 .. MaxSessions
  BY TrafficParams DEF LinkTypes, MQTT_Publish_Binary
<1>3. CASE FreeSlots = {} BY <1>1, <1>2, <1>3 DEF MQTT_Publish_Binary
<1>4. CASE FreeSlots # {}
  <2> DEFINE i == CHOOSE x \in FreeSlots : \A y \in FreeSlots : x <= y
             e == [used |-> TRUE, pid |-> packet_id, msg |-> pubs + 1, sess |-> sock,
                   retries |-> 0]
  <2>1. FreeSlots \in SUBSET Nat BY TrafficParams DEF FreeSlots, Slots
  <2>2. i \in FreeSlots BY <1>4, <2>1, LeastIn
  <2>3. inflight' = [inflight EXCEPT ![i] = e] /\ excused' = excused
    BY <1>4 DEF MQTT_Publish_Binary
  <2>4. e \in Entry BY <1>1, <1>2, TrafficParams DEF Entry, QosTypes
  <2>5. e.pid = packet_id /\ e.msg = pubs + 1 /\ e.sess = session BY <1>2
  <2> HIDE DEF i, e
  <2>6. i \in Slots /\ ~inflight[i].used BY <2>2 DEF FreeSlots
  <2> QED BY <1>1, <1>2, <2>3, <2>4, <2>5, <2>6
<1> QED BY <1>3, <1>4

\* An acknowledgement frees a slot with its packet id, if there is one.
LEMMA AckFacts ==
  ASSUME NEW p \in Pids, inflight_ack(p)
  PROVE  \/ inflight' = inflight
         \/ \E i \in Slots : /\ inflight[i].used /\ inflight[i].pid = p
                             /\ inflight' = [inflight EXCEPT ![i] = Free]
<1>1. CASE Acked(p) = {} BY <1>1 DEF inflight_ack
<1>2. CASE Acked(p) # {}
  <2> DEFINE i == CHOOSE x \in Acked(p) : \A y \in Acked(p) : x <= y
  <2>1. Acked(p) \in SUBSET Nat BY TrafficParams DEF Acked, Slots
  <2>2. i \in Acked(p) BY <1>2, <2>1, LeastIn
  <2>3. inflight' = [inflight EXCEPT ![i] = Free] BY <1>2 DEF inflight_ack
  <2> HIDE DEF i
  <2> QED BY <2>2, <2>3 DEF Acked
<1> QED BY <1>1, <1>2

\* Publishes keep their types.
LEMMA QosTypeStep ==
  ASSUME QosTypes, LinkTypes, [Next]_vars
  PROVE  QosTypes'
<1>0. /\ inflight \in [Slots -> Entry \cup {Free}] /\ acks \in [Pids -> Nat]
      /\ calls \in 0 .. MaxCalls /\ pubs \in 0 .. calls /\ packet_id \in Pids
  BY DEF QosTypes
<1>1. ASSUME UNCHANGED <<qos, calls>> PROVE QosTypes' BY <1>1 DEF qos, QosTypes
<1>2. ASSUME calls < MaxCalls, calls' = calls + 1, UNCHANGED qos PROVE QosTypes'
  <2>1. calls' \in 0 .. MaxCalls /\ pubs \in 0 .. calls'
    BY <1>0, <1>2, TrafficParams
  <2> QED BY <1>2, <2>1 DEF qos, QosTypes
<1>3. ASSUME TakePid,
             UNCHANGED <<inflight, inbox, acks, pubs, delivered, excused, calls>>
      PROVE  QosTypes'
  BY <1>3, PidStep DEF QosTypes
<1>4. ASSUME MQTT_Publish_Binary PROVE QosTypes'
  <2>1. packet_id' \in Pids /\ reused' \in BOOLEAN BY <1>4, PidStep DEF MQTT_Publish_Binary
  <2>2. pubs + 1 \in Msgs BY <1>4, PublishFacts
  <2>3. [pid |-> packet_id, msg |-> pubs + 1, try |-> 0] \in Packet
    BY <1>0, <2>2, TrafficParams DEF Packet
  <2>4. inbox' \subseteq Packet BY <1>4, <2>3 DEF MQTT_Publish_Binary, QosTypes
  <2>5. calls' \in 0 .. MaxCalls /\ pubs' \in 0 .. calls'
    BY <1>0, <1>4, TrafficParams DEF MQTT_Publish_Binary
  <2>6. excused' \subseteq Msgs BY <1>4, <2>2, PublishFacts DEF QosTypes
  <2>7. inflight' \in [Slots -> Entry \cup {Free}] BY <1>0, <1>4, PublishFacts
  <2>8. acks' = acks /\ delivered' = delivered BY <1>4 DEF MQTT_Publish_Binary
  <2> QED BY <2>1, <2>4, <2>5, <2>6, <2>7, <2>8 DEF QosTypes
<1>5. ASSUME NEW due \in SUBSET Slots, inflight_retransmit(due) PROVE QosTypes'
  <2> PICK upto \in due :
        LET done == {i \in due : i <= upto}
            sent == {i \in done : ~Exhausted(i)} IN
        /\ inflight' = [i \in Slots |-> IF i \in done THEN AfterResend(i) ELSE inflight[i]]
        /\ excused' = excused \cup {inflight[i].msg : i \in {j \in done : Exhausted(j)}}
        /\ \E lost \in {{}, {upto}} :
             inbox' = inbox \cup
                 {[pid |-> inflight[i].pid, msg |-> inflight[i].msg,
                   try |-> inflight[i].retries + 1] : i \in sent \ lost}
    BY <1>5 DEF inflight_retransmit
  <2>1. \A i \in due : inflight[i].used BY <1>5 DEF inflight_retransmit
  <2>2. \A i \in due : /\ AfterResend(i) \in Entry \cup {Free}
                       /\ inflight[i].msg \in Msgs
                       /\ ~Exhausted(i) =>
                            [pid |-> inflight[i].pid, msg |-> inflight[i].msg,
                             try |-> inflight[i].retries + 1] \in Packet
    BY <2>1, ResendFacts
  <2>3. inflight' \in [Slots -> Entry \cup {Free}] BY <1>0, <2>2
  <2>4. excused' \subseteq Msgs BY <2>2 DEF QosTypes
  <2>5. inbox' \subseteq Packet BY <2>2 DEF QosTypes
  <2>6. UNCHANGED <<packet_id, acks, pubs, delivered, reused, calls>>
    BY <1>5 DEF inflight_retransmit
  <2> QED BY <2>3, <2>4, <2>5, <2>6 DEF QosTypes
<1>6. ASSUME BrokerTakes PROVE QosTypes'
  <2>1. PICK m \in inbox : /\ inbox' = inbox \ {m} /\ delivered' = delivered \cup {m.msg}
                           /\ acks' = [acks EXCEPT ![m.pid] = acks[m.pid] + 1]
    BY <1>6 DEF BrokerTakes
  <2>2. m.pid \in Pids /\ m.msg \in Msgs BY DEF QosTypes, Packet
  <2>3. acks' \in [Pids -> Nat]
    <3>1. acks[m.pid] + 1 \in Nat BY <1>0, <2>2
    <3> QED BY <1>0, <2>1, <2>2, <3>1
  <2>4. UNCHANGED <<packet_id, inflight, pubs, excused, reused, calls>> BY <1>6 DEF BrokerTakes
  <2> QED BY <2>1, <2>2, <2>3, <2>4 DEF QosTypes
<1>7. ASSUME NEW p \in Pids, inflight_ack(p) PROVE QosTypes'
  <2>1. acks[p] - 1 \in Nat /\ acks' = [acks EXCEPT ![p] = acks[p] - 1]
    BY <1>0, <1>7 DEF inflight_ack
  <2>2. acks' \in [Pids -> Nat] BY <1>0, <2>1
  <2>3. inflight' \in [Slots -> Entry \cup {Free}] BY <1>0, <1>7, AckFacts
  <2>4. UNCHANGED <<packet_id, inbox, pubs, delivered, excused, reused, calls>>
    BY <1>7 DEF inflight_ack
  <2> QED BY <2>2, <2>3, <2>4 DEF QosTypes
<1>8. ASSUME Clear PROVE QosTypes'
  <2>1. \A i \in Slots : inflight[i].used => inflight[i].msg \in Msgs
    BY SlotFacts DEF Entry
  <2>2. excused' \subseteq Msgs BY <1>8, <2>1 DEF Clear, QosTypes
  <2>3. inflight' \in [Slots -> Entry \cup {Free}] BY <1>8 DEF Clear, Cleared
  <2>4. acks' \in [Pids -> Nat] BY <1>8 DEF Clear
  <2> QED BY <1>8, <2>2, <2>3, <2>4 DEF Clear, QosTypes
<1>9. ASSUME Disconnected PROVE QosTypes' BY <1>9 DEF Disconnected, QosTypes
<1>10. ASSUME NEW o \in Owners, MQTT_Unsubscribe(o) \/ \E f \in Filters : MQTT_Subscribe(o, f)
       PROVE  QosTypes'
  <2>1. calls < MaxCalls /\ calls' = calls + 1 /\ UNCHANGED qos
    BY <1>10 DEF MQTT_Subscribe, MQTT_Unsubscribe
  <2> QED BY <1>2, <2>1
<1>11. ASSUME RestoreOne \/ \E t \in Threads : SendSub(t) PROVE QosTypes'
  <2>1. TakePid /\ UNCHANGED <<inflight, inbox, acks, pubs, delivered, excused, calls>>
    BY <1>11 DEF RestoreOne, SendSub
  <2> QED BY <1>3, <2>1
<1>12. ASSUME \/ Connected \/ LockTable \/ Restored \/ Birth \/ UNCHANGED vars
              \/ \E t \in Threads : ReadSocket(t)
       PROVE  QosTypes'
  <2>1. UNCHANGED <<qos, calls>>
    BY <1>12 DEF Connected, LockTable, Restored, Birth, ReadSocket, vars, qos
  <2> QED BY <1>1, <2>1
<1> QED BY <1>4, <1>5, <1>6, <1>7, <1>8, <1>9, <1>10, <1>11, <1>12 DEF Next

\* The types hold.
LEMMA TypesHold == Spec => [](TableTypes /\ LinkTypes /\ QosTypes)
<1>1. Init => TableTypes /\ LinkTypes /\ QosTypes
  <2> SUFFICES ASSUME Init PROVE TableTypes /\ LinkTypes /\ QosTypes OBVIOUS
  <2>1. AtRest \in Caller /\ AtRest.pc = "idle" BY TrafficParams DEF AtRest, Caller
  <2>2. InTable = {} BY DEF Init, InTable
  <2>3. Cardinality(InTable) <= MaxSubs BY <2>2, FS_EmptySet, TrafficParams
  <2>4. caller \in [Threads -> Caller] /\ \A t \in Threads : BusyRight(t)
    BY <2>1 DEF Init, BusyRight
  <2>5. TableTypes BY <2>3, <2>4 DEF Init, TableTypes
  <2>6. LinkTypes BY TrafficParams DEF Init, LinkTypes
  <2>7. QosTypes
    <3>1. packet_id \in Pids BY TrafficParams DEF Init, Pids
    <3>2. inflight \in [Slots -> Entry \cup {Free}] /\ acks \in [Pids -> Nat] BY DEF Init
    <3>3. calls \in 0 .. MaxCalls /\ pubs \in 0 .. calls BY TrafficParams DEF Init
    <3>4. inbox = {} /\ delivered = {} /\ excused = {} /\ reused = FALSE BY DEF Init
    <3> QED BY <3>1, <3>2, <3>3, <3>4 DEF QosTypes
  <2> QED BY <2>5, <2>6, <2>7
<1>2. TableTypes /\ LinkTypes /\ QosTypes /\ [Next]_vars => TableTypes' /\ LinkTypes' /\ QosTypes'
  BY TableTypeStep, LinkTypeStep, QosTypeStep
<1> QED BY <1>1, <1>2, PTL DEF Spec

\* The filter table never outgrows its array, and no packet has id 0, for any size of the
\* table and of the counter (mqtt_client.c:481, 1115).
THEOREM Typed == Spec => []TypeOK
BY TypesHold, TypeParts, PTL

(***************************************************************************)
(* The in-flight table.                                                    *)
(***************************************************************************)

\* A connection is there from CONNACK to the end of the receive loop.
Up        == worker \notin {"down", "closed"}
LinkRight == /\ sock = IF Up THEN session ELSE 0
             /\ Up => session > 0

\* A slot in use is the session's.
SlotRight(i) == inflight[i].used => inflight[i].sess = session /\ worker # "down"
SlotsRight   == \A i \in Slots : SlotRight(i)

\* Whatever a PUBACK for a slot's packet id acknowledges, now or when the broker has taken
\* what is on its way, is the slot's message.
Match(i) ==
  inflight[i].used =>
    /\ acks[inflight[i].pid] > 0 => inflight[i].msg \in delivered
    /\ \A m \in inbox : m.pid = inflight[i].pid => m.msg = inflight[i].msg
    /\ \A j \in Slots : inflight[j].used /\ inflight[j].pid = inflight[i].pid =>
         inflight[j].msg = inflight[i].msg

\* Message m is accounted for.
Accounted(m) ==
  \/ m \in delivered \cup excused
  \/ \E i \in Slots : inflight[i].used /\ inflight[i].msg = m

\* The connection.
LEMMA LinkStep ==
  ASSUME LinkTypes, LinkRight, [Next]_vars
  PROVE  LinkRight'
<1>1. ASSUME UNCHANGED <<session, sock, Up>> PROVE LinkRight' BY <1>1 DEF LinkRight
<1>2. CASE Connected BY <1>2 DEF Connected, LinkRight, Up, LinkTypes
<1>3. CASE LockTable \/ Restored \/ Birth \/ Disconnected \/ Clear
  BY <1>3 DEF LockTable, Restored, Birth, Disconnected, Clear, LinkRight, Up
<1>4. CASE \/ \E o \in Owners, f \in Filters : MQTT_Subscribe(o, f)
           \/ \E o \in Owners : MQTT_Unsubscribe(o)
           \/ \E t \in Threads : ReadSocket(t) \/ SendSub(t)
           \/ MQTT_Publish_Binary \/ BrokerTakes \/ RestoreOne \/ UNCHANGED vars
           \/ \E due \in SUBSET Slots : inflight_retransmit(due)
           \/ \E p \in Pids : inflight_ack(p)
  <2>1. UNCHANGED <<session, sock, worker>>
    BY <1>4 DEF MQTT_Subscribe, MQTT_Unsubscribe, ReadSocket, SendSub, MQTT_Publish_Binary,
                BrokerTakes, RestoreOne, inflight_retransmit, inflight_ack, vars, link
  <2> QED BY <1>1, <2>1 DEF Up
<1> QED BY <1>2, <1>3, <1>4 DEF Next

\* The slots' session.
LEMMA SlotStep ==
  ASSUME LinkTypes, QosTypes, LinkRight, SlotsRight, [Next]_vars,
         NEW i \in Slots
  PROVE  SlotRight(i)'
<1>0. inflight \in [Slots -> Entry \cup {Free}] /\ SlotRight(i) BY DEF QosTypes, SlotsRight
<1>1. ASSUME inflight'[i] = inflight[i] \/ ~inflight'[i].used, UNCHANGED <<session, worker>>
      PROVE  SlotRight(i)'
  BY <1>0, <1>1 DEF SlotRight
<1>2. CASE MQTT_Publish_Binary
  <2>1. UNCHANGED <<session, worker>> /\ sock # 0 /\ worker # "down"
    BY <1>2 DEF MQTT_Publish_Binary, link, LinkRight, Up
  <2>2. CASE inflight' = inflight BY <1>1, <2>1, <2>2
  <2>3. ASSUME NEW j \in Slots, NEW e \in Entry, inflight' = [inflight EXCEPT ![j] = e],
               e.sess = session
        PROVE  SlotRight(i)'
    <3>1. inflight'[i] = IF i = j THEN e ELSE inflight[i] BY <1>0, <2>3
    <3> QED BY <1>0, <2>1, <2>3, <3>1 DEF SlotRight
  <2> QED BY <1>2, <2>2, <2>3, PublishFacts
<1>3. ASSUME NEW due \in SUBSET Slots, inflight_retransmit(due) PROVE SlotRight(i)'
  <2>1. UNCHANGED <<session, worker>> BY <1>3 DEF inflight_retransmit, link
  <2>2. inflight'[i] = inflight[i] \/ (inflight'[i] = AfterResend(i) /\ inflight[i].used)
    BY <1>3 DEF inflight_retransmit
  <2>3. inflight'[i] = inflight[i] \/ ~inflight'[i].used
        \/ (inflight[i].used /\ inflight'[i].sess = inflight[i].sess)
    BY <2>2, ResendFacts
  <2> QED BY <1>0, <2>1, <2>3 DEF SlotRight
<1>4. ASSUME NEW p \in Pids, inflight_ack(p) PROVE SlotRight(i)'
  <2>1. UNCHANGED <<session, worker>> BY <1>4 DEF inflight_ack, link
  <2>2. inflight'[i] = inflight[i] \/ inflight'[i] = Free BY <1>0, <1>4, AckFacts
  <2>3. ~Free.used BY DEF Free
  <2> QED BY <1>1, <2>1, <2>2, <2>3
<1>5. CASE Clear
  <2>1. ~inflight'[i].used BY <1>5 DEF Clear, Cleared, Free
  <2> QED BY <2>1 DEF SlotRight
<1>6. CASE Connected
  <2>1. ~inflight[i].used /\ inflight' = inflight BY <1>0, <1>6 DEF Connected, qos, SlotRight
  <2> QED BY <2>1 DEF SlotRight
<1>7. CASE LockTable \/ Restored \/ Birth \/ Disconnected
  BY <1>0, <1>7 DEF LockTable, Restored, Birth, Disconnected, qos, SlotRight
<1>8. CASE \/ \E o \in Owners, f \in Filters : MQTT_Subscribe(o, f)
           \/ \E o \in Owners : MQTT_Unsubscribe(o)
           \/ \E t \in Threads : ReadSocket(t) \/ SendSub(t)
           \/ BrokerTakes \/ RestoreOne \/ UNCHANGED vars
  <2>1. UNCHANGED <<session, worker, inflight>>
    BY <1>8 DEF MQTT_Subscribe, MQTT_Unsubscribe, ReadSocket, SendSub, BrokerTakes, RestoreOne,
                vars, link, qos
  <2> QED BY <1>1, <2>1
<1> QED BY <1>2, <1>3, <1>4, <1>5, <1>6, <1>7, <1>8 DEF Next

\* No message of an earlier session is left to be resent in a later one, however the session
\* ends and whoever publishes (worker_fn, inflight_clear).
THEOREM OwnSession == Spec => []InflightOfSession
<1>1. Init => LinkRight /\ SlotsRight
  BY DEF Init, LinkRight, SlotsRight, SlotRight, Up, Free
<1>2. LinkTypes /\ QosTypes /\ LinkRight /\ SlotsRight /\ [Next]_vars
      => LinkRight' /\ SlotsRight'
  <2> SUFFICES ASSUME LinkTypes, QosTypes, LinkRight, SlotsRight, [Next]_vars
               PROVE  LinkRight' /\ SlotsRight'
    OBVIOUS
  <2>1. LinkRight' BY LinkStep
  <2>2. \A i \in Slots : SlotRight(i)' BY SlotStep
  <2> QED BY <2>1, <2>2 DEF SlotsRight
<1>3. LinkRight /\ SlotsRight => InflightOfSession
  BY DEF LinkRight, SlotsRight, SlotRight, InflightOfSession, Up
<1> QED BY <1>1, <1>2, <1>3, TypesHold, PTL DEF Spec

\* The inductive invariant of acknowledgements.
AckRight == ~reused => /\ \A i \in Slots : Match(i)
                       /\ \A m \in 1 .. pubs : Accounted(m)

\* What slots keep, unless they are freed.
Keeps(i) == inflight'[i].used => /\ inflight[i].used /\ inflight'[i].pid = inflight[i].pid
                                 /\ inflight'[i].msg = inflight[i].msg

\* A resend changes no packet id and no message, sends only what slots hold, and frees a
\* slot only as excused.
LEMMA ResendKeeps ==
  ASSUME QosTypes, NEW due \in SUBSET Slots, inflight_retransmit(due)
  PROVE  /\ \A i \in Slots : Keeps(i)
         /\ \A i \in Slots : inflight[i].used /\ ~inflight'[i].used => inflight[i].msg \in excused'
         /\ \A m \in inbox' : m \in inbox \/ \E j \in Slots : /\ inflight[j].used
                                                              /\ m.pid = inflight[j].pid
                                                              /\ m.msg = inflight[j].msg
         /\ excused \subseteq excused' /\ UNCHANGED <<acks, pubs, delivered, reused>>
<1>0. \A i \in due : inflight[i].used /\ i \in Slots BY DEF inflight_retransmit
<1> PICK upto \in due :
      LET done == {i \in due : i <= upto}
          sent == {i \in done : ~Exhausted(i)} IN
      /\ inflight' = [i \in Slots |-> IF i \in done THEN AfterResend(i) ELSE inflight[i]]
      /\ excused' = excused \cup {inflight[i].msg : i \in {j \in done : Exhausted(j)}}
      /\ \E lost \in {{}, {upto}} :
           inbox' = inbox \cup
               {[pid |-> inflight[i].pid, msg |-> inflight[i].msg,
                 try |-> inflight[i].retries + 1] : i \in sent \ lost}
  BY DEF inflight_retransmit
<1> DEFINE done == {i \in due : i <= upto}
<1>1. \A i \in Slots : inflight'[i] = IF i \in done THEN AfterResend(i) ELSE inflight[i] OBVIOUS
<1>2. \A i \in due : /\ AfterResend(i).used <=> ~Exhausted(i)
                     /\ ~Exhausted(i) => /\ AfterResend(i).pid = inflight[i].pid
                                         /\ AfterResend(i).msg = inflight[i].msg
  BY <1>0, ResendFacts
<1>3. \A i \in Slots : Keeps(i) BY <1>0, <1>1, <1>2 DEF Keeps
<1>4. ASSUME NEW i \in Slots, inflight[i].used, ~inflight'[i].used
      PROVE  inflight[i].msg \in excused'
  <2>1. i \in done /\ Exhausted(i) BY <1>1, <1>2, <1>4
  <2> QED BY <2>1
<1>5. ASSUME NEW m \in inbox', m \notin inbox
      PROVE  \E j \in Slots : inflight[j].used /\ m.pid = inflight[j].pid /\ m.msg = inflight[j].msg
  <2>1. PICK j \in done : m = [pid |-> inflight[j].pid, msg |-> inflight[j].msg,
                               try |-> inflight[j].retries + 1]
    BY <1>5
  <2>2. j \in Slots /\ inflight[j].used BY <1>0
  <2>3. m.pid = inflight[j].pid /\ m.msg = inflight[j].msg BY <2>1
  <2> QED BY <2>2, <2>3
<1>6. excused \subseteq excused' OBVIOUS
<1>7. UNCHANGED <<acks, pubs, delivered, reused>> BY DEF inflight_retransmit
<1> QED BY <1>3, <1>4, <1>5, <1>6, <1>7

\* Acknowledgements stay right.
LEMMA MatchStep ==
  ASSUME QosTypes, QosTypes', LinkTypes, AckRight, [Next]_vars, ~reused', NEW i \in Slots,
         inflight'[i].used
  PROVE  Match(i)'
<1>0. /\ inflight \in [Slots -> Entry \cup {Free}] /\ acks \in [Pids -> Nat]
      /\ \A j \in Slots : inflight[j].used => inflight[j].pid \in Pids
      /\ \A m \in inbox : m.pid \in Pids
  BY SlotFacts DEF QosTypes, Entry, Packet
<1> DEFINE MatchNow(j) ==
             inflight[j].used =>
               /\ acks[inflight[j].pid] > 0 => inflight[j].msg \in delivered
               /\ \A m \in inbox : m.pid = inflight[j].pid => m.msg = inflight[j].msg
               /\ \A k \in Slots : inflight[k].used /\ inflight[k].pid = inflight[j].pid =>
                    inflight[k].msg = inflight[j].msg
<1>1. ASSUME reused' = reused \/ TakePid PROVE \A j \in Slots : MatchNow(j)
  <2>1. ~reused BY <1>1 DEF TakePid, QosTypes
  <2> QED BY <2>1 DEF AckRight, Match
<1>2. ASSUME \A j \in Slots : Keeps(j), \A j \in Slots : MatchNow(j), inbox' \subseteq inbox,
             \A p \in Pids : acks'[p] > 0 => acks[p] > 0, delivered' = delivered
      PROVE  Match(i)'
  <2>1. /\ inflight[i].used /\ inflight'[i].pid = inflight[i].pid
        /\ inflight'[i].msg = inflight[i].msg /\ inflight[i].pid \in Pids
    BY <1>0, <1>2 DEF Keeps
  <2> QED BY <1>2, <2>1 DEF Match, Keeps
<1>3. CASE MQTT_Publish_Binary
  <2> DEFINE n == [pid |-> packet_id, msg |-> pubs + 1, try |-> 0]
  <2>1. \A j \in Slots : MatchNow(j) BY <1>1, <1>3 DEF MQTT_Publish_Binary
  <2>2. ~InUse(packet_id) /\ packet_id \in Pids BY <1>3 DEF MQTT_Publish_Binary, TakePid, QosTypes
  <2>3. /\ \A j \in Slots : inflight[j].used => inflight[j].pid # packet_id
        /\ \A m \in inbox : m.pid # packet_id
        /\ ~(acks[packet_id] > 0)
    BY <2>2 DEF InUse
  <2>4. /\ inbox' = inbox \cup {n} /\ acks' = acks /\ delivered' = delivered
        /\ n.pid = packet_id /\ n.msg = pubs + 1
    BY <1>3 DEF MQTT_Publish_Binary
  <2> HIDE DEF n
  <2>5. CASE inflight' = inflight
    <3>1. Match(i)' <=>
            /\ acks[inflight[i].pid] > 0 => inflight[i].msg \in delivered
            /\ \A m \in inbox' : m.pid = inflight[i].pid => m.msg = inflight[i].msg
            /\ \A k \in Slots : inflight[k].used /\ inflight[k].pid = inflight[i].pid =>
                 inflight[k].msg = inflight[i].msg
      BY <2>4, <2>5 DEF Match
    <3> QED BY <2>1, <2>3, <2>4, <2>5, <3>1
  <2>6. ASSUME NEW j \in Slots, NEW e \in Entry, ~inflight[j].used,
               inflight' = [inflight EXCEPT ![j] = e], e.pid = packet_id, e.msg = pubs + 1
        PROVE  Match(i)'
    <3>1. \A k \in Slots : inflight'[k] = IF k = j THEN e ELSE inflight[k] BY <1>0, <2>6
    <3>2. acks'[inflight'[i].pid] > 0 => inflight'[i].msg \in delivered'
      BY <2>1, <2>3, <2>4, <2>6, <3>1
    <3>3. \A m \in inbox' : m.pid = inflight'[i].pid => m.msg = inflight'[i].msg
      BY <2>1, <2>3, <2>4, <2>6, <3>1
    <3>4. \A k \in Slots : inflight'[k].used /\ inflight'[k].pid = inflight'[i].pid =>
            inflight'[k].msg = inflight'[i].msg
      BY <2>1, <2>3, <2>6, <3>1
    <3> QED BY <3>2, <3>3, <3>4 DEF Match
  <2> QED BY <1>3, <2>5, <2>6, PublishFacts
<1>4. ASSUME NEW due \in SUBSET Slots, inflight_retransmit(due) PROVE Match(i)'
  <2>1. /\ \A j \in Slots : Keeps(j)
        /\ \A m \in inbox' : m \in inbox \/ \E j \in Slots : /\ inflight[j].used
                                                             /\ m.pid = inflight[j].pid
                                                             /\ m.msg = inflight[j].msg
        /\ UNCHANGED <<acks, delivered, reused>>
    BY <1>4, ResendKeeps
  <2>2. \A j \in Slots : MatchNow(j) BY <1>1, <2>1
  <2>3. inflight[i].used /\ inflight'[i].pid = inflight[i].pid /\ inflight'[i].msg = inflight[i].msg
    BY <2>1 DEF Keeps
  <2>4. \A m \in inbox' : m.pid = inflight'[i].pid => m.msg = inflight'[i].msg
    BY <2>1, <2>2, <2>3
  <2>5. \A k \in Slots : inflight'[k].used /\ inflight'[k].pid = inflight'[i].pid =>
          inflight'[k].msg = inflight'[i].msg
    BY <2>1, <2>2, <2>3 DEF Keeps
  <2>6. acks'[inflight'[i].pid] > 0 => inflight'[i].msg \in delivered' BY <2>1, <2>2, <2>3
  <2> QED BY <2>4, <2>5, <2>6 DEF Match
<1>5. CASE BrokerTakes
  <2>1. PICK m \in inbox : /\ inbox' = inbox \ {m} /\ delivered' = delivered \cup {m.msg}
                           /\ acks' = [acks EXCEPT ![m.pid] = acks[m.pid] + 1]
    BY <1>5 DEF BrokerTakes
  <2>2. UNCHANGED <<inflight, reused>> BY <1>5 DEF BrokerTakes
  <2>3. \A j \in Slots : MatchNow(j) BY <1>1, <2>2
  <2>4. \A p \in Pids : acks'[p] > 0 => acks[p] > 0 \/ p = m.pid BY <1>0, <2>1
  <2>5. acks'[inflight'[i].pid] > 0 => inflight'[i].msg \in delivered'
    BY <1>0, <2>1, <2>2, <2>3, <2>4
  <2> QED BY <2>1, <2>2, <2>3, <2>5 DEF Match
<1>6. ASSUME NEW p \in Pids, inflight_ack(p) PROVE Match(i)'
  <2>1. acks' = [acks EXCEPT ![p] = acks[p] - 1] /\ UNCHANGED <<inbox, delivered, reused>>
    BY <1>6 DEF inflight_ack
  <2>2. \A j \in Slots : inflight'[j] = inflight[j] \/ inflight'[j] = Free
    BY <1>0, <1>6, AckFacts
  <2>3. \A j \in Slots : Keeps(j) BY <2>2 DEF Keeps, Free
  <2>4. \A q \in Pids : acks'[q] > 0 => acks[q] > 0 BY <1>0, <2>1
  <2> QED BY <1>1, <1>2, <2>1, <2>3, <2>4
<1>7. CASE Clear BY <1>7 DEF Clear, Cleared, Free
<1>8. CASE Disconnected
  <2>1. inbox' = {} /\ UNCHANGED <<inflight, acks, delivered, reused>> BY <1>8 DEF Disconnected
  <2> QED BY <1>1, <1>2, <2>1 DEF Keeps
<1>9. CASE \/ \E o \in Owners, f \in Filters : MQTT_Subscribe(o, f)
           \/ \E o \in Owners : MQTT_Unsubscribe(o)
           \/ \E t \in Threads : ReadSocket(t) \/ SendSub(t)
           \/ RestoreOne \/ Connected \/ LockTable \/ Restored \/ Birth \/ UNCHANGED vars
  <2>1. UNCHANGED <<inflight, inbox, acks, delivered>> /\ (TakePid \/ reused' = reused)
    BY <1>9 DEF MQTT_Subscribe, MQTT_Unsubscribe, ReadSocket, SendSub, RestoreOne, Connected,
                LockTable, Restored, Birth, vars, qos
  <2> QED BY <1>1, <1>2, <2>1 DEF Keeps
<1> QED BY <1>3, <1>4, <1>5, <1>6, <1>7, <1>8, <1>9 DEF Next

\* No message goes astray.
LEMMA AccountStep ==
  ASSUME QosTypes, LinkTypes, AckRight, [Next]_vars, ~reused', NEW m \in 1 .. pubs'
  PROVE  Accounted(m)'
<1>0. /\ inflight \in [Slots -> Entry \cup {Free}] /\ acks \in [Pids -> Nat] /\ pubs \in Nat
      /\ \A j \in Slots : inflight[j].used => inflight[j].pid \in Pids
  <2>1. \A j \in Slots : inflight[j].used => inflight[j] \in Entry BY SlotFacts
  <2>2. \A j \in Slots : inflight[j].used => inflight[j].pid \in Pids BY <2>1 DEF Entry
  <2>3. pubs \in Nat BY DEF QosTypes
  <2> QED BY <2>2, <2>3 DEF QosTypes
<1>1. ASSUME reused' = reused \/ TakePid
      PROVE  (\A j \in Slots : Match(j)) /\ (m \in 1 .. pubs => Accounted(m))
  <2>1. ~reused BY <1>1 DEF TakePid, QosTypes
  <2> QED BY <2>1 DEF AckRight
<1>2. CASE MQTT_Publish_Binary
  <2>1. pubs' = pubs + 1 /\ delivered' = delivered /\ TakePid BY <1>2 DEF MQTT_Publish_Binary
  <2>2. m \in 1 .. pubs \/ m = pubs + 1 BY <1>0, <2>1
  <2>3. CASE excused' = excused \cup {pubs + 1} /\ inflight' = inflight
    BY <1>1, <2>1, <2>2, <2>3 DEF Accounted
  <2>4. ASSUME excused' = excused, NEW j \in Slots, NEW e \in Entry, ~inflight[j].used,
               inflight' = [inflight EXCEPT ![j] = e], e.msg = pubs + 1
        PROVE  Accounted(m)'
    <3>1. \A k \in Slots : inflight'[k] = IF k = j THEN e ELSE inflight[k] BY <1>0, <2>4
    <3>2. e.used BY DEF Entry
    <3>3. CASE m = pubs + 1
      <4>1. inflight'[j].used /\ inflight'[j].msg = m BY <2>4, <3>1, <3>2, <3>3
      <4> QED BY <4>1 DEF Accounted
    <3>4. CASE m \in 1 .. pubs
      <4>1. m \in delivered \cup excused \/ \E k \in Slots : inflight[k].used /\ inflight[k].msg = m
        BY <1>1, <2>1, <3>4 DEF Accounted
      <4>2. m \in delivered' \cup excused' \/ \E k \in Slots : inflight'[k].used /\ inflight'[k].msg = m
        BY <2>1, <2>4, <3>1, <4>1
      <4> QED BY <4>2 DEF Accounted
    <3> QED BY <2>2, <3>3, <3>4
  <2> QED BY <1>2, <2>3, <2>4, PublishFacts
<1>3. ASSUME reused' = reused \/ TakePid, pubs' = pubs, excused \subseteq excused',
             delivered \subseteq delivered',
             \A j \in Slots : inflight[j].used =>
               \/ inflight'[j].used /\ inflight'[j].msg = inflight[j].msg
               \/ inflight[j].msg \in delivered' \cup excused'
      PROVE  Accounted(m)'
  <2>1. m \in delivered \cup excused \/ \E k \in Slots : inflight[k].used /\ inflight[k].msg = m
    BY <1>1, <1>3 DEF Accounted
  <2>2. m \in delivered' \cup excused' \/ \E k \in Slots : inflight'[k].used /\ inflight'[k].msg = m
    BY <1>3, <2>1
  <2> QED BY <2>2 DEF Accounted
<1>4. ASSUME NEW due \in SUBSET Slots, inflight_retransmit(due) PROVE Accounted(m)'
  <2>1. /\ \A j \in Slots : inflight[j].used /\ ~inflight'[j].used => inflight[j].msg \in excused'
        /\ \A j \in Slots : Keeps(j)
        /\ excused \subseteq excused' /\ UNCHANGED <<pubs, delivered, reused>>
    BY <1>4, ResendKeeps
  <2> QED BY <1>3, <2>1 DEF Keeps
<1>5. CASE BrokerTakes
  <2>1. delivered \subseteq delivered' /\ UNCHANGED <<inflight, excused, pubs, reused>>
    BY <1>5 DEF BrokerTakes
  <2> QED BY <1>3, <2>1
<1>6. ASSUME NEW p \in Pids, inflight_ack(p) PROVE Accounted(m)'
  <2>1. UNCHANGED <<excused, pubs, delivered, reused>> /\ acks[p] > 0 BY <1>6 DEF inflight_ack
  <2>2. \A j \in Slots : inflight[j].used /\ inflight[j].pid = p => inflight[j].msg \in delivered
    BY <1>1, <2>1 DEF Match
  <2>3. CASE inflight' = inflight BY <1>3, <2>1, <2>3
  <2>4. ASSUME NEW i \in Slots, inflight[i].used, inflight[i].pid = p,
               inflight' = [inflight EXCEPT ![i] = Free]
        PROVE  Accounted(m)'
    <3>1. \A j \in Slots : j # i => inflight'[j] = inflight[j] BY <1>0, <2>4
    <3> QED BY <1>3, <2>1, <2>2, <2>4, <3>1
  <2> QED BY <1>6, <2>3, <2>4, AckFacts
<1>7. CASE Clear BY <1>3, <1>7 DEF Clear
<1>8. CASE \/ \E o \in Owners, f \in Filters : MQTT_Subscribe(o, f)
           \/ \E o \in Owners : MQTT_Unsubscribe(o)
           \/ \E t \in Threads : ReadSocket(t) \/ SendSub(t)
           \/ RestoreOne \/ Connected \/ LockTable \/ Restored \/ Birth \/ UNCHANGED vars
           \/ Disconnected
  <2>1. UNCHANGED <<inflight, delivered, excused, pubs>> /\ (TakePid \/ reused' = reused)
    BY <1>8 DEF MQTT_Subscribe, MQTT_Unsubscribe, ReadSocket, SendSub, RestoreOne, Connected,
                LockTable, Restored, Birth, Disconnected, vars, qos
  <2> QED BY <1>3, <2>1
<1> QED BY <1>2, <1>4, <1>5, <1>6, <1>7, <1>8 DEF Next

\* A QoS 1 message leaves the table unseen by the broker only with its session, its retries
\* or for want of room, unless a packet id is handed out while it is in use: for any number
\* of slots and packet ids, and however often the counter wraps (inflight_ack,
\* inflight_retransmit).
THEOREM NotLost == Spec => []AtLeastOnce
<1>1. Init => AckRight BY DEF Init, AckRight, Match, Free
<1>2. QosTypes /\ QosTypes' /\ LinkTypes /\ AckRight /\ [Next]_vars => AckRight'
  <2> SUFFICES ASSUME QosTypes, QosTypes', LinkTypes, AckRight, [Next]_vars, ~reused'
               PROVE  (\A i \in Slots : Match(i)') /\ (\A m \in 1 .. pubs' : Accounted(m)')
    BY DEF AckRight
  <2>1. \A i \in Slots : inflight'[i].used => Match(i)' BY MatchStep
  <2>2. \A i \in Slots : ~inflight'[i].used => Match(i)' BY DEF Match
  <2>3. \A m \in 1 .. pubs' : Accounted(m)' BY AccountStep
  <2> QED BY <2>1, <2>2, <2>3
<1>3. AckRight => AtLeastOnce BY DEF AckRight, Accounted, AtLeastOnce
<1> QED BY <1>1, <1>2, <1>3, TypesHold, PTL DEF Spec

(***************************************************************************)
(* The table of filters.                                                   *)
(***************************************************************************)

\* Thread t is about to send on the descriptor of a session that is over.
Late(t) == caller[t].pc = "send" /\ caller[t].fd # session

\* Nobody at work on f has anything to tell the broker of this session.
Settled(f) == \A t \in Threads : Working(t, f) => Late(t)

\* A thread at work on f is the only one, and does what the table asks for, so that its
\* packet does no harm even in a session it was not meant for.
WorkRight(t, f) ==
  Working(t, f) =>
    /\ \A u \in Threads : Working(u, f) => u = t
    /\ caller[t].op = IF refs[f] > 0 THEN "sub" ELSE "unsub"

\* With nothing left to tell, f is served only if it is in the table, and if it is, it is
\* served or about to be restored.
ServedRight(f) ==
  Up /\ Settled(f) => /\ f \in served => refs[f] > 0
                      /\ worker # "locking" /\ refs[f] > 0 => f \in served \cup todo

\* The inductive invariant of the filters.
FilterRight(f) == (\A t \in Threads : WorkRight(t, f)) /\ ServedRight(f)
FiltersRight   == /\ \A f \in Filters \ raced : FilterRight(f)
                  /\ worker = "restore" => todo \subseteq InTable
                  /\ worker \in {"callback", "receive"} => todo = {}

\* What does not touch f leaves it right.
LEMMA FilterSame ==
  ASSUME NEW f \in Filters, FilterRight(f), UNCHANGED <<session, worker, todo>>,
         \A u \in Threads : /\ Working(u, f)' <=> Working(u, f)
                            /\ Working(u, f) => caller'[u] = caller[u],
         refs'[f] > 0 <=> refs[f] > 0, f \in served' <=> f \in served
  PROVE  FilterRight(f)'
<1>1. Settled(f)' <=> Settled(f)
  <2>1. ASSUME NEW u \in Threads, Working(u, f) PROVE Late(u)' <=> Late(u)
    BY <2>1 DEF Late
  <2> QED BY <2>1 DEF Settled
<1>2. Up' <=> Up BY DEF Up
<1>3. ASSUME NEW t \in Threads PROVE WorkRight(t, f)'
  <2>1. WorkRight(t, f) BY DEF FilterRight
  <2> QED BY <1>2, <2>1 DEF WorkRight
<1>4. ServedRight(f)' BY <1>1, <1>2 DEF FilterRight, ServedRight
<1> QED BY <1>3, <1>4 DEF FilterRight

\* A thread enters with filter g: it is alone with it, or g is raced.
LEMMA FilterEnter ==
  ASSUME TableTypes, FiltersRight, NEW t \in Threads, NEW g \in Filters,
         NEW op \in {"sub", "unsub"}, NEW n \in Nat, caller[t].pc = "idle",
         Enters(t, op, g), Marks(t, g), refs' = [refs EXCEPT ![g] = n],
         op = IF n > 0 THEN "sub" ELSE "unsub", UNCHANGED <<link, served>>,
         NEW f \in Filters \ raced'
  PROVE  FilterRight(f)'
<1>1. f \notin raced /\ FilterRight(f) BY DEF Marks, FiltersRight
<1>2. \A u \in Threads : caller'[u] =
        IF u = t THEN [pc |-> "read", op |-> op, f |-> g, fd |-> 0] ELSE caller[u]
  BY DEF Enters, TableTypes
<1>3. CASE f # g
  <2>1. \A u \in Threads : /\ Working(u, f)' <=> Working(u, f)
                           /\ Working(u, f) => caller'[u] = caller[u]
    BY <1>2, <1>3 DEF Working
  <2>2. refs'[f] = refs[f] BY <1>3 DEF TableTypes
  <2> QED BY <1>1, <2>1, <2>2, FilterSame DEF link
<1>4. CASE f = g
  <2>1. \A u \in Threads \ {t} : ~Working(u, f) BY <1>4 DEF Marks
  <2>2. \A u \in Threads : Working(u, f)' <=> u = t BY <1>2, <1>4, <2>1 DEF Working
  <2>3. refs'[f] = n BY <1>4 DEF TableTypes
  <2>4. caller'[t].op = op /\ caller'[t].pc = "read" BY <1>2
  <2>5. ASSUME NEW u \in Threads PROVE WorkRight(u, f)'
    BY <2>2, <2>3, <2>4 DEF WorkRight
  <2>6. ServedRight(f)' BY <2>2, <2>4 DEF ServedRight, Settled, Late
  <2> QED BY <2>5, <2>6 DEF FilterRight
<1> QED BY <1>3, <1>4

\* The filters stay right.
LEMMA FilterStep ==
  ASSUME TableTypes, LinkTypes, LinkRight, FiltersRight, [Next]_vars, NEW f \in Filters \ raced'
  PROVE  FilterRight(f)'
<1>0. /\ refs \in [Filters -> Nat] /\ caller \in [Threads -> Caller]
      /\ ThreadOf \in [Owners -> Threads]
  BY TrafficParams DEF TableTypes
<1>1. ASSUME raced' = raced PROVE FilterRight(f) BY <1>1 DEF FiltersRight
<1>2. ASSUME NEW o \in Owners, NEW g \in Filters, MQTT_Subscribe(o, g) PROVE FilterRight(f)'
  <2>1. UNCHANGED <<link, served>> BY <1>2 DEF MQTT_Subscribe
  <2>2. CASE /\ refs[g] > 0 /\ refs' = [refs EXCEPT ![g] = refs[g] + 1]
             /\ UNCHANGED <<caller, raced>>
    <3>1. refs'[f] > 0 <=> refs[f] > 0 BY <1>0, <2>2
    <3>2. \A u \in Threads : Working(u, f)' <=> Working(u, f) BY <2>2 DEF Working
    <3> QED BY <1>1, <2>1, <2>2, <3>1, <3>2, FilterSame DEF link
  <2>3. CASE UNCHANGED <<refs, caller, raced>>
    <3>1. \A u \in Threads : Working(u, f)' <=> Working(u, f) BY <2>3 DEF Working
    <3> QED BY <1>1, <2>1, <2>3, <3>1, FilterSame DEF link
  <2>4. CASE /\ refs[g] = 0 /\ refs' = [refs EXCEPT ![g] = 1]
             /\ Enters(ThreadOf[o], "sub", g) /\ Marks(ThreadOf[o], g)
    <3>1. ThreadOf[o] \in Threads /\ caller[ThreadOf[o]].pc = "idle" /\ 1 \in Nat /\ 1 > 0
      BY <1>0, <1>2 DEF MQTT_Subscribe
    <3> QED BY <2>1, <2>4, <3>1, FilterEnter
  <2> QED BY <1>2, <2>2, <2>3, <2>4 DEF MQTT_Subscribe
<1>3. ASSUME NEW o \in Owners, MQTT_Unsubscribe(o) PROVE FilterRight(f)'
  <2>1. UNCHANGED <<link, served>> BY <1>3 DEF MQTT_Unsubscribe
  <2> PICK g \in Filters : g = holds[o] BY <1>3 DEF MQTT_Unsubscribe, TableTypes
  <2>2. CASE /\ refs[g] > 1 /\ refs' = [refs EXCEPT ![g] = refs[g] - 1]
             /\ UNCHANGED <<caller, raced>>
    <3>1. refs'[f] > 0 <=> refs[f] > 0 BY <1>0, <2>2
    <3>2. \A u \in Threads : Working(u, f)' <=> Working(u, f) BY <2>2 DEF Working
    <3> QED BY <1>1, <2>1, <2>2, <3>1, <3>2, FilterSame DEF link
  <2>3. CASE UNCHANGED <<refs, caller, raced>>
    <3>1. \A u \in Threads : Working(u, f)' <=> Working(u, f) BY <2>3 DEF Working
    <3> QED BY <1>1, <2>1, <2>3, <3>1, FilterSame DEF link
  <2>4. CASE /\ refs' = [refs EXCEPT ![g] = 0]
             /\ Enters(ThreadOf[o], "unsub", g) /\ Marks(ThreadOf[o], g)
    <3>1. ThreadOf[o] \in Threads /\ caller[ThreadOf[o]].pc = "idle" /\ 0 \in Nat /\ ~(0 > 0)
      BY <1>0, <1>3 DEF MQTT_Unsubscribe
    <3> QED BY <2>1, <2>4, <3>1, FilterEnter
  <2>5. refs[g] > 0 /\ ~LastOwner(g) => refs[g] > 1 BY <1>0 DEF LastOwner
  <2> QED BY <1>3, <2>2, <2>3, <2>4, <2>5 DEF MQTT_Unsubscribe
<1>4. ASSUME NEW t \in Threads, ReadSocket(t) PROVE FilterRight(f)'
  <2>1. /\ caller[t].pc = "read" /\ UNCHANGED <<refs, session, sock, worker, todo, served, raced>>
        /\ \A u \in Threads : u # t => caller'[u] = caller[u]
        /\ caller'[t] = IF sock = 0 THEN AtRest ELSE [caller[t] EXCEPT !.pc = "send", !.fd = sock]
    BY <1>0, <1>4 DEF ReadSocket, table, link
  <2>2. FilterRight(f) BY <1>1, <2>1
  <2>3. CASE caller[t].f # f
    <3>1. ~Working(t, f) BY <2>3 DEF Working
    <3>2. caller'[t].pc = "idle" \/ caller'[t].f = caller[t].f
      BY <1>0, <2>1 DEF AtRest, Caller
    <3>3. \A u \in Threads : /\ Working(u, f)' <=> Working(u, f)
                             /\ Working(u, f) => caller'[u] = caller[u]
      BY <2>1, <2>3, <3>1, <3>2 DEF Working
    <3> QED BY <2>1, <2>2, <3>3, FilterSame
  <2>4. CASE caller[t].f = f
    <3>1. Working(t, f) /\ WorkRight(t, f) BY <2>1, <2>2, <2>4 DEF Working, FilterRight
    <3>2. \A u \in Threads : u # t => ~Working(u, f) /\ ~Working(u, f)'
      BY <2>1, <3>1 DEF WorkRight, Working
    <3>3. CASE sock = 0
      <4>1. \A u \in Threads : ~Working(u, f)'
        BY <2>1, <3>2, <3>3 DEF Working, AtRest
      <4>2. ~Up' BY <2>1, <3>3 DEF LinkRight, Up, LinkTypes
      <4> QED BY <4>1, <4>2 DEF FilterRight, WorkRight, ServedRight
    <3>4. CASE sock # 0
      <4>1. /\ caller'[t].pc = "send" /\ caller'[t].fd = sock /\ caller'[t].op = caller[t].op
            /\ caller'[t].f = f
        BY <1>0, <2>1, <2>4, <3>4 DEF Caller
      <4>2. Working(t, f)' BY <4>1 DEF Working
      <4>3. sock = session BY <3>4 DEF LinkRight
      <4>4. ASSUME NEW u \in Threads PROVE WorkRight(u, f)'
        BY <2>1, <3>1, <3>2, <4>1, <4>3 DEF WorkRight
      <4>5. ServedRight(f)' BY <2>1, <4>1, <4>2, <4>3 DEF ServedRight, Settled, Late
      <4> QED BY <4>4, <4>5 DEF FilterRight
    <3> QED BY <3>3, <3>4
  <2> QED BY <2>3, <2>4
<1>5. ASSUME NEW t \in Threads, SendSub(t) PROVE FilterRight(f)'
  <2>1. /\ caller[t].pc = "send" /\ UNCHANGED <<refs, session, sock, worker, todo, raced>>
        /\ \A u \in Threads : u # t => caller'[u] = caller[u]
        /\ caller'[t] = AtRest
        /\ served' = served \/ Arrives(caller[t].op, caller[t].f)
        /\ caller[t].fd = sock => Arrives(caller[t].op, caller[t].f)
    BY <1>0, <1>5 DEF SendSub, table, link
  <2>2. FilterRight(f) BY <1>1, <2>1
  <2>3. CASE caller[t].f # f
    <3>1. ~Working(t, f) BY <2>3 DEF Working
    <3>2. \A u \in Threads : /\ Working(u, f)' <=> Working(u, f)
                             /\ Working(u, f) => caller'[u] = caller[u]
      BY <2>1, <3>1 DEF Working, AtRest
    <3>3. f \in served' <=> f \in served BY <2>1, <2>3 DEF Arrives
    <3> QED BY <2>1, <2>2, <3>2, <3>3, FilterSame
  <2>4. CASE caller[t].f = f
    <3>1. Working(t, f) /\ WorkRight(t, f) BY <2>1, <2>2, <2>4 DEF Working, FilterRight
    <3>2. \A u \in Threads : ~Working(u, f)'
      BY <2>1, <3>1 DEF WorkRight, Working, AtRest
    <3>3. caller[t].op = IF refs[f] > 0 THEN "sub" ELSE "unsub" BY <3>1 DEF WorkRight
    <3>4. Arrives(caller[t].op, f) =>
            served' = IF refs[f] > 0 THEN served \cup {f} ELSE served \ {f}
      BY <3>3 DEF Arrives
    <3>5. CASE caller[t].fd = sock
      <4>1. f \in served' <=> refs'[f] > 0 BY <2>1, <2>4, <3>4, <3>5
      <4> QED BY <3>2, <4>1 DEF FilterRight, WorkRight, ServedRight
    <3>6. CASE caller[t].fd # sock
      <4> SUFFICES ASSUME Up'
                   PROVE  /\ f \in served' => refs'[f] > 0
                          /\ worker' # "locking" /\ refs'[f] > 0 => f \in served' \cup todo'
        BY <3>2 DEF FilterRight, WorkRight, ServedRight
      <4>1. Up /\ session = sock BY <2>1, <3>6 DEF Up, LinkRight
      <4>2. Settled(f) BY <2>1, <3>1, <3>6, <4>1 DEF Settled, Late, WorkRight
      <4>3. /\ f \in served => refs[f] > 0
            /\ worker # "locking" /\ refs[f] > 0 => f \in served \cup todo
        BY <2>2, <4>1, <4>2 DEF FilterRight, ServedRight
      <4> QED BY <2>1, <2>4, <3>4, <4>3
    <3> QED BY <3>5, <3>6
  <2> QED BY <2>3, <2>4
<1>6. CASE Connected
  <2>1. /\ UNCHANGED <<refs, caller>> /\ served' = {} /\ worker' = "locking"
        /\ raced' = {g \in raced : \E t \in Threads : Working(t, g)}
    BY <1>6 DEF Connected, table
  <2>2. \A t \in Threads : Working(t, f)' <=> Working(t, f) BY <2>1 DEF Working
  <2>3. \A t \in Threads : WorkRight(t, f)'
    <3>1. CASE f \in raced
      <4>1. \A t \in Threads : ~Working(t, f) BY <2>1, <3>1
      <4> QED BY <2>2, <4>1 DEF WorkRight
    <3>2. CASE f \notin raced
      <4>1. FilterRight(f) BY <3>2 DEF FiltersRight
      <4> QED BY <2>1, <2>2, <4>1 DEF FilterRight, WorkRight
    <3> QED BY <3>1, <3>2
  <2>4. ServedRight(f)' BY <2>1 DEF ServedRight
  <2> QED BY <2>3, <2>4 DEF FilterRight
<1>7. ASSUME UNCHANGED <<refs, caller, session, raced>>, Up' => Up,
             Up' => (f \in served' => refs[f] > 0 \/ f \in served),
             Up' /\ worker' # "locking" /\ refs[f] > 0 =>
               f \in served' \cup todo' \/ (worker # "locking" /\ f \notin served \cup todo)
      PROVE  FilterRight(f)'
  <2>1. FilterRight(f) BY <1>1, <1>7
  <2>2. Settled(f)' <=> Settled(f) BY <1>7 DEF Settled, Working, Late
  <2>3. \A t \in Threads : WorkRight(t, f)' BY <1>7, <2>1 DEF FilterRight, WorkRight, Working
  <2>4. ServedRight(f)' BY <1>7, <2>1, <2>2 DEF FilterRight, ServedRight
  <2> QED BY <2>3, <2>4 DEF FilterRight
<1>8. CASE LockTable
  BY <1>7, <1>8 DEF LockTable, table, Up, InTable
<1>9. CASE RestoreOne
  <2>1. PICK g \in todo : todo' = todo \ {g} /\ served' = served \cup {g}
    BY <1>9 DEF RestoreOne, Arrives
  <2>2. worker = "restore" /\ worker' = worker /\ UNCHANGED <<refs, caller, session, raced>>
    BY <1>9 DEF RestoreOne, table
  <2>3. g \in InTable BY <2>2 DEF FiltersRight
  <2>4. refs[g] > 0 BY <2>3 DEF InTable
  <2> QED BY <1>7, <2>1, <2>2, <2>4 DEF Up
<1>10. CASE Restored \/ Birth
  <2>1. /\ UNCHANGED <<refs, caller, session, raced, todo, served>> /\ Up
        /\ worker # "locking"
    BY <1>10 DEF Restored, Birth, table, Up
  <2> QED BY <1>7, <2>1
<1>11. CASE Disconnected \/ Clear
  BY <1>7, <1>11 DEF Disconnected, Clear, table, Up
<1>12. CASE \/ MQTT_Publish_Binary \/ BrokerTakes \/ UNCHANGED vars
            \/ \E due \in SUBSET Slots : inflight_retransmit(due)
            \/ \E p \in Pids : inflight_ack(p)
  <2>1. UNCHANGED <<refs, caller, session, raced, todo, served, worker>>
    BY <1>12 DEF MQTT_Publish_Binary, BrokerTakes, inflight_retransmit, inflight_ack, table,
                 link, vars
  <2> QED BY <1>7, <2>1 DEF Up
<1> QED BY <1>2, <1>3, <1>4, <1>5, <1>6, <1>8, <1>9, <1>10, <1>11, <1>12 DEF Next

\* What is left to restore is in the table.
LEMMA RestoreStep ==
  ASSUME TableTypes, LinkTypes, FiltersRight, [Next]_vars
  PROVE  /\ worker' = "restore" => todo' \subseteq InTable'
         /\ worker' \in {"callback", "receive"} => todo' = {}
<1>1. ASSUME UNCHANGED <<worker, todo>>, worker = "restore" => refs' = refs
      PROVE  /\ worker' = "restore" => todo' \subseteq InTable'
             /\ worker' \in {"callback", "receive"} => todo' = {}
  BY <1>1 DEF FiltersRight, InTable
<1>2. CASE LockTable BY <1>2 DEF LockTable, InTable, table
<1>3. CASE RestoreOne
  <2>1. worker' = "restore" /\ worker = "restore" /\ refs' = refs /\ todo' \subseteq todo
    BY <1>3 DEF RestoreOne, table
  <2> QED BY <2>1 DEF FiltersRight, InTable
<1>4. CASE Connected \/ Disconnected \/ Clear BY <1>4 DEF Connected, Disconnected, Clear
<1>5. CASE Restored \/ Birth BY <1>5 DEF Restored, Birth, FiltersRight
<1>6. CASE \/ \E o \in Owners, f \in Filters : MQTT_Subscribe(o, f)
           \/ \E o \in Owners : MQTT_Unsubscribe(o)
           \/ \E t \in Threads : ReadSocket(t) \/ SendSub(t)
           \/ MQTT_Publish_Binary \/ BrokerTakes \/ UNCHANGED vars
           \/ \E due \in SUBSET Slots : inflight_retransmit(due)
           \/ \E p \in Pids : inflight_ack(p)
  <2>1. UNCHANGED <<worker, todo>> /\ (worker = "restore" => refs' = refs)
    BY <1>6 DEF MQTT_Subscribe, MQTT_Unsubscribe, TableFree, ReadSocket, SendSub,
                MQTT_Publish_Binary, BrokerTakes, inflight_retransmit, inflight_ack, table,
                link, vars
  <2> QED BY <1>1, <2>1
<1> QED BY <1>2, <1>3, <1>4, <1>5, <1>6 DEF Next

\* The owners a filter counts.
Holders(f) == {o \in Owners \ refused : holds[o] = f}
RefsRight  == /\ \A o \in refused : holds[o] # NoFilter
              /\ RefsCount

\* References stay counted.
LEMMA RefsStep ==
  ASSUME TableTypes, RefsRight, [Next]_vars
  PROVE  RefsRight'
<1>0. /\ refs \in [Filters -> Nat] /\ holds \in [Owners -> Filters \cup {NoFilter}]
      /\ \A f \in Filters : /\ f # NoFilter /\ IsFiniteSet(Holders(f))
                            /\ Cardinality(Holders(f)) \in Nat
  <2>1. \A f \in Filters : IsFiniteSet(Holders(f)) BY FS_Subset, TrafficParams DEF Holders
  <2> QED BY <2>1, FS_CardinalityType, TrafficParams DEF TableTypes
<1>1. /\ \A o \in refused : holds[o] # NoFilter
      /\ ~undone => \A f \in Filters : refs[f] = Cardinality(Holders(f))
  BY DEF RefsRight, RefsCount, Holders
<1>2. ASSUME \A o \in refused' : holds'[o] # NoFilter,
             ~undone' => \A f \in Filters : refs'[f] = Cardinality(Holders(f)')
      PROVE  RefsRight'
  BY <1>2 DEF RefsRight, RefsCount, Holders
<1>3. ASSUME UNCHANGED <<table, owned>> PROVE RefsRight'
  BY <1>3 DEF RefsRight, RefsCount, table, owned
<1>4. ASSUME NEW o \in Owners, NEW f \in Filters, MQTT_Subscribe(o, f) PROVE RefsRight'
  <2>1. holds[o] = NoFilter /\ undone' = undone /\ holds' = [holds EXCEPT ![o] = f]
    BY <1>4 DEF MQTT_Subscribe
  <2>2. o \notin refused BY <1>1, <2>1
  <2>3. \A p \in Owners : holds'[p] = IF p = o THEN f ELSE holds[p] BY <1>0, <2>1
  <2>4. CASE refused' = refused \cup {o} /\ refs' = refs
    <3>1. \A g \in Filters : Holders(g)' = Holders(g)
      BY <1>0, <2>1, <2>2, <2>3, <2>4 DEF Holders
    <3>2. \A p \in refused' : holds'[p] # NoFilter
      BY <1>0, <1>1, <2>3, <2>4 DEF TableTypes
    <3> QED BY <1>1, <1>2, <2>1, <2>4, <3>1, <3>2
  <2>5. CASE refused' = refused /\ refs' = [refs EXCEPT ![f] = refs[f] + 1]
    <3>1. \A g \in Filters \ {f} : Holders(g)' = Holders(g)
      BY <1>0, <2>1, <2>3, <2>5 DEF Holders
    <3>2. Holders(f)' = Holders(f) \cup {o} /\ o \notin Holders(f)
      BY <1>0, <2>1, <2>2, <2>3, <2>5 DEF Holders
    <3>3. Cardinality(Holders(f)') = Cardinality(Holders(f)) + 1
      BY <1>0, <3>2, FS_AddElement
    <3>4. \A g \in Filters : refs'[g] = IF g = f THEN refs[f] + 1 ELSE refs[g] BY <1>0, <2>5
    <3>5. \A p \in refused' : holds'[p] # NoFilter
      BY <1>0, <1>1, <2>3, <2>5 DEF TableTypes
    <3>6. ~undone' => \A g \in Filters : refs'[g] = Cardinality(Holders(g)')
      BY <1>1, <2>1, <3>1, <3>3, <3>4
    <3> QED BY <1>2, <3>5, <3>6
  <2>6. refs[f] = 0 /\ refs' = [refs EXCEPT ![f] = 1] => refs' = [refs EXCEPT ![f] = refs[f] + 1]
    OBVIOUS
  <2> QED BY <1>4, <2>4, <2>5, <2>6 DEF MQTT_Subscribe
<1>5. ASSUME NEW o \in Owners, MQTT_Unsubscribe(o) PROVE RefsRight'
  <2>1. /\ holds' = [holds EXCEPT ![o] = NoFilter] /\ refused' = refused \ {o}
        /\ undone' = (undone \/ o \in refused)
    BY <1>5 DEF MQTT_Unsubscribe
  <2> PICK f \in Filters : f = holds[o] BY <1>0, <1>5 DEF MQTT_Unsubscribe
  <2>2. \A p \in Owners : holds'[p] = IF p = o THEN NoFilter ELSE holds[p] BY <1>0, <2>1
  <2>3. \A p \in refused' : holds'[p] # NoFilter BY <1>1, <2>1, <2>2 DEF TableTypes
  <2>4. ASSUME ~undone' PROVE \A g \in Filters : refs'[g] = Cardinality(Holders(g)')
    <3>1. ~undone /\ o \notin refused BY <2>1, <2>4 DEF TableTypes
    <3>2. \A g \in Filters \ {f} : Holders(g)' = Holders(g)
      BY <1>0, <2>1, <2>2, <3>1 DEF Holders
    <3>3. Holders(f)' = Holders(f) \ {o} /\ o \in Holders(f)
      BY <1>0, <2>1, <2>2, <3>1 DEF Holders
    <3>4. Cardinality(Holders(f)') = Cardinality(Holders(f)) - 1 /\ refs[f] > 0
      <4>1. Cardinality(Holders(f)') = Cardinality(Holders(f)) - 1
        <5>1. IsFiniteSet(Holders(f)) BY <1>0
        <5>2. Cardinality(Holders(f) \ {o}) = Cardinality(Holders(f)) - 1
          BY <3>3, <5>1, FS_RemoveElement
        <5> QED BY <3>3, <5>2
      <4>2. Cardinality(Holders(f)) # 0 BY <1>0, <3>3, FS_EmptySet
      <4> QED BY <1>0, <1>1, <3>1, <4>1, <4>2
    <3>5. refs' = [refs EXCEPT ![f] = refs[f] - 1]
      <4>1. LastOwner(f) => refs[f] - 1 = 0 BY DEF LastOwner
      <4> QED BY <1>5, <3>4, <4>1 DEF MQTT_Unsubscribe
    <3>6. \A g \in Filters : refs'[g] = IF g = f THEN refs[f] - 1 ELSE refs[g] BY <1>0, <3>5
    <3> QED BY <1>1, <3>1, <3>2, <3>4, <3>6
  <2> QED BY <1>2, <2>3, <2>4
<1>6. CASE \/ \E t \in Threads : ReadSocket(t) \/ SendSub(t)
           \/ MQTT_Publish_Binary \/ BrokerTakes \/ Connected \/ LockTable \/ RestoreOne
           \/ Restored \/ Birth \/ Disconnected \/ Clear \/ UNCHANGED vars
           \/ \E due \in SUBSET Slots : inflight_retransmit(due)
           \/ \E p \in Pids : inflight_ack(p)
  <2>1. UNCHANGED <<table, owned>>
    BY <1>6 DEF ReadSocket, SendSub, MQTT_Publish_Binary, BrokerTakes, Connected, LockTable,
                RestoreOne, Restored, Birth, Disconnected, Clear, inflight_retransmit,
                inflight_ack, vars
  <2> QED BY <1>3, <2>1
<1> QED BY <1>4, <1>5, <1>6 DEF Next

\* The broker serves the filters that some owner wants, once the worker receives and no thread
\* is inside a call, whatever sessions came and went meanwhile; but for a filter two threads
\* worked on at once, and after an owner the full table turned away has released another's
\* (MQTT_Subscribe, MQTT_Unsubscribe, do_subscribe_all).
THEOREM Serves == Spec => []OwnersServed
<1>1. Init => LinkRight /\ FiltersRight /\ RefsRight
  <2> SUFFICES ASSUME Init PROVE LinkRight /\ FiltersRight /\ RefsRight OBVIOUS
  <2>1. \A t \in Threads, f \in Filters : ~Working(t, f) BY DEF Init, Working, AtRest
  <2>2. ~Up /\ LinkRight BY DEF Init, Up, LinkRight
  <2>3. FiltersRight
    BY <2>1, <2>2 DEF FiltersRight, FilterRight, WorkRight, ServedRight, Init
  <2>4. ASSUME NEW f \in Filters PROVE Cardinality({o \in Owners \ refused : holds[o] = f}) = 0
    <3>1. {o \in Owners \ refused : holds[o] = f} = {} BY TrafficParams DEF Init
    <3> QED BY <3>1, FS_EmptySet
  <2>5. RefsRight BY <2>4 DEF Init, RefsRight, RefsCount
  <2> QED BY <2>2, <2>3, <2>5
<1>2. /\ TableTypes /\ LinkTypes /\ LinkRight /\ FiltersRight /\ RefsRight /\ [Next]_vars
      => LinkRight' /\ FiltersRight' /\ RefsRight'
  <2> SUFFICES ASSUME TableTypes, LinkTypes, LinkRight, FiltersRight, RefsRight, [Next]_vars
               PROVE  LinkRight' /\ FiltersRight' /\ RefsRight'
    OBVIOUS
  <2>1. \A f \in Filters \ raced' : FilterRight(f)' BY FilterStep
  <2>2. FiltersRight' BY <2>1, RestoreStep DEF FiltersRight
  <2> QED BY <2>2, LinkStep, RefsStep
<1>3. FiltersRight /\ RefsRight => OwnersServed
  <2> SUFFICES ASSUME FiltersRight, worker = "receive", \A t \in Threads : caller[t].pc = "idle",
                      NEW f \in Filters \ raced
               PROVE  f \in served <=> refs[f] > 0
    BY DEF OwnersServed, SubsServed, RefsRight
  <2>1. Settled(f) /\ Up BY DEF Settled, Working, Up
  <2> QED BY <2>1 DEF FiltersRight, FilterRight, ServedRight
<1> QED BY <1>1, <1>2, <1>3, TypesHold, PTL DEF Spec
==============================================================================
