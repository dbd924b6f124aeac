----------------------------- MODULE MqttSession -----------------------------
(***************************************************************************)
(* The connection life of the MQTT client, src/app/engine/mqtt_client.c:   *)
(* worker_fn (copy the settings, pick a broker, connect, shake hands,      *)
(* receive, fail over, back off, stop), MQTT_Reconfigure, the requests for *)
(* a reconnect and MQTT_Cleanup.                                           *)
(*                                                                         *)
(* The worker thread works on a private copy of the settings.  Other       *)
(* threads change the settings under cfg_lock and, after the unlock, write *)
(* a byte to the wake pipe; the worker empties the pipe in three places.   *)
(* The lengths of sleeps and back-offs are left out: a sleep just ends.    *)
(***************************************************************************)
EXTENDS Naturals

CONSTANTS
  MaxServers,  \* MQTT_MAX_SERVERS
  MaxChanges,  \* bound: changes of the settings
  MaxFlaps,    \* bound: changes of a broker's state
  MaxLosses    \* bound: connections lost

ASSUME SessionParams ==
  /\ MaxServers \in Nat \ {0}
  /\ MaxChanges \in Nat /\ MaxFlaps \in Nat /\ MaxLosses \in Nat

Brokers == 0 .. (MaxServers - 1)

\* Settings: which version of the brokers, the login and the TLS choice;
\* cfg.keepalive, as a version of its own; cfg.enabled; cfg.server_count.
Config == [ver : Nat, keepalive : Nat, on : BOOLEAN, n : 1 .. MaxServers]

VARIABLES
  cfg,          \* the settings
  server_index, \* the broker to try next
  wake,         \* the wake pipe is not empty
  setter,       \* MQTT_Reconfigure: "idle", or "waking" between unlock and write
  stop,         \* MQTT_Cleanup has written to the shutdown pipe
  pc,           \* where the worker is
  active,       \* the worker's copy of the settings
  idx,          \* the broker the worker is trying or using
  seen,         \* server_index as the unlocked handshake-failure path read it
  connected,    \* the connected flag
  broker,       \* each broker: "down", "refusing" (TCP only) or "up"
  flaps, losses,
  fresh,        \* history: what the copy of the settings brought, see News
  busy,         \* history: the last restarting change came during an attempt
  drained       \* history: the wake byte of that change was thrown away

sessionWorker == <<pc, active, idx, seen, connected>>
shared == <<cfg, server_index, wake, setter, stop>>
env    == <<broker, flaps, losses>>
hist   == <<fresh, busy, drained>>
sessionVars   == <<sessionWorker, shared, env, hist>>

\* From the copy of the settings to the end of the connection attempt.
Attempting == {"pick", "drain", "connect", "hello", "bump"}

\* The settings the worker works with are the current ones but for the keepalive.
OnlyKeepalive == active.keepalive # cfg.keepalive /\ active.ver = cfg.ver

\* What a copy of the settings brings the worker.
News == IF active.ver # cfg.ver THEN "settings"
        ELSE IF OnlyKeepalive THEN "keepalive" ELSE "nothing"

(***************************************************************************)
(* The worker.                                                             *)
(***************************************************************************)

\* Mutant: a pass of the loop may begin without a look at the shutdown pipe.
CopyConfigUnguarded ==
  /\ pc = "top"
  /\ active' = cfg
  /\ fresh' = News
  /\ drained' = FALSE
  /\ pc' = IF cfg.on THEN "pick" ELSE "wait"
  /\ UNCHANGED <<idx, seen, connected, shared, env, busy>>

\* Top of the loop: the shutdown pipe first, then the private copy.
CopyConfig ==
  /\ pc = "top" /\ ~stop
  /\ active' = cfg
  /\ fresh' = News
  /\ drained' = FALSE
  /\ pc' = IF cfg.on THEN "pick" ELSE "wait"
  /\ UNCHANGED <<idx, seen, connected, shared, env, busy>>

StopAtTop ==
  /\ pc = "top" /\ stop
  /\ pc' = "stopped"
  /\ UNCHANGED <<active, idx, seen, connected, shared, env, hist>>

\* Mutant: a list that became shorter is not noticed.
Unclamped == server_index

\* The index to use: the list may have become shorter.
Clamped == IF server_index >= active.n THEN 0 ELSE server_index

PickBroker ==
  /\ pc = "pick"
  /\ idx' = Clamped
  /\ server_index' = Clamped
  /\ pc' = "drain"
  /\ UNCHANGED <<active, seen, connected, cfg, wake, setter, stop, env, hist>>

\* "ignore reconnect requests made while offline".
DrainWake ==
  /\ pc = "drain"
  /\ wake' = FALSE
  /\ drained' = (wake /\ active.ver # cfg.ver)
  /\ pc' = "connect"
  /\ UNCHANGED <<active, idx, seen, connected, cfg, server_index, setter, stop,
                 env, fresh, busy>>

\* Mutant: fail-over goes back and forth between the first two brokers.
NextOfTwo(i) == IF i = 0 /\ active.n > 1 THEN 1 ELSE 0

\* Mutant: the end of the list does not wrap.
NextNoWrap(i) == i + 1

\* The broker after i in the list.
NextServer(i) == (i + 1) % active.n

\* tcp_connect or tls_connect fails: next_server, then an interruptible wait.
ConnectFails ==
  /\ pc = "connect" /\ broker[idx] = "down"
  /\ server_index' = IF active.n <= 1 THEN server_index ELSE NextServer(server_index)
  /\ pc' = "wait"
  /\ UNCHANGED <<active, idx, seen, connected, cfg, wake, setter, stop, env, hist>>

ConnectWorks ==
  /\ pc = "connect" /\ broker[idx] # "down"
  /\ pc' = "hello"
  /\ UNCHANGED <<active, idx, seen, connected, shared, env, hist>>

\* CONNECT / CONNACK fails: server_index is read and written without cfg_lock,
\* and the sleep that follows cannot be woken.
HandshakeFails ==
  /\ pc = "hello" /\ broker[idx] # "up"
  /\ seen' = server_index
  /\ pc' = "bump"
  /\ UNCHANGED <<active, idx, connected, shared, env, hist>>

HandshakeBumps ==
  /\ pc = "bump"
  /\ server_index' = NextServer(seen)
  /\ seen' = 0  \* out of scope
  /\ pc' = "sleep"
  /\ UNCHANGED <<active, idx, connected, cfg, wake, setter, stop, env, hist>>

HandshakeWorks ==
  /\ pc = "hello" /\ broker[idx] = "up"
  /\ connected' = TRUE
  /\ pc' = "recv"
  /\ UNCHANGED <<active, idx, seen, shared, env, hist>>

\* wait_before_retry: time is up, or the wake or the shutdown pipe has data; the
\* wake pipe is emptied.
WaitEnds ==
  /\ pc = "wait"
  /\ wake' = FALSE
  /\ pc' = "top"
  /\ UNCHANGED <<active, idx, seen, connected, cfg, server_index, setter, stop,
                 env, hist>>

SleepEnds ==
  /\ pc = "sleep"
  /\ pc' = "top"
  /\ UNCHANGED <<active, idx, seen, connected, shared, env, hist>>

\* The receive loop ends: on shutdown, on a reconnect request (no back-off), or
\* because the connection is lost.
RecvStop ==
  /\ pc = "recv" /\ stop
  /\ connected' = FALSE
  /\ pc' = "stopped"
  /\ UNCHANGED <<active, idx, seen, shared, env, hist>>

RecvWake ==
  /\ pc = "recv" /\ ~stop /\ wake
  /\ wake' = FALSE
  /\ connected' = FALSE
  /\ pc' = "top"
  /\ UNCHANGED <<active, idx, seen, cfg, server_index, setter, stop, env, hist>>

RecvLost ==
  /\ pc = "recv" /\ ~stop /\ ~wake
  /\ losses < MaxLosses
  /\ losses' = losses + 1
  /\ connected' = FALSE
  /\ pc' = "sleep"
  /\ UNCHANGED <<active, idx, seen, shared, broker, flaps, hist>>

(***************************************************************************)
(* The other threads and the brokers.                                      *)
(***************************************************************************)

\* Mutant: a change of settings does not go back to the primary.
IndexKept == server_index

\* "always come back to the primary broker".
IndexReset == 0

\* MQTT_Reconfigure, under cfg_lock, with settings of which the broker, the
\* login, the list or cfg.enabled differs.
Reconfigure(on, n) ==
  /\ setter = "idle" /\ cfg.ver <= MaxChanges
  /\ cfg' = [ver |-> cfg.ver + 1, keepalive |-> cfg.keepalive, on |-> on, n |-> n]
  /\ server_index' = IndexReset
  /\ setter' = "waking"
  /\ busy' = (pc \in Attempting)
  /\ UNCHANGED <<sessionWorker, wake, stop, env, fresh, drained>>

\* MQTT_Reconfigure with settings that differ in the keepalive alone: copied, but
\* no reset of the index and no reconnect request ("restart" is 0).
ReconfigureKeepalive ==
  /\ setter = "idle" /\ cfg.keepalive < MaxChanges
  /\ cfg' = [cfg EXCEPT !.keepalive = cfg.keepalive + 1]
  /\ UNCHANGED <<sessionWorker, server_index, wake, setter, stop, env, hist>>

\* Mutant: only a connected worker is woken.
WakesConnected == wake \/ connected

\* request_reconnect at the end of MQTT_Reconfigure.
Wakes == TRUE

ReconfigureWakes ==
  /\ setter = "waking"
  /\ wake' = Wakes
  /\ setter' = "idle"
  /\ UNCHANGED <<sessionWorker, cfg, server_index, stop, env, hist>>

\* MQTT_Force_Reconnect and MQTT_Set_Proxy with a new proxy.
Force_Reconnect ==
  /\ connected /\ ~wake
  /\ wake' = TRUE
  /\ UNCHANGED <<sessionWorker, cfg, server_index, setter, stop, env, hist>>

\* MQTT_Cleanup: one byte into the shutdown pipe, then pthread_join.
MQTT_Cleanup ==
  /\ ~stop
  /\ stop' = TRUE
  /\ UNCHANGED <<sessionWorker, cfg, server_index, wake, setter, env, hist>>

BrokerChanges(b, s) ==
  /\ flaps < MaxFlaps /\ broker[b] # s
  /\ broker' = [broker EXCEPT ![b] = s]
  /\ flaps' = flaps + 1
  /\ UNCHANGED <<sessionWorker, shared, losses, hist>>

SessionInit ==
  /\ cfg \in [ver : {1}, keepalive : {0}, on : BOOLEAN, n : 1 .. MaxServers]
  /\ server_index = 0 /\ wake = FALSE /\ setter = "idle" /\ stop = FALSE
  /\ pc = "top" /\ active = [ver |-> 0, keepalive |-> 0, on |-> FALSE, n |-> 1]
  /\ idx = 0 /\ seen = 0 /\ connected = FALSE
  /\ broker \in [Brokers -> {"down", "refusing", "up"}] /\ flaps = 0 /\ losses = 0
  /\ fresh = "nothing" /\ busy = FALSE /\ drained = FALSE

WorkerStep ==
  \/ CopyConfig
  \/ StopAtTop
  \/ PickBroker
  \/ DrainWake
  \/ ConnectFails
  \/ ConnectWorks
  \/ HandshakeFails
  \/ HandshakeBumps
  \/ HandshakeWorks
  \/ WaitEnds
  \/ SleepEnds
  \/ RecvStop
  \/ RecvWake

SessionNext ==
  \/ WorkerStep
  \/ RecvLost
  \/ \E on \in BOOLEAN, n \in 1 .. MaxServers : Reconfigure(on, n)
  \/ ReconfigureKeepalive
  \/ ReconfigureWakes
  \/ Force_Reconnect
  \/ MQTT_Cleanup
  \/ \E b \in Brokers, s \in {"down", "refusing", "up"} : BrokerChanges(b, s)

SessionSpec == SessionInit /\ [][SessionNext]_sessionVars

\* The worker and a thread inside MQTT_Reconfigure keep running: every wait of
\* theirs has a timeout.  Nothing is assumed about the brokers or the settings.
FairSpec == SessionSpec /\ WF_sessionVars(WorkerStep) /\ WF_sessionVars(ReconfigureWakes)

(***************************************************************************)
(* Properties.                                                             *)
(***************************************************************************)

\* Types; all indexes stay inside cfg.servers[MQTT_MAX_SERVERS].
SessionTypes ==
  /\ cfg \in Config /\ active \in Config
  /\ server_index \in Brokers /\ idx \in Brokers /\ seen \in Brokers
  /\ wake \in BOOLEAN /\ stop \in BOOLEAN /\ connected \in BOOLEAN
  /\ setter \in {"idle", "waking"}
  /\ pc \in {"top", "wait", "sleep", "recv", "stopped"} \cup Attempting
  /\ broker \in [Brokers -> {"down", "refusing", "up"}]
  /\ flaps \in Nat /\ losses \in Nat
  /\ fresh \in {"nothing", "keepalive", "settings"}
  /\ busy \in BOOLEAN /\ drained \in BOOLEAN

\* The worker never reads past the list it copied, although server_index is
\* shared, is written without the lock in one place, and the list may shrink at
\* any moment (mqtt_client.c:747, 802).
IndexInRange ==
  pc \in {"drain", "connect", "hello", "bump", "recv"} => idx < active.n

\* A worker that is connected with superseded settings has a wake byte on its
\* way, unless it threw that byte away before it connected (mqtt_client.c:773), or
\* nothing but the keepalive differs, for which none is written (mqtt_client.c:1011):
\* no other path of the worker, and no other change, loses a reconnect request.
StaleOnlyIfDrained ==
  pc = "recv" /\ active # cfg => \/ wake \/ setter = "waking"
                                \/ drained \/ OnlyKeepalive

\* README "A settings change always restarts from the primary": the first attempt
\* with new settings goes to broker 0, unless they changed while an attempt was under
\* way, whose failure then moves the index on (mqtt_client.c:687, 802, 1012), or
\* nothing but the keepalive is new, which the sentence does not except and
\* MQTT_Reconfigure does (mqtt_client.c:1011).
PrimaryFirstUnlessBusy ==
  pc = "drain" /\ fresh # "nothing" => \/ idx = 0
                                      \/ busy \/ fresh = "keepalive"

\* The broker an attempt goes to is one of the list, and the primary where promised.
BrokerRight == IndexInRange /\ PrimaryFirstUnlessBusy

\* Fail-over: once the client stays enabled and some broker of the list stays
\* up, the worker gets connected, whatever the others do (mqtt_client.c:687,
\* 802, README "Redundant brokers").
FailOver ==
  <>[](cfg.on /\ ~stop /\ \E b \in 0 .. (cfg.n - 1) : broker[b] = "up")
    => []<>connected

\* MQTT_Cleanup joins the worker: it must stop from wherever it is
\* (mqtt_client.c:728, 703, 838).
StopEnds == stop ~> pc = "stopped"
=============================================================================
