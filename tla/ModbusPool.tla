------------------------------ MODULE ModbusPool ------------------------------
(***************************************************************************)
(* Modbus connections, src/app/engine/modbus_pool.c: a pool of POOL_MAX    *)
(* connections, one per target and never given up, shared by the main loop *)
(* (register polls and writes of rules) and the FastCGI thread (writes of  *)
(* rules fired by webhooks and tests).  A request holds the pool's mutex   *)
(* from connecting to the answer or the timeout; a caller whose request    *)
(* failed takes the mutex again to drop the connection                     *)
(* (modbus_pool_invalidate).                                               *)
(*                                                                         *)
(* An answer is whatever arrives next: no transport compares transaction   *)
(* ids, only a serial port discards what is there before it sends.         *)
(* Answers are [thread, n]: the n-th request of a thread.                  *)
(***************************************************************************)
EXTENDS Integers, Sequences, FiniteSets

CONSTANTS Targets,            \* connection keys
          Transport,          \* key -> "tcp", "sgw" or "rtu"
          POOL_MAX,
          MaxRequests         \* bound per thread

ASSUME PoolParams == POOL_MAX \in Nat /\ MaxRequests \in Nat

VARIABLES
  pool,        \* the slots in use: [key, connected]
  wire,        \* slot -> requests the device has not answered yet
  inbox,       \* slot -> answers that wait in the socket
  mutex,       \* the thread that holds pool_mutex, or "free"
  mb,          \* thread -> [at, slot, kind] of its current call
  asked        \* thread -> requests so far

mbVars == <<pool, wire, inbox, mutex, mb, asked>>

MbThreads == {"main", "http"}
MbQuiet == [at |-> "idle", slot |-> 0, kind |-> "read"]

MbInit ==
  /\ pool = <<>>
  /\ wire = <<>> /\ inbox = <<>>
  /\ mutex = "free"
  /\ mb = [t \in MbThreads |-> MbQuiet]
  /\ asked = [t \in MbThreads |-> 0]

SlotOf(key) == {i \in 1..Len(pool) : pool[i].key = key}

\* The slot of the key, or a new one; NULL if the pool is full.
modbus_pool_get(t, key, kind) ==
  /\ mb[t].at = "idle" /\ mutex = "free"
  /\ asked[t] < MaxRequests
  /\ \/ /\ SlotOf(key) # {}
        /\ mb' = [mb EXCEPT ![t] =
             [at |-> "got", slot |-> CHOOSE i \in SlotOf(key) : TRUE, kind |-> kind]]
        /\ UNCHANGED <<pool, wire, inbox>>
     \/ /\ SlotOf(key) = {} /\ Len(pool) < POOL_MAX
        /\ pool' = Append(pool, [key |-> key, connected |-> FALSE])
        /\ wire' = Append(wire, <<>>) /\ inbox' = Append(inbox, <<>>)
        /\ mb' = [mb EXCEPT ![t] = [at |-> "got", slot |-> Len(pool) + 1, kind |-> kind]]
  /\ UNCHANGED <<mutex, asked>>

\* rtu_request discards what is there before it sends; the others do not.
Flushed(s) == IF Transport[pool[s].key] = "rtu" THEN <<>> ELSE inbox[s]

\* ensure_connected, and the request goes out.  A call that cannot connect fails.
MbSend(t) ==
  LET s == mb[t].slot
      n == asked[t] + 1
      mine == [thread |-> t, n |-> n]
  IN /\ mb[t].at = "got" /\ mutex = "free"
     /\ asked' = [asked EXCEPT ![t] = n]
     /\ \/ /\ mutex' = t
           /\ mb' = [mb EXCEPT ![t].at = "sent"]
           /\ pool' = [pool EXCEPT ![s].connected = TRUE]
           /\ wire' = [wire EXCEPT ![s] = Append(@, mine)]
           /\ inbox' = [inbox EXCEPT ![s] = Flushed(s)]
        \/ /\ ~pool[s].connected
           /\ mb' = [mb EXCEPT ![t].at = "failed"]
           /\ UNCHANGED <<mutex, pool, wire, inbox>>

\* The device answers the oldest request, sooner or later.
DeviceAnswers(s) ==
  /\ wire[s] # <<>>
  /\ inbox' = [inbox EXCEPT ![s] = Append(@, Head(wire[s]))]
  /\ wire' = [wire EXCEPT ![s] = Tail(@)]
  /\ UNCHANGED <<pool, mutex, mb, asked>>

\* The device ignores it.
DeviceSilent(s) ==
  /\ wire[s] # <<>>
  /\ wire' = [wire EXCEPT ![s] = Tail(@)]
  /\ UNCHANGED <<pool, inbox, mutex, mb, asked>>

\* tcp_request, sgw_request, rtu_request take the next answer.  A read fails on a Modbus
\* exception; a write does not look (mb_write_register, mb_write_bit).
MbReceive(t) ==
  LET s == mb[t].slot
  IN /\ mb[t].at = "sent" /\ inbox[s] # <<>>
     /\ inbox' = [inbox EXCEPT ![s] = Tail(@)]
     /\ mutex' = "free"
     /\ \/ mb[t].kind = "read" /\ mb' = [mb EXCEPT ![t].at = "failed"]
        \/ mb' = [mb EXCEPT ![t] = MbQuiet]
     /\ UNCHANGED <<pool, wire, asked>>

\* Nothing arrives in time, the peer has closed, or the frame is damaged.
MbTimeout(t) ==
  /\ mb[t].at = "sent"
  /\ mb' = [mb EXCEPT ![t].at = "failed"]
  /\ mutex' = "free"
  /\ UNCHANGED <<pool, wire, inbox, asked>>

\* Mutant: the context is marked, its socket stays open.
InvalidateMark(t) ==
  /\ mb[t].at = "failed" /\ mutex = "free"
  /\ pool' = [pool EXCEPT ![mb[t].slot].connected = TRUE]
  /\ mb' = [mb EXCEPT ![t] = MbQuiet]
  /\ UNCHANGED <<wire, inbox, mutex, asked>>

\* Answers to what was sent on the old connection are lost with it.
modbus_pool_invalidate(t) ==
  /\ mb[t].at = "failed" /\ mutex = "free"
  /\ pool' = [pool EXCEPT ![mb[t].slot].connected = FALSE]
  /\ wire' = [wire EXCEPT ![mb[t].slot] = <<>>]
  /\ inbox' = [inbox EXCEPT ![mb[t].slot] = <<>>]
  /\ mb' = [mb EXCEPT ![t] = MbQuiet]
  /\ UNCHANGED <<mutex, asked>>

MbNext ==
  \/ \E t \in MbThreads :
       \/ \E key \in Targets, kind \in {"read", "write"} : modbus_pool_get(t, key, kind)
       \/ MbSend(t) \/ MbReceive(t) \/ MbTimeout(t) \/ modbus_pool_invalidate(t)
  \/ \E s \in 1..Len(pool) : DeviceAnswers(s) \/ DeviceSilent(s)

MbSpec == MbInit /\ [][MbNext]_mbVars

(***************************************************************************)
(* Properties.                                                             *)
(***************************************************************************)

Failing(s) == \E t \in MbThreads : mb[t].at = "failed" /\ mb[t].slot = s
Owed(s)    == {wire[s][k] : k \in 1..Len(wire[s])} \cup {inbox[s][k] : k \in 1..Len(inbox[s])}

\* On a connection that no failed call is about to drop, the only answer under way is that
\* of the request being made: no late answer is left for the next request to take as its
\* own (every failed call is followed by modbus_pool_invalidate).
AlignedUnlessFailing ==
  \A s \in 1..Len(pool) :
    \/ Failing(s)
    \/ \A a \in Owed(s) : mb[a.thread] = [mb[a.thread] EXCEPT !.at = "sent", !.slot = s]
                          /\ a.n = asked[a.thread]
=============================================================================
