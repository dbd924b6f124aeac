------------------------------ MODULE AlertStream ------------------------------
(***************************************************************************)
(* The alert stream, src/app/engine/alert_stream.c: an accept thread that  *)
(* gives every connection a slot and a thread of its own, and broadcasts   *)
(* of rule firings that leave the newest event in each active slot and     *)
(* wake the threads with one condition variable.  A section under          *)
(* clients_lock is one step: nothing in one of them blocks.                *)
(*                                                                         *)
(* Connections are numbers, events are numbered in the order of their      *)
(* broadcasts.  A send to a peer that does not read blocks; one to a peer  *)
(* that is gone may succeed or fail.                                       *)
(***************************************************************************)
EXTENDS Integers, Sequences, FiniteSets

CONSTANTS Peers,                 \* connections that may come in
          MAX_STREAM_CLIENTS,
          MaxEvents              \* bound

ASSUME StreamParams == /\ Peers \subseteq Nat \ {0}
                       /\ MAX_STREAM_CLIENTS \in Nat \ {0}
                       /\ MaxEvents \in Nat

VARIABLES
  clients,      \* slot -> [active, fd, pending_json]; no event is 0
  streamer,     \* slot -> where its thread is: "none", "greet", "check", "waiting", "send", "leave"
  sending,      \* slot -> the event its thread has taken
  acceptor,     \* [at, fd, slot] of the accept thread
  backlog,      \* connections that wait for accept()
  peer,         \* connection -> "new", "open", "asked", "stalled", "gone" (or closed)
  got,          \* connection -> events it was sent while it listened
  events,       \* broadcasts so far
  due,          \* history: connection -> newest event broadcast while it had a slot
  since         \* history: connection -> events when it was given its slot

asVars == <<clients, streamer, sending, acceptor, backlog, peer, got, events, due, since>>

StreamSlots == 0..MAX_STREAM_CLIENTS - 1
FreeSlot    == [active |-> FALSE, fd |-> 0, pending_json |-> 0]
Waiting     == [at |-> "accept", fd |-> 0, slot |-> 0]

\* AlertStream_Init with a socket it can bind.
AsInit ==
  /\ clients = [s \in StreamSlots |-> FreeSlot]
  /\ streamer = [s \in StreamSlots |-> "none"]
  /\ sending = [s \in StreamSlots |-> 0]
  /\ acceptor = Waiting
  /\ backlog = <<>>
  /\ peer = [k \in Peers |-> "new"]
  /\ got = [k \in Peers |-> <<>>]
  /\ events = 0
  /\ due = [k \in Peers |-> 0]
  /\ since = [k \in Peers |-> 0]

(***************************************************************************)
(* The peers, behind the reverse proxy.                                    *)
(***************************************************************************)

\* Connections are numbered in the order they come.
PeerConnects(k) ==
  /\ peer[k] = "new" /\ acceptor.at # "ended"
  /\ \A j \in Peers : j < k => peer[j] # "new"
  /\ peer' = [peer EXCEPT ![k] = "open"]
  /\ backlog' = Append(backlog, k)
  /\ UNCHANGED <<clients, streamer, sending, acceptor, got, events, due, since>>

\* Sends its request, stops reading, reads again, hangs up.
PeerMoves(k) ==
  /\ \/ peer[k] = "open"    /\ peer' = [peer EXCEPT ![k] = "asked"]
     \/ peer[k] = "asked"   /\ peer' = [peer EXCEPT ![k] = "stalled"]
     \/ peer[k] = "stalled" /\ peer' = [peer EXCEPT ![k] = "asked"]
     \/ peer[k] \in {"open", "asked", "stalled"} /\ peer' = [peer EXCEPT ![k] = "gone"]
  /\ UNCHANGED <<clients, streamer, sending, acceptor, backlog, got, events, due, since>>

(***************************************************************************)
(* accept_thread_fn.                                                       *)
(***************************************************************************)

AcceptConnection ==
  /\ acceptor.at = "accept" /\ backlog # <<>>
  /\ acceptor' = [acceptor EXCEPT !.at = "drain", !.fd = Head(backlog)]
  /\ backlog' = Tail(backlog)
  /\ UNCHANGED <<clients, streamer, sending, peer, got, events, due, since>>

\* Mutant: a slot is reused as its last client left it.
OccupyAsIs(old, k) == [old EXCEPT !.active = TRUE, !.fd = k]

Occupy(old, k) == [active |-> TRUE, fd |-> k, pending_json |-> 0]

\* The request is read up to its end, or to the peer's; a peer that does neither holds the
\* thread here.  Then the first free slot, or 503.
AdmitConnection ==
  LET k    == acceptor.fd
      free == {s \in StreamSlots : ~clients[s].active}
      slot == CHOOSE s \in free : \A r \in free : s <= r
  IN /\ acceptor.at = "drain" /\ peer[k] # "open"
     /\ \/ /\ free = {}
           /\ peer' = [peer EXCEPT ![k] = "gone"]
           /\ acceptor' = Waiting
           /\ UNCHANGED <<clients, since>>
        \/ /\ free # {}
           /\ clients' = [clients EXCEPT ![slot] = Occupy(@, k)]
           /\ since' = [since EXCEPT ![k] = events]
           /\ acceptor' = [at |-> "create", fd |-> k, slot |-> slot]
           /\ peer' = peer
     /\ UNCHANGED <<streamer, sending, backlog, got, events, due>>

CreateThread ==
  /\ acceptor.at = "create"
  /\ \/ /\ streamer' = [streamer EXCEPT ![acceptor.slot] = "greet"]
        /\ acceptor' = Waiting
        /\ peer' = peer
     \/ /\ peer' = [peer EXCEPT ![acceptor.fd] = "gone"]
        /\ acceptor' = [acceptor EXCEPT !.at = "undo"]
        /\ streamer' = streamer
  /\ UNCHANGED <<clients, sending, backlog, got, events, due, since>>

\* pthread_create has failed: the slot is free again, an event broadcast meanwhile stays.
GiveUpSlot ==
  /\ acceptor.at = "undo"
  /\ clients' = [clients EXCEPT ![acceptor.slot].active = FALSE, ![acceptor.slot].fd = 0]
  /\ acceptor' = Waiting
  /\ UNCHANGED <<streamer, sending, backlog, peer, got, events, due, since>>

AcceptThread == AcceptConnection \/ AdmitConnection \/ CreateThread \/ GiveUpSlot

(***************************************************************************)
(* client_thread_fn.                                                       *)
(***************************************************************************)

\* Whether a send on the socket returns, and how; Cleanup may have closed it (0).
SendWorks(k) == k # 0 /\ peer[k] \in {"asked", "gone"}
SendFails(k) == IF k = 0 THEN TRUE ELSE peer[k] = "gone"

Greet(s) ==
  /\ streamer[s] = "greet"
  /\ \/ SendWorks(clients[s].fd) /\ streamer' = [streamer EXCEPT ![s] = "check"]
     \/ SendFails(clients[s].fd) /\ streamer' = [streamer EXCEPT ![s] = "leave"]
  /\ UNCHANGED <<clients, sending, acceptor, backlog, peer, got, events, due, since>>

\* Mutant: the event taken stays in the slot.
TakenStays(s) == clients[s]

Taken(s) == [clients[s] EXCEPT !.pending_json = 0]

\* Under clients_lock: take the pending event, wait, or leave an inactive slot.
Check(s) ==
  /\ streamer[s] = "check"
  /\ IF ~clients[s].active
     THEN /\ streamer' = [streamer EXCEPT ![s] = "leave"]
          /\ UNCHANGED <<clients, sending>>
     ELSE IF clients[s].pending_json = 0
     THEN /\ streamer' = [streamer EXCEPT ![s] = "waiting"]
          /\ UNCHANGED <<clients, sending>>
     ELSE /\ streamer' = [streamer EXCEPT ![s] = "send"]
          /\ sending' = [sending EXCEPT ![s] = clients[s].pending_json]
          /\ clients' = [clients EXCEPT ![s] = Taken(s)]
  /\ UNCHANGED <<acceptor, backlog, peer, got, events, due, since>>

\* The part's three sends, outside the lock.
SendChunk(s) ==
  LET k == clients[s].fd
  IN /\ streamer[s] = "send"
     /\ \/ /\ SendWorks(k)
           /\ got' = [got EXCEPT ![k] = IF peer[k] = "asked" THEN Append(@, sending[s]) ELSE @]
           /\ streamer' = [streamer EXCEPT ![s] = "check"]
        \/ /\ SendFails(k)
           /\ got' = got
           /\ streamer' = [streamer EXCEPT ![s] = "leave"]
     /\ sending' = [sending EXCEPT ![s] = 0]
     /\ UNCHANGED <<clients, acceptor, backlog, peer, events, due, since>>

\* The label done: the slot is free before the socket is closed.
Leave(s) ==
  /\ streamer[s] = "leave"
  /\ peer' = [k \in Peers |-> IF k = clients[s].fd THEN "gone" ELSE peer[k]]
  /\ clients' = [clients EXCEPT ![s] = FreeSlot]
  /\ streamer' = [streamer EXCEPT ![s] = "none"]
  /\ UNCHANGED <<sending, acceptor, backlog, got, events, due, since>>

ClientThread(s) == Greet(s) \/ Check(s) \/ SendChunk(s) \/ Leave(s)

(***************************************************************************)
(* The rule engine.                                                        *)
(***************************************************************************)

\* Mutant: pthread_cond_signal, which wakes one of the threads.
OneWoken ==
  LET asleep == {s \in StreamSlots : streamer[s] = "waiting"}
  IN [s \in StreamSlots |-> IF asleep # {} /\ s = (CHOOSE r \in asleep : \A q \in asleep : r <= q)
                      THEN "check" ELSE streamer[s]]

\* pthread_cond_broadcast.
AllWoken == [s \in StreamSlots |-> IF streamer[s] = "waiting" THEN "check" ELSE streamer[s]]

\* An event nobody listens to is not built; an unread one is overwritten.
AlertStream_Broadcast ==
  /\ events < MaxEvents
  /\ events' = events + 1
  /\ clients' = [s \in StreamSlots |->
       IF clients[s].active THEN [clients[s] EXCEPT !.pending_json = events + 1] ELSE clients[s]]
  /\ due' = [k \in Peers |->
       IF \E s \in StreamSlots : clients[s].active /\ clients[s].fd = k THEN events + 1 ELSE due[k]]
  /\ streamer' = IF \E s \in StreamSlots : clients[s].active THEN AllWoken ELSE streamer
  /\ UNCHANGED <<sending, acceptor, backlog, peer, got, since>>

\* The accept thread is cancelled, and joined, at accept or recv; the backlog dies with the
\* socket.  A thread that is sending may still be using its socket.
AlertStream_Cleanup ==
  /\ acceptor.at \in {"accept", "drain"}
  /\ acceptor' = [Waiting EXCEPT !.at = "ended"]
  /\ backlog' = <<>>
  /\ peer' = [k \in Peers |-> IF peer[k] = "new" THEN "new" ELSE "gone"]
  /\ clients' = [s \in StreamSlots |-> FreeSlot]
  /\ streamer' = AllWoken
  /\ UNCHANGED <<sending, got, events, due, since>>

AsNext ==
  \/ \E k \in Peers : PeerConnects(k) \/ PeerMoves(k)
  \/ AcceptThread
  \/ \E s \in StreamSlots : ClientThread(s)
  \/ AlertStream_Broadcast \/ AlertStream_Cleanup

\* Every thread that is not blocked is scheduled again.
AsFairness == WF_asVars(AcceptThread) /\ \A s \in StreamSlots : WF_asVars(ClientThread(s))

AsSpec == AsInit /\ [][AsNext]_asVars /\ AsFairness

(***************************************************************************)
(* Properties.                                                             *)
(***************************************************************************)

\* A listener sees events in the order of the broadcasts, none twice, and none from before
\* it was given its slot, whichever client used the slot before (accept_thread_fn,
\* client_thread_fn).
StreamInOrder ==
  \A k \in Peers : \A i \in 1..Len(got[k]) :
    got[k][i] > (IF i = 1 THEN since[k] ELSE got[k][i - 1])

Sees(k, e) == got[k] # <<>> /\ got[k][Len(got[k])] >= e

\* An event broadcast while a listener has a slot reaches it, or a newer one does, unless the
\* listener stops reading or the connection ends (AlertStream_Broadcast's wake-up is not lost).
NewestReaches ==
  \A k \in Peers, e \in 1..MaxEvents :
    due[k] = e ~> Sees(k, e) \/ peer[k] \in {"stalled", "gone"}
=============================================================================
