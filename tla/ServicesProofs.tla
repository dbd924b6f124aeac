---------------------------- MODULE ServicesProofs ----------------------------
(***************************************************************************)
(* Proofs about the services that talk to other hosts: the alert stream,   *)
(* for any number of slots, connections and events; the Modbus pool, for   *)
(* any number of devices, threads and requests; the ONVIF pull-point       *)
(* query, for any number of queries, pulls and failures.                   *)
(***************************************************************************)
EXTENDS AlertStream, ModbusPool, PullPoint, WellFoundedInduction, SequenceTheorems, TLAPS

(***************************************************************************)
(* The alert stream.                                                       *)
(***************************************************************************)

\* Types of the alert stream's state.
Client   == [active : BOOLEAN, fd : Peers \cup {0}, pending_json : Nat]
Place    == {"none", "greet", "check", "waiting", "send", "leave"}
Acceptor == [at : {"accept", "drain", "create", "undo", "ended"}, fd : Peers \cup {0},
             slot : StreamSlots]
StreamTypes ==
  /\ clients \in [StreamSlots -> Client]
  /\ streamer \in [StreamSlots -> Place]
  /\ sending \in [StreamSlots -> Nat]
  /\ acceptor \in Acceptor
  /\ backlog \in Seq(Peers)
  /\ peer \in [Peers -> {"new", "open", "asked", "stalled", "gone"}]
  /\ got \in [Peers -> Seq(Nat)]
  /\ events \in Nat
  /\ due \in [Peers -> Nat]
  /\ since \in [Peers -> Nat]

\* Event e is newer than all that connection k was sent, and than its slot.
Newer(k, e) == since[k] < e /\ \A i \in DOMAIN got[k] : got[k][i] < e

\* Connection k has no slot yet.
Unserved(k) == \/ peer[k] = "new"
               \/ \E i \in DOMAIN backlog : backlog[i] = k
               \/ acceptor.at = "drain" /\ acceptor.fd = k

\* A connection waits in one place, and has listened to nothing.
WaitingRight ==
  /\ \A i, j \in DOMAIN backlog : backlog[i] = backlog[j] => i = j
  /\ \A i \in DOMAIN backlog : peer[backlog[i]] # "new"
  /\ acceptor.at = "drain" => /\ acceptor.fd \in Peers /\ peer[acceptor.fd] # "new"
                              /\ \A i \in DOMAIN backlog : backlog[i] # acceptor.fd
  /\ \A k \in Peers : Unserved(k) => got[k] = <<>>

\* A slot that is not in use has no thread and no connection; one that the accept thread
\* has just filled has no thread yet.
SlotsRight ==
  /\ acceptor.at # "ended" => \A s \in StreamSlots :
       ~clients[s].active => streamer[s] = "none" /\ clients[s].fd = 0
  /\ acceptor.at = "ended" => \A s \in StreamSlots : clients[s].fd = 0
  /\ acceptor.at \in {"create", "undo"} =>
       /\ acceptor.fd # 0 /\ clients[acceptor.slot].fd = acceptor.fd
       /\ clients[acceptor.slot].active /\ streamer[acceptor.slot] = "none"
  /\ \A s \in StreamSlots : sending[s] # 0 => streamer[s] = "send"
  /\ \A s \in StreamSlots : clients[s].fd # 0 => ~Unserved(clients[s].fd)
  /\ \A r, s \in StreamSlots : clients[r].fd = clients[s].fd /\ r # s => clients[s].fd = 0

\* What a slot still has to send is newer than what its connection has.
OrderRight ==
  /\ \A k \in Peers : Newer(k, events + 1)
  /\ \A s \in StreamSlots : clients[s].pending_json <= events /\ sending[s] <= events
  /\ \A s \in StreamSlots : clients[s].fd # 0 =>
       /\ sending[s] # 0 => Newer(clients[s].fd, sending[s])
       /\ clients[s].pending_json # 0 =>
            clients[s].pending_json > sending[s] /\ Newer(clients[s].fd, clients[s].pending_json)
  /\ \A s \in StreamSlots : streamer[s] = "send" => sending[s] # 0

\* The inductive invariant.
StreamInv == WaitingRight /\ SlotsRight /\ OrderRight /\ StreamInOrder

\* The slots, and an element more or less in the backlog.
LEMMA StreamFacts ==
  /\ 0 \in StreamSlots /\ 0 \notin Peers /\ Peers \subseteq Nat /\ StreamSlots \subseteq Nat
  /\ \A q \in Seq(Peers), k \in Peers :
       /\ DOMAIN Append(q, k) = 1 .. Len(q) + 1 /\ DOMAIN q = 1 .. Len(q) /\ Len(q) \in Nat
       /\ Append(q, k)[Len(q) + 1] = k /\ \A i \in DOMAIN q : Append(q, k)[i] = q[i]
  /\ \A q \in Seq(Peers) : q # <<>> =>
       /\ DOMAIN Tail(q) = 1 .. Len(q) - 1 /\ DOMAIN q = 1 .. Len(q) /\ Len(q) \in Nat
       /\ 1 \in DOMAIN q /\ Head(q) = q[1] /\ \A i \in DOMAIN Tail(q) : Tail(q)[i] = q[i + 1]
BY StreamParams DEF StreamSlots

\* The free slot that a connection is given.
LEMMA FirstFree ==
  ASSUME NEW free \in SUBSET StreamSlots, free # {}
  PROVE  (CHOOSE s \in free : \A r \in free : s <= r) \in free
<1>1. free \subseteq Nat BY StreamFacts
<1>2. PICK m \in free : \A r \in free : <<r, m>> \notin OpToRel(<, Nat)
  BY <1>1, NatLessThanWellFounded, WFMin
<1>3. \A r \in free : ~(r < m) BY <1>1, <1>2, Zenon DEF OpToRel
<1>4. \A r \in free : m <= r BY <1>1, <1>3
<1> QED BY <1>4

\* The records that the code makes.
LEMMA StreamRecords ==
  /\ Waiting \in Acceptor /\ FreeSlot \in Client
  /\ \A k \in Peers, s \in StreamSlots : [at |-> "create", fd |-> k, slot |-> s] \in Acceptor
  /\ \A k \in Peers, c \in Client : Occupy(c, k) \in Client
  /\ \A c \in Client, n \in Nat : [c EXCEPT !.pending_json = n] \in Client
BY StreamFacts DEF Waiting, FreeSlot, Occupy, Acceptor, Client

\* A step keeps the types.
LEMMA StreamTypeStep ==
  ASSUME StreamTypes, WaitingRight, [AsNext]_asVars
  PROVE  StreamTypes'
<1> USE DEF StreamTypes
<1>0. AllWoken \in [StreamSlots -> Place] BY DEF AllWoken, Place
<1>1. ASSUME NEW k \in Peers, PeerConnects(k) PROVE StreamTypes'
  BY <1>1 DEF PeerConnects
<1>2. ASSUME NEW k \in Peers, PeerMoves(k) PROVE StreamTypes'
  BY <1>2 DEF PeerMoves
<1>3. CASE AcceptConnection
  <2>1. Head(backlog) \in Peers /\ Tail(backlog) \in Seq(Peers) BY <1>3 DEF AcceptConnection
  <2>2. acceptor' \in Acceptor BY <1>3, <2>1 DEF AcceptConnection, Acceptor
  <2> QED BY <1>3, <2>1, <2>2 DEF AcceptConnection
<1>4. CASE AdmitConnection
  <2> DEFINE free == {s \in StreamSlots : ~clients[s].active}
             slot == CHOOSE s \in free : \A r \in free : s <= r
  <2>1. CASE free = {}
    <3>1. UNCHANGED <<clients, since>> /\ acceptor' = Waiting
          /\ peer' = [peer EXCEPT ![acceptor.fd] = "gone"]
      BY <1>4, <2>1 DEF AdmitConnection
    <3> QED BY <1>4, <3>1, StreamRecords DEF AdmitConnection
  <2>2. CASE free # {}
    <3>1. slot \in StreamSlots BY <2>2, FirstFree
    <3>2. /\ clients' = [clients EXCEPT ![slot] = Occupy(@, acceptor.fd)]
          /\ since' = [since EXCEPT ![acceptor.fd] = events]
          /\ acceptor' = [at |-> "create", fd |-> acceptor.fd, slot |-> slot]
          /\ peer' = peer /\ acceptor.at = "drain"
      BY <1>4, <2>2 DEF AdmitConnection
    <3> HIDE DEF slot
    <3>3. acceptor.fd \in Peers BY <3>2 DEF WaitingRight
    <3>4. clients' \in [StreamSlots -> Client] BY <3>1, <3>2, <3>3, StreamRecords
    <3>5. acceptor' \in Acceptor BY <3>1, <3>2, <3>3, StreamRecords
    <3> QED BY <1>4, <3>2, <3>4, <3>5 DEF AdmitConnection
  <2> QED BY <2>1, <2>2
<1>5. CASE CreateThread
  <2>1. streamer' \in [StreamSlots -> Place] BY <1>5 DEF CreateThread, Place
  <2>2. acceptor' \in Acceptor BY ZenonT(40), <1>5, StreamRecords DEF CreateThread, Acceptor
  <2>3. peer' = peer \/ peer' = [peer EXCEPT ![acceptor.fd] = "gone"]
    BY <1>5 DEF CreateThread
  <2> QED BY <1>5, <2>1, <2>2, <2>3 DEF CreateThread
<1>6. CASE GiveUpSlot
  <2>1. clients' \in [StreamSlots -> Client]
    <3>1. clients' = [clients EXCEPT ![acceptor.slot] = [[@ EXCEPT !.active = FALSE]
                                                              EXCEPT !.fd = 0]]
      BY <1>6 DEF GiveUpSlot, Client, Acceptor
    <3>2. \A c \in Client : [[c EXCEPT !.active = FALSE] EXCEPT !.fd = 0] \in Client
      BY DEF Client
    <3> QED BY <3>1, <3>2
  <2> QED BY <1>6, <2>1, StreamRecords DEF GiveUpSlot
<1>7. ASSUME NEW s \in StreamSlots, Greet(s) PROVE StreamTypes'
  BY <1>7 DEF Greet, Place
<1>8. ASSUME NEW s \in StreamSlots, Check(s) PROVE StreamTypes'
  <2>1. Taken(s) \in Client BY StreamRecords DEF Taken
  <2>2. clients[s].pending_json \in Nat BY DEF Client
  <2>3. clients' \in [StreamSlots -> Client] BY <1>8, <2>1 DEF Check
  <2>4. sending' \in [StreamSlots -> Nat] BY <1>8, <2>2 DEF Check
  <2>5. streamer' \in [StreamSlots -> Place] BY <1>8 DEF Check, Place
  <2> QED BY <1>8, <2>3, <2>4, <2>5 DEF Check
<1>9. ASSUME NEW s \in StreamSlots, SendChunk(s) PROVE StreamTypes'
  <2> DEFINE k == clients[s].fd
  <2>1. got' \in [Peers -> Seq(Nat)]
    <3>1. got' = got \/ got' = [got EXCEPT ![k] = IF peer[k] = "asked" THEN Append(@, sending[s]) ELSE @]
      BY <1>9 DEF SendChunk
    <3>2. ASSUME k \in Peers PROVE got' \in [Peers -> Seq(Nat)]
      <4>1. got[k] \in Seq(Nat) /\ Append(got[k], sending[s]) \in Seq(Nat) BY <3>2
      <4> QED BY <3>1, <4>1
    <3>3. k \notin Peers => got' = got BY <3>1
    <3> QED BY <3>2, <3>3
  <2> QED BY <1>9, <2>1 DEF SendChunk, Place
<1>10. ASSUME NEW s \in StreamSlots, Leave(s) PROVE StreamTypes'
  BY <1>10, StreamRecords DEF Leave, Place
<1>11. CASE AlertStream_Broadcast
  <2>1. clients' \in [StreamSlots -> Client]
    <3>0. events + 1 \in Nat /\ \A s \in StreamSlots : clients[s] \in Client OBVIOUS
    <3>1. \A s \in StreamSlots : [clients[s] EXCEPT !.pending_json = events + 1] \in Client
      BY <3>0, StreamRecords
    <3> QED BY <1>11, <3>1 DEF AlertStream_Broadcast
  <2> QED BY <1>0, <1>11, <2>1 DEF AlertStream_Broadcast
<1>12. CASE AlertStream_Cleanup
  <2>1. acceptor' \in Acceptor BY <1>12, StreamRecords DEF AlertStream_Cleanup, Acceptor
  <2> QED BY <1>0, <1>12, <2>1, StreamRecords DEF AlertStream_Cleanup
<1>13. CASE UNCHANGED asVars
  BY <1>13 DEF asVars
<1> QED BY <1>1, <1>2, <1>3, <1>4, <1>5, <1>6, <1>7, <1>8, <1>9, <1>10, <1>11, <1>12, <1>13
        DEF AsNext, AcceptThread, ClientThread

\* A connection gets a place in the backlog, then at the accept thread, then a slot.
LEMMA WaitingStep ==
  ASSUME StreamTypes, WaitingRight, SlotsRight, [AsNext]_asVars
  PROVE  WaitingRight'
<1> DEFINE New(k) == peer[k] = "new"
<1>0. backlog \in Seq(Peers) /\ DOMAIN backlog = 1 .. Len(backlog) /\ Len(backlog) \in Nat
      /\ \A i \in DOMAIN backlog : backlog[i] \in Peers
  BY DEF StreamTypes
<1>1. ASSUME NEW k \in Peers, PeerConnects(k) PROVE WaitingRight'
  <2>1. /\ peer[k] = "new" /\ peer' = [peer EXCEPT ![k] = "open"]
        /\ backlog' = Append(backlog, k) /\ UNCHANGED <<acceptor, got>>
    BY <1>1 DEF PeerConnects
  <2>2. /\ DOMAIN backlog' = 1 .. Len(backlog) + 1 /\ backlog'[Len(backlog) + 1] = k
        /\ \A i \in DOMAIN backlog : backlog'[i] = backlog[i]
    BY <1>0, <2>1, StreamFacts
  <2>3. \A i \in DOMAIN backlog : backlog[i] # k BY <2>1 DEF WaitingRight
  <2>4. \A i, j \in DOMAIN backlog' : backlog'[i] = backlog'[j] => i = j
    BY <1>0, <2>2, <2>3 DEF WaitingRight
  <2>5. \A j \in Peers : peer'[j] = "new" => j # k /\ peer[j] = "new"
    BY <2>1 DEF StreamTypes
  <2>6. \A i \in DOMAIN backlog' : peer'[backlog'[i]] # "new"
    BY <1>0, <2>2, <2>5 DEF WaitingRight
  <2>7. acceptor.at = "drain" => /\ acceptor'.fd \in Peers /\ peer'[acceptor.fd] # "new"
                                 /\ \A i \in DOMAIN backlog' : backlog'[i] # acceptor.fd
    BY <1>0, <2>1, <2>2, <2>5 DEF WaitingRight
  <2>8. \A j \in Peers : Unserved(j)' => Unserved(j)
    BY <1>0, <2>1, <2>2, <2>5 DEF Unserved
  <2> QED BY <2>1, <2>4, <2>6, <2>7, <2>8 DEF WaitingRight
<1>2. ASSUME NEW k \in Peers, PeerMoves(k) PROVE WaitingRight'
  <2>1. UNCHANGED <<backlog, acceptor, got>> /\ \A j \in Peers : peer'[j] = "new" <=> peer[j] = "new"
    BY <1>2 DEF PeerMoves, StreamTypes
  <2> QED BY <1>0, <2>1 DEF WaitingRight, Unserved
<1>3. CASE AcceptConnection
  <2>1. /\ acceptor'.at = "drain" /\ acceptor'.fd = backlog[1] /\ 1 \in DOMAIN backlog
        /\ backlog' = Tail(backlog) /\ UNCHANGED <<peer, got>>
    BY <1>0, <1>3, StreamFacts DEF AcceptConnection, StreamTypes, Acceptor
  <2>2. DOMAIN backlog' = 1 .. Len(backlog) - 1
        /\ \A i \in DOMAIN backlog' : backlog'[i] = backlog[i + 1] /\ i + 1 \in DOMAIN backlog
                                      /\ i + 1 # 1
    BY <1>0, <1>3, <2>1, StreamFacts DEF AcceptConnection
  <2>3. \A i, j \in DOMAIN backlog' : backlog'[i] = backlog'[j] => i = j
    <3> SUFFICES ASSUME NEW i \in DOMAIN backlog', NEW j \in DOMAIN backlog',
                        backlog'[i] = backlog'[j]
                 PROVE  i = j
      OBVIOUS
    <3>1. i + 1 = j + 1 BY <2>2 DEF WaitingRight
    <3> QED BY <2>2, <3>1
  <2>4. \A i \in DOMAIN backlog' : peer[backlog'[i]] # "new" /\ backlog'[i] # acceptor'.fd
    BY <2>1, <2>2 DEF WaitingRight
  <2>5. acceptor'.fd \in Peers /\ peer[acceptor'.fd] # "new" BY <1>0, <2>1 DEF WaitingRight
  <2>6. \A j \in Peers : Unserved(j)' => Unserved(j)
    BY <2>1, <2>2 DEF Unserved
  <2> QED BY <2>1, <2>3, <2>4, <2>5, <2>6 DEF WaitingRight
<1>4. ASSUME UNCHANGED backlog, acceptor'.at # "drain",
             \A k \in Peers : peer'[k] = "new" <=> peer[k] = "new",
             \A k \in Peers : Unserved(k) => got'[k] = got[k]
      PROVE  WaitingRight'
  <2>1. \A j \in Peers : Unserved(j)' => Unserved(j) BY <1>0, <1>4 DEF Unserved
  <2> QED BY <1>0, <1>4, <2>1 DEF WaitingRight
<1>5. CASE AdmitConnection
  <2>1. acceptor.fd \in Peers /\ peer[acceptor.fd] # "new" /\ UNCHANGED <<backlog, got>>
    BY <1>5 DEF AdmitConnection, WaitingRight
  <2>2. acceptor'.at # "drain" BY <1>5 DEF AdmitConnection, Waiting
  <2>3. peer' = peer \/ peer' = [peer EXCEPT ![acceptor.fd] = "gone"]
    BY <1>5 DEF AdmitConnection
  <2>4. \A k \in Peers : peer'[k] = "new" <=> peer[k] = "new" BY <2>1, <2>3 DEF StreamTypes
  <2> QED BY <1>4, <2>1, <2>2, <2>4
<1>6. ASSUME CreateThread \/ GiveUpSlot PROVE WaitingRight'
  <2>1. UNCHANGED <<backlog, got>> BY <1>6 DEF CreateThread, GiveUpSlot
  <2>2. acceptor'.at # "drain"
    BY <1>6 DEF CreateThread, GiveUpSlot, Waiting, StreamTypes, Acceptor
  <2>3. \A k \in Peers : peer'[k] = "new" <=> peer[k] = "new"
    <3>1. CASE peer' = peer BY <3>1
    <3>2. CASE CreateThread /\ peer' # peer
      <4>1. acceptor.at = "create" /\ peer' = [peer EXCEPT ![acceptor.fd] = "gone"]
        BY <3>2 DEF CreateThread
      <4>2. acceptor.slot \in StreamSlots /\ acceptor.fd \in Peers
        BY <4>1 DEF StreamTypes, Acceptor, SlotsRight
      <4>3. peer[acceptor.fd] # "new" BY <4>1, <4>2 DEF SlotsRight, Unserved
      <4> QED BY <4>1, <4>2, <4>3 DEF StreamTypes
    <3> QED BY <1>6, <3>1, <3>2 DEF GiveUpSlot
  <2> QED BY <1>4, <2>1, <2>2, <2>3
<1>7. ASSUME UNCHANGED <<backlog, acceptor, peer, got>> PROVE WaitingRight'
  BY <1>7 DEF WaitingRight, Unserved
<1>8. ASSUME NEW s \in StreamSlots, ClientThread(s) PROVE WaitingRight'
  <2> DEFINE k == clients[s].fd
  <2>1. CASE Greet(s) BY <1>7, <2>1 DEF Greet
  <2>2. CASE Check(s) BY <1>7, <2>2 DEF Check
  <2>3. UNCHANGED <<backlog, acceptor>>
    BY <1>8 DEF ClientThread, Greet, Check, SendChunk, Leave
  <2>4. ASSUME \A j \in Peers : Unserved(j) => got'[j] = got[j],
               \A j \in Peers : peer'[j] = "new" <=> peer[j] = "new"
        PROVE  WaitingRight'
    BY <1>0, <2>3, <2>4 DEF WaitingRight, Unserved
  <2>5. k # 0 => ~Unserved(k) BY DEF SlotsRight
  <2>6. CASE SendChunk(s)
    <3>1. peer' = peer /\ \A j \in Peers \ {k} : got'[j] = got[j]
      BY <2>6 DEF SendChunk, StreamTypes
    <3>2. \A j \in Peers : Unserved(j) => j # k BY <2>5, StreamFacts
    <3> QED BY <2>4, <3>1, <3>2
  <2>7. CASE Leave(s)
    <3>1. got' = got /\ \A j \in Peers : peer'[j] = IF j = k THEN "gone" ELSE peer[j]
      BY <2>7 DEF Leave
    <3>2. \A j \in Peers : peer[j] = "new" => j # k BY <2>5, StreamFacts DEF Unserved
    <3> QED BY <2>4, <3>1, <3>2
  <2> QED BY <1>8, <2>1, <2>2, <2>6, <2>7 DEF ClientThread
<1>9. CASE AlertStream_Broadcast BY <1>7, <1>9 DEF AlertStream_Broadcast
<1>10. CASE AlertStream_Cleanup
  <2>1. backlog' = <<>> /\ acceptor'.at # "drain" /\ got' = got
        /\ \A k \in Peers : peer'[k] = "new" => peer[k] = "new"
    BY <1>10 DEF AlertStream_Cleanup, Waiting
  <2>2. DOMAIN backlog' = {} BY <2>1
  <2>3. \A j \in Peers : Unserved(j)' => Unserved(j) BY <2>1, <2>2 DEF Unserved
  <2> QED BY <2>1, <2>2, <2>3 DEF WaitingRight
<1>11. CASE UNCHANGED asVars BY <1>7, <1>11 DEF asVars
<1> QED BY <1>1, <1>2, <1>3, <1>5, <1>6, <1>8, <1>9, <1>10, <1>11 DEF AsNext, AcceptThread

\* No connection that waits has a slot, if none is new to both.
LEMMA ServedKept ==
  ASSUME StreamTypes, SlotsRight, \A j \in Peers : Unserved(j)' => Unserved(j),
         \A s \in StreamSlots : clients'[s].fd = clients[s].fd \/ clients'[s].fd = 0
  PROVE  \A s \in StreamSlots : clients'[s].fd # 0 => ~Unserved(clients[s].fd)'
<1> SUFFICES ASSUME NEW s \in StreamSlots, clients'[s].fd # 0 PROVE ~Unserved(clients[s].fd)'
  OBVIOUS
<1>1. PICK k \in Peers : k = clients[s].fd /\ k = clients'[s].fd
  BY DEF StreamTypes, Client
<1>2. ~Unserved(k) BY <1>1, StreamFacts DEF SlotsRight
<1>3. ~Unserved(k)' BY <1>2
<1> QED BY <1>1, <1>3 DEF Unserved

\* A slot is in use from the accept thread's step to its own thread's last.
LEMMA SlotsStep ==
  ASSUME StreamTypes, WaitingRight, SlotsRight, [AsNext]_asVars
  PROVE  SlotsRight'
<1>0. StreamTypes' /\ WaitingRight' BY StreamTypeStep, WaitingStep
<1>1. ASSUME UNCHANGED <<clients, streamer, sending>>, acceptor' = acceptor,
             \A k \in Peers : Unserved(k)' => Unserved(k)
      PROVE  SlotsRight'
  BY <1>1, StreamFacts DEF SlotsRight, StreamTypes, Client
<1>2. ASSUME NEW k \in Peers, PeerConnects(k) PROVE SlotsRight'
  <2>1. UNCHANGED <<clients, streamer, sending, acceptor>> /\ backlog' = Append(backlog, k)
        /\ peer[k] = "new" /\ peer' = [peer EXCEPT ![k] = "open"]
    BY <1>2 DEF PeerConnects
  <2>2. \A j \in Peers : Unserved(j)' => Unserved(j)
    <3>1. \A i \in DOMAIN backlog' : backlog'[i] = k \/ (i \in DOMAIN backlog /\ backlog'[i] = backlog[i])
      BY <2>1, StreamFacts DEF StreamTypes
    <3> QED BY <2>1, <3>1 DEF Unserved, StreamTypes
  <2> QED BY <1>1, <2>1, <2>2
<1>3. ASSUME NEW k \in Peers, PeerMoves(k) PROVE SlotsRight'
  <2>1. UNCHANGED <<clients, streamer, sending, acceptor, backlog>>
        /\ \A j \in Peers : peer'[j] = "new" => peer[j] = "new"
    BY <1>3 DEF PeerMoves, StreamTypes
  <2> QED BY <1>1, <2>1 DEF Unserved
<1>4. CASE AcceptConnection
  <2>1. UNCHANGED <<clients, streamer, sending, peer>> /\ acceptor'.at = "drain" /\ acceptor.at = "accept"
        /\ acceptor'.fd = backlog[1] /\ 1 \in DOMAIN backlog /\ backlog' = Tail(backlog)
    BY <1>4, StreamFacts DEF AcceptConnection, StreamTypes, Acceptor
  <2>2. \A i \in DOMAIN backlog' : backlog'[i] = backlog[i + 1] /\ i + 1 \in DOMAIN backlog
    BY <1>4, StreamFacts DEF AcceptConnection, StreamTypes
  <2>3. \A j \in Peers : Unserved(j)' => Unserved(j) BY <2>1, <2>2 DEF Unserved
  <2> QED BY <2>1, <2>3, StreamFacts DEF SlotsRight, StreamTypes, Client
<1>5. CASE AdmitConnection
  <2> DEFINE k == acceptor.fd
             free == {s \in StreamSlots : ~clients[s].active}
             slot == CHOOSE s \in free : \A r \in free : s <= r
  <2>0. k \in Peers /\ acceptor.at = "drain" /\ Unserved(k)
        /\ UNCHANGED <<streamer, sending, backlog>>
    BY <1>5 DEF AdmitConnection, WaitingRight, Unserved
  <2>1. \A j \in Peers : Unserved(j)' => Unserved(j) /\ j # k
    <3>1. acceptor'.at # "drain" BY <1>5 DEF AdmitConnection, Waiting
    <3>2. peer' = peer \/ peer' = [peer EXCEPT ![k] = "gone"] BY <1>5 DEF AdmitConnection
    <3>3. \A j \in Peers : peer'[j] = "new" => peer[j] = "new" /\ j # k
      BY <2>0, <3>2 DEF WaitingRight, StreamTypes
    <3> QED BY <2>0, <3>1, <3>3 DEF Unserved, WaitingRight
  <2>2. CASE free = {}
    <3>1. clients' = clients /\ acceptor'.at = "accept" BY <1>5, <2>2 DEF AdmitConnection, Waiting
    <3> QED BY <2>0, <2>1, <3>1, StreamFacts DEF SlotsRight, StreamTypes, Client
  <2>3. CASE free # {}
    <3>1. slot \in StreamSlots /\ ~clients[slot].active BY <2>3, FirstFree
    <3>2. /\ clients' = [clients EXCEPT ![slot] = Occupy(@, k)]
          /\ acceptor' = [at |-> "create", fd |-> k, slot |-> slot]
      BY <1>5, <2>3 DEF AdmitConnection
    <3> HIDE DEF slot
    <3>3. clients'[slot] = [active |-> TRUE, fd |-> k, pending_json |-> 0]
          /\ \A s \in StreamSlots \ {slot} : clients'[s] = clients[s]
      BY <3>1, <3>2 DEF Occupy, StreamTypes
    <3>4. streamer[slot] = "none" /\ clients[slot].fd = 0 BY <2>0, <3>1 DEF SlotsRight
    <3>5. \A s \in StreamSlots : clients[s].fd # k BY <2>0, StreamFacts DEF SlotsRight
    <3>6. /\ acceptor'.at = "create" /\ acceptor'.slot = slot /\ acceptor'.fd = k /\ k # 0
      BY <2>0, <3>2, StreamFacts
    <3>7. \A s \in StreamSlots : ~clients'[s].active => streamer'[s] = "none" /\ clients'[s].fd = 0
      BY <2>0, <3>3 DEF SlotsRight
    <3>8. \A s \in StreamSlots : clients'[s].fd # 0 => ~Unserved(clients[s].fd)'
      <4> SUFFICES ASSUME NEW s \in StreamSlots, clients'[s].fd # 0
                   PROVE  ~Unserved(clients[s].fd)'
        OBVIOUS
      <4>1. clients'[s].fd \in Peers BY <1>0, StreamFacts DEF StreamTypes, Client
      <4>2. CASE s = slot BY <2>1, <3>3, <4>1, <4>2
      <4>3. CASE s # slot BY <2>1, <3>3, <4>1, <4>3 DEF SlotsRight
      <4> QED BY <4>2, <4>3
    <3>9. \A r, s \in StreamSlots : clients'[r].fd = clients'[s].fd /\ r # s => clients'[s].fd = 0
      BY <3>3, <3>5 DEF SlotsRight
    <3>10. \A s \in StreamSlots : sending'[s] # 0 => streamer'[s] = "send"
      BY <2>0 DEF SlotsRight
    <3> QED BY <2>0, <3>3, <3>4, <3>6, <3>7, <3>8, <3>9, <3>10 DEF SlotsRight
  <2> QED BY <2>2, <2>3
<1>6. CASE CreateThread
  <2>1. /\ acceptor.at = "create" /\ acceptor.slot \in StreamSlots /\ acceptor.fd \in Peers
        /\ UNCHANGED <<clients, sending, backlog>> /\ clients[acceptor.slot].fd = acceptor.fd
        /\ clients[acceptor.slot].active /\ streamer[acceptor.slot] = "none"
    BY <1>6 DEF CreateThread, StreamTypes, Acceptor, SlotsRight
  <2>2. \A j \in Peers : Unserved(j)' => Unserved(j)
    <3>1. acceptor'.at # "drain" BY <1>6 DEF CreateThread, Waiting, StreamTypes, Acceptor
    <3>2. peer' = peer \/ peer' = [peer EXCEPT ![acceptor.fd] = "gone"] BY <1>6 DEF CreateThread
    <3> QED BY <2>1, <3>1, <3>2 DEF Unserved, StreamTypes
  <2>3. \A s \in StreamSlots : clients[s].fd # 0 => ~Unserved(clients[s].fd)'
    BY <2>2, StreamFacts DEF SlotsRight, StreamTypes, Client
  <2>4. CASE streamer' = [streamer EXCEPT ![acceptor.slot] = "greet"] /\ acceptor' = Waiting
    <3>1. \A s \in StreamSlots : streamer'[s] = IF s = acceptor.slot THEN "greet" ELSE streamer[s]
      BY <2>4 DEF StreamTypes
    <3>2. \A s \in StreamSlots : sending[s] # 0 => streamer'[s] = "send"
      BY <2>1, <3>1 DEF SlotsRight
    <3>3. acceptor'.at = "accept" BY <2>4 DEF Waiting
    <3> QED BY <2>1, <2>3, <3>1, <3>2, <3>3 DEF SlotsRight
  <2>5. CASE streamer' = streamer /\ acceptor' = [acceptor EXCEPT !.at = "undo"]
    <3>1. acceptor'.at = "undo" /\ acceptor'.slot = acceptor.slot /\ acceptor'.fd = acceptor.fd
      BY <2>5 DEF StreamTypes, Acceptor
    <3> QED BY <2>1, <2>3, <2>5, <3>1 DEF SlotsRight
  <2> QED BY <1>6, <2>4, <2>5 DEF CreateThread
<1>7. ASSUME NEW s \in StreamSlots, UNCHANGED <<backlog, acceptor>>,
             \A j \in Peers : Unserved(j)' => Unserved(j),
             \A r \in StreamSlots \ {s} : /\ clients'[r] = clients[r] /\ streamer'[r] = streamer[r]
                                          /\ sending'[r] = sending[r],
             clients[s].active \/ acceptor.at = "ended", streamer[s] # "none",
             \/ clients'[s].active /\ clients'[s].fd = clients[s].fd
             \/ clients'[s] = FreeSlot /\ streamer'[s] = "none"
             \/ acceptor.at = "ended" /\ clients'[s].fd = clients[s].fd,
             sending'[s] # 0 => streamer'[s] = "send"
      PROVE  SlotsRight'
  <2>1. \A r \in StreamSlots : clients'[r].fd = clients[r].fd \/ clients'[r].fd = 0
    BY <1>7 DEF FreeSlot
  <2>2. \A r \in StreamSlots : clients'[r].fd # 0 => ~Unserved(clients[r].fd)'
    BY <1>7, <2>1, ServedKept
  <2>3. \A q, r \in StreamSlots : clients'[q].fd = clients'[r].fd /\ q # r => clients'[r].fd = 0
    BY <2>1 DEF SlotsRight
  <2>4. acceptor.at # "ended" =>
          \A r \in StreamSlots : ~clients'[r].active => streamer'[r] = "none" /\ clients'[r].fd = 0
    BY <1>7 DEF SlotsRight, FreeSlot
  <2>5. acceptor.at \in {"create", "undo"} => acceptor.slot # s BY <1>7 DEF SlotsRight
  <2>6. acceptor.at \in {"create", "undo"} =>
          /\ acceptor.fd # 0 /\ clients'[acceptor.slot].fd = acceptor.fd
          /\ clients'[acceptor.slot].active /\ streamer'[acceptor.slot] = "none"
    BY <1>7, <2>5 DEF SlotsRight, StreamTypes, Acceptor
  <2>7. \A r \in StreamSlots : sending'[r] # 0 => streamer'[r] = "send"
    BY <1>7 DEF SlotsRight
  <2>8. acceptor.at = "ended" => \A r \in StreamSlots : clients'[r].fd = 0
    BY <2>1 DEF SlotsRight
  <2> QED BY <1>7, <2>2, <2>3, <2>4, <2>6, <2>7, <2>8 DEF SlotsRight
<1>8. ASSUME NEW s \in StreamSlots, ClientThread(s) PROVE SlotsRight'
  <2>1. UNCHANGED <<backlog, acceptor>> /\ streamer[s] # "none"
    BY <1>8 DEF ClientThread, Greet, Check, SendChunk, Leave
  <2>2. clients[s].active \/ acceptor.at = "ended" BY <2>1 DEF SlotsRight
  <2>3. \A j \in Peers : Unserved(j)' => Unserved(j)
    BY <1>8 DEF Unserved, ClientThread, Greet, Check, SendChunk, Leave
  <2>4. \A r \in StreamSlots \ {s} : /\ clients'[r] = clients[r] /\ streamer'[r] = streamer[r]
                                     /\ sending'[r] = sending[r]
    BY <1>8 DEF StreamTypes, ClientThread, Greet, Check, SendChunk, Leave
  <2>5. CASE Greet(s)
    <3>1. clients' = clients /\ sending' = sending /\ streamer[s] = "greet" BY <2>5 DEF Greet
    <3>2. sending[s] = 0 BY <3>1 DEF SlotsRight
    <3> QED BY <1>7, <2>1, <2>2, <2>3, <2>4, <3>1, <3>2
  <2>6. CASE Check(s)
    <3>1. streamer[s] = "check" /\ sending[s] = 0 BY <2>6 DEF Check, SlotsRight
    <3>2. /\ clients'[s].active = clients[s].active /\ clients'[s].fd = clients[s].fd
          /\ sending'[s] # 0 => streamer'[s] = "send"
      BY <2>6, <3>1 DEF Check, Taken, StreamTypes, Client
    <3> QED BY <1>7, <2>1, <2>2, <2>3, <2>4, <3>2
  <2>7. CASE SendChunk(s)
    <3>1. clients' = clients /\ sending'[s] = 0 BY <2>7 DEF SendChunk, StreamTypes
    <3> QED BY <1>7, <2>1, <2>2, <2>3, <2>4, <3>1
  <2>8. CASE Leave(s)
    <3>1. clients'[s] = FreeSlot /\ streamer'[s] = "none" /\ sending' = sending
          /\ streamer[s] = "leave"
      BY <2>8 DEF Leave, StreamTypes
    <3>2. sending[s] = 0 BY <3>1 DEF SlotsRight
    <3> QED BY <1>7, <2>1, <2>2, <2>3, <2>4, <3>1, <3>2
  <2> QED BY <1>8, <2>5, <2>6, <2>7, <2>8 DEF ClientThread
<1>9. CASE GiveUpSlot
  <2> DEFINE slot == acceptor.slot
  <2>1. /\ acceptor.at = "undo" /\ slot \in StreamSlots /\ acceptor'.at = "accept"
        /\ UNCHANGED <<streamer, sending, backlog, peer>> /\ streamer[slot] = "none"
    BY <1>9 DEF GiveUpSlot, Waiting, StreamTypes, Acceptor, SlotsRight
  <2>2. /\ clients'[slot].fd = 0
        /\ \A s \in StreamSlots \ {slot} : clients'[s] = clients[s]
    BY <1>9, <2>1 DEF GiveUpSlot, StreamTypes, Client
  <2>3. \A j \in Peers : Unserved(j)' => Unserved(j) BY <2>1 DEF Unserved
  <2>4. \A s \in StreamSlots : clients'[s].fd # 0 => ~Unserved(clients[s].fd)'
    <3>1. \A s \in StreamSlots : clients'[s].fd = clients[s].fd \/ clients'[s].fd = 0 BY <2>2
    <3> QED BY <2>3, <3>1, ServedKept
  <2>5. \A s \in StreamSlots : ~clients'[s].active => streamer'[s] = "none" /\ clients'[s].fd = 0
    BY <2>1, <2>2 DEF SlotsRight
  <2>6. \A r, s \in StreamSlots : clients'[r].fd = clients'[s].fd /\ r # s => clients'[s].fd = 0
    BY <2>2 DEF SlotsRight
  <2> QED BY <2>1, <2>4, <2>5, <2>6 DEF SlotsRight
<1>10. CASE AlertStream_Broadcast
  <2>1. /\ UNCHANGED <<acceptor, backlog, peer, sending>>
        /\ \A s \in StreamSlots : /\ clients'[s].active = clients[s].active
                                  /\ clients'[s].fd = clients[s].fd
                                  /\ streamer'[s] = streamer[s]
                                     \/ (streamer[s] = "waiting" /\ streamer'[s] = "check")
    <3>1. \A s \in StreamSlots : clients'[s] = clients[s]
             \/ clients'[s] = [clients[s] EXCEPT !.pending_json = events + 1]
      BY <1>10 DEF AlertStream_Broadcast
    <3>2. \A s \in StreamSlots : clients[s] \in Client BY DEF StreamTypes
    <3>3. \A s \in StreamSlots : /\ clients'[s].active = clients[s].active
                                  /\ clients'[s].fd = clients[s].fd
      BY <3>1, <3>2 DEF Client
    <3>4. \A s \in StreamSlots : streamer'[s] = streamer[s]
                                  \/ (streamer[s] = "waiting" /\ streamer'[s] = "check")
      <4>1. streamer' = streamer \/ streamer' = AllWoken BY <1>10 DEF AlertStream_Broadcast
      <4>2. CASE streamer' = streamer BY <4>2
      <4>3. CASE streamer' = AllWoken BY <4>3 DEF AllWoken
      <4> QED BY <4>1, <4>2, <4>3
    <3> QED BY <1>10, <3>3, <3>4 DEF AlertStream_Broadcast
  <2>2. \A j \in Peers : Unserved(j)' => Unserved(j) BY <2>1 DEF Unserved
  <2>3. \A s \in StreamSlots : clients'[s].fd # 0 => ~Unserved(clients[s].fd)'
    BY <2>1, <2>2, ServedKept
  <2>4. acceptor.slot \in StreamSlots BY DEF StreamTypes, Acceptor
  <2> QED BY <2>1, <2>3, <2>4 DEF SlotsRight
<1>11. CASE AlertStream_Cleanup
  <2>1. /\ acceptor'.at = "ended" /\ UNCHANGED sending
        /\ \A s \in StreamSlots : clients'[s].fd = 0
        /\ \A s \in StreamSlots : streamer[s] = "send" => streamer'[s] = "send"
    BY <1>11 DEF AlertStream_Cleanup, AllWoken, Waiting, FreeSlot
  <2> QED BY <2>1 DEF SlotsRight
<1>12. CASE UNCHANGED asVars
  <2>1. UNCHANGED <<clients, streamer, sending, acceptor>>
        /\ \A j \in Peers : Unserved(j)' => Unserved(j)
    BY <1>12 DEF asVars, Unserved
  <2> QED BY <1>1, <2>1
<1> QED BY <1>2, <1>3, <1>4, <1>5, <1>6, <1>8, <1>9, <1>10, <1>11, <1>12 DEF AsNext, AcceptThread

\* An event stays newer while nothing is sent, and a newer event is newer too.
LEMMA NewerKept ==
  ASSUME StreamTypes, NEW k \in Peers, NEW e \in Nat, Newer(k, e)
  PROVE  /\ got'[k] = got[k] /\ since'[k] = since[k] => Newer(k, e)'
         /\ \A d \in Nat : d >= e => Newer(k, d)
<1>1. got[k] \in Seq(Nat) /\ since[k] \in Nat BY DEF StreamTypes
<1>2. \A i \in DOMAIN got[k] : got[k][i] \in Nat BY <1>1
<1> QED BY <1>1, <1>2 DEF Newer

\* What the steps have to leave alone: sent events, and what a slot has still to send.
LEMMA OrderKept ==
  ASSUME StreamTypes, SlotsRight, OrderRight, UNCHANGED <<got, since, events>>,
         \A s \in StreamSlots : clients'[s].pending_json \in {0, clients[s].pending_json},
         \A s \in StreamSlots : clients'[s].fd \in {0, clients[s].fd},
         \A s \in StreamSlots : sending'[s] = sending[s],
         \A s \in StreamSlots : streamer'[s] = "send" => streamer[s] = "send"
  PROVE  OrderRight'
<1>1. \A k \in Peers : Newer(k, events + 1)'
  <2> SUFFICES ASSUME NEW k \in Peers PROVE Newer(k, events + 1)' OBVIOUS
  <2>1. Newer(k, events + 1) BY DEF OrderRight
  <2> QED BY <2>1 DEF Newer
<1>2. \A s \in StreamSlots : clients'[s].pending_json <= events' /\ sending'[s] <= events'
  <2>1. 0 <= events BY DEF StreamTypes
  <2> QED BY <2>1 DEF OrderRight
<1>3. ASSUME NEW s \in StreamSlots, clients'[s].fd # 0
      PROVE  /\ sending'[s] # 0 => Newer(clients[s].fd, sending[s])'
             /\ clients'[s].pending_json # 0 =>
                  /\ clients'[s].pending_json > sending'[s]
                  /\ Newer(clients[s].fd, clients[s].pending_json)'
  <2>1. clients'[s].fd = clients[s].fd BY <1>3
  <2>2. sending'[s] # 0 => Newer(clients[s].fd, sending[s])' BY <1>3, <2>1 DEF OrderRight, Newer
  <2>3. CASE clients'[s].pending_json # 0
    <3>1. clients'[s].pending_json = clients[s].pending_json BY <2>3
    <3> QED BY <1>3, <2>1, <2>2, <2>3, <3>1 DEF OrderRight, Newer
  <2> QED BY <2>2, <2>3
<1>4. \A s \in StreamSlots : streamer'[s] = "send" => sending'[s] # 0 BY DEF OrderRight
<1> QED BY <1>1, <1>2, <1>3, <1>4 DEF OrderRight

\* A slot's next event is newer than what its connection was sent.
LEMMA OrderStep ==
  ASSUME StreamTypes, WaitingRight, SlotsRight, OrderRight, [AsNext]_asVars
  PROVE  OrderRight'
<1>0. StreamTypes' /\ WaitingRight' /\ SlotsRight' BY StreamTypeStep, WaitingStep, SlotsStep
<1>1. ASSUME UNCHANGED <<got, since, events, clients, sending>>,
             \A s \in StreamSlots : streamer'[s] = "send" => streamer[s] = "send"
      PROVE  OrderRight'
  BY <1>1, OrderKept
<1>2. ASSUME NEW k \in Peers, PeerConnects(k) \/ PeerMoves(k) PROVE OrderRight'
  BY <1>1, <1>2 DEF PeerConnects, PeerMoves
<1>3. CASE AcceptConnection BY <1>1, <1>3 DEF AcceptConnection
<1>4. CASE CreateThread
  <2>1. \A s \in StreamSlots : streamer'[s] = "send" => streamer[s] = "send"
    BY <1>4 DEF CreateThread, StreamTypes
  <2> QED BY <1>1, <1>4, <2>1 DEF CreateThread
<1>5. CASE GiveUpSlot
  <2>1. \A s \in StreamSlots : /\ clients'[s].pending_json = clients[s].pending_json
                               /\ clients'[s].fd \in {0, clients[s].fd}
    BY <1>5 DEF GiveUpSlot, StreamTypes, Client
  <2> QED BY <1>5, <2>1, OrderKept DEF GiveUpSlot
<1>6. ASSUME NEW s \in StreamSlots, Greet(s) PROVE OrderRight'
  <2>1. \A r \in StreamSlots : streamer'[r] = "send" => streamer[r] = "send"
    BY <1>6 DEF Greet, StreamTypes
  <2> QED BY <1>1, <1>6, <2>1 DEF Greet
<1>7. ASSUME NEW s \in StreamSlots, Leave(s) PROVE OrderRight'
  <2>1. \A r \in StreamSlots : /\ clients'[r].pending_json \in {0, clients[r].pending_json}
                               /\ clients'[r].fd \in {0, clients[r].fd}
                               /\ streamer'[r] = "send" => streamer[r] = "send"
    BY <1>7 DEF Leave, StreamTypes, FreeSlot
  <2> QED BY <1>7, <2>1, OrderKept DEF Leave
<1>8. CASE AlertStream_Cleanup
  <2>1. \A r \in StreamSlots : /\ clients'[r].pending_json = 0 /\ clients'[r].fd = 0
                               /\ streamer'[r] = "send" => streamer[r] = "send"
    BY <1>8 DEF AlertStream_Cleanup, AllWoken, FreeSlot
  <2> QED BY <1>8, <2>1, OrderKept DEF AlertStream_Cleanup
<1>9. CASE UNCHANGED asVars BY <1>1, <1>9 DEF asVars
<1>10. ASSUME NEW s \in StreamSlots, Check(s) PROVE OrderRight'
  <2>1. CASE ~clients[s].active \/ clients[s].pending_json = 0
    <3>1. \A r \in StreamSlots : streamer'[r] = "send" => streamer[r] = "send"
      BY <1>10, <2>1 DEF Check, StreamTypes
    <3> QED BY <1>1, <1>10, <2>1, <3>1 DEF Check
  <2>2. CASE clients[s].active /\ clients[s].pending_json # 0
    <3>1. /\ UNCHANGED <<got, since, events>>
          /\ clients' = [clients EXCEPT ![s] = Taken(s)]
          /\ sending' = [sending EXCEPT ![s] = clients[s].pending_json]
          /\ streamer' = [streamer EXCEPT ![s] = "send"]
      BY <1>10, <2>2 DEF Check
    <3>2. clients'[s].pending_json = 0 /\ clients'[s].fd = clients[s].fd
          /\ sending'[s] = clients[s].pending_json /\ streamer'[s] = "send"
      BY <3>1 DEF StreamTypes, Client, Taken
    <3>3. \A r \in StreamSlots \ {s} : /\ clients'[r] = clients[r] /\ sending'[r] = sending[r]
                                       /\ streamer'[r] = streamer[r]
      BY <3>1 DEF StreamTypes
    <3>4. \A k \in Peers : Newer(k, events + 1)' BY <3>1 DEF OrderRight, Newer
    <3>5. \A r \in StreamSlots : clients'[r].pending_json <= events' /\ sending'[r] <= events'
      <4>1. 0 <= events BY DEF StreamTypes
      <4> QED BY <3>1, <3>2, <3>3, <4>1 DEF OrderRight
    <3>6. ASSUME NEW r \in StreamSlots, clients'[r].fd # 0
          PROVE  /\ sending'[r] # 0 => Newer(clients[r].fd, sending[r])'
                 /\ clients'[r].pending_json # 0 =>
                      /\ clients'[r].pending_json > sending'[r]
                      /\ Newer(clients[r].fd, clients[r].pending_json)'
      <4>1. CASE r = s BY <2>2, <3>1, <3>2, <3>6, <4>1 DEF OrderRight, Newer
      <4>2. CASE r # s BY <3>1, <3>3, <3>6, <4>2 DEF OrderRight, Newer
      <4> QED BY <4>1, <4>2
    <3>7. \A r \in StreamSlots : streamer'[r] = "send" => sending'[r] # 0
      BY <2>2, <3>2, <3>3 DEF OrderRight
    <3> QED BY <3>4, <3>5, <3>6, <3>7 DEF OrderRight
  <2> QED BY <2>1, <2>2
<1>11. CASE AlertStream_Broadcast
  <2>1. UNCHANGED <<got, since, sending>> /\ events' = events + 1
    BY <1>11 DEF AlertStream_Broadcast
  <2>2. \A s \in StreamSlots : /\ clients'[s].fd = clients[s].fd
                               /\ clients'[s].pending_json \in {events + 1, clients[s].pending_json}
    <3>1. \A s \in StreamSlots : clients'[s] = clients[s]
             \/ clients'[s] = [clients[s] EXCEPT !.pending_json = events + 1]
      BY <1>11 DEF AlertStream_Broadcast
    <3>2. \A s \in StreamSlots : clients[s] \in Client BY DEF StreamTypes
    <3> QED BY <3>1, <3>2 DEF Client
  <2>3. \A s \in StreamSlots : streamer'[s] = "send" => streamer[s] = "send"
    <3>1. streamer' = streamer \/ streamer' = AllWoken BY <1>11 DEF AlertStream_Broadcast
    <3> QED BY <3>1 DEF AllWoken
  <2>4. events \in Nat /\ \A s \in StreamSlots : sending[s] \in Nat /\ clients[s].pending_json \in Nat
    BY DEF StreamTypes, Client
  <2>5. \A k \in Peers : Newer(k, events + 1)' /\ Newer(k, events + 2)
    <3> SUFFICES ASSUME NEW k \in Peers PROVE Newer(k, events + 1)' /\ Newer(k, events + 2)
      OBVIOUS
    <3>1. Newer(k, events + 1) BY DEF OrderRight
    <3>2. Newer(k, events + 2) BY <2>4, <3>1, NewerKept
    <3> QED BY <2>1, <2>4, <3>2 DEF Newer
  <2>6. \A s \in StreamSlots : clients'[s].pending_json <= events' /\ sending'[s] <= events'
    BY <2>1, <2>2, <2>4 DEF OrderRight
  <2>7. ASSUME NEW s \in StreamSlots, clients'[s].fd # 0
        PROVE  /\ sending'[s] # 0 => Newer(clients[s].fd, sending[s])'
               /\ clients'[s].pending_json # 0 =>
                    /\ clients'[s].pending_json > sending'[s]
                    /\ Newer(clients[s].fd, clients[s].pending_json)'
    <3>1. clients[s].fd \in Peers /\ clients'[s].fd = clients[s].fd
      BY <2>2, <2>7 DEF StreamTypes, Client
    <3>2. sending'[s] # 0 => Newer(clients[s].fd, sending[s])'
      BY <2>1, <2>7, <3>1 DEF OrderRight, Newer
    <3>3. CASE clients'[s].pending_json = clients[s].pending_json
      BY <2>1, <2>7, <3>1, <3>2, <3>3 DEF OrderRight, Newer
    <3>4. CASE clients'[s].pending_json = events + 1
      <4>1. events + 1 > sending[s] BY <2>4 DEF OrderRight
      <4>2. Newer(clients[s].fd, events + 1) BY <3>1 DEF OrderRight
      <4>3. Newer(clients[s].fd, clients[s].pending_json)' BY <2>1, <3>1, <3>4, <4>2 DEF Newer
      <4> QED BY <2>1, <3>2, <3>4, <4>1, <4>3
    <3> QED BY <2>2, <3>3, <3>4
  <2>8. \A s \in StreamSlots : streamer'[s] = "send" => sending'[s] # 0
    BY <2>1, <2>3 DEF OrderRight
  <2> QED BY <2>5, <2>6, <2>7, <2>8 DEF OrderRight
<1>12. CASE AdmitConnection
  <2> DEFINE k == acceptor.fd
             free == {s \in StreamSlots : ~clients[s].active}
             slot == CHOOSE s \in free : \A r \in free : s <= r
  <2>0. k \in Peers /\ acceptor.at = "drain" /\ Unserved(k) /\ got[k] = <<>>
        /\ UNCHANGED <<streamer, sending, got, events>>
    BY <1>12 DEF AdmitConnection, WaitingRight, Unserved
  <2>1. CASE free = {}
    <3>1. UNCHANGED <<clients, since>> BY <1>12, <2>1 DEF AdmitConnection
    <3> QED BY <1>1, <2>0, <3>1
  <2>2. CASE free # {}
    <3>1. slot \in StreamSlots /\ ~clients[slot].active BY <2>2, FirstFree
    <3>2. /\ clients' = [clients EXCEPT ![slot] = Occupy(@, k)]
          /\ since' = [since EXCEPT ![k] = events]
      BY <1>12, <2>2 DEF AdmitConnection
    <3> HIDE DEF slot
    <3>3. clients'[slot] = [active |-> TRUE, fd |-> k, pending_json |-> 0]
          /\ \A s \in StreamSlots \ {slot} : clients'[s] = clients[s]
      BY <3>1, <3>2 DEF Occupy, StreamTypes
    <3>4. streamer[slot] = "none" /\ sending[slot] = 0 BY <2>0, <3>1 DEF SlotsRight
    <3>5. \A s \in StreamSlots : clients[s].fd # k BY <2>0, StreamFacts DEF SlotsRight
    <3>6. since'[k] = events /\ \A j \in Peers \ {k} : since'[j] = since[j]
      BY <2>0, <3>2 DEF StreamTypes
    <3>7. \A j \in Peers : Newer(j, events + 1)'
      <4> SUFFICES ASSUME NEW j \in Peers PROVE Newer(j, events + 1)' OBVIOUS
      <4>1. CASE j = k
        <5>1. DOMAIN got'[k] = {} BY <2>0
        <5>2. events < events + 1 BY DEF StreamTypes
        <5> QED BY <2>0, <3>6, <4>1, <5>1, <5>2 DEF Newer
      <4>2. CASE j # k
        <5>1. Newer(j, events + 1) BY DEF OrderRight
        <5> QED BY <2>0, <3>6, <4>2, <5>1 DEF Newer
      <4> QED BY <4>1, <4>2
    <3>8. \A s \in StreamSlots : clients'[s].pending_json <= events' /\ sending'[s] <= events'
      <4>1. 0 <= events BY DEF StreamTypes
      <4> QED BY <2>0, <3>3, <4>1 DEF OrderRight
    <3>9. ASSUME NEW s \in StreamSlots, clients'[s].fd # 0
          PROVE  /\ sending'[s] # 0 => Newer(clients[s].fd, sending[s])'
                 /\ clients'[s].pending_json # 0 =>
                      /\ clients'[s].pending_json > sending'[s]
                      /\ Newer(clients[s].fd, clients[s].pending_json)'
      <4>1. CASE s = slot BY <2>0, <3>3, <3>4, <4>1
      <4>2. CASE s # slot
        <5>1. clients'[s] = clients[s] /\ clients[s].fd \in Peers \ {k}
          BY <3>3, <3>5, <3>9, <4>2 DEF StreamTypes, Client
        <5>2. since'[clients[s].fd] = since[clients[s].fd] BY <3>6, <5>1
        <5> QED BY <2>0, <3>9, <5>1, <5>2 DEF OrderRight, Newer
      <4> QED BY <4>1, <4>2
    <3>10. \A s \in StreamSlots : streamer'[s] = "send" => sending'[s] # 0
      BY <2>0 DEF OrderRight
    <3> QED BY <3>7, <3>8, <3>9, <3>10 DEF OrderRight
  <2> QED BY <2>1, <2>2
<1>13. ASSUME NEW s \in StreamSlots, SendChunk(s) PROVE OrderRight'
  <2> PICK k \in Peers \cup {0} : k = clients[s].fd BY DEF StreamTypes, Client
  <2>1. /\ UNCHANGED <<clients, since, events>> /\ sending' = [sending EXCEPT ![s] = 0]
        /\ streamer[s] = "send" /\ sending[s] # 0
    BY <1>13 DEF SendChunk, OrderRight
  <2>2. sending'[s] = 0 /\ \A r \in StreamSlots \ {s} : sending'[r] = sending[r]
    BY <2>1 DEF StreamTypes
  <2>3. streamer'[s] # "send" /\ \A r \in StreamSlots \ {s} : streamer'[r] = streamer[r]
    BY <1>13 DEF SendChunk, StreamTypes
  <2>4. /\ \A j \in Peers \ {k} : got'[j] = got[j]
        /\ k \in Peers => got'[k] = got[k] \/ got'[k] = Append(got[k], sending[s])
    BY <1>13 DEF SendChunk, StreamTypes
  <2>5. k \in Peers => \A e \in Nat : Newer(k, e) /\ sending[s] < e => Newer(k, e)'
    <3> SUFFICES ASSUME k \in Peers, NEW e \in Nat, Newer(k, e), sending[s] < e
                 PROVE  Newer(k, e)'
      OBVIOUS
    <3>1. got[k] \in Seq(Nat) /\ sending[s] \in Nat BY DEF StreamTypes
    <3>2. \A i \in DOMAIN got'[k] : got'[k][i] = sending[s] \/ (i \in DOMAIN got[k] /\ got'[k][i] = got[k][i])
      <4>1. CASE got'[k] = got[k] BY <4>1
      <4>2. CASE got'[k] = Append(got[k], sending[s]) BY <3>1, <4>2
      <4> QED BY <2>4, <4>1, <4>2
    <3> QED BY <2>1, <3>2 DEF Newer
  <2>6. events \in Nat /\ \A r \in StreamSlots : sending[r] \in Nat /\ clients[r].pending_json \in Nat
    BY DEF StreamTypes, Client
  <2>7. \A j \in Peers : Newer(j, events + 1)'
    <3> SUFFICES ASSUME NEW j \in Peers PROVE Newer(j, events + 1)' OBVIOUS
    <3>1. Newer(j, events + 1) BY DEF OrderRight
    <3>2. CASE j # k BY <2>1, <2>4, <3>1, <3>2 DEF Newer
    <3>3. CASE j = k
      <4>1. sending[s] < events + 1 /\ events + 1 \in Nat BY <2>6 DEF OrderRight
      <4>2. Newer(k, events + 1) /\ k \in Peers BY <3>1, <3>3
      <4>3. PICK e \in Nat : e = events + 1 BY <4>1
      <4>4. Newer(k, e)' BY <2>5, <4>1, <4>2, <4>3
      <4> QED BY <2>1, <3>3, <4>3, <4>4 DEF Newer
    <3> QED BY <3>2, <3>3
  <2>8. \A r \in StreamSlots : clients'[r].pending_json <= events' /\ sending'[r] <= events'
    BY <2>1, <2>2, <2>6 DEF OrderRight
  <2>9. ASSUME NEW r \in StreamSlots, clients'[r].fd # 0
        PROVE  /\ sending'[r] # 0 => Newer(clients[r].fd, sending[r])'
               /\ clients'[r].pending_json # 0 =>
                    /\ clients'[r].pending_json > sending'[r]
                    /\ Newer(clients[r].fd, clients[r].pending_json)'
    <3>1. CASE r = s
      <4>1. k \in Peers BY <2>1, <2>9, <3>1 DEF StreamTypes, Client
      <4>2. CASE clients[s].pending_json # 0
        <5>1. clients[s].pending_json > sending[s] /\ Newer(k, clients[s].pending_json)
          BY <2>1, <2>9, <3>1, <4>2 DEF OrderRight
        <5>2. PICK e \in Nat : e = clients[s].pending_json BY <2>6
        <5>3. Newer(k, e) /\ sending[s] < e /\ e > 0 BY <2>6, <4>2, <5>1, <5>2
        <5>4. \A i \in DOMAIN got'[k] : got'[k][i] < e BY <2>5, <4>1, <5>3, <2>1 DEF Newer
        <5>5. Newer(clients[r].fd, clients[r].pending_json)'
          BY <2>1, <3>1, <5>2, <5>3, <5>4 DEF Newer
        <5> QED BY <2>1, <2>2, <3>1, <5>2, <5>3, <5>5
      <4> QED BY <2>1, <2>2, <3>1, <4>2
    <3>2. CASE r # s
      <4>1. clients[r].fd \in Peers \ {k} BY <2>1, <2>9, <3>2 DEF StreamTypes, Client, SlotsRight
      <4>2. got'[clients[r].fd] = got[clients[r].fd] BY <2>4, <4>1
      <4> QED BY <2>1, <2>2, <2>9, <3>2, <4>1, <4>2 DEF OrderRight, Newer
    <3> QED BY <3>1, <3>2
  <2>10. \A r \in StreamSlots : streamer'[r] = "send" => sending'[r] # 0
    BY <2>2, <2>3 DEF OrderRight
  <2> QED BY <2>7, <2>8, <2>9, <2>10 DEF OrderRight
<1> QED BY <1>2, <1>3, <1>4, <1>5, <1>6, <1>7, <1>8, <1>9, <1>10, <1>11, <1>12, <1>13
        DEF AsNext, AcceptThread, ClientThread

\* What a connection gets is in order.
LEMMA InOrderStep ==
  ASSUME StreamTypes, WaitingRight, SlotsRight, OrderRight, StreamInOrder, [AsNext]_asVars
  PROVE  StreamInOrder'
<1>1. ASSUME \A k \in Peers : got'[k] = <<>> \/ (got'[k] = got[k] /\ since'[k] = since[k])
      PROVE  StreamInOrder'
  BY <1>1 DEF StreamInOrder
<1>2. ASSUME UNCHANGED <<got, since>> PROVE StreamInOrder' BY <1>1, <1>2
<1>3. CASE AdmitConnection
  <2>1. got' = got /\ (since' = since \/ since' = [since EXCEPT ![acceptor.fd] = events])
        /\ got[acceptor.fd] = <<>>
    BY <1>3 DEF AdmitConnection, WaitingRight, Unserved
  <2>2. ASSUME NEW k \in Peers PROVE got'[k] = <<>> \/ (got'[k] = got[k] /\ since'[k] = since[k])
    <3>1. CASE k = acceptor.fd BY <2>1, <3>1
    <3>2. CASE k # acceptor.fd
      <4>1. since'[k] = since[k] BY <2>1, <3>2 DEF StreamTypes
      <4> QED BY <2>1, <4>1
    <3> QED BY <3>1, <3>2
  <2> QED BY <1>1, <2>2
<1>4. ASSUME NEW s \in StreamSlots, SendChunk(s) PROVE StreamInOrder'
  <2> DEFINE k == clients[s].fd
  <2>1. /\ since' = since /\ sending[s] # 0 /\ sending[s] \in Nat
    BY <1>4 DEF SendChunk, OrderRight, StreamTypes
  <2>2. got' = got \/ (k # 0 /\ got' = [got EXCEPT ![k] = Append(@, sending[s])])
    <3>1. got' = got \/ (k # 0 /\ got' = [got EXCEPT ![k] = IF peer[k] = "asked" THEN Append(@, sending[s])
                                                           ELSE @])
      BY <1>4 DEF SendChunk, SendWorks
    <3> QED BY <3>1 DEF StreamTypes
  <2>3. CASE k # 0 /\ got' = [got EXCEPT ![k] = Append(@, sending[s])]
    <3>1. k \in Peers /\ Newer(k, sending[s]) /\ got[k] \in Seq(Nat)
      BY <2>1, <2>3 DEF StreamTypes, Client, OrderRight
    <3> HIDE DEF k
    <3>2. got'[k] = Append(got[k], sending[s]) /\ \A j \in Peers \ {k} : got'[j] = got[j]
      BY <2>3, <3>1 DEF StreamTypes
    <3>3. /\ Len(got'[k]) = Len(got[k]) + 1 /\ got'[k][Len(got[k]) + 1] = sending[s]
          /\ \A i \in 1 .. Len(got[k]) : got'[k][i] = got[k][i]
          /\ Len(got[k]) \in Nat /\ DOMAIN got[k] = 1 .. Len(got[k])
      BY <2>1, <3>1, <3>2
    <3>4. ASSUME NEW i \in 1 .. Len(got'[k])
          PROVE  got'[k][i] > (IF i = 1 THEN since[k] ELSE got'[k][i - 1])
      <4>1. CASE i = Len(got[k]) + 1
        <5>1. since[k] < sending[s] BY <3>1 DEF Newer
        <5>2. i # 1 => i - 1 \in DOMAIN got[k] BY <3>3, <4>1
        <5>3. i # 1 => got'[k][i - 1] < sending[s] BY <3>1, <3>3, <5>2 DEF Newer
        <5> QED BY <2>1, <3>1, <3>3, <4>1, <5>1, <5>2, <5>3 DEF StreamTypes
      <4>2. CASE i \in 1 .. Len(got[k])
        <5>1. got[k][i] > (IF i = 1 THEN since[k] ELSE got[k][i - 1])
          BY <3>1, <4>2 DEF StreamInOrder
        <5>2. i # 1 => i - 1 \in 1 .. Len(got[k]) BY <3>3, <4>2
        <5> QED BY <3>3, <4>2, <5>1, <5>2
      <4> QED BY <3>3, <4>1, <4>2
    <3> QED BY <2>1, <3>2, <3>4 DEF StreamInOrder
  <2> QED BY <1>2, <2>1, <2>2, <2>3
<1>5. CASE AcceptConnection BY <1>2, <1>5 DEF AcceptConnection
<1>6. CASE CreateThread BY <1>2, <1>6 DEF CreateThread
<1>7. CASE GiveUpSlot BY <1>2, <1>7 DEF GiveUpSlot
<1>8. ASSUME NEW s \in StreamSlots, Greet(s) \/ Check(s) \/ Leave(s) PROVE StreamInOrder'
  BY <1>2, <1>8 DEF Greet, Check, Leave
<1>9. ASSUME NEW k \in Peers, PeerConnects(k) \/ PeerMoves(k) PROVE StreamInOrder'
  BY <1>2, <1>9 DEF PeerConnects, PeerMoves
<1>10. CASE AlertStream_Broadcast \/ AlertStream_Cleanup
  BY <1>2, <1>10 DEF AlertStream_Broadcast, AlertStream_Cleanup
<1>11. CASE UNCHANGED asVars BY <1>2, <1>11 DEF asVars
<1> QED BY <1>3, <1>4, <1>5, <1>6, <1>7, <1>8, <1>9, <1>10, <1>11
        DEF AsNext, AcceptThread, ClientThread

\* A listener sees events in the order of the broadcasts, none twice and none from before
\* its slot, for any number of slots, connections and events (client_thread_fn).
THEOREM StreamOrdered == AsSpec => []StreamInOrder
<1>1. AsInit => StreamTypes /\ StreamInv
  <2> SUFFICES ASSUME AsInit PROVE StreamTypes /\ StreamInv OBVIOUS
  <2>1. StreamTypes
    BY StreamRecords, StreamFacts DEF AsInit, StreamTypes, Place
  <2>2. WaitingRight BY DEF AsInit, WaitingRight, Waiting
  <2>3. SlotsRight BY DEF AsInit, SlotsRight, Waiting, FreeSlot
  <2>4. OrderRight BY DEF AsInit, OrderRight, Newer, FreeSlot
  <2>5. StreamInOrder BY DEF AsInit, StreamInOrder
  <2> QED BY <2>1, <2>2, <2>3, <2>4, <2>5 DEF StreamInv
<1>2. StreamTypes /\ StreamInv /\ [AsNext]_asVars => StreamTypes' /\ StreamInv'
  BY StreamTypeStep, WaitingStep, SlotsStep, OrderStep, InOrderStep DEF StreamInv
<1>3. StreamInv => StreamInOrder BY DEF StreamInv
<1> QED BY <1>1, <1>2, <1>3, PTL DEF AsSpec

(***************************************************************************)
(* The Modbus pool.                                                        *)
(***************************************************************************)

\* Types of the pool's state; a request is named by its thread and its number.
Request == [thread : MbThreads, n : Nat]
PoolTypes ==
  /\ pool \in Seq([key : Targets, connected : BOOLEAN])
  /\ wire \in Seq(Seq(Request)) /\ Len(wire) = Len(pool)
  /\ inbox \in Seq(Seq(Request)) /\ Len(inbox) = Len(pool)
  /\ mutex \in MbThreads \cup {"free"}
  /\ mb \in [MbThreads -> [at : {"idle", "got", "sent", "failed"}, slot : Nat,
                           kind : {"read", "write"}]]
  /\ asked \in [MbThreads -> Nat]
  /\ \A t \in MbThreads : mb[t].at # "idle" => mb[t].slot \in 1 .. Len(pool)

\* The thread whose request is under way holds the mutex.
MutexRight == \A t \in MbThreads : mb[t].at = "sent" <=> mutex = t

\* One answer at most is under way, that of the request being made.
AlignedAt(s) ==
  \/ Failing(s)
  \/ /\ Len(wire[s]) + Len(inbox[s]) <= 1
     /\ \A a \in Owed(s) : /\ mb[a.thread].at = "sent" /\ mb[a.thread].slot = s
                           /\ a.n = asked[a.thread]

\* The inductive invariant.
PoolInv == MutexRight /\ \A s \in 1 .. Len(pool) : AlignedAt(s)

\* Sequences of requests and of slots, by their elements.
LEMMA QueueFacts ==
  /\ \A q \in Seq(Request) :
       /\ Len(q) \in Nat
       /\ \A a \in Request : /\ Append(q, a) \in Seq(Request) /\ Len(Append(q, a)) = Len(q) + 1
                             /\ \A k \in 1 .. Len(q) + 1 :
                                  Append(q, a)[k] = IF k = Len(q) + 1 THEN a ELSE q[k]
       /\ q # <<>> => /\ Tail(q) \in Seq(Request) /\ Len(Tail(q)) = Len(q) - 1
                      /\ \A k \in 1 .. Len(q) - 1 : Tail(q)[k] = q[k + 1]
                      /\ Head(q) = q[1] /\ q[1] \in Request /\ Len(q) > 0
  /\ <<>> \in Seq(Request) /\ Len(<<>>) = 0
OBVIOUS

\* The elements of a sequence over a set.
LEMMA Elements ==
  ASSUME NEW S, NEW q \in Seq(S)
  PROVE  \A i \in 1 .. Len(q) : q[i] \in S
OBVIOUS

\* Writing one element of a sequence, or adding one.
LEMMA OneSlot ==
  ASSUME NEW S, NEW q \in Seq(S), NEW x \in S
  PROVE  /\ \A s \in 1 .. Len(q) : /\ [q EXCEPT ![s] = x] \in Seq(S)
                                   /\ Len([q EXCEPT ![s] = x]) = Len(q)
                                   /\ \A r \in 1 .. Len(q) :
                                        [q EXCEPT ![s] = x][r] = IF r = s THEN x ELSE q[r]
         /\ Append(q, x) \in Seq(S) /\ Len(Append(q, x)) = Len(q) + 1
         /\ \A r \in 1 .. Len(q) : Append(q, x)[r] = q[r]
         /\ Append(q, x)[Len(q) + 1] = x
         /\ Len(q) \in Nat
OBVIOUS

\* What the types say of one slot.
LEMMA SlotTypes ==
  ASSUME PoolTypes
  PROVE  /\ Len(pool) \in Nat
         /\ \A s \in 1 .. Len(pool) : /\ pool[s] \in [key : Targets, connected : BOOLEAN]
                                      /\ wire[s] \in Seq(Request)
                                      /\ inbox[s] \in Seq(Request)
         /\ \A s \in 1 .. Len(pool), c \in BOOLEAN :
              /\ [pool EXCEPT ![s].connected = c] \in Seq([key : Targets, connected : BOOLEAN])
              /\ Len([pool EXCEPT ![s].connected = c]) = Len(pool)
<1> DEFINE S == [key : Targets, connected : BOOLEAN]
<1>1. \A q : q \in Seq(S) => \A i \in 1 .. Len(q) : q[i] \in S BY Elements
<1>2. \A q : q \in Seq(Seq(Request)) => \A i \in 1 .. Len(q) : q[i] \in Seq(Request) BY Elements
<1>3. Len(pool) \in Nat BY DEF PoolTypes
<1>4. ASSUME NEW s \in 1 .. Len(pool), NEW c \in BOOLEAN
      PROVE  /\ [pool EXCEPT ![s].connected = c] \in Seq(S)
             /\ Len([pool EXCEPT ![s].connected = c]) = Len(pool)
  <2>1. [pool[s] EXCEPT !.connected = c] \in S BY <1>1 DEF PoolTypes
  <2>2. [pool EXCEPT ![s].connected = c] = [pool EXCEPT ![s] = [pool[s] EXCEPT !.connected = c]]
    OBVIOUS
  <2> HIDE DEF S
  <2>3. pool \in Seq(S) BY DEF PoolTypes, S
  <2> QED BY <2>1, <2>2, <2>3, OneSlot
<1> QED BY <1>1, <1>2, <1>3, <1>4 DEF PoolTypes

\* A call that ends, or moves on in its slot.
LEMMA CallTypes ==
  ASSUME PoolTypes, NEW t \in MbThreads, UNCHANGED pool,
         \/ \E at \in {"sent", "failed"} : mb[t].at # "idle" /\ mb' = [mb EXCEPT ![t].at = at]
         \/ mb' = [mb EXCEPT ![t] = MbQuiet]
  PROVE  /\ mb' \in [MbThreads -> [at : {"idle", "got", "sent", "failed"}, slot : Nat,
                                   kind : {"read", "write"}]]
         /\ \A u \in MbThreads : mb'[u].at # "idle" => mb'[u].slot \in 1 .. Len(pool')
         /\ \A u \in MbThreads \ {t} : mb'[u] = mb[u]
<1>1. CASE mb' = [mb EXCEPT ![t] = MbQuiet] BY <1>1 DEF PoolTypes, MbQuiet
<1>2. ASSUME NEW at \in {"sent", "failed"}, mb[t].at # "idle", mb' = [mb EXCEPT ![t].at = at]
      PROVE  /\ mb' \in [MbThreads -> [at : {"idle", "got", "sent", "failed"}, slot : Nat,
                                       kind : {"read", "write"}]]
             /\ \A u \in MbThreads : mb'[u].at # "idle" => mb'[u].slot \in 1 .. Len(pool')
             /\ \A u \in MbThreads \ {t} : mb'[u] = mb[u]
  <2>1. \A u \in MbThreads \ {t} : mb'[u] = mb[u] BY <1>2 DEF PoolTypes
  <2>2. mb'[t] = [mb[t] EXCEPT !.at = at] BY <1>2 DEF PoolTypes
  <2>3. mb'[t].slot = mb[t].slot /\ mb'[t] \in [at : {"idle", "got", "sent", "failed"}, slot : Nat,
                                                kind : {"read", "write"}]
    BY <1>2, <2>2 DEF PoolTypes
  <2>4. \A u \in MbThreads : mb'[u] \in [at : {"idle", "got", "sent", "failed"}, slot : Nat,
                                          kind : {"read", "write"}]
    BY <2>1, <2>3 DEF PoolTypes
  <2>5. \A u \in MbThreads : mb'[u].at # "idle" => mb'[u].slot \in 1 .. Len(pool')
    BY <1>2, <2>1, <2>3 DEF PoolTypes
  <2> QED BY <1>2, <2>1, <2>4, <2>5 DEF PoolTypes
<1> QED BY <1>1, <1>2

\* A step keeps the types.
LEMMA PoolTypeStep ==
  ASSUME PoolTypes, [MbNext]_mbVars
  PROVE  PoolTypes'
<1>0. Len(pool) \in Nat BY DEF PoolTypes
<1>1. ASSUME NEW t \in MbThreads, NEW key \in Targets, NEW kind \in {"read", "write"},
             modbus_pool_get(t, key, kind)
      PROVE  PoolTypes'
  <2>1. CASE SlotOf(key) # {}
    <3>1. (CHOOSE i \in SlotOf(key) : TRUE) \in 1 .. Len(pool) BY <2>1 DEF SlotOf
    <3>2. PICK s \in 1 .. Len(pool) : mb' = [mb EXCEPT ![t] = [at |-> "got", slot |-> s, kind |-> kind]]
      <4>1. mb' = [mb EXCEPT ![t] = [at |-> "got", slot |-> CHOOSE i \in SlotOf(key) : TRUE,
                                     kind |-> kind]]
        BY <1>1, <2>1 DEF modbus_pool_get
      <4> QED BY <3>1, <4>1
    <3>3. UNCHANGED <<pool, wire, inbox, mutex, asked>> BY <1>1, <2>1 DEF modbus_pool_get
    <3> QED BY <1>0, <3>2, <3>3 DEF PoolTypes
  <2>2. CASE SlotOf(key) = {}
    <3>1. /\ pool' = Append(pool, [key |-> key, connected |-> FALSE])
          /\ wire' = Append(wire, <<>>) /\ inbox' = Append(inbox, <<>>)
          /\ mb' = [mb EXCEPT ![t] = [at |-> "got", slot |-> Len(pool) + 1, kind |-> kind]]
          /\ UNCHANGED <<mutex, asked>>
      BY <1>1, <2>2 DEF modbus_pool_get
    <3>2. /\ pool' \in Seq([key : Targets, connected : BOOLEAN]) /\ Len(pool') = Len(pool) + 1
      BY <3>1 DEF PoolTypes
    <3>3. wire' \in Seq(Seq(Request)) /\ Len(wire') = Len(wire) + 1
      BY <3>1, QueueFacts DEF PoolTypes
    <3>4. inbox' \in Seq(Seq(Request)) /\ Len(inbox') = Len(inbox) + 1
      BY <3>1, QueueFacts DEF PoolTypes
    <3>5. mb' \in [MbThreads -> [at : {"idle", "got", "sent", "failed"}, slot : Nat,
                                 kind : {"read", "write"}]]
      BY <1>0, <3>1 DEF PoolTypes
    <3>6. \A u \in MbThreads : mb'[u].at # "idle" => mb'[u].slot \in 1 .. Len(pool')
      BY <1>0, <3>1, <3>2 DEF PoolTypes
    <3> QED BY <3>1, <3>2, <3>3, <3>4, <3>5, <3>6 DEF PoolTypes
  <2> QED BY <2>1, <2>2
<1>2. ASSUME NEW t \in MbThreads, MbSend(t) PROVE PoolTypes'
  <2> DEFINE s == mb[t].slot
             n == asked[t] + 1
  <2>1. s \in 1 .. Len(pool) /\ n \in Nat /\ asked' = [asked EXCEPT ![t] = n]
    BY <1>2 DEF MbSend, PoolTypes
  <2>2. asked' \in [MbThreads -> Nat] BY <2>1 DEF PoolTypes
  <2>3. CASE UNCHANGED <<mutex, pool, wire, inbox>> /\ mb' = [mb EXCEPT ![t].at = "failed"]
    BY <1>2, <2>2, <2>3, CallTypes DEF PoolTypes, MbSend
  <2>4. CASE /\ mutex' = t /\ mb' = [mb EXCEPT ![t].at = "sent"]
             /\ pool' = [pool EXCEPT ![s].connected = TRUE]
             /\ wire' = [wire EXCEPT ![s] = Append(@, [thread |-> t, n |-> n])]
             /\ inbox' = [inbox EXCEPT ![s] = Flushed(s)]
    <3>1. [thread |-> t, n |-> n] \in Request BY <2>1 DEF Request
    <3>2. Append(wire[s], [thread |-> t, n |-> n]) \in Seq(Request)
      BY <2>1, <3>1, SlotTypes, QueueFacts
    <3>3. wire' \in Seq(Seq(Request)) /\ Len(wire') = Len(wire)
      BY <2>1, <2>4, <3>2, OneSlot DEF PoolTypes
    <3>4. Flushed(s) \in Seq(Request) BY <2>1, SlotTypes, QueueFacts DEF Flushed
    <3>5. inbox' \in Seq(Seq(Request)) /\ Len(inbox') = Len(inbox)
      BY <2>1, <2>4, <3>4, OneSlot DEF PoolTypes
    <3>6. pool' \in Seq([key : Targets, connected : BOOLEAN]) /\ Len(pool') = Len(pool)
      BY <2>1, <2>4, SlotTypes
    <3>7. /\ mb' \in [MbThreads -> [at : {"idle", "got", "sent", "failed"}, slot : Nat,
                                    kind : {"read", "write"}]]
          /\ \A u \in MbThreads : mb'[u].at # "idle" => mb'[u].slot \in 1 .. Len(pool')
      BY <2>1, <2>4, <3>6 DEF PoolTypes
    <3> QED BY <2>2, <2>4, <3>3, <3>5, <3>6, <3>7 DEF PoolTypes
  <2> QED BY <1>2, <2>3, <2>4 DEF MbSend
<1>3. ASSUME NEW t \in MbThreads, MbReceive(t) PROVE PoolTypes'
  <2> DEFINE s == mb[t].slot
  <2>1. s \in 1 .. Len(pool) /\ inbox[s] # <<>> BY <1>3 DEF MbReceive, PoolTypes
  <2>2. Tail(inbox[s]) \in Seq(Request) BY <2>1, SlotTypes, QueueFacts
  <2>3. inbox' = [inbox EXCEPT ![s] = Tail(inbox[s])] BY <1>3 DEF MbReceive
  <2>4. inbox' \in Seq(Seq(Request)) /\ Len(inbox') = Len(inbox)
    BY <2>1, <2>2, <2>3, OneSlot DEF PoolTypes
  <2> QED BY <1>3, <2>4, CallTypes DEF MbReceive, PoolTypes
<1>4. ASSUME NEW t \in MbThreads, MbTimeout(t) PROVE PoolTypes'
  BY <1>4, CallTypes DEF MbTimeout, PoolTypes
<1>5. ASSUME NEW t \in MbThreads, modbus_pool_invalidate(t) PROVE PoolTypes'
  <2> DEFINE s == mb[t].slot
  <2>1. s \in 1 .. Len(pool) BY <1>5 DEF modbus_pool_invalidate, PoolTypes
  <2>2. wire' = [wire EXCEPT ![s] = <<>>] /\ inbox' = [inbox EXCEPT ![s] = <<>>]
    BY <1>5 DEF modbus_pool_invalidate
  <2>3. wire' \in Seq(Seq(Request)) /\ Len(wire') = Len(wire)
    BY <2>1, <2>2, QueueFacts, OneSlot DEF PoolTypes
  <2>4. inbox' \in Seq(Seq(Request)) /\ Len(inbox') = Len(inbox)
    BY <2>1, <2>2, QueueFacts, OneSlot DEF PoolTypes
  <2>5. pool' \in Seq([key : Targets, connected : BOOLEAN]) /\ Len(pool') = Len(pool)
    BY <1>5, <2>1, SlotTypes DEF modbus_pool_invalidate
  <2>6. /\ mb' \in [MbThreads -> [at : {"idle", "got", "sent", "failed"}, slot : Nat,
                                  kind : {"read", "write"}]]
        /\ \A u \in MbThreads : mb'[u].at # "idle" => mb'[u].slot \in 1 .. Len(pool')
    BY <1>5, <2>5 DEF PoolTypes, modbus_pool_invalidate, MbQuiet
  <2> QED BY <1>5, <2>3, <2>4, <2>5, <2>6 DEF PoolTypes, modbus_pool_invalidate
<1>6. ASSUME NEW s \in 1 .. Len(pool), DeviceAnswers(s) \/ DeviceSilent(s) PROVE PoolTypes'
  <2>1. wire[s] # <<>> /\ wire' = [wire EXCEPT ![s] = Tail(wire[s])]
        /\ UNCHANGED <<pool, mutex, mb, asked>>
    BY <1>6 DEF DeviceAnswers, DeviceSilent
  <2>2. Tail(wire[s]) \in Seq(Request) /\ Append(inbox[s], Head(wire[s])) \in Seq(Request)
    BY <2>1, SlotTypes, QueueFacts
  <2>3. wire' \in Seq(Seq(Request)) /\ Len(wire') = Len(wire)
    BY <2>1, <2>2, OneSlot DEF PoolTypes
  <2>4. inbox' = inbox \/ inbox' = [inbox EXCEPT ![s] = Append(inbox[s], Head(wire[s]))]
    BY <1>6 DEF DeviceAnswers, DeviceSilent
  <2>5. inbox' \in Seq(Seq(Request)) /\ Len(inbox') = Len(inbox)
    <3>1. CASE inbox' = inbox BY <3>1 DEF PoolTypes
    <3>2. CASE inbox' = [inbox EXCEPT ![s] = Append(inbox[s], Head(wire[s]))]
      BY <2>2, <3>2, OneSlot DEF PoolTypes
    <3> QED BY <2>4, <3>1, <3>2
  <2> QED BY <2>1, <2>3, <2>5 DEF PoolTypes
<1>7. CASE UNCHANGED mbVars BY <1>7 DEF mbVars, PoolTypes
<1> QED BY <1>1, <1>2, <1>3, <1>4, <1>5, <1>6, <1>7 DEF MbNext

\* A step keeps the mutex with the thread whose request is under way.
LEMMA MutexStep ==
  ASSUME PoolTypes, MutexRight, [MbNext]_mbVars
  PROVE  MutexRight'
<1>0. "free" \notin MbThreads BY DEF MbThreads
<1>1. ASSUME NEW t \in MbThreads, \A u \in MbThreads \ {t} : mb'[u] = mb[u],
             \/ mb[t].at # "sent" /\ mb'[t].at # "sent" /\ mutex' = mutex
             \/ mutex = "free" /\ mb'[t].at = "sent" /\ mutex' = t
             \/ mb[t].at = "sent" /\ mb'[t].at # "sent" /\ mutex' = "free"
      PROVE  MutexRight'
  BY <1>0, <1>1 DEF MutexRight
<1>2. ASSUME NEW t \in MbThreads, NEW key \in Targets, NEW kind \in {"read", "write"},
             modbus_pool_get(t, key, kind)
      PROVE  MutexRight'
  BY <1>1, <1>2 DEF modbus_pool_get, PoolTypes
<1>3. ASSUME NEW t \in MbThreads, MbSend(t) PROVE MutexRight'
  <2>1. CASE mutex' = t /\ mb' = [mb EXCEPT ![t].at = "sent"]
    BY <1>1, <1>3, <2>1 DEF MbSend, PoolTypes
  <2>2. CASE mutex' = mutex /\ mb' = [mb EXCEPT ![t].at = "failed"]
    BY <1>1, <1>3, <2>2 DEF MbSend, PoolTypes
  <2> QED BY <1>3, <2>1, <2>2 DEF MbSend
<1>4. ASSUME NEW t \in MbThreads, MbReceive(t) \/ MbTimeout(t) PROVE MutexRight'
  <2>1. mb[t].at = "sent" /\ mutex' = "free" BY <1>4 DEF MbReceive, MbTimeout
  <2>2. mb' = [mb EXCEPT ![t] = MbQuiet] \/ mb' = [mb EXCEPT ![t].at = "failed"]
    BY <1>4 DEF MbReceive, MbTimeout
  <2>3. mb'[t].at # "sent" /\ \A u \in MbThreads \ {t} : mb'[u] = mb[u]
    <3>1. CASE mb' = [mb EXCEPT ![t] = MbQuiet] BY <3>1 DEF PoolTypes, MbQuiet
    <3>2. CASE mb' = [mb EXCEPT ![t].at = "failed"] BY <3>2 DEF PoolTypes
    <3> QED BY <2>2, <3>1, <3>2
  <2> QED BY <1>1, <2>1, <2>3
<1>5. ASSUME NEW t \in MbThreads, modbus_pool_invalidate(t) PROVE MutexRight'
  BY <1>1, <1>5 DEF modbus_pool_invalidate, PoolTypes, MbQuiet
<1>6. ASSUME NEW s \in 1 .. Len(pool), DeviceAnswers(s) \/ DeviceSilent(s) PROVE MutexRight'
  BY <1>6 DEF DeviceAnswers, DeviceSilent, MutexRight
<1>7. CASE UNCHANGED mbVars BY <1>7 DEF mbVars, MutexRight
<1> QED BY <1>2, <1>3, <1>4, <1>5, <1>6, <1>7 DEF MbNext

\* Two lengths that add up to one.
LEMMA OneInAll == \A m, n \in Nat : m + n <= 1 => (n # 0 => m = 0 /\ n = 1) /\ (m # 0 => m = 1 /\ n = 0)
OBVIOUS

\* Who is owed an answer; nobody is if both queues are empty.
LEMMA OwedFacts ==
  ASSUME PoolTypes, NEW s \in 1 .. Len(pool)
  PROVE  /\ \A a \in Owed(s) : a.thread \in MbThreads
         /\ Len(wire[s]) \in Nat /\ Len(inbox[s]) \in Nat
         /\ wire[s] # <<>> => Len(wire[s]) # 0 /\ Len(Tail(wire[s])) = Len(wire[s]) - 1
         /\ inbox[s] # <<>> => Len(inbox[s]) # 0 /\ Len(Tail(inbox[s])) = Len(inbox[s]) - 1
<1>1. wire[s] \in Seq(Request) /\ inbox[s] \in Seq(Request) BY SlotTypes
<1>2. \A a \in Owed(s) : a \in Request
  <2>1. /\ \A k \in 1 .. Len(wire[s]) : wire[s][k] \in Request
        /\ \A k \in 1 .. Len(inbox[s]) : inbox[s][k] \in Request
    BY <1>1, Elements
  <2> QED BY <2>1 DEF Owed
<1>3. \A a \in Request : a.thread \in MbThreads BY DEF Request
<1> QED BY <1>1, <1>2, <1>3

\* A call of thread t leaves a connection alone that it has not used.
LEMMA OtherSlotKept ==
  ASSUME PoolTypes, NEW t \in MbThreads, NEW r \in 1 .. Len(pool), AlignedAt(r),
         \A u \in MbThreads \ {t} : mb'[u] = mb[u] /\ asked'[u] = asked[u],
         mb[t].at \in {"sent", "failed"} => mb[t].slot # r,
         wire'[r] = wire[r], inbox'[r] = inbox[r]
  PROVE  AlignedAt(r)'
<1>1. wire[r] \in Seq(Request) /\ inbox[r] \in Seq(Request) BY SlotTypes
<1>2. \A a \in Owed(r) : a.thread \in MbThreads BY OwedFacts
<1>3. Owed(r)' = Owed(r) BY DEF Owed
<1>4. CASE Failing(r)
  <2>1. PICK u \in MbThreads : mb[u].at = "failed" /\ mb[u].slot = r BY <1>4 DEF Failing
  <2>2. u # t BY <2>1
  <2> QED BY <2>1, <2>2 DEF AlignedAt, Failing
<1>5. CASE ~Failing(r)
  <2>1. \A a \in Owed(r) : /\ mb[a.thread].at = "sent" /\ mb[a.thread].slot = r
                           /\ a.n = asked[a.thread]
    BY <1>5 DEF AlignedAt
  <2>2. \A a \in Owed(r) : a.thread # t BY <2>1
  <2>3. \A a \in Owed(r)' : /\ mb'[a.thread].at = "sent" /\ mb'[a.thread].slot = r
                            /\ a.n = asked'[a.thread]
    BY <1>2, <1>3, <2>1, <2>2
  <2>4. Len(wire'[r]) + Len(inbox'[r]) <= 1 BY <1>5 DEF AlignedAt
  <2> QED BY <2>3, <2>4 DEF AlignedAt
<1> QED BY <1>4, <1>5

\* On a connection that is not about to be dropped, one answer at most is under way.
LEMMA AlignedStep ==
  ASSUME PoolTypes, MutexRight, \A s \in 1 .. Len(pool) : AlignedAt(s), [MbNext]_mbVars
  PROVE  \A s \in 1 .. Len(pool') : AlignedAt(s)'
<1>0. PoolTypes' /\ Len(pool) \in Nat /\ "free" \notin MbThreads
  BY PoolTypeStep DEF PoolTypes, MbThreads
<1>1. ASSUME NEW t \in MbThreads, NEW key \in Targets, NEW kind \in {"read", "write"},
             modbus_pool_get(t, key, kind), NEW r \in 1 .. Len(pool')
      PROVE  AlignedAt(r)'
  <2>1. mb[t].at = "idle" /\ \A u \in MbThreads \ {t} : mb'[u] = mb[u] /\ asked'[u] = asked[u]
    BY <1>1 DEF modbus_pool_get, PoolTypes
  <2>2. CASE pool' = pool /\ wire' = wire /\ inbox' = inbox
    BY <1>1, <2>1, <2>2, OtherSlotKept
  <2>3. CASE /\ pool' = Append(pool, [key |-> key, connected |-> FALSE])
             /\ wire' = Append(wire, <<>>) /\ inbox' = Append(inbox, <<>>)
    <3>1. Len(pool') = Len(pool) + 1 BY <2>3 DEF PoolTypes
    <3>2. CASE r # Len(pool) + 1
      <4>1. r \in 1 .. Len(pool) BY <1>0, <3>1, <3>2
      <4>2. wire'[r] = wire[r] /\ inbox'[r] = inbox[r]
        BY <2>3, <4>1, QueueFacts, OneSlot DEF PoolTypes
      <4> QED BY <2>1, <4>1, <4>2, OtherSlotKept
    <3>3. CASE r = Len(pool) + 1
      <4>1. wire'[r] = <<>> /\ inbox'[r] = <<>>
        BY <2>3, <3>3, QueueFacts, OneSlot DEF PoolTypes
      <4>2. Len(wire'[r]) + Len(inbox'[r]) <= 1 /\ Owed(r)' = {}
        BY <4>1 DEF Owed
      <4> QED BY <4>2 DEF AlignedAt
    <3> QED BY <3>2, <3>3
  <2> QED BY <1>1, <2>2, <2>3 DEF modbus_pool_get
<1>2. ASSUME NEW t \in MbThreads, MbSend(t), NEW r \in 1 .. Len(pool') PROVE AlignedAt(r)'
  <2> PICK s \in 1 .. Len(pool) : s = mb[t].slot BY <1>2 DEF MbSend, PoolTypes
  <2> PICK n \in Nat : n = asked[t] + 1 BY DEF PoolTypes
  <2>1. /\ mb[t].at = "got" /\ mutex = "free" /\ Len(pool') = Len(pool)
        /\ asked' = [asked EXCEPT ![t] = n]
    BY <1>0, <1>2 DEF MbSend, PoolTypes
  <2>2. \A u \in MbThreads \ {t} : mb'[u] = mb[u] /\ asked'[u] = asked[u]
    BY <1>2 DEF MbSend, PoolTypes
  <2>3. \A u \in MbThreads : mb[u].at # "sent" BY <1>0, <2>1 DEF MutexRight
  <2>4. CASE wire' = wire /\ inbox' = inbox BY <2>1, <2>2, <2>4, OtherSlotKept
  <2>5. CASE /\ wire' = [wire EXCEPT ![s] = Append(wire[s], [thread |-> t, n |-> n])]
             /\ inbox' = [inbox EXCEPT ![s] = Flushed(s)]
             /\ mb' = [mb EXCEPT ![t].at = "sent"]
    <3> DEFINE mine == [thread |-> t, n |-> n]
    <3>1. mine \in Request /\ Append(wire[s], mine) \in Seq(Request) /\ Flushed(s) \in Seq(Request)
      BY SlotTypes, QueueFacts DEF Flushed, Request
    <3> HIDE DEF mine
    <3>2. wire'[s] = Append(wire[s], mine) /\ inbox'[s] = Flushed(s)
      <4>1. s \in DOMAIN wire /\ s \in DOMAIN inbox BY <2>1 DEF PoolTypes
      <4> QED BY <2>5, <4>1 DEF mine
    <3>3. CASE r # s
      <4>1. wire'[r] = wire[r] /\ inbox'[r] = inbox[r]
        BY <2>1, <2>5, <3>1, <3>3, OneSlot DEF PoolTypes, mine
      <4> QED BY <2>1, <2>2, <3>3, <4>1, OtherSlotKept
    <3>4. CASE r = s /\ Failing(s)
      <4>1. PICK u \in MbThreads : mb[u].at = "failed" /\ mb[u].slot = s BY <3>4 DEF Failing
      <4>2. u # t BY <2>1, <4>1
      <4> QED BY <2>2, <3>4, <4>1, <4>2 DEF AlignedAt, Failing
    <3>5. CASE r = s /\ ~Failing(s)
      <4>1. Owed(s) = {}
        <5>1. \A a \in Owed(s) : a.thread \in MbThreads /\ mb[a.thread].at = "sent"
          <6>2. \A a \in Owed(s) : a.thread \in MbThreads BY OwedFacts
          <6> QED BY <3>5, <6>2 DEF AlignedAt
        <5> QED BY <2>3, <5>1
      <4>2. Len(wire[s]) = 0 /\ Len(inbox[s]) = 0
        <5>1. Len(wire[s]) \in Nat /\ Len(inbox[s]) \in Nat BY SlotTypes, QueueFacts
        <5>2. \A q \in Seq(Request) : Len(q) # 0 => 1 \in 1 .. Len(q) BY QueueFacts
        <5>3. 1 \notin 1 .. Len(wire[s]) /\ 1 \notin 1 .. Len(inbox[s]) BY <4>1 DEF Owed
        <5> QED BY <5>1, <5>3
      <4>3. Len(wire'[s]) = 1 /\ wire'[s][1] = mine
        BY <3>1, <3>2, <4>2, SlotTypes, QueueFacts
      <4>4. Len(inbox'[s]) = 0 BY <3>2, <4>2, QueueFacts DEF Flushed
      <4>5. Owed(s)' = {mine} BY <4>3, <4>4 DEF Owed
      <4>6. mb'[t].at = "sent" /\ mb'[t].slot = s /\ asked'[t] = n
        BY <2>1, <2>5 DEF PoolTypes
      <4>7. mine.thread = t /\ mine.n = n BY DEF mine
      <4> QED BY <3>5, <4>3, <4>4, <4>5, <4>6, <4>7 DEF AlignedAt
    <3> QED BY <3>3, <3>4, <3>5
  <2> QED BY <1>2, <2>4, <2>5 DEF MbSend
<1>3. ASSUME NEW t \in MbThreads, MbReceive(t) \/ MbTimeout(t), NEW r \in 1 .. Len(pool')
      PROVE  AlignedAt(r)'
  <2> PICK s \in 1 .. Len(pool) : s = mb[t].slot BY <1>3 DEF MbReceive, MbTimeout, PoolTypes
  <2>1. /\ mb[t].at = "sent" /\ UNCHANGED <<pool, wire, asked>>
        /\ mb' = [mb EXCEPT ![t] = MbQuiet] \/ mb' = [mb EXCEPT ![t].at = "failed"]
    BY <1>3 DEF MbReceive, MbTimeout
  <2>2. \A u \in MbThreads \ {t} : mb'[u] = mb[u] /\ asked'[u] = asked[u]
    <3>1. CASE mb' = [mb EXCEPT ![t] = MbQuiet] BY <2>1, <3>1 DEF PoolTypes
    <3>2. CASE mb' = [mb EXCEPT ![t].at = "failed"] BY <2>1, <3>2 DEF PoolTypes
    <3> QED BY <2>1, <3>1, <3>2
  <2>3. inbox' = inbox \/ inbox' = [inbox EXCEPT ![s] = Tail(inbox[s])]
    BY <1>3 DEF MbReceive, MbTimeout
  <2>4. CASE r # s
    <3>1. inbox'[r] = inbox[r] BY <2>1, <2>3, <2>4 DEF PoolTypes
    <3> QED BY <2>1, <2>2, <2>4, <3>1, OtherSlotKept
  <2>5. CASE r = s /\ mb' = [mb EXCEPT ![t].at = "failed"]
    <3>1. mb'[t].at = "failed" /\ mb'[t].slot = s BY <2>5 DEF PoolTypes
    <3> QED BY <2>5, <3>1 DEF AlignedAt, Failing
  <2>6. CASE r = s /\ mb' # [mb EXCEPT ![t].at = "failed"]
    <3>1. /\ MbReceive(t) /\ inbox[s] # <<>> /\ inbox' = [inbox EXCEPT ![s] = Tail(inbox[s])]
      BY <1>3, <2>6 DEF MbReceive, MbTimeout
    <3>2. CASE Failing(s)
      <4>1. PICK u \in MbThreads : mb[u].at = "failed" /\ mb[u].slot = s BY <3>2 DEF Failing
      <4>2. u # t BY <2>1, <4>1
      <4>3. mb'[u] = mb[u] BY <2>2, <4>2
      <4>4. Failing(s)' BY <4>1, <4>3 DEF Failing
      <4> QED BY <2>6, <4>4 DEF AlignedAt
    <3>3. CASE ~Failing(s)
      <4>1. Len(wire[s]) + Len(inbox[s]) <= 1 BY <3>3 DEF AlignedAt
      <4>2. wire[s] \in Seq(Request) /\ inbox[s] \in Seq(Request) BY SlotTypes
      <4>3. Len(wire[s]) = 0 /\ Len(inbox[s]) = 1 /\ Len(Tail(inbox[s])) = 0
        <5>1. /\ Len(wire[s]) \in Nat /\ Len(inbox[s]) \in Nat /\ Len(inbox[s]) # 0
          BY <3>1, OwedFacts
        <5>2. Len(Tail(inbox[s])) = Len(inbox[s]) - 1 BY <3>1, OwedFacts
        <5>3. Len(wire[s]) = 0 /\ Len(inbox[s]) = 1 BY <4>1, <5>1, OneInAll, Zenon
        <5>4. 1 - 1 = 0 OBVIOUS
        <5> QED BY <5>2, <5>3, <5>4, Zenon
      <4>4. inbox'[s] = Tail(inbox[s]) /\ wire'[s] = wire[s]
        BY <2>1, <3>1, <4>2, QueueFacts, OneSlot DEF PoolTypes
      <4>5. Len(inbox'[s]) = 0 /\ Len(wire'[s]) = 0 BY <4>3, <4>4
      <4>6. Owed(s)' = {} BY <4>5 DEF Owed
      <4> QED BY <2>6, <4>5, <4>6 DEF AlignedAt
    <3> QED BY <3>2, <3>3
  <2> QED BY <2>4, <2>5, <2>6
<1>4. ASSUME NEW t \in MbThreads, modbus_pool_invalidate(t), NEW r \in 1 .. Len(pool')
      PROVE  AlignedAt(r)'
  <2> PICK s \in 1 .. Len(pool) : s = mb[t].slot BY <1>4 DEF modbus_pool_invalidate, PoolTypes
  <2>1. /\ mb[t].at = "failed" /\ asked' = asked /\ mb' = [mb EXCEPT ![t] = MbQuiet]
        /\ wire' = [wire EXCEPT ![s] = <<>>] /\ inbox' = [inbox EXCEPT ![s] = <<>>]
        /\ Len(pool') = Len(pool)
    BY <1>4, SlotTypes DEF modbus_pool_invalidate
  <2>2. \A u \in MbThreads \ {t} : mb'[u] = mb[u] /\ asked'[u] = asked[u]
    BY <2>1 DEF PoolTypes
  <2>3. CASE r # s
    <3>1. wire'[r] = wire[r] /\ inbox'[r] = inbox[r] BY <2>1, <2>3 DEF PoolTypes
    <3> QED BY <2>1, <2>2, <2>3, <3>1, OtherSlotKept
  <2>4. CASE r = s
    <3>1. wire'[s] = <<>> /\ inbox'[s] = <<>> BY <2>1 DEF PoolTypes
    <3>2. Len(wire'[s]) + Len(inbox'[s]) <= 1 /\ Owed(s)' = {} BY <3>1 DEF Owed
    <3> QED BY <2>4, <3>2 DEF AlignedAt
  <2> QED BY <2>3, <2>4
<1>5. ASSUME NEW s \in 1 .. Len(pool), DeviceAnswers(s) \/ DeviceSilent(s), NEW r \in 1 .. Len(pool')
      PROVE  AlignedAt(r)'
  <2>1. /\ wire[s] # <<>> /\ UNCHANGED <<pool, mb, asked>>
        /\ wire' = [wire EXCEPT ![s] = Tail(wire[s])]
        /\ inbox' = inbox \/ inbox' = [inbox EXCEPT ![s] = Append(inbox[s], Head(wire[s]))]
    BY <1>5 DEF DeviceAnswers, DeviceSilent
  <2>2. wire[s] \in Seq(Request) /\ inbox[s] \in Seq(Request) BY SlotTypes
  <2>3. CASE Failing(r) BY <2>1, <2>3 DEF AlignedAt, Failing
  <2>4. CASE ~Failing(r)
    <3>1. Len(wire[r]) + Len(inbox[r]) <= 1 BY <2>1, <2>4 DEF AlignedAt
    <3>2. CASE r # s
      <4>1. wire'[r] = wire[r] /\ inbox'[r] = inbox[r] BY <2>1, <3>2 DEF PoolTypes
      <4>2. Owed(r)' = Owed(r) BY <4>1 DEF Owed
      <4>3. Failing(r)' <=> Failing(r) BY <2>1 DEF Failing
      <4>4. AlignedAt(r) BY <2>1
      <4> QED BY <2>1, <4>1, <4>2, <4>3, <4>4 DEF AlignedAt
    <3>3. CASE r = s
      <4>0. s \in DOMAIN wire /\ s \in DOMAIN inbox BY DEF PoolTypes
      <4>1. wire'[s] = Tail(wire[s]) /\ (inbox'[s] = inbox[s] \/ inbox'[s] = Append(inbox[s], Head(wire[s])))
        <5>1. wire'[s] = Tail(wire[s]) BY <2>1, <4>0
        <5>2. inbox'[s] = inbox[s] \/ inbox'[s] = Append(inbox[s], Head(wire[s])) BY <2>1, <4>0
        <5> QED BY <5>1, <5>2
      <4>2. Len(wire[s]) = 1 /\ Len(inbox[s]) = 0 /\ Len(Tail(wire[s])) = 0
        <5>1. /\ Len(wire[s]) \in Nat /\ Len(inbox[s]) \in Nat /\ Len(wire[s]) # 0
          BY <2>1, OwedFacts
        <5>2. Len(Tail(wire[s])) = Len(wire[s]) - 1 BY <2>1, OwedFacts
        <5>3. Len(inbox[s]) = 0 /\ Len(wire[s]) = 1 BY <3>1, <3>3, <5>1, OneInAll, Zenon
        <5>4. 1 - 1 = 0 OBVIOUS
        <5> QED BY <5>2, <5>3, <5>4, Zenon
      <4>3. Len(wire'[s]) = 0 BY <4>1, <4>2
      <4>4. CASE inbox'[s] = inbox[s]
        <5>1. Owed(s)' = {} BY <4>2, <4>3, <4>4 DEF Owed
        <5> QED BY <3>3, <4>2, <4>3, <4>4, <5>1 DEF AlignedAt
      <4>5. CASE inbox'[s] = Append(inbox[s], Head(wire[s]))
        <5>1. Len(inbox'[s]) = 1 /\ inbox'[s][1] = wire[s][1]
          BY <2>1, <2>2, <4>2, <4>5, QueueFacts
        <5>2. \A a \in Owed(s)' : a = wire[s][1] BY <4>3, <5>1 DEF Owed
        <5>3. wire[s][1] \in Owed(s) BY <4>2 DEF Owed
        <5>4. \A a \in Owed(s)' : a \in Owed(s) BY <5>2, <5>3
        <5>5. AlignedAt(s) /\ ~Failing(s) BY <2>4, <3>3
        <5>6. \A a \in Owed(s)' : /\ mb'[a.thread].at = "sent" /\ mb'[a.thread].slot = s
                                  /\ a.n = asked'[a.thread]
          BY <2>1, <5>4, <5>5 DEF AlignedAt
        <5> QED BY <3>3, <4>3, <5>1, <5>6 DEF AlignedAt
      <4> QED BY <4>1, <4>4, <4>5
    <3> QED BY <3>2, <3>3
  <2> QED BY <2>3, <2>4
<1>6. ASSUME UNCHANGED mbVars, NEW r \in 1 .. Len(pool') PROVE AlignedAt(r)'
  <2>1. UNCHANGED <<pool, wire, inbox, mb, asked>> BY <1>6 DEF mbVars
  <2>2. AlignedAt(r) BY <2>1
  <2>3. Owed(r)' = Owed(r) /\ (Failing(r)' <=> Failing(r)) BY <2>1 DEF Owed, Failing
  <2> QED BY <2>1, <2>2, <2>3 DEF AlignedAt
<1> QED BY <1>1, <1>2, <1>3, <1>4, <1>5, <1>6 DEF MbNext

\* No request takes a late answer as its own, for any number of targets and requests:
\* every connection with an answer too many is one that a failed call is about to drop
\* (modbus_pool_invalidate).
THEOREM PoolAligned == MbSpec => []AlignedUnlessFailing
<1>1. MbInit => PoolTypes /\ PoolInv
  BY DEF MbInit, PoolTypes, PoolInv, MutexRight, MbQuiet, MbThreads
<1>2. PoolTypes /\ PoolInv /\ [MbNext]_mbVars => PoolTypes' /\ PoolInv'
  <2> SUFFICES ASSUME PoolTypes, PoolInv, [MbNext]_mbVars PROVE PoolTypes' /\ PoolInv' OBVIOUS
  <2>1. PoolTypes' BY PoolTypeStep
  <2>2. MutexRight' BY MutexStep DEF PoolInv
  <2>3. \A s \in 1 .. Len(pool') : AlignedAt(s)' BY AlignedStep DEF PoolInv
  <2> QED BY <2>1, <2>2, <2>3 DEF PoolInv
<1>3. PoolTypes /\ PoolInv => AlignedUnlessFailing
  <2> SUFFICES ASSUME PoolTypes, PoolInv, NEW s \in 1 .. Len(pool), ~Failing(s), NEW a \in Owed(s)
               PROVE  /\ mb[a.thread] = [mb[a.thread] EXCEPT !.at = "sent", !.slot = s]
                      /\ a.n = asked[a.thread]
    BY DEF AlignedUnlessFailing
  <2>1. mb[a.thread].at = "sent" /\ mb[a.thread].slot = s /\ a.n = asked[a.thread]
    BY DEF PoolInv, AlignedAt
  <2>3. a.thread \in MbThreads BY OwedFacts
  <2>4. mb[a.thread] \in [at : {"idle", "got", "sent", "failed"}, slot : Nat, kind : {"read", "write"}]
    BY <2>3 DEF PoolTypes
  <2> QED BY <2>1, <2>4
<1> QED BY <1>1, <1>2, <1>3, PTL DEF MbSpec

(***************************************************************************)
(* The pull point query.                                                   *)
(***************************************************************************)

\* Messages, and those with a state of "w" since v.
Messages      == [topic : Topics, value : Nat]
FreshSince(v) == {m \in Messages : m.topic = "w" => m.value \in v .. topicState}

\* Subscriptions, and those that deliver states that "w" has had since they were made.
Subscription == [open : BOOLEAN, todo : SUBSET Topics, queue : Seq(Messages), since : Nat]
Fresh(x)     == x.queue \in Seq(FreshSince(x.since)) /\ x.since <= topicState

\* Types of the query's state.
QueryTypes ==
  /\ topicState \in Nat /\ asks \in Nat
  /\ subs \in Seq(Subscription)
  /\ query \in [at : {"idle", "pull", "unsubscribe"}, sub : Nat, attempt : Nat, drained : BOOLEAN]
  /\ pulls \in [made : Nat, empty : Nat]
  /\ failed \in BOOLEAN

\* Why a query may come back without an answer.
Reason == failed \/ pulls.empty >= 2 \/ pulls.made = MaxPulls

\* The inductive invariant.
QueryInv ==
  /\ \A s \in 1 .. Len(subs) : Fresh(subs[s])
  /\ query.at # "idle" => query.sub = Len(subs) /\ Len(subs) > 0
  /\ \A s \in 1 .. Len(subs) : subs[s].open =>
       s \in excused \/ (query.at # "idle" /\ query.sub = s)
  /\ result # -1 => Len(subs) > 0 /\ result \in subs[Len(subs)].since .. topicState
  /\ query.at = "pull" => /\ query.attempt = pulls.made
                          /\ query.drained => pulls.empty >= 1
  /\ query.at = "unsubscribe" /\ result = -1 => Reason
  /\ query.at = "idle" /\ asks > 0 /\ result = -1 => Reason

\* A sequence over a set is one over any larger set.
LEMMA LargerSet ==
  ASSUME NEW S, NEW T, S \subseteq T, NEW q \in Seq(S)
  PROVE  q \in Seq(T)
OBVIOUS

\* What was fresh stays fresh.
LEMMA FreshKept ==
  ASSUME topicState \in Nat, topicState' \in Nat, topicState <= topicState',
         NEW x \in Subscription, Fresh(x)
  PROVE  Fresh(x)'
<1>1. FreshSince(x.since) \subseteq FreshSince(x.since)' BY DEF FreshSince, Subscription
<1>2. x.queue \in Seq(FreshSince(x.since)') BY <1>1, LargerSet DEF Fresh
<1> QED BY <1>2 DEF Fresh, Subscription

\* A subscription that has just been made, and one with a message more, a part of its
\* messages or none.
LEMMA FreshSubs ==
  ASSUME topicState \in Nat
  PROVE  /\ LET new == [open |-> TRUE, todo |-> Topics, queue |-> <<>>, since |-> topicState]
            IN new \in Subscription /\ Fresh(new)
         /\ \A x \in Subscription, m \in Messages :
              Fresh(x) /\ m \in FreshSince(x.since) =>
                LET y == [x EXCEPT !.queue = Append(@, m)]
                IN y \in Subscription /\ Fresh(y) /\ y.open = x.open /\ y.since = x.since
         /\ \A x \in Subscription, i \in Nat \ {0} : Fresh(x) =>
              LET y == [x EXCEPT !.queue = SubSeq(@, i, Len(@))]
              IN y \in Subscription /\ Fresh(y) /\ y.open = x.open /\ y.since = x.since
         /\ \A x \in Subscription : Fresh(x) =>
              LET y == [x EXCEPT !.open = FALSE, !.queue = <<>>]
              IN y \in Subscription /\ Fresh(y) /\ ~y.open /\ y.since = x.since
         /\ \A x \in Subscription, t \in SUBSET Topics : Fresh(x) =>
              LET y == [x EXCEPT !.todo = t]
              IN y \in Subscription /\ Fresh(y) /\ y.open = x.open /\ y.since = x.since
<1>1. LET new == [open |-> TRUE, todo |-> Topics, queue |-> <<>>, since |-> topicState]
      IN new \in Subscription /\ Fresh(new)
  BY DEF Subscription, Fresh
<1>2. ASSUME NEW x \in Subscription, NEW m \in Messages, Fresh(x), m \in FreshSince(x.since)
      PROVE  LET y == [x EXCEPT !.queue = Append(@, m)]
             IN y \in Subscription /\ Fresh(y) /\ y.open = x.open /\ y.since = x.since
  <2> DEFINE y == [x EXCEPT !.queue = Append(@, m)]
  <2>1. y.queue = Append(x.queue, m) /\ y.since = x.since /\ y.open = x.open
    BY DEF Subscription
  <2>2. Append(x.queue, m) \in Seq(Messages) BY DEF Subscription
  <2>3. y \in Subscription BY <2>2 DEF Subscription
  <2>4. y.queue \in Seq(FreshSince(y.since)) BY <1>2, <2>1 DEF Fresh
  <2> QED BY <1>2, <2>1, <2>3, <2>4 DEF Fresh
<1>3. ASSUME NEW x \in Subscription, NEW i \in Nat \ {0}, Fresh(x)
      PROVE  LET y == [x EXCEPT !.queue = SubSeq(@, i, Len(@))]
             IN y \in Subscription /\ Fresh(y) /\ y.open = x.open /\ y.since = x.since
  <2> DEFINE y == [x EXCEPT !.queue = SubSeq(@, i, Len(@))]
  <2>1. y.queue = SubSeq(x.queue, i, Len(x.queue)) /\ y.since = x.since /\ y.open = x.open
    BY DEF Subscription
  <2>2. Len(x.queue) \in Nat /\ \A j \in i .. Len(x.queue) : x.queue[j] \in FreshSince(x.since)
    <3>1. x.queue \in Seq(FreshSince(x.since)) BY <1>3 DEF Fresh
    <3>2. \A j \in 1 .. Len(x.queue) : x.queue[j] \in FreshSince(x.since) BY <3>1, Elements
    <3> QED BY <3>1, <3>2
  <2>3. y.queue \in Seq(FreshSince(x.since)) BY <2>1, <2>2, SubSeqProperties
  <2>4. FreshSince(x.since) \subseteq Messages BY DEF FreshSince
  <2>5. y.queue \in Seq(Messages) BY <2>3, <2>4, LargerSet
  <2>6. y \in Subscription BY <2>1, <2>5 DEF Subscription
  <2> QED BY <1>3, <2>1, <2>3, <2>6 DEF Fresh
<1>4. ASSUME NEW x \in Subscription, Fresh(x)
      PROVE  LET y == [x EXCEPT !.open = FALSE, !.queue = <<>>]
             IN y \in Subscription /\ Fresh(y) /\ ~y.open /\ y.since = x.since
  <2> DEFINE y == [x EXCEPT !.open = FALSE, !.queue = <<>>]
  <2>1. y.queue = <<>> /\ y.since = x.since /\ ~y.open /\ y.todo = x.todo
    BY DEF Subscription
  <2>2. <<>> \in Seq(Messages) /\ <<>> \in Seq(FreshSince(x.since)) OBVIOUS
  <2>3. y \in Subscription BY <2>2 DEF Subscription
  <2>4. Fresh(y) BY <1>4, <2>1, <2>2 DEF Fresh
  <2> QED BY <2>1, <2>3, <2>4
<1>5. ASSUME NEW x \in Subscription, NEW t \in SUBSET Topics, Fresh(x)
      PROVE  LET y == [x EXCEPT !.todo = t]
             IN y \in Subscription /\ Fresh(y) /\ y.open = x.open /\ y.since = x.since
  BY <1>5 DEF Subscription, Fresh
<1> QED BY <1>1, <1>2, <1>3, <1>4, <1>5

\* The device's steps leave the query alone; a query is told no older states.
LEMMA DeviceKeeps ==
  ASSUME QueryTypes, QueryInv, UNCHANGED <<query, result, asks, excused, failed, pulls>>,
         topicState' \in Nat, topicState <= topicState',
         subs' \in Seq(Subscription), Len(subs') = Len(subs),
         \A s \in 1 .. Len(subs) : /\ Fresh(subs[s])' /\ subs'[s].since = subs[s].since
                                   /\ subs'[s].open => subs[s].open
  PROVE  QueryTypes' /\ QueryInv'
<1>1. QueryTypes' BY DEF QueryTypes
<1>2. Len(subs) \in Nat /\ (result # -1 => Len(subs) \in 1 .. Len(subs))
  BY DEF QueryTypes, QueryInv
<1>3. result # -1 => result \in subs'[Len(subs')].since .. topicState'
  <2> SUFFICES ASSUME result # -1 PROVE result \in subs'[Len(subs')].since .. topicState' OBVIOUS
  <2>1. result \in subs[Len(subs)].since .. topicState BY DEF QueryInv
  <2>2. subs'[Len(subs')].since = subs[Len(subs)].since BY <1>2
  <2>3. subs[Len(subs)] \in Subscription BY <1>2, Elements DEF QueryTypes
  <2>4. subs[Len(subs)].since \in Nat BY <2>3 DEF Subscription
  <2> QED BY <2>1, <2>2, <2>4 DEF QueryTypes
<1> QED BY <1>1, <1>3 DEF QueryInv, Reason

\* The device's steps.
LEMMA DeviceStep ==
  ASSUME QueryTypes, QueryInv,
         \/ \E s \in 1 .. Len(subs) :
              DeviceExpires(s) \/ \E topic \in Topics : DeviceReports(s, topic)
         \/ \E topic \in Topics : DeviceChanges(topic)
  PROVE  QueryTypes' /\ QueryInv'
<1>0. /\ topicState \in Nat /\ Len(subs) \in Nat /\ subs \in Seq(Subscription)
      /\ \A s \in 1 .. Len(subs) : subs[s] \in Subscription /\ Fresh(subs[s])
  BY Elements DEF QueryTypes, QueryInv
<1>1. ASSUME NEW s \in 1 .. Len(subs), NEW y \in Subscription, subs' = [subs EXCEPT ![s] = y],
             Fresh(y), y.since = subs[s].since, y.open => subs[s].open,
             UNCHANGED <<topicState, query, result, asks, excused, failed, pulls>>
      PROVE  QueryTypes' /\ QueryInv'
  <2>1. subs' \in Seq(Subscription) /\ Len(subs') = Len(subs)
    BY <1>0, <1>1, OneSlot
  <2>2. \A r \in 1 .. Len(subs) : subs'[r] = IF r = s THEN y ELSE subs[r]
    BY <1>0, <1>1, OneSlot
  <2>3. \A r \in 1 .. Len(subs) : Fresh(subs'[r]) BY <1>0, <1>1, <2>2
  <2>4. \A r \in 1 .. Len(subs) : Fresh(subs[r])'
    BY <1>1, <2>3 DEF Fresh, FreshSince
  <2>5. \A r \in 1 .. Len(subs) : /\ subs'[r].since = subs[r].since
                                  /\ subs'[r].open => subs[r].open
    BY <1>1, <2>2
  <2> QED BY <1>0, <1>1, <2>1, <2>4, <2>5, DeviceKeeps
<1>2. ASSUME NEW s \in 1 .. Len(subs), DeviceExpires(s) PROVE QueryTypes' /\ QueryInv'
  <2> DEFINE y == [subs[s] EXCEPT !.open = FALSE, !.queue = <<>>]
  <2>1. y \in Subscription /\ Fresh(y) /\ ~y.open /\ y.since = subs[s].since
    BY <1>0, FreshSubs
  <2>2. subs' = [subs EXCEPT ![s] = y]
        /\ UNCHANGED <<topicState, query, result, asks, excused, failed, pulls>>
    BY <1>0, <1>2 DEF DeviceExpires, Subscription
  <2> QED BY <1>1, <2>1, <2>2
<1>3. ASSUME NEW s \in 1 .. Len(subs), NEW topic \in Topics, DeviceReports(s, topic)
      PROVE  QueryTypes' /\ QueryInv'
  <2> DEFINE x == [subs[s] EXCEPT !.todo = @ \ {topic}]
             y == [x EXCEPT !.queue = Append(@, Message(topic))]
  <2>1. x \in Subscription /\ Fresh(x) /\ x.open = subs[s].open /\ x.since = subs[s].since
    <3>1. subs[s].todo \ {topic} \in SUBSET Topics BY <1>0 DEF Subscription
    <3> QED BY <1>0, <3>1, FreshSubs
  <2>2. Message(topic) \in Messages /\ Message(topic) \in FreshSince(x.since)
    BY <1>0, <2>1 DEF Message, Messages, FreshSince, Fresh, Subscription
  <2>3. y \in Subscription /\ Fresh(y) /\ y.open = x.open /\ y.since = x.since
    BY ZenonT(40), <1>0, <2>1, <2>2, FreshSubs
  <2>4. subs' = [subs EXCEPT ![s] = y]
        /\ UNCHANGED <<topicState, query, result, asks, excused, failed, pulls>>
    BY <1>0, <1>3 DEF DeviceReports, Subscription
  <2> QED BY <1>1, <2>1, <2>3, <2>4
<1>4. ASSUME NEW topic \in Topics, DeviceChanges(topic) PROVE QueryTypes' /\ QueryInv'
  <2> DEFINE value == IF topic = "w" THEN topicState + 1 ELSE 0
             m == [topic |-> topic, value |-> value]
             y(s) == IF subs[s].open /\ topic \notin subs[s].todo
                     THEN [subs[s] EXCEPT !.queue = Append(@, m)] ELSE subs[s]
  <2>1. /\ topicState' = IF topic = "w" THEN topicState + 1 ELSE topicState
        /\ subs' = [s \in 1 .. Len(subs) |-> y(s)]
        /\ UNCHANGED <<query, result, asks, excused, failed, pulls>>
    BY <1>4 DEF DeviceChanges
  <2>2. topicState' \in Nat /\ topicState <= topicState' /\ m \in Messages
        /\ (topic = "w" => value = topicState')
    BY <1>0, <2>1 DEF Messages
  <2>3. ASSUME NEW s \in 1 .. Len(subs)
        PROVE  /\ y(s) \in Subscription /\ Fresh(subs[s])' /\ y(s).since = subs[s].since
               /\ y(s).open = subs[s].open
    <3>1. PICK x \in Subscription : x = subs[s] /\ Fresh(x) BY <1>0
    <3>2. Fresh(x)' BY <1>0, <2>2, <3>1, FreshKept
    <3>3. m.topic = "w" => m.value \in x.since .. topicState'
      BY <2>2, <3>2 DEF Fresh, Subscription
    <3>4. CASE y(s) = x
      <4>1. subs'[s] = x BY <2>1, <3>4
      <4> QED BY <3>1, <3>2, <3>4, <4>1 DEF Fresh
    <3>5. CASE y(s) = [x EXCEPT !.queue = Append(@, m)]
      <4>1. y(s).queue = Append(x.queue, m) /\ y(s).since = x.since /\ y(s).open = x.open
        BY <3>5 DEF Subscription
      <4>2. Append(x.queue, m) \in Seq(Messages) BY <2>2 DEF Subscription
      <4>3. y(s) \in Subscription BY <3>5, <4>2 DEF Subscription
      <4>4. m \in FreshSince(x.since)' BY <2>2, <3>3 DEF FreshSince
      <4>5. x.queue \in Seq(FreshSince(x.since)') BY <3>2 DEF Fresh
      <4> HIDE DEF m
      <4>6. Append(x.queue, m) \in Seq(FreshSince(x.since)') BY <4>4, <4>5
      <4>7. subs'[s] = y(s) BY <2>1
      <4> HIDE DEF y
      <4>8. Fresh(subs[s])' BY <3>2, <4>1, <4>6, <4>7 DEF Fresh
      <4> QED BY <3>1, <4>1, <4>3, <4>8
    <3> QED BY <3>1, <3>4, <3>5
  <2>4. subs' \in Seq(Subscription) /\ Len(subs') = Len(subs)
    <3> HIDE DEF y
    <3> QED BY <1>0, <2>1, <2>3
  <2>5. \A s \in 1 .. Len(subs) : subs'[s] = y(s) BY <2>1
  <2> HIDE DEF y
  <2> QED BY <2>1, <2>2, <2>3, <2>4, <2>5, DeviceKeeps
<1> QED BY <1>2, <1>3, <1>4

\* The caller's steps.
LEMMA CallerStep ==
  ASSUME QueryTypes, QueryInv,
         AskDevice \/ Pull \/ PullFails \/ LoopEnds \/ Unsubscribe
  PROVE  QueryTypes' /\ QueryInv'
<1>0. /\ topicState \in Nat /\ Len(subs) \in Nat /\ subs \in Seq(Subscription)
      /\ \A s \in 1 .. Len(subs) : subs[s] \in Subscription /\ Fresh(subs[s])
      /\ query \in [at : {"idle", "pull", "unsubscribe"}, sub : Nat, attempt : Nat,
                    drained : BOOLEAN]
      /\ pulls \in [made : Nat, empty : Nat] /\ asks \in Nat /\ failed \in BOOLEAN
  BY Elements DEF QueryTypes, QueryInv
<1>1. CASE AskDevice
  <2> DEFINE new == [open |-> TRUE, todo |-> Topics, queue |-> <<>>, since |-> topicState]
             s == Len(subs) + 1
  <2>1. /\ query.at = "idle" /\ asks' = asks + 1 /\ result' = -1
        /\ pulls' = [made |-> 0, empty |-> 0] /\ topicState' = topicState
    BY <1>1 DEF AskDevice
  <2>2. new \in Subscription /\ Fresh(new) BY <1>0, FreshSubs
  <2> HIDE DEF new
  <2>3. CASE subs' = subs /\ query' = query /\ excused' = excused /\ failed' = TRUE
    <3>1. QueryTypes' BY <1>0, <2>1, <2>3 DEF QueryTypes
    <3>2. \A r \in 1 .. Len(subs') : Fresh(subs[r])' BY <1>0, <2>1, <2>3 DEF Fresh, FreshSince
    <3> QED BY <2>1, <2>3, <3>1, <3>2 DEF QueryInv, Reason
  <2>4. ASSUME subs' = Append(subs, new)
        PROVE  /\ subs' \in Seq(Subscription) /\ Len(subs') = s
               /\ \A r \in 1 .. Len(subs') : Fresh(subs[r])'
               /\ \A r \in 1 .. Len(subs) : subs'[r] = subs[r]
    <3>1. /\ subs' \in Seq(Subscription) /\ Len(subs') = s /\ subs'[s] = new
          /\ \A r \in 1 .. Len(subs) : subs'[r] = subs[r]
      BY <1>0, <2>2, <2>4, OneSlot
    <3>2. \A r \in 1 .. Len(subs') : Fresh(subs'[r])
      <4>1. \A r \in 1 .. Len(subs') : r = s \/ r \in 1 .. Len(subs) BY <1>0, <3>1
      <4> QED BY <1>0, <2>2, <3>1, <4>1
    <3>3. \A r \in 1 .. Len(subs') : Fresh(subs[r])'
      BY <2>1, <3>2 DEF Fresh, FreshSince
    <3> QED BY <3>1, <3>3
  <2>5. CASE /\ subs' = Append(subs, new) /\ failed' = FALSE /\ excused' = excused
             /\ query' = [at |-> "pull", sub |-> s, attempt |-> 0, drained |-> FALSE]
    <3>1. QueryTypes'
      <4>1. s \in Nat /\ asks' \in Nat BY <1>0, <2>1
      <4>2. query' \in [at : {"idle", "pull", "unsubscribe"}, sub : Nat, attempt : Nat,
                        drained : BOOLEAN]
        BY <2>5, <4>1
      <4>3. pulls' \in [made : Nat, empty : Nat] BY <2>1
      <4>4. topicState' \in Nat /\ failed' \in BOOLEAN /\ subs' \in Seq(Subscription)
        BY <1>0, <2>1, <2>4, <2>5
      <4> QED BY <4>1, <4>2, <4>3, <4>4 DEF QueryTypes
    <3>2. \A r \in 1 .. Len(subs') : subs'[r].open => r \in excused' \/ (query'.at # "idle" /\ query'.sub = r)
      <4>1. \A r \in 1 .. Len(subs') : r = s \/ r \in 1 .. Len(subs) BY <1>0, <2>4, <2>5
      <4> QED BY <2>1, <2>4, <2>5, <4>1 DEF QueryInv
    <3> QED BY <1>0, <2>1, <2>4, <2>5, <3>1, <3>2 DEF QueryInv, Reason
  <2>6. CASE /\ subs' = Append(subs, new) /\ failed' = TRUE /\ excused' = excused \cup {s}
             /\ query' = query
    <3>1. QueryTypes' BY <1>0, <2>1, <2>4, <2>6 DEF QueryTypes
    <3>2. \A r \in 1 .. Len(subs') : subs'[r].open => r \in excused' \/ (query'.at # "idle" /\ query'.sub = r)
      <4>1. \A r \in 1 .. Len(subs') : r = s \/ r \in 1 .. Len(subs) BY <1>0, <2>4, <2>6
      <4> QED BY <2>1, <2>4, <2>6, <4>1 DEF QueryInv
    <3> QED BY <1>0, <2>1, <2>4, <2>6, <3>1, <3>2 DEF QueryInv, Reason
  <2> QED BY <1>1, <2>3, <2>5, <2>6 DEF AskDevice, new
<1>2. CASE Pull
  <2>1. query.at = "pull" /\ query.sub = Len(subs) /\ Len(subs) > 0 /\ result = -1
    BY <1>2 DEF Pull, QueryInv
  <2>0. PICK s \in 1 .. Len(subs) : s = Len(subs) /\ s = query.sub BY <1>0, <2>1
  <2> DEFINE x == subs[s]
             n == IF Len(x.queue) < MessageLimit THEN Len(x.queue) ELSE MessageLimit
             answer == SubSeq(x.queue, 1, n)
             y == [x EXCEPT !.queue = SubSeq(@, n + 1, Len(@))]
  <2>2. /\ subs' = [subs EXCEPT ![s].queue = SubSeq(@, n + 1, Len(@))]
        /\ result' = IF Matches(answer) = {} THEN -1 ELSE Match(answer)
        /\ pulls' = [made |-> pulls.made + 1,
                     empty |-> pulls.empty + (IF answer = <<>> THEN 1 ELSE 0)]
        /\ query' = [query EXCEPT !.attempt = @ + 1, !.drained = @ \/ answer = <<>>,
                                  !.at = IF EndsEmpty(query, answer) THEN "unsubscribe" ELSE @]
        /\ UNCHANGED <<topicState, asks, excused, failed>>
    BY <1>2, <2>0 DEF Pull
  <2>3. /\ x \in Subscription /\ Fresh(x) /\ Len(x.queue) \in Nat /\ n \in Nat /\ n <= Len(x.queue)
        /\ \A i \in 1 .. Len(x.queue) : x.queue[i] \in FreshSince(x.since)
    <3>1. x \in Subscription /\ Fresh(x) BY <1>0
    <3>2. x.queue \in Seq(FreshSince(x.since)) BY <3>1 DEF Fresh
    <3>3. Len(x.queue) \in Nat BY <3>2
    <3>4. \A i \in 1 .. Len(x.queue) : x.queue[i] \in FreshSince(x.since) BY <3>2, Elements
    <3> QED BY <3>1, <3>3, <3>4, PullParams
  <2>4. y \in Subscription /\ Fresh(y) /\ y.open = x.open /\ y.since = x.since
    <3>1. n + 1 \in Nat \ {0} BY <2>3
    <3>2. x \in Subscription /\ Fresh(x) BY <2>3
    <3> HIDE DEF x, n
    <3> QED BY <1>0, <3>1, <3>2, FreshSubs
  <2>5. subs' = [subs EXCEPT ![s] = y] BY <2>2
  <2>6. /\ answer \in Seq(FreshSince(x.since))
        /\ \A i \in 1 .. Len(answer) : answer[i] \in FreshSince(x.since)
    <3>1. answer \in Seq(FreshSince(x.since)) BY <2>3, SubSeqProperties
    <3> QED BY <3>1, Elements
  <2> HIDE DEF y, n, answer
  <2>7. /\ subs' \in Seq(Subscription) /\ Len(subs') = Len(subs)
        /\ \A r \in 1 .. Len(subs) : subs'[r] = IF r = s THEN y ELSE subs[r]
    <3>1. subs \in Seq(Subscription) /\ y \in Subscription BY <1>0, <2>4
    <3> QED BY <2>5, <3>1, OneSlot
  <2>8. \A r \in 1 .. Len(subs') : Fresh(subs[r])'
    <3>1. \A r \in 1 .. Len(subs') : Fresh(subs'[r]) BY <1>0, <2>4, <2>7
    <3> QED BY <2>2, <3>1 DEF Fresh, FreshSince
  <2>9. \A r \in 1 .. Len(subs') : subs'[r].open => subs[r].open BY <2>4, <2>7
  <2>10. result' # -1 => result' \in subs'[Len(subs')].since .. topicState'
    <3> SUFFICES ASSUME Matches(answer) # {}
                 PROVE  Match(answer) \in x.since .. topicState
      BY <2>0, <2>2, <2>4, <2>7
    <3>1. Matches(answer) \subseteq 1 .. Len(answer) /\ Len(answer) \in Nat BY <2>6 DEF Matches
    <3>2. Matches(answer) \subseteq Nat BY <3>1
    <3>3. PICK m \in Matches(answer) : \A r \in Matches(answer) : <<r, m>> \notin OpToRel(<, Nat)
      BY <3>2, NatLessThanWellFounded, WFMin
    <3>4. \A r \in Matches(answer) : ~(r < m) BY <3>2, <3>3, Zenon DEF OpToRel
    <3>5. \A r \in Matches(answer) : m <= r BY <3>2, <3>4
    <3>6. (CHOOSE i \in Matches(answer) : \A j \in Matches(answer) : i <= j) \in Matches(answer)
      BY <3>5
    <3>7. PICK i \in Matches(answer) : Match(answer) = answer[i].value BY <3>6 DEF Match
    <3>8. i \in 1 .. Len(answer) /\ answer[i].topic = "w" BY <3>7 DEF Matches
    <3>9. answer[i] \in FreshSince(x.since) BY <2>6, <3>8
    <3> QED BY <3>7, <3>8, <3>9 DEF FreshSince
  <2>11. /\ query' \in [at : {"idle", "pull", "unsubscribe"}, sub : Nat, attempt : Nat,
                        drained : BOOLEAN]
         /\ query'.at \in {"pull", "unsubscribe"} /\ query'.sub = s
         /\ query'.attempt = query.attempt + 1
         /\ query'.drained <=> query.drained \/ answer = <<>>
         /\ query'.at = "unsubscribe" <=> answer = <<>> /\ query.drained
    <3> DEFINE d == query.drained \/ answer = <<>>
               a == IF answer = <<>> /\ query.drained THEN "unsubscribe" ELSE "pull"
    <3>1. query' = [query EXCEPT !.attempt = query.attempt + 1, !.drained = d, !.at = a]
      BY <2>1, <2>2 DEF EndsEmpty
    <3>2. d \in BOOLEAN /\ a \in {"pull", "unsubscribe"} /\ query.attempt + 1 \in Nat
      BY <1>0
    <3>3. a = "unsubscribe" <=> (answer = <<>> /\ query.drained) OBVIOUS
    <3>4. d <=> (query.drained \/ answer = <<>>) OBVIOUS
    <3> HIDE DEF d, a
    <3>5. /\ query' \in [at : {"idle", "pull", "unsubscribe"}, sub : Nat, attempt : Nat,
                         drained : BOOLEAN]
          /\ query'.at = a /\ query'.sub = query.sub /\ query'.drained = d
          /\ query'.attempt = query.attempt + 1
      BY <1>0, <3>1, <3>2
    <3> QED BY <2>0, <3>2, <3>3, <3>4, <3>5
  <2>12. /\ pulls' \in [made : Nat, empty : Nat] /\ pulls'.made = pulls.made + 1
         /\ pulls'.empty = pulls.empty + (IF answer = <<>> THEN 1 ELSE 0)
    BY <1>0, <2>2
  <2>13. QueryTypes' BY <1>0, <2>2, <2>7, <2>11, <2>12 DEF QueryTypes
  <2>14. query.attempt = pulls.made /\ (query.drained => pulls.empty >= 1) BY <2>1 DEF QueryInv
  <2>15. query'.at = "pull" => query'.attempt = pulls'.made /\ (query'.drained => pulls'.empty >= 1)
    BY <1>0, <2>11, <2>12, <2>14
  <2>16. query'.at = "unsubscribe" => pulls'.empty >= 2
    BY <1>0, <2>11, <2>12, <2>14
  <2>17. \A r \in 1 .. Len(subs') : subs'[r].open => r \in excused' \/ (query'.at # "idle" /\ query'.sub = r)
    BY <2>0, <2>1, <2>2, <2>7, <2>9, <2>11 DEF QueryInv
  <2> QED BY <2>0, <2>1, <2>7, <2>8, <2>10, <2>11, <2>13, <2>15, <2>16, <2>17 DEF QueryInv, Reason
<1>3. ASSUME PullFails \/ LoopEnds PROVE QueryTypes' /\ QueryInv'
  <2>1. /\ query.at = "pull" /\ query' = [query EXCEPT !.at = "unsubscribe"]
        /\ UNCHANGED <<topicState, subs, result, asks, excused, pulls>>
        /\ failed' = TRUE \/ (failed' = failed /\ (query.attempt = MaxPulls \/ result # -1))
    BY <1>3 DEF PullFails, LoopEnds
  <2>2. query' \in [at : {"idle", "pull", "unsubscribe"}, sub : Nat, attempt : Nat,
                    drained : BOOLEAN]
        /\ query'.at = "unsubscribe" /\ query'.sub = query.sub
    BY <1>0, <2>1
  <2>3. QueryTypes' BY <1>0, <2>1, <2>2 DEF QueryTypes
  <2>4. \A r \in 1 .. Len(subs') : Fresh(subs[r])' BY <1>0, <2>1 DEF Fresh, FreshSince
  <2>5. result' = -1 => failed' \/ pulls'.made = MaxPulls
    BY <2>1 DEF QueryInv
  <2> QED BY <2>1, <2>2, <2>3, <2>4, <2>5 DEF QueryInv, Reason
<1>4. CASE Unsubscribe
  <2>1. /\ query.at = "unsubscribe" /\ query' = NoQuery /\ query.sub = Len(subs) /\ Len(subs) > 0
        /\ UNCHANGED <<topicState, result, asks, failed, pulls>>
    BY <1>4 DEF Unsubscribe, QueryInv
  <2>0. PICK s \in 1 .. Len(subs) : s = Len(subs) /\ s = query.sub BY <1>0, <2>1
  <2> DEFINE y == [subs[s] EXCEPT !.open = FALSE, !.queue = <<>>]
  <2>2. y \in Subscription /\ Fresh(y) /\ ~y.open /\ y.since = subs[s].since
    BY <1>0, FreshSubs
  <2>3. \/ subs' = [subs EXCEPT ![s] = y] /\ excused' = excused
        \/ subs' = subs /\ excused' = excused \cup {s}
    BY <1>0, <1>4, <2>0 DEF Unsubscribe, Subscription
  <2> HIDE DEF y
  <2>4. /\ subs' \in Seq(Subscription) /\ Len(subs') = Len(subs)
        /\ \A r \in 1 .. Len(subs) : subs'[r] = subs[r] \/ (r = s /\ subs'[r] = y)
        /\ s \in excused' \/ subs'[s] = y
    <3>1. subs \in Seq(Subscription) /\ y \in Subscription BY <1>0, <2>2
    <3>2. CASE subs' = [subs EXCEPT ![s] = y] BY <3>1, <3>2, OneSlot
    <3>3. CASE subs' = subs /\ excused' = excused \cup {s} BY <3>1, <3>3
    <3> QED BY <2>3, <3>2, <3>3
  <2>5. \A r \in 1 .. Len(subs') : Fresh(subs[r])'
    <3>1. \A r \in 1 .. Len(subs') : Fresh(subs'[r]) BY <1>0, <2>2, <2>4
    <3> QED BY <2>1, <3>1 DEF Fresh, FreshSince
  <2>6. query' \in [at : {"idle", "pull", "unsubscribe"}, sub : Nat, attempt : Nat,
                    drained : BOOLEAN] /\ query'.at = "idle"
    BY <2>1 DEF NoQuery
  <2>7. QueryTypes' BY <1>0, <2>1, <2>4, <2>6 DEF QueryTypes
  <2>8. \A r \in 1 .. Len(subs') : subs'[r].open => r \in excused'
    <3> SUFFICES ASSUME NEW r \in 1 .. Len(subs), subs'[r].open PROVE r \in excused'
      BY <2>4
    <3>1. CASE r = s BY <2>2, <2>4, <3>1
    <3>2. CASE r # s
      <4>1. subs[r].open BY <2>4, <3>2
      <4> QED BY <2>0, <2>3, <3>2, <4>1 DEF QueryInv
    <3> QED BY <3>1, <3>2
  <2>9. subs'[Len(subs')].since = subs[Len(subs)].since BY <2>0, <2>2, <2>4
  <2> QED BY <2>1, <2>4, <2>5, <2>6, <2>7, <2>8, <2>9 DEF QueryInv, Reason
<1> QED BY <1>1, <1>2, <1>3, <1>4

\* The invariant of the query holds.
LEMMA QueryInvariant == PpSpec => [](QueryTypes /\ QueryInv)
<1>1. PpInit => QueryTypes /\ QueryInv
  <2> SUFFICES ASSUME PpInit PROVE QueryTypes /\ QueryInv OBVIOUS
  <2>1. subs = <<>> /\ Len(subs) = 0 /\ 1 .. Len(subs) = {} BY DEF PpInit
  <2>2. /\ query = [at |-> "idle", sub |-> 0, attempt |-> 0, drained |-> FALSE]
        /\ query.at = "idle" /\ result = -1 /\ asks = 0
    BY DEF PpInit, NoQuery
  <2>3. QueryTypes
    <3>1. query \in [at : {"idle", "pull", "unsubscribe"}, sub : Nat, attempt : Nat,
                     drained : BOOLEAN]
      BY <2>2
    <3>2. pulls \in [made : Nat, empty : Nat] /\ failed \in BOOLEAN /\ topicState \in Nat
      BY DEF PpInit
    <3>3. subs \in Seq(Subscription) BY <2>1
    <3> QED BY <2>2, <3>1, <3>2, <3>3 DEF QueryTypes
  <2> QED BY <2>1, <2>2, <2>3 DEF QueryInv
<1>2. QueryTypes /\ QueryInv /\ [PpNext]_ppVars => QueryTypes' /\ QueryInv'
  <2> SUFFICES ASSUME QueryTypes, QueryInv, [PpNext]_ppVars PROVE QueryTypes' /\ QueryInv' OBVIOUS
  <2>1. CASE UNCHANGED ppVars
    BY <2>1 DEF ppVars, QueryTypes, QueryInv, Reason, Fresh, FreshSince
  <2>2. CASE PpNext
    BY <2>2, DeviceStep, CallerStep
       DEF PpNext, cond_remote_pullpoint, cond_local_pullpoint, remote_pullpoint_query
  <2> QED BY <2>1, <2>2
<1> QED BY <1>1, <1>2, PTL DEF PpSpec

\* The device keeps no subscription of a query that has ended, whichever way it went, but
\* after a failed call to make or to end it (cond_vapix_event_state, remote_pullpoint_query).
THEOREM Returned == PpSpec => []SubscriptionsReturned
<1>1. QueryInv => SubscriptionsReturned BY DEF QueryInv, SubscriptionsReturned
<1> QED BY <1>1, QueryInvariant, PTL

\* An answer is a state the event has had since the query was made, and there is a reason
\* for none (cond_local_pullpoint).
THEOREM Fresher == PpSpec => []AnswerFresh
<1>1. QueryInv => AnswerFresh BY DEF QueryInv, AnswerFresh, Reason
<1> QED BY <1>1, QueryInvariant, PTL
=============================================================================
