------------------------------ MODULE Sparkplug ------------------------------
(***************************************************************************)
(* The Sparkplug B edge node of src/app/engine/sparkplug.c on the MQTT     *)
(* connection of mqtt_client.c, and the host that validates its traffic    *)
(* (src/tools/sparkplug_host.py).                                          *)
(*                                                                         *)
(* spb_lock guards the node.  The worker thread runs the connection and    *)
(* the state callbacks; rule actions, device events and messages run on    *)
(* the main loop; settings arrive on the FastCGI thread.  Sparkplug_Publish *)
(* looks twice at the connection, which the worker changes without         *)
(* spb_lock, so it is two steps under the lock.                            *)
(*                                                                         *)
(* A metric's alias is its position in the list.  A sample is a number.    *)
(* Topics, payload encoding and timestamps are left out.                   *)
(***************************************************************************)
EXTENDS Integers, Sequences, FiniteSets

CONSTANTS
  Configs,      \* settings blocks: [on, id, dev, watch, list]
  SeqMod,       \* 256
  MaxHistory,   \* SPB_HISTORY_MAX
  MaxConfigs,   \* bound: settings changes
  MaxSamples,   \* bound: samples
  MaxSessions,  \* bound: connection attempts
  MaxCrashes,   \* bound: process crashes
  MaxHostMsgs   \* bound: STATE and rebirth messages of the host

\* on: enabled with valid ids; id: group and node; dev: a device id is set; watch: a
\* primary host is configured; list: the declared metrics, without duplicates.
ASSUME NodeParams ==
  /\ \A c \in Configs :
       /\ c = [on |-> c.on, id |-> c.id, dev |-> c.dev, watch |-> c.watch, list |-> c.list]
       /\ c.on \in BOOLEAN /\ c.dev \in BOOLEAN /\ c.watch \in BOOLEAN
       /\ c.list \in Seq(STRING)
       /\ \A i, j \in DOMAIN c.list : c.list[i] = c.list[j] => i = j
  /\ SeqMod \in Nat \ {0} /\ MaxHistory \in Nat \ {0}
  /\ MaxConfigs \in Nat /\ MaxSamples \in Nat /\ MaxSessions \in Nat
  /\ MaxCrashes \in Nat /\ MaxHostMsgs \in Nat

Nobody  == [born |-> FALSE]
NoWill  == [set |-> FALSE]
Metrics == UNION {{c.list[i] : i \in DOMAIN c.list} : c \in Configs}

VARIABLES
  node,      \* under spb_lock: cfg, online (host_online), birth_sent, seq, history
  bdseq,     \* bdseq
  file,      \* sparkplug_bdseq.json: a number, or -1 while it is being written
  will,      \* the will the next CONNECT will carry
  worker,    \* "off", "saving", "pre", "sent", "up0", "up", "closing"
  broken,    \* the connection is dead but the worker has not noticed
  wake,      \* a reconnect was requested
  pub,       \* Sparkplug_Publish: at rest, or between its two looks at the connection
  http,      \* Sparkplug_Configure: at rest, or after its first critical section
  session,   \* the will this session's CONNECT carried
  view,      \* the host: the last NBIRTH of this session and the last seq
  sessions, configs, samples, crashes, hostmsgs,
  used,      \* history: bdSeq values of earlier sessions
  torn,      \* history: a crash hit the bdSeq file while it was being written
  unsettled, \* history: settings changed after the last birth the host got
  faults,    \* history: complaints of the host, and whether settings explain them
  kept       \* history: samples accepted, delivered, overwritten, slipped

ghost    == <<used, torn, unsettled, faults, kept>>
counters == <<sessions, configs, samples, crashes, hostmsgs>>
vars     == <<node, bdseq, file, will, worker, broken, wake, pub, http, session, view,
              counters, ghost>>

Connected == worker \in {"up0", "up"}
Alive     == Connected /\ ~broken

\* spb_lock is free: Publish keeps it between its two looks, PRECONNECT while it saves.
Unlocked == pub.pc = "idle" /\ worker # "saving"

Resting == [pc |-> "idle", idx |-> 0, sample |-> 0, buffered |-> FALSE, rule |-> FALSE]

(***************************************************************************)
(* What is sent.  Each operator takes the state s = [node, view, faults,   *)
(* kept, unsettled] and returns the next one; alive: the send succeeds.    *)
(***************************************************************************)

Now == [node |-> node, view |-> view, faults |-> faults, kept |-> kept,
        unsettled |-> unsettled]

Becomes(s) ==
  /\ node' = s.node /\ view' = s.view /\ faults' = s.faults /\ kept' = s.kept
  /\ unsettled' = s.unsettled

Complaint(s, kind) == <<kind, s.unsettled>>

\* take_seq.
Bump(n) == (n + 1) % SeqMod

\* Mutant: a rebirth goes on counting.
SeqOfBirthNext(s) == s.node.seq

SeqOfBirth(s) == 0

\* publish_birth: NBIRTH, with seq reset to 0, then DBIRTH if there is a device.  The
\* host compares its bdSeq and node with the will of the session.
publish_birth(s, alive) ==
  LET first == SeqOfBirth(s)
      last  == IF s.node.cfg.dev THEN Bump(first) ELSE first
      match == session.set /\ session.bdseq = bdseq /\ session.id = s.node.cfg.id IN
  IF ~s.node.cfg.on THEN s
  ELSE IF ~alive THEN [s EXCEPT !.node.seq = Bump(first)]
  ELSE [s EXCEPT !.node.seq = Bump(last), !.node.birth_sent = TRUE,
                 !.view = [born |-> TRUE, id |-> s.node.cfg.id, list |-> s.node.cfg.list,
                           seq |-> last],
                 !.unsettled = @ /\ ~match,
                 !.faults = @ \cup (IF match THEN {} ELSE {Complaint(s, "will")})
                              \cup (IF first = 0 THEN {} ELSE {Complaint(s, "gap")})]

\* A data message with the given aliases.  The host wants a birth of this node before
\* it, the next seq, and aliases that mean what the birth said.
Data(s, alive, aliases) ==
  LET known == s.view.born /\ s.view.id = s.node.cfg.id
      next  == known /\ s.node.seq = Bump(s.view.seq)
      means == known /\ \A a \in aliases :
                 a \in DOMAIN s.view.list /\ s.view.list[a] = s.node.cfg.list[a]
      wrong == (IF known THEN {} ELSE {Complaint(s, "unborn")})
               \cup (IF known /\ ~next THEN {Complaint(s, "gap")} ELSE {})
               \cup (IF known /\ ~means THEN {Complaint(s, "alias")} ELSE {}) IN
  IF ~alive THEN [s EXCEPT !.node.seq = Bump(@)]
  ELSE [s EXCEPT !.node.seq = Bump(@), !.faults = @ \cup wrong,
                 !.view = IF known THEN [@ EXCEPT !.seq = s.node.seq] ELSE @]

Numbers(h) == {h[i].sample : i \in DOMAIN h}

\* Mutant: the buffer is emptied whether or not the replay was sent.
KeepsBufferNever(alive) == FALSE

KeepsBuffer(alive) == ~alive

\* flush_history: samples whose metric index is out of range are skipped, the others
\* are sent in one message under the name their index has now.
flush_history(s, alive) ==
  LET h == s.node.history
      valid == {i \in DOMAIN h : h[i].idx <= Len(s.node.cfg.list)}
      replayed == {h[i].sample : i \in valid}
      sent == Data(s, alive, {h[i].idx : i \in valid})
      swapped == \E i \in valid : s.node.cfg.list[h[i].idx] # h[i].metric IN
  IF h = <<>> THEN s
  ELSE IF valid = {} THEN [s EXCEPT !.node.history = <<>>, !.kept.lost = @ \cup Numbers(h)]
  ELSE IF KeepsBuffer(alive) THEN sent
  ELSE [sent EXCEPT !.node.history = <<>>,
                    !.kept.delivered = @ \cup (IF alive THEN replayed ELSE {}),
                    !.kept.lost = @ \cup (Numbers(h) \ replayed),
                    !.faults = @ \cup (IF alive /\ swapped THEN {<<"swapped", TRUE>>} ELSE {})]

\* Mutant: one entry too many.
HasRoomOver(h) == Len(h) <= MaxHistory

HasRoom(h) == Len(h) < MaxHistory

\* buffer_sample: a full ring drops its oldest entry.
buffer_sample(s, x) ==
  LET h == s.node.history IN
  IF HasRoom(h) THEN [s EXCEPT !.node.history = Append(h, x)]
  ELSE [s EXCEPT !.node.history = Append(Tail(h), x), !.kept.lost = @ \cup {Head(h).sample}]

\* Mutant: a birth alone.
ReplayNever(b, alive) == b

\* A birth that went out is followed by the replay.
Replay(b, alive) == IF b.node.birth_sent THEN flush_history(b, alive) ELSE b

(***************************************************************************)
(* The connection: worker_fn and mqtt_state_cb.                            *)
(***************************************************************************)

\* PRECONNECT with the node enabled: a new bdSeq, and its file is opened.
Preconnect ==
  /\ worker = "off" /\ Unlocked /\ sessions < MaxSessions
  /\ sessions' = sessions + 1 /\ wake' = FALSE /\ broken' = FALSE
  /\ node' = [node EXCEPT !.online = TRUE]
  /\ IF node.cfg.on
     THEN bdseq' = bdseq + 1 /\ file' = -1 /\ worker' = "saving" /\ UNCHANGED will
     ELSE will' = NoWill /\ worker' = "pre" /\ UNCHANGED <<bdseq, file>>
  /\ UNCHANGED <<pub, http, session, view, configs, samples, crashes, hostmsgs, ghost>>

\* Mutant: the will of the session before is kept.
WillKept == will

\* register_will.
NewWill == [set |-> TRUE, bdseq |-> bdseq, id |-> node.cfg.id]

\* save_bdseq ends, register_will.
Registered ==
  /\ worker = "saving"
  /\ file' = bdseq
  /\ node' = [node EXCEPT !.birth_sent = FALSE]
  /\ will' = NewWill
  /\ worker' = "pre"
  /\ UNCHANGED <<bdseq, broken, wake, pub, http, session, view, counters, ghost>>

\* send_connect reads the will under will_lock.
SendConnect ==
  /\ worker = "pre"
  /\ session' = will
  /\ used' = used \cup (IF session.set THEN {session.bdseq} ELSE {})
  /\ view' = Nobody
  /\ worker' = "sent"
  /\ UNCHANGED <<node, bdseq, file, will, broken, wake, pub, http, counters, torn,
                 unsettled, faults, kept>>

\* The broker accepts, or the handshake fails.
Connack ==
  /\ worker = "sent"
  /\ \/ worker' = "up0"
     \/ worker' = "off"
  /\ UNCHANGED <<node, bdseq, file, will, broken, wake, pub, http, session, view, counters,
                 ghost>>

\* CONNECTED: birth, then the replay.
ConnectedCallback ==
  /\ worker = "up0" /\ Unlocked
  /\ worker' = "up"
  /\ Becomes(IF node.cfg.on THEN Replay(publish_birth(Now, Alive), Alive) ELSE Now)
  /\ UNCHANGED <<bdseq, file, will, broken, wake, pub, http, session, counters, used, torn>>

\* The peer is gone: sends fail from now on.
Break ==
  /\ Alive
  /\ broken' = TRUE
  /\ UNCHANGED <<node, bdseq, file, will, worker, wake, pub, http, session, view, counters,
                 ghost>>

\* The receive loop ends, on a dead connection or a reconnect request: connected is
\* cleared without spb_lock.
Disconnected ==
  /\ worker = "up" /\ (broken \/ wake)
  /\ worker' = "closing"
  /\ UNCHANGED <<node, bdseq, file, will, broken, wake, pub, http, session, view, counters,
                 ghost>>

\* DISCONNECTED.
DisconnectedCallback ==
  /\ worker = "closing" /\ Unlocked
  /\ worker' = "off"
  /\ node' = [node EXCEPT !.birth_sent = FALSE]
  /\ UNCHANGED <<bdseq, file, will, broken, wake, pub, http, session, view, counters, ghost>>

(***************************************************************************)
(* Samples.                                                                *)
(***************************************************************************)

\* Mutant: only a missing connection makes it buffer.
MustBufferOffline == ~Connected

\* birth_sent, host_online and the connection, as Publish tests them.
MustBuffer == ~node.birth_sent \/ ~node.online \/ ~Connected

\* Sparkplug_Publish (rule) or Sparkplug_On_Device_Event, up to the buffering: the
\* sample of metric m is buffered when it cannot be published now.
Sample(m, rule) ==
  \E i \in DOMAIN node.cfg.list :
    /\ Unlocked /\ node.cfg.on /\ node.cfg.list[i] = m
    /\ samples < MaxSamples /\ samples' = samples + 1
    /\ pub' = [pc |-> "send", idx |-> i, sample |-> samples + 1, buffered |-> MustBuffer,
               rule |-> rule]
    /\ IF MustBuffer
       THEN Becomes(buffer_sample(Now, [idx |-> i, metric |-> m, sample |-> samples + 1]))
       ELSE UNCHANGED <<node, view, faults, kept, unsettled>>
    /\ UNCHANGED <<bdseq, file, will, worker, broken, wake, http, session, sessions, configs,
                   crashes, hostmsgs, used, torn>>

\* publish_data, and what is returned: a sample that is not published counts as
\* accepted if it looks now as if it had been buffered.
Publish ==
  /\ pub.pc = "send"
  /\ pub' = Resting
  /\ LET n == pub.sample
         s == IF MustBuffer THEN Now ELSE Data(Now, Alive, {pub.idx})
         ok == (~MustBuffer /\ Alive) \/ MustBuffer
         t == IF ~MustBuffer /\ Alive THEN [s EXCEPT !.kept.delivered = @ \cup {n}] ELSE s
         u == IF MustBuffer /\ ~pub.buffered THEN [t EXCEPT !.kept.slipped = @ \cup {n}]
              ELSE t IN
     Becomes(IF ok /\ pub.rule THEN [u EXCEPT !.kept.accepted = @ \cup {n}] ELSE u)
  /\ UNCHANGED <<bdseq, file, will, worker, broken, wake, http, session, counters, used, torn>>

(***************************************************************************)
(* Messages of the host, on the main loop: Sparkplug_On_MQTT_Message.      *)
(***************************************************************************)

\* STATE: a host that comes online gets a birth and the replay, one that is online
\* already a birth.
HostState(online) ==
  /\ Unlocked /\ node.cfg.on /\ node.cfg.watch /\ hostmsgs < MaxHostMsgs
  /\ hostmsgs' = hostmsgs + 1
  /\ LET s == [Now EXCEPT !.node.online = online]
         b == publish_birth(s, Alive) IN
     Becomes(IF ~online THEN s
             ELSE IF ~node.online THEN Replay(b, Alive) ELSE b)
  /\ UNCHANGED <<bdseq, file, will, worker, broken, wake, pub, http, session, sessions, configs,
                 samples, crashes, used, torn>>

\* An NCMD or DCMD that asks for a rebirth.
Rebirth ==
  /\ Unlocked /\ node.cfg.on /\ hostmsgs < MaxHostMsgs
  /\ hostmsgs' = hostmsgs + 1
  /\ Becomes(publish_birth(Now, Alive))
  /\ UNCHANGED <<bdseq, file, will, worker, broken, wake, pub, http, session, sessions, configs,
                 samples, crashes, used, torn>>

(***************************************************************************)
(* Settings: Sparkplug_Configure.                                          *)
(***************************************************************************)

\* Everything but the metric list.
IdentityChanged(c, d) == [c EXCEPT !.list = <<>>] # [d EXCEPT !.list = <<>>]

\* The first critical section; an unchanged block is ignored.
Configure(c) ==
  /\ http = "idle" /\ Unlocked /\ configs < MaxConfigs
  /\ configs' = configs + 1
  /\ c # node.cfg
  /\ node' = [node EXCEPT !.cfg = c, !.online = @ \/ ~c.watch \/ c.watch # node.cfg.watch]
  /\ unsettled' = TRUE
  /\ http' = IF ~c.on THEN "unset" ELSE IF IdentityChanged(c, node.cfg) THEN "reconnect"
             ELSE "rebirth"
  /\ UNCHANGED <<bdseq, file, will, worker, broken, wake, pub, session, view, sessions, samples,
                 crashes, hostmsgs, used, torn, faults, kept>>

\* Disabled: the will is cleared, then birth_sent.
ClearWill ==
  /\ http = "unset"
  /\ will' = NoWill
  /\ http' = "unbirth"
  /\ UNCHANGED <<node, bdseq, file, worker, broken, wake, pub, session, view, counters, ghost>>

Unbirth ==
  /\ http = "unbirth" /\ Unlocked
  /\ node' = [node EXCEPT !.birth_sent = FALSE]
  /\ http' = "idle"
  /\ UNCHANGED <<bdseq, file, will, worker, broken, wake, pub, session, view, counters, ghost>>

\* A new identity asks for a new session, if there is one; if not, the connection is
\* looked at once more.
Reconnect ==
  /\ http = "reconnect"
  /\ wake' = (wake \/ Connected)
  /\ http' = IF Connected THEN "idle" ELSE "rebirth"
  /\ UNCHANGED <<node, bdseq, file, will, worker, broken, pub, session, view, counters, ghost>>

\* A new list gets a new birth.
RebirthNow ==
  /\ http = "rebirth" /\ Unlocked
  /\ http' = "idle"
  /\ IF Connected THEN Becomes(publish_birth(Now, Alive))
     ELSE UNCHANGED <<node, view, faults, kept, unsettled>>
  /\ UNCHANGED <<bdseq, file, will, worker, broken, wake, pub, session, counters, used, torn>>

(***************************************************************************)
(* The process.                                                            *)
(***************************************************************************)

\* Mutant: counting starts again.
LoadedNever == 0

\* load_bdseq: an unreadable file leaves 0.
Loaded == IF file < 0 THEN 0 ELSE file

Fresh(c) == [cfg |-> c, online |-> TRUE, birth_sent |-> FALSE, seq |-> 0, history |-> <<>>]

\* The process ends and starts with the saved settings; buffered samples are gone.
Restart ==
  /\ crashes < MaxCrashes /\ crashes' = crashes + 1
  /\ node' = Fresh(node.cfg)
  /\ bdseq' = Loaded /\ torn' = (torn \/ file < 0)
  /\ will' = NoWill /\ worker' = "off" /\ broken' = FALSE /\ wake' = FALSE
  /\ pub' = Resting /\ http' = "idle"
  /\ session' = NoWill /\ view' = Nobody
  /\ used' = used \cup (IF session.set THEN {session.bdseq} ELSE {})
  /\ unsettled' = FALSE
  /\ kept' = [kept EXCEPT !.lost = @ \cup Numbers(node.history) \cup {pub.sample}]
  /\ UNCHANGED <<file, sessions, configs, samples, hostmsgs>>

Crash == Restart /\ UNCHANGED faults

\* Sparkplug_Cleanup at a regular stop: an NDEATH of its own, which the host compares
\* with the session's will.
Cleanup ==
  /\ Unlocked
  /\ Restart
  /\ LET dies == node.cfg.on /\ node.birth_sent /\ Alive
         match == session.set /\ session.bdseq = bdseq /\ session.id = node.cfg.id IN
     faults' = faults \cup (IF dies /\ ~match THEN {Complaint(Now, "will")} ELSE {})

Init ==
  /\ \E c \in Configs : node = Fresh(c)
  /\ bdseq = 0 /\ file = 0 /\ will = NoWill /\ worker = "off" /\ broken = FALSE
  /\ wake = FALSE /\ pub = Resting /\ http = "idle" /\ session = NoWill /\ view = Nobody
  /\ sessions = 0 /\ configs = 0 /\ samples = 0 /\ crashes = 0 /\ hostmsgs = 0
  /\ used = {} /\ torn = FALSE /\ unsettled = FALSE /\ faults = {}
  /\ kept = [accepted |-> {}, delivered |-> {}, lost |-> {}, slipped |-> {}]

Next ==
  \/ Preconnect
  \/ Registered
  \/ SendConnect
  \/ Connack
  \/ ConnectedCallback
  \/ Break
  \/ Disconnected
  \/ DisconnectedCallback
  \/ \E m \in Metrics, rule \in BOOLEAN : Sample(m, rule)
  \/ Publish
  \/ \E online \in BOOLEAN : HostState(online)
  \/ Rebirth
  \/ \E c \in Configs : Configure(c)
  \/ ClearWill
  \/ Unbirth
  \/ Reconnect
  \/ RebirthNow
  \/ Crash
  \/ Cleanup

Spec == Init /\ [][Next]_vars

(***************************************************************************)
(* Properties.                                                             *)
(***************************************************************************)

\* Types; seq stays a byte and the ring never holds more than its size.
TypeOK ==
  /\ node.cfg \in Configs /\ node.online \in BOOLEAN /\ node.birth_sent \in BOOLEAN
  /\ node.seq \in 0 .. SeqMod - 1
  /\ node.history \in Seq([idx : Nat \ {0}, metric : Metrics, sample : 1 .. MaxSamples])
  /\ Len(node.history) <= MaxHistory
  /\ bdseq \in Nat /\ file \in Nat \cup {-1}
  /\ worker \in {"off", "saving", "pre", "sent", "up0", "up", "closing"}
  /\ http \in {"idle", "unset", "unbirth", "reconnect", "rebirth"}
  /\ broken \in BOOLEAN /\ wake \in BOOLEAN /\ torn \in BOOLEAN /\ unsettled \in BOOLEAN
  /\ kept \in [accepted : SUBSET (1 .. MaxSamples), delivered : SUBSET (1 .. MaxSamples),
               lost : SUBSET (0 .. MaxSamples), slipped : SUBSET (1 .. MaxSamples)]

\* README "checks the parts of the spec that are easy to get wrong: birth before data,
\* seq continuity, bdSeq matching between NBIRTH and NDEATH, and alias resolution":
\* the validating host complains only about what settings explain that changed after
\* the last birth it got, or while samples were buffered (sparkplug.c:309, 794, 842).
HostAcceptsSettled == \A f \in faults : f[2]

\* sparkplug.c:212 "bdSeq must differ between MQTT sessions, including across app
\* restarts": a session's will has a new bdSeq, unless a crash has cut the file short
\* while it was written.
BdSeqFresh == session.set /\ ~torn => session.bdseq \notin used

\* Neither the host's checks nor its matching of deaths to births is misled.
HostNotMisled == HostAcceptsSettled /\ BdSeqFresh

\* sparkplug.h:39 "Returns 1 if published or buffered for replay": an accepted sample
\* is at the host, in the buffer, or was overwritten there.  Only a connection that is
\* lost between the two looks at it makes a sample slip through (sparkplug.c:695, 701).
AcceptedKeptUnlessSlipped ==
  kept.accepted \ kept.slipped \subseteq
    kept.delivered \cup kept.lost \cup Numbers(node.history)

\* sparkplug.c:75 "Data collected while it is offline is buffered instead of being
\* published into the void, then replayed when it returns": while samples could be
\* published and nothing is on its way to happen, none are waiting in the buffer.
NothingStranded ==
  (worker = "up" /\ ~broken /\ ~wake /\ http = "idle" /\ pub.pc = "idle" /\ ~MustBuffer)
    => node.history = <<>>
=============================================================================
