--------------------------- MODULE SparkplugProofs ---------------------------
(***************************************************************************)
(* Proofs about the Sparkplug B edge node, for any settings, any period of *)
(* the sequence number, any size of the buffer and any number of sessions, *)
(* samples, settings changes, host messages and crashes.                   *)
(***************************************************************************)
EXTENDS Sparkplug, TLAPS

(***************************************************************************)
(* Types.                                                                  *)
(***************************************************************************)

\* What the operators on s = [node, view, faults, kept, unsettled] take and return.
Ids      == {c.id : c \in Configs}
Lists    == {c.list : c \in Configs}
Seqs     == 0 .. SeqMod - 1
Buffered == [idx : Nat \ {0}, metric : Metrics, sample : 1 .. MaxSamples]
Node     == [cfg : Configs, online : BOOLEAN, birth_sent : BOOLEAN, seq : Seqs,
             history : Seq(Buffered)]
View     == {Nobody} \cup [born : {TRUE}, id : Ids, list : Lists, seq : Seqs]
Kinds    == {"will", "unborn", "gap", "alias", "swapped"}
Faults   == Kinds \X BOOLEAN
Kept     == [accepted : SUBSET (1 .. MaxSamples), delivered : SUBSET (1 .. MaxSamples),
             lost : SUBSET (0 .. MaxSamples), slipped : SUBSET (1 .. MaxSamples)]
State    == [node : Node, view : View, faults : SUBSET Faults, kept : Kept,
             unsettled : BOOLEAN]

\* The rest.
Will     == {NoWill} \cup [set : {TRUE}, bdseq : Nat, id : Ids]
Pub      == [pc : {"idle", "send"}, idx : Nat, sample : 0 .. MaxSamples,
             buffered : BOOLEAN, rule : BOOLEAN]
LinkTypes ==
  /\ bdseq \in Nat /\ file \in Nat \cup {-1} /\ used \subseteq Nat
  /\ will \in Will /\ session \in Will /\ pub \in Pub
  /\ pub.pc = "send" => pub.sample \in 1 .. MaxSamples
  /\ worker \in {"off", "saving", "pre", "sent", "up0", "up", "closing"}
  /\ http \in {"idle", "unset", "unbirth", "reconnect", "rebirth"}
  /\ broken \in BOOLEAN /\ wake \in BOOLEAN /\ torn \in BOOLEAN
  /\ samples \in 0 .. MaxSamples
NodeTypes == Now \in State /\ Len(node.history) <= MaxHistory

\* A will names a bdSeq.
LEMMA WillFacts ==
  ASSUME NEW w \in Will
  PROVE  w.set \in BOOLEAN /\ (w.set => w.bdseq \in Nat)
<1>1. CASE w = NoWill
  <2>1. w.set = FALSE BY <1>1 DEF NoWill
  <2> QED BY <2>1
<1>2. CASE w \in [set : {TRUE}, bdseq : Nat, id : Ids] BY <1>2
<1> QED BY <1>1, <1>2 DEF Will

\* A settings block is a record.
LEMMA ConfigFacts ==
  ASSUME NEW c \in Configs
  PROVE  /\ c = [on |-> c.on, id |-> c.id, dev |-> c.dev, watch |-> c.watch, list |-> c.list]
         /\ c.on \in BOOLEAN /\ c.watch \in BOOLEAN /\ c.dev \in BOOLEAN
         /\ c.list \in Seq(STRING) /\ c.id \in Ids /\ c.list \in Lists
BY NodeParams DEF Ids, Lists

\* A change that leaves everything but the list.
LEMMA SameIdentity ==
  ASSUME NEW c \in Configs, NEW d \in Configs, ~IdentityChanged(c, d)
  PROVE  c.on = d.on /\ c.watch = d.watch
<1>1. [c EXCEPT !.list = <<>>] = [d EXCEPT !.list = <<>>] BY DEF IdentityChanged
<1>2. /\ [c EXCEPT !.list = <<>>].on = c.on /\ [c EXCEPT !.list = <<>>].watch = c.watch
  <2>1. c = [on |-> c.on, id |-> c.id, dev |-> c.dev, watch |-> c.watch, list |-> c.list]
    BY ConfigFacts
  <2> QED BY <2>1
<1>3. /\ [d EXCEPT !.list = <<>>].on = d.on /\ [d EXCEPT !.list = <<>>].watch = d.watch
  <2>1. d = [on |-> d.on, id |-> d.id, dev |-> d.dev, watch |-> d.watch, list |-> d.list]
    BY ConfigFacts
  <2> QED BY <2>1
<1> QED BY <1>1, <1>2, <1>3

\* A complaint has a kind, and says whether settings explain it.
LEMMA ComplaintFacts ==
  ASSUME NEW s \in State
  PROVE  /\ Complaint(s, "will") \in Faults /\ Complaint(s, "will")[2] = s.unsettled
         /\ Complaint(s, "unborn") \in Faults /\ Complaint(s, "unborn")[2] = s.unsettled
         /\ Complaint(s, "gap") \in Faults /\ Complaint(s, "gap")[2] = s.unsettled
         /\ Complaint(s, "alias") \in Faults /\ Complaint(s, "alias")[2] = s.unsettled
<1>1. s.unsettled \in BOOLEAN BY DEF State
<1>2. PICK u \in BOOLEAN : u = s.unsettled BY <1>1
<1>3. \A S, T : \A k \in S, x \in T : <<k, x>> \in S \X T OBVIOUS
<1>4. "will" \in Kinds /\ "unborn" \in Kinds /\ "gap" \in Kinds /\ "alias" \in Kinds
  BY DEF Kinds
<1>5. \A k, x : <<k, x>>[2] = x OBVIOUS
<1> QED BY <1>2, <1>3, <1>4, <1>5, Zenon DEF Faults, Complaint

\* The sequence number stays a byte.
LEMMA BumpType ==
  ASSUME NEW n \in Nat
  PROVE  Bump(n) \in Seqs
BY NodeParams DEF Bump, Seqs

\* The fields of a state, and a state is its fields.
LEMMA StateFields ==
  ASSUME NEW s \in State
  PROVE  /\ s.node \in Node /\ s.view \in View /\ s.faults \in SUBSET Faults
         /\ s.kept \in Kept /\ s.unsettled \in BOOLEAN
         /\ s = [node |-> s.node, view |-> s.view, faults |-> s.faults, kept |-> s.kept,
                 unsettled |-> s.unsettled]
         /\ s.node.cfg \in Configs /\ s.node.online \in BOOLEAN /\ s.node.birth_sent \in BOOLEAN
         /\ s.node.seq \in Seqs /\ s.node.history \in Seq(Buffered)
         /\ s.view.born \in BOOLEAN
         /\ s.view.born => /\ s.view.id \in Ids /\ s.view.list \in Lists /\ s.view.seq \in Seqs
                           /\ s.view \in [born : {TRUE}, id : Ids, list : Lists, seq : Seqs]
<1>1. /\ s.node \in Node /\ s.view \in View /\ s.faults \in SUBSET Faults
      /\ s.kept \in Kept /\ s.unsettled \in BOOLEAN
      /\ s = [node |-> s.node, view |-> s.view, faults |-> s.faults, kept |-> s.kept,
              unsettled |-> s.unsettled]
  BY DEF State
<1>2. /\ s.node.cfg \in Configs /\ s.node.online \in BOOLEAN /\ s.node.birth_sent \in BOOLEAN
      /\ s.node.seq \in Seqs /\ s.node.history \in Seq(Buffered)
  BY <1>1 DEF Node
<1>3. CASE s.view = Nobody
  <2>1. s.view.born = FALSE BY <1>3 DEF Nobody
  <2> QED BY <1>1, <1>2, <2>1
<1>4. CASE s.view \in [born : {TRUE}, id : Ids, list : Lists, seq : Seqs]
  BY <1>1, <1>2, <1>4
<1> QED BY <1>1, <1>3, <1>4 DEF View

\* What a state becomes is the next state.
LEMMA NextNow ==
  ASSUME NEW CONSTANT s \in State, Becomes(s)
  PROVE  Now' = s
BY StateFields DEF Becomes, Now

\* So is a state that stays.
LEMMA SameNow ==
  ASSUME UNCHANGED <<node, view, faults, kept, unsettled>>
  PROVE  Now' = Now
BY DEF Now

(***************************************************************************)
(* What the operators do.                                                  *)
(***************************************************************************)

\* The session's will is about the node as it is.
WillFits(s) == session.set /\ session.bdseq = bdseq /\ session.id = s.node.cfg.id

\* The host's birth is about the node as it is.
ViewFits(s) == /\ s.view.born /\ s.view.id = s.node.cfg.id /\ s.view.list = s.node.cfg.list
               /\ s.node.seq = Bump(s.view.seq)

\* The host has complained of nothing that settings do not explain, and will not when data
\* is sent.
Good(s, alive) == /\ \A f \in s.faults : f[2]
                  /\ ~s.unsettled /\ alive /\ s.node.birth_sent => ViewFits(s)

\* Samples that have not gone astray.
Held(s) == s.kept.delivered \cup s.kept.lost \cup Numbers(s.node.history)

\* A birth: what it leaves, and what the host then knows.
LEMMA BirthFacts ==
  ASSUME NEW s \in State, NEW alive \in BOOLEAN
  PROVE  LET b == publish_birth(s, alive) IN
         /\ b \in State
         /\ b.node.cfg = s.node.cfg /\ b.node.online = s.node.online
         /\ b.node.history = s.node.history /\ b.kept = s.kept
         /\ b.node.birth_sent = (s.node.birth_sent \/ (s.node.cfg.on /\ alive))
         /\ b.unsettled = (s.unsettled /\ ~(s.node.cfg.on /\ alive /\ WillFits(s)))
         /\ s.node.cfg.on /\ alive => ViewFits(b)
         /\ Good(s, alive) /\ (~s.unsettled /\ alive /\ s.node.cfg.on => WillFits(s)) =>
              Good(b, alive)
<1> DEFINE b == publish_birth(s, alive)
           last == IF s.node.cfg.dev THEN Bump(0) ELSE 0
<1>0. s.node.cfg.on \in BOOLEAN /\ s.unsettled \in BOOLEAN /\ s.node.birth_sent \in BOOLEAN
  BY StateFields, ConfigFacts
<1>1. CASE ~s.node.cfg.on
  <2>1. b = s BY <1>1 DEF publish_birth
  <2> QED BY <1>0, <1>1, <2>1
<1>2. CASE s.node.cfg.on /\ ~alive
  <2> DEFINE n == [s.node EXCEPT !.seq = Bump(0)]
  <2>1. b = [s EXCEPT !.node = n] BY <1>2 DEF publish_birth, SeqOfBirth
  <2>2. Bump(0) \in Seqs BY BumpType
  <2>3. n \in Node /\ n.cfg = s.node.cfg /\ n.online = s.node.online
        /\ n.history = s.node.history /\ n.birth_sent = s.node.birth_sent
    BY <2>2, StateFields DEF Node
  <2> HIDE DEF n
  <2>4. b \in State /\ b.node = n /\ b.kept = s.kept /\ b.faults = s.faults
        /\ b.unsettled = s.unsettled
    BY <2>1, <2>3 DEF State
  <2>5. Good(s, alive) => Good(b, alive) BY <1>2, <2>4 DEF Good
  <2> QED BY <1>0, <1>2, <2>3, <2>4, <2>5
<1>3. CASE s.node.cfg.on /\ alive
  <2> DEFINE n == [s.node EXCEPT !.seq = Bump(last), !.birth_sent = TRUE]
             v == [born |-> TRUE, id |-> s.node.cfg.id, list |-> s.node.cfg.list, seq |-> last]
             f == s.faults \cup (IF WillFits(s) THEN {} ELSE {Complaint(s, "will")})
             u == s.unsettled /\ ~WillFits(s)
  <2>1. b = [s EXCEPT !.node = n, !.view = v, !.unsettled = u, !.faults = f]
    BY <1>3 DEF publish_birth, SeqOfBirth, WillFits
  <2>2. last \in Seqs BY NodeParams, BumpType DEF Seqs
  <2>3. Bump(last) \in Seqs BY <2>2, BumpType DEF Seqs
  <2>4. /\ n \in Node /\ n.cfg = s.node.cfg /\ n.online = s.node.online
        /\ n.history = s.node.history /\ n.birth_sent = TRUE /\ n.seq = Bump(last)
    BY <2>3, StateFields DEF Node
  <2>5. v \in View /\ v.born /\ v.id = s.node.cfg.id /\ v.list = s.node.cfg.list /\ v.seq = last
    BY <2>2, StateFields, ConfigFacts DEF View
  <2>6. f \in SUBSET Faults /\ \A x \in f : x \in s.faults \/ (x[2] = s.unsettled /\ ~WillFits(s))
    <3>1. Complaint(s, "will") \in Faults /\ Complaint(s, "will")[2] = s.unsettled
      BY ComplaintFacts
    <3> QED BY <3>1, StateFields
  <2>7. u \in BOOLEAN BY <1>0 DEF WillFits
  <2> HIDE DEF n, v, f
  <2>8. b \in State /\ b.node = n /\ b.kept = s.kept /\ b.faults = f /\ b.unsettled = u
        /\ b.view = v
    BY <2>1, <2>4, <2>5, <2>6, <2>7 DEF State
  <2>9. ViewFits(b) BY <2>4, <2>5, <2>8 DEF ViewFits
  <2>10. Good(s, alive) /\ (~s.unsettled => WillFits(s)) => Good(b, alive)
    BY <1>0, <2>6, <2>8, <2>9 DEF Good
  <2> QED BY <1>0, <1>3, <2>4, <2>8, <2>9, <2>10
<1> QED BY <1>1, <1>2, <1>3

\* Data with known aliases: the host takes it if its birth fits.
LEMMA DataFacts ==
  ASSUME NEW s \in State, NEW alive \in BOOLEAN, NEW aliases \in SUBSET DOMAIN s.node.cfg.list
  PROVE  LET d == Data(s, alive, aliases) IN
         /\ d \in State
         /\ d.node.cfg = s.node.cfg /\ d.node.online = s.node.online
         /\ d.node.birth_sent = s.node.birth_sent
         /\ d.node.history = s.node.history /\ d.kept = s.kept /\ d.unsettled = s.unsettled
         /\ Good(s, alive) /\ s.node.birth_sent => Good(d, alive)
<1> DEFINE d == Data(s, alive, aliases)
           n == [s.node EXCEPT !.seq = Bump(s.node.seq)]
<1>0. s.unsettled \in BOOLEAN /\ s.node.birth_sent \in BOOLEAN /\ s.node.seq \in Nat
  <2>1. Seqs \subseteq Nat BY NodeParams DEF Seqs
  <2> QED BY <2>1, StateFields
<1>1. Bump(s.node.seq) \in Seqs BY <1>0, BumpType
<1>2. /\ n \in Node /\ n.cfg = s.node.cfg /\ n.online = s.node.online
      /\ n.history = s.node.history /\ n.birth_sent = s.node.birth_sent
      /\ n.seq = Bump(s.node.seq)
  BY <1>1, StateFields DEF Node
<1>3. CASE ~alive
  <2>1. d = [s EXCEPT !.node = n] BY <1>3 DEF Data
  <2> HIDE DEF n
  <2>2. d \in State /\ d.node = n /\ d.kept = s.kept /\ d.faults = s.faults
        /\ d.unsettled = s.unsettled
    BY <1>2, <2>1 DEF State
  <2> QED BY <1>2, <1>3, <2>2 DEF Good
<1>4. CASE alive
  <2> DEFINE known == s.view.born /\ s.view.id = s.node.cfg.id
             next  == known /\ s.node.seq = Bump(s.view.seq)
             means == known /\ \A a \in aliases :
                        a \in DOMAIN s.view.list /\ s.view.list[a] = s.node.cfg.list[a]
             wrong == (IF known THEN {} ELSE {Complaint(s, "unborn")})
                      \cup (IF known /\ ~next THEN {Complaint(s, "gap")} ELSE {})
                      \cup (IF known /\ ~means THEN {Complaint(s, "alias")} ELSE {})
             v == IF known THEN [s.view EXCEPT !.seq = s.node.seq] ELSE s.view
             f == s.faults \cup wrong
  <2>1. d = [s EXCEPT !.node = n, !.faults = f, !.view = v] BY <1>4 DEF Data
  <2>2. \A x \in wrong : x \in Faults /\ x[2] = s.unsettled
    <3> HIDE DEF known, next, means
    <3> QED BY ComplaintFacts
  <2>3. f \in SUBSET Faults BY <2>2, StateFields
  <2>4. /\ v \in View
        /\ known => v.born /\ v.id = s.view.id /\ v.list = s.view.list /\ v.seq = s.node.seq
    <3>1. CASE known
      <4>1. s.view \in [born : {TRUE}, id : Ids, list : Lists, seq : Seqs]
        BY <3>1, StateFields
      <4>2. s.node.seq \in Seqs BY StateFields
      <4> QED BY <3>1, <4>1, <4>2 DEF View
    <3>2. CASE ~known BY <3>2, StateFields
    <3> QED BY <3>1, <3>2
  <2>5. ViewFits(s) => wrong = {} /\ known
    BY DEF ViewFits
  <2> HIDE DEF n, v, wrong, known
  <2>6. d \in State /\ d.node = n /\ d.kept = s.kept /\ d.faults = f /\ d.unsettled = s.unsettled
        /\ d.view = v
    BY <1>2, <2>1, <2>3, <2>4 DEF State
  <2>7. ViewFits(s) => ViewFits(d)
    BY <1>2, <2>4, <2>5, <2>6 DEF ViewFits
  <2>8. Good(s, alive) /\ s.node.birth_sent => Good(d, alive)
    <3> SUFFICES ASSUME Good(s, alive), s.node.birth_sent PROVE Good(d, alive) OBVIOUS
    <3>1. CASE s.unsettled BY <2>2, <2>6, <3>1 DEF Good
    <3>2. CASE ~s.unsettled
      <4>1. ViewFits(s) BY <1>4, <3>2 DEF Good
      <4> QED BY <2>5, <2>6, <2>7, <4>1 DEF Good
    <3> QED BY <3>1, <3>2
  <2> QED BY <1>2, <2>6, <2>8
<1> QED BY <1>3, <1>4

\* What is in the buffer.
LEMMA HistoryFacts ==
  ASSUME NEW h \in Seq(Buffered)
  PROVE  /\ DOMAIN h = 1 .. Len(h) /\ Len(h) \in Nat
         /\ \A i \in DOMAIN h : /\ h[i] \in Buffered /\ h[i].idx \in Nat \ {0}
                                /\ h[i].sample \in 1 .. MaxSamples
         /\ Numbers(h) \subseteq 1 .. MaxSamples
<1>1. DOMAIN h = 1 .. Len(h) /\ Len(h) \in Nat OBVIOUS
<1>2. \A i \in DOMAIN h : h[i] \in Buffered OBVIOUS
<1>3. \A i \in DOMAIN h : h[i].idx \in Nat \ {0} /\ h[i].sample \in 1 .. MaxSamples
  BY <1>2 DEF Buffered
<1>4. Numbers(h) \subseteq 1 .. MaxSamples BY <1>3 DEF Numbers
<1> QED BY <1>1, <1>2, <1>3, <1>4

\* A change of the buffer, of what became of samples, and of the complaints.
Refilled(s, h, d, l, f) ==
  [s EXCEPT !.node.history = h, !.kept.delivered = d, !.kept.lost = l, !.faults = f]

LEMMA WithHistory ==
  ASSUME NEW s \in State, NEW h \in Seq(Buffered), NEW d \in SUBSET (1 .. MaxSamples),
         NEW l \in SUBSET (0 .. MaxSamples), NEW f \in SUBSET Faults, NEW t,
         t = Refilled(s, h, d, l, f)
  PROVE  /\ t \in State /\ t.view = s.view /\ t.unsettled = s.unsettled /\ t.faults = f
         /\ t.node.cfg = s.node.cfg /\ t.node.online = s.node.online
         /\ t.node.birth_sent = s.node.birth_sent /\ t.node.seq = s.node.seq
         /\ t.node.history = h /\ t.kept.delivered = d /\ t.kept.lost = l
         /\ t.kept.accepted = s.kept.accepted /\ t.kept.slipped = s.kept.slipped
<1> DEFINE n == [s.node EXCEPT !.history = h]
           k == [s.kept EXCEPT !.delivered = d, !.lost = l]
<1>1. s.node \in Node /\ s.kept \in Kept BY StateFields
<1>2. /\ n \in Node /\ n.cfg = s.node.cfg /\ n.online = s.node.online /\ n.history = h
      /\ n.birth_sent = s.node.birth_sent /\ n.seq = s.node.seq
  BY <1>1 DEF Node
<1>3. /\ k \in Kept /\ k.delivered = d /\ k.lost = l
      /\ k.accepted = s.kept.accepted /\ k.slipped = s.kept.slipped
  BY <1>1 DEF Kept
<1>4. t = [s EXCEPT !.node = n, !.kept = k, !.faults = f]
  BY DEF State, Refilled
<1> HIDE DEF n, k
<1>5. t \in State /\ t.node = n /\ t.kept = k /\ t.faults = f /\ t.view = s.view
      /\ t.unsettled = s.unsettled
  BY <1>2, <1>3, <1>4 DEF State
<1> QED BY <1>2, <1>3, <1>5

\* The same for a change of the buffer alone, and of the buffer and what was lost.
LEMMA RefilledForms ==
  ASSUME NEW s \in State, NEW h, NEW l
  PROVE  /\ [s EXCEPT !.node.history = h]
              = Refilled(s, h, s.kept.delivered, s.kept.lost, s.faults)
         /\ [s EXCEPT !.node.history = h, !.kept.lost = l]
              = Refilled(s, h, s.kept.delivered, l, s.faults)
<1>1. s.kept \in Kept BY StateFields
<1>2. s.kept = [s.kept EXCEPT !.delivered = s.kept.delivered, !.lost = s.kept.lost]
  BY <1>1 DEF Kept
<1>3. [s.kept EXCEPT !.lost = l] = [s.kept EXCEPT !.delivered = s.kept.delivered, !.lost = l]
  BY <1>1 DEF Kept
<1> QED BY <1>2, <1>3 DEF Refilled, State

\* The replay: no sample goes astray, and on a live connection nothing stays in the buffer.
LEMMA FlushFacts ==
  ASSUME NEW s \in State, NEW alive \in BOOLEAN,
         NEW t, t = flush_history(s, alive)
  PROVE  /\ t \in State
         /\ t.node.cfg = s.node.cfg /\ t.node.online = s.node.online
         /\ t.node.birth_sent = s.node.birth_sent /\ t.unsettled = s.unsettled
         /\ t.node.history = s.node.history \/ t.node.history = <<>>
         /\ alive => t.node.history = <<>>
         /\ t.kept.accepted = s.kept.accepted /\ t.kept.slipped = s.kept.slipped
         /\ Held(s) \subseteq Held(t)
         /\ Good(s, alive) /\ s.node.birth_sent => Good(t, alive)
<1> DEFINE h == s.node.history
           valid == {i \in DOMAIN h : h[i].idx <= Len(s.node.cfg.list)}
           replayed == {h[i].sample : i \in valid}
           aliases == {h[i].idx : i \in valid}
           sent == Data(s, alive, aliases)
           swapped == \E i \in valid : s.node.cfg.list[h[i].idx] # h[i].metric
<1>0. /\ h \in Seq(Buffered) /\ Numbers(h) \subseteq 1 .. MaxSamples
      /\ s.kept.delivered \in SUBSET (1 .. MaxSamples) /\ s.kept.lost \in SUBSET (0 .. MaxSamples)
      /\ <<>> \in Seq(Buffered) /\ s.faults \in SUBSET Faults /\ Numbers(<<>>) = {}
  <2>1. h \in Seq(Buffered) /\ s.kept \in Kept /\ s.faults \in SUBSET Faults BY StateFields
  <2>2. Numbers(<<>>) = {} BY DEF Numbers
  <2> QED BY <2>1, <2>2, HistoryFacts DEF Kept
<1>1. CASE h = <<>>
  <2>1. t = s BY <1>1 DEF flush_history
  <2> QED BY <1>1, <2>1
<1>2. CASE h # <<>> /\ valid = {}
  <2> DEFINE l == s.kept.lost \cup Numbers(h)
  <2>1. t = [s EXCEPT !.node.history = <<>>, !.kept.lost = l]
    BY <1>2 DEF flush_history
  <2>2. l \in SUBSET (0 .. MaxSamples) BY <1>0
  <2>0. PICK e : e = <<>> OBVIOUS
  <2>3. t = Refilled(s, e, s.kept.delivered, l, s.faults)
    BY <2>0, <2>1, RefilledForms
  <2> HIDE DEF l
  <2>4. /\ t \in State /\ t.view = s.view /\ t.unsettled = s.unsettled /\ t.faults = s.faults
        /\ t.node.cfg = s.node.cfg /\ t.node.online = s.node.online
        /\ t.node.birth_sent = s.node.birth_sent /\ t.node.seq = s.node.seq
        /\ t.node.history = e /\ t.kept.delivered = s.kept.delivered /\ t.kept.lost = l
        /\ t.kept.accepted = s.kept.accepted /\ t.kept.slipped = s.kept.slipped
    <3>1. e \in Seq(Buffered) BY <1>0, <2>0
    <3> QED BY <1>0, <2>2, <2>3, <3>1, WithHistory
  <2>5. Held(s) \subseteq Held(t) BY <2>4 DEF Held, l
  <2>6. Good(s, alive) => Good(t, alive) BY <2>4 DEF Good, ViewFits
  <2> QED BY <2>0, <2>4, <2>5, <2>6
<1>3. CASE h # <<>> /\ valid # {}
  <2>1. aliases \in SUBSET DOMAIN s.node.cfg.list
    <3>1. s.node.cfg.list \in Seq(STRING) BY StateFields, ConfigFacts
    <3>2. DOMAIN s.node.cfg.list = 1 .. Len(s.node.cfg.list) /\ Len(s.node.cfg.list) \in Nat
      BY <3>1
    <3>3. \A i \in valid : h[i].idx \in Nat \ {0} /\ h[i].idx <= Len(s.node.cfg.list)
      BY <1>0, HistoryFacts
    <3> QED BY <3>2, <3>3
  <2> HIDE DEF aliases
  <2>2. /\ sent \in State
        /\ sent.node.cfg = s.node.cfg /\ sent.node.online = s.node.online
        /\ sent.node.birth_sent = s.node.birth_sent
        /\ sent.node.history = h /\ sent.kept = s.kept /\ sent.unsettled = s.unsettled
        /\ Good(s, alive) /\ s.node.birth_sent => Good(sent, alive)
    BY <2>1, DataFacts
  <2>3. CASE ~alive
    <3>1. t = sent BY <1>3, <2>3 DEF flush_history, KeepsBuffer, aliases
    <3>2. Held(t) = Held(s) BY <2>2, <3>1 DEF Held
    <3> QED BY <2>2, <2>3, <3>1, <3>2
  <2>4. CASE alive
    <3> DEFINE d == sent.kept.delivered \cup replayed
               l == sent.kept.lost \cup (Numbers(h) \ replayed)
               f == sent.faults \cup (IF swapped THEN {<<"swapped", TRUE>>} ELSE {})
    <3>0. PICK e : e = <<>> OBVIOUS
    <3>1. t = Refilled(sent, e, d, l, f)
      BY <1>3, <2>4, <3>0 DEF flush_history, KeepsBuffer, aliases, Refilled
    <3>2. d \in SUBSET (1 .. MaxSamples) /\ l \in SUBSET (0 .. MaxSamples)
      <4>1. replayed \subseteq Numbers(h) BY DEF Numbers
      <4> QED BY <1>0, <2>2, <4>1
    <3>3. f \in SUBSET Faults /\ \A x \in f : x \in sent.faults \/ x[2] = TRUE
      <4>1. <<"swapped", TRUE>> \in Faults /\ <<"swapped", TRUE>>[2] = TRUE
        BY DEF Faults, Kinds
      <4>2. sent.faults \in SUBSET Faults BY <2>2, StateFields
      <4> HIDE DEF swapped, sent
      <4> QED BY <4>1, <4>2
    <3>4. Numbers(h) \subseteq replayed \cup (Numbers(h) \ replayed) OBVIOUS
    <3> HIDE DEF d, l, f, sent
    <3>5. /\ t \in State /\ t.view = sent.view /\ t.unsettled = sent.unsettled /\ t.faults = f
          /\ t.node.cfg = sent.node.cfg /\ t.node.online = sent.node.online
          /\ t.node.birth_sent = sent.node.birth_sent /\ t.node.seq = sent.node.seq
          /\ t.node.history = e /\ t.kept.delivered = d /\ t.kept.lost = l
          /\ t.kept.accepted = sent.kept.accepted /\ t.kept.slipped = sent.kept.slipped
      <4>1. e \in Seq(Buffered) BY <1>0, <3>0
      <4> QED BY <2>2, <3>1, <3>2, <3>3, <4>1, WithHistory
    <3>6. Held(s) \subseteq Held(t)
      BY <2>2, <3>4, <3>5 DEF Held, d, l
    <3>7. Good(sent, alive) => Good(t, alive)
      BY <3>3, <3>5 DEF Good, ViewFits
    <3> QED BY <2>2, <2>4, <3>0, <3>5, <3>6, <3>7
  <2> QED BY <2>3, <2>4
<1> QED BY <1>1, <1>2, <1>3

\* A birth and its replay.
LEMMA ReplayFacts ==
  ASSUME NEW s \in State, NEW alive \in BOOLEAN,
         NEW t, t = Replay(s, alive)
  PROVE  /\ t \in State
         /\ t.node.cfg = s.node.cfg /\ t.node.online = s.node.online
         /\ t.node.birth_sent = s.node.birth_sent /\ t.unsettled = s.unsettled
         /\ t.node.history = s.node.history \/ t.node.history = <<>>
         /\ alive /\ s.node.birth_sent => t.node.history = <<>>
         /\ t.kept.accepted = s.kept.accepted /\ t.kept.slipped = s.kept.slipped
         /\ Held(s) \subseteq Held(t)
         /\ Good(s, alive) => Good(t, alive)
<1>1. CASE s.node.birth_sent
  <2>1. Replay(s, alive) = flush_history(s, alive) BY <1>1 DEF Replay
  <2>2. t = flush_history(s, alive) BY <2>1
  <2>3. /\ t \in State
        /\ t.node.cfg = s.node.cfg /\ t.node.online = s.node.online
        /\ t.node.birth_sent = s.node.birth_sent /\ t.unsettled = s.unsettled
        /\ t.kept.accepted = s.kept.accepted /\ t.kept.slipped = s.kept.slipped
        /\ Held(s) \subseteq Held(t)
        /\ Good(s, alive) /\ s.node.birth_sent => Good(t, alive)
    BY <2>2, FlushFacts
  <2>4. t.node.history = s.node.history \/ t.node.history = <<>>
    BY <2>2, FlushFacts, Zenon
  <2>5. alive => t.node.history = <<>>
    BY <2>2, FlushFacts, Zenon
  <2> QED BY <1>1, <2>3, <2>4, <2>5
<1>2. CASE ~s.node.birth_sent
  <2>1. Replay(s, alive) = s BY <1>2 DEF Replay
  <2> QED BY <1>2, <2>1
<1> QED BY <1>1, <1>2

\* Buffering: the sample is held, and whoever was.
LEMMA BufferFacts ==
  ASSUME NEW s \in State, NEW x \in Buffered, Len(s.node.history) <= MaxHistory,
         NEW t, t = buffer_sample(s, x)
  PROVE  /\ t \in State /\ t.view = s.view /\ t.unsettled = s.unsettled /\ t.faults = s.faults
         /\ t.node.cfg = s.node.cfg /\ t.node.online = s.node.online
         /\ t.node.birth_sent = s.node.birth_sent /\ t.node.seq = s.node.seq
         /\ t.kept.accepted = s.kept.accepted /\ t.kept.slipped = s.kept.slipped
         /\ Len(t.node.history) <= MaxHistory
         /\ Held(s) \subseteq Held(t) /\ x.sample \in Held(t)
<1> DEFINE h == s.node.history
<1>0. /\ h \in Seq(Buffered) /\ Len(h) \in Nat /\ s.kept.delivered \in SUBSET (1 .. MaxSamples)
      /\ s.kept.lost \in SUBSET (0 .. MaxSamples) /\ s.faults \in SUBSET Faults
  <2>1. h \in Seq(Buffered) /\ s.kept \in Kept /\ s.faults \in SUBSET Faults BY StateFields
  <2> QED BY <2>1, HistoryFacts DEF Kept
<1>1. CASE HasRoom(h)
  <2> DEFINE g == Append(h, x)
  <2>1. t = [s EXCEPT !.node.history = g] BY <1>1 DEF buffer_sample
  <2>2. t = Refilled(s, g, s.kept.delivered, s.kept.lost, s.faults)
    BY <2>1, RefilledForms
  <2>3. /\ g \in Seq(Buffered) /\ Len(g) = Len(h) + 1 /\ g[Len(h) + 1] = x
        /\ \A i \in 1 .. Len(h) : g[i] = h[i]
    BY <1>0
  <2>4. Numbers(h) \subseteq Numbers(g) /\ x.sample \in Numbers(g)
    <3>1. DOMAIN h = 1 .. Len(h) /\ DOMAIN g = 1 .. Len(h) + 1 BY <1>0, <2>3
    <3>2. Len(h) + 1 \in 1 .. Len(h) + 1 /\ \A i \in 1 .. Len(h) : i \in 1 .. Len(h) + 1
      BY <1>0
    <3> HIDE DEF g, h
    <3> QED BY <2>3, <3>1, <3>2 DEF Numbers
  <2>5. Len(g) <= MaxHistory BY <1>0, <1>1, <2>3, NodeParams DEF HasRoom
  <2> HIDE DEF g
  <2>6. /\ t \in State /\ t.view = s.view /\ t.unsettled = s.unsettled /\ t.faults = s.faults
        /\ t.node.cfg = s.node.cfg /\ t.node.online = s.node.online
        /\ t.node.birth_sent = s.node.birth_sent /\ t.node.seq = s.node.seq
        /\ t.node.history = g /\ t.kept.delivered = s.kept.delivered /\ t.kept.lost = s.kept.lost
        /\ t.kept.accepted = s.kept.accepted /\ t.kept.slipped = s.kept.slipped
    BY <1>0, <2>2, <2>3, WithHistory
  <2> QED BY <2>4, <2>5, <2>6 DEF Held
<1>2. CASE ~HasRoom(h)
  <2> DEFINE g == Append(Tail(h), x)
             l == s.kept.lost \cup {Head(h).sample}
  <2>0. Len(h) = MaxHistory /\ Len(h) > 0 /\ h # <<>>
    BY <1>0, <1>2, NodeParams DEF HasRoom
  <2>1. t = [s EXCEPT !.node.history = g, !.kept.lost = l] BY <1>2 DEF buffer_sample
  <2>2. t = Refilled(s, g, s.kept.delivered, l, s.faults)
    BY <2>1, RefilledForms
  <2>3. /\ Tail(h) \in Seq(Buffered) /\ Len(Tail(h)) = Len(h) - 1 /\ Head(h) = h[1]
        /\ \A i \in 1 .. Len(h) - 1 : Tail(h)[i] = h[i + 1]
    BY <1>0, <2>0
  <2>4. /\ g \in Seq(Buffered) /\ Len(g) = Len(h) /\ g[Len(h)] = x
        /\ \A i \in 1 .. Len(h) - 1 : g[i] = h[i + 1]
    BY <1>0, <2>0, <2>3
  <2>5. h[1].sample \in 1 .. MaxSamples BY <1>0, <2>0, HistoryFacts
  <2>6. l \in SUBSET (0 .. MaxSamples) BY <1>0, <2>3, <2>5
  <2>7. DOMAIN h = 1 .. Len(h) /\ DOMAIN g = 1 .. Len(h) BY <1>0, <2>4
  <2>8. Len(h) \in 1 .. Len(h) /\ \A i \in 1 .. Len(h) : i = 1 \/ (i - 1 \in 1 .. Len(h) /\ g[i - 1] = h[i])
    BY <1>0, <2>0, <2>4
  <2> HIDE DEF g, h
  <2>9. x.sample \in Numbers(g) BY <2>4, <2>7, <2>8 DEF Numbers
  <2>10. \A i \in DOMAIN h : h[i].sample \in Numbers(g) \/ h[i].sample = h[1].sample
    BY <2>7, <2>8 DEF Numbers
  <2>11. Numbers(h) \subseteq Numbers(g) \cup {Head(h).sample}
    BY <2>3, <2>10 DEF Numbers
  <2> HIDE DEF l
  <2>12. /\ t \in State /\ t.view = s.view /\ t.unsettled = s.unsettled /\ t.faults = s.faults
         /\ t.node.cfg = s.node.cfg /\ t.node.online = s.node.online
         /\ t.node.birth_sent = s.node.birth_sent /\ t.node.seq = s.node.seq
         /\ t.node.history = g /\ t.kept.delivered = s.kept.delivered /\ t.kept.lost = l
         /\ t.kept.accepted = s.kept.accepted /\ t.kept.slipped = s.kept.slipped
    BY <1>0, <2>2, <2>4, <2>6, WithHistory
  <2>13. Len(g) <= MaxHistory BY <2>0, <2>4, NodeParams
  <2>14. Held(s) \subseteq Held(t) /\ x.sample \in Held(t)
    BY <2>9, <2>11, <2>12 DEF Held, l, h
  <2> QED BY <2>12, <2>13, <2>14
<1> QED BY <1>1, <1>2

(***************************************************************************)
(* What the actions that send do to the state.                             *)
(***************************************************************************)

\* What every one of them keeps.
Keeps(s, t) ==
  /\ t \in State /\ t.node.cfg = s.node.cfg /\ Len(t.node.history) <= MaxHistory
  /\ s.node.birth_sent => t.node.birth_sent

\* A birth, with or without its replay, and samples that come through it.
Announces(s, t, alive) ==
  /\ Keeps(s, t) /\ t.node.online = s.node.online
  /\ t.kept.accepted = s.kept.accepted /\ t.kept.slipped = s.kept.slipped
  /\ Held(s) \subseteq Held(t)
  /\ s.node.history = <<>> => t.node.history = <<>>
  /\ alive /\ s.node.cfg.on => t.node.birth_sent
  /\ t.node.birth_sent => s.node.birth_sent \/ (alive /\ s.node.cfg.on)
  /\ ~t.unsettled => ~s.unsettled \/ (alive /\ WillFits(s))
  /\ Good(s, alive) /\ (~s.unsettled /\ alive /\ s.node.cfg.on => WillFits(s)) =>
       Good(t, alive)

LEMMA NothingAnnounced ==
  ASSUME NEW s \in State, NEW alive \in BOOLEAN, Len(s.node.history) <= MaxHistory
  PROVE  ~(alive /\ s.node.cfg.on) => Announces(s, s, alive)
BY DEF Announces, Keeps

LEMMA BirthAnnounces ==
  ASSUME NEW s \in State, NEW alive \in BOOLEAN, Len(s.node.history) <= MaxHistory,
         NEW t, t = publish_birth(s, alive)
  PROVE  Announces(s, t, alive)
<1>1. Held(t) = Held(s) BY BirthFacts DEF Held
<1>2. s.node.cfg.on \in BOOLEAN /\ s.unsettled \in BOOLEAN /\ s.node.birth_sent \in BOOLEAN
  BY StateFields, ConfigFacts
<1> QED BY <1>1, <1>2, BirthFacts DEF Announces, Keeps

LEMMA ReplayAnnounces ==
  ASSUME NEW s \in State, NEW alive \in BOOLEAN, Len(s.node.history) <= MaxHistory,
         NEW t, t = Replay(publish_birth(s, alive), alive)
  PROVE  /\ Announces(s, t, alive)
         /\ alive /\ s.node.cfg.on => t.node.history = <<>>
<1>1. PICK b : b = publish_birth(s, alive) OBVIOUS
<1>2. Announces(s, b, alive) BY <1>1, BirthAnnounces
<1>3. b \in State /\ t = Replay(b, alive) BY <1>1, <1>2 DEF Announces, Keeps
<1>4. /\ t \in State
      /\ t.node.cfg = b.node.cfg /\ t.node.online = b.node.online
      /\ t.node.birth_sent = b.node.birth_sent /\ t.unsettled = b.unsettled
      /\ t.kept.accepted = b.kept.accepted /\ t.kept.slipped = b.kept.slipped
      /\ Held(b) \subseteq Held(t)
      /\ Good(b, alive) => Good(t, alive)
  BY <1>3, ReplayFacts
<1>5. t.node.history = b.node.history \/ t.node.history = <<>>
  BY <1>3, ReplayFacts, Zenon
<1>6. alive /\ b.node.birth_sent => t.node.history = <<>>
  BY ZenonT(30), <1>3, ReplayFacts
<1>7. Len(t.node.history) <= MaxHistory
  <2>1. Len(<<>>) <= MaxHistory BY NodeParams
  <2> QED BY <1>2, <1>5, <2>1 DEF Announces, Keeps
<1>8. s.node.history = <<>> => t.node.history = <<>>
  BY <1>2, <1>5 DEF Announces
<1>9. Keeps(s, t) BY <1>2, <1>4, <1>7 DEF Announces, Keeps
<1>10. Announces(s, t, alive)
  BY <1>2, <1>4, <1>8, <1>9 DEF Announces, Keeps
<1>11. alive /\ s.node.cfg.on => t.node.history = <<>>
  BY <1>2, <1>6 DEF Announces
<1> QED BY <1>10, <1>11

\* The fields of the state are the variables.
LEMMA NowFields ==
  /\ Now.node = node /\ Now.view = view /\ Now.faults = faults /\ Now.kept = kept
  /\ Now.unsettled = unsettled
BY DEF Now

\* The host comes or goes.
WithOnline(s, o) == [s EXCEPT !.node.online = o]

LEMMA OnlineFacts ==
  ASSUME NEW s \in State, NEW o \in BOOLEAN, NEW u, u = WithOnline(s, o)
  PROVE  /\ u \in State /\ u.node.cfg = s.node.cfg /\ u.node.online = o
         /\ u.node.birth_sent = s.node.birth_sent /\ u.node.history = s.node.history
         /\ u.kept = s.kept /\ u.unsettled = s.unsettled /\ Held(u) = Held(s)
         /\ WillFits(u) = WillFits(s)
         /\ \A alive \in BOOLEAN : Good(s, alive) => Good(u, alive)
<1> DEFINE n == [s.node EXCEPT !.online = o]
<1>1. s.node \in Node BY StateFields
<1>2. /\ n \in Node /\ n.cfg = s.node.cfg /\ n.online = o /\ n.birth_sent = s.node.birth_sent
      /\ n.history = s.node.history /\ n.seq = s.node.seq
  BY <1>1 DEF Node
<1>3. u = [s EXCEPT !.node = n] BY DEF State, WithOnline
<1> HIDE DEF n
<1>4. /\ u \in State /\ u.node = n /\ u.kept = s.kept /\ u.unsettled = s.unsettled
      /\ u.view = s.view /\ u.faults = s.faults
  BY <1>2, <1>3 DEF State
<1>5. Held(u) = Held(s) BY <1>2, <1>4 DEF Held
<1>6. WillFits(u) = WillFits(s) BY <1>2, <1>4 DEF WillFits
<1>7. ViewFits(u) = ViewFits(s) BY <1>2, <1>4 DEF ViewFits
<1>8. \A alive \in BOOLEAN : Good(s, alive) => Good(u, alive)
  BY <1>2, <1>4, <1>7 DEF Good
<1> QED BY <1>2, <1>4, <1>5, <1>6, <1>8

LEMMA AliveType ==
  ASSUME LinkTypes
  PROVE  Alive \in BOOLEAN
BY DEF LinkTypes, Alive, Connected

\* CONNECTED: a birth with its replay, if the node is on.
LEMMA ConnectedStep ==
  ASSUME LinkTypes, NodeTypes, ConnectedCallback
  PROVE  \E t \in State :
           /\ Becomes(t) /\ Announces(Now, t, Alive)
           /\ Alive /\ node.cfg.on => t.node.history = <<>>
<1> DEFINE b == publish_birth(Now, Alive)
<1>1. Now \in State /\ Alive \in BOOLEAN /\ Len(Now.node.history) <= MaxHistory
  BY AliveType, NowFields DEF NodeTypes
<1>2. CASE node.cfg.on
  <2>1. PICK t : t = Replay(b, Alive) OBVIOUS
  <2>2. Becomes(t) BY <1>2, <2>1 DEF ConnectedCallback
  <2> HIDE DEF ConnectedCallback
  <2>3. Announces(Now, t, Alive) /\ (Alive /\ Now.node.cfg.on => t.node.history = <<>>)
    BY <1>1, <2>1, ReplayAnnounces, Zenon
  <2>4. t \in State BY <2>3 DEF Announces, Keeps
  <2> QED BY <2>2, <2>3, <2>4, NowFields
<1>3. CASE ~node.cfg.on
  <2>1. Becomes(Now) BY <1>3 DEF ConnectedCallback
  <2>2. ~(Alive /\ Now.node.cfg.on) BY <1>3, NowFields
  <2>3. Announces(Now, Now, Alive) BY <1>1, <2>2, NothingAnnounced
  <2> QED BY <1>1, <1>3, <2>1, <2>3
<1> QED BY <1>2, <1>3

\* A rebirth, asked for by the host or by new settings.
LEMMA RebirthStep ==
  ASSUME LinkTypes, NodeTypes, Rebirth \/ RebirthNow
  PROVE  \E t \in State : Becomes(t) /\ Announces(Now, t, Alive)
<1>1. Now \in State /\ Alive \in BOOLEAN /\ Len(Now.node.history) <= MaxHistory
  BY AliveType, NowFields DEF NodeTypes
<1>2. CASE Rebirth \/ Connected
  <2>1. PICK t : t = publish_birth(Now, Alive) OBVIOUS
  <2>2. Becomes(t) BY <1>2, <2>1 DEF Rebirth, RebirthNow
  <2>3. Announces(Now, t, Alive) BY <1>1, <2>1, BirthAnnounces
  <2>4. t \in State BY <2>3 DEF Announces, Keeps
  <2> QED BY <2>2, <2>3, <2>4
<1>3. CASE RebirthNow /\ ~Connected
  <2>1. Becomes(Now) BY <1>3 DEF RebirthNow, Becomes, Now
  <2>2. ~Alive BY <1>3 DEF Alive
  <2>3. Announces(Now, Now, Alive) BY <1>1, <2>2, NothingAnnounced
  <2> QED BY <1>1, <2>1, <2>3
<1> QED BY <1>2, <1>3

\* STATE: the host is on, and its coming back brings a birth with its replay.
LEMMA HostStateStep ==
  ASSUME LinkTypes, NodeTypes, NEW CONSTANT online \in BOOLEAN, HostState(online)
  PROVE  \E s, t \in State :
           /\ Becomes(t) /\ s = WithOnline(Now, online)
           /\ IF online THEN Announces(s, t, Alive) ELSE t = s
           /\ online /\ ~node.online /\ Alive => t.node.history = <<>>
<1>1. Now \in State /\ Alive \in BOOLEAN /\ Len(Now.node.history) <= MaxHistory
  BY AliveType, NowFields DEF NodeTypes
<1>2. PICK s : s = WithOnline(Now, online) OBVIOUS
<1>3. /\ s \in State /\ s.node.cfg = Now.node.cfg /\ s.node.history = Now.node.history
  BY <1>1, <1>2, OnlineFacts
<1>4. s.node.cfg.on /\ Len(s.node.history) <= MaxHistory
  BY <1>1, <1>3, NowFields DEF HostState
<1>5. CASE ~online
  <2>1. Becomes(s) BY <1>2, <1>5 DEF HostState, WithOnline
  <2> QED BY <1>2, <1>3, <1>5, <2>1
<1>6. CASE online /\ node.online
  <2>1. PICK t : t = publish_birth(s, Alive) OBVIOUS
  <2>2. Becomes(t) BY <1>2, <1>6, <2>1 DEF HostState, WithOnline
  <2>3. Announces(s, t, Alive) BY <1>1, <1>3, <1>4, <2>1, BirthAnnounces
  <2>4. t \in State BY <2>3 DEF Announces, Keeps
  <2> QED BY <1>2, <1>3, <1>6, <2>2, <2>3, <2>4
<1>7. CASE online /\ ~node.online
  <2>1. PICK t : t = Replay(publish_birth(s, Alive), Alive) OBVIOUS
  <2>2. Becomes(t) BY <1>2, <1>7, <2>1 DEF HostState, WithOnline
  <2>3. Announces(s, t, Alive) /\ (Alive /\ s.node.cfg.on => t.node.history = <<>>)
    BY <1>1, <1>3, <1>4, <2>1, ReplayAnnounces, Zenon
  <2>4. t \in State BY <2>3 DEF Announces, Keeps
  <2> QED BY <1>2, <1>3, <1>4, <1>7, <2>2, <2>3, <2>4
<1>8. online \in BOOLEAN OBVIOUS
<1> QED BY <1>5, <1>6, <1>7

\* A sample: it is buffered when it cannot be published.
LEMMA SampleStep ==
  ASSUME LinkTypes, NodeTypes, NEW CONSTANT m \in Metrics, NEW CONSTANT rule \in BOOLEAN,
         Sample(m, rule)
  PROVE  /\ pub' \in Pub /\ pub'.pc = "send" /\ pub'.sample \in 1 .. MaxSamples
         /\ pub'.idx \in DOMAIN node.cfg.list /\ node.cfg.on /\ samples' \in 0 .. MaxSamples
         /\ \E t \in State :
              /\ Becomes(t) /\ Keeps(Now, t)
              /\ t.view = view /\ t.faults = faults /\ t.unsettled = unsettled
              /\ t.node.online = node.online /\ t.node.birth_sent = node.birth_sent
              /\ t.node.seq = node.seq
              /\ t.kept.accepted = kept.accepted /\ t.kept.slipped = kept.slipped
              /\ Held(Now) \subseteq Held(t)
              /\ ~MustBuffer => t.node.history = node.history
              /\ pub'.buffered => pub'.sample \in Held(t)
<1>1. PICK i \in DOMAIN node.cfg.list :
        /\ node.cfg.on /\ samples < MaxSamples /\ samples' = samples + 1
        /\ pub' = [pc |-> "send", idx |-> i, sample |-> samples + 1, buffered |-> MustBuffer,
                   rule |-> rule]
        /\ IF MustBuffer
           THEN Becomes(buffer_sample(Now, [idx |-> i, metric |-> m, sample |-> samples + 1]))
           ELSE UNCHANGED <<node, view, faults, kept, unsettled>>
  BY DEF Sample
<1>2. Now \in State /\ Len(Now.node.history) <= MaxHistory BY NowFields DEF NodeTypes
<1>3. node.cfg \in Configs /\ node.birth_sent \in BOOLEAN /\ node.online \in BOOLEAN
  BY <1>2, NowFields, StateFields
<1>4. MustBuffer \in BOOLEAN BY <1>3 DEF MustBuffer, Connected, LinkTypes
<1>5. samples + 1 \in 1 .. MaxSamples BY <1>1, NodeParams DEF LinkTypes
<1>6. i \in Nat \ {0}
  <2>1. node.cfg.list \in Seq(STRING) BY <1>3, ConfigFacts
  <2> QED BY <2>1
<1>7. pub' \in Pub /\ pub'.pc = "send" /\ pub'.sample = samples + 1 /\ pub'.idx = i
      /\ pub'.buffered = MustBuffer
  BY <1>1, <1>4, <1>5, <1>6 DEF Pub
<1>8. CASE MustBuffer
  <2>1. PICK x : x = [idx |-> i, metric |-> m, sample |-> samples + 1] OBVIOUS
  <2>2. x \in Buffered /\ x.sample = samples + 1 BY <1>5, <1>6, <2>1 DEF Buffered
  <2>3. PICK t : t = buffer_sample(Now, x) OBVIOUS
  <2>4. Becomes(t) BY <1>1, <1>8, <2>1, <2>3
  <2>5. /\ t \in State /\ t.view = Now.view /\ t.unsettled = Now.unsettled
        /\ t.faults = Now.faults
        /\ t.node.cfg = Now.node.cfg /\ t.node.online = Now.node.online
        /\ t.node.birth_sent = Now.node.birth_sent /\ t.node.seq = Now.node.seq
        /\ t.kept.accepted = Now.kept.accepted /\ t.kept.slipped = Now.kept.slipped
        /\ Len(t.node.history) <= MaxHistory
        /\ Held(Now) \subseteq Held(t) /\ x.sample \in Held(t)
    BY <1>2, <2>2, <2>3, BufferFacts
  <2>6. Keeps(Now, t) BY <2>5 DEF Keeps
  <2> QED BY <1>1, <1>5, <1>7, <1>8, <2>2, <2>4, <2>5, <2>6, NowFields DEF LinkTypes
<1>9. CASE ~MustBuffer
  <2>1. Becomes(Now) BY <1>1, <1>9 DEF Becomes, Now
  <2>2. Keeps(Now, Now) BY <1>2 DEF Keeps
  <2> QED BY <1>1, <1>2, <1>5, <1>7, <1>9, <2>1, <2>2, NowFields DEF LinkTypes
<1> QED BY <1>8, <1>9

\* A sample is delivered, let slip or accepted.
DeliveredIf(s, n, p) == IF p THEN [s EXCEPT !.kept.delivered = @ \cup {n}] ELSE s
SlippedIf(s, n, p)   == IF p THEN [s EXCEPT !.kept.slipped = @ \cup {n}] ELSE s
AcceptedIf(s, n, p)  == IF p THEN [s EXCEPT !.kept.accepted = @ \cup {n}] ELSE s

LEMMA DeliveredFacts ==
  ASSUME NEW s \in State, NEW n \in 1 .. MaxSamples, NEW p \in BOOLEAN,
         NEW t, t = DeliveredIf(s, n, p)
  PROVE  /\ t \in State /\ t.node = s.node /\ t.view = s.view /\ t.faults = s.faults
         /\ t.unsettled = s.unsettled
         /\ t.kept.slipped = s.kept.slipped /\ t.kept.accepted = s.kept.accepted
         /\ t.kept.lost = s.kept.lost
         /\ t.kept.delivered = s.kept.delivered \cup (IF p THEN {n} ELSE {})
<1> DEFINE k == [s.kept EXCEPT !.delivered = s.kept.delivered \cup {n}]
<1>1. k \in Kept /\ k.slipped = s.kept.slipped /\ k.accepted = s.kept.accepted
      /\ k.lost = s.kept.lost /\ k.delivered = s.kept.delivered \cup {n}
  BY StateFields DEF Kept
<1>2. p => t = [s EXCEPT !.kept = k] BY DEF State, DeliveredIf
<1> HIDE DEF k
<1>3. CASE p BY <1>1, <1>2, <1>3 DEF State
<1>4. CASE ~p BY <1>4 DEF DeliveredIf
<1> QED BY <1>3, <1>4

LEMMA SlippedFacts ==
  ASSUME NEW s \in State, NEW n \in 1 .. MaxSamples, NEW p \in BOOLEAN,
         NEW t, t = SlippedIf(s, n, p)
  PROVE  /\ t \in State /\ t.node = s.node /\ t.view = s.view /\ t.faults = s.faults
         /\ t.unsettled = s.unsettled
         /\ t.kept.delivered = s.kept.delivered /\ t.kept.accepted = s.kept.accepted
         /\ t.kept.lost = s.kept.lost
         /\ t.kept.slipped = s.kept.slipped \cup (IF p THEN {n} ELSE {})
<1> DEFINE k == [s.kept EXCEPT !.slipped = s.kept.slipped \cup {n}]
<1>1. k \in Kept /\ k.delivered = s.kept.delivered /\ k.accepted = s.kept.accepted
      /\ k.lost = s.kept.lost /\ k.slipped = s.kept.slipped \cup {n}
  BY StateFields DEF Kept
<1>2. p => t = [s EXCEPT !.kept = k] BY DEF State, SlippedIf
<1> HIDE DEF k
<1>3. CASE p BY <1>1, <1>2, <1>3 DEF State
<1>4. CASE ~p BY <1>4 DEF SlippedIf
<1> QED BY <1>3, <1>4

LEMMA AcceptedFacts ==
  ASSUME NEW s \in State, NEW n \in 1 .. MaxSamples, NEW p \in BOOLEAN,
         NEW t, t = AcceptedIf(s, n, p)
  PROVE  /\ t \in State /\ t.node = s.node /\ t.view = s.view /\ t.faults = s.faults
         /\ t.unsettled = s.unsettled
         /\ t.kept.delivered = s.kept.delivered /\ t.kept.slipped = s.kept.slipped
         /\ t.kept.lost = s.kept.lost
         /\ t.kept.accepted = s.kept.accepted \cup (IF p THEN {n} ELSE {})
<1> DEFINE k == [s.kept EXCEPT !.accepted = s.kept.accepted \cup {n}]
<1>1. k \in Kept /\ k.delivered = s.kept.delivered /\ k.slipped = s.kept.slipped
      /\ k.lost = s.kept.lost /\ k.accepted = s.kept.accepted \cup {n}
  BY StateFields DEF Kept
<1>2. p => t = [s EXCEPT !.kept = k] BY DEF State, AcceptedIf
<1> HIDE DEF k
<1>3. CASE p BY <1>1, <1>2, <1>3 DEF State
<1>4. CASE ~p BY <1>4 DEF AcceptedIf
<1> QED BY <1>3, <1>4

\* Between its two looks at the connection Publish keeps spb_lock: the settings are those
\* that named the metric.
PubRight == pub.pc = "send" => pub.idx \in DOMAIN node.cfg.list /\ node.cfg.on

\* The second look.
LEMMA PublishStep ==
  ASSUME LinkTypes, NodeTypes, PubRight, Publish
  PROVE  \E t \in State :
           /\ Becomes(t) /\ Keeps(Now, t)
           /\ t.unsettled = unsettled /\ t.node.online = node.online
           /\ t.node.birth_sent = node.birth_sent /\ t.node.history = node.history
           /\ Good(Now, Alive) => Good(t, Alive)
           /\ Held(Now) \subseteq Held(t) /\ kept.slipped \subseteq t.kept.slipped
           /\ t.kept.accepted \subseteq kept.accepted \cup {pub.sample}
           /\ pub.sample \in t.kept.accepted \ kept.accepted =>
                pub.sample \in Held(t) \cup t.kept.slipped \/ pub.buffered
<1> DEFINE n == pub.sample
           p == ~MustBuffer /\ Alive
           q == MustBuffer /\ ~pub.buffered
           r == ((~MustBuffer /\ Alive) \/ MustBuffer) /\ pub.rule
<1>1. Now \in State /\ Len(Now.node.history) <= MaxHistory /\ Alive \in BOOLEAN
  BY NowFields, AliveType DEF NodeTypes
<1>2. node.cfg \in Configs /\ node.birth_sent \in BOOLEAN /\ node.online \in BOOLEAN
  BY <1>1, NowFields, StateFields
<1>3. n \in 1 .. MaxSamples /\ pub.buffered \in BOOLEAN /\ pub.rule \in BOOLEAN
  BY DEF LinkTypes, Publish, Pub
<1>4. MustBuffer \in BOOLEAN BY <1>2 DEF MustBuffer, Connected, LinkTypes
<1>5. p \in BOOLEAN /\ q \in BOOLEAN /\ r \in BOOLEAN BY <1>1, <1>3, <1>4
<1>6. PICK s : s = IF MustBuffer THEN Now ELSE Data(Now, Alive, {pub.idx}) OBVIOUS
<1>7. /\ s \in State /\ s.node.cfg = node.cfg /\ s.node.online = node.online
      /\ s.node.birth_sent = node.birth_sent /\ s.node.history = node.history
      /\ s.kept = kept /\ s.unsettled = unsettled
      /\ Good(Now, Alive) => Good(s, Alive)
  <2>1. CASE MustBuffer BY <1>1, <1>6, <2>1, NowFields
  <2>2. CASE ~MustBuffer
    <3>1. {pub.idx} \in SUBSET DOMAIN Now.node.cfg.list BY NowFields DEF PubRight, Publish
    <3>2. s = Data(Now, Alive, {pub.idx}) BY <1>6, <2>2
    <3>3. Now.node.birth_sent BY <1>2, <2>2, NowFields DEF MustBuffer
    <3>4. PICK as \in SUBSET DOMAIN Now.node.cfg.list : as = {pub.idx} BY <3>1
    <3>5. s = Data(Now, Alive, as) BY <3>2, <3>4
    <3>6. /\ Data(Now, Alive, as) \in State
          /\ Data(Now, Alive, as).node.cfg = Now.node.cfg
          /\ Data(Now, Alive, as).node.online = Now.node.online
          /\ Data(Now, Alive, as).node.birth_sent = Now.node.birth_sent
          /\ Data(Now, Alive, as).node.history = Now.node.history
          /\ Data(Now, Alive, as).kept = Now.kept
          /\ Data(Now, Alive, as).unsettled = Now.unsettled
          /\ Good(Now, Alive) /\ Now.node.birth_sent => Good(Data(Now, Alive, as), Alive)
      BY <1>1, DataFacts
    <3> QED BY <3>3, <3>5, <3>6, NowFields
  <2> QED BY <1>4, <2>1, <2>2
<1>8. PICK t : t = DeliveredIf(s, n, p) OBVIOUS
<1>9. PICK u : u = SlippedIf(t, n, q) OBVIOUS
<1>10. PICK v : v = AcceptedIf(u, n, r) OBVIOUS
<1>11. Becomes(v)
  BY <1>6, <1>8, <1>9, <1>10 DEF Publish, DeliveredIf, SlippedIf, AcceptedIf
<1> HIDE DEF n, p, q, r
<1>12. /\ v \in State /\ v.node = s.node /\ v.view = s.view /\ v.faults = s.faults
       /\ v.unsettled = s.unsettled
       /\ v.kept.accepted = s.kept.accepted \cup (IF r THEN {n} ELSE {})
       /\ v.kept.slipped = s.kept.slipped \cup (IF q THEN {n} ELSE {})
       /\ v.kept.delivered = s.kept.delivered \cup (IF p THEN {n} ELSE {})
       /\ v.kept.lost = s.kept.lost
  <2>1. /\ t \in State /\ t.node = s.node /\ t.view = s.view /\ t.faults = s.faults
        /\ t.unsettled = s.unsettled
        /\ t.kept.slipped = s.kept.slipped /\ t.kept.accepted = s.kept.accepted
        /\ t.kept.lost = s.kept.lost
        /\ t.kept.delivered = s.kept.delivered \cup (IF p THEN {n} ELSE {})
    BY SMTT(30), <1>3, <1>5, <1>7, <1>8, DeliveredFacts
  <2>2. /\ u \in State /\ u.node = t.node /\ u.view = t.view /\ u.faults = t.faults
        /\ u.unsettled = t.unsettled
        /\ u.kept.delivered = t.kept.delivered /\ u.kept.accepted = t.kept.accepted
        /\ u.kept.lost = t.kept.lost
        /\ u.kept.slipped = t.kept.slipped \cup (IF q THEN {n} ELSE {})
    <3>1. t \in State /\ q \in BOOLEAN /\ n \in 1 .. MaxSamples BY <1>3, <1>5, <2>1
    <3> QED BY <1>9, <3>1, SlippedFacts
  <2>3. /\ v \in State /\ v.node = u.node /\ v.view = u.view /\ v.faults = u.faults
        /\ v.unsettled = u.unsettled
        /\ v.kept.delivered = u.kept.delivered /\ v.kept.slipped = u.kept.slipped
        /\ v.kept.lost = u.kept.lost
        /\ v.kept.accepted = u.kept.accepted \cup (IF r THEN {n} ELSE {})
    <3>1. u \in State /\ r \in BOOLEAN /\ n \in 1 .. MaxSamples BY <1>3, <1>5, <2>2
    <3> QED BY <1>10, <3>1, AcceptedFacts
  <2> QED BY <2>1, <2>2, <2>3
<1>13. Keeps(Now, v) BY <1>1, <1>7, <1>12, NowFields DEF Keeps
<1>14. Good(s, Alive) => Good(v, Alive) BY <1>12 DEF Good, ViewFits
<1>15. Held(Now) \subseteq Held(v) BY <1>7, <1>12, NowFields DEF Held
<1>16. n \in v.kept.accepted \ kept.accepted =>
         n \in Held(v) \cup v.kept.slipped \/ pub.buffered
  <2>1. n \in v.kept.accepted \ kept.accepted => r BY <1>7, <1>12
  <2>2. r => p \/ q \/ pub.buffered BY <1>3, <1>4 DEF p, q, r
  <2> QED BY <1>12, <2>1, <2>2 DEF Held
<1> QED BY <1>7, <1>11, <1>12, <1>13, <1>14, <1>15, <1>16 DEF n

(***************************************************************************)
(* Types are kept.                                                         *)
(***************************************************************************)

\* The changes of the node that send nothing.
LEMMA NodeChanges ==
  ASSUME NodeTypes
  PROVE  /\ node \in Node
         /\ Preconnect => /\ node' \in Node /\ node'.cfg = node.cfg /\ node'.online = TRUE
                          /\ node'.birth_sent = node.birth_sent /\ node'.seq = node.seq
                          /\ node'.history = node.history
         /\ Registered \/ DisconnectedCallback \/ Unbirth =>
              /\ node' \in Node /\ node'.cfg = node.cfg /\ node'.online = node.online
              /\ node'.birth_sent = FALSE /\ node'.seq = node.seq
              /\ node'.history = node.history
         /\ Restart => /\ node' \in Node /\ node'.cfg = node.cfg /\ node'.online = TRUE
                       /\ node'.birth_sent = FALSE /\ node'.history = <<>>
         /\ \A c \in Configs : Configure(c) =>
              /\ node' \in Node /\ node'.cfg = c /\ node'.history = node.history
              /\ node'.online = (node.online \/ ~c.watch \/ c.watch # node.cfg.watch)
              /\ node'.birth_sent = node.birth_sent
<1>1. node \in Node BY NowFields, StateFields DEF NodeTypes
<1>2. Preconnect => /\ node' \in Node /\ node'.cfg = node.cfg /\ node'.online = TRUE
                    /\ node'.birth_sent = node.birth_sent /\ node'.seq = node.seq
                    /\ node'.history = node.history
  BY <1>1 DEF Preconnect, Node
<1>3. Registered \/ DisconnectedCallback \/ Unbirth =>
        /\ node' \in Node /\ node'.cfg = node.cfg /\ node'.online = node.online
        /\ node'.birth_sent = FALSE /\ node'.seq = node.seq
        /\ node'.history = node.history
  <2>1. Registered \/ DisconnectedCallback \/ Unbirth =>
          node' = [node EXCEPT !.birth_sent = FALSE]
    BY DEF Registered, DisconnectedCallback, Unbirth
  <2> QED BY <1>1, <2>1 DEF Node
<1>4. Restart => /\ node' \in Node /\ node'.cfg = node.cfg /\ node'.online = TRUE
                 /\ node'.birth_sent = FALSE /\ node'.history = <<>>
  <2>1. 0 \in Seqs BY NodeParams DEF Seqs
  <2> QED BY <1>1, <2>1 DEF Restart, Fresh, Node
<1>5. \A c \in Configs : Configure(c) =>
        /\ node' \in Node /\ node'.cfg = c /\ node'.history = node.history
        /\ node'.online = (node.online \/ ~c.watch \/ c.watch # node.cfg.watch)
        /\ node'.birth_sent = node.birth_sent
  <2> SUFFICES ASSUME NEW c \in Configs, Configure(c)
               PROVE  /\ node' \in Node /\ node'.cfg = c /\ node'.history = node.history
                      /\ node'.online
                           = (node.online \/ ~c.watch \/ c.watch # node.cfg.watch)
                      /\ node'.birth_sent = node.birth_sent
    OBVIOUS
  <2>1. PICK o \in BOOLEAN : o = (node.online \/ ~c.watch \/ c.watch # node.cfg.watch)
    BY <1>1 DEF Node
  <2>2. node' = [node EXCEPT !.cfg = c, !.online = o] BY <2>1 DEF Configure
  <2> QED BY <1>1, <2>1, <2>2 DEF Node
<1> QED BY <1>1, <1>2, <1>3, <1>4, <1>5

\* The steps that leave the node, the host's view and what became of samples alone.
LEMMA Quiet ==
  ASSUME Connack \/ Break \/ Disconnected \/ ClearWill \/ Reconnect \/ UNCHANGED vars
  PROVE  /\ UNCHANGED <<node, view, faults, kept, unsettled>>
         /\ UNCHANGED <<pub, bdseq, file, samples, used, torn, session>>
BY DEF Connack, Break, Disconnected, ClearWill, Reconnect, vars, counters, ghost

\* Restarting.
LEMMA RestartFacts ==
  ASSUME Crash \/ Cleanup, LinkTypes, NodeTypes
  PROVE  /\ Restart
         /\ kept' = [kept EXCEPT !.lost = @ \cup Numbers(node.history) \cup {pub.sample}]
         /\ kept' \in Kept /\ kept'.accepted = kept.accepted /\ kept'.slipped = kept.slipped
         /\ kept'.delivered = kept.delivered
         /\ kept'.lost = kept.lost \cup Numbers(node.history) \cup {pub.sample}
         /\ faults' \in SUBSET Faults
<1>1. Restart BY DEF Crash, Cleanup
<1>2. kept \in Kept /\ Numbers(node.history) \subseteq 1 .. MaxSamples
      /\ faults \in SUBSET Faults /\ Complaint(Now, "will") \in Faults
  BY NowFields, StateFields, ComplaintFacts, HistoryFacts DEF NodeTypes
<1>3. pub.sample \in 0 .. MaxSamples BY DEF LinkTypes, Pub
<1>4. kept' = [kept EXCEPT !.lost = @ \cup Numbers(node.history) \cup {pub.sample}]
  BY <1>1 DEF Restart
<1>5. /\ kept' \in Kept /\ kept'.accepted = kept.accepted /\ kept'.slipped = kept.slipped
      /\ kept'.delivered = kept.delivered
      /\ kept'.lost = kept.lost \cup Numbers(node.history) \cup {pub.sample}
  BY <1>2, <1>3, <1>4 DEF Kept
<1>6. faults' \in SUBSET Faults
  <2>1. CASE Crash BY <1>2, <2>1 DEF Crash
  <2>2. CASE Cleanup
    <3>1. faults' = faults \/ faults' = faults \cup {Complaint(Now, "will")}
      BY <2>2 DEF Cleanup
    <3> QED BY <1>2, <3>1
  <2> QED BY <2>1, <2>2
<1> QED BY <1>1, <1>4, <1>5, <1>6

\* seq stays a byte, the ring never holds more than its size, every entry is a sample.
LEMMA NodeTypesKept ==
  ASSUME LinkTypes, NodeTypes, PubRight, [Next]_vars
  PROVE  NodeTypes'
<1> USE DEF NodeTypes
<1>0. /\ view \in View /\ faults \in SUBSET Faults /\ kept \in Kept
      /\ unsettled \in BOOLEAN
  BY NowFields, StateFields
<1>1. CASE Connack \/ Break \/ Disconnected \/ ClearWill \/ Reconnect \/ UNCHANGED vars
  BY <1>1, Quiet, SameNow
<1>2. ASSUME NEW CONSTANT t \in State, Becomes(t), Keeps(Now, t) PROVE NodeTypes'
  <2>1. Now' = t /\ node' = t.node BY <1>2, NextNow DEF Becomes
  <2> QED BY <1>2, <2>1 DEF Keeps
<1>3. CASE ConnectedCallback BY <1>2, <1>3, ConnectedStep DEF Announces
<1>4. CASE Rebirth \/ RebirthNow BY <1>2, <1>4, RebirthStep DEF Announces
<1>5. ASSUME NEW online \in BOOLEAN, HostState(online) PROVE NodeTypes'
  <2>1. PICK s, t \in State :
          /\ Becomes(t) /\ s = WithOnline(Now, online)
          /\ IF online THEN Announces(s, t, Alive) ELSE t = s
    BY <1>5, HostStateStep
  <2>2. /\ s.node.cfg = Now.node.cfg /\ s.node.history = Now.node.history
        /\ s.node.birth_sent = Now.node.birth_sent
    BY <2>1, OnlineFacts
  <2>3. Len(Now.node.history) <= MaxHistory BY NowFields
  <2>4. Keeps(Now, t) BY <2>1, <2>2, <2>3 DEF Announces, Keeps
  <2> QED BY <1>2, <2>1, <2>4
<1>6. ASSUME NEW m \in Metrics, NEW rule \in BOOLEAN, Sample(m, rule) PROVE NodeTypes'
  BY <1>2, <1>6, SampleStep
<1>7. CASE Publish BY <1>2, <1>7, PublishStep
<1>8. ASSUME node' \in Node, Len(node'.history) <= MaxHistory, view' \in View,
             faults' \in SUBSET Faults, kept' \in Kept, unsettled' \in BOOLEAN
      PROVE  NodeTypes'
  BY <1>8 DEF Now, State
<1>9. CASE Preconnect \/ Registered \/ DisconnectedCallback \/ Unbirth
  <2>1. UNCHANGED <<view, faults, kept, unsettled>>
    BY <1>9 DEF Preconnect, Registered, DisconnectedCallback, Unbirth, ghost
  <2>2. node' \in Node /\ node'.history = node.history BY <1>9, NodeChanges
  <2> QED BY <1>0, <1>8, <2>1, <2>2
<1>10. CASE SendConnect
  <2>1. view' = Nobody /\ UNCHANGED <<node, faults, kept, unsettled>> BY <1>10 DEF SendConnect
  <2>2. view' \in View /\ node' \in Node BY <2>1, NodeChanges DEF View
  <2> QED BY <1>0, <1>8, <2>1, <2>2
<1>11. ASSUME NEW c \in Configs, Configure(c) PROVE NodeTypes'
  <2>1. unsettled' = TRUE /\ UNCHANGED <<view, faults, kept>> BY <1>11 DEF Configure
  <2>2. node' \in Node /\ node'.history = node.history BY <1>11, NodeChanges
  <2> QED BY <1>0, <1>8, <2>1, <2>2
<1>12. CASE Crash \/ Cleanup
  <2>1. Restart BY <1>12, RestartFacts
  <2>2. view' = Nobody /\ unsettled' = FALSE BY <2>1 DEF Restart
  <2>3. view' \in View BY <2>2 DEF View
  <2>4. node' \in Node /\ node'.history = <<>> BY <2>1, NodeChanges
  <2>5. Len(node'.history) <= MaxHistory
    <3>1. Len(<<>>) <= MaxHistory BY NodeParams
    <3> QED BY <2>4, <3>1
  <2> QED BY <1>8, <1>12, <2>2, <2>3, <2>4, <2>5, RestartFacts
<1> QED BY <1>1, <1>3, <1>4, <1>5, <1>6, <1>7, <1>9, <1>10, <1>11, <1>12 DEF Next

LEMMA LinkTypesKept ==
  ASSUME LinkTypes, NodeTypes, PubRight, [Next]_vars
  PROVE  LinkTypes'
<1>0. node \in Node /\ node.cfg \in Configs BY NodeChanges DEF Node
<1>1. CASE Connack \/ Break \/ Disconnected \/ ClearWill \/ Reconnect \/ UNCHANGED vars
  <2>1. UNCHANGED <<pub, bdseq, file, samples, used, torn, session>> BY <1>1, Quiet
  <2>2. will' \in Will /\ broken' \in BOOLEAN /\ wake' \in BOOLEAN
    BY <1>1 DEF Connack, Break, Disconnected, ClearWill, Reconnect, vars, LinkTypes, Will,
                Connected
  <2>3. /\ worker' \in {"off", "saving", "pre", "sent", "up0", "up", "closing"}
        /\ http' \in {"idle", "unset", "unbirth", "reconnect", "rebirth"}
    BY <1>1 DEF Connack, Break, Disconnected, ClearWill, Reconnect, vars, LinkTypes
  <2> QED BY <2>1, <2>2, <2>3 DEF LinkTypes
<1>2. CASE ConnectedCallback BY <1>2 DEF ConnectedCallback, LinkTypes, counters
<1>3. CASE Rebirth BY <1>3 DEF Rebirth, LinkTypes
<1>4. CASE RebirthNow BY <1>4 DEF RebirthNow, LinkTypes, counters
<1>5. ASSUME NEW online \in BOOLEAN, HostState(online) PROVE LinkTypes'
  BY <1>5 DEF HostState, LinkTypes
<1>6. ASSUME NEW m \in Metrics, NEW rule \in BOOLEAN, Sample(m, rule) PROVE LinkTypes'
  <2>1. /\ pub' \in Pub /\ pub'.pc = "send" /\ pub'.sample \in 1 .. MaxSamples
        /\ samples' \in 0 .. MaxSamples
    BY <1>6, SampleStep
  <2>2. UNCHANGED <<bdseq, file, will, worker, broken, wake, http, session, used, torn>>
    BY <1>6 DEF Sample
  <2> QED BY <2>1, <2>2 DEF LinkTypes
<1>7. Resting \in Pub /\ Resting.pc = "idle" BY NodeParams DEF Resting, Pub
<1>8. CASE Publish BY <1>7, <1>8 DEF Publish, LinkTypes, counters
<1>9. CASE Preconnect
  <2>1. NoWill \in Will BY DEF Will
  <2>2. UNCHANGED <<pub, http, session, samples, used, torn>>
    BY <1>9 DEF Preconnect, ghost
  <2>3. wake' = FALSE /\ broken' = FALSE BY <1>9 DEF Preconnect
  <2>4. CASE node.cfg.on
    <3>1. bdseq' = bdseq + 1 /\ file' = -1 /\ worker' = "saving" /\ will' = will
      BY <1>9, <2>4 DEF Preconnect
    <3>2. /\ session' \in Will /\ pub' \in Pub /\ will' \in Will /\ used' \subseteq Nat
          /\ pub'.pc = "send" => pub'.sample \in 1 .. MaxSamples
          /\ http' \in {"idle", "unset", "unbirth", "reconnect", "rebirth"}
          /\ torn' \in BOOLEAN /\ samples' \in 0 .. MaxSamples
      BY <2>2, <3>1 DEF LinkTypes
    <3>3. bdseq' \in Nat /\ file' \in Nat \cup {-1} BY <3>1 DEF LinkTypes
    <3> QED BY <2>3, <3>1, <3>2, <3>3 DEF LinkTypes
  <2>5. CASE ~node.cfg.on
    <3>1. bdseq' = bdseq /\ file' = file /\ worker' = "pre" /\ will' = NoWill
      BY <1>9, <2>5 DEF Preconnect
    <3>2. will' \in Will BY <2>1, <3>1
    <3>3. /\ session' \in Will /\ pub' \in Pub /\ bdseq' \in Nat
          /\ file' \in Nat \cup {-1} /\ used' \subseteq Nat
          /\ pub'.pc = "send" => pub'.sample \in 1 .. MaxSamples
      BY <2>2, <3>1 DEF LinkTypes
    <3> HIDE DEF Will, Pub
    <3> QED BY <2>2, <2>3, <3>1, <3>2, <3>3 DEF LinkTypes
  <2> QED BY <2>4, <2>5
<1>10. CASE Registered
  <2>1. NewWill \in Will
    <3>1. node.cfg.id \in Ids BY <1>0, ConfigFacts
    <3> QED BY <3>1 DEF NewWill, Will, LinkTypes
  <2> QED BY <1>10, <2>1 DEF Registered, LinkTypes, ghost, counters
<1>11. CASE DisconnectedCallback BY <1>11 DEF DisconnectedCallback, LinkTypes, ghost, counters
<1>12. CASE Unbirth BY <1>12 DEF Unbirth, LinkTypes, ghost, counters
<1>13. session.set => session.bdseq \in Nat BY WillFacts DEF LinkTypes
<1>14. CASE SendConnect BY <1>13, <1>14 DEF SendConnect, LinkTypes, counters
<1>15. ASSUME NEW c \in Configs, Configure(c) PROVE LinkTypes'
  BY <1>15 DEF Configure, LinkTypes
<1>16. CASE Crash \/ Cleanup
  <2>1. Restart BY <1>16 DEF Crash, Cleanup
  <2>2. Loaded \in Nat BY DEF LinkTypes, Loaded
  <2>3. NoWill \in Will BY DEF Will
  <2> QED BY <1>7, <1>13, <2>1, <2>2, <2>3 DEF Restart, LinkTypes
<1> QED BY <1>1, <1>2, <1>3, <1>4, <1>5, <1>6, <1>8, <1>9, <1>10, <1>11, <1>12, <1>14, <1>15,
           <1>16 DEF Next

(***************************************************************************)
(* Settings, the lock and the birth.                                       *)
(***************************************************************************)

\* Without a primary host the node counts it as online; a node that is switched off, or has
\* no connection, has not given birth.
SettledRight ==
  /\ ~node.cfg.watch => node.online
  /\ http \in {"unset", "unbirth"} => ~node.cfg.on
  /\ http \in {"reconnect", "rebirth"} => node.cfg.on
  /\ ~node.cfg.on /\ http \notin {"unset", "unbirth"} => ~node.birth_sent
  /\ worker \in {"off", "saving", "pre", "sent"} => ~node.birth_sent

LEMMA PubKept ==
  ASSUME LinkTypes, NodeTypes, PubRight, [Next]_vars
  PROVE  PubRight'
<1>1. ASSUME pub' = pub, node'.cfg = node.cfg PROVE PubRight' BY <1>1 DEF PubRight
<1>2. CASE Connack \/ Break \/ Disconnected \/ ClearWill \/ Reconnect \/ UNCHANGED vars
  BY <1>1, <1>2, Quiet
<1>3. ASSUME NEW CONSTANT t \in State, Becomes(t), Keeps(Now, t) PROVE node'.cfg = node.cfg
  BY <1>3, NowFields DEF Becomes, Keeps
<1>4. CASE ConnectedCallback
  <2>1. pub' = pub BY <1>4 DEF ConnectedCallback
  <2> QED BY <1>1, <1>3, <1>4, <2>1, ConnectedStep DEF Announces
<1>5. CASE Rebirth \/ RebirthNow
  <2>1. pub' = pub BY <1>5 DEF Rebirth, RebirthNow
  <2> QED BY <1>1, <1>3, <1>5, <2>1, RebirthStep DEF Announces
<1>6. ASSUME NEW online \in BOOLEAN, HostState(online) PROVE PubRight'
  BY <1>6 DEF HostState, Unlocked, PubRight
<1>7. ASSUME NEW m \in Metrics, NEW rule \in BOOLEAN, Sample(m, rule) PROVE PubRight'
  <2>1. pub'.idx \in DOMAIN node.cfg.list /\ node.cfg.on BY <1>7, SampleStep
  <2>2. node'.cfg = node.cfg BY <1>3, <1>7, SampleStep
  <2> QED BY <2>1, <2>2 DEF PubRight
<1>8. CASE Publish BY <1>8 DEF Publish, Resting, PubRight
<1>9. CASE Preconnect \/ Registered \/ DisconnectedCallback \/ Unbirth
  <2>1. pub' = pub BY <1>9 DEF Preconnect, Registered, DisconnectedCallback, Unbirth
  <2> QED BY <1>1, <1>9, <2>1, NodeChanges
<1>10. CASE SendConnect BY <1>10 DEF SendConnect, PubRight
<1>11. ASSUME NEW c \in Configs, Configure(c) PROVE PubRight'
  BY <1>11 DEF Configure, Unlocked, PubRight
<1>12. CASE Crash \/ Cleanup
  <2>1. Restart BY <1>12, RestartFacts
  <2>2. pub' = Resting BY <2>1 DEF Restart
  <2> QED BY <2>2 DEF Resting, PubRight
<1> QED BY <1>2, <1>4, <1>5, <1>6, <1>7, <1>8, <1>9, <1>10, <1>11, <1>12 DEF Next

LEMMA SettledKept ==
  ASSUME LinkTypes, NodeTypes, PubRight, SettledRight, [Next]_vars
  PROVE  SettledRight'
<1>0. /\ node.cfg.on \in BOOLEAN /\ node.cfg.watch \in BOOLEAN /\ node.online \in BOOLEAN
      /\ node.birth_sent \in BOOLEAN
  BY NowFields, StateFields, ConfigFacts DEF NodeTypes
<1>1. CASE Connack \/ Break \/ Disconnected \/ ClearWill \/ Reconnect \/ UNCHANGED vars
  <2>1. UNCHANGED node BY <1>1, Quiet
  <2>2. CASE Connack BY <2>1, <2>2 DEF Connack, SettledRight
  <2>3. CASE Break BY <2>1, <2>3 DEF Break, SettledRight
  <2>4. CASE Disconnected BY <2>1, <2>4 DEF Disconnected, SettledRight
  <2>5. CASE ClearWill BY <2>1, <2>5 DEF ClearWill, SettledRight
  <2>6. CASE Reconnect BY <2>1, <2>6 DEF Reconnect, SettledRight
  <2>7. CASE UNCHANGED vars BY <2>7 DEF vars, SettledRight
  <2> QED BY <1>1, <2>2, <2>3, <2>4, <2>5, <2>6, <2>7
<1>2. ASSUME NEW CONSTANT t \in State, Becomes(t)
      PROVE  node' = t.node
  BY <1>2 DEF Becomes
<1>3. CASE ConnectedCallback
  <2>1. PICK t \in State : Becomes(t) /\ Announces(Now, t, Alive) BY <1>3, ConnectedStep
  <2>2. /\ node'.cfg = node.cfg /\ node'.online = node.online
        /\ node'.birth_sent => node.birth_sent \/ node.cfg.on
    BY <1>2, <2>1, NowFields DEF Announces, Keeps
  <2>3. worker' = "up" /\ http' = http BY <1>3 DEF ConnectedCallback
  <2> QED BY <1>0, <2>2, <2>3 DEF SettledRight
<1>4. CASE Rebirth \/ RebirthNow
  <2>1. PICK t \in State : Becomes(t) /\ Announces(Now, t, Alive) BY <1>4, RebirthStep
  <2>2. /\ node'.cfg = node.cfg /\ node'.online = node.online
        /\ node'.birth_sent => node.birth_sent \/ Alive
    BY <1>2, <2>1, NowFields DEF Announces, Keeps
  <2>3. worker' = worker /\ (http' = http \/ http' = "idle") /\ node.cfg.on
    BY <1>4 DEF Rebirth, RebirthNow, SettledRight
  <2> QED BY <1>0, <2>2, <2>3 DEF SettledRight, Alive, Connected
<1>5. ASSUME NEW online \in BOOLEAN, HostState(online) PROVE SettledRight'
  <2>1. PICK s, t \in State :
          /\ Becomes(t) /\ s = WithOnline(Now, online)
          /\ IF online THEN Announces(s, t, Alive) ELSE t = s
    BY <1>5, HostStateStep
  <2>2. /\ s.node.cfg = Now.node.cfg /\ s.node.birth_sent = Now.node.birth_sent
    BY <2>1, OnlineFacts DEF NodeTypes
  <2>3. node'.cfg = node.cfg /\ (node'.birth_sent => node.birth_sent \/ Alive)
    BY <1>2, <2>1, <2>2, NowFields DEF Announces, Keeps
  <2>4. worker' = worker /\ http' = http /\ node.cfg.on /\ node.cfg.watch
    BY <1>5 DEF HostState
  <2> QED BY <1>0, <2>3, <2>4 DEF SettledRight, Alive, Connected
<1>6. ASSUME NEW m \in Metrics, NEW rule \in BOOLEAN, Sample(m, rule) PROVE SettledRight'
  <2>1. PICK t \in State : Becomes(t) /\ Keeps(Now, t) /\ t.node.online = node.online
                          /\ t.node.birth_sent = node.birth_sent
    BY <1>6, SampleStep
  <2>2. worker' = worker /\ http' = http BY <1>6 DEF Sample
  <2> QED BY <1>2, <2>1, <2>2, NowFields DEF SettledRight, Keeps
<1>7. CASE Publish
  <2>1. PICK t \in State : Becomes(t) /\ Keeps(Now, t) /\ t.node.online = node.online
                          /\ t.node.birth_sent = node.birth_sent
    BY <1>7, PublishStep
  <2>2. worker' = worker /\ http' = http BY <1>7 DEF Publish
  <2> QED BY <1>2, <2>1, <2>2, NowFields DEF SettledRight, Keeps
<1>8. CASE Preconnect
  <2>1. http' = http /\ worker' \in {"saving", "pre"} /\ worker = "off"
    BY <1>8 DEF Preconnect
  <2> QED BY <1>8, <2>1, NodeChanges DEF SettledRight
<1>9. CASE Registered \/ DisconnectedCallback \/ Unbirth
  <2>1. http' = http \/ (http = "unbirth" /\ http' = "idle")
    BY <1>9 DEF Registered, DisconnectedCallback, Unbirth
  <2> QED BY <1>9, <2>1, NodeChanges DEF SettledRight
<1>10. CASE SendConnect BY <1>10 DEF SendConnect, SettledRight
<1>11. ASSUME NEW c \in Configs, Configure(c) PROVE SettledRight'
  <2>1. /\ node'.cfg = c /\ node'.birth_sent = node.birth_sent
        /\ node'.online = (node.online \/ ~c.watch \/ c.watch # node.cfg.watch)
    BY <1>11, NodeChanges
  <2>2. /\ http = "idle" /\ worker' = worker
        /\ http' = IF ~c.on THEN "unset"
                   ELSE IF IdentityChanged(c, node.cfg) THEN "reconnect" ELSE "rebirth"
    BY <1>11 DEF Configure
  <2>3. c.on \in BOOLEAN /\ c.watch \in BOOLEAN BY ConfigFacts
  <2>4. ~c.watch => node'.online BY <2>1, <2>3
  <2>5. IF c.on THEN http' \in {"reconnect", "rebirth"} ELSE http' = "unset" BY <2>2
  <2> QED BY <2>1, <2>2, <2>3, <2>4, <2>5 DEF SettledRight
<1>12. CASE Crash \/ Cleanup
  <2>1. http' = "idle" BY <1>12, RestartFacts DEF Restart
  <2> QED BY <1>12, <2>1, RestartFacts, NodeChanges DEF SettledRight
<1> QED BY <1>1, <1>3, <1>4, <1>5, <1>6, <1>7, <1>8, <1>9, <1>10, <1>11, <1>12 DEF Next

(***************************************************************************)
(* Nothing is stranded in the buffer.                                      *)
(***************************************************************************)

\* A connection that nothing is about to end, and no new identity on its way.
Steady == worker = "up" /\ ~broken /\ ~wake /\ http \in {"idle", "rebirth"}

\* It has had its birth, and with the host online its replay.
BufferRight ==
  /\ Steady /\ node.cfg.on => node.birth_sent
  /\ Steady /\ node.birth_sent /\ node.online => node.history = <<>>

LEMMA BufferKept ==
  ASSUME LinkTypes, NodeTypes, PubRight, SettledRight, BufferRight, [Next]_vars
  PROVE  BufferRight'
<1>0. /\ node.cfg.on \in BOOLEAN /\ node.cfg.watch \in BOOLEAN /\ node.online \in BOOLEAN
      /\ node.birth_sent \in BOOLEAN /\ node.cfg \in Configs /\ Now \in State
  BY NowFields, StateFields, ConfigFacts DEF NodeTypes
<1>1. ASSUME ~Steady' PROVE BufferRight' BY <1>1 DEF BufferRight
<1>2. CASE Connack \/ Break \/ Disconnected \/ ClearWill \/ Reconnect \/ UNCHANGED vars
  <2>1. UNCHANGED node BY <1>2, Quiet
  <2>2. Steady' => Steady
    <3>1. CASE Connack BY <3>1 DEF Connack, Steady
    <3>2. CASE Break BY <3>2 DEF Break, Steady
    <3>3. CASE Disconnected BY <3>3 DEF Disconnected, Steady
    <3>4. CASE ClearWill BY <3>4 DEF ClearWill, Steady
    <3>5. CASE Reconnect BY <3>5 DEF Reconnect, Steady, Connected
    <3>6. CASE UNCHANGED vars BY <3>6 DEF vars, Steady
    <3> QED BY <1>2, <3>1, <3>2, <3>3, <3>4, <3>5, <3>6
  <2> QED BY <2>1, <2>2 DEF BufferRight
<1>3. ASSUME NEW CONSTANT t \in State, Becomes(t) PROVE node' = t.node
  BY <1>3 DEF Becomes
<1>4. CASE ConnectedCallback
  <2>1. PICK t \in State : /\ Becomes(t) /\ Announces(Now, t, Alive)
                           /\ Alive /\ node.cfg.on => t.node.history = <<>>
    BY <1>4, ConnectedStep
  <2>2. /\ node'.cfg = node.cfg /\ node'.online = node.online
        /\ node'.birth_sent => node.birth_sent \/ (Alive /\ node.cfg.on)
        /\ Alive /\ node.cfg.on => node'.birth_sent
        /\ Alive /\ node.cfg.on => node'.history = <<>>
    BY <1>3, <2>1, NowFields DEF Announces, Keeps
  <2>3. /\ worker = "up0" /\ worker' = "up"
        /\ UNCHANGED <<broken, wake, http>>
    BY <1>4 DEF ConnectedCallback
  <2>4. Steady' => Alive /\ http \notin {"unset", "unbirth"}
    BY <2>3 DEF Steady, Alive, Connected, LinkTypes
  <2> QED BY <1>0, <2>2, <2>4 DEF BufferRight, SettledRight
<1>5. CASE Rebirth \/ RebirthNow
  <2>1. PICK t \in State : Becomes(t) /\ Announces(Now, t, Alive) BY <1>5, RebirthStep
  <2>2. /\ node'.cfg = node.cfg /\ node'.online = node.online
        /\ node.birth_sent => node'.birth_sent
    <3>1. Now.node = node /\ node' = t.node BY <1>3, <2>1, NowFields
    <3>2. /\ t.node.cfg = Now.node.cfg /\ t.node.online = Now.node.online
          /\ Now.node.birth_sent => t.node.birth_sent
      BY <2>1, Zenon DEF Announces, Keeps
    <3> QED BY <3>1, <3>2
  <2>3. node.history = <<>> => node'.history = <<>>
    <3>1. Now.node.history = <<>> => t.node.history = <<>> BY <2>1, Zenon DEF Announces
    <3>2. Now.node.history = node.history /\ node' = t.node BY <1>3, <2>1, NowFields
    <3> QED BY <3>1, <3>2
  <2>4. (Steady' => Steady) /\ node.cfg.on
    BY <1>5 DEF Rebirth, RebirthNow, Steady, SettledRight
  <2> QED BY <1>0, <2>2, <2>3, <2>4 DEF BufferRight
<1>6. ASSUME NEW online \in BOOLEAN, HostState(online) PROVE BufferRight'
  <2>1. PICK s, t \in State :
          /\ Becomes(t) /\ s = WithOnline(Now, online)
          /\ IF online THEN Announces(s, t, Alive) ELSE t = s
          /\ online /\ ~node.online /\ Alive => t.node.history = <<>>
    BY <1>6, HostStateStep
  <2>2. /\ s.node.cfg = Now.node.cfg /\ s.node.birth_sent = Now.node.birth_sent
        /\ s.node.online = online /\ s.node.history = Now.node.history
    <3>1. Now \in State /\ online \in BOOLEAN /\ s = WithOnline(Now, online) BY <1>0, <2>1
    <3>2. /\ s.node.cfg = Now.node.cfg /\ s.node.birth_sent = Now.node.birth_sent
          /\ s.node.online = online
      BY <3>1, OnlineFacts
    <3>3. s.node.history = Now.node.history BY <3>1, OnlineFacts
    <3> QED BY <3>2, <3>3
  <2>3. /\ node'.cfg = node.cfg /\ (node.birth_sent => node'.birth_sent)
        /\ node'.online = online
    BY <1>3, <2>1, <2>2, NowFields DEF Announces, Keeps
  <2>4. node.cfg.on /\ (Steady' => Steady /\ Alive)
    BY <1>6 DEF HostState, Steady, Alive, Connected
  <2>5. online /\ node.history = <<>> => node'.history = <<>>
    BY <1>3, <2>1, <2>2, NowFields DEF Announces
  <2>6. online /\ ~node.online /\ Alive => node'.history = <<>>
    BY <1>3, <2>1
  <2> QED BY <1>0, <2>3, <2>4, <2>5, <2>6 DEF BufferRight
<1>7. ASSUME NEW m \in Metrics, NEW rule \in BOOLEAN, Sample(m, rule) PROVE BufferRight'
  <2>1. PICK t \in State : /\ Becomes(t) /\ Keeps(Now, t) /\ t.node.online = node.online
                           /\ t.node.birth_sent = node.birth_sent
                           /\ ~MustBuffer => t.node.history = node.history
    BY <1>7, SampleStep
  <2>2. Steady' = Steady BY <1>7 DEF Sample, Steady
  <2>3. Steady /\ node.birth_sent /\ node.online => ~MustBuffer
    BY DEF Steady, MustBuffer, Connected
  <2>4. /\ node'.cfg = node.cfg /\ node'.online = node.online
        /\ node'.birth_sent = node.birth_sent
        /\ ~MustBuffer => node'.history = node.history
    <3>1. node' = t.node BY <1>3, <2>1
    <3>2. t.node.cfg = node.cfg BY <2>1, NowFields DEF Keeps
    <3> QED BY <2>1, <3>1, <3>2
  <2> QED BY <1>0, <2>2, <2>3, <2>4 DEF BufferRight
<1>8. CASE Publish
  <2>1. PICK t \in State : /\ Becomes(t) /\ Keeps(Now, t) /\ t.node.online = node.online
                           /\ t.node.birth_sent = node.birth_sent
                           /\ t.node.history = node.history
    BY <1>8, PublishStep
  <2>2. Steady' = Steady BY <1>8 DEF Publish, Steady
  <2> QED BY <1>3, <2>1, <2>2, NowFields DEF BufferRight, Keeps
<1>9. CASE Preconnect BY <1>1, <1>9 DEF Preconnect, Steady
<1>10. CASE Registered \/ DisconnectedCallback
  BY <1>1, <1>10 DEF Registered, DisconnectedCallback, Steady
<1>11. CASE Unbirth
  <2>1. ~node.cfg.on BY <1>11 DEF Unbirth, SettledRight
  <2> QED BY <1>0, <1>11, <2>1, NodeChanges DEF BufferRight
<1>12. CASE SendConnect BY <1>1, <1>12 DEF SendConnect, Steady
<1>13. ASSUME NEW c \in Configs, Configure(c) PROVE BufferRight'
  <2>1. /\ node'.cfg = c /\ node'.birth_sent = node.birth_sent
        /\ node'.history = node.history
        /\ node'.online = (node.online \/ ~c.watch \/ c.watch # node.cfg.watch)
    BY <1>13, NodeChanges
  <2>2. /\ http = "idle" /\ UNCHANGED <<worker, broken, wake>>
        /\ http' = IF ~c.on THEN "unset"
                   ELSE IF IdentityChanged(c, node.cfg) THEN "reconnect" ELSE "rebirth"
    BY <1>13 DEF Configure
  <2>3. c.on \in BOOLEAN /\ c.watch \in BOOLEAN BY ConfigFacts
  <2>4. Steady' => Steady /\ c.on /\ ~IdentityChanged(c, node.cfg) BY <2>2 DEF Steady
  <2>5. ~IdentityChanged(c, node.cfg) => c.on = node.cfg.on /\ c.watch = node.cfg.watch
    BY <1>0, SameIdentity
  <2>6. Steady' => /\ Steady /\ node.cfg.on /\ node'.online = node.online
    BY <1>0, <2>1, <2>3, <2>4, <2>5 DEF SettledRight
  <2> QED BY <1>0, <2>1, <2>6 DEF BufferRight
<1>14. CASE Crash \/ Cleanup
  <2>1. worker' = "off" BY <1>14, RestartFacts DEF Restart
  <2> QED BY <1>1, <2>1 DEF Steady
<1> QED BY <1>2, <1>4, <1>5, <1>6, <1>7, <1>8, <1>9, <1>10, <1>11, <1>12, <1>13, <1>14 DEF Next

(***************************************************************************)
(* Accepted samples are kept.                                              *)
(***************************************************************************)

\* Between the two looks a buffered sample is still held.
HeldRight ==
  /\ pub.pc = "send" /\ pub.buffered => pub.sample \in Held(Now)
  /\ kept.accepted \ kept.slipped \subseteq Held(Now)

LEMMA HeldKept ==
  ASSUME LinkTypes, NodeTypes, PubRight, HeldRight, [Next]_vars
  PROVE  HeldRight'
<1>0. Now \in State BY DEF NodeTypes
<1>1. Held(Now) = kept.delivered \cup kept.lost \cup Numbers(node.history)
  BY NowFields DEF Held
<1>2. Held(Now)' = kept'.delivered \cup kept'.lost \cup Numbers(node'.history)
  BY DEF Held, Now
<1>3. ASSUME pub' = pub, kept'.accepted = kept.accepted, kept'.slipped = kept.slipped,
             Held(Now) \subseteq Held(Now)'
      PROVE  HeldRight'
  BY <1>3 DEF HeldRight
<1>4. ASSUME pub' = pub, kept' = kept, node'.history = node.history PROVE HeldRight'
  BY <1>1, <1>2, <1>3, <1>4
<1>5. ASSUME NEW CONSTANT t \in State, Becomes(t)
      PROVE  Held(Now)' = Held(t) /\ kept' = t.kept
  BY <1>2, <1>5 DEF Becomes, Held
<1>6. CASE Connack \/ Break \/ Disconnected \/ ClearWill \/ Reconnect \/ UNCHANGED vars
  BY <1>4, <1>6, Quiet
<1>7. CASE ConnectedCallback
  <2>1. PICK t \in State : Becomes(t) /\ Announces(Now, t, Alive) BY <1>7, ConnectedStep
  <2>2. pub' = pub BY <1>7 DEF ConnectedCallback
  <2>3. /\ kept'.accepted = kept.accepted /\ kept'.slipped = kept.slipped
        /\ Held(Now) \subseteq Held(Now)'
    BY <1>5, <2>1, NowFields DEF Announces
  <2> QED BY <1>3, <2>2, <2>3
<1>8. CASE Rebirth \/ RebirthNow
  <2>1. PICK t \in State : Becomes(t) /\ Announces(Now, t, Alive) BY <1>8, RebirthStep
  <2>2. pub' = pub BY <1>8 DEF Rebirth, RebirthNow
  <2>3. /\ kept'.accepted = kept.accepted /\ kept'.slipped = kept.slipped
        /\ Held(Now) \subseteq Held(Now)'
    BY <1>5, <2>1, NowFields DEF Announces
  <2> QED BY <1>3, <2>2, <2>3
<1>9. ASSUME NEW online \in BOOLEAN, HostState(online) PROVE HeldRight'
  <2>1. PICK s, t \in State :
          /\ Becomes(t) /\ s = WithOnline(Now, online)
          /\ IF online THEN Announces(s, t, Alive) ELSE t = s
    BY <1>9, HostStateStep
  <2>2. s.kept = Now.kept /\ Held(s) = Held(Now) BY <1>0, <2>1, OnlineFacts
  <2>3. pub' = pub BY <1>9 DEF HostState
  <2>4. /\ kept'.accepted = kept.accepted /\ kept'.slipped = kept.slipped
        /\ Held(Now) \subseteq Held(Now)'
    BY <1>5, <2>1, <2>2, NowFields DEF Announces
  <2> QED BY <1>3, <2>3, <2>4
<1>10. ASSUME NEW m \in Metrics, NEW rule \in BOOLEAN, Sample(m, rule) PROVE HeldRight'
  <2>1. PICK t \in State :
          /\ Becomes(t) /\ t.kept.accepted = kept.accepted /\ t.kept.slipped = kept.slipped
          /\ Held(Now) \subseteq Held(t) /\ (pub'.buffered => pub'.sample \in Held(t))
    BY <1>10, SampleStep
  <2> QED BY <1>5, <2>1 DEF HeldRight
<1>11. CASE Publish
  <2>1. PICK t \in State :
          /\ Becomes(t) /\ Held(Now) \subseteq Held(t) /\ kept.slipped \subseteq t.kept.slipped
          /\ t.kept.accepted \subseteq kept.accepted \cup {pub.sample}
          /\ pub.sample \in t.kept.accepted \ kept.accepted =>
               pub.sample \in Held(t) \cup t.kept.slipped \/ pub.buffered
    BY <1>11, PublishStep
  <2>2. pub'.pc = "idle" BY <1>11 DEF Publish, Resting
  <2>3. pub.buffered => pub.sample \in Held(t) BY <1>11, <2>1 DEF HeldRight, Publish
  <2>4. t.kept.accepted \ t.kept.slipped \subseteq Held(t)
    BY <2>1, <2>3 DEF HeldRight
  <2> QED BY <1>5, <2>1, <2>2, <2>4 DEF HeldRight
<1>12. CASE Preconnect \/ Registered \/ DisconnectedCallback \/ Unbirth
  <2>1. pub' = pub /\ kept' = kept
    BY <1>12 DEF Preconnect, Registered, DisconnectedCallback, Unbirth, ghost
  <2> QED BY <1>4, <1>12, <2>1, NodeChanges
<1>13. CASE SendConnect BY <1>4, <1>13 DEF SendConnect
<1>14. ASSUME NEW c \in Configs, Configure(c) PROVE HeldRight'
  <2>1. pub' = pub /\ kept' = kept BY <1>14 DEF Configure
  <2> QED BY <1>4, <1>14, <2>1, NodeChanges
<1>15. CASE Crash \/ Cleanup
  <2>1. Restart BY <1>15, RestartFacts
  <2>2. pub' = Resting BY <2>1 DEF Restart
  <2>3. /\ kept'.accepted = kept.accepted /\ kept'.slipped = kept.slipped
        /\ Held(Now) \subseteq Held(Now)'
    BY <1>1, <1>2, <1>15, RestartFacts
  <2> QED BY <2>2, <2>3 DEF HeldRight, Resting
<1> QED BY <1>6, <1>7, <1>8, <1>9, <1>10, <1>11, <1>12, <1>13, <1>14, <1>15 DEF Next

(***************************************************************************)
(* The host is not misled.                                                 *)
(***************************************************************************)

\* While settings are as they were at the last birth, the will of the session, or the one
\* the next CONNECT takes, is about the node as it is, and so is the birth the host has.
HostRight ==
  /\ ~unsettled /\ node.cfg.on =>
       /\ worker = "pre" => will = NewWill
       /\ worker \in {"sent", "up0", "up"} => WillFits(Now)
  /\ Good(Now, Alive)

LEMMA HostKept ==
  ASSUME LinkTypes, NodeTypes, PubRight, SettledRight, HostRight, [Next]_vars
  PROVE  HostRight'
<1>0. /\ node.cfg.on \in BOOLEAN /\ node.birth_sent \in BOOLEAN /\ unsettled \in BOOLEAN
      /\ Now \in State /\ Alive \in BOOLEAN
  BY NowFields, StateFields, ConfigFacts, AliveType DEF NodeTypes
<1>1. ~unsettled /\ Alive /\ node.cfg.on => WillFits(Now)
  BY DEF HostRight, Alive, Connected
<1>2. ASSUME UNCHANGED <<session, bdseq>>, node'.cfg = node.cfg
      PROVE  WillFits(Now)' = WillFits(Now) /\ NewWill' = NewWill
  BY <1>2 DEF WillFits, Now, NewWill
<1>3. ASSUME UNCHANGED <<session, bdseq, will>>, node'.cfg = node.cfg,
             ~unsettled' => ~unsettled,
             worker' \in {"pre", "sent", "up0", "up"} => worker' = worker
                \/ (worker = "sent" /\ worker' = "up0") \/ (worker = "up0" /\ worker' = "up"),
             Good(Now, Alive)'
      PROVE  HostRight'
  BY <1>2, <1>3 DEF HostRight
<1>4. ASSUME view' = view, faults' = faults, unsettled' = unsettled,
             Alive' /\ node'.birth_sent => /\ Alive /\ node.birth_sent
                                          /\ node'.cfg = node.cfg /\ node'.seq = node.seq
      PROVE  Good(Now, Alive)'
  <2>1. Good(Now, Alive) BY DEF HostRight
  <2> QED BY <1>4, <2>1 DEF Good, ViewFits, Now
<1>5. ASSUME NEW CONSTANT t \in State, Becomes(t), Alive' = Alive, Good(t, Alive)
      PROVE  Good(Now, Alive)'
  BY <1>5 DEF Good, ViewFits, Now, Becomes
<1>6. ASSUME NEW CONSTANT t \in State, Becomes(t), UNCHANGED <<session, bdseq, will>>,
             worker' = worker \/ (worker = "up0" /\ worker' = "up"), Alive' = Alive,
             t.node.cfg = node.cfg, ~t.unsettled => ~unsettled \/ (Alive /\ WillFits(Now)),
             Good(t, Alive)
      PROVE  HostRight'
  <2>1. Good(Now, Alive)' BY <1>5, <1>6
  <2>2. node'.cfg = node.cfg /\ unsettled' = t.unsettled BY <1>6 DEF Becomes
  <2>3. CASE ~t.unsettled => ~unsettled
    BY <1>3, <1>6, <2>1, <2>2, <2>3
  <2>4. CASE Alive /\ WillFits(Now)
    <3>1. worker' \in {"up0", "up"} BY <1>6, <2>4 DEF Alive, Connected
    <3>2. WillFits(Now)' BY <1>2, <1>6, <2>2, <2>4
    <3> QED BY <2>1, <3>1, <3>2 DEF HostRight
  <2> QED BY <1>6, <2>3, <2>4
<1>7. ASSUME NEW CONSTANT t \in State, Announces(Now, t, Alive)
      PROVE  /\ t.node.cfg = node.cfg /\ (~t.unsettled => ~unsettled \/ (Alive /\ WillFits(Now)))
             /\ Good(t, Alive)
  <2>1. Good(Now, Alive) BY DEF HostRight
  <2>2. t.node.cfg = Now.node.cfg BY <1>7 DEF Announces, Keeps
  <2>3. ~t.unsettled => ~Now.unsettled \/ (Alive /\ WillFits(Now))
    BY <1>7 DEF Announces
  <2>4. ~Now.unsettled /\ Alive /\ Now.node.cfg.on => WillFits(Now) BY <1>1, NowFields
  <2>5. Good(t, Alive) BY <1>7, <2>1, <2>4, Zenon DEF Announces
  <2> QED BY <2>2, <2>3, <2>5, NowFields
<1>8. CASE Connack \/ Break \/ Disconnected \/ Reconnect \/ UNCHANGED vars
  <2>1. /\ UNCHANGED <<node, view, faults, kept, unsettled>>
        /\ UNCHANGED <<bdseq, session>>
    BY <1>8, Quiet
  <2>2. will' = will BY <1>8 DEF Connack, Break, Disconnected, Reconnect, vars
  <2>3. /\ worker' \in {"pre", "sent", "up0", "up"} => worker' = worker
            \/ (worker = "sent" /\ worker' = "up0")
        /\ Alive' => Alive \/ worker = "sent"
    <3>1. CASE Connack BY <3>1 DEF Connack, Alive, Connected
    <3>2. CASE Break BY <3>2 DEF Break, Alive, Connected
    <3>3. CASE Disconnected BY <3>3 DEF Disconnected, Alive, Connected
    <3>4. CASE Reconnect BY <3>4 DEF Reconnect, Alive, Connected
    <3>5. CASE UNCHANGED vars BY <3>5 DEF vars, Alive, Connected
    <3> QED BY <1>8, <3>1, <3>2, <3>3, <3>4, <3>5
  <2>4. Good(Now, Alive)' BY <1>4, <2>1, <2>3 DEF SettledRight
  <2> QED BY <1>3, <2>1, <2>2, <2>3, <2>4
<1>9. CASE ClearWill
  <2>1. ~node.cfg.on /\ UNCHANGED <<node, view, faults, unsettled, worker, broken>>
    BY <1>9 DEF ClearWill, SettledRight, ghost
  <2>2. Good(Now, Alive)' BY <1>4, <2>1 DEF Alive, Connected
  <2> QED BY <2>1, <2>2 DEF HostRight
<1>10. CASE ConnectedCallback
  <2>1. PICK t \in State : Becomes(t) /\ Announces(Now, t, Alive) BY <1>10, ConnectedStep
  <2>2. /\ UNCHANGED <<session, bdseq, will, broken>> /\ worker = "up0" /\ worker' = "up"
    BY <1>10 DEF ConnectedCallback
  <2>3. Alive' = Alive BY <2>2 DEF Alive, Connected
  <2> QED BY <1>6, <1>7, <2>1, <2>2, <2>3
<1>11. CASE Rebirth \/ RebirthNow
  <2>1. PICK t \in State : Becomes(t) /\ Announces(Now, t, Alive) BY <1>11, RebirthStep
  <2>2. UNCHANGED <<session, bdseq, will, broken, worker>>
    BY <1>11 DEF Rebirth, RebirthNow
  <2>3. Alive' = Alive BY <2>2 DEF Alive, Connected
  <2> QED BY <1>6, <1>7, <2>1, <2>2, <2>3
<1>12. ASSUME NEW online \in BOOLEAN, HostState(online) PROVE HostRight'
  <2>1. PICK s, t \in State :
          /\ Becomes(t) /\ s = WithOnline(Now, online)
          /\ IF online THEN Announces(s, t, Alive) ELSE t = s
    BY <1>12, HostStateStep
  <2>2. UNCHANGED <<session, bdseq, will, broken, worker>> BY <1>12 DEF HostState
  <2>3. Alive' = Alive BY <2>2 DEF Alive, Connected
  <2>4. /\ s.node.cfg = node.cfg /\ s.unsettled = unsettled /\ WillFits(s) = WillFits(Now)
        /\ Good(s, Alive)
    <3>1. Now \in State /\ online \in BOOLEAN /\ s = WithOnline(Now, online) BY <1>0, <2>1
    <3>2. /\ s.node.cfg = Now.node.cfg /\ s.unsettled = Now.unsettled
          /\ WillFits(s) = WillFits(Now)
      BY <3>1, OnlineFacts
    <3>3. \A alive \in BOOLEAN : Good(Now, alive) => Good(s, alive) BY <3>1, OnlineFacts
    <3> QED BY <1>0, <3>2, <3>3, NowFields DEF HostRight
  <2>5. CASE online
    <3>1. Announces(s, t, Alive) BY <2>1, <2>5
    <3>2. t.node.cfg = s.node.cfg BY <3>1 DEF Announces, Keeps
    <3>3. ~t.unsettled => ~s.unsettled \/ (Alive /\ WillFits(s)) BY <3>1 DEF Announces
    <3>4. ~s.unsettled /\ Alive /\ s.node.cfg.on => WillFits(s) BY <1>1, <2>4
    <3>5. Good(t, Alive) BY <2>4, <3>1, <3>4, Zenon DEF Announces
    <3> QED BY <1>6, <2>1, <2>2, <2>3, <2>4, <3>2, <3>3, <3>5
  <2>6. CASE ~online BY <1>6, <2>1, <2>2, <2>3, <2>4, <2>6
  <2> QED BY <2>5, <2>6
<1>13. ASSUME NEW m \in Metrics, NEW rule \in BOOLEAN, Sample(m, rule) PROVE HostRight'
  <2>1. PICK t \in State :
          /\ Becomes(t) /\ t.view = view /\ t.faults = faults /\ t.unsettled = unsettled
          /\ Keeps(Now, t) /\ t.node.birth_sent = node.birth_sent /\ t.node.seq = node.seq
    BY <1>13, SampleStep
  <2>2. UNCHANGED <<session, bdseq, will, broken, worker>> BY <1>13 DEF Sample
  <2>3. Alive' = Alive BY <2>2 DEF Alive, Connected
  <2>4. /\ node'.cfg = node.cfg /\ view' = view /\ faults' = faults
        /\ unsettled' = unsettled /\ node'.birth_sent = node.birth_sent
        /\ node'.seq = node.seq
    BY <2>1, NowFields DEF Becomes, Keeps
  <2>5. Good(Now, Alive)' BY <1>4, <2>3, <2>4
  <2> QED BY <1>3, <2>2, <2>4, <2>5
<1>14. CASE Publish
  <2>1. PICK t \in State :
          /\ Becomes(t) /\ Keeps(Now, t) /\ t.unsettled = unsettled
          /\ Good(Now, Alive) => Good(t, Alive)
    BY <1>14, PublishStep
  <2>2. UNCHANGED <<session, bdseq, will, broken, worker>> BY <1>14 DEF Publish
  <2>3. Alive' = Alive BY <2>2 DEF Alive, Connected
  <2>4. t.node.cfg = node.cfg /\ Good(t, Alive) BY <2>1, NowFields DEF Keeps, HostRight
  <2> QED BY <1>6, <2>1, <2>2, <2>3, <2>4
<1>15. CASE Preconnect
  <2>1. /\ UNCHANGED <<session, view, faults, unsettled>>
        /\ worker' = IF node.cfg.on THEN "saving" ELSE "pre"
    BY <1>15 DEF Preconnect, ghost
  <2>2. node'.cfg = node.cfg BY <1>15, NodeChanges
  <2>3. ~Alive' BY <2>1 DEF Alive, Connected
  <2>4. Good(Now, Alive)' BY <1>4, <2>1, <2>3
  <2> QED BY <1>0, <2>1, <2>2, <2>4 DEF HostRight
<1>16. CASE Registered
  <2>1. /\ UNCHANGED <<session, bdseq, view, faults, unsettled>> /\ worker' = "pre"
        /\ will' = NewWill
    BY <1>16 DEF Registered, ghost
  <2>2. node'.cfg = node.cfg BY <1>16, NodeChanges
  <2>3. ~Alive' BY <2>1 DEF Alive, Connected
  <2>4. Good(Now, Alive)' BY <1>4, <2>1, <2>3
  <2> QED BY <1>2, <2>1, <2>2, <2>4 DEF HostRight
<1>17. CASE DisconnectedCallback \/ Unbirth
  <2>1. /\ UNCHANGED <<session, bdseq, will, view, faults, unsettled>>
        /\ worker' = worker \/ worker' = "off"
    BY <1>17 DEF DisconnectedCallback, Unbirth, ghost
  <2>2. node'.cfg = node.cfg /\ node'.birth_sent = FALSE BY <1>17, NodeChanges
  <2>3. Good(Now, Alive)' BY <1>4, <2>1, <2>2
  <2> QED BY <1>3, <2>1, <2>2, <2>3
<1>18. CASE SendConnect
  <2>1. /\ UNCHANGED <<node, bdseq, will, faults, unsettled>> /\ session' = will
        /\ worker = "pre" /\ worker' = "sent" /\ view' = Nobody
    BY <1>18 DEF SendConnect
  <2>2. ~Alive' BY <2>1 DEF Alive, Connected
  <2>3. Good(Now, Alive)' BY <2>1, <2>2 DEF Good, Now, HostRight
  <2>4. will = NewWill => WillFits(Now)' BY <2>1 DEF NewWill, WillFits, Now
  <2> QED BY <2>1, <2>3, <2>4 DEF HostRight
<1>19. ASSUME NEW c \in Configs, Configure(c) PROVE HostRight'
  <2>1. unsettled' = TRUE /\ faults' = faults BY <1>19 DEF Configure
  <2> QED BY <2>1 DEF HostRight, Good, Now
<1>20. CASE Crash \/ Cleanup
  <2>1. Restart BY <1>20, RestartFacts
  <2>2. worker' = "off" BY <2>1 DEF Restart
  <2>3. \A f \in faults : f[2] BY NowFields DEF HostRight, Good
  <2>4. \A f \in faults' : f[2]
    <3>1. CASE Crash BY <2>3, <3>1 DEF Crash
    <3>2. CASE Cleanup
      <4>1. CASE unsettled
        <5>1. Complaint(Now, "will")[2] = TRUE BY <1>0, <4>1, ComplaintFacts, NowFields
        <5>2. faults' = faults \/ faults' = faults \cup {Complaint(Now, "will")}
          BY <3>2 DEF Cleanup
        <5> QED BY <2>3, <5>1, <5>2
      <4>2. CASE ~unsettled
        <5>1. faults' = faults BY <1>1, <3>2, <4>2, NowFields DEF Cleanup, WillFits
        <5> QED BY <2>3, <5>1
      <4> QED BY <1>0, <4>1, <4>2
    <3> QED BY <1>20, <3>1, <3>2
  <2>5. ~Alive' BY <2>2 DEF Alive, Connected
  <2>6. Good(Now, Alive)' BY <2>4, <2>5 DEF Good, Now
  <2> QED BY <2>2, <2>6 DEF HostRight
<1> QED BY <1>8, <1>9, <1>10, <1>11, <1>12, <1>13, <1>14, <1>15, <1>16, <1>17, <1>18, <1>19,
           <1>20 DEF Next

\* Unless a crash has cut the file short: it holds the bdSeq of the process, no session had
\* a larger one, and a new one is counted and saved before a CONNECT carries it.
BdSeqRight ==
  ~torn =>
    /\ file = IF worker = "saving" THEN -1 ELSE bdseq
    /\ \A u \in used : u <= bdseq
    /\ session.set => session.bdseq <= bdseq /\ session.bdseq \notin used
    /\ worker = "pre" /\ will.set => will.bdseq = bdseq
    /\ worker = "saving" \/ (worker = "pre" /\ will.set) =>
         /\ \A u \in used : u < bdseq
         /\ session.set => session.bdseq < bdseq

LEMMA BdSeqKept ==
  ASSUME LinkTypes, NodeTypes, SettledRight, BdSeqRight, [Next]_vars
  PROVE  BdSeqRight'
<1>0. /\ bdseq \in Nat /\ used \subseteq Nat /\ torn \in BOOLEAN
      /\ session.set \in BOOLEAN /\ (session.set => session.bdseq \in Nat)
      /\ will.set \in BOOLEAN /\ (will.set => will.bdseq \in Nat)
  BY WillFacts DEF LinkTypes
<1>1. ASSUME UNCHANGED <<bdseq, file, session, used, torn>>, worker # "saving",
             worker' \notin {"saving", "pre"} \/ (worker' = worker /\ will' = will)
      PROVE  BdSeqRight'
  BY <1>1 DEF BdSeqRight
<1>2. ASSUME UNCHANGED <<bdseq, file, session, used, torn, worker, will>> PROVE BdSeqRight'
  BY <1>2 DEF BdSeqRight
<1>3. CASE Connack \/ Disconnected \/ DisconnectedCallback
  BY <1>1, <1>3 DEF Connack, Disconnected, DisconnectedCallback, ghost
<1>4. CASE Break \/ Reconnect \/ UNCHANGED vars
  BY <1>2, <1>4 DEF Break, Reconnect, vars, ghost
<1>5. CASE Unbirth \/ Rebirth \/ RebirthNow \/ Publish
  BY <1>2, <1>5 DEF Unbirth, Rebirth, RebirthNow, Publish, ghost
<1>6. CASE ConnectedCallback BY <1>1, <1>6 DEF ConnectedCallback
<1>7. ASSUME NEW online \in BOOLEAN, HostState(online) PROVE BdSeqRight'
  BY <1>2, <1>7 DEF HostState
<1>8. ASSUME NEW m \in Metrics, NEW rule \in BOOLEAN, Sample(m, rule) PROVE BdSeqRight'
  BY <1>2, <1>8 DEF Sample
<1>9. ASSUME NEW c \in Configs, Configure(c) PROVE BdSeqRight'
  BY <1>2, <1>9 DEF Configure
<1>10. CASE ClearWill
  <2>1. /\ UNCHANGED <<bdseq, file, session, used, torn, worker>> /\ will' = NoWill
    BY <1>10 DEF ClearWill, ghost
  <2>2. will'.set = FALSE BY <2>1 DEF NoWill
  <2> QED BY <2>1, <2>2 DEF BdSeqRight
<1>11. CASE Preconnect
  <2>1. UNCHANGED <<session, used, torn>> /\ worker = "off" BY <1>11 DEF Preconnect, ghost
  <2>2. CASE node.cfg.on
    <3>1. bdseq' = bdseq + 1 /\ file' = -1 /\ worker' = "saving"
      BY <1>11, <2>2 DEF Preconnect
    <3> QED BY <1>0, <2>1, <3>1 DEF BdSeqRight
  <2>3. CASE ~node.cfg.on
    <3>1. bdseq' = bdseq /\ file' = file /\ worker' = "pre" /\ will' = NoWill
      BY <1>11, <2>3 DEF Preconnect
    <3>2. will'.set = FALSE BY <3>1 DEF NoWill
    <3> QED BY <2>1, <3>1, <3>2 DEF BdSeqRight
  <2> QED BY <2>2, <2>3
<1>12. CASE Registered
  <2>1. /\ UNCHANGED <<session, used, torn, bdseq>> /\ worker = "saving" /\ worker' = "pre"
        /\ file' = bdseq /\ will' = NewWill
    BY <1>12 DEF Registered, ghost
  <2>2. will'.bdseq = bdseq BY <2>1 DEF NewWill
  <2> QED BY <2>1, <2>2 DEF BdSeqRight
<1>13. CASE SendConnect
  <2>1. /\ UNCHANGED <<bdseq, file, torn>> /\ worker = "pre" /\ worker' = "sent"
        /\ session' = will /\ used' = used \cup (IF session.set THEN {session.bdseq} ELSE {})
    BY <1>13 DEF SendConnect
  <2> SUFFICES ASSUME ~torn' PROVE BdSeqRight' BY DEF BdSeqRight
  <2>2. \A u \in used' : u \in used \/ (session.set /\ u = session.bdseq) BY <2>1
  <2>3. \A u \in used' : u <= bdseq BY <2>1, <2>2 DEF BdSeqRight
  <2>4. will.set => will.bdseq = bdseq /\ \A u \in used' : u < bdseq
    BY <2>1, <2>2 DEF BdSeqRight
  <2>5. will.set => will.bdseq <= bdseq /\ will.bdseq \notin used' BY <1>0, <2>4
  <2>6. file' = bdseq BY <2>1 DEF BdSeqRight
  <2> QED BY <2>1, <2>3, <2>5, <2>6 DEF BdSeqRight
<1>14. CASE Crash \/ Cleanup
  <2>1. Restart BY <1>14, RestartFacts
  <2>2. /\ torn' = (torn \/ file < 0) /\ bdseq' = Loaded /\ file' = file /\ worker' = "off"
        /\ session' = NoWill /\ used' = used \cup (IF session.set THEN {session.bdseq} ELSE {})
    BY <2>1 DEF Restart
  <2> SUFFICES ASSUME ~torn' PROVE BdSeqRight' BY DEF BdSeqRight
  <2>3. ~torn /\ ~(file < 0) BY <1>0, <2>2
  <2>4. file = bdseq BY <2>3 DEF BdSeqRight
  <2>5. bdseq' = bdseq BY <2>2, <2>3, <2>4 DEF Loaded
  <2>6. session'.set = FALSE BY <2>2 DEF NoWill
  <2>7. \A u \in used' : u <= bdseq
    <3>1. \A u \in used' : u \in used \/ (session.set /\ u = session.bdseq) BY <2>2
    <3> QED BY <2>3, <3>1 DEF BdSeqRight
  <2> QED BY <2>2, <2>4, <2>5, <2>6, <2>7 DEF BdSeqRight
<1> QED BY <1>3, <1>4, <1>5, <1>6, <1>7, <1>8, <1>9, <1>10, <1>11, <1>12, <1>13, <1>14 DEF Next

(***************************************************************************)
(* The theorems.                                                           *)
(***************************************************************************)

Inv == /\ LinkTypes /\ NodeTypes /\ PubRight /\ SettledRight
       /\ BufferRight /\ HeldRight /\ HostRight /\ BdSeqRight

LEMMA InvHolds == Spec => []Inv
<1>1. Init => Inv
  <2> SUFFICES ASSUME Init PROVE Inv OBVIOUS
  <2>1. PICK c \in Configs : node = Fresh(c) BY DEF Init
  <2>2. /\ node.cfg = c /\ node.online = TRUE /\ node.birth_sent = FALSE
        /\ node.history = <<>> /\ node.seq = 0
    BY <2>1 DEF Fresh
  <2>3. node \in Node
    <3>1. 0 \in Seqs BY NodeParams DEF Seqs
    <3> QED BY <2>1, <3>1 DEF Fresh, Node
  <2>4. /\ view \in View /\ will \in Will /\ session \in Will /\ pub \in Pub
        /\ pub.pc = "idle" /\ session.set = FALSE /\ will.set = FALSE
    BY NodeParams DEF Init, View, Will, Pub, Resting, NoWill
  <2>5. kept \in Kept /\ kept.accepted = {}
    <3>1. kept = [accepted |-> {}, delivered |-> {}, lost |-> {}, slipped |-> {}] BY DEF Init
    <3> QED BY <3>1 DEF Kept
  <2>6. Len(node.history) <= MaxHistory
    <3>1. Len(<<>>) <= MaxHistory BY NodeParams
    <3> QED BY <2>2, <3>1
  <2>7. NodeTypes
    <3>1. faults \in SUBSET Faults /\ unsettled \in BOOLEAN BY DEF Init
    <3> QED BY <2>3, <2>4, <2>5, <2>6, <3>1 DEF NodeTypes, Now, State
  <2>8. LinkTypes
    <3>1. /\ bdseq \in Nat /\ file \in Nat \cup {-1} /\ used \subseteq Nat
          /\ samples \in 0 .. MaxSamples
      BY NodeParams DEF Init
    <3>2. /\ worker \in {"off", "saving", "pre", "sent", "up0", "up", "closing"}
          /\ http \in {"idle", "unset", "unbirth", "reconnect", "rebirth"}
          /\ broken \in BOOLEAN /\ wake \in BOOLEAN /\ torn \in BOOLEAN
      BY DEF Init
    <3> QED BY <2>4, <3>1, <3>2 DEF LinkTypes
  <2>9. PubRight BY <2>4 DEF PubRight
  <2>10. SettledRight BY <2>2 DEF Init, SettledRight
  <2>11. BufferRight BY DEF Init, BufferRight, Steady
  <2>12. HeldRight BY <2>4, <2>5 DEF HeldRight
  <2>13. HostRight BY DEF Init, HostRight, Good, Now, Alive, Connected
  <2>14. BdSeqRight BY <2>4 DEF Init, BdSeqRight
  <2> QED BY <2>7, <2>8, <2>9, <2>10, <2>11, <2>12, <2>13, <2>14 DEF Inv
<1>2. Inv /\ [Next]_vars => Inv'
  BY LinkTypesKept, NodeTypesKept, PubKept, SettledKept, BufferKept, HeldKept, HostKept,
     BdSeqKept DEF Inv
<1> QED BY <1>1, <1>2, PTL DEF Spec

\* Types, sparkplug.c:21 SPB_HISTORY_MAX and take_seq: seq stays a byte and the ring never
\* holds more than its size.
THEOREM Typed == Spec => []TypeOK
<1>1. Inv => TypeOK
  <2> SUFFICES ASSUME Inv PROVE TypeOK OBVIOUS
  <2>1. node \in Node /\ kept \in Kept /\ unsettled \in BOOLEAN
    BY NowFields, StateFields DEF Inv, NodeTypes
  <2>2. Len(node.history) <= MaxHistory BY DEF Inv, NodeTypes
  <2>3. LinkTypes BY DEF Inv
  <2> QED BY <2>1, <2>2, <2>3 DEF TypeOK, Node, Kept, Seqs, Buffered, LinkTypes
<1> QED BY <1>1, InvHolds, PTL

\* sparkplug.c:75: on a connection that has had its birth, with the host online and nothing
\* on its way to happen, no sample is left waiting in the buffer.
THEOREM NotStranded == Spec => []NothingStranded
<1>1. Inv => NothingStranded
  <2> SUFFICES ASSUME Inv, worker = "up", ~broken, ~wake, http = "idle", ~MustBuffer
               PROVE  node.history = <<>>
    BY DEF NothingStranded
  <2>1. node.birth_sent \in BOOLEAN /\ node.online \in BOOLEAN
    BY NowFields, StateFields DEF Inv, NodeTypes
  <2>2. node.birth_sent /\ node.online BY <2>1 DEF MustBuffer
  <2> QED BY <2>2 DEF Inv, BufferRight, Steady
<1> QED BY <1>1, InvHolds, PTL

\* sparkplug.h:39: a sample that Publish accepted is at the host, in the buffer, or was
\* overwritten or lost with the process, unless the connection went between the two looks.
THEOREM AcceptedKept == Spec => []AcceptedKeptUnlessSlipped
<1>1. Inv => AcceptedKeptUnlessSlipped
  BY NowFields DEF Inv, HeldRight, Held, AcceptedKeptUnlessSlipped
<1> QED BY <1>1, InvHolds, PTL

\* The host complains of nothing that settings do not explain, and no two sessions have the
\* same bdSeq unless a crash cut its file short.
THEOREM HostTrusts == Spec => []HostNotMisled
<1>1. Inv => HostNotMisled
  <2>1. Inv => HostAcceptsSettled BY NowFields DEF Inv, HostRight, Good, HostAcceptsSettled
  <2>2. Inv => BdSeqFresh
    <3>1. LinkTypes => torn \in BOOLEAN BY DEF LinkTypes
    <3> QED BY <3>1 DEF Inv, BdSeqRight, BdSeqFresh
  <2> QED BY <2>1, <2>2 DEF HostNotMisled
<1> QED BY <1>1, InvHolds, PTL
==============================================================================
