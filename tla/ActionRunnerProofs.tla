-------------------------- MODULE ActionRunnerProofs --------------------------
(***************************************************************************)
(* Proofs about the action executor, for all rules, action lists however   *)
(* deep their on_failure lists, delays, retries and interleavings of the   *)
(* two threads: types, the two globals (whose errors and verdicts they     *)
(* make), and the order and the data of the lists.                         *)
(***************************************************************************)
EXTENDS ActionRunner, FiniteSetTheorems, TLAPS

(***************************************************************************)
(* Frames and stacks.                                                      *)
(***************************************************************************)

\* A sequence with another first element.
LEMMA FirstReplaced ==
  ASSUME NEW S, NEW s \in Seq(S), s # <<>>, NEW g \in S, NEW u, u = <<g>> \o Tail(s)
  PROVE  /\ u \in Seq(S) /\ Len(u) = Len(s) /\ u[1] = g
         /\ \A k \in 2 .. Len(s) : u[k] = s[k]
<1>1. /\ Tail(s) \in Seq(S) /\ Len(Tail(s)) = Len(s) - 1 /\ Len(s) \in Nat \ {0}
      /\ \A k \in 1 .. Len(s) - 1 : Tail(s)[k] = s[k + 1]
  OBVIOUS
<1>2. <<g>> \in Seq(S) /\ Len(<<g>>) = 1 /\ <<g>>[1] = g OBVIOUS
<1>3. /\ u \in Seq(S) /\ Len(u) = Len(s) /\ u[1] = g
      /\ \A k \in 2 .. Len(s) : u[k] = Tail(s)[k - 1]
  BY <1>1, <1>2
<1> QED BY <1>1, <1>3

\* A sequence with an element put before it.
LEMMA Consed ==
  ASSUME NEW S, NEW s \in Seq(S), NEW g \in S, NEW u, u = <<g>> \o s
  PROVE  /\ u \in Seq(S) /\ Len(u) = Len(s) + 1 /\ u[1] = g
         /\ \A k \in 1 .. Len(s) : u[k + 1] = s[k]
<1>1. <<g>> \in Seq(S) /\ Len(<<g>>) = 1 /\ <<g>>[1] = g OBVIOUS
<1> QED BY <1>1

\* The first element and the rest.
LEMMA HeadAndTail ==
  ASSUME NEW S, NEW s \in Seq(S), s # <<>>
  PROVE  /\ Head(s) = s[1] /\ Head(s) \in S /\ Tail(s) \in Seq(S)
         /\ Len(s) \in Nat \ {0} /\ Len(Tail(s)) = Len(s) - 1
         /\ \A k \in 1 .. Len(s) - 1 : Tail(s)[k] = s[k + 1]
OBVIOUS

\* What changes of a frame on the stack.
LEMMA FrameMarked ==
  ASSUME NEW f \in Frames, NEW b \in BOOLEAN, NEW g,
         \/ g = [f EXCEPT !.crossed = b]
         \/ g = [f EXCEPT !.nested = b]
         \/ g = [f EXCEPT !.erred = b]
         \/ g = [f EXCEPT !.td = b]
  PROVE  /\ g \in Frames /\ g.run = f.run /\ g.ptr = f.ptr /\ g.acts = f.acts /\ g.i = f.i
         /\ g.attempt = f.attempt /\ g.kind = f.kind
         /\ (g.crossed = f.crossed \/ g.crossed = b) /\ (g.nested = f.nested \/ g.nested = b)
         /\ (g.erred = f.erred \/ g.erred = b) /\ (g.td = f.td \/ g.td = b)
BY DEF Frames

\* The four kinds of marks.
LEMMA FrameCrossed ==
  ASSUME NEW f \in Frames, NEW b \in BOOLEAN, NEW g, g = [f EXCEPT !.crossed = b]
  PROVE  /\ g.crossed = b /\ g.nested = f.nested /\ g.erred = f.erred /\ g.td = f.td
BY DEF Frames

LEMMA FrameNested ==
  ASSUME NEW f \in Frames, NEW b \in BOOLEAN, NEW g, g = [f EXCEPT !.nested = b]
  PROVE  /\ g.nested = b /\ g.crossed = f.crossed /\ g.erred = f.erred /\ g.td = f.td
BY DEF Frames

LEMMA FrameErred ==
  ASSUME NEW f \in Frames, NEW b \in BOOLEAN, NEW g, g = [f EXCEPT !.erred = b]
  PROVE  /\ g.erred = b /\ g.crossed = f.crossed /\ g.nested = f.nested /\ g.td = f.td
BY DEF Frames

LEMMA FrameTold ==
  ASSUME NEW f \in Frames, NEW b \in BOOLEAN, NEW g, g = [f EXCEPT !.td = b]
  PROVE  /\ g.td = b /\ g.crossed = f.crossed /\ g.nested = f.nested /\ g.erred = f.erred
BY DEF Frames

\* The call at another place of its list, with or without an error.
LEMMA FrameMoved ==
  ASSUME NEW f \in Frames, NEW i \in Nat \ {0}, NEW b \in BOOLEAN, NEW g,
         g = [f EXCEPT !.i = i, !.erred = b]
  PROVE  /\ g \in Frames /\ g.run = f.run /\ g.ptr = f.ptr /\ g.acts = f.acts /\ g.i = i
         /\ g.attempt = f.attempt /\ g.kind = f.kind /\ g.td = f.td
         /\ g.crossed = f.crossed /\ g.nested = f.nested /\ g.erred = b
BY DEF Frames
LEMMA FrameAt ==
  ASSUME NEW f \in Frames, NEW i \in Nat \ {0}, NEW g, g = [f EXCEPT !.i = i]
  PROVE  /\ g \in Frames /\ g.run = f.run /\ g.ptr = f.ptr /\ g.acts = f.acts /\ g.i = i
         /\ g.attempt = f.attempt /\ g.kind = f.kind /\ g.td = f.td
         /\ g.crossed = f.crossed /\ g.nested = f.nested /\ g.erred = f.erred
BY DEF Frames

\* A new call.
LEMMA FrameMade ==
  ASSUME NEW run \in Nat, NEW ptr \in Pointers, NEW acts \in Seq(Actions), NEW attempt \in Nat,
         NEW td \in BOOLEAN, NEW kind \in {"fire", "test", "failure", "copied", "resume"}, NEW f,
         f = Frame(run, ptr, acts, attempt, td, kind)
  PROVE  /\ f \in Frames /\ f.run = run /\ f.ptr = ptr /\ f.acts = acts /\ f.i = 1
         /\ f.attempt = attempt /\ f.td = td /\ f.kind = kind
         /\ f.erred = FALSE /\ f.crossed = FALSE /\ f.nested = FALSE
BY DEF Frame, Frames

\* The other thread is the other one.
LEMMA OtherIs ==
  ASSUME NEW t \in Threads
  PROVE  Other(t) \in Threads /\ Other(t) # t /\ \A u \in Threads : u # t => u = Other(t)
BY DEF Threads, Other

\* The same call at the same place, whatever disturbed it.
SameCall(g, f) ==
  /\ g \in Frames /\ g.run = f.run /\ g.ptr = f.ptr /\ g.acts = f.acts /\ g.i = f.i
  /\ g.attempt = f.attempt /\ g.td = f.td /\ g.kind = f.kind /\ g.erred = f.erred

\* P are the stacks with call f pushed on the calls below it on thread t.
HasPushed(P, t, f, below) ==
  /\ P \in [Threads -> Seq(Frames)] /\ Len(P[t]) = Len(below) + 1
  /\ SameCall(P[t][1], f) /\ (P[t][1].crossed <=> stack[Other(t)] # <<>>)
  /\ \A k \in 1 .. Len(below) :
       /\ SameCall(P[t][k + 1], below[k]) /\ P[t][k + 1].crossed = below[k].crossed
       /\ P[t][k + 1].nested <=> below[k].nested \/ f.ptr # below[k].ptr
  /\ \A u \in Threads \ {t} :
       /\ Len(P[u]) = Len(stack[u])
       /\ \A k \in 1 .. Len(stack[u]) : SameCall(P[u][k], stack[u][k]) /\ P[u][k].crossed

LEMMA PushedFacts ==
  ASSUME stack \in [Threads -> Seq(Frames)], NEW t \in Threads, NEW f \in Frames,
         NEW below \in Seq(Frames)
  PROVE  HasPushed(Pushed(t, f, below), t, f, below)
<1> DEFINE P == Pushed(t, f, below)
<1> DEFINE top == [f EXCEPT !.crossed = stack[Other(t)] # <<>>]
           N(k) == [below[k] EXCEPT !.nested = @ \/ f.ptr # below[k].ptr]
           rest == [k \in 1 .. Len(below) |-> N(k)]
           X(u) == [k \in 1 .. Len(stack[u]) |-> [stack[u][k] EXCEPT !.crossed = TRUE]]
<1>1. top \in Frames BY FrameMarked
<1>2. \A k \in 1 .. Len(below) : N(k) \in Frames
  <2>1. ASSUME NEW k \in 1 .. Len(below) PROVE N(k) \in Frames
    <3>1. below[k] \in Frames OBVIOUS
    <3> DEFINE b == below[k].nested \/ f.ptr # below[k].ptr
    <3>2. b \in BOOLEAN OBVIOUS
    <3>3. N(k) = [below[k] EXCEPT !.nested = b] OBVIOUS
    <3> HIDE DEF b, N
    <3> QED BY <3>1, <3>2, <3>3, FrameMarked
  <2> QED BY <2>1
<1>3. rest \in Seq(Frames) /\ Len(rest) = Len(below)
      /\ \A k \in 1 .. Len(below) : rest[k] = N(k)
  <2>1. Len(below) \in Nat OBVIOUS
  <2> HIDE DEF N
  <2> QED BY <1>2, <2>1
<1>4. P[t] = <<top>> \o rest BY DEF Pushed
<1>5. ASSUME NEW u \in Threads \ {t}
      PROVE  /\ P[u] \in Seq(Frames) /\ Len(P[u]) = Len(stack[u])
             /\ \A k \in 1 .. Len(stack[u]) : P[u][k] = [stack[u][k] EXCEPT !.crossed = TRUE]
  <2>1. P[u] = X(u) BY <1>5 DEF Pushed
  <2>2. stack[u] \in Seq(Frames) /\ Len(stack[u]) \in Nat
        /\ \A k \in 1 .. Len(stack[u]) : stack[u][k] \in Frames
    OBVIOUS
  <2>3. \A k \in 1 .. Len(stack[u]) : [stack[u][k] EXCEPT !.crossed = TRUE] \in Frames
    <3>1. ASSUME NEW f1 \in Frames PROVE [f1 EXCEPT !.crossed = TRUE] \in Frames
      BY FrameMarked
    <3> QED BY <2>2, <3>1
  <2> QED BY <2>1, <2>2, <2>3
<1> HIDE DEF top, rest, N
<1>6. /\ P[t] \in Seq(Frames) /\ Len(P[t]) = Len(rest) + 1 /\ P[t][1] = top
      /\ \A k \in 1 .. Len(rest) : P[t][k + 1] = rest[k]
  BY <1>1, <1>3, <1>4, Consed
<1>7. P \in [Threads -> Seq(Frames)] BY <1>5, <1>6 DEF Pushed
<1>8. SameCall(top, f) /\ (top.crossed <=> stack[Other(t)] # <<>>)
  BY DEF top, SameCall, Frames
<1>9. ASSUME NEW k \in 1 .. Len(below)
      PROVE  /\ SameCall(N(k), below[k]) /\ N(k).crossed = below[k].crossed
             /\ N(k).nested <=> below[k].nested \/ f.ptr # below[k].ptr
  <2>1. below[k] \in Frames OBVIOUS
  <2> QED BY <2>1 DEF N, SameCall, Frames
<1>10. ASSUME NEW u \in Threads \ {t}, NEW k \in 1 .. Len(stack[u])
       PROVE  SameCall(P[u][k], stack[u][k]) /\ P[u][k].crossed
  <2>1. stack[u][k] \in Frames OBVIOUS
  <2>2. P[u][k] = [stack[u][k] EXCEPT !.crossed = TRUE] BY <1>5
  <2> QED BY <2>1, <2>2 DEF SameCall, Frames
<1> HIDE DEF P
<1>11. HasPushed(P, t, f, below) BY <1>3, <1>5, <1>6, <1>7, <1>8, <1>9, <1>10 DEF HasPushed
<1> QED BY <1>11 DEF P
(***************************************************************************)
(* What a step of thread t leaves on its stack before it calls again.      *)
(***************************************************************************)

\* g is frame f later on: the same call, with no fewer marks.
Later(g, f) ==
  /\ g.ptr = f.ptr /\ g.kind = f.kind /\ (f.crossed => g.crossed) /\ (f.nested => g.nested)

\* The calls in b were on the stack, in this order; with an error (e) they all know of it.
Base(t, b, e) ==
  /\ b \in Seq(Frames) /\ Len(b) <= Len(stack[t])
  /\ \A k \in DOMAIN b : \E j \in DOMAIN stack[t] :
       /\ Len(stack[t]) - j = Len(b) - k /\ Later(b[k], stack[t][j])
       /\ b[k].erred = IF e THEN TRUE ELSE stack[t][j].erred

\* The innermost call and its frame.
LEMMA TopFacts ==
  ASSUME TypeOK, NEW t \in Threads, ~Idle(t)
  PROVE  /\ stack[t] \in Seq(Frames) /\ stack[t] # <<>> /\ Len(stack[t]) \in Nat \ {0}
         /\ 1 \in DOMAIN stack[t] /\ Top(t) = stack[t][1] /\ Top(t) \in Frames
         /\ Tail(stack[t]) \in Seq(Frames) /\ Len(Tail(stack[t])) = Len(stack[t]) - 1
         /\ \A k \in 1 .. Len(stack[t]) - 1 :
              k + 1 \in DOMAIN stack[t] /\ Tail(stack[t])[k] = stack[t][k + 1]
<1>1. stack[t] \in Seq(Frames) /\ stack[t] # <<>> BY DEF TypeOK, Idle
<1> QED BY <1>1, HeadAndTail DEF Top

\* The next action of a list that is not done.
LEMMA ActFacts ==
  ASSUME TypeOK, NEW t \in Threads, Ready(t)
  PROVE  /\ ~Idle(t) /\ Top(t) \in Frames /\ Top(t).i \in 1 .. Len(Top(t).acts)
         /\ Act(t) = Top(t).acts[Top(t).i] /\ Act(t) \in Actions
<1>1. ~Idle(t) /\ Top(t).i <= Len(Top(t).acts) BY DEF Ready
<1>2. Top(t) \in Frames BY <1>1, TopFacts
<1>3. Top(t).i \in Nat \ {0} /\ Top(t).acts \in Seq(Actions) BY <1>2 DEF Frames
<1> QED BY <1>1, <1>2, <1>3 DEF Act

\* The stack s with g as its innermost call; and with an error that the others heard of.
Plain(b, s, g) ==
  Len(b) = Len(s) /\ b[1] = g /\ \A k \in 2 .. Len(b) : b[k] = s[k]
AllErred(b, s, g) ==
  /\ Len(b) = Len(s) /\ b[1] = g
  /\ \A k \in 2 .. Len(b) : b[k] = [s[k] EXCEPT !.erred = TRUE]

\* The innermost call goes on.
LEMMA BaseReplaced ==
  ASSUME TypeOK, NEW t \in Threads, ~Idle(t), NEW g \in Frames, Later(g, Top(t)),
         g.erred = Top(t).erred, NEW b, b = <<g>> \o Tail(stack[t])
  PROVE  Base(t, b, FALSE) /\ Plain(b, stack[t], g)
<1>1. /\ stack[t] \in Seq(Frames) /\ stack[t] # <<>> /\ Len(stack[t]) \in Nat \ {0}
      /\ Top(t) = stack[t][1]
  BY TopFacts
<1>2. /\ b \in Seq(Frames) /\ Len(b) = Len(stack[t]) /\ b[1] = g
      /\ \A k \in 2 .. Len(stack[t]) : b[k] = stack[t][k]
  BY <1>1, FirstReplaced
<1>3. ASSUME NEW k \in DOMAIN b
      PROVE  \E j \in DOMAIN stack[t] :
               /\ Len(stack[t]) - j = Len(b) - k
               /\ Later(b[k], stack[t][j]) /\ b[k].erred = stack[t][j].erred
  <2>1. CASE k = 1 BY <1>1, <1>2, <2>1
  <2>2. CASE k # 1
    <3>1. k \in 2 .. Len(stack[t]) /\ k \in DOMAIN stack[t] BY <1>1, <1>2, <2>2
    <3> QED BY <1>2, <3>1 DEF Later
  <2> QED BY <2>1, <2>2
<1>4. b \in Seq(Frames) /\ Len(b) <= Len(stack[t]) BY <1>1, <1>2
<1>5. Base(t, b, FALSE)
  BY <1>3, <1>4 DEF Base
<1>6. Plain(b, stack[t], g) BY <1>1, <1>2 DEF Plain
<1> QED BY <1>5, <1>6

\* The innermost call goes on after an error that every call below it hears of.
LEMMA BaseErred ==
  ASSUME TypeOK, NEW t \in Threads, ~Idle(t), NEW g \in Frames, Later(g, Top(t)),
         g.erred = TRUE, NEW b, b = <<g>> \o Erred(Tail(stack[t]))
  PROVE  Base(t, b, TRUE) /\ AllErred(b, stack[t], g)
<1> DEFINE T == Tail(stack[t])
           E == Erred(T)
<1>1. /\ stack[t] \in Seq(Frames) /\ stack[t] # <<>> /\ Len(stack[t]) \in Nat \ {0}
      /\ Top(t) = stack[t][1]
      /\ T \in Seq(Frames) /\ Len(T) = Len(stack[t]) - 1
      /\ \A k \in 1 .. Len(stack[t]) - 1 : k + 1 \in DOMAIN stack[t] /\ T[k] = stack[t][k + 1]
  BY TopFacts
<1>2. ASSUME NEW f \in Frames, NEW h, h = [f EXCEPT !.erred = TRUE]
      PROVE  h \in Frames /\ Later(h, f) /\ h.erred = TRUE
  <2>1. TRUE \in BOOLEAN OBVIOUS
  <2>2. h \in Frames /\ h.ptr = f.ptr /\ h.kind = f.kind BY ZenonT(40), <1>2, <2>1, FrameMarked
  <2>3. h.erred = TRUE /\ h.crossed = f.crossed /\ h.nested = f.nested
    BY <1>2, <2>1, FrameErred
  <2> QED BY <2>2, <2>3 DEF Later
<1>3. /\ E \in Seq(Frames) /\ Len(E) = Len(stack[t]) - 1
      /\ \A k \in 1 .. Len(stack[t]) - 1 : E[k] = [stack[t][k + 1] EXCEPT !.erred = TRUE]
  <2> DEFINE N(k) == [T[k] EXCEPT !.erred = TRUE]
  <2>1. \A k \in 1 .. Len(T) : T[k] \in Frames BY <1>1
  <2>2. E = [k \in 1 .. Len(T) |-> N(k)] BY DEF Erred
  <2>3. \A k \in 1 .. Len(T) : N(k) \in Frames BY <1>2, <2>1
  <2>4. Len(T) \in Nat BY <1>1
  <2>5. \A k \in 1 .. Len(stack[t]) - 1 : N(k) = [stack[t][k + 1] EXCEPT !.erred = TRUE]
    BY <1>1
  <2> HIDE DEF E, N
  <2>6. E \in Seq(Frames) /\ Len(E) = Len(T) /\ \A k \in 1 .. Len(T) : E[k] = N(k)
    BY <2>2, <2>3, <2>4
  <2> QED BY <1>1, <2>5, <2>6
<1> HIDE DEF E, T
<1>4. /\ b \in Seq(Frames) /\ Len(b) = Len(E) + 1 /\ b[1] = g
      /\ \A k \in 1 .. Len(E) : b[k + 1] = E[k]
  BY <1>3, Consed DEF E, T
<1>5. \A k \in 2 .. Len(b) : b[k] = [stack[t][k] EXCEPT !.erred = TRUE]
  <2>1. ASSUME NEW k \in 2 .. Len(b) PROVE b[k] = [stack[t][k] EXCEPT !.erred = TRUE]
    <3>1. k - 1 \in 1 .. Len(E) /\ k = (k - 1) + 1 /\ k - 1 \in 1 .. Len(stack[t]) - 1
      BY <1>1, <1>3, <1>4
    <3> QED BY <1>3, <1>4, <3>1, SMTT(60)
  <2> QED BY <2>1
<1>6. ASSUME NEW k \in DOMAIN b
      PROVE  \E j \in DOMAIN stack[t] :
               /\ Len(stack[t]) - j = Len(b) - k
               /\ Later(b[k], stack[t][j]) /\ b[k].erred = TRUE
  <2>0. Len(b) = Len(stack[t]) BY <1>1, <1>3, <1>4
  <2>1. CASE k = 1
    <3>1. Len(stack[t]) - 1 = Len(b) - k /\ 1 \in DOMAIN stack[t] BY <1>1, <2>0, <2>1
    <3>2. b[k] = g /\ Top(t) = stack[t][1] BY <1>1, <1>4, <2>1
    <3> QED BY <3>1, <3>2
  <2>2. CASE k # 1
    <3>1. k \in 2 .. Len(b) /\ k \in DOMAIN stack[t] BY <1>1, <1>3, <1>4, <2>2
    <3>2. stack[t][k] \in Frames BY <1>1, <3>1
    <3> QED BY <1>2, <1>5, <2>0, <3>1, <3>2
  <2> QED BY <2>1, <2>2
<1>7. Len(b) = Len(stack[t]) BY <1>1, <1>3, <1>4
<1>8. Base(t, b, TRUE)
  <2>1. b \in Seq(Frames) /\ Len(b) <= Len(stack[t]) BY <1>1, <1>4, <1>7
  <2> QED BY <1>6, <2>1 DEF Base
<1>9. AllErred(b, stack[t], g) BY <1>4, <1>5, <1>7 DEF AllErred
<1> QED BY <1>8, <1>9

\* The innermost call has returned.
LEMMA BaseReturned ==
  ASSUME TypeOK, NEW t \in Threads, ~Idle(t)
  PROVE  Base(t, Tail(stack[t]), FALSE)
<1> DEFINE T == Tail(stack[t])
<1>1. /\ Len(stack[t]) \in Nat \ {0}
      /\ T \in Seq(Frames) /\ Len(T) = Len(stack[t]) - 1
      /\ \A k \in 1 .. Len(stack[t]) - 1 : k + 1 \in DOMAIN stack[t] /\ T[k] = stack[t][k + 1]
  BY TopFacts
<1> HIDE DEF T
<1>2. ASSUME NEW k \in DOMAIN T
      PROVE  \E j \in DOMAIN stack[t] :
               /\ Len(stack[t]) - j = Len(T) - k
               /\ Later(T[k], stack[t][j]) /\ T[k].erred = stack[t][j].erred
  <2>1. k \in 1 .. Len(stack[t]) - 1 BY <1>1
  <2>2. Len(stack[t]) - (k + 1) = Len(T) - k BY <1>1, <2>1
  <2> QED BY <1>1, <2>1, <2>2 DEF Later
<1>3. Len(T) <= Len(stack[t]) BY <1>1
<1>4. Base(t, T, FALSE) BY <1>1, <1>2, <1>3 DEF Base
<1> QED BY <1>4 DEF T

\* The stack s without its innermost call, d left to the call below.
HandedOn(b, s, d) ==
  /\ Len(b) = Len(s) - 1 /\ b[1] = [s[2] EXCEPT !.td = d]
  /\ \A k \in 2 .. Len(b) : b[k] = s[k + 1]

\* It has returned and left its trigger data to the call below.
LEMMA BaseHandedOn ==
  ASSUME TypeOK, NEW t \in Threads, ~Idle(t), Tail(stack[t]) # <<>>, NEW d \in BOOLEAN,
         NEW b, b = <<[Head(Tail(stack[t])) EXCEPT !.td = d]>> \o Tail(Tail(stack[t]))
  PROVE  Base(t, b, FALSE) /\ HandedOn(b, stack[t], d)
<1> DEFINE T == Tail(stack[t])
<1>1. /\ stack[t] \in Seq(Frames) /\ stack[t] # <<>> /\ Len(stack[t]) \in Nat \ {0}
      /\ T \in Seq(Frames) /\ Len(T) = Len(stack[t]) - 1 /\ T # <<>>
      /\ \A k \in 1 .. Len(stack[t]) - 1 : k + 1 \in DOMAIN stack[t] /\ T[k] = stack[t][k + 1]
      /\ b = <<[Head(T) EXCEPT !.td = d]>> \o Tail(T)
  BY TopFacts
<1> HIDE DEF T
<1>2. Head(T) = T[1] /\ T[1] \in Frames /\ Len(T) \in Nat \ {0} /\ T[1] = stack[t][2]
  BY <1>1, HeadAndTail
<1> DEFINE g == [T[1] EXCEPT !.td = d]
<1>3. g \in Frames /\ Later(g, T[1]) /\ g.erred = T[1].erred
  BY <1>2, FrameMarked, FrameTold DEF Later
<1>4. b = <<g>> \o Tail(T) BY <1>1, <1>2
<1>5. g = [stack[t][2] EXCEPT !.td = d] BY <1>2
<1> HIDE DEF g
<1>6. /\ b \in Seq(Frames) /\ Len(b) = Len(T) /\ b[1] = g
      /\ \A k \in 2 .. Len(T) : b[k] = T[k]
  <2>1. T \in Seq(Frames) /\ T # <<>> /\ g \in Frames BY <1>1, <1>3
  <2>2. ASSUME NEW c \in Seq(Frames), c # <<>>, NEW u, u = <<g>> \o Tail(c)
        PROVE  /\ u \in Seq(Frames) /\ Len(u) = Len(c) /\ u[1] = g
               /\ \A k \in 2 .. Len(c) : u[k] = c[k]
    BY <2>1, <2>2, FirstReplaced
  <2> QED BY <1>4, <2>1, <2>2
<1>7. ASSUME NEW k \in DOMAIN b
      PROVE  \E j \in DOMAIN stack[t] :
               /\ Len(stack[t]) - j = Len(b) - k
               /\ Later(b[k], stack[t][j]) /\ b[k].erred = stack[t][j].erred
  <2>0. k \in 1 .. Len(T) BY <1>2, <1>6
  <2>1. k \in 1 .. Len(T) /\ k + 1 \in DOMAIN stack[t] /\ T[k] = stack[t][k + 1]
    BY <1>1, <2>0
  <2>2. Later(b[k], T[k]) /\ b[k].erred = T[k].erred
    <3>1. CASE k = 1 BY <1>3, <1>6, <3>1
    <3>2. CASE k # 1
      <4>1. k \in 2 .. Len(T) BY <1>2, <2>0, <3>2
      <4> QED BY <1>6, <4>1 DEF Later
    <3> QED BY <3>1, <3>2
  <2>3. Len(stack[t]) - (k + 1) = Len(b) - k
    <3>1. \A n \in Nat, i \in Int : n - (i + 1) = (n - 1) - i OBVIOUS
    <3>2. k \in Int BY <2>0
    <3>3. Len(b) = Len(stack[t]) - 1 BY <1>1, <1>6
    <3> QED BY Zenon, <1>1, <3>1, <3>2, <3>3
  <2> QED BY <2>1, <2>2, <2>3
<1>8. Len(b) = Len(stack[t]) - 1 BY <1>1, <1>6
<1>9. \A k \in 2 .. Len(b) : b[k] = stack[t][k + 1] BY <1>1, <1>6
<1>10. Base(t, b, FALSE)
  <2>1. \A n \in Nat : n - 1 <= n OBVIOUS
  <2>2. Len(b) <= Len(stack[t]) BY Zenon, <1>1, <1>8, <2>1
  <2> QED BY <1>6, <1>7, <2>2 DEF Base
<1>11. HandedOn(b, stack[t], d) BY <1>5, <1>6, <1>8, <1>9 DEF HandedOn
<1> QED BY <1>10, <1>11

(***************************************************************************)
(* Types.                                                                  *)
(***************************************************************************)

\* What becomes of a request.
Results == [took : BOOLEAN, error : BOOLEAN, failed : BOOLEAN]

LEMMA BasicResults ==
  /\ \A b \in BOOLEAN : Took(b) \in Results
  /\ Done \in Results /\ Ignored \in Results /\ Errs \in Results
  /\ [Errs EXCEPT !.failed = TRUE] \in Results
  /\ \A o \in Results, b \in BOOLEAN : [o EXCEPT !.error = b] \in Results
BY DEF Results, Took, Done, Ignored, Errs

LEMMA Answers ==
  ASSUME NEW q \in Request
  PROVE  /\ q.complete \in BOOLEAN /\ q.shot \in BOOLEAN /\ q.attach \in BOOLEAN
         /\ (q.reply = "ok") \in BOOLEAN /\ [q EXCEPT !.complete = TRUE] \in Request
BY DEF Request

\* Messages to other systems.
LEMMA MessageResults ==
  ASSUME NEW q \in Request
  PROVE  /\ HttpRequest(q) \in Results /\ MqttPublish(q) \in Results
         /\ SparkplugPublish(q) \in Results /\ SlackWebhook(q) \in Results
         /\ TeamsWebhook(q) \in Results /\ Telegram(q) \in Results
         /\ InfluxdbWrite(q) \in Results /\ Email(q) \in Results
         /\ FtpUpload(q) \in Results /\ SnapshotUpload(q) \in Results
<1> USE BasicResults, Answers
<1>1. HttpRequest(q) \in Results BY DEF HttpRequest
<1>2. MqttPublish(q) \in Results BY DEF MqttPublish
<1>3. SparkplugPublish(q) \in Results BY DEF SparkplugPublish
<1>4. ChatPost(q) \in Results BY DEF ChatPost
<1>5. Telegram(q) \in Results BY <1>4 DEF Telegram
<1>6. InfluxdbWrite(q) \in Results BY DEF InfluxdbWrite
<1>7. Email(q) \in Results
  <2>1. (q.attach /\ ~q.shot) \in BOOLEAN OBVIOUS
  <2> QED BY <2>1 DEF Email
<1>8. FtpUpload(q) \in Results /\ SnapshotUpload(q) \in Results
  <2>1. (q.complete /\ q.shot /\ q.reply = "ok") \in BOOLEAN OBVIOUS
  <2> QED BY <2>1 DEF FtpUpload, SnapshotUpload
<1> QED BY <1>1, <1>2, <1>3, <1>4, <1>5, <1>6, <1>7, <1>8 DEF SlackWebhook, TeamsWebhook

\* Requests to this or another device.
LEMMA DeviceResults ==
  ASSUME NEW q \in Request
  PROVE  /\ PtzPreset(q) \in Results /\ AudioClip(q) \in Results /\ SirenLight(q) \in Results
         /\ GuardTour(q) \in Results /\ PrivacyMask(q) \in Results
         /\ SetDeviceParam(q) \in Results /\ IrCutFilter(q) \in Results
         /\ SpeakerDisplay(q) \in Results /\ Wiper(q) \in Results /\ AcapControl(q) \in Results
         /\ ModbusWrite(q) \in Results /\ PagingConsoleExecute(q) \in Results
         /\ PagingConsoleButton(q) \in Results /\ FireVapixEvent(q) \in Results
         /\ SendSyslog(q) \in Results
<1> USE BasicResults, Answers
<1>1. \A r \in Request : Vapix(r) \in Results
  <2>1. ASSUME NEW r \in Request PROVE Vapix(r) \in Results
    <3>1. (r.complete /\ r.reply = "ok") \in BOOLEAN OBVIOUS
    <3> QED BY <3>1 DEF Vapix
  <2> QED BY <2>1
<1>2. PtzPreset(q) \in Results BY <1>1 DEF PtzPreset
<1>3. PagingConsoleExecute(q) \in Results BY DEF PagingConsoleExecute
<1>4. PagingConsoleButton(q) \in Results BY DEF PagingConsoleButton
<1>5. FireVapixEvent(q) \in Results BY DEF FireVapixEvent
<1>6. SendSyslog(q) \in Results BY DEF SendSyslog
<1> QED BY <1>1, <1>2, <1>3, <1>4, <1>5, <1>6
    DEF AudioClip, SirenLight, GuardTour, PrivacyMask, SetDeviceParam, IrCutFilter,
        SpeakerDisplay, Wiper, AcapControl, ModbusWrite

LEMMA OutcomeFacts ==
  ASSUME NEW type \in Handlers, NEW q \in Request
  PROVE  /\ Outcome(type, q).error \in BOOLEAN /\ Outcome(type, q).failed \in BOOLEAN
<1>1. Outcome(type, q) \in Results BY MessageResults, DeviceResults DEF Outcome, Handlers
<1> QED BY <1>1 DEF Results

\* The histories keep their type.
LEMMA NoteTyped ==
  ASSUME TypeOK, NEW f \in Frames, NEW a \in Actions, NEW d \in BOOLEAN, NEW e \in BOOLEAN,
         NEW rs, rs = Note(f, a, d, e)
  PROVE  /\ rs \in Seq(Runs) /\ DOMAIN rs = DOMAIN runs
         /\ \A n \in DOMAIN runs : n # f.run => rs[n] = runs[n]
         /\ f.run = NoRun => rs = runs
         /\ f.run \in DOMAIN runs =>
              /\ rs[f.run].rule = runs[f.run].rule
              /\ rs[f.run].did = Append(runs[f.run].did, [tag |-> a.tag, td |-> d])
              /\ rs[f.run].failed = runs[f.run].failed \cup (IF e THEN {a.tag} ELSE {})
<1>1. runs \in Seq(Runs) /\ a.tag \in Names BY DEF TypeOK, Names
<1> DEFINE new(r) == [r EXCEPT !.did = Append(@, [tag |-> a.tag, td |-> d]),
                               !.failed = IF e THEN @ \cup {a.tag} ELSE @]
<1>2. ASSUME NEW r \in Runs
      PROVE  /\ new(r) \in Runs /\ new(r).rule = r.rule
             /\ new(r).did = Append(r.did, [tag |-> a.tag, td |-> d])
             /\ new(r).failed = r.failed \cup (IF e THEN {a.tag} ELSE {})
  <2>1. [tag |-> a.tag, td |-> d] \in [tag : Names, td : BOOLEAN] BY <1>1
  <2>2. r.did \in Seq([tag : Names, td : BOOLEAN]) BY DEF Runs
  <2>3. Append(r.did, [tag |-> a.tag, td |-> d]) \in Seq([tag : Names, td : BOOLEAN])
    BY <2>1, <2>2
  <2> QED BY <1>1, <2>3 DEF Runs
<1>3. /\ f.run = NoRun => rs = runs
      /\ f.run # NoRun => rs = [runs EXCEPT ![f.run] = new(runs[f.run])]
  BY DEF Note
<1>4. f.run \in DOMAIN runs => runs[f.run] \in Runs BY <1>1
<1> HIDE DEF new
<1>5. NoRun \notin DOMAIN runs BY <1>1 DEF NoRun
<1>6. /\ DOMAIN rs = DOMAIN runs
      /\ \A n \in DOMAIN runs : rs[n] = IF n = f.run THEN new(runs[n]) ELSE runs[n]
  BY <1>3, <1>5
<1>7. rs \in Seq(Runs)
  <2>1. \A n \in DOMAIN runs : rs[n] \in Runs BY <1>1, <1>2, <1>6
  <2>2. DOMAIN runs = 1 .. Len(runs) /\ Len(runs) \in Nat BY <1>1
  <2>3. rs = [n \in 1 .. Len(runs) |-> rs[n]]
    <3>1. CASE f.run = NoRun BY <1>1, <1>3, <3>1
    <3>2. CASE f.run # NoRun BY <1>3, <2>2, <3>2
    <3> QED BY <3>1, <3>2
  <2> QED BY <1>6, <2>1, <2>2, <2>3
<1> QED BY <1>1, <1>2, <1>3, <1>4, <1>6, <1>7

\* What a step of thread t does to the stacks and the globals: the innermost call goes on
\* or returns, or a call is made; with an error, everything on the stack hears of it.
Moves(t) ==
  \E b \in Seq(Frames), e \in BOOLEAN :
    /\ Base(t, b, e)
    /\ \/ stack' = [stack EXCEPT ![t] = b] /\ cur' = cur
       \/ \E f \in Frames :
            f.kind # "test" /\ (f.kind = "failure" => b # <<>>) /\ Call(t, f, b)
    /\ IF e THEN ~Idle(t) /\ ActionError(t, Top(t)) ELSE UNCHANGED <<gerr, strayed>>

LEMMA MovesTyped ==
  ASSUME TypeOK, NEW t \in Threads, Moves(t)
  PROVE  /\ stack' \in [Threads -> Seq(Frames)] /\ cur' \in Pointers /\ gerr' \in BOOLEAN
         /\ strayed' \subseteq {"action", "digest"}
<1>1. PICK b \in Seq(Frames), e \in BOOLEAN :
        /\ \/ stack' = [stack EXCEPT ![t] = b] /\ cur' = cur
           \/ \E f \in Frames : Call(t, f, b)
        /\ IF e THEN ActionError(t, Top(t)) ELSE UNCHANGED <<gerr, strayed>>
  BY DEF Moves
<1>2. stack \in [Threads -> Seq(Frames)] /\ cur \in Pointers /\ gerr \in BOOLEAN
      /\ strayed \subseteq {"action", "digest"}
  BY DEF TypeOK
<1>3. gerr' \in BOOLEAN /\ strayed' \subseteq {"action", "digest"}
  <2>1. CASE e BY <1>1, <1>2, <2>1 DEF ActionError
  <2>2. CASE ~e BY <1>1, <1>2, <2>2
  <2> QED BY <2>1, <2>2
<1>4. CASE stack' = [stack EXCEPT ![t] = b] /\ cur' = cur BY <1>2, <1>3, <1>4
<1>5. ASSUME NEW f \in Frames, Call(t, f, b)
      PROVE  stack' \in [Threads -> Seq(Frames)] /\ cur' \in Pointers
  <2>1. stack' = Pushed(t, f, b) /\ cur' = f.ptr BY <1>5 DEF Call
  <2>2. Pushed(t, f, b) \in [Threads -> Seq(Frames)] BY <1>2, PushedFacts DEF HasPushed
  <2>3. f.ptr \in Pointers BY DEF Frames
  <2> QED BY <2>1, <2>2, <2>3
<1> QED BY <1>1, <1>3, <1>4, <1>5

\* The rest of a list.
LEMMA RestFacts ==
  ASSUME NEW f \in Frames, NEW from \in 1 .. Len(f.acts) + 1, NEW s, s = Rest(f, from)
  PROVE  /\ s \in Seq(Actions) /\ Len(s) = Len(f.acts) - from + 1
         /\ \A k \in 1 .. Len(s) : s[k] = f.acts[from + k - 1]
<1>1. f.acts \in Seq(Actions) BY DEF Frames
<1>2. ASSUME NEW c \in Seq(Actions), NEW i \in 1 .. Len(c) + 1, NEW u, u = SubSeq(c, i, Len(c))
      PROVE  /\ u \in Seq(Actions) /\ Len(u) = Len(c) - i + 1
             /\ \A k \in 1 .. Len(u) : u[k] = c[i + k - 1]
  BY <1>2
<1> QED BY <1>1, <1>2 DEF Rest

\* The rest of the innermost list goes into a timer.
LEMMA PostponeFacts ==
  ASSUME TypeOK, NEW t \in Threads, ~Idle(t), NEW acts \in Seq(Actions), NEW attempt \in Nat,
         NEW left \in Nat, Postpone(t, Top(t), acts, attempt, left), NEW b, NEW g,
         g = [Top(t) EXCEPT !.i = Len(Top(t).acts) + 1], b = <<g>> \o Tail(stack[t])
  PROVE  /\ timers' \subseteq Timers /\ stack' = [stack EXCEPT ![t] = b]
         /\ g \in Frames /\ Later(g, Top(t)) /\ g.erred = Top(t).erred
         /\ Base(t, b, FALSE)
<1>1. Top(t) \in Frames BY TopFacts
<1>2. Len(Top(t).acts) + 1 \in Nat \ {0} BY <1>1 DEF Frames
<1>3. g \in Frames /\ Later(g, Top(t)) /\ g.erred = Top(t).erred
  BY <1>1, <1>2, FrameAt DEF Later
<1>4. Base(t, b, FALSE) BY <1>3, BaseReplaced
<1>5. stack' = [stack EXCEPT ![t] = b] BY DEF Postpone
<1>6. [run |-> Top(t).run, rule |-> Top(t).ptr.rule, acts |-> acts, attempt |-> attempt,
       td |-> Top(t).td, left |-> left] \in Timers
  <2>1. Top(t).run \in Nat /\ Top(t).ptr.rule \in RuleIds /\ Top(t).td \in BOOLEAN
    BY <1>1 DEF Frames, Pointers
  <2> QED BY <2>1 DEF Timers
<1>7. timers \subseteq Timers BY DEF TypeOK
<1>8. timers' \subseteq Timers BY <1>6, <1>7 DEF Postpone
<1> QED BY <1>3, <1>4, <1>5, <1>8

\* A step that only goes on.
LEMMA MovesOn ==
  ASSUME TypeOK, NEW t \in Threads, ~Idle(t), NEW g \in Frames, Later(g, Top(t)),
         g.erred = Top(t).erred, stack' = [stack EXCEPT ![t] = <<g>> \o Tail(stack[t])],
         cur' = cur, UNCHANGED <<gerr, strayed>>
  PROVE  Moves(t)
<1> DEFINE b == <<g>> \o Tail(stack[t])
<1>1. Base(t, b, FALSE) BY BaseReplaced
<1>2. b \in Seq(Frames) BY <1>1 DEF Base
<1> QED BY <1>1, <1>2 DEF Moves

\* A call at the next action.
LEMMA NextAction ==
  ASSUME TypeOK, NEW t \in Threads, ~Idle(t), NEW g, g = [Top(t) EXCEPT !.i = @ + 1]
  PROVE  /\ g \in Frames /\ Later(g, Top(t)) /\ g.erred = Top(t).erred /\ g.td = Top(t).td
         /\ g.run = Top(t).run /\ g.acts = Top(t).acts /\ g.i = Top(t).i + 1
<1>1. Top(t) \in Frames /\ Top(t).i \in Nat \ {0} BY TopFacts DEF Frames
<1>2. Top(t).i + 1 \in Nat \ {0} BY <1>1
<1> QED BY <1>1, <1>2, FrameAt DEF Later

\* The parts of TypeOK a step of a list may change besides the stacks and the globals.
OthersTyped ==
  /\ timers' \subseteq Timers /\ enabled' \subseteq Rules
  /\ DOMAIN digest' \subseteq Rules /\ digest' \in [DOMAIN digest' -> Buffer]
  /\ IsFiniteSet(DOMAIN digest') /\ Cardinality(DOMAIN digest') <= MAX_DIGEST_BUFFERS
  /\ calls' \in 0..MaxFires /\ runs' \in Seq(Runs)
  /\ tests' \in Seq([erred : BOOLEAN, failed : BOOLEAN, crossed : BOOLEAN])

LEMMA DelayTyped ==
  ASSUME TypeOK, NEW t \in Threads, DoDelay(t)
  PROVE  Moves(t) /\ OthersTyped
<1> DEFINE f == Top(t)
           g == [Top(t) EXCEPT !.i = Len(Top(t).acts) + 1]
           rest == Rest(f, f.i + 1)
           left == Longer(Act(t).seconds)
<1>1. /\ ~Idle(t) /\ Top(t) \in Frames /\ Top(t).i \in 1 .. Len(Top(t).acts)
      /\ Act(t) \in Actions
  BY ActFacts DEF DoDelay
<1>2. f.td \in BOOLEAN BY <1>1 DEF Frames
<1>3. rest \in Seq(Actions)
  <2>1. f.i + 1 \in 1 .. Len(f.acts) + 1 BY <1>1
  <2> QED BY <1>1, <2>1, RestFacts
<1>4. left \in Nat BY <1>1, ActionParams DEF Longer
<1>5. Postpone(t, Top(t), rest, 0, left) BY DEF DoDelay
<1>6. cur' = cur /\ UNCHANGED <<gerr, enabled, digest, calls, strayed, tests>>
      /\ runs' = Note(Top(t), Act(t), Top(t).td, FALSE)
  BY DEF DoDelay
<1> HIDE DEF rest, left
<1>7. /\ timers' \subseteq Timers /\ stack' = [stack EXCEPT ![t] = <<g>> \o Tail(stack[t])]
      /\ g \in Frames /\ Later(g, Top(t)) /\ g.erred = Top(t).erred
  BY <1>1, <1>3, <1>4, <1>5, PostponeFacts
<1>8. Moves(t) BY <1>1, <1>6, <1>7, MovesOn
<1>9. runs' \in Seq(Runs)
  <2>1. FALSE \in BOOLEAN OBVIOUS
  <2> QED BY <1>1, <1>2, <1>6, <2>1, NoteTyped
<1> QED BY <1>6, <1>7, <1>8, <1>9 DEF TypeOK, OthersTyped

\* The tail of a request.
LEMMA FinishFacts ==
  ASSUME TypeOK, NEW t \in Threads, Ready(t), NEW out, out.error \in BOOLEAN,
         out.failed \in BOOLEAN, NEW kind \in {"failure", "copied"},
         Finish(t, Top(t), Act(t), out, kind)
  PROVE  Moves(t) /\ runs' \in Seq(Runs)
<1> DEFINE f == Top(t)
           a == Act(t)
           next == [f EXCEPT !.i = @ + 1, !.erred = @ \/ out.error]
           rest == IF out.error THEN Erred(Tail(stack[t])) ELSE Tail(stack[t])
           fall == Frame(f.run, f.ptr, a.onFailure, 0, f.td, kind)
           b == <<next>> \o rest
           called == out.failed /\ a.onFailure # <<>>
<1>1. /\ ~Idle(t) /\ f \in Frames /\ f.i \in 1 .. Len(f.acts) /\ a \in Actions
  BY ActFacts
<1>2. f.td \in BOOLEAN /\ f.erred \in BOOLEAN /\ f.run \in Nat /\ f.ptr \in Pointers
      /\ f.i + 1 \in Nat \ {0}
  BY <1>1 DEF Frames
<1>3. a.onFailure \in Seq(Actions) BY <1>1, ActionParams
<1>4. fall \in Frames /\ fall.kind = kind
  <2>1. 0 \in Nat /\ kind \in {"fire", "test", "failure", "copied", "resume"} OBVIOUS
  <2>2. fall = Frame(f.run, f.ptr, a.onFailure, 0, f.td, kind) OBVIOUS
  <2> HIDE DEF f, a, fall
  <2> QED BY <1>2, <1>3, <2>1, <2>2 DEF Frame, Frames
<1>5. next \in Frames /\ Later(next, f) /\ next.erred = (f.erred \/ out.error)
  <2>1. (f.erred \/ out.error) \in BOOLEAN BY <1>2
  <2> DEFINE e == f.erred \/ out.error
  <2>2. next = [f EXCEPT !.i = f.i + 1, !.erred = e] /\ e \in BOOLEAN BY <2>1
  <2> HIDE DEF f, next, e
  <2>3. next \in Frames /\ Later(next, f) /\ next.erred = e
    BY <1>1, <1>2, <2>2 DEF Later, Frames
  <2> QED BY <2>3 DEF e
<1>6. /\ IF called THEN Call(t, fall, b)
                   ELSE stack' = [stack EXCEPT ![t] = b] /\ cur' = cur
      /\ IF out.error THEN ActionError(t, f) ELSE UNCHANGED <<gerr, strayed>>
      /\ runs' = Note(f, a, f.td, out.failed)
  BY DEF Finish
<1>7. rest = IF out.error THEN Erred(Tail(stack[t])) ELSE Tail(stack[t]) OBVIOUS
<1>8. b = <<next>> \o rest OBVIOUS
<1> HIDE DEF next, rest, fall, b, called, f, a
<1>9. Base(t, b, out.error)
  <2>1. CASE out.error
    <3>1. next.erred = TRUE BY <1>2, <1>5, <2>1
    <3>2. b = <<next>> \o Erred(Tail(stack[t])) BY <1>7, <1>8, <2>1
    <3>3. Base(t, b, TRUE) BY <1>1, <1>5, <3>1, <3>2, BaseErred DEF f
    <3> QED BY <2>1, <3>3
  <2>2. CASE ~out.error
    <3>1. next.erred = f.erred BY <1>2, <1>5, <2>2
    <3>2. b = <<next>> \o Tail(stack[t]) BY <1>7, <1>8, <2>2
    <3>3. Base(t, b, FALSE) BY <1>1, <1>5, <3>1, <3>2, BaseReplaced DEF f
    <3>4. out.error = FALSE BY <2>2
    <3> QED BY <3>3, <3>4
  <2> QED BY <2>1, <2>2
<1>10. b \in Seq(Frames) BY <1>9 DEF Base
<1>11. Moves(t)
  <2>1. /\ \/ stack' = [stack EXCEPT ![t] = b] /\ cur' = cur
           \/ \E h \in Frames :
                h.kind # "test" /\ (h.kind = "failure" => b # <<>>) /\ Call(t, h, b)
    <3>1. b # <<>> BY <1>8, <1>5, <1>9 DEF Base
    <3> QED BY <1>4, <1>6, <3>1
  <2>2. IF out.error THEN ~Idle(t) /\ ActionError(t, Top(t)) ELSE UNCHANGED <<gerr, strayed>>
    BY <1>1, <1>6 DEF f
  <2> QED BY <1>9, <1>10, <2>1, <2>2 DEF Moves
<1>12. runs' \in Seq(Runs) BY <1>1, <1>2, <1>6, NoteTyped
<1> QED BY <1>11, <1>12

LEMMA RequestTyped ==
  ASSUME TypeOK, NEW t \in Threads, DoRequest(t)
  PROVE  Moves(t) /\ OthersTyped
<1>1. /\ Ready(t) /\ Act(t).type \in Handlers
      /\ UNCHANGED <<timers, enabled, digest, calls, tests>>
  BY DEF DoRequest
<1>2. PICK q \in Request : Finish(t, Top(t), Act(t), Outcome(Act(t).type, q), "failure")
  BY DEF DoRequest
<1>3. Outcome(Act(t).type, q).error \in BOOLEAN /\ Outcome(Act(t).type, q).failed \in BOOLEAN
  BY <1>1, OutcomeFacts
<1>4. "failure" \in {"failure", "copied"} OBVIOUS
<1>5. Moves(t) /\ runs' \in Seq(Runs) BY <1>1, <1>2, <1>3, <1>4, FinishFacts
<1> QED BY <1>1, <1>5 DEF TypeOK, OthersTyped

LEMMA AlpvTyped ==
  ASSUME TypeOK, NEW t \in Threads, DoAlpv(t)
  PROVE  Moves(t) /\ OthersTyped
<1> DEFINE again == AttemptOf(Top(t)) + 1
           rest == Rest(Top(t), Top(t).i)
           g == [Top(t) EXCEPT !.i = Len(Top(t).acts) + 1]
<1>1. Ready(t) /\ UNCHANGED <<enabled, digest, calls, tests>> BY DEF DoAlpv
<1>2. ~Idle(t) /\ Top(t) \in Frames /\ Top(t).i \in 1 .. Len(Top(t).acts) BY <1>1, ActFacts
<1>3. again \in Nat BY <1>2 DEF AttemptOf, Frames
<1>4. rest \in Seq(Actions)
  <2>1. Top(t).i \in 1 .. Len(Top(t).acts) + 1 BY <1>2
  <2> QED BY <1>2, <2>1, RestFacts
<1>5. \/ Postpone(t, Top(t), rest, again, 1) /\ UNCHANGED <<cur, gerr, runs, strayed>>
      \/ /\ \E q \in Request : Finish(t, Top(t), Act(t), HttpRequest(q), "copied")
         /\ timers' = timers
  BY DEF DoAlpv
<1> HIDE DEF again, rest
<1>6. CASE Postpone(t, Top(t), rest, again, 1) /\ UNCHANGED <<cur, gerr, runs, strayed>>
  <2>1. 1 \in Nat OBVIOUS
  <2>2. /\ timers' \subseteq Timers /\ stack' = [stack EXCEPT ![t] = <<g>> \o Tail(stack[t])]
        /\ g \in Frames /\ Later(g, Top(t)) /\ g.erred = Top(t).erred
    BY <1>2, <1>3, <1>4, <1>6, <2>1, PostponeFacts
  <2>3. Moves(t) BY <1>2, <1>6, <2>2, MovesOn
  <2> QED BY <1>1, <1>6, <2>2, <2>3 DEF TypeOK, OthersTyped
<1>7. ASSUME NEW q \in Request, Finish(t, Top(t), Act(t), HttpRequest(q), "copied"),
             timers' = timers
      PROVE  Moves(t) /\ OthersTyped
  <2>1. HttpRequest(q).error \in BOOLEAN /\ HttpRequest(q).failed \in BOOLEAN
    BY MessageResults DEF Results
  <2>2. "copied" \in {"failure", "copied"} OBVIOUS
  <2>3. Moves(t) /\ runs' \in Seq(Runs) BY <1>1, <1>7, <2>1, <2>2, FinishFacts
  <2> QED BY <1>1, <1>7, <2>3 DEF TypeOK, OthersTyped
<1> QED BY <1>5, <1>6, <1>7

\* A rule is fired.
LEMMA ExecuteTyped ==
  ASSUME TypeOK, NEW t \in Threads, NEW done \in Seq(Runs), NEW r \in Rules, NEW below,
         Base(t, below, FALSE), Execute(t, done, r, below), UNCHANGED <<gerr, strayed>>
  PROVE  Moves(t) /\ runs' \in Seq(Runs)
<1> DEFINE n == Len(done) + 1
           ptr == Pointer(n, r, Program[r], 0)
           f == Frame(n, ptr, Program[r], 0, FALSE, "fire")
<1>1. n \in Nat /\ Program[r] \in Seq(Actions) /\ r \in RuleIds
  BY ProgramParams DEF RuleIds
<1>2. ptr \in Pointers BY <1>1 DEF Pointer, Pointers
<1>3. runs' = Append(done, Started(r)) /\ Call(t, f, below) BY DEF Execute
<1> HIDE DEF n, ptr
<1>4. f \in Frames /\ f.kind = "fire" BY <1>1, <1>2 DEF Frame, Frames
<1>5. runs' \in Seq(Runs)
  <2>1. Started(r) \in Runs BY DEF Started, Runs
  <2> QED BY <1>3, <2>1
<1> HIDE DEF f
<1>6. below \in Seq(Frames) BY DEF Base
<1> QED BY <1>3, <1>4, <1>5, <1>6 DEF Moves

\* A call that only makes the list go on or calls a rule.
LEMMA RunRuleTyped ==
  ASSUME TypeOK, NEW t \in Threads, DoRunRule(t)
  PROVE  Moves(t) /\ OthersTyped
<1> DEFINE noted == Note(Top(t), Act(t), Top(t).td, FALSE)
           g == [Top(t) EXCEPT !.i = @ + 1]
           b == <<g>> \o Tail(stack[t])
           target == Act(t).target
<1>1. Ready(t) /\ UNCHANGED <<timers, gerr, enabled, digest, calls, strayed, tests>>
  BY DEF DoRunRule
<1>2. ~Idle(t) /\ Top(t) \in Frames /\ Act(t) \in Actions /\ Top(t).td \in BOOLEAN
  BY <1>1, ActFacts DEF Frames
<1>3. noted \in Seq(Runs)
  <2>1. FALSE \in BOOLEAN OBVIOUS
  <2> QED BY <1>2, <2>1, NoteTyped
<1>4. g \in Frames /\ Later(g, Top(t)) /\ g.erred = Top(t).erred BY <1>2, NextAction
<1>5. Base(t, b, FALSE) BY <1>2, <1>4, BaseReplaced
<1>6. b \in Seq(Frames) BY <1>5 DEF Base
<1>7. IF target \in enabled THEN Execute(t, noted, target, b)
      ELSE /\ runs' = noted
           /\ stack' = Advance(t, Top(t)) /\ cur' = cur
  BY DEF DoRunRule
<1> HIDE DEF noted
<1>8. CASE target \notin enabled
  <2>1. stack' = [stack EXCEPT ![t] = <<g>> \o Tail(stack[t])] BY <1>7, <1>8 DEF Advance
  <2>2. Moves(t) BY <1>1, <1>2, <1>4, <1>7, <1>8, <2>1, MovesOn
  <2> QED BY <1>1, <1>3, <1>7, <1>8, <2>2 DEF TypeOK, OthersTyped
<1>9. CASE target \in enabled
  <2>1. target \in Rules BY <1>9 DEF TypeOK
  <2>2. Execute(t, noted, target, b) BY <1>7, <1>9
  <2> HIDE DEF b, target
  <2>3. Moves(t) /\ runs' \in Seq(Runs)
    BY <1>1, <1>3, <1>5, <1>6, <2>1, <2>2, ExecuteTyped
  <2> QED BY <1>1, <2>3 DEF TypeOK, OthersTyped
<1> QED BY <1>8, <1>9

LEMMA SetEnabledTyped ==
  ASSUME TypeOK, NEW t \in Threads, DoSetRuleEnabled(t)
  PROVE  Moves(t) /\ OthersTyped
<1> DEFINE g == [Top(t) EXCEPT !.i = @ + 1]
<1>1. /\ Ready(t) /\ UNCHANGED <<timers, cur, gerr, digest, calls, strayed, tests>>
      /\ stack' = Advance(t, Top(t)) /\ runs' = Note(Top(t), Act(t), Top(t).td, FALSE)
      /\ enabled' = IF Act(t).enable THEN enabled \cup ({Act(t).target} \cap Rules)
                    ELSE enabled \ {Act(t).target}
  BY DEF DoSetRuleEnabled
<1>2. ~Idle(t) /\ Top(t) \in Frames /\ Act(t) \in Actions /\ Top(t).td \in BOOLEAN
  BY <1>1, ActFacts DEF Frames
<1>3. g \in Frames /\ Later(g, Top(t)) /\ g.erred = Top(t).erred BY <1>2, NextAction
<1>4. stack' = [stack EXCEPT ![t] = <<g>> \o Tail(stack[t])] BY <1>1 DEF Advance
<1>5. Moves(t) BY <1>1, <1>2, <1>3, <1>4, MovesOn
<1>6. runs' \in Seq(Runs)
  <2>1. FALSE \in BOOLEAN OBVIOUS
  <2> QED BY <1>1, <1>2, <2>1, NoteTyped
<1>7. enabled' \subseteq Rules BY <1>1 DEF TypeOK
<1> QED BY <1>1, <1>5, <1>6, <1>7 DEF TypeOK, OthersTyped

LEMMA QueryTyped ==
  ASSUME TypeOK, NEW t \in Threads, DoQuery(t)
  PROVE  Moves(t) /\ OthersTyped
<1>1. Ready(t) /\ UNCHANGED <<timers, cur, gerr, enabled, digest, calls, strayed, tests>>
  BY DEF DoQuery
<1>2. PICK d \in BOOLEAN :
        LET f == [Top(t) EXCEPT !.td = @ \/ d] IN
        stack' = Advance(t, f) /\ runs' = Note(f, Act(t), f.td, FALSE)
  BY DEF DoQuery
<1> DEFINE f == [Top(t) EXCEPT !.td = @ \/ d]
           g == [f EXCEPT !.i = @ + 1]
<1>3. ~Idle(t) /\ Top(t) \in Frames /\ Act(t) \in Actions BY <1>1, ActFacts
<1>4. f \in Frames /\ Later(f, Top(t)) /\ f.erred = Top(t).erred
  BY <1>3 DEF Frames, Later
<1>5. stack' = [stack EXCEPT ![t] = <<g>> \o Tail(stack[t])] BY <1>2 DEF Advance
<1>6. runs' = Note(f, Act(t), f.td, FALSE) BY <1>2
<1> HIDE DEF f
<1>7. g \in Frames /\ Later(g, f) /\ g.erred = f.erred BY <1>4 DEF Frames, Later
<1>8. g \in Frames /\ Later(g, Top(t)) /\ g.erred = Top(t).erred BY <1>4, <1>7 DEF Later
<1> HIDE DEF g
<1>9. Moves(t) BY <1>1, <1>3, <1>5, <1>8, MovesOn
<1>10. runs' \in Seq(Runs)
  <2>1. FALSE \in BOOLEAN /\ f.td \in BOOLEAN BY <1>4 DEF Frames
  <2> QED BY <1>3, <1>4, <1>6, <2>1, NoteTyped
<1> QED BY <1>1, <1>9, <1>10 DEF TypeOK, OthersTyped

\* The digest buffers.
LEMMA DigestAddTyped ==
  ASSUME TypeOK, NEW r \in Rules
  PROVE  /\ DOMAIN DigestAdd(r) \subseteq Rules
         /\ DigestAdd(r) \in [DOMAIN DigestAdd(r) -> Buffer]
         /\ IsFiniteSet(DOMAIN DigestAdd(r))
         /\ Cardinality(DOMAIN DigestAdd(r)) <= MAX_DIGEST_BUFFERS
<1>1. /\ DOMAIN digest \subseteq Rules /\ digest \in [DOMAIN digest -> Buffer]
      /\ IsFiniteSet(DOMAIN digest) /\ Cardinality(DOMAIN digest) <= MAX_DIGEST_BUFFERS
  BY DEF TypeOK
<1>2. CASE r \in DOMAIN digest
  <2> DEFINE w == [digest[r] EXCEPT !.lines = IF @ < MAX_DIGEST_LINES THEN @ + 1 ELSE @]
  <2>1. w \in Buffer
    <3>1. digest[r] \in Buffer BY <1>1, <1>2
    <3> QED BY <3>1, ActionParams DEF Buffer
  <2>2. DigestAdd(r) = [digest EXCEPT ![r] = w] BY <1>2 DEF DigestAdd
  <2> HIDE DEF w
  <2> QED BY <1>1, <2>1, <2>2
<1>3. CASE r \notin DOMAIN digest /\ Cardinality(DOMAIN digest) >= MAX_DIGEST_BUFFERS
  BY <1>1, <1>3 DEF DigestAdd
<1>4. CASE r \notin DOMAIN digest /\ ~(Cardinality(DOMAIN digest) >= MAX_DIGEST_BUFFERS)
  <2>1. DigestAdd(r) = [s \in DOMAIN digest \cup {r} |->
                          IF s = r THEN [lines |-> 1, age |-> 0] ELSE digest[s]]
    BY <1>4 DEF DigestAdd
  <2>2. [lines |-> 1, age |-> 0] \in Buffer BY ActionParams DEF Buffer
  <2>4. Cardinality(DOMAIN digest \cup {r}) = Cardinality(DOMAIN digest) + 1
        /\ IsFiniteSet(DOMAIN digest \cup {r}) /\ Cardinality(DOMAIN digest) \in Nat
    BY <1>1, <1>4, FS_AddElement, FS_CardinalityType
  <2>5. Cardinality(DOMAIN digest) + 1 <= MAX_DIGEST_BUFFERS BY <1>4, <2>4, ActionParams
  <2>6. DOMAIN DigestAdd(r) = DOMAIN digest \cup {r} BY <2>1
  <2> QED BY <1>1, <2>1, <2>2, <2>4, <2>5, <2>6
<1> QED BY <1>2, <1>3, <1>4

LEMMA DigestTyped ==
  ASSUME TypeOK, NEW t \in Threads, DoDigest(t)
  PROVE  Moves(t) /\ OthersTyped
<1> DEFINE g == [Top(t) EXCEPT !.i = @ + 1]
<1>1. /\ Ready(t) /\ UNCHANGED <<timers, cur, gerr, enabled, calls, strayed, tests>>
      /\ Top(t).ptr.rule # NoRule /\ digest' = DigestAdd(Top(t).ptr.rule)
      /\ stack' = Advance(t, Top(t)) /\ runs' = Note(Top(t), Act(t), Top(t).td, FALSE)
  BY DEF DoDigest
<1>2. ~Idle(t) /\ Top(t) \in Frames /\ Act(t) \in Actions /\ Top(t).td \in BOOLEAN
  BY <1>1, ActFacts DEF Frames
<1>3. Top(t).ptr.rule \in Rules BY <1>1, <1>2 DEF Frames, Pointers, RuleIds
<1>4. g \in Frames /\ Later(g, Top(t)) /\ g.erred = Top(t).erred BY <1>2, NextAction
<1>5. stack' = [stack EXCEPT ![t] = <<g>> \o Tail(stack[t])] BY <1>1 DEF Advance
<1>6. Moves(t) BY <1>1, <1>2, <1>4, <1>5, MovesOn
<1>7. runs' \in Seq(Runs)
  <2>1. FALSE \in BOOLEAN OBVIOUS
  <2> QED BY <1>1, <1>2, <2>1, NoteTyped
<1>8. /\ DOMAIN digest' \subseteq Rules /\ digest' \in [DOMAIN digest' -> Buffer]
      /\ IsFiniteSet(DOMAIN digest') /\ Cardinality(DOMAIN digest') <= MAX_DIGEST_BUFFERS
  BY <1>1, <1>3, DigestAddTyped
<1> QED BY <1>1, <1>6, <1>7, <1>8 DEF TypeOK, OthersTyped

\* The on_failure list of a request is on the stack of the list with the request.
FallbacksAbove ==
  \A t \in Threads : \A k \in DOMAIN stack[t] :
    stack[t][k].kind = "failure" => k < Len(stack[t])

LEMMA ReturnTyped ==
  ASSUME TypeOK, FallbacksAbove, NEW t \in Threads, Return(t)
  PROVE  Moves(t) /\ OthersTyped
<1> DEFINE f == Top(t)
           below == Tail(stack[t])
           b == IF f.kind = "failure" THEN <<[Head(below) EXCEPT !.td = f.td]>> \o Tail(below)
                ELSE below
           answer == [erred |-> f.erred, failed |-> gerr, crossed |-> f.crossed]
<1>1. /\ ~Idle(t) /\ UNCHANGED <<timers, cur, gerr, enabled, digest, calls, runs, strayed>>
      /\ stack' = [stack EXCEPT ![t] = b]
      /\ tests' = IF f.kind # "test" THEN tests ELSE Append(tests, answer)
  BY DEF Return
<1>2. /\ f \in Frames /\ f.td \in BOOLEAN /\ f = stack[t][1] /\ 1 \in DOMAIN stack[t]
      /\ below \in Seq(Frames) /\ Len(below) = Len(stack[t]) - 1 /\ Len(stack[t]) \in Nat
  BY <1>1, TopFacts DEF Frames
<1>3. Base(t, b, FALSE)
  <2>1. CASE f.kind = "failure"
    <3>1. Len(below) # 0 BY <1>2, <2>1 DEF FallbacksAbove
    <3>2. Len(<<>>) = 0 OBVIOUS
    <3>3. below # <<>> BY <3>1, <3>2
    <3> QED BY <1>1, <1>2, <2>1, <3>3, BaseHandedOn
  <2>2. CASE f.kind # "failure" BY <1>1, <2>2, BaseReturned
  <2> QED BY <2>1, <2>2
<1>4. b \in Seq(Frames) BY <1>3 DEF Base
<1> HIDE DEF b
<1>5. Moves(t) BY <1>1, <1>3, <1>4 DEF Moves
<1>6. answer \in [erred : BOOLEAN, failed : BOOLEAN, crossed : BOOLEAN]
  BY <1>2 DEF Frames, TypeOK
<1> HIDE DEF answer, f
<1>7. tests' \in Seq([erred : BOOLEAN, failed : BOOLEAN, crossed : BOOLEAN])
  <2>1. tests \in Seq([erred : BOOLEAN, failed : BOOLEAN, crossed : BOOLEAN]) BY DEF TypeOK
  <2>2. CASE f.kind = "test" BY <1>1, <1>6, <2>1, <2>2
  <2>3. CASE f.kind # "test" BY <1>1, <2>1, <2>3
  <2> QED BY <2>2, <2>3
<1> QED BY <1>1, <1>5, <1>7 DEF TypeOK, OthersTyped

\* Nothing is left of an idle thread's stack.
LEMMA BaseIdle ==
  ASSUME TypeOK, NEW t \in Threads
  PROVE  Base(t, <<>>, FALSE) /\ <<>> \in Seq(Frames)
<1>1. stack[t] \in Seq(Frames) BY DEF TypeOK
<1>2. <<>> \in Seq(Frames) /\ Len(<<>>) <= Len(stack[t]) /\ DOMAIN <<>> = {} BY <1>1
<1> QED BY <1>2 DEF Base

LEMMA FireTyped ==
  ASSUME TypeOK, NEW t \in Threads, NEW r \in Rules, Fire(t, r)
  PROVE  Moves(t) /\ OthersTyped
<1>1. /\ Execute(t, runs, r, <<>>) /\ calls < MaxFires /\ calls' = calls + 1
      /\ UNCHANGED <<timers, gerr, enabled, digest, strayed, tests>>
  BY DEF Fire
<1>2. runs \in Seq(Runs) BY DEF TypeOK
<1>3. Moves(t) /\ runs' \in Seq(Runs) BY <1>1, <1>2, BaseIdle, ExecuteTyped
<1>4. calls' \in 0 .. MaxFires BY <1>1, ActionParams DEF TypeOK
<1> QED BY <1>1, <1>3, <1>4 DEF TypeOK, OthersTyped

\* A test makes a call with nothing of a rule in it.
LEMMA TestTyped ==
  ASSUME TypeOK, NEW a \in TestActions, Actions_Test(a)
  PROVE  /\ OthersTyped /\ strayed' = strayed
         /\ NULL \in Pointers /\ <<a>> \in Seq(Actions) /\ NULL.rule = NoRule
         /\ stack' = Pushed("http", Frame(NoRun, NULL, <<a>>, 0, FALSE, "test"), <<>>)
         /\ cur' = NULL /\ gerr' = FALSE /\ stack["http"] = <<>>
         /\ Frame(NoRun, NULL, <<a>>, 0, FALSE, "test") \in Frames
<1> DEFINE f == Frame(NoRun, NULL, <<a>>, 0, FALSE, "test")
<1>1. /\ Call("http", f, <<>>) /\ calls < MaxFires /\ calls' = calls + 1 /\ gerr' = FALSE
      /\ stack["http"] = <<>> /\ UNCHANGED <<timers, enabled, digest, runs, strayed, tests>>
  BY DEF Actions_Test, Idle
<1>2. a \in Actions BY ActionParams
<1>3. NULL \in Pointers /\ <<a>> \in Seq(Actions) /\ NULL.rule = NoRule
  BY <1>2 DEF NULL, Pointers, RuleIds, NoRun
<1>4. f \in Frames BY <1>3 DEF Frame, Frames, NoRun
<1>5. f.ptr = NULL BY DEF Frame
<1>6. calls' \in 0 .. MaxFires BY <1>1, ActionParams DEF TypeOK
<1>7. OthersTyped BY <1>1, <1>6 DEF TypeOK, OthersTyped
<1> QED BY <1>1, <1>3, <1>4, <1>5, <1>7 DEF Call

LEMMA ResumeTyped ==
  ASSUME TypeOK, Resume
  PROVE  Moves("main") /\ OthersTyped
<1>1. PICK w \in timers :
        /\ timers' = timers \ {w}
        /\ Call("main", Frame(w.run, Pointer(w.run, w.rule, w.acts, w.attempt), w.acts,
                              w.attempt, w.td, "resume"), <<>>)
  BY DEF Resume
<1>2. UNCHANGED <<gerr, enabled, digest, calls, runs, strayed, tests>> BY DEF Resume
<1> DEFINE ptr == Pointer(w.run, w.rule, w.acts, w.attempt)
           f == Frame(w.run, ptr, w.acts, w.attempt, w.td, "resume")
<1>3. w \in Timers BY DEF TypeOK
<1>4. ptr \in Pointers BY <1>3 DEF Pointer, Pointers, Timers
<1>5. f \in Frames /\ f.kind = "resume"
  <2> HIDE DEF ptr
  <2> QED BY <1>3, <1>4 DEF Frame, Frames, Timers
<1>6. Call("main", f, <<>>) BY <1>1
<1>7. "main" \in Threads BY DEF Threads
<1> HIDE DEF f
<1>8. Moves("main") BY <1>2, <1>5, <1>6, <1>7, BaseIdle DEF Moves
<1> QED BY <1>1, <1>2, <1>8 DEF TypeOK, OthersTyped

LEMMA TickTyped ==
  ASSUME TypeOK, Tick
  PROVE  OthersTyped /\ UNCHANGED <<stack, cur, gerr, strayed>>
<1>1. /\ timers' = {[w EXCEPT !.left = IF @ > 0 THEN @ - 1 ELSE 0] : w \in timers}
      /\ digest' = [r \in DOMAIN digest |->
           [digest[r] EXCEPT !.age = IF @ < DigestInterval THEN @ + 1 ELSE @]]
      /\ UNCHANGED <<stack, cur, gerr, enabled, calls, runs, strayed, tests>>
  BY DEF Tick
<1>2. timers' \subseteq Timers
  <2>1. ASSUME NEW w \in Timers
        PROVE  [w EXCEPT !.left = IF @ > 0 THEN @ - 1 ELSE 0] \in Timers
    BY DEF Timers
  <2> QED BY <1>1, <2>1 DEF TypeOK
<1>3. DOMAIN digest' = DOMAIN digest BY <1>1
<1>4. digest' \in [DOMAIN digest' -> Buffer]
  <2>1. ASSUME NEW d \in Buffer
        PROVE  [d EXCEPT !.age = IF @ < DigestInterval THEN @ + 1 ELSE @] \in Buffer
    BY ActionParams DEF Buffer
  <2> QED BY <1>1, <2>1 DEF TypeOK
<1> QED BY <1>1, <1>2, <1>3, <1>4 DEF TypeOK, OthersTyped

LEMMA DigestTickTyped ==
  ASSUME TypeOK, Actions_Digest_Tick
  PROVE  /\ OthersTyped /\ UNCHANGED <<timers, cur, runs, tests>>
         /\ stack["main"] = <<>> /\ gerr' \in BOOLEAN
         /\ strayed' \subseteq {"action", "digest"}
         /\ "action" \in strayed' => "action" \in strayed
         /\ stack' = [stack EXCEPT !["http"] =
              [k \in 1..Len(stack["http"]) |-> [stack["http"][k] EXCEPT !.crossed = TRUE]]]
         /\ stack' \in [Threads -> Seq(Frames)]
<1>1. PICK r \in DOMAIN digest :
        /\ digest' = [digest EXCEPT ![r] = [lines |-> 0, age |-> 0]]
        /\ stack' = [stack EXCEPT !["http"] =
              [k \in 1..Len(stack["http"]) |-> [stack["http"][k] EXCEPT !.crossed = TRUE]]]
        /\ \/ UNCHANGED <<gerr, strayed>>
           \/ /\ gerr' = TRUE
              /\ \E on \in Blamed : strayed' = strayed \cup {e \in {"digest"} : on # r}
  BY DEF Actions_Digest_Tick
<1>2. UNCHANGED <<timers, cur, enabled, calls, runs, tests>> /\ stack["main"] = <<>>
  BY DEF Actions_Digest_Tick, Idle
<1>3. [lines |-> 0, age |-> 0] \in Buffer BY ActionParams DEF Buffer
<1>4. digest' \in [DOMAIN digest' -> Buffer] /\ DOMAIN digest' = DOMAIN digest
  BY <1>1, <1>3 DEF TypeOK
<1>5. stack["http"] \in Seq(Frames) BY DEF TypeOK, Threads
<1> DEFINE N(k) == [stack["http"][k] EXCEPT !.crossed = TRUE]
<1>6. ASSUME NEW k \in 1 .. Len(stack["http"]) PROVE N(k) \in Frames
  <2>1. stack["http"][k] \in Frames BY <1>5
  <2>2. ASSUME NEW f \in Frames PROVE [f EXCEPT !.crossed = TRUE] \in Frames BY FrameMarked
  <2> QED BY <2>1, <2>2
<1>7. [k \in 1..Len(stack["http"]) |-> N(k)] \in Seq(Frames)
  <2>1. Len(stack["http"]) \in Nat BY <1>5
  <2> HIDE DEF N
  <2> QED BY <1>6, <2>1
<1>8. stack' \in [Threads -> Seq(Frames)] BY <1>1, <1>7 DEF TypeOK
<1>9. gerr' \in BOOLEAN BY <1>1 DEF TypeOK
<1>10. strayed' \in {strayed, strayed \cup {"digest"}} BY <1>1
<1>11. /\ strayed' \subseteq {"action", "digest"}
       /\ "action" \in strayed' => "action" \in strayed
  BY <1>10 DEF TypeOK
<1> QED BY <1>1, <1>2, <1>4, <1>8, <1>9, <1>11 DEF TypeOK, OthersTyped

(***************************************************************************)
(* The two globals.                                                        *)
(***************************************************************************)

\* Unless disturbed, a call finds its own rule and its own errors in the globals.
FrameRight(f) ==
  /\ f.crossed \/ f.nested \/ f.ptr = cur
  /\ f.kind = "test" => f.crossed \/ f.erred = gerr

FramesRight ==
  \A t \in Threads : \A k \in DOMAIN stack[t] :
    /\ FrameRight(stack[t][k])
    /\ stack[Other(t)] # <<>> => stack[t][k].crossed

GlobalsRight ==
  FallbacksAbove /\ FramesRight /\ ErrorsOwnUnlessMixed /\ VerdictsRightUnlessCrossed

\* An error is recorded for the rule of the call, unless the call was disturbed.
LEMMA BlamesOwn ==
  ASSUME TypeOK, FramesRight, ErrorsOwnUnlessMixed, NEW t \in Threads, ~Idle(t),
         ActionError(t, Top(t))
  PROVE  ErrorsOwnUnlessMixed'
<1>1. PICK on \in Blamed :
        strayed' = strayed \cup
          {e \in {"action"} : on # Top(t).ptr.rule /\ ~Top(t).nested /\ ~Top(t).crossed}
  BY DEF ActionError
<1>2. stack[t] \in Seq(Frames) /\ 1 \in DOMAIN stack[t] /\ Top(t) = stack[t][1]
      /\ Top(t) \in Frames /\ 1 \in 1 .. Len(stack[t])
  BY TopFacts
<1>3. CASE Top(t).nested \/ Top(t).crossed BY <1>1, <1>3 DEF ErrorsOwnUnlessMixed
<1>4. CASE ~Top(t).nested /\ ~Top(t).crossed
  <2>1. Top(t).ptr = cur BY <1>2, <1>4 DEF FramesRight, FrameRight
  <2>2. Alive(cur) BY <1>2, <2>1 DEF Alive
  <2>3. on = Top(t).ptr.rule
    <3>1. CASE cur = NULL BY <2>1, <3>1 DEF Blamed, NULL
    <3>2. CASE cur # NULL BY <2>1, <2>2, <3>2 DEF Blamed
    <3> QED BY <3>1, <3>2
  <2> QED BY <1>1, <2>3 DEF ErrorsOwnUnlessMixed
<1> QED BY <1>3, <1>4

\* What a step leaves on the stack is as right as it was.
LEMMA BaseRight ==
  ASSUME TypeOK, FramesRight, NEW t \in Threads, NEW b, NEW e \in BOOLEAN, Base(t, b, e),
         gerr' = (IF e THEN TRUE ELSE gerr), NEW k \in DOMAIN b
  PROVE  /\ b[k].crossed \/ b[k].nested \/ b[k].ptr = cur
         /\ b[k].kind = "test" => b[k].crossed \/ b[k].erred = gerr'
         /\ stack[Other(t)] # <<>> => b[k].crossed
<1>1. PICK j \in DOMAIN stack[t] :
        Later(b[k], stack[t][j]) /\ b[k].erred = IF e THEN TRUE ELSE stack[t][j].erred
  BY DEF Base
<1>2. FrameRight(stack[t][j]) /\ (stack[Other(t)] # <<>> => stack[t][j].crossed)
  BY <1>1 DEF FramesRight
<1> QED BY <1>1, <1>2 DEF Later, FrameRight

LEMMA BaseAbove ==
  ASSUME TypeOK, FallbacksAbove, NEW t \in Threads, NEW b, NEW e \in BOOLEAN, Base(t, b, e),
         NEW k \in DOMAIN b, b[k].kind = "failure"
  PROVE  k < Len(b)
<1>1. b \in Seq(Frames) /\ stack[t] \in Seq(Frames) BY DEF Base, TypeOK
<1>2. PICK j \in DOMAIN stack[t] :
        Len(stack[t]) - j = Len(b) - k /\ Later(b[k], stack[t][j])
  BY DEF Base
<1>3. j < Len(stack[t]) BY <1>2 DEF Later, FallbacksAbove
<1>4. k \in Nat /\ j \in Nat /\ Len(b) \in Nat /\ Len(stack[t]) \in Nat BY <1>1, <1>2
<1>5. Len(stack[t]) - j = Len(b) - k BY <1>2
<1> HIDE <1>2
<1> QED BY <1>3, <1>4, <1>5

\* An undisturbed step of thread t.
LEMMA MovesRight ==
  ASSUME TypeOK, FallbacksAbove, FramesRight, ErrorsOwnUnlessMixed, NEW t \in Threads, Moves(t)
  PROVE  FallbacksAbove' /\ FramesRight' /\ ErrorsOwnUnlessMixed'
<1>1. PICK b \in Seq(Frames), e \in BOOLEAN :
        /\ Base(t, b, e)
        /\ \/ stack' = [stack EXCEPT ![t] = b] /\ cur' = cur
           \/ \E f \in Frames :
                f.kind # "test" /\ (f.kind = "failure" => b # <<>>) /\ Call(t, f, b)
        /\ IF e THEN ~Idle(t) /\ ActionError(t, Top(t)) ELSE UNCHANGED <<gerr, strayed>>
  BY DEF Moves
<1>2. gerr' = (IF e THEN TRUE ELSE gerr) /\ (stack[t] = <<>> => ~e)
  BY <1>1 DEF ActionError, Idle
<1>3. ErrorsOwnUnlessMixed'
  <2>1. CASE e BY <1>1, <2>1, BlamesOwn
  <2>2. CASE ~e BY <1>1, <2>2 DEF ErrorsOwnUnlessMixed
  <2> QED BY <2>1, <2>2
<1>4. /\ stack \in [Threads -> Seq(Frames)] /\ Other(t) \in Threads /\ Other(t) # t
      /\ \A u \in Threads : u # t => u = Other(t)
      /\ Other(Other(t)) = t
  <2>1. stack \in [Threads -> Seq(Frames)] BY DEF TypeOK
  <2>2. Other(t) \in Threads /\ Other(t) # t /\ \A u \in Threads : u # t => u = Other(t)
    BY OtherIs
  <2>3. Other(Other(t)) \in Threads /\ Other(Other(t)) # Other(t) BY <2>2, OtherIs
  <2> QED BY <2>1, <2>2, <2>3
<1>5. \A k \in DOMAIN b :
        /\ b[k].crossed \/ b[k].nested \/ b[k].ptr = cur
        /\ b[k].kind = "test" => b[k].crossed \/ b[k].erred = gerr'
        /\ stack[Other(t)] # <<>> => b[k].crossed
        /\ b[k].kind = "failure" => k < Len(b)
  BY <1>1, <1>2, BaseRight, BaseAbove
<1>6. Len(b) <= Len(stack[t]) BY <1>1 DEF Base
<1>7. CASE stack' = [stack EXCEPT ![t] = b] /\ cur' = cur
  <2>1. stack'[t] = b /\ stack'[Other(t)] = stack[Other(t)] BY <1>4, <1>7
  <2>2. ASSUME NEW k \in DOMAIN stack'[t]
        PROVE  /\ FrameRight(stack[t][k])' /\ (stack'[Other(t)] # <<>> => stack'[t][k].crossed)
               /\ stack'[t][k].kind = "failure" => k < Len(stack'[t])
    BY <1>5, <1>7, <2>1 DEF FrameRight
  <2>3. ASSUME NEW k \in DOMAIN stack'[Other(t)]
        PROVE  /\ FrameRight(stack[Other(t)][k])'
               /\ stack'[t] # <<>> => stack'[Other(t)][k].crossed
               /\ stack'[Other(t)][k].kind = "failure" => k < Len(stack'[Other(t)])
    <3>1. /\ FrameRight(stack[Other(t)][k])
          /\ stack[t] # <<>> => stack[Other(t)][k].crossed
          /\ stack[Other(t)][k].kind = "failure" => k < Len(stack[Other(t)])
      BY <1>4, <2>1, <2>3 DEF FramesRight, FallbacksAbove
    <3>2. CASE stack[t] = <<>>
      <4>1. b = <<>> BY <1>6, <3>2
      <4> QED BY <1>1, <1>2, <1>7, <2>1, <3>1, <3>2, <4>1 DEF FrameRight
    <3>3. CASE stack[t] # <<>> BY <1>7, <2>1, <3>1, <3>3 DEF FrameRight
    <3> QED BY <3>2, <3>3
  <2> QED BY <1>3, <1>4, <2>2, <2>3 DEF FramesRight, FallbacksAbove
<1>8. ASSUME NEW f \in Frames, f.kind # "test", f.kind = "failure" => b # <<>>, Call(t, f, b)
      PROVE  FallbacksAbove' /\ FramesRight' /\ ErrorsOwnUnlessMixed'
  <2>1. stack' = Pushed(t, f, b) /\ cur' = f.ptr BY <1>8 DEF Call
  <2>2. /\ stack' \in [Threads -> Seq(Frames)] /\ Len(stack'[t]) = Len(b) + 1
        /\ SameCall(stack'[t][1], f) /\ (stack'[t][1].crossed <=> stack[Other(t)] # <<>>)
        /\ \A k \in 1 .. Len(b) :
             /\ SameCall(stack'[t][k + 1], b[k]) /\ stack'[t][k + 1].crossed = b[k].crossed
             /\ stack'[t][k + 1].nested <=> b[k].nested \/ f.ptr # b[k].ptr
        /\ \A u \in Threads \ {t} :
             /\ Len(stack'[u]) = Len(stack[u])
             /\ \A k \in 1 .. Len(stack[u]) :
                  SameCall(stack'[u][k], stack[u][k]) /\ stack'[u][k].crossed
    <3>1. HasPushed(stack', t, f, b) BY <1>4, <2>1, PushedFacts
    <3> QED BY <3>1 DEF HasPushed
  <2>3. stack'[Other(t)] # <<>> => stack[Other(t)] # <<>>
    <3>1. Other(t) \in Threads \ {t} BY <1>4
    <3> QED BY <1>4, <2>2, <3>1
  <2>4. ASSUME NEW k \in DOMAIN stack'[t]
        PROVE  /\ FrameRight(stack[t][k])' /\ (stack'[Other(t)] # <<>> => stack'[t][k].crossed)
               /\ stack'[t][k].kind = "failure" => k < Len(stack'[t])
    <3>1. k \in 1 .. Len(b) + 1 /\ Len(b) \in Nat BY <2>2
    <3>2. CASE k = 1
      <4>1. /\ stack'[t][1].ptr = cur' /\ stack'[t][1].kind = f.kind
            /\ stack'[t][1].crossed <=> stack[Other(t)] # <<>>
        BY <2>1, <2>2 DEF SameCall
      <4>2. f.kind = "failure" => 1 < Len(stack'[t]) BY <1>8, <2>2, <3>1
      <4> QED BY <1>8, <2>3, <3>2, <4>1, <4>2 DEF FrameRight
    <3>3. CASE k # 1
      <4> DEFINE i == k - 1
      <4>1. i \in DOMAIN b /\ i + 1 = k /\ b[i] \in Frames /\ i \in 1 .. Len(b) BY <3>1, <3>3
      <4> HIDE DEF i
      <4>4. /\ stack'[t][k].ptr = b[i].ptr /\ stack'[t][k].kind = b[i].kind
            /\ stack'[t][k].crossed = b[i].crossed /\ stack'[t][k].erred = b[i].erred
            /\ stack'[t][k].nested <=> b[i].nested \/ f.ptr # b[i].ptr
        BY <2>2, <4>1 DEF SameCall
      <4>5. stack'[t][k].kind = "failure" => k < Len(stack'[t])
        <5>1. i \in Nat /\ Len(b) \in Nat /\ k = i + 1 /\ Len(stack'[t]) = Len(b) + 1
          BY <2>2, <3>1, <4>1
        <5>2. b[i].kind = "failure" => i < Len(b) BY <1>5, <4>1
        <5> QED BY <4>4, <5>1, <5>2
      <4>6. FrameRight(stack[t][k])'
        BY <1>5, <2>1, <4>1, <4>4 DEF FrameRight
      <4> QED BY <1>5, <2>3, <4>1, <4>4, <4>5, <4>6
    <3> QED BY <3>2, <3>3
  <2>5. ASSUME NEW k \in DOMAIN stack'[Other(t)]
        PROVE  /\ FrameRight(stack[Other(t)][k])' /\ stack'[Other(t)][k].crossed
               /\ stack'[Other(t)][k].kind = "failure" => k < Len(stack'[Other(t)])
    <3> DEFINE h == stack[Other(t)][k]
    <3>0. stack[Other(t)] \in Seq(Frames) /\ stack'[Other(t)] \in Seq(Frames)
      BY <1>4, <2>2
    <3>1. k \in DOMAIN stack[Other(t)] /\ h \in Frames /\ k \in 1 .. Len(stack[Other(t)])
      <4>1. Len(stack'[Other(t)]) = Len(stack[Other(t)]) BY <1>4, <2>2
      <4>2. k \in 1 .. Len(stack[Other(t)]) BY <3>0, <4>1
      <4> QED BY <3>0, <4>2
    <3>2. Other(t) \in Threads \ {t} BY <1>4
    <3>3. h.kind = "failure" => k < Len(stack[Other(t)]) BY <1>4, <3>1 DEF FallbacksAbove
    <3> HIDE DEF h
    <3>4. stack'[Other(t)][k].crossed /\ stack'[Other(t)][k].kind = h.kind
          /\ Len(stack'[Other(t)]) = Len(stack[Other(t)])
      BY <2>2, <3>1, <3>2 DEF SameCall, h
    <3> QED BY <3>3, <3>4 DEF FrameRight
  <2> QED BY <1>3, <1>4, <2>4, <2>5 DEF FramesRight, FallbacksAbove
<1> QED BY <1>1, <1>7, <1>8

\* A test has the error it saw, and only Return answers.
LEMMA AnswersRight ==
  ASSUME TypeOK, FramesRight, VerdictsRightUnlessCrossed, NEW t \in Threads, Return(t)
  PROVE  VerdictsRightUnlessCrossed'
<1> DEFINE f == Top(t)
           answer == [erred |-> f.erred, failed |-> gerr, crossed |-> f.crossed]
<1>1. ~Idle(t) /\ tests' = IF f.kind # "test" THEN tests ELSE Append(tests, answer)
  BY DEF Return
<1>2. FrameRight(f) BY <1>1, TopFacts DEF FramesRight
<1>3. answer.erred = f.erred /\ answer.failed = gerr /\ answer.crossed = f.crossed OBVIOUS
<1>4. tests \in Seq([erred : BOOLEAN, failed : BOOLEAN, crossed : BOOLEAN]) BY DEF TypeOK
<1> HIDE DEF answer, f
<1>5. CASE f.kind # "test" BY <1>1, <1>5 DEF VerdictsRightUnlessCrossed
<1>6. CASE f.kind = "test"
  <2>1. answer.crossed \/ answer.failed = answer.erred BY <1>2, <1>3, <1>6 DEF FrameRight
  <2>2. /\ Len(tests') = Len(tests) + 1 /\ tests'[Len(tests) + 1] = answer
        /\ \A k \in 1 .. Len(tests) : tests'[k] = tests[k]
    BY <1>1, <1>4, <1>6
  <2>3. ASSUME NEW k \in 1 .. Len(tests')
        PROVE  tests'[k].crossed \/ tests'[k].failed = tests'[k].erred
    <3>1. k \in 1 .. Len(tests) \/ k = Len(tests) + 1 BY <1>4, <2>2
    <3> QED BY <2>1, <2>2, <3>1 DEF VerdictsRightUnlessCrossed
  <2> QED BY <2>3 DEF VerdictsRightUnlessCrossed
<1> QED BY <1>5, <1>6

\* Every step of a list.
LEMMA StepMoves ==
  ASSUME TypeOK, FallbacksAbove, NEW t \in Threads, Step(t)
  PROVE  Moves(t) /\ OthersTyped
BY DelayTyped, RequestTyped, AlpvTyped, RunRuleTyped, SetEnabledTyped, QueryTyped, DigestTyped,
   ReturnTyped DEF Step

\* The steps that are not those of a list.
LEMMA TestRight ==
  ASSUME TypeOK, FallbacksAbove, FramesRight, ErrorsOwnUnlessMixed, NEW a \in TestActions,
         Actions_Test(a)
  PROVE  /\ stack' \in [Threads -> Seq(Frames)] /\ cur' \in Pointers
         /\ FallbacksAbove' /\ FramesRight' /\ ErrorsOwnUnlessMixed'
<1> DEFINE f == Frame(NoRun, NULL, <<a>>, 0, FALSE, "test")
<1>1. /\ strayed' = strayed /\ stack' = Pushed("http", f, <<>>) /\ cur' = NULL
      /\ gerr' = FALSE /\ stack["http"] = <<>> /\ f \in Frames /\ NULL \in Pointers
  BY TestTyped
<1>2. f.ptr = NULL /\ f.kind = "test" /\ f.erred = FALSE BY DEF Frame
<1> HIDE DEF f
<1>3. HasPushed(stack', "http", f, <<>>)
  <2>1. <<>> \in Seq(Frames) /\ "http" \in Threads BY DEF Threads
  <2> QED BY <1>1, <2>1, PushedFacts DEF TypeOK
<1>4. Other("http") = "main" /\ Other("main") = "http" BY OtherIs DEF Threads
<1>5. /\ stack' \in [Threads -> Seq(Frames)] /\ Len(stack'["http"]) = 1
      /\ SameCall(stack'["http"][1], f)
      /\ stack'["http"][1].crossed <=> stack["main"] # <<>>
      /\ Len(stack'["main"]) = Len(stack["main"])
      /\ \A k \in 1 .. Len(stack["main"]) :
           SameCall(stack'["main"][k], stack["main"][k]) /\ stack'["main"][k].crossed
  <2>1. Len(<<>>) = 0 /\ "main" \in Threads \ {"http"} BY DEF Threads
  <2> QED BY <1>3, <1>4, <2>1 DEF HasPushed
<1>6. stack["main"] \in Seq(Frames) /\ stack'["main"] \in Seq(Frames)
      /\ stack'["http"] \in Seq(Frames)
  BY <1>5 DEF TypeOK, Threads
<1>7. stack'["main"] # <<>> => stack["main"] # <<>> BY <1>5, <1>6
<1>8. ASSUME NEW k \in DOMAIN stack'["http"]
      PROVE  /\ FrameRight(stack["http"][k])'
             /\ stack'["main"] # <<>> => stack'["http"][k].crossed
             /\ stack'["http"][k].kind # "failure"
  <2>1. k = 1 BY <1>5, <1>6
  <2> QED BY <1>1, <1>2, <1>5, <1>7, <2>1 DEF FrameRight, SameCall
<1>9. ASSUME NEW k \in DOMAIN stack'["main"]
      PROVE  /\ FrameRight(stack["main"][k])' /\ stack'["main"][k].crossed
             /\ stack'["main"][k].kind = "failure" => k < Len(stack'["main"])
  <2>1. k \in 1 .. Len(stack["main"]) /\ k \in DOMAIN stack["main"] BY <1>5, <1>6
  <2>2. stack["main"][k].kind = "failure" => k < Len(stack["main"])
    BY <2>1 DEF FallbacksAbove, Threads
  <2> QED BY <1>5, <2>1, <2>2 DEF FrameRight, SameCall
<1>10. FallbacksAbove' BY <1>8, <1>9 DEF FallbacksAbove, Threads
<1>11. FramesRight' BY <1>4, <1>8, <1>9 DEF FramesRight, Threads
<1> QED BY <1>1, <1>5, <1>10, <1>11 DEF ErrorsOwnUnlessMixed

LEMMA DigestTickRight ==
  ASSUME TypeOK, FallbacksAbove, FramesRight, ErrorsOwnUnlessMixed, Actions_Digest_Tick
  PROVE  FallbacksAbove' /\ FramesRight' /\ ErrorsOwnUnlessMixed'
<1> DEFINE X == [k \in 1..Len(stack["http"]) |-> [stack["http"][k] EXCEPT !.crossed = TRUE]]
<1>1. /\ cur' = cur /\ stack["main"] = <<>>
      /\ "action" \in strayed' => "action" \in strayed
      /\ stack' = [stack EXCEPT !["http"] = X]
  BY DigestTickTyped
<1>2. stack \in [Threads -> Seq(Frames)] /\ stack["http"] \in Seq(Frames)
  BY DEF TypeOK, Threads
<1>3. stack'["main"] = <<>> /\ stack'["http"] = X BY <1>1, <1>2 DEF Threads
<1>4. DOMAIN X = DOMAIN stack["http"] /\ Len(X) = Len(stack["http"])
  <2>1. DOMAIN X = 1 .. Len(stack["http"]) /\ Len(stack["http"]) \in Nat BY <1>2
  <2> HIDE DEF X
  <2> QED BY <1>2, <2>1
<1>5. ASSUME NEW k \in DOMAIN stack'["http"]
      PROVE  /\ FrameRight(stack["http"][k])' /\ stack'["http"][k].crossed
             /\ stack'["http"][k].kind = "failure" => k < Len(stack'["http"])
  <2>1. k \in DOMAIN stack["http"] /\ stack["http"][k] \in Frames BY <1>2, <1>3, <1>4
  <2>2. stack'["http"][k] = [stack["http"][k] EXCEPT !.crossed = TRUE] BY <1>2, <1>3, <2>1
  <2>3. /\ stack'["http"][k].crossed = TRUE
        /\ stack'["http"][k].kind = stack["http"][k].kind
    BY <2>1, <2>2 DEF Frames
  <2>4. stack["http"][k].kind = "failure" => k < Len(stack["http"])
    BY <2>1 DEF FallbacksAbove, Threads
  <2> QED BY <1>3, <1>4, <2>3, <2>4 DEF FrameRight
<1>6. Other("http") = "main" /\ Other("main") = "http" BY OtherIs DEF Threads
<1>7. DOMAIN stack'["main"] = {} BY <1>3
<1> HIDE DEF X
<1>8. FallbacksAbove' BY <1>5, <1>7 DEF FallbacksAbove, Threads
<1>9. FramesRight' BY <1>5, <1>6, <1>7 DEF FramesRight, Threads
<1> QED BY <1>1, <1>8, <1>9 DEF ErrorsOwnUnlessMixed

LEMMA TypesFromParts ==
  ASSUME OthersTyped, stack' \in [Threads -> Seq(Frames)], cur' \in Pointers, gerr' \in BOOLEAN,
         strayed' \subseteq {"action", "digest"}
  PROVE  TypeOK'
BY DEF OthersTyped, TypeOK

\* The inductive invariant of the types and the globals.
Sound == TypeOK /\ GlobalsRight

LEMMA SoundInit == Init => Sound
<1> SUFFICES ASSUME Init PROVE Sound OBVIOUS
<1>1. NULL \in Pointers BY DEF NULL, Pointers, RuleIds, NoRun
<1>2. stack \in [Threads -> Seq(Frames)] BY DEF Init
<1>3. /\ digest \in [DOMAIN digest -> Buffer] /\ DOMAIN digest = {}
      /\ IsFiniteSet({}) /\ Cardinality({}) = 0
  BY FS_EmptySet DEF Init
<1>4. TypeOK
  <2>1. /\ timers \subseteq Timers /\ cur \in Pointers /\ gerr \in BOOLEAN
        /\ enabled \subseteq Rules /\ strayed \subseteq {"action", "digest"}
    BY <1>1 DEF Init
  <2>2. runs \in Seq(Runs) /\ tests \in Seq([erred : BOOLEAN, failed : BOOLEAN, crossed : BOOLEAN])
    BY DEF Init
  <2>3. calls \in 0 .. MaxFires /\ 0 <= MAX_DIGEST_BUFFERS BY ActionParams DEF Init
  <2>4. DOMAIN digest \subseteq Rules /\ IsFiniteSet(DOMAIN digest)
        /\ Cardinality(DOMAIN digest) <= MAX_DIGEST_BUFFERS
    BY <1>3, <2>3
  <2> QED BY <1>2, <1>3, <2>1, <2>2, <2>3, <2>4 DEF TypeOK
<1>5. \A t \in Threads : DOMAIN stack[t] = {} BY DEF Init
<1>6. GlobalsRight
  BY <1>5 DEF Init, GlobalsRight, FallbacksAbove, FramesRight, ErrorsOwnUnlessMixed,
              VerdictsRightUnlessCrossed
<1> QED BY <1>4, <1>6 DEF Sound

LEMMA SoundMoves ==
  ASSUME Sound, NEW t \in Threads, Moves(t), OthersTyped, VerdictsRightUnlessCrossed'
  PROVE  Sound'
<1>1. TypeOK /\ FallbacksAbove /\ FramesRight /\ ErrorsOwnUnlessMixed
  BY DEF Sound, GlobalsRight
<1>2. TypeOK' BY <1>1, MovesTyped, TypesFromParts
<1>3. FallbacksAbove' /\ FramesRight' /\ ErrorsOwnUnlessMixed' BY <1>1, MovesRight
<1> QED BY <1>2, <1>3 DEF Sound, GlobalsRight

LEMMA SoundNext == Sound /\ [Next]_vars => Sound'
<1> SUFFICES ASSUME Sound, [Next]_vars PROVE Sound' OBVIOUS
<1>1. /\ TypeOK /\ FallbacksAbove /\ FramesRight /\ ErrorsOwnUnlessMixed
      /\ VerdictsRightUnlessCrossed
  BY DEF Sound, GlobalsRight
<1>2. tests' = tests => VerdictsRightUnlessCrossed' BY <1>1 DEF VerdictsRightUnlessCrossed
<1>3. ASSUME NEW t \in Threads, Step(t) PROVE Sound'
  <2>1. VerdictsRightUnlessCrossed'
    <3>1. CASE Return(t) BY <1>1, <3>1, AnswersRight
    <3>2. CASE ~Return(t)
      <4>1. tests' = tests
        BY <1>3, <3>2 DEF Step, DoDelay, DoRequest, DoAlpv, DoRunRule, DoSetRuleEnabled,
                          DoQuery, DoDigest
      <4> QED BY <1>2, <4>1
    <3> QED BY <3>1, <3>2
  <2> QED BY <1>1, <1>3, <2>1, StepMoves, SoundMoves
<1>4. ASSUME NEW t \in Threads, NEW r \in Rules, Fire(t, r) PROVE Sound'
  <2>1. tests' = tests BY <1>4 DEF Fire
  <2> QED BY <1>1, <1>2, <1>4, <2>1, FireTyped, SoundMoves
<1>5. ASSUME NEW a \in TestActions, Actions_Test(a) PROVE Sound'
  <2>1. tests' = tests BY <1>5 DEF Actions_Test
  <2>2. strayed' = strayed /\ gerr' = FALSE /\ OthersTyped BY <1>1, <1>5, TestTyped
  <2>3. /\ stack' \in [Threads -> Seq(Frames)] /\ cur' \in Pointers
        /\ FallbacksAbove' /\ FramesRight' /\ ErrorsOwnUnlessMixed'
    BY <1>1, <1>5, TestRight
  <2>4. strayed' \subseteq {"action", "digest"} /\ gerr' \in BOOLEAN BY <1>1, <2>2 DEF TypeOK
  <2>5. TypeOK' BY <2>2, <2>3, <2>4, TypesFromParts
  <2> QED BY <1>2, <2>1, <2>3, <2>5 DEF Sound, GlobalsRight
<1>6. CASE Resume
  <2>1. tests' = tests BY <1>6 DEF Resume
  <2>2. "main" \in Threads BY DEF Threads
  <2> QED BY <1>1, <1>2, <1>6, <2>1, <2>2, ResumeTyped, SoundMoves
<1>7. CASE Tick
  <2>1. tests' = tests BY <1>7 DEF Tick
  <2>2. OthersTyped /\ UNCHANGED <<stack, cur, gerr, strayed>> BY <1>1, <1>7, TickTyped
  <2>3. TypeOK' BY <1>1, <2>2 DEF TypeOK, OthersTyped
  <2>4. FallbacksAbove' /\ FramesRight' /\ ErrorsOwnUnlessMixed'
    BY <1>1, <2>2 DEF FallbacksAbove, FramesRight, FrameRight, ErrorsOwnUnlessMixed
  <2> QED BY <1>2, <2>1, <2>3, <2>4 DEF Sound, GlobalsRight
<1>8. CASE Actions_Digest_Tick
  <2>1. tests' = tests BY <1>8 DEF Actions_Digest_Tick
  <2>2. /\ OthersTyped /\ cur' = cur /\ gerr' \in BOOLEAN
        /\ stack' \in [Threads -> Seq(Frames)] /\ strayed' \subseteq {"action", "digest"}
    BY <1>1, <1>8, DigestTickTyped
  <2>3. TypeOK' BY <1>1, <2>2, TypesFromParts DEF TypeOK
  <2> QED BY <1>1, <1>2, <1>8, <2>1, <2>3, DigestTickRight DEF Sound, GlobalsRight
<1>9. CASE UNCHANGED vars
  <2>1. UNCHANGED <<stack, timers, cur, gerr, enabled, digest, calls, runs, strayed, tests>>
    BY <1>9 DEF vars
  <2>2. TypeOK' BY <1>1, <2>1 DEF TypeOK
  <2>3. FallbacksAbove' /\ FramesRight' /\ ErrorsOwnUnlessMixed'
    BY <1>1, <2>1 DEF FallbacksAbove, FramesRight, FrameRight, ErrorsOwnUnlessMixed
  <2> QED BY <1>2, <2>1, <2>2, <2>3 DEF Sound, GlobalsRight
<1> QED BY <1>3, <1>4, <1>5, <1>6, <1>7, <1>8, <1>9 DEF Next

LEMMA SoundAlways == Spec => []Sound
BY SoundInit, SoundNext, PTL DEF Spec

\* The stacks, the timers, the buffers and the histories have their types and sizes.
THEOREM ActionTypes == Spec => []TypeOK
<1>1. Sound => TypeOK BY DEF Sound
<1> QED BY <1>1, SoundAlways, PTL

\* An error is recorded for the rule whose action failed, unless that list has run another
\* rule before, or the other thread executed actions meanwhile.
THEOREM ErrorsOwn == Spec => []ErrorsOwnUnlessMixed
<1>1. Sound => ErrorsOwnUnlessMixed BY DEF Sound, GlobalsRight
<1> QED BY <1>1, SoundAlways, PTL

\* The test endpoint reports a failure exactly if the tested action recorded an error,
\* unless the main loop executed actions meanwhile.
THEOREM VerdictsRight == Spec => []VerdictsRightUnlessCrossed
<1>1. Sound => VerdictsRightUnlessCrossed BY DEF Sound, GlobalsRight
<1> QED BY <1>1, SoundAlways, PTL

(***************************************************************************)
(* The lists.                                                              *)
(***************************************************************************)

\* Where the rest of a list can be: on a stack, counted from the bottom, or in a timer; with
\* stacks S and timers T.
PlacesOf(S, T) ==
  (UNION {{<<t, d>> : d \in 1 .. Len(S[t])} : t \in Threads}) \cup {<<"timer", w>> : w \in T}

AtDepth(S, t, d) == S[t][Len(S[t]) - d + 1]
Item(f, i)       == [run |-> f.run, acts |-> f.acts, i |-> i, td |-> f.td]
HeldOf(S, T) ==
  [x \in PlacesOf(S, T) |->
     IF x[1] \in Threads THEN Item(AtDepth(S, x[1], x[2]), AtDepth(S, x[1], x[2]).i)
     ELSE Item(x[2], 1)]

\* The list is not done, and belongs to a firing.
Open(h) == h.run # NoRun /\ h.i <= Len(h.acts)
NextOf(h) == h.acts[h.i]

\* h is the rest of L from its q-th action on.
RestOf(h, L, q) ==
  Len(L) - q = Len(h.acts) - h.i /\ \A d \in 0 .. Len(L) - q : h.acts[h.i + d] = L[q + d]

\* Of L, exactly the actions before h are done, with no more data than h has; and if L is
\* an on_failure list, its request has failed.
PlacedIn(h, run, L, q) ==
  /\ RestOf(h, L, q)
  /\ \A p \in DOMAIN L : L[p].tag \in DoneIn(run) <=> p < q
  /\ \A j \in DOMAIN run.did : run.did[j].tag \in Tags(L) /\ run.did[j].td => h.td
  /\ \A M \in Lists[run.rule] : \A m \in DOMAIN M :
       M[m].onFailure = L => M[m].tag \in run.failed

Placed(h, run) == \E L \in Lists[run.rule] : \E q \in DOMAIN L : PlacedIn(h, run, L, q)

\* The history of one firing is in order.
RunRight(run) ==
  /\ run.failed \subseteq DoneIn(run)
  /\ \A j, k \in DOMAIN run.did : run.did[j].tag = run.did[k].tag => j = k
  /\ \A L \in Lists[run.rule] : \A q \in DOMAIN L :
       /\ \A k \in DOMAIN run.did : run.did[k].tag = L[q].tag =>
            \A p \in 1..q - 1 : \E j \in 1..k - 1 : run.did[j].tag = L[p].tag
       /\ DoneIn(run) \cap Tags(L[q].onFailure) # {} => L[q].tag \in run.failed
  /\ \A L \in Lists[run.rule] : \A k \in DOMAIN run.did : \A j \in 1..k - 1 :
       run.did[j].tag \in Tags(L) /\ run.did[k].tag \in Tags(L) /\ run.did[j].td
         => run.did[k].td

\* H: what is held; R: the histories.  Nothing is held twice.
Orderly(H, R) ==
  /\ \A x \in DOMAIN H : H[x].run = NoRun \/ H[x].run \in DOMAIN R
  /\ \A n \in DOMAIN R : RunRight(R[n])
  /\ \A x \in DOMAIN H : Open(H[x]) => Placed(H[x], R[H[x].run])
  /\ \A x, y \in DOMAIN H :
       Open(H[x]) /\ Open(H[y]) /\ H[x].run = H[y].run /\ NextOf(H[x]).tag = NextOf(H[y]).tag
         => x = y

\* An on_failure list has all the trigger data of the list below it.
SharedDown(s) ==
  \A k \in 1 .. Len(s) - 1 : s[k].kind = "failure" /\ s[k + 1].td => s[k].td
SharedIn(S) == \A t \in Threads : SharedDown(S[t])
DataShared == SharedIn(stack)

ListsRight == Orderly(HeldOf(stack, timers), runs) /\ DataShared

Items == [run : Nat, acts : Seq(Actions), i : Nat \ {0}, td : BOOLEAN]

\* A tag is at one place of one list of a rule, and so is the action of an on_failure list.
LEMMA TagsUnique ==
  ASSUME NEW r \in Rules, NEW L \in Lists[r], NEW M \in Lists[r], NEW i \in DOMAIN L,
         NEW j \in DOMAIN M, L[i].tag = M[j].tag
  PROVE  L = M /\ i = j
BY ProgramParams

LEMMA FallbackListed ==
  ASSUME NEW r \in Rules, NEW L \in Lists[r], NEW i \in DOMAIN L, L[i].onFailure # <<>>
  PROVE  /\ L[i].onFailure \in Lists[r] /\ L[i].onFailure # Program[r]
         /\ \A M \in Lists[r] : \A j \in DOMAIN M :
              M[j].onFailure = L[i].onFailure => M = L /\ j = i
BY ProgramParams

LEMMA ListTyped ==
  ASSUME NEW r \in Rules, NEW L \in Lists[r]
  PROVE  L \in Seq(Actions) /\ Len(L) \in Nat /\ DOMAIN L = 1 .. Len(L)
         /\ \A q \in DOMAIN L : L[q].onFailure \in Seq(Actions)
<1>1. L \in Seq(Actions) BY ProgramParams
<1>2. \A q \in DOMAIN L : L[q] \in Actions BY <1>1
<1> QED BY <1>1, <1>2, ActionParams

\* The history with one more action done.
DidMore(run, run2, tag, td, failed) ==
  /\ run2.rule = run.rule
  /\ run2.did = Append(run.did, [tag |-> tag, td |-> td])
  /\ run2.failed = run.failed \cup (IF failed THEN {tag} ELSE {})

LEMMA DoneOneMore ==
  ASSUME NEW run \in Runs, NEW run2, NEW tag \in Names, NEW td \in BOOLEAN,
         run2.did = Append(run.did, [tag |-> tag, td |-> td])
  PROVE  /\ DOMAIN run.did = 1 .. Len(run.did) /\ Len(run.did) \in Nat
         /\ DOMAIN run2.did = 1 .. Len(run.did) + 1
         /\ \A k \in DOMAIN run.did : run2.did[k] = run.did[k]
         /\ run2.did[Len(run.did) + 1].tag = tag /\ run2.did[Len(run.did) + 1].td = td
         /\ DoneIn(run2) = DoneIn(run) \cup {tag}
<1> DEFINE D == run.did
           n == Len(run.did)
           e == [tag |-> tag, td |-> td]
<1>1. D \in Seq([tag : Names, td : BOOLEAN]) /\ e \in [tag : Names, td : BOOLEAN]
      /\ e.tag = tag /\ e.td = td
  BY DEF Runs
<1> HIDE DEF e
<1>2. /\ DOMAIN D = 1 .. n /\ n \in Nat /\ DOMAIN run2.did = 1 .. n + 1
      /\ \A k \in 1 .. n : run2.did[k] = D[k]
      /\ run2.did[n + 1] = e
  BY <1>1 DEF e
<1> HIDE DEF D, n
<1>3. DoneIn(run2) = DoneIn(run) \cup {tag}
  <2>1. \A k \in 1 .. n + 1 : k \in 1 .. n \/ k = n + 1 BY <1>2
  <2>2. 1 .. n \subseteq 1 .. n + 1 /\ n + 1 \in 1 .. n + 1 BY <1>2
  <2>3. DoneIn(run2) = {run2.did[j].tag : j \in 1 .. n + 1} BY <1>2 DEF DoneIn
  <2>4. DoneIn(run) = {D[j].tag : j \in 1 .. n} BY <1>2 DEF DoneIn, D
  <2> QED BY <1>1, <1>2, <2>1, <2>2, <2>3, <2>4
<1> QED BY <1>1, <1>2, <1>3 DEF D, n

\* The action L[q] of what is left of list L in h is done, with trigger data td.
Acting(h, run, L, q, td) ==
  L \in Lists[run.rule] /\ q \in DOMAIN L /\ PlacedIn(h, run, L, q) /\ (h.td => td)

\* An action of the list that is next in line has been done.
LEMMA RunActed ==
  ASSUME NEW run \in Runs, RunRight(run), NEW h, NEW L, NEW q, NEW td \in BOOLEAN,
         NEW failed \in BOOLEAN, NEW run2, Acting(h, run, L, q, td),
         DidMore(run, run2, L[q].tag, td, failed)
  PROVE  RunRight(run2) /\ DoneIn(run2) = DoneIn(run) \cup {L[q].tag}
         /\ L[q].tag \notin DoneIn(run)
<1> L \in Lists[run.rule] /\ q \in DOMAIN L /\ PlacedIn(h, run, L, q) /\ (h.td => td)
  BY DEF Acting
<1> /\ run2.rule = run.rule
    /\ run2.did = Append(run.did, [tag |-> L[q].tag, td |-> td])
    /\ run2.failed = run.failed \cup (IF failed THEN {L[q].tag} ELSE {})
  BY DEF DidMore
<1> DEFINE a == L[q].tag
           n == Len(run.did)
           D == run.did
           E == run2.did
           r == run.rule
<1>1. r \in Rules BY DEF Runs
<1>2. L[q] \in Actions /\ a \in Names
  <2>1. L[q] \in Actions BY <1>1, ListTyped
  <2> QED BY <2>1 DEF Names
<1>3. /\ DOMAIN D = 1 .. n /\ n \in Nat /\ DOMAIN E = 1 .. n + 1
      /\ \A k \in DOMAIN D : E[k] = D[k]
      /\ E[n + 1].tag = a /\ E[n + 1].td = td
      /\ DoneIn(run2) = DoneIn(run) \cup {a}
  BY <1>2, DoneOneMore
<1>4. a \notin DoneIn(run) /\ q \in Nat /\ Len(L) \in Nat /\ DOMAIN L = 1 .. Len(L)
  <2>1. Len(L) \in Nat /\ DOMAIN L = 1 .. Len(L) BY <1>1, ListTyped
  <2>2. ~(q < q) BY <2>1
  <2> QED BY <2>1, <2>2 DEF PlacedIn
<1>5. \A k \in DOMAIN E : k \in DOMAIN D \/ k = n + 1 BY <1>3
<1>6. run2.failed \subseteq DoneIn(run2) BY <1>3 DEF RunRight
<1>7. \A k \in DOMAIN D : D[k].tag \in DoneIn(run) BY DEF DoneIn
<1>8. ASSUME NEW j \in DOMAIN E, NEW k \in DOMAIN E, E[j].tag = E[k].tag PROVE j = k
  <2>1. CASE j \in DOMAIN D /\ k \in DOMAIN D BY <1>3, <1>8, <2>1 DEF RunRight
  <2>2. CASE j = n + 1 /\ k \in DOMAIN D BY <1>3, <1>4, <1>7, <1>8, <2>2
  <2>3. CASE j \in DOMAIN D /\ k = n + 1 BY <1>3, <1>4, <1>7, <1>8, <2>3
  <2> QED BY <1>5, <2>1, <2>2, <2>3
<1>9. ASSUME NEW M \in Lists[r], NEW m \in DOMAIN M, NEW k \in DOMAIN E, E[k].tag = M[m].tag,
             NEW p \in 1 .. m - 1
      PROVE  \E j \in 1 .. k - 1 : E[j].tag = M[p].tag
  <2>1. CASE k \in DOMAIN D
    <3>1. PICK j \in 1 .. k - 1 : D[j].tag = M[p].tag BY <1>3, <1>9, <2>1 DEF RunRight
    <3>2. j \in DOMAIN D BY <1>3, <2>1
    <3> QED BY <1>3, <3>1, <3>2
  <2>2. CASE k = n + 1
    <3>1. M = L /\ m = q BY <1>1, <1>3, <1>9, <2>2, TagsUnique
    <3>2. p \in DOMAIN L /\ p < q BY <1>4, <3>1
    <3>3. L[p].tag \in DoneIn(run) BY <3>2 DEF PlacedIn
    <3>4. PICK j \in DOMAIN D : D[j].tag = L[p].tag BY <3>3 DEF DoneIn
    <3>5. j \in 1 .. k - 1 BY <1>3, <2>2
    <3> QED BY <1>3, <3>1, <3>4, <3>5
  <2> QED BY <1>5, <2>1, <2>2
<1>10. ASSUME NEW M \in Lists[r], NEW m \in DOMAIN M,
              DoneIn(run2) \cap Tags(M[m].onFailure) # {}
       PROVE  M[m].tag \in run2.failed
  <2>1. CASE DoneIn(run) \cap Tags(M[m].onFailure) # {} BY <2>1 DEF RunRight
  <2>2. CASE a \in Tags(M[m].onFailure)
    <3>1. PICK f \in DOMAIN M[m].onFailure : M[m].onFailure[f].tag = a BY <2>2 DEF Tags
    <3>2. M[m].onFailure # <<>> BY <3>1
    <3>3. M[m].onFailure \in Lists[r] BY <1>1, <3>2, FallbackListed
    <3>4. M[m].onFailure = L BY <1>1, <3>1, <3>3, TagsUnique
    <3>5. M[m].tag \in run.failed BY <3>4 DEF PlacedIn
    <3> QED BY <3>5
  <2> QED BY <1>3, <1>10, <2>1, <2>2
<1>11. ASSUME NEW M \in Lists[r], NEW k \in DOMAIN E, NEW j \in 1 .. k - 1,
              E[j].tag \in Tags(M), E[k].tag \in Tags(M), E[j].td
       PROVE  E[k].td
  <2>1. CASE k \in DOMAIN D
    <3>1. j \in DOMAIN D BY <1>3, <2>1
    <3> QED BY <1>3, <1>11, <2>1, <3>1 DEF RunRight
  <2>2. CASE k = n + 1
    <3>1. j \in DOMAIN D BY <1>3, <2>2
    <3>2. PICK m \in DOMAIN M : M[m].tag = a BY <1>3, <1>11, <2>2 DEF Tags
    <3>3. M = L BY <1>1, <3>2, TagsUnique
    <3>4. D[j].tag \in Tags(L) /\ D[j].td BY <1>3, <1>11, <3>1, <3>3
    <3>5. h.td BY <3>1, <3>4 DEF PlacedIn
    <3> QED BY <1>3, <2>2, <3>5
  <2> QED BY <1>5, <2>1, <2>2
<1>12. RunRight(run2) BY SMTT(40), <1>6, <1>8, <1>9, <1>10, <1>11 DEF RunRight
<1> QED BY <1>3, <1>4, <1>12

\* What is held elsewhere stays where it is.
LEMMA OthersPlaced ==
  ASSUME NEW run \in Runs, NEW h, NEW g, NEW L \in Lists[run.rule], NEW q \in DOMAIN L,
         PlacedIn(h, run, L, q), NEW M \in Lists[run.rule], NEW m \in DOMAIN M,
         PlacedIn(g, run, M, m), M[m].tag # L[q].tag, NEW td \in BOOLEAN,
         NEW failed \in BOOLEAN, NEW run2, DidMore(run, run2, L[q].tag, td, failed)
  PROVE  PlacedIn(g, run2, M, m)
<1> /\ run2.rule = run.rule
    /\ run2.did = Append(run.did, [tag |-> L[q].tag, td |-> td])
    /\ run2.failed = run.failed \cup (IF failed THEN {L[q].tag} ELSE {})
  BY DEF DidMore
<1> DEFINE r == run.rule
           a == L[q].tag
<1>1. r \in Rules BY DEF Runs
<1>2. a \in Names
  <2>1. L[q] \in Actions BY <1>1, ListTyped
  <2> QED BY <2>1 DEF Names
<1>3. /\ DOMAIN run.did = 1 .. Len(run.did) /\ Len(run.did) \in Nat
      /\ DOMAIN run2.did = 1 .. Len(run.did) + 1
      /\ \A k \in DOMAIN run.did : run2.did[k] = run.did[k]
      /\ run2.did[Len(run.did) + 1].tag = a
      /\ DoneIn(run2) = DoneIn(run) \cup {a}
  BY <1>2, DoneOneMore
<1>4. M # L
  <2>1. SUFFICES ASSUME M = L PROVE FALSE OBVIOUS
  <2>2. Len(L) \in Nat /\ DOMAIN L = 1 .. Len(L) BY <1>1, ListTyped
  <2>3. \A p \in DOMAIN L : (p < q) <=> (p < m) BY <2>1 DEF PlacedIn
  <2>4. q \in Int /\ m \in Int /\ q \in DOMAIN L /\ m \in DOMAIN L BY <2>1, <2>2
  <2>5. ~(q < m) /\ ~(m < q) BY <2>3, <2>4
  <2>6. q = m BY <2>4, <2>5
  <2> QED BY <2>1, <2>6
<1>5. \A p \in DOMAIN M : M[p].tag # a BY <1>1, <1>4, TagsUnique
<1>6. a \notin Tags(M) BY <1>5 DEF Tags
<1>7. \A p \in DOMAIN M : M[p].tag \in DoneIn(run2) <=> p < m BY <1>3, <1>5 DEF PlacedIn
<1>8. ASSUME NEW j \in DOMAIN run2.did, run2.did[j].tag \in Tags(M), run2.did[j].td
      PROVE  g.td
  <2>1. j \in DOMAIN run.did BY <1>3, <1>6, <1>8
  <2> QED BY <1>3, <1>8, <2>1 DEF PlacedIn
<1>9. \A K \in Lists[run2.rule] : \A k \in DOMAIN K :
        K[k].onFailure = M => K[k].tag \in run2.failed
  BY DEF PlacedIn
<1> QED BY <1>7, <1>8, <1>9 DEF PlacedIn

\* The list itself is one action further.
LEMMA ActedPlaced ==
  ASSUME NEW run \in Runs, NEW h \in Items, NEW L \in Lists[run.rule], NEW q \in DOMAIN L,
         PlacedIn(h, run, L, q), NEW td \in BOOLEAN, h.td => td,
         NEW failed \in BOOLEAN, NEW run2, DidMore(run, run2, L[q].tag, td, failed),
         NEW g, g = [run |-> h.run, acts |-> h.acts, i |-> h.i + 1, td |-> td],
         h.i <= Len(h.acts), g.i <= Len(g.acts)
  PROVE  q + 1 \in DOMAIN L /\ PlacedIn(g, run2, L, q + 1)
<1> /\ run2.rule = run.rule
    /\ run2.did = Append(run.did, [tag |-> L[q].tag, td |-> td])
    /\ run2.failed = run.failed \cup (IF failed THEN {L[q].tag} ELSE {})
  BY DEF DidMore
<1> DEFINE r == run.rule
           a == L[q].tag
<1>1. r \in Rules BY DEF Runs
<1>2. a \in Names
  <2>1. L[q] \in Actions BY <1>1, ListTyped
  <2> QED BY <2>1 DEF Names
<1>3. /\ DOMAIN run.did = 1 .. Len(run.did) /\ Len(run.did) \in Nat
      /\ DOMAIN run2.did = 1 .. Len(run.did) + 1
      /\ \A k \in DOMAIN run.did : run2.did[k] = run.did[k]
      /\ run2.did[Len(run.did) + 1].tag = a /\ run2.did[Len(run.did) + 1].td = td
      /\ DoneIn(run2) = DoneIn(run) \cup {a}
  BY <1>2, DoneOneMore
<1>4. Len(L) \in Nat /\ DOMAIN L = 1 .. Len(L) /\ q \in Nat BY <1>1, ListTyped
<1>5. g.acts = h.acts /\ g.i = h.i + 1 /\ g.td = td OBVIOUS
<1>6. h.i \in Nat /\ Len(h.acts) \in Nat /\ Len(L) - q = Len(h.acts) - h.i BY DEF Items, PlacedIn, RestOf
<1>7. q + 1 \in DOMAIN L BY <1>4, <1>5, <1>6
<1>8. RestOf(g, L, q + 1)
  <2>1. Len(L) - (q + 1) = Len(g.acts) - g.i BY <1>4, <1>5, <1>6
  <2>2. ASSUME NEW d \in 0 .. Len(L) - (q + 1) PROVE g.acts[g.i + d] = L[(q + 1) + d]
    <3>0. d \in Nat /\ d <= Len(L) - (q + 1) BY <1>4
    <3>1. d + 1 \in 0 .. Len(L) - q /\ h.i + (d + 1) = g.i + d /\ q + (d + 1) = (q + 1) + d
      <4>0. \A l, p, e \in Nat : e <= l - (p + 1) =>
              e + 1 \in 0 .. l - p /\ p + (e + 1) = (p + 1) + e
        OBVIOUS
      <4>1. d + 1 \in 0 .. Len(L) - q /\ q + (d + 1) = (q + 1) + d BY Zenon, <1>4, <3>0, <4>0
      <4>2. \A i \in Nat : i + (d + 1) = (i + 1) + d BY <3>0
      <4>3. h.i + (d + 1) = (h.i + 1) + d BY <1>6, <4>2
      <4> QED BY <1>5, <4>1, <4>3
    <3>2. h.acts[h.i + (d + 1)] = L[q + (d + 1)] BY <3>1 DEF PlacedIn, RestOf
    <3> QED BY <1>5, <3>1, <3>2
  <2> QED BY <2>1, <2>2 DEF RestOf
<1>9. ASSUME NEW p \in DOMAIN L PROVE L[p].tag \in DoneIn(run2) <=> p < q + 1
  <2>1. L[p].tag = a => p = q BY <1>1, TagsUnique
  <2>2. L[p].tag \in DoneIn(run) <=> p < q BY DEF PlacedIn
  <2>3. p < q + 1 <=> p < q \/ p = q BY <1>4
  <2> QED BY <1>3, <2>1, <2>2, <2>3
<1>10. ASSUME NEW j \in DOMAIN run2.did, run2.did[j].tag \in Tags(L), run2.did[j].td
       PROVE  g.td
  <2>1. CASE j \in DOMAIN run.did
    <3>1. h.td BY <1>3, <1>10, <2>1 DEF PlacedIn
    <3> QED BY <1>5, <3>1
  <2>2. CASE j = Len(run.did) + 1 BY <1>3, <1>5, <1>10, <2>2
  <2> QED BY <1>3, <2>1, <2>2
<1>11. \A K \in Lists[run2.rule] : \A k \in DOMAIN K :
         K[k].onFailure = L => K[k].tag \in run2.failed
  BY DEF PlacedIn
<1> QED BY <1>7, <1>8, <1>9, <1>10, <1>11 DEF PlacedIn

\* The on_failure list of an action that is next in line is nowhere.
LEMMA FallbackElsewhere ==
  ASSUME NEW run \in Runs, RunRight(run), NEW h, NEW L \in Lists[run.rule], NEW q \in DOMAIN L,
         PlacedIn(h, run, L, q), NEW g, NEW M \in Lists[run.rule], NEW m \in DOMAIN M,
         PlacedIn(g, run, M, m)
  PROVE  M # L[q].onFailure /\ L[q].tag \notin run.failed
<1>1. run.rule \in Rules BY DEF Runs
<1>2. Len(L) \in Nat /\ DOMAIN L = 1 .. Len(L) /\ ~(q < q) BY <1>1, ListTyped
<1>3. L[q].tag \notin DoneIn(run) BY <1>2 DEF PlacedIn
<1>4. L[q].tag \notin run.failed BY <1>3 DEF RunRight
<1>5. M = L[q].onFailure => L[q].tag \in run.failed BY DEF PlacedIn
<1> QED BY <1>4, <1>5

\* It has not been started.
LEMMA FallbackUntouched ==
  ASSUME NEW run \in Runs, RunRight(run), NEW h, NEW L \in Lists[run.rule], NEW q \in DOMAIN L,
         PlacedIn(h, run, L, q), L[q].onFailure # <<>>
  PROVE  /\ L[q].onFailure \in Lists[run.rule] /\ L[q].onFailure # L
         /\ 1 \in DOMAIN L[q].onFailure
         /\ \A p \in DOMAIN L[q].onFailure : L[q].onFailure[p].tag \notin DoneIn(run)
<1> DEFINE r == run.rule
           F == L[q].onFailure
<1>1. r \in Rules BY DEF Runs
<1>2. F \in Lists[r] /\ F \in Seq(Actions) BY <1>1, FallbackListed, ListTyped
<1>3. 1 \in DOMAIN F BY <1>2
<1>4. L # F /\ L[q].tag \notin run.failed BY FallbackElsewhere
<1>5. DoneIn(run) \cap Tags(F) = {} BY <1>4 DEF RunRight
<1>6. \A p \in DOMAIN F : F[p].tag \notin DoneIn(run) BY <1>5 DEF Tags
<1> HIDE DEF F
<1> QED BY <1>2, <1>3, <1>4, <1>6 DEF F

LEMMA FallbackPlaced ==
  ASSUME NEW run \in Runs, RunRight(run), NEW h, NEW L \in Lists[run.rule], NEW q \in DOMAIN L,
         PlacedIn(h, run, L, q), L[q].onFailure # <<>>, NEW td \in BOOLEAN,
         NEW run2, DidMore(run, run2, L[q].tag, td, TRUE),
         NEW g, g.acts = L[q].onFailure, g.i = 1
  PROVE  PlacedIn(g, run2, L[q].onFailure, 1)
<1> /\ run2.rule = run.rule
    /\ run2.did = Append(run.did, [tag |-> L[q].tag, td |-> td])
    /\ run2.failed = run.failed \cup {L[q].tag}
  BY DEF DidMore
<1> DEFINE r == run.rule
           a == L[q].tag
           F == L[q].onFailure
<1>1. r \in Rules BY DEF Runs
<1>2. a \in Names
  <2>1. L[q] \in Actions BY <1>1, ListTyped
  <2> QED BY <2>1 DEF Names
<1>3. /\ DOMAIN run.did = 1 .. Len(run.did) /\ Len(run.did) \in Nat
      /\ DOMAIN run2.did = 1 .. Len(run.did) + 1
      /\ \A k \in DOMAIN run.did : run2.did[k] = run.did[k]
      /\ run2.did[Len(run.did) + 1].tag = a
      /\ DoneIn(run2) = DoneIn(run) \cup {a}
  BY <1>2, DoneOneMore
<1>4. /\ F \in Lists[r] /\ F # L /\ 1 \in DOMAIN F
      /\ \A p \in DOMAIN F : F[p].tag \notin DoneIn(run)
  BY ZenonT(40), FallbackUntouched
<1>5. Len(F) \in Nat /\ DOMAIN F = 1 .. Len(F) BY <1>1, <1>4, ListTyped
<1>6. \A p \in DOMAIN F : F[p].tag # a BY <1>1, <1>4, TagsUnique
<1>7. \A p \in DOMAIN F : F[p].tag \notin DoneIn(run2) BY <1>3, <1>4, <1>6
<1>8. \A p \in DOMAIN F : F[p].tag \in DoneIn(run2) <=> p < 1
  <2>1. \A p \in DOMAIN F : ~(p < 1) BY <1>5
  <2> QED BY <1>7, <2>1
<1>9. ASSUME NEW j \in DOMAIN run2.did PROVE run2.did[j].tag \notin Tags(F)
  <2>1. run2.did[j].tag \in DoneIn(run2) BY DEF DoneIn
  <2> QED BY <1>7, <2>1 DEF Tags
<1>10. ASSUME NEW M \in Lists[r], NEW m \in DOMAIN M, M[m].onFailure = F
       PROVE  M[m].tag \in run2.failed
  <2>1. M = L /\ m = q BY <1>1, <1>10, FallbackListed
  <2> QED BY <2>1
<1>11. g.acts = F OBVIOUS
<1> HIDE DEF F
<1>12. RestOf(g, F, 1)
  <2>1. \A d \in 0 .. Len(F) - 1 : g.acts[g.i + d] = F[1 + d] BY <1>11
  <2> QED BY <1>11, <2>1 DEF RestOf
<1>13. \A j \in DOMAIN run2.did : run2.did[j].tag \in Tags(F) /\ run2.did[j].td => g.td
  BY <1>9
<1>14. PlacedIn(g, run2, F, 1)
  BY <1>8, <1>10, <1>12, <1>13 DEF PlacedIn
<1> QED BY <1>14 DEF F

(***************************************************************************)
(* Everything that is held.                                                *)
(***************************************************************************)

\* The rest of the list is the same, with no less data.
SameRest(h, g) ==
  /\ h.run = g.run /\ Len(h.acts) - h.i = Len(g.acts) - g.i
  /\ \A d \in 0 .. Len(h.acts) - h.i : h.acts[h.i + d] = g.acts[g.i + d]
  /\ g.td => h.td

LEMMA SameRestPlaced ==
  ASSUME NEW h \in Items, NEW g \in Items, SameRest(h, g), Open(h), NEW run \in Runs
  PROVE  /\ Open(g) /\ NextOf(h) = NextOf(g)
         /\ Placed(g, run) => Placed(h, run)
<1>1. /\ h.i \in Nat /\ g.i \in Nat /\ Len(h.acts) \in Nat /\ Len(g.acts) \in Nat
      /\ h.i <= Len(h.acts) /\ h.run # NoRun
  BY DEF Items, Open
<1>2. Len(h.acts) - h.i = Len(g.acts) - g.i /\ h.run = g.run BY DEF SameRest
<1>3. Open(g) BY <1>1, <1>2 DEF Open
<1>4. NextOf(h) = NextOf(g)
  <2>1. 0 \in 0 .. Len(h.acts) - h.i /\ h.i + 0 = h.i /\ g.i + 0 = g.i BY <1>1
  <2>2. h.acts[h.i + 0] = g.acts[g.i + 0] BY <2>1 DEF SameRest
  <2> QED BY <2>1, <2>2 DEF NextOf
<1>5. ASSUME NEW L \in Lists[run.rule], NEW q \in DOMAIN L, PlacedIn(g, run, L, q)
      PROVE  PlacedIn(h, run, L, q)
  <2>1. Len(L) - q = Len(h.acts) - h.i BY <1>2, <1>5 DEF PlacedIn, RestOf
  <2>2. \A d \in 0 .. Len(L) - q : h.acts[h.i + d] = L[q + d]
    BY <1>5, <2>1 DEF PlacedIn, RestOf, SameRest
  <2> QED BY <1>5, <2>1, <2>2 DEF PlacedIn, RestOf, SameRest
<1> QED BY <1>3, <1>4, <1>5 DEF Placed

\* What is held in G at Y was held in H at X, at a place of its own.
ComesFrom(G, Y, H, X, from, R) ==
  /\ \A y \in Y : G[y].run = NoRun \/ G[y].run \in DOMAIN R
  /\ \A y \in Y : Open(G[y]) => from[y] \in X /\ SameRest(G[y], H[from[y]])
  /\ \A y, z \in Y : Open(G[y]) /\ Open(G[z]) /\ from[y] = from[z] => y = z

\* What is held is somewhere else, or is no longer held.
LEMMA Rearranged ==
  ASSUME NEW R \in Seq(Runs), NEW X, NEW H \in [X -> Items], Orderly(H, R),
         NEW Y, NEW G \in [Y -> Items], NEW from, ComesFrom(G, Y, H, X, from, R)
  PROVE  Orderly(G, R)
<1> /\ \A y \in Y : G[y].run = NoRun \/ G[y].run \in DOMAIN R
    /\ \A y \in Y : Open(G[y]) => from[y] \in X /\ SameRest(G[y], H[from[y]])
    /\ \A y, z \in Y : Open(G[y]) /\ Open(G[z]) /\ from[y] = from[z] => y = z
  BY DEF ComesFrom
<1>1. DOMAIN H = X /\ DOMAIN G = Y OBVIOUS
<1>2. ASSUME NEW y \in Y, Open(G[y])
      PROVE  /\ from[y] \in X /\ Open(H[from[y]]) /\ NextOf(G[y]) = NextOf(H[from[y]])
             /\ G[y].run = H[from[y]].run /\ Placed(G[y], R[G[y].run])
  <2>1. from[y] \in X /\ SameRest(G[y], H[from[y]]) BY <1>2
  <2>2. G[y] \in Items /\ H[from[y]] \in Items BY <2>1
  <2>3. G[y].run = H[from[y]].run BY <2>1 DEF SameRest
  <2>4. R[G[y].run] \in Runs
    <3>1. G[y].run \in DOMAIN R BY <1>2 DEF Open
    <3> QED BY <3>1
  <2>5. Open(H[from[y]]) /\ NextOf(G[y]) = NextOf(H[from[y]])
        /\ (Placed(H[from[y]], R[G[y].run]) => Placed(G[y], R[G[y].run]))
    BY <1>2, <2>1, <2>2, <2>4, SameRestPlaced
  <2>6. Placed(H[from[y]], R[H[from[y]].run]) BY <1>1, <2>1, <2>5 DEF Orderly
  <2> QED BY <2>1, <2>3, <2>5, <2>6
<1>3. ASSUME NEW y \in Y, NEW z \in Y, Open(G[y]), Open(G[z]), G[y].run = G[z].run,
             NextOf(G[y]).tag = NextOf(G[z]).tag
      PROVE  y = z
  <2>1. from[y] = from[z] BY <1>1, <1>2, <1>3 DEF Orderly
  <2> QED BY <1>3, <2>1
<1>4. \A n \in DOMAIN R : RunRight(R[n]) BY DEF Orderly
<1> QED BY <1>1, <1>2, <1>3, <1>4 DEF Orderly

\* The history R2 is R after an action of firing n.
Noted(R, R2, n, tag, td, failed) ==
  /\ R2 \in Seq(Runs) /\ DOMAIN R2 = DOMAIN R /\ \A m \in DOMAIN R : m # n => R2[m] = R[m]
  /\ DidMore(R[n], R2[n], tag, td, failed)

LEMMA NotedFacts ==
  ASSUME TypeOK, NEW f \in Frames, NEW a \in Actions, NEW d \in BOOLEAN, NEW e \in BOOLEAN,
         NEW rs, rs = Note(f, a, d, e)
  PROVE  /\ rs \in Seq(Runs) /\ DOMAIN rs = DOMAIN runs
         /\ f.run = NoRun => rs = runs
         /\ f.run \in DOMAIN runs => Noted(runs, rs, f.run, a.tag, d, e)
BY NoteTyped DEF Noted, DidMore

\* A list that may be added: what is left of it is left nowhere else.
Room(g, H, R) ==
  /\ g.run = NoRun \/ g.run \in DOMAIN R
  /\ Open(g) =>
       /\ Placed(g, R[g.run])
       /\ \A x \in DOMAIN H :
            Open(H[x]) /\ H[x].run = g.run => NextOf(H[x]).tag # NextOf(g).tag

\* The on_failure list of action a of firing n.
Fallback(g, n, a) == g.run = n /\ g.acts = a.onFailure /\ g.i = 1
FallbackFits(n, a, H, R) == \A h \in Items : Fallback(h, n, a) => Room(h, H, R)

\* The list at x is one action further, with trigger data td.
AdvancedAt(H, G, x, td) ==
  /\ \A y \in DOMAIN H \ {x} : G[y] = H[y]
  /\ G[x] = [run |-> H[x].run, acts |-> H[x].acts, i |-> H[x].i + 1, td |-> td]

\* The next action of the list at x is done: all else is held as before.
LEMMA Acted ==
  ASSUME NEW R \in Seq(Runs), NEW X, NEW H \in [X -> Items], Orderly(H, R), NEW x0 \in X,
         Open(H[x0]), NEW td \in BOOLEAN, H[x0].td => td, NEW failed \in BOOLEAN,
         NEW R2, Noted(R, R2, H[x0].run, NextOf(H[x0]).tag, td, failed),
         NEW G \in [X -> Items], AdvancedAt(H, G, x0, td)
  PROVE  /\ Orderly(G, R2)
         /\ failed /\ NextOf(H[x0]).onFailure # <<>> =>
              FallbackFits(H[x0].run, NextOf(H[x0]), G, R2)
<1> DEFINE h == H[x0]
           n == h.run
           run == R[n]
           run2 == R2[n]
<1>1. /\ h \in Items /\ DOMAIN H = X /\ DOMAIN G = X /\ n \in DOMAIN R /\ run \in Runs
      /\ RunRight(run)
  <2>1. h \in Items /\ DOMAIN H = X /\ DOMAIN G = X OBVIOUS
  <2>2. n \in DOMAIN R BY <2>1 DEF Orderly, Open
  <2> QED BY <2>1, <2>2 DEF Orderly
<1>0. PICK L \in Lists[run.rule] : \E q \in DOMAIN L : PlacedIn(h, run, L, q)
  BY <1>1 DEF Orderly, Placed
<1>2. PICK q \in DOMAIN L : PlacedIn(h, run, L, q) BY <1>0
<1>3. run.rule \in Rules BY <1>1 DEF Runs
<1>4. NextOf(h) = L[q]
  <2>1. h.i \in Nat /\ q \in Nat /\ Len(L) \in Nat /\ q <= Len(L)
    BY <1>1, <1>3, ListTyped DEF Items
  <2>2. 0 \in 0 .. Len(L) - q /\ h.i + 0 = h.i /\ q + 0 = q BY <2>1
  <2>3. h.acts[h.i + 0] = L[q + 0] BY <1>2, <2>2 DEF PlacedIn, RestOf
  <2> QED BY <2>2, <2>3 DEF NextOf
<1>5. /\ R2 \in Seq(Runs) /\ DOMAIN R2 = DOMAIN R /\ \A m \in DOMAIN R : m # n => R2[m] = R[m]
      /\ DidMore(run, run2, L[q].tag, td, failed) /\ run2.rule = run.rule
  BY <1>4 DEF Noted, DidMore
<1>6. G[x0] = [run |-> n, acts |-> h.acts, i |-> h.i + 1, td |-> td]
      /\ \A x \in X \ {x0} : G[x] = H[x]
  BY <1>1 DEF AdvancedAt
<1> HIDE DEF h, n, run, run2
<1>7. RunRight(run2)
  <2>1. Acting(h, run, L, q, td) BY <1>2 DEF Acting, h
  <2> QED BY <1>1, <1>5, <2>1, RunActed
<1>8. ASSUME Open(G[x0])
      PROVE  q + 1 \in DOMAIN L /\ PlacedIn(G[x0], run2, L, q + 1) /\ NextOf(G[x0]) = L[q + 1]
  <2>1. G[x0].i <= Len(G[x0].acts) /\ h.i <= Len(h.acts) BY <1>8 DEF Open, h
  <2>2. G[x0] = [run |-> h.run, acts |-> h.acts, i |-> h.i + 1, td |-> td] BY <1>6 DEF n
  <2>3. h.td => td BY DEF h
  <2>4. q + 1 \in DOMAIN L /\ PlacedIn(G[x0], run2, L, q + 1)
    BY <1>1, <1>2, <1>5, <2>1, <2>2, <2>3, ActedPlaced
  <2>5. q + 1 \in Nat /\ Len(L) \in Nat /\ q + 1 <= Len(L) /\ G[x0].i \in Nat
    BY <1>3, <2>4, ListTyped DEF Items
  <2>6. 0 \in 0 .. Len(L) - (q + 1) /\ G[x0].i + 0 = G[x0].i /\ (q + 1) + 0 = q + 1 BY <2>5
  <2>7. G[x0].acts[G[x0].i + 0] = L[(q + 1) + 0] BY <2>4, <2>6 DEF PlacedIn, RestOf
  <2> QED BY <2>4, <2>6, <2>7 DEF NextOf
<1>9. ASSUME NEW x \in X \ {x0}, Open(G[x]), G[x].run = n
      PROVE  \E M \in Lists[run.rule] : \E m \in DOMAIN M :
               /\ PlacedIn(G[x], run, M, m) /\ PlacedIn(G[x], run2, M, m)
               /\ NextOf(G[x]) = M[m] /\ NextOf(G[x]).tag # L[q].tag
  <2>1. G[x] = H[x] /\ G[x] \in Items BY <1>6
  <2>0. PICK M \in Lists[run.rule] : \E m \in DOMAIN M : PlacedIn(G[x], run, M, m)
    BY <1>1, <1>9, <2>1 DEF Orderly, Placed, run
  <2>2. PICK m \in DOMAIN M : PlacedIn(G[x], run, M, m) BY <2>0
  <2>3. NextOf(G[x]) = M[m]
    <3>1. G[x].i \in Nat /\ m \in Nat /\ Len(M) \in Nat /\ m <= Len(M)
      BY <1>3, <2>1, ListTyped DEF Items
    <3>2. 0 \in 0 .. Len(M) - m /\ G[x].i + 0 = G[x].i /\ m + 0 = m BY <3>1
    <3>3. G[x].acts[G[x].i + 0] = M[m + 0] BY <2>2, <3>2 DEF PlacedIn, RestOf
    <3> QED BY <3>2, <3>3 DEF NextOf
  <2>4. NextOf(G[x]).tag # L[q].tag BY <1>1, <1>4, <1>9, <2>1 DEF Orderly, h, n
  <2>5. M[m].tag # L[q].tag BY <2>3, <2>4
  <2>6. PlacedIn(G[x], run2, M, m) BY <1>1, <1>2, <1>5, <2>2, <2>5, OthersPlaced
  <2> QED BY <2>2, <2>3, <2>4, <2>6
<1>10. ASSUME NEW x \in X PROVE G[x].run = NoRun \/ G[x].run \in DOMAIN R2
  <2>1. G[x].run = H[x].run BY <1>6 DEF n, h
  <2> QED BY <1>1, <1>5, <2>1 DEF Orderly
<1>11. ASSUME NEW m \in DOMAIN R2 PROVE RunRight(R2[m])
  <2>1. CASE m = n BY <1>7, <2>1 DEF run2
  <2>2. CASE m # n BY <1>5, <2>2 DEF Orderly
  <2> QED BY <2>1, <2>2
<1>12. ASSUME NEW x \in X, Open(G[x]) PROVE Placed(G[x], R2[G[x].run])
  <2>1. CASE x = x0
    <3>1. G[x].run = n BY <1>6, <2>1
    <3> QED BY <1>5, <1>8, <1>12, <2>1, <3>1 DEF Placed, run2
  <2>2. CASE x # x0 /\ G[x].run = n BY <1>5, <1>9, <1>12, <2>2 DEF Placed, run2
  <2>3. CASE x # x0 /\ G[x].run # n
    <3>1. G[x] = H[x] /\ Placed(H[x], R[H[x].run]) BY <1>1, <1>6, <1>12, <2>3 DEF Orderly
    <3>2. G[x].run \in DOMAIN R BY <1>5, <1>10, <1>12 DEF Open
    <3> QED BY <1>5, <2>3, <3>1, <3>2
  <2> QED BY <2>1, <2>2, <2>3
\* Two lists of this firing are different lists.
<1>13. ASSUME NEW x \in X \ {x0}, Open(G[x]), G[x].run = n, Open(G[x0])
       PROVE  NextOf(G[x]).tag # NextOf(G[x0]).tag
  <2>0. PICK M \in Lists[run.rule] : \E m \in DOMAIN M :
          PlacedIn(G[x], run, M, m) /\ NextOf(G[x]) = M[m] /\ NextOf(G[x]).tag # L[q].tag
    BY <1>9, <1>13
  <2>1. PICK m \in DOMAIN M :
          PlacedIn(G[x], run, M, m) /\ NextOf(G[x]) = M[m] /\ NextOf(G[x]).tag # L[q].tag
    BY <2>0
  <2>2. SUFFICES ASSUME M[m].tag = L[q + 1].tag PROVE FALSE BY <1>8, <1>13, <2>1
  <2>3. M = L /\ m = q + 1 BY <1>3, <1>8, <1>13, <2>2, TagsUnique
  <2>4. q \in Nat /\ q < q + 1 BY <1>3, ListTyped
  <2>5. L[q].tag \in DoneIn(run) BY <2>1, <2>3, <2>4 DEF PlacedIn
  <2>6. ~(q < q) BY <2>4
  <2> QED BY <1>2, <2>5, <2>6 DEF PlacedIn
<1>14. ASSUME NEW x \in X, NEW y \in X, Open(G[x]), Open(G[y]), G[x].run = G[y].run,
              NextOf(G[x]).tag = NextOf(G[y]).tag
       PROVE  x = y
  <2>1. G[x0].run = n BY <1>6
  <2>2. CASE x = x0 /\ y # x0 BY <1>13, <1>14, <2>1, <2>2
  <2>3. CASE x # x0 /\ y = x0 BY <1>13, <1>14, <2>1, <2>3
  <2>4. CASE x # x0 /\ y # x0 BY <1>1, <1>6, <1>14, <2>4 DEF Orderly
  <2> QED BY <2>2, <2>3, <2>4
<1>15. Orderly(G, R2) BY <1>1, <1>10, <1>11, <1>12, <1>14 DEF Orderly
<1>16. ASSUME failed, L[q].onFailure # <<>>, NEW g \in Items, g.run = n,
              g.acts = L[q].onFailure, g.i = 1
       PROVE  /\ Open(g) /\ Placed(g, run2)
              /\ \A x \in X : Open(G[x]) /\ G[x].run = n => NextOf(G[x]).tag # NextOf(g).tag
  <2> DEFINE F == L[q].onFailure
  <2>1. F \in Lists[run.rule] /\ F # L /\ 1 \in DOMAIN F
    <3>1. F # <<>> BY <1>16
    <3>2. F \in Lists[run.rule] BY <1>3, <3>1, FallbackListed
    <3>3. F # L BY <1>1, <1>2, FallbackElsewhere
    <3>4. F \in Seq(Actions) BY <1>3, <3>2, ListTyped
    <3> HIDE DEF F
    <3>5. 1 \in DOMAIN F BY <3>1, <3>4
    <3> QED BY <3>2, <3>3, <3>5
  <2>2. DidMore(run, run2, L[q].tag, td, TRUE) BY <1>5, <1>16
  <2>3. PlacedIn(g, run2, F, 1) BY <1>1, <1>2, <1>5, <1>16, <2>2, FallbackPlaced
  <2>4. NextOf(g) = F[1] BY <1>16 DEF NextOf
  <2>5. Open(g)
    <3>1. F \in Seq(Actions) /\ Len(F) \in Nat /\ DOMAIN F = 1 .. Len(F) BY <1>3, <2>1, ListTyped
    <3>2. n # NoRun BY DEF Open, n, h
    <3> QED BY <1>16, <2>1, <3>1, <3>2 DEF Open
  <2>6. ASSUME NEW x \in X, Open(G[x]), G[x].run = n PROVE NextOf(G[x]).tag # F[1].tag
    <3>1. CASE x = x0
      <4>1. NextOf(G[x]) = L[q + 1] /\ q + 1 \in DOMAIN L BY <1>8, <2>6, <3>1
      <4> QED BY <1>3, <2>1, <4>1, TagsUnique
    <3>2. CASE x # x0
      <4>0. PICK M \in Lists[run.rule] : \E m \in DOMAIN M :
              PlacedIn(G[x], run, M, m) /\ NextOf(G[x]) = M[m]
        BY <1>9, <2>6, <3>2
      <4>1. PICK m \in DOMAIN M : PlacedIn(G[x], run, M, m) /\ NextOf(G[x]) = M[m] BY <4>0
      <4>2. M # F BY <1>1, <1>2, <4>1, FallbackElsewhere
      <4> QED BY <1>3, <2>1, <4>1, <4>2, TagsUnique
    <3> QED BY <3>1, <3>2
  <2> QED BY <1>5, <2>1, <2>3, <2>4, <2>5, <2>6 DEF Placed
<1>17. L[q] = NextOf(H[x0]) /\ n = H[x0].run /\ run2 = R2[H[x0].run] BY <1>4 DEF h, n, run2
<1>18. ASSUME failed, NextOf(H[x0]).onFailure # <<>>, NEW g \in Items, g.run = H[x0].run,
              g.acts = NextOf(H[x0]).onFailure, g.i = 1
       PROVE  /\ Open(g) /\ Placed(g, R2[g.run])
              /\ \A x \in X : Open(G[x]) /\ G[x].run = g.run => NextOf(G[x]).tag # NextOf(g).tag
  BY <1>16, <1>17, <1>18
<1>19. ASSUME failed, NextOf(H[x0]).onFailure # <<>>, NEW g \in Items,
              Fallback(g, H[x0].run, NextOf(H[x0]))
       PROVE  Room(g, G, R2)
  <2>1. g.run \in DOMAIN R2 BY <1>1, <1>5, <1>17, <1>19 DEF Fallback
  <2>2. /\ Open(g) /\ Placed(g, R2[g.run])
        /\ \A x \in X : Open(G[x]) /\ G[x].run = g.run => NextOf(G[x]).tag # NextOf(g).tag
    BY <1>18, <1>19 DEF Fallback
  <2> QED BY <1>1, <2>1, <2>2 DEF Room
<1> QED BY <1>15, <1>19 DEF FallbackFits

\* h is held at x, where nothing was.
AndOne(H, G, x, h) == G[x] = h /\ \A y \in DOMAIN H : G[y] = H[y]

\* A list is held that nobody has held.
LEMMA Added ==
  ASSUME NEW R \in Seq(Runs), NEW X, NEW H \in [X -> Items], Orderly(H, R), NEW x1, x1 \notin X,
         NEW h \in Items, Room(h, H, R), NEW G \in [X \cup {x1} -> Items], AndOne(H, G, x1, h)
  PROVE  Orderly(G, R)
<1>0. /\ G[x1] = h /\ \A x \in X : G[x] = H[x]
      /\ h.run = NoRun \/ h.run \in DOMAIN R
      /\ Open(h) => /\ Placed(h, R[h.run])
                    /\ \A x \in X : Open(H[x]) /\ H[x].run = h.run
                                      => NextOf(H[x]).tag # NextOf(h).tag
  <2>1. DOMAIN H = X OBVIOUS
  <2> QED BY <2>1 DEF Room, AndOne
<1>1. DOMAIN H = X /\ DOMAIN G = X \cup {x1} OBVIOUS
<1>2. ASSUME NEW x \in X \cup {x1} PROVE G[x].run = NoRun \/ G[x].run \in DOMAIN R
  BY <1>0, <1>1 DEF Orderly
<1>3. \A n \in DOMAIN R : RunRight(R[n]) BY DEF Orderly
<1>4. ASSUME NEW x \in X \cup {x1}, Open(G[x]) PROVE Placed(G[x], R[G[x].run])
  BY <1>0, <1>1, <1>4 DEF Orderly
<1>5. ASSUME NEW x \in X \cup {x1}, NEW y \in X \cup {x1}, Open(G[x]), Open(G[y]),
             G[x].run = G[y].run, NextOf(G[x]).tag = NextOf(G[y]).tag
      PROVE  x = y
  <2>1. CASE x \in X /\ y \in X BY <1>0, <1>1, <1>5, <2>1 DEF Orderly
  <2>2. CASE x = x1 /\ y \in X BY <1>0, <1>5, <2>2
  <2>3. CASE x \in X /\ y = x1 BY <1>0, <1>5, <2>3
  <2> QED BY <2>1, <2>2, <2>3
<1> QED BY <1>1, <1>2, <1>3, <1>4, <1>5 DEF Orderly

\* A rule is fired: its list is held from the start.
LEMMA Begun ==
  ASSUME NEW R \in Seq(Runs), NEW X, NEW H \in [X -> Items], Orderly(H, R), NEW x1, x1 \notin X,
         NEW r \in Rules, NEW G \in [X \cup {x1} -> Items],
         AndOne(H, G, x1, [run |-> Len(R) + 1, acts |-> Program[r], i |-> 1, td |-> FALSE])
  PROVE  Orderly(G, Append(R, Started(r)))
<1> DEFINE n == Len(R) + 1
           R2 == Append(R, Started(r))
           h == G[x1]
           L == Program[r]
<1>0. /\ G[x1] = [run |-> Len(R) + 1, acts |-> Program[r], i |-> 1, td |-> FALSE]
      /\ \A x \in X : G[x] = H[x]
  <2>1. DOMAIN H = X OBVIOUS
  <2> QED BY <2>1 DEF AndOne
<1>1. Started(r) \in Runs /\ Started(r).rule = r /\ Started(r).did = <<>>
      /\ Started(r).failed = {} /\ DoneIn(Started(r)) = {}
  BY DEF Started, Runs, DoneIn
<1>2. /\ R2 \in Seq(Runs) /\ DOMAIN R2 = DOMAIN R \cup {n} /\ n \notin DOMAIN R
      /\ \A m \in DOMAIN R : R2[m] = R[m]
      /\ R2[n] = Started(r)
  BY <1>1
<1>3. n # NoRun BY DEF NoRun
<1>4. DOMAIN H = X /\ DOMAIN G = X \cup {x1} OBVIOUS
<1>5. h \in Items /\ h.run = n /\ h.acts = L /\ h.i = 1
  <2>1. x1 \in X \cup {x1} OBVIOUS
  <2>2. h \in Items BY <2>1
  <2>3. h = [run |-> n, acts |-> L, i |-> 1, td |-> FALSE] BY <1>0
  <2> HIDE DEF h, n, L
  <2> QED BY <2>2, <2>3
<1>6. L \in Lists[r] /\ L \in Seq(Actions) /\ Len(L) \in Nat /\ DOMAIN L = 1 .. Len(L)
  BY ProgramParams, ListTyped
<1> HIDE DEF n, R2, h, L
<1>7. RunRight(Started(r))
  <2>1. DOMAIN Started(r).did = {} BY <1>1
  <2> QED BY <1>1, <2>1 DEF RunRight
<1>8. ASSUME Open(h) PROVE Placed(h, Started(r))
  <2>1. 1 \in DOMAIN L BY <1>5, <1>6, <1>8 DEF Open
  <2>2. RestOf(h, L, 1)
    <3>1. \A d \in 0 .. Len(L) - 1 : h.acts[h.i + d] = L[1 + d] BY <1>5
    <3> QED BY <1>5, <3>1 DEF RestOf
  <2>3. \A p \in DOMAIN L : L[p].tag \in DoneIn(Started(r)) <=> p < 1
    <3>1. \A p \in DOMAIN L : ~(p < 1) BY <1>6
    <3> QED BY <1>1, <3>1
  <2>4. DOMAIN Started(r).did = {} BY <1>1
  <2>5. ASSUME NEW M \in Lists[r], NEW m \in DOMAIN M PROVE M[m].onFailure # L
    <3>1. L # <<>> BY <1>6, <2>1
    <3>2. M[m].onFailure # <<>> => M[m].onFailure # L BY FallbackListed DEF L
    <3> QED BY <3>1, <3>2
  <2> QED BY <1>1, <1>6, <2>1, <2>2, <2>3, <2>4, <2>5 DEF Placed, PlacedIn
<1>9. ASSUME NEW x \in X PROVE G[x] = H[x] /\ (G[x].run = NoRun \/ G[x].run \in DOMAIN R)
  BY <1>0, <1>4 DEF Orderly
<1>10. ASSUME NEW x \in X \cup {x1} PROVE G[x].run = NoRun \/ G[x].run \in DOMAIN R2
  BY <1>2, <1>5, <1>9 DEF h
<1>11. \A m \in DOMAIN R2 : RunRight(R2[m]) BY <1>2, <1>7 DEF Orderly
<1>12. ASSUME NEW x \in X \cup {x1}, Open(G[x]) PROVE Placed(G[x], R2[G[x].run])
  <2>1. CASE x = x1 BY <1>2, <1>5, <1>8, <1>12, <2>1 DEF h
  <2>2. CASE x \in X
    <3>1. G[x].run \in DOMAIN R BY <1>9, <1>12, <2>2 DEF Open
    <3>2. Placed(H[x], R[H[x].run]) BY <1>4, <1>9, <1>12, <2>2 DEF Orderly
    <3> QED BY <1>2, <1>9, <2>2, <3>1, <3>2
  <2> QED BY <2>1, <2>2
<1>13. ASSUME NEW x \in X \cup {x1}, NEW y \in X \cup {x1}, Open(G[x]), Open(G[y]),
              G[x].run = G[y].run, NextOf(G[x]).tag = NextOf(G[y]).tag
       PROVE  x = y
  <2>1. \A z \in X : G[z].run # h.run BY <1>2, <1>3, <1>5, <1>9
  <2>2. CASE x \in X /\ y \in X BY <1>4, <1>9, <1>13, <2>2 DEF Orderly
  <2> QED BY <1>13, <2>1, <2>2 DEF h
<1>14. Orderly(G, R2) BY <1>4, <1>10, <1>11, <1>12, <1>13 DEF Orderly
<1> QED BY <1>14 DEF R2

(***************************************************************************)
(* The places of a step.                                                   *)
(***************************************************************************)

LEMMA PlaceCases ==
  ASSUME NEW S, NEW T, NEW x
  PROVE  x \in PlacesOf(S, T) <=>
           \/ \E t \in Threads : \E d \in 1 .. Len(S[t]) : x = <<t, d>>
           \/ \E w \in T : x = <<"timer", w>>
<1> DEFINE P == {{<<t, d>> : d \in 1 .. Len(S[t])} : t \in Threads}
           Q == {<<"timer", w>> : w \in T}
<1>1. PlacesOf(S, T) = (UNION P) \cup Q BY Zenon DEF PlacesOf
<1>2. x \in Q <=> \E w \in T : x = <<"timer", w>> BY Zenon
<1>3. ASSUME NEW t \in Threads, NEW d \in 1 .. Len(S[t]), x = <<t, d>> PROVE x \in UNION P
  <2>1. {<<t, e>> : e \in 1 .. Len(S[t])} \in P OBVIOUS
  <2>2. x \in {<<t, e>> : e \in 1 .. Len(S[t])} BY <1>3
  <2> HIDE DEF P
  <2> QED BY <2>1, <2>2
<1>4. ASSUME x \in UNION P
      PROVE  \E t \in Threads : \E d \in 1 .. Len(S[t]) : x = <<t, d>>
  <2>1. PICK p \in P : x \in p BY <1>4
  <2>2. PICK t \in Threads : p = {<<t, d>> : d \in 1 .. Len(S[t])} BY <2>1
  <2> QED BY <2>1, <2>2
<1> HIDE DEF P, Q
<1>5. x \in PlacesOf(S, T) <=> x \in UNION P \/ x \in Q BY <1>1
<1> QED BY <1>2, <1>3, <1>4, <1>5

LEMMA HeldFacts ==
  ASSUME NEW S \in [Threads -> Seq(Frames)], NEW T, T \subseteq Timers
  PROVE  /\ HeldOf(S, T) \in [PlacesOf(S, T) -> Items]
         /\ \A t \in Threads : \A d \in 1 .. Len(S[t]) :
              /\ <<t, d>> \in PlacesOf(S, T)
              /\ Len(S[t]) - d + 1 \in DOMAIN S[t] /\ AtDepth(S, t, d) \in Frames
              /\ HeldOf(S, T)[<<t, d>>] = Item(AtDepth(S, t, d), AtDepth(S, t, d).i)
         /\ \A w \in T :
              /\ <<"timer", w>> \in PlacesOf(S, T)
              /\ HeldOf(S, T)[<<"timer", w>>] = Item(w, 1)
<1>1. ASSUME NEW t \in Threads, NEW d \in 1 .. Len(S[t])
      PROVE  /\ <<t, d>> \in PlacesOf(S, T)
             /\ Len(S[t]) - d + 1 \in DOMAIN S[t] /\ AtDepth(S, t, d) \in Frames
             /\ HeldOf(S, T)[<<t, d>>] = Item(AtDepth(S, t, d), AtDepth(S, t, d).i)
             /\ HeldOf(S, T)[<<t, d>>] \in Items
  <2>1. <<t, d>> \in PlacesOf(S, T) BY PlaceCases
  <2>2. S[t] \in Seq(Frames) /\ Len(S[t]) \in Nat OBVIOUS
  <2>3. Len(S[t]) - d + 1 \in DOMAIN S[t] BY <2>2
  <2>4. AtDepth(S, t, d) \in Frames BY <2>2, <2>3 DEF AtDepth
  <2>5. HeldOf(S, T)[<<t, d>>] = Item(AtDepth(S, t, d), AtDepth(S, t, d).i)
    BY <2>1 DEF HeldOf
  <2>6. Item(AtDepth(S, t, d), AtDepth(S, t, d).i) \in Items BY <2>4 DEF Item, Items, Frames
  <2> QED BY <2>1, <2>3, <2>4, <2>5, <2>6
<1>2. ASSUME NEW w \in T
      PROVE  /\ <<"timer", w>> \in PlacesOf(S, T)
             /\ HeldOf(S, T)[<<"timer", w>>] = Item(w, 1)
             /\ HeldOf(S, T)[<<"timer", w>>] \in Items
  <2>1. <<"timer", w>> \in PlacesOf(S, T) BY PlaceCases
  <2>2. "timer" \notin Threads BY DEF Threads
  <2>3. HeldOf(S, T)[<<"timer", w>>] = Item(w, 1) BY <2>1, <2>2 DEF HeldOf
  <2>4. Item(w, 1) \in Items
    <3>1. w \in Timers OBVIOUS
    <3> QED BY <3>1 DEF Item, Items, Timers
  <2> QED BY <2>1, <2>3, <2>4
<1>3. \A x \in PlacesOf(S, T) : HeldOf(S, T)[x] \in Items BY <1>1, <1>2, PlaceCases
<1>4. HeldOf(S, T) = [x \in PlacesOf(S, T) |-> HeldOf(S, T)[x]] BY DEF HeldOf
<1>5. HeldOf(S, T) \in [PlacesOf(S, T) -> Items] BY <1>3, <1>4
<1> QED BY <1>1, <1>2, <1>5

\* The same list at the same action, with the same data.
SameItem(g, f) ==
  g.run = f.run /\ g.acts = f.acts /\ g.i = f.i /\ g.td = f.td /\ g.kind = f.kind

\* The stacks hold the same, but for the innermost call of t; and: but for a call more.
SameButTop(S2, S, t) ==
  /\ Len(S2[t]) = Len(S[t]) /\ \A k \in 2 .. Len(S[t]) : SameItem(S2[t][k], S[t][k])
  /\ \A u \in Threads \ {t} :
       Len(S2[u]) = Len(S[u]) /\ \A k \in 1 .. Len(S[u]) : SameItem(S2[u][k], S[u][k])

SameAndOne(S2, S, t) ==
  /\ Len(S2[t]) = Len(S[t]) + 1
  /\ \A k \in 1 .. Len(S[t]) : SameItem(S2[t][k + 1], S[t][k])
  /\ \A u \in Threads \ {t} :
       Len(S2[u]) = Len(S[u]) /\ \A k \in 1 .. Len(S[u]) : SameItem(S2[u][k], S[u][k])

LEMMA SameHeld ==
  ASSUME NEW f \in Frames, NEW g \in Frames, SameItem(g, f)
  PROVE  Item(g, g.i) = Item(f, f.i)
BY DEF SameItem, Item

\* The call of depth d, where as many are on the stack, and where there is one more.
LEMMA DepthFacts ==
  ASSUME NEW n \in Nat, NEW d \in 1 .. n
  PROVE  /\ n - d + 1 \in 1 .. n /\ (d # n => n - d + 1 \in 2 .. n) /\ n - n + 1 = 1
         /\ (n + 1) - d + 1 = (n - d + 1) + 1
OBVIOUS

\* Of the places X, x0 holds h in H and g in G, the others the same in both.
TopDiffers(H, G, X, x0, h, g) ==
  /\ H \in [X -> Items] /\ G \in [X -> Items] /\ x0 \in X /\ H[x0] = h /\ G[x0] = g
  /\ \A x \in X \ {x0} : G[x] = H[x]

LEMMA HeldButTop ==
  ASSUME NEW S \in [Threads -> Seq(Frames)], NEW S2 \in [Threads -> Seq(Frames)],
         NEW T, T \subseteq Timers, NEW t \in Threads, S[t] # <<>>, SameButTop(S2, S, t)
  PROVE  TopDiffers(HeldOf(S, T), HeldOf(S2, T), PlacesOf(S, T), <<t, Len(S[t])>>,
                    Item(S[t][1], S[t][1].i), Item(S2[t][1], S2[t][1].i))
         /\ PlacesOf(S2, T) = PlacesOf(S, T)
<1> DEFINE x0 == <<t, Len(S[t])>>
<1>1. \A u \in Threads : Len(S2[u]) = Len(S[u]) /\ Len(S[u]) \in Nat BY DEF SameButTop
<1>2. PlacesOf(S2, T) = PlacesOf(S, T)
  <2>1. \A x : x \in PlacesOf(S2, T) <=> x \in PlacesOf(S, T) BY <1>1, PlaceCases
  <2> QED BY <2>1
<1>3. Len(S[t]) \in 1 .. Len(S[t])
  <2>1. S[t] \in Seq(Frames) OBVIOUS
  <2>2. Len(S[t]) # 0 BY <2>1
  <2> QED BY <1>1, <2>2
<1>4. x0 \in PlacesOf(S, T) /\ HeldOf(S, T)[x0] = Item(S[t][1], S[t][1].i)
      /\ HeldOf(S2, T)[x0] = Item(S2[t][1], S2[t][1].i)
  <2>1. AtDepth(S, t, Len(S[t])) = S[t][1] /\ AtDepth(S2, t, Len(S[t])) = S2[t][1]
    BY <1>1, <1>3, DepthFacts DEF AtDepth
  <2>2. x0 \in PlacesOf(S, T) /\ HeldOf(S, T)[x0] = Item(S[t][1], S[t][1].i)
    BY ZenonT(40), <1>3, <2>1, HeldFacts
  <2>3. Len(S[t]) \in 1 .. Len(S2[t]) BY <1>1, <1>3
  <2>4. HeldOf(S2, T)[x0] = Item(S2[t][1], S2[t][1].i) BY ZenonT(40), <2>1, <2>3, HeldFacts
  <2> QED BY <2>2, <2>4
<1>5. ASSUME NEW u \in Threads, NEW d \in 1 .. Len(S[u]), <<u, d>> # x0
      PROVE  HeldOf(S2, T)[<<u, d>>] = HeldOf(S, T)[<<u, d>>]
  <2> DEFINE f == AtDepth(S, u, d)
             g == AtDepth(S2, u, d)
             k == Len(S[u]) - d + 1
  <2>1. f = S[u][k] /\ g = S2[u][k] /\ k \in 1 .. Len(S[u]) /\ (d # Len(S[u]) => k \in 2 .. Len(S[u]))
    BY <1>1, DepthFacts DEF AtDepth
  <2>2. f \in Frames /\ HeldOf(S, T)[<<u, d>>] = Item(f, f.i) BY HeldFacts
  <2>4. d \in 1 .. Len(S2[u]) BY <1>1
  <2>5. g \in Frames /\ HeldOf(S2, T)[<<u, d>>] = Item(g, g.i) BY <2>4, HeldFacts
  <2> HIDE DEF f, g, k
  <2>3. SameItem(g, f)
    <3>1. CASE u = t
      <4>1. d # Len(S[u]) BY <1>5, <3>1
      <4> QED BY <2>1, <3>1, <4>1 DEF SameButTop
    <3>2. CASE u # t BY <2>1, <3>2 DEF SameButTop
    <3> QED BY <3>1, <3>2
  <2> QED BY <2>2, <2>3, <2>5, SameHeld
<1>6. \A w \in T : HeldOf(S2, T)[<<"timer", w>>] = HeldOf(S, T)[<<"timer", w>>] BY ZenonT(40), HeldFacts
<1>7. \A x \in PlacesOf(S, T) \ {x0} : HeldOf(S2, T)[x] = HeldOf(S, T)[x]
  BY <1>5, <1>6, PlaceCases
<1>8. HeldOf(S, T) \in [PlacesOf(S, T) -> Items] BY HeldFacts
<1>9. HeldOf(S2, T) \in [PlacesOf(S, T) -> Items] BY <1>2, HeldFacts
<1> QED BY <1>2, <1>4, <1>7, <1>8, <1>9 DEF TopDiffers

LEMMA HeldAndOne ==
  ASSUME NEW S \in [Threads -> Seq(Frames)], NEW S2 \in [Threads -> Seq(Frames)],
         NEW T, T \subseteq Timers, NEW t \in Threads, SameAndOne(S2, S, t)
  PROVE  /\ HeldOf(S, T) \in [PlacesOf(S, T) -> Items]
         /\ <<t, Len(S[t]) + 1>> \notin PlacesOf(S, T)
         /\ HeldOf(S2, T) \in [PlacesOf(S, T) \cup {<<t, Len(S[t]) + 1>>} -> Items]
         /\ AndOne(HeldOf(S, T), HeldOf(S2, T), <<t, Len(S[t]) + 1>>,
                   Item(S2[t][1], S2[t][1].i))
<1> DEFINE x1 == <<t, Len(S[t]) + 1>>
<1> DEFINE n == Len(S[t])
<1>1. /\ n \in Nat /\ Len(S2[t]) = n + 1 /\ \A u \in Threads : Len(S[u]) \in Nat
      /\ \A u \in Threads \ {t} : Len(S2[u]) = Len(S[u])
  BY DEF SameAndOne
<1>2. n + 1 \in 1 .. n + 1 /\ n + 1 \notin 1 .. n /\ 1 .. n + 1 = (1 .. n) \cup {n + 1} BY <1>1
<1> HIDE DEF n
<1>3. x1 \notin PlacesOf(S, T)
  <2>1. SUFFICES ASSUME x1 \in PlacesOf(S, T) PROVE FALSE OBVIOUS
  <2>2. t # "timer" BY DEF Threads
  <2>3. x1 = <<t, n + 1>> BY DEF n
  <2>4. ~ \E w \in T : x1 = <<"timer", w>> BY <2>2, <2>3
  <2>5. \E u \in Threads : \E d \in 1 .. Len(S[u]) : x1 = <<u, d>>
    BY <2>1, <2>4, PlaceCases
  <2>6. n + 1 \in 1 .. n BY <2>3, <2>5 DEF n
  <2> QED BY <1>2, <2>6
<1>4. PlacesOf(S2, T) = PlacesOf(S, T) \cup {x1}
  <2>1. ASSUME NEW x PROVE x \in PlacesOf(S2, T) <=> x \in PlacesOf(S, T) \/ x = x1
    <3>1. (\E u \in Threads : \E d \in 1 .. Len(S2[u]) : x = <<u, d>>)
          <=> (\E u \in Threads : \E d \in 1 .. Len(S[u]) : x = <<u, d>>) \/ x = x1
      <4>1. x1 = <<t, n + 1>> BY DEF n
      <4>2. \A u \in Threads : \A d :
              d \in 1 .. Len(S2[u]) <=> d \in 1 .. Len(S[u]) \/ (u = t /\ d = n + 1)
        BY <1>1, <1>2 DEF n
      <4> QED BY Zenon, <4>1, <4>2
    <3> QED BY <3>1, PlaceCases
  <2> QED BY <2>1
<1>5. HeldOf(S2, T)[x1] = Item(S2[t][1], S2[t][1].i)
  <2>1. Len(S2[t]) - (n + 1) + 1 = 1 BY <1>1
  <2>2. AtDepth(S2, t, n + 1) = S2[t][1] BY <2>1 DEF AtDepth
  <2>3. n + 1 \in 1 .. Len(S2[t]) BY <1>1, <1>2
  <2>4. x1 = <<t, n + 1>> BY DEF n
  <2> QED BY ZenonT(40), <2>2, <2>3, <2>4, HeldFacts
<1>6. ASSUME NEW u \in Threads, NEW d \in 1 .. Len(S[u])
      PROVE  HeldOf(S2, T)[<<u, d>>] = HeldOf(S, T)[<<u, d>>]
  <2> DEFINE f == AtDepth(S, u, d)
             g == AtDepth(S2, u, d)
             k == Len(S[u]) - d + 1
  <2>1. k \in 1 .. Len(S[u]) /\ f = S[u][k] /\ (Len(S[u]) + 1) - d + 1 = k + 1
    BY <1>1, DepthFacts DEF AtDepth
  <2>2. d \in 1 .. Len(S2[u]) BY <1>1, <1>2 DEF n
  <2>3. /\ f \in Frames /\ g \in Frames
        /\ HeldOf(S, T)[<<u, d>>] = Item(f, f.i) /\ HeldOf(S2, T)[<<u, d>>] = Item(g, g.i)
    BY <2>2, HeldFacts
  <2> HIDE DEF k, f
  <2>4. SameItem(g, f)
    <3>1. CASE u = t
      <4>1. g = S2[t][k + 1] BY <1>1, <2>1, <3>1 DEF AtDepth, n
      <4> QED BY <2>1, <3>1, <4>1 DEF SameAndOne
    <3>2. CASE u # t
      <4>1. g = S2[u][k] BY <1>1, <3>2 DEF AtDepth, k
      <4> QED BY <2>1, <3>2, <4>1 DEF SameAndOne
    <3> QED BY <3>1, <3>2
  <2> QED BY <2>3, <2>4, SameHeld
<1>7. \A w \in T : HeldOf(S2, T)[<<"timer", w>>] = HeldOf(S, T)[<<"timer", w>>] BY ZenonT(40), HeldFacts
<1>8. ASSUME NEW x \in PlacesOf(S, T) PROVE HeldOf(S2, T)[x] = HeldOf(S, T)[x]
  <2>1. \/ \E u \in Threads : \E d \in 1 .. Len(S[u]) : x = <<u, d>>
        \/ \E w \in T : x = <<"timer", w>>
    BY PlaceCases
  <2> QED BY <1>6, <1>7, <2>1
<1>9. HeldOf(S, T) \in [PlacesOf(S, T) -> Items] BY HeldFacts
<1>10. HeldOf(S2, T) \in [PlacesOf(S, T) \cup {x1} -> Items] BY <1>4, HeldFacts
<1>11. AndOne(HeldOf(S, T), HeldOf(S2, T), x1, Item(S2[t][1], S2[t][1].i))
  BY <1>5, <1>8 DEF AndOne, HeldOf
<1> QED BY <1>3, <1>9, <1>10, <1>11

(***************************************************************************)
(* What a step of a list holds.                                            *)
(***************************************************************************)

\* The innermost call of t has done its action and stands at the next.
LEMMA TopActed ==
  ASSUME TypeOK, Orderly(HeldOf(stack, timers), runs), NEW t \in Threads, Ready(t),
         NEW g \in Frames, g.run = Top(t).run, g.acts = Top(t).acts, g.i = Top(t).i + 1,
         Top(t).td => g.td, NEW S2 \in [Threads -> Seq(Frames)], SameButTop(S2, stack, t),
         S2[t][1] = g, NEW failed \in BOOLEAN, NEW rs, rs = Note(Top(t), Act(t), g.td, failed)
  PROVE  /\ Orderly(HeldOf(S2, timers), rs) /\ rs \in Seq(Runs)
         /\ failed /\ Act(t).onFailure # <<>> =>
              FallbackFits(Top(t).run, Act(t), HeldOf(S2, timers), rs)
<1> DEFINE f == Top(t)
           a == Act(t)
           H == HeldOf(stack, timers)
           G == HeldOf(S2, timers)
           X == PlacesOf(stack, timers)
           x0 == <<t, Len(stack[t])>>
<1>1. /\ ~Idle(t) /\ f \in Frames /\ f.i \in 1 .. Len(f.acts) /\ a = f.acts[f.i] /\ a \in Actions
  BY ActFacts
<1>2. /\ stack[t] # <<>> /\ f = stack[t][1] /\ stack \in [Threads -> Seq(Frames)]
      /\ timers \subseteq Timers /\ runs \in Seq(Runs)
  BY <1>1, TopFacts DEF TypeOK
<1>3. /\ H \in [X -> Items] /\ G \in [X -> Items] /\ x0 \in X
      /\ H[x0] = Item(f, f.i) /\ G[x0] = Item(g, g.i)
      /\ \A x \in X \ {x0} : G[x] = H[x]
  <2>1. TopDiffers(H, G, X, x0, Item(stack[t][1], stack[t][1].i), Item(S2[t][1], S2[t][1].i))
    BY <1>2, HeldButTop
  <2>2. Item(stack[t][1], stack[t][1].i) = Item(f, f.i) /\ Item(S2[t][1], S2[t][1].i) = Item(g, g.i)
    BY <1>2
  <2> HIDE DEF H, G, X, x0, f
  <2> QED BY <2>1, <2>2 DEF TopDiffers
<1>5. g.td \in BOOLEAN /\ f.run \in Nat BY <1>1 DEF Frames
<1>6. rs = Note(f, a, g.td, failed) /\ (f.td => g.td) /\ g.run = f.run /\ g.acts = f.acts
      /\ g.i = f.i + 1 /\ Orderly(H, runs)
  OBVIOUS
<1> HIDE DEF f, a, x0, X, H, G
<1>7. /\ rs \in Seq(Runs) /\ DOMAIN rs = DOMAIN runs
      /\ f.run = NoRun => rs = runs
      /\ f.run \in DOMAIN runs => Noted(runs, rs, f.run, a.tag, g.td, failed)
  BY <1>1, <1>5, <1>6, NotedFacts
<1>8. /\ H[x0].run = f.run /\ H[x0].acts = f.acts /\ H[x0].i = f.i /\ H[x0].td = f.td
      /\ G[x0] = [run |-> H[x0].run, acts |-> H[x0].acts, i |-> H[x0].i + 1, td |-> g.td]
      /\ NextOf(H[x0]) = a
  <2>1. H[x0].run = f.run /\ H[x0].acts = f.acts /\ H[x0].i = f.i /\ H[x0].td = f.td
    BY <1>3 DEF Item
  <2> QED BY <1>1, <1>3, <1>6, <2>1 DEF Item, NextOf
<1>9. CASE f.run = NoRun
  <2>1. rs = runs BY <1>7, <1>9
  <2>2. ~Open(G[x0]) BY <1>8, <1>9 DEF Open
  <2>3. Orderly(G, runs)
    <3> DEFINE from == [x \in X |-> x]
    <3>1. \A x \in X : from[x] = x OBVIOUS
    <3> HIDE DEF from
    <3>2. \A x \in X : G[x].run = NoRun \/ G[x].run \in DOMAIN runs
      <4>1. \A x \in X : H[x].run = NoRun \/ H[x].run \in DOMAIN runs
        BY <1>3, <1>6 DEF Orderly
      <4> QED BY <1>3, <1>8, <1>9, <4>1
    <3>3. ASSUME NEW x \in X, Open(G[x]) PROVE from[x] \in X /\ SameRest(G[x], H[from[x]])
      <4>1. G[x] = H[x] BY <1>3, <2>2, <3>3
      <4> QED BY <3>1, <4>1 DEF SameRest
    <3>4. \A x, y \in X : Open(G[x]) /\ Open(G[y]) /\ from[x] = from[y] => x = y BY <3>1
    <3>5. ComesFrom(G, X, H, X, from, runs) BY <3>2, <3>3, <3>4 DEF ComesFrom
    <3> QED BY <1>2, <1>3, <1>6, <3>5, Rearranged
  <2>4. ASSUME NEW h \in Items, Fallback(h, f.run, a) PROVE Room(h, G, rs)
    BY <1>9, <2>4 DEF Fallback, Room, Open
  <2> QED BY <1>7, <2>1, <2>3, <2>4 DEF G, f, a, FallbackFits
<1>10. CASE f.run # NoRun
  <2>1. f.run \in DOMAIN runs BY <1>3, <1>6, <1>8, <1>10 DEF Orderly
  <2>2. Open(H[x0]) BY <1>1, <1>8, <1>10 DEF Open
  <2>3. Noted(runs, rs, H[x0].run, NextOf(H[x0]).tag, g.td, failed) BY <1>7, <1>8, <2>1
  <2>4. H[x0].td => g.td BY <1>6, <1>8
  <2>5. AdvancedAt(H, G, x0, g.td) BY <1>3, <1>8 DEF AdvancedAt
  <2>6. /\ Orderly(G, rs)
        /\ failed /\ NextOf(H[x0]).onFailure # <<>> =>
             FallbackFits(H[x0].run, NextOf(H[x0]), G, rs)
    <3> DEFINE d == g.td
    <3>1. /\ d \in BOOLEAN /\ (H[x0].td => d) /\ AdvancedAt(H, G, x0, d)
          /\ Noted(runs, rs, H[x0].run, NextOf(H[x0]).tag, d, failed)
      BY <1>5, <2>3, <2>4, <2>5
    <3> HIDE DEF d
    <3> QED BY ZenonT(120), <1>2, <1>3, <1>6, <2>2, <3>1, Acted
  <2> QED BY <1>7, <1>8, <2>6 DEF G, f, a
<1> QED BY <1>9, <1>10

\* A call is made for a list there is room for.
LEMMA CallHeld ==
  ASSUME NEW S \in [Threads -> Seq(Frames)], NEW S2 \in [Threads -> Seq(Frames)],
         NEW T, T \subseteq Timers, NEW R \in Seq(Runs), Orderly(HeldOf(S, T), R),
         NEW t \in Threads, SameAndOne(S2, S, t),
         Room(Item(S2[t][1], S2[t][1].i), HeldOf(S, T), R)
  PROVE  Orderly(HeldOf(S2, T), R)
<1> DEFINE x1 == <<t, Len(S[t]) + 1>>
           h == Item(S2[t][1], S2[t][1].i)
           H == HeldOf(S, T)
           G == HeldOf(S2, T)
           X == PlacesOf(S, T)
<1>1. H \in [X -> Items] /\ x1 \notin X /\ G \in [X \cup {x1} -> Items] /\ AndOne(H, G, x1, h)
  BY HeldAndOne
<1>2. Orderly(H, R) /\ Room(h, H, R) OBVIOUS
<1> HIDE DEF x1, h, H, G, X
<1>3. h \in Items BY <1>1 DEF AndOne
<1>4. Orderly(G, R) BY <1>1, <1>2, <1>3, Added
<1> QED BY <1>4 DEF G

\* A call is made for a rule.
LEMMA RuleHeld ==
  ASSUME NEW S \in [Threads -> Seq(Frames)], NEW S2 \in [Threads -> Seq(Frames)],
         NEW T, T \subseteq Timers, NEW R \in Seq(Runs), Orderly(HeldOf(S, T), R),
         NEW t \in Threads, SameAndOne(S2, S, t), NEW r \in Rules,
         S2[t][1].run = Len(R) + 1, S2[t][1].acts = Program[r], S2[t][1].i = 1,
         S2[t][1].td = FALSE
  PROVE  Orderly(HeldOf(S2, T), Append(R, Started(r)))
<1> DEFINE x1 == <<t, Len(S[t]) + 1>>
           h == Item(S2[t][1], S2[t][1].i)
           H == HeldOf(S, T)
           G == HeldOf(S2, T)
           X == PlacesOf(S, T)
<1>1. H \in [X -> Items] /\ x1 \notin X /\ G \in [X \cup {x1} -> Items] /\ AndOne(H, G, x1, h)
  BY HeldAndOne
<1>2. Orderly(H, R) OBVIOUS
<1>3. h = [run |-> Len(R) + 1, acts |-> Program[r], i |-> 1, td |-> FALSE] BY DEF Item
<1> HIDE DEF x1, h, H, G, X
<1>4. Orderly(G, Append(R, Started(r))) BY <1>1, <1>2, <1>3, Begun
<1> QED BY <1>4 DEF G

\* The rest of the innermost list is left to a timer.
LEMMA PostponedHeld ==
  ASSUME NEW S \in [Threads -> Seq(Frames)], NEW S2 \in [Threads -> Seq(Frames)],
         NEW T, T \subseteq Timers, NEW R \in Seq(Runs), Orderly(HeldOf(S, T), R),
         NEW t \in Threads, S[t] # <<>>, SameButTop(S2, S, t),
         S2[t][1].run = S[t][1].run, S2[t][1].i > Len(S2[t][1].acts),
         S[t][1].i \in 1 .. Len(S[t][1].acts) + 1,
         NEW w \in Timers, w.run = S[t][1].run, w.acts = Rest(S[t][1], S[t][1].i),
         w.td = S[t][1].td
  PROVE  Orderly(HeldOf(S2, T \cup {w}), R)
<1> DEFINE x0 == <<t, Len(S[t])>>
           xw == <<"timer", w>>
           f == S[t][1]
           g == S2[t][1]
           U == T \cup {w}
           H == HeldOf(S, T)
           G == HeldOf(S2, U)
           X == PlacesOf(S, T)
           Y == PlacesOf(S2, U)
<1>0. U \subseteq Timers /\ w \in U OBVIOUS
<1>1. /\ PlacesOf(S2, T) = X /\ x0 \in X /\ H[x0] = Item(f, f.i)
      /\ HeldOf(S2, T)[x0] = Item(g, g.i)
      /\ \A x \in X \ {x0} : HeldOf(S2, T)[x] = H[x]
  <2>1. TopDiffers(H, HeldOf(S2, T), X, x0, Item(f, f.i), Item(g, g.i)) /\ PlacesOf(S2, T) = X
    BY HeldButTop
  <2> HIDE DEF H, X, x0, f, g
  <2> QED BY <2>1 DEF TopDiffers
<1>2. ASSUME NEW y \in Y, y # xw PROVE y \in X /\ G[y] = HeldOf(S2, T)[y]
  <2>1. y \in PlacesOf(S2, T)
    <3>1. \/ \E u \in Threads : \E d \in 1 .. Len(S2[u]) : y = <<u, d>>
          \/ \E v \in U : y = <<"timer", v>>
      BY PlaceCases
    <3>2. \A v \in U : y = <<"timer", v>> => v \in T BY <1>2
    <3> QED BY <3>1, <3>2, PlaceCases
  <2> QED BY <1>1, <2>1 DEF HeldOf
<1>3. H \in [X -> Items] BY HeldFacts
<1>4. G \in [Y -> Items] /\ G[xw] = Item(w, 1) /\ xw \in Y
  <2> HIDE DEF U
  <2> QED BY <1>0, HeldFacts
<1>5. f \in Frames /\ f.i \in 1 .. Len(f.acts) + 1 /\ w.acts = Rest(f, f.i)
      /\ w.run = f.run /\ w.td = f.td
  <2>1. S[t] \in Seq(Frames) OBVIOUS
  <2>2. f \in Frames BY <2>1
  <2> QED BY <2>2
<1>6. SameRest(Item(w, 1), Item(f, f.i))
  <2>1. /\ w.acts \in Seq(Actions) /\ Len(w.acts) = Len(f.acts) - f.i + 1
        /\ \A k \in 1 .. Len(w.acts) : w.acts[k] = f.acts[f.i + k - 1]
    <3> HIDE DEF f
    <3> QED BY <1>5, RestFacts
  <2>2. Len(f.acts) \in Nat /\ f.i \in Nat BY <1>5 DEF Frames
  <2> HIDE DEF f
  <2>3. Len(w.acts) - 1 = Len(f.acts) - f.i BY <2>1, <2>2
  <2>4. ASSUME NEW d \in 0 .. Len(w.acts) - 1 PROVE w.acts[1 + d] = f.acts[f.i + d]
    <3>1. 1 + d \in 1 .. Len(w.acts) /\ f.i + (1 + d) - 1 = f.i + d BY <2>1, <2>2
    <3> QED BY <2>1, <3>1
  <2> QED BY <1>5, <2>3, <2>4 DEF SameRest, Item
<1>7. ~Open(Item(g, g.i))
  <2>1. S2[t] \in Seq(Frames) /\ S2[t] # <<>> /\ g.i > Len(g.acts)
    BY DEF SameButTop
  <2>2. g \in Frames BY <2>1
  <2>3. g.i \in Nat /\ Len(g.acts) \in Nat BY <2>2 DEF Frames
  <2> HIDE DEF g
  <2> QED BY <2>1, <2>3 DEF Open, Item
<1>8. Orderly(H, R) OBVIOUS
<1> DEFINE from == [y \in Y |-> IF y = xw THEN x0 ELSE y]
<1>9. \A y \in Y : from[y] = IF y = xw THEN x0 ELSE y OBVIOUS
<1>10. g.run = f.run OBVIOUS
<1>11. x0 # xw BY DEF Threads
<1> HIDE DEF x0, xw, f, g, U, H, G, X, Y, from
<1>12. ASSUME NEW y \in Y PROVE G[y].run = NoRun \/ G[y].run \in DOMAIN R
  <2>1. \A x \in X : H[x].run = NoRun \/ H[x].run \in DOMAIN R BY <1>3, <1>8 DEF Orderly
  <2>2. CASE y = xw
    <3>1. G[y].run = H[x0].run BY <1>1, <1>4, <1>5, <2>2 DEF Item
    <3> QED BY <1>1, <2>1, <3>1
  <2>3. CASE y = x0
    <3>1. G[y].run = H[x0].run BY <1>1, <1>2, <1>10, <1>11, <2>3 DEF Item
    <3> QED BY <1>1, <2>1, <3>1
  <2>4. CASE y # xw /\ y # x0 BY <1>1, <1>2, <2>1, <2>4
  <2> QED BY <2>2, <2>3, <2>4
<1>13. ASSUME NEW y \in Y, Open(G[y])
       PROVE  y # x0 /\ from[y] \in X /\ SameRest(G[y], H[from[y]])
  <2>1. y # x0 BY <1>1, <1>2, <1>7, <1>11, <1>13
  <2>2. CASE y = xw BY <1>1, <1>4, <1>6, <1>9, <2>1, <2>2
  <2>3. CASE y # xw
    <3>1. G[y] = H[y] /\ y \in X /\ from[y] = y BY <1>1, <1>2, <1>9, <2>1, <2>3
    <3> QED BY <2>1, <3>1 DEF SameRest
  <2> QED BY <2>2, <2>3
<1>14. \A y, z \in Y : Open(G[y]) /\ Open(G[z]) /\ from[y] = from[z] => y = z
  BY <1>9, <1>13
<1>15. ComesFrom(G, Y, H, X, from, R) BY <1>12, <1>13, <1>14 DEF ComesFrom
<1>16. Orderly(G, R) BY <1>3, <1>4, <1>8, <1>15, Rearranged
<1> QED BY <1>16 DEF G, U

\* The stacks with the calls b on that of t.
StackWith(S, t, b) == S = [stack EXCEPT ![t] = b]

LEMMA ButTop ==
  ASSUME TypeOK, NEW t \in Threads, NEW b \in Seq(Frames), Len(b) = Len(stack[t]),
         \A k \in 2 .. Len(b) : SameItem(b[k], stack[t][k]),
         NEW S, StackWith(S, t, b)
  PROVE  S \in [Threads -> Seq(Frames)] /\ S[t] = b /\ SameButTop(S, stack, t)
<1>1. stack \in [Threads -> Seq(Frames)] BY DEF TypeOK
<1>2. S \in [Threads -> Seq(Frames)] /\ S[t] = b /\ \A u \in Threads \ {t} : S[u] = stack[u]
  BY <1>1 DEF StackWith
<1>3. \A u \in Threads \ {t} :
        Len(S[u]) = Len(stack[u]) /\ \A k \in 1 .. Len(stack[u]) : SameItem(S[u][k], stack[u][k])
  BY <1>2 DEF SameItem
<1> QED BY <1>2, <1>3 DEF SameButTop

LEMMA CallOver ==
  ASSUME TypeOK, NEW t \in Threads, NEW f \in Frames, NEW b \in Seq(Frames), Call(t, f, b),
         NEW S, StackWith(S, t, b)
  PROVE  /\ S \in [Threads -> Seq(Frames)] /\ S[t] = b
         /\ stack' \in [Threads -> Seq(Frames)] /\ SameAndOne(stack', S, t)
         /\ SameItem(stack'[t][1], f)
<1>1. stack \in [Threads -> Seq(Frames)] BY DEF TypeOK
<1>2. S \in [Threads -> Seq(Frames)] /\ S[t] = b /\ \A u \in Threads \ {t} : S[u] = stack[u]
  BY <1>1 DEF StackWith
<1>3. HasPushed(stack', t, f, b) BY <1>1, PushedFacts DEF Call
<1>4. SameItem(stack'[t][1], f) BY <1>3 DEF HasPushed, SameCall, SameItem
<1>5. Len(stack'[t]) = Len(S[t]) + 1 /\ \A k \in 1 .. Len(S[t]) : SameItem(stack'[t][k + 1], S[t][k])
  BY <1>2, <1>3 DEF HasPushed, SameCall, SameItem
<1>6. ASSUME NEW u \in Threads \ {t}
      PROVE  Len(stack'[u]) = Len(S[u]) /\ \A k \in 1 .. Len(S[u]) : SameItem(stack'[u][k], S[u][k])
  BY <1>2, <1>3 DEF HasPushed, SameCall, SameItem
<1>7. SameAndOne(stack', S, t) BY <1>5, <1>6 DEF SameAndOne
<1> QED BY <1>2, <1>3, <1>4, <1>7 DEF HasPushed

\* What is left of the calls still has the data of the lists below.
LEMMA SharedButTop ==
  ASSUME TypeOK, DataShared, NEW t \in Threads, NEW S \in [Threads -> Seq(Frames)],
         SameButTop(S, stack, t), stack[t] # <<>>, S[t][1].kind = stack[t][1].kind,
         stack[t][1].td => S[t][1].td
  PROVE  SharedIn(S)
<1>1. stack \in [Threads -> Seq(Frames)] BY DEF TypeOK
<1>2. ASSUME NEW k \in 1 .. Len(S[t]) - 1, S[t][k].kind = "failure", S[t][k + 1].td
      PROVE  S[t][k].td
  <2>1. Len(S[t]) = Len(stack[t]) /\ Len(stack[t]) \in Nat BY <1>1 DEF SameButTop
  <2>2. k + 1 \in 2 .. Len(stack[t]) /\ k \in 1 .. Len(stack[t]) - 1 BY <2>1
  <2>3. stack[t][k + 1].td BY <1>2, <2>2 DEF SameButTop, SameItem
  <2>4. CASE k = 1 BY <1>2, <2>2, <2>3, <2>4 DEF DataShared, SharedIn, SharedDown
  <2>5. CASE k # 1
    <3>1. k \in 2 .. Len(stack[t]) BY <2>1, <2>2, <2>5
    <3>2. SameItem(S[t][k], stack[t][k]) BY <3>1 DEF SameButTop
    <3>3. stack[t][k].td BY <1>2, <2>2, <2>3, <3>2 DEF SameItem, DataShared, SharedIn, SharedDown
    <3> QED BY <3>2, <3>3 DEF SameItem
  <2> QED BY <2>4, <2>5
<1>3. ASSUME NEW u \in Threads \ {t}, NEW k \in 1 .. Len(S[u]) - 1, S[u][k].kind = "failure",
             S[u][k + 1].td
      PROVE  S[u][k].td
  <2>1. Len(S[u]) = Len(stack[u]) /\ Len(stack[u]) \in Nat BY <1>1 DEF SameButTop
  <2>2. k \in 1 .. Len(stack[u]) /\ k + 1 \in 1 .. Len(stack[u]) /\ k \in 1 .. Len(stack[u]) - 1
    BY <2>1
  <2>3. SameItem(S[u][k], stack[u][k]) /\ SameItem(S[u][k + 1], stack[u][k + 1])
    BY <2>2 DEF SameButTop
  <2>4. stack[u][k].td
    BY <1>3, <2>2, <2>3 DEF SameItem, DataShared, SharedIn, SharedDown
  <2> QED BY <2>3, <2>4 DEF SameItem
<1> QED BY <1>2, <1>3 DEF SharedIn, SharedDown

LEMMA SharedAndOne ==
  ASSUME NEW S \in [Threads -> Seq(Frames)], NEW S2 \in [Threads -> Seq(Frames)], SharedIn(S),
         NEW t \in Threads, SameAndOne(S2, S, t),
         S2[t][1].kind = "failure" /\ S[t][1].td => S2[t][1].td
  PROVE  SharedIn(S2)
<1>1. ASSUME NEW k \in 1 .. Len(S2[t]) - 1, S2[t][k].kind = "failure", S2[t][k + 1].td
      PROVE  S2[t][k].td
  <2>1. Len(S2[t]) = Len(S[t]) + 1 /\ Len(S[t]) \in Nat BY DEF SameAndOne
  <2>2. k \in 1 .. Len(S[t]) BY <2>1
  <2>3. S[t][k].td BY <1>1, <2>2 DEF SameAndOne, SameItem
  <2>4. CASE k = 1 BY <1>1, <2>3, <2>4
  <2>5. CASE k # 1
    <3>1. k - 1 \in 1 .. Len(S[t]) /\ k - 1 \in 1 .. Len(S[t]) - 1 /\ (k - 1) + 1 = k
      BY <2>1, <2>2, <2>5
    <3>2. SameItem(S2[t][k], S[t][k - 1]) BY <3>1 DEF SameAndOne
    <3>3. S[t][k - 1].td BY <1>1, <2>3, <3>1, <3>2 DEF SameItem, SharedIn, SharedDown
    <3> QED BY <3>2, <3>3 DEF SameItem
  <2> QED BY <2>4, <2>5
<1>2. ASSUME NEW u \in Threads \ {t}, NEW k \in 1 .. Len(S2[u]) - 1, S2[u][k].kind = "failure",
             S2[u][k + 1].td
      PROVE  S2[u][k].td
  <2>1. Len(S2[u]) = Len(S[u]) /\ Len(S[u]) \in Nat BY DEF SameAndOne
  <2>2. k \in 1 .. Len(S[u]) /\ k + 1 \in 1 .. Len(S[u]) /\ k \in 1 .. Len(S[u]) - 1
    BY <2>1
  <2>3. SameItem(S2[u][k], S[u][k]) /\ SameItem(S2[u][k + 1], S[u][k + 1])
    BY <2>2 DEF SameAndOne
  <2>4. S[u][k].td BY <1>2, <2>2, <2>3 DEF SameItem, SharedIn, SharedDown
  <2> QED BY <2>3, <2>4 DEF SameItem
<1> QED BY <1>1, <1>2 DEF SharedIn, SharedDown

(***************************************************************************)
(* The steps of a list.                                                    *)
(***************************************************************************)

\* Frame g is frame f at its next action, with no less trigger data.
AtNext(g, f) ==
  /\ g \in Frames /\ g.run = f.run /\ g.acts = f.acts /\ g.i = f.i + 1 /\ g.kind = f.kind
  /\ f.td => g.td

\* The stack s with g as its innermost call, whatever the others were marked with.
WithTop(b, s, g) ==
  /\ b \in Seq(Frames) /\ Len(b) = Len(s) /\ b[1] = g
  /\ \A k \in 2 .. Len(b) : SameItem(b[k], s[k])

LEMMA PlainTop ==
  ASSUME TypeOK, NEW t \in Threads, ~Idle(t), NEW g \in Frames, Later(g, Top(t)),
         g.erred = Top(t).erred, NEW b, b = <<g>> \o Tail(stack[t])
  PROVE  WithTop(b, stack[t], g)
<1>1. Base(t, b, FALSE) /\ Plain(b, stack[t], g) BY BaseReplaced
<1> QED BY <1>1 DEF WithTop, Base, SameItem, Plain

LEMMA ErredTop ==
  ASSUME TypeOK, NEW t \in Threads, ~Idle(t), NEW g \in Frames, Later(g, Top(t)),
         g.erred = TRUE, NEW b, b = <<g>> \o Erred(Tail(stack[t]))
  PROVE  WithTop(b, stack[t], g)
<1>1. Base(t, b, TRUE) /\ AllErred(b, stack[t], g) BY BaseErred
<1>3. Len(b) = Len(stack[t]) /\ b[1] = g
      /\ \A k \in 2 .. Len(b) : b[k] = [stack[t][k] EXCEPT !.erred = TRUE]
  BY <1>1 DEF AllErred
<1>2. ASSUME NEW k \in 2 .. Len(b) PROVE SameItem(b[k], stack[t][k])
  <2>1. stack[t] \in Seq(Frames) BY TopFacts
  <2>2. k \in DOMAIN stack[t] BY <1>3, <2>1
  <2>3. stack[t][k] \in Frames BY <2>1, <2>2
  <2>4. b[k] = [stack[t][k] EXCEPT !.erred = TRUE] BY <1>3
  <2> QED BY <2>3, <2>4 DEF SameItem, Frames
<1> QED BY <1>1, <1>2, <1>3 DEF WithTop, Base

\* The list goes on with its next action.
LEMMA WentOn ==
  ASSUME TypeOK, ListsRight, NEW t \in Threads, Ready(t), NEW g, AtNext(g, Top(t)),
         NEW b, WithTop(b, stack[t], g), NEW S, StackWith(S, t, b),
         NEW failed \in BOOLEAN, NEW rs, rs = Note(Top(t), Act(t), g.td, failed)
  PROVE  /\ S \in [Threads -> Seq(Frames)] /\ S[t] = b /\ SharedIn(S)
         /\ Orderly(HeldOf(S, timers), rs) /\ rs \in Seq(Runs)
         /\ failed /\ Act(t).onFailure # <<>> =>
              FallbackFits(Top(t).run, Act(t), HeldOf(S, timers), rs)
<1> /\ g \in Frames /\ g.run = Top(t).run /\ g.acts = Top(t).acts /\ g.i = Top(t).i + 1
    /\ g.kind = Top(t).kind /\ (Top(t).td => g.td)
    /\ b \in Seq(Frames) /\ Len(b) = Len(stack[t]) /\ b[1] = g
    /\ \A k \in 2 .. Len(b) : SameItem(b[k], stack[t][k])
  BY DEF AtNext, WithTop
<1>1. S \in [Threads -> Seq(Frames)] /\ S[t] = b /\ SameButTop(S, stack, t) BY ButTop
<1>2. stack[t] # <<>> /\ Top(t) = stack[t][1] BY TopFacts, ActFacts
<1>3. S[t][1] = g BY <1>1
<1>4. SharedIn(S)
  <2>1. S[t][1].kind = stack[t][1].kind /\ (stack[t][1].td => S[t][1].td) BY <1>2, <1>3
  <2> QED BY <1>1, <1>2, <2>1, SharedButTop DEF ListsRight
<1>5. Orderly(HeldOf(stack, timers), runs) BY DEF ListsRight
<1>6. /\ Orderly(HeldOf(S, timers), rs) /\ rs \in Seq(Runs)
      /\ failed /\ Act(t).onFailure # <<>> =>
           FallbackFits(Top(t).run, Act(t), HeldOf(S, timers), rs)
  BY <1>1, <1>3, <1>5, TopActed
<1> QED BY <1>1, <1>4, <1>6

\* The innermost call goes on without a mark.
LEMMA NextLists ==
  ASSUME TypeOK, ListsRight, NEW t \in Threads, Ready(t), NEW g, AtNext(g, Top(t)),
         g.erred = Top(t).erred, Later(g, Top(t)),
         NEW S, StackWith(S, t, <<g>> \o Tail(stack[t])),
         NEW rs, rs = Note(Top(t), Act(t), g.td, FALSE)
  PROVE  /\ S \in [Threads -> Seq(Frames)] /\ S[t] # <<>> /\ S[t][1] = g
         /\ SharedIn(S) /\ Orderly(HeldOf(S, timers), rs) /\ rs \in Seq(Runs)
<1> DEFINE b == <<g>> \o Tail(stack[t])
<1>1. ~Idle(t) /\ g \in Frames BY ActFacts DEF AtNext
<1>2. WithTop(b, stack[t], g) BY <1>1, PlainTop
<1>4. StackWith(S, t, b) OBVIOUS
<1>5. Len(stack[t]) # 0 BY <1>1, TopFacts
<1> HIDE DEF b
<1> DEFINE failed == FALSE
<1>7. failed \in BOOLEAN /\ rs = Note(Top(t), Act(t), g.td, failed) OBVIOUS
<1> HIDE DEF failed
<1>8. /\ S \in [Threads -> Seq(Frames)] /\ S[t] = b /\ SharedIn(S)
      /\ Orderly(HeldOf(S, timers), rs) /\ rs \in Seq(Runs)
  BY <1>2, <1>4, <1>7, WentOn, ZenonT(40)
<1>9. b # <<>> /\ b[1] = g BY <1>2, <1>5 DEF WithTop
<1> QED BY <1>8, <1>9

\* An action that does no more than that.
LEMMA GoesOn ==
  ASSUME TypeOK, ListsRight, NEW t \in Threads, Ready(t), NEW g, AtNext(g, Top(t)),
         g.erred = Top(t).erred, Later(g, Top(t)),
         StackWith(stack', t, <<g>> \o Tail(stack[t])),
         runs' = Note(Top(t), Act(t), g.td, FALSE), timers' = timers
  PROVE  ListsRight'
<1> DEFINE S == stack'
           rs == runs'
<1>1. StackWith(S, t, <<g>> \o Tail(stack[t])) /\ rs = Note(Top(t), Act(t), g.td, FALSE)
  OBVIOUS
<1> HIDE DEF S, rs
<1>2. SharedIn(S) /\ Orderly(HeldOf(S, timers), rs) BY ZenonT(40), <1>1, NextLists
<1> QED BY <1>2 DEF ListsRight, DataShared, S, rs

LEMMA NextFrame ==
  ASSUME TypeOK, NEW t \in Threads, ~Idle(t), NEW g, g = [Top(t) EXCEPT !.i = @ + 1]
  PROVE  /\ AtNext(g, Top(t)) /\ Later(g, Top(t)) /\ g.erred = Top(t).erred
         /\ g.td = Top(t).td
<1>1. Top(t) \in Frames /\ Top(t).i \in Nat \ {0} BY TopFacts DEF Frames
<1>2. Top(t).i + 1 \in Nat \ {0} BY <1>1
<1> QED BY <1>1, <1>2, FrameAt DEF Later, AtNext

\* The tail of a request.
LEMMA FinishLists ==
  ASSUME TypeOK, ListsRight, NEW t \in Threads, Ready(t), NEW out, out.error \in BOOLEAN,
         out.failed \in BOOLEAN, NEW kind \in {"failure", "copied"},
         Finish(t, Top(t), Act(t), out, kind), timers' = timers
  PROVE  ListsRight'
<1> DEFINE f == Top(t)
           a == Act(t)
           next == [f EXCEPT !.i = @ + 1, !.erred = @ \/ out.error]
           rest == IF out.error THEN Erred(Tail(stack[t])) ELSE Tail(stack[t])
           fall == Frame(f.run, f.ptr, a.onFailure, 0, f.td, kind)
           b == <<next>> \o rest
           called == out.failed /\ a.onFailure # <<>>
           S == [stack EXCEPT ![t] = b]
<1>1. /\ ~Idle(t) /\ f \in Frames /\ f.i \in 1 .. Len(f.acts) /\ a \in Actions
  BY ActFacts
<1>2. f.td \in BOOLEAN /\ f.erred \in BOOLEAN /\ f.run \in Nat /\ f.ptr \in Pointers
      /\ f.i + 1 \in Nat \ {0}
  BY <1>1 DEF Frames
<1>3. a.onFailure \in Seq(Actions) BY <1>1, ActionParams
<1>4. /\ fall \in Frames /\ fall.run = f.run /\ fall.acts = a.onFailure /\ fall.i = 1
      /\ fall.td = f.td /\ fall.kind = kind
  <2>1. 0 \in Nat /\ kind \in {"fire", "test", "failure", "copied", "resume"} OBVIOUS
  <2>2. fall = Frame(f.run, f.ptr, a.onFailure, 0, f.td, kind) OBVIOUS
  <2> HIDE DEF f, a, fall
  <2> QED BY <1>2, <1>3, <2>1, <2>2 DEF Frame, Frames
<1>5. /\ next \in Frames /\ Later(next, f) /\ next.erred = (f.erred \/ out.error)
      /\ AtNext(next, f) /\ next.td = f.td
  <2>1. (f.erred \/ out.error) \in BOOLEAN BY <1>2
  <2> DEFINE e == f.erred \/ out.error
  <2>2. next = [f EXCEPT !.i = f.i + 1, !.erred = e] /\ e \in BOOLEAN BY <2>1
  <2> HIDE DEF f, next, e
  <2>3. next \in Frames /\ Later(next, f) /\ next.erred = e /\ next.td = f.td
    BY <1>1, <1>2, <2>2 DEF Later, Frames
  <2>4. next.run = f.run /\ next.acts = f.acts /\ next.i = f.i + 1 /\ next.kind = f.kind
    BY <1>1, <1>2, <2>2 DEF Frames
  <2> QED BY <2>3, <2>4 DEF e, AtNext
<1>6. /\ IF called THEN Call(t, fall, b) ELSE stack' = S
      /\ runs' = Note(f, a, f.td, out.failed)
  BY DEF Finish
<1>7. rest = IF out.error THEN Erred(Tail(stack[t])) ELSE Tail(stack[t]) OBVIOUS
<1>8. b = <<next>> \o rest OBVIOUS
<1> HIDE DEF next, rest, fall, b, called, f, a
<1>9. WithTop(b, stack[t], next)
  <2>1. CASE out.error
    <3>1. next.erred = TRUE BY <1>2, <1>5, <2>1
    <3>2. b = <<next>> \o Erred(Tail(stack[t])) BY <1>7, <1>8, <2>1
    <3> QED BY <1>1, <1>5, <3>1, <3>2, ErredTop DEF f
  <2>2. CASE ~out.error
    <3>1. next.erred = f.erred BY <1>2, <1>5, <2>2
    <3>2. b = <<next>> \o Tail(stack[t]) BY <1>7, <1>8, <2>2
    <3> QED BY <1>1, <1>5, <3>1, <3>2, PlainTop DEF f
  <2> QED BY <2>1, <2>2
<1>10. /\ S \in [Threads -> Seq(Frames)] /\ S[t] = b /\ SharedIn(S)
       /\ Orderly(HeldOf(S, timers), runs') /\ runs' \in Seq(Runs)
       /\ out.failed /\ a.onFailure # <<>> => FallbackFits(f.run, a, HeldOf(S, timers), runs')
  <2> DEFINE rs == runs'
             fl == out.failed
  <2>1. rs = Note(Top(t), Act(t), next.td, fl) BY <1>5, <1>6 DEF f, a
  <2>2. StackWith(S, t, b) /\ fl \in BOOLEAN BY DEF StackWith
  <2>3. AtNext(next, Top(t)) BY <1>5 DEF f
  <2> HIDE DEF S, rs, fl
  <2>4. /\ S \in [Threads -> Seq(Frames)] /\ S[t] = b /\ SharedIn(S)
        /\ Orderly(HeldOf(S, timers), rs) /\ rs \in Seq(Runs)
        /\ fl /\ Act(t).onFailure # <<>> =>
             FallbackFits(Top(t).run, Act(t), HeldOf(S, timers), rs)
    BY <1>9, <2>1, <2>2, <2>3, WentOn
  <2> QED BY <2>4 DEF f, a, rs, fl
<1>11. CASE ~called BY <1>6, <1>10, <1>11 DEF ListsRight, DataShared
<1>12. CASE called
  <2>1. Call(t, fall, b) BY <1>6, <1>12
  <2>2. StackWith(S, t, b) BY DEF StackWith
  <2> HIDE DEF S
  <2>3. /\ stack' \in [Threads -> Seq(Frames)] /\ SameAndOne(stack', S, t)
        /\ SameItem(stack'[t][1], fall)
    BY <1>4, <1>9, <2>1, <2>2, CallOver DEF WithTop
  <2>4. SharedIn(stack')
    <3>1. S[t][1] = next BY <1>9, <1>10 DEF WithTop
    <3>2. stack'[t][1].kind = "failure" /\ S[t][1].td => stack'[t][1].td
      BY <1>4, <1>5, <2>3, <3>1 DEF SameItem
    <3> QED BY <1>10, <2>3, <3>2, SharedAndOne
  <2>5. timers \subseteq Timers BY DEF TypeOK
  <2>6. Room(Item(stack'[t][1], stack'[t][1].i), HeldOf(S, timers), runs')
    <3> DEFINE h == Item(stack'[t][1], stack'[t][1].i)
    <3>1. h.run = f.run /\ h.acts = a.onFailure /\ h.i = 1 /\ h.td = f.td
      BY <1>4, <2>3 DEF SameItem, Item
    <3>2. h = [run |-> f.run, acts |-> a.onFailure, i |-> 1, td |-> f.td]
      BY <1>4, <2>3 DEF SameItem, Item
    <3>3. h \in Items BY <1>2, <1>3, <3>2 DEF Items
    <3> HIDE DEF h
    <3>4. Fallback(h, f.run, a) BY <3>1 DEF Fallback
    <3>5. FallbackFits(f.run, a, HeldOf(S, timers), runs') BY <1>10, <1>12 DEF called
    <3>6. Room(h, HeldOf(S, timers), runs') BY <3>3, <3>4, <3>5 DEF FallbackFits
    <3> QED BY <3>6 DEF h
  <2>7. Orderly(HeldOf(stack', timers), runs') BY <1>10, <2>3, <2>5, <2>6, CallHeld
  <2> QED BY <2>4, <2>7 DEF ListsRight, DataShared
<1> QED BY <1>11, <1>12

LEMMA RequestLists ==
  ASSUME TypeOK, ListsRight, NEW t \in Threads, DoRequest(t)
  PROVE  ListsRight'
<1>1. Ready(t) /\ Act(t).type \in Handlers /\ timers' = timers BY DEF DoRequest
<1>2. PICK q \in Request : Finish(t, Top(t), Act(t), Outcome(Act(t).type, q), "failure")
  BY DEF DoRequest
<1>3. Outcome(Act(t).type, q).error \in BOOLEAN /\ Outcome(Act(t).type, q).failed \in BOOLEAN
  BY <1>1, OutcomeFacts
<1>4. "failure" \in {"failure", "copied"} OBVIOUS
<1> QED BY <1>1, <1>2, <1>3, <1>4, FinishLists

\* A rule is called, or fired, on the stacks S with the histories `done`.
LEMMA ExecuteLists ==
  ASSUME TypeOK, NEW t \in Threads, NEW done \in Seq(Runs), NEW r \in Rules,
         NEW b \in Seq(Frames), Execute(t, done, r, b), NEW S, StackWith(S, t, b), SharedIn(S),
         Orderly(HeldOf(S, timers), done), timers' = timers
  PROVE  ListsRight'
<1> DEFINE n == Len(done) + 1
           ptr == Pointer(n, r, Program[r], 0)
           f == Frame(n, ptr, Program[r], 0, FALSE, "fire")
<1>1. n \in Nat /\ Program[r] \in Seq(Actions) /\ r \in RuleIds
  BY ProgramParams DEF RuleIds
<1>2. ptr \in Pointers BY <1>1 DEF Pointer, Pointers
<1>3. runs' = Append(done, Started(r)) /\ Call(t, f, b) BY DEF Execute
<1> HIDE DEF ptr
<1>4. /\ f \in Frames /\ f.kind = "fire" /\ f.run = n /\ f.acts = Program[r] /\ f.i = 1
      /\ f.td = FALSE
  <2> HIDE DEF n
  <2> QED BY <1>1, <1>2 DEF Frame, Frames
<1> HIDE DEF f
<1>5. /\ S \in [Threads -> Seq(Frames)] /\ stack' \in [Threads -> Seq(Frames)]
      /\ SameAndOne(stack', S, t) /\ SameItem(stack'[t][1], f)
  BY <1>3, <1>4, CallOver
<1>6. SharedIn(stack')
  <2>1. stack'[t][1].kind # "failure" BY <1>4, <1>5 DEF SameItem
  <2> QED BY <1>5, <2>1, SharedAndOne
<1>7. stack'[t][1].run = Len(done) + 1 /\ stack'[t][1].acts = Program[r]
      /\ stack'[t][1].i = 1 /\ stack'[t][1].td = FALSE
  BY <1>4, <1>5 DEF SameItem
<1>8. timers \subseteq Timers BY DEF TypeOK
<1>9. Orderly(HeldOf(stack', timers), Append(done, Started(r)))
  BY <1>5, <1>7, <1>8, RuleHeld
<1> QED BY <1>3, <1>6, <1>9 DEF ListsRight, DataShared

LEMMA RunRuleLists ==
  ASSUME TypeOK, ListsRight, NEW t \in Threads, DoRunRule(t)
  PROVE  ListsRight'
<1> DEFINE noted == Note(Top(t), Act(t), Top(t).td, FALSE)
           g == [Top(t) EXCEPT !.i = @ + 1]
           b == <<g>> \o Tail(stack[t])
           S == [stack EXCEPT ![t] = b]
           target == Act(t).target
<1>1. Ready(t) /\ timers' = timers BY DEF DoRunRule
<1>2. ~Idle(t) BY <1>1, ActFacts
<1>3. AtNext(g, Top(t)) /\ Later(g, Top(t)) /\ g.erred = Top(t).erred /\ g.td = Top(t).td
  BY <1>2, NextFrame
<1>4. WithTop(b, stack[t], g) BY <1>2, <1>3, PlainTop DEF AtNext
<1>5. IF target \in enabled THEN Execute(t, noted, target, b)
      ELSE runs' = noted /\ stack' = Advance(t, Top(t))
  BY DEF DoRunRule
<1>6. noted = Note(Top(t), Act(t), g.td, FALSE) BY <1>3
<1>7. StackWith(S, t, b) BY DEF StackWith
<1>8. stack' = Advance(t, Top(t)) => StackWith(stack', t, b) BY DEF StackWith, Advance
<1> HIDE DEF noted, g, S, target
<1>9. CASE target \notin enabled
  <2>1. StackWith(stack', t, b) /\ runs' = Note(Top(t), Act(t), g.td, FALSE)
    BY <1>5, <1>6, <1>8, <1>9
  <2> QED BY <1>1, <1>3, <2>1, GoesOn
<1>10. CASE target \in enabled
  <2>1. target \in Rules BY <1>10 DEF TypeOK
  <2>2. Execute(t, noted, target, b) BY <1>5, <1>10
  <2>3. SharedIn(S) /\ Orderly(HeldOf(S, timers), noted) /\ noted \in Seq(Runs)
    BY ZenonT(40), <1>1, <1>3, <1>6, <1>7, NextLists
  <2>4. b \in Seq(Frames) BY <1>4 DEF WithTop
  <2> HIDE DEF b
  <2> QED BY <1>1, <1>7, <2>1, <2>2, <2>3, <2>4, ExecuteLists
<1> QED BY <1>9, <1>10

\* The actions that only make the list go on.
LEMMA PlainLists ==
  ASSUME TypeOK, ListsRight, NEW t \in Threads, DoSetRuleEnabled(t) \/ DoDigest(t)
  PROVE  ListsRight'
<1> DEFINE g == [Top(t) EXCEPT !.i = @ + 1]
<1>1. /\ Ready(t) /\ timers' = timers /\ stack' = Advance(t, Top(t))
      /\ runs' = Note(Top(t), Act(t), Top(t).td, FALSE)
  BY DEF DoSetRuleEnabled, DoDigest
<1>2. ~Idle(t) BY <1>1, ActFacts
<1>3. AtNext(g, Top(t)) /\ Later(g, Top(t)) /\ g.erred = Top(t).erred /\ g.td = Top(t).td
  BY <1>2, NextFrame
<1>4. StackWith(stack', t, <<g>> \o Tail(stack[t])) BY <1>1 DEF StackWith, Advance
<1>5. runs' = Note(Top(t), Act(t), g.td, FALSE) BY <1>1, <1>3
<1> HIDE DEF g
<1> QED BY <1>1, <1>3, <1>4, <1>5, GoesOn

LEMMA QueryLists ==
  ASSUME TypeOK, ListsRight, NEW t \in Threads, DoQuery(t)
  PROVE  ListsRight'
<1>1. Ready(t) /\ timers' = timers BY DEF DoQuery
<1>2. ~Idle(t) /\ Top(t) \in Frames /\ Top(t).td \in BOOLEAN /\ Top(t).i \in Nat \ {0}
  BY <1>1, ActFacts DEF Frames
<1>3. PICK fetched \in BOOLEAN :
        LET f == [Top(t) EXCEPT !.td = @ \/ fetched] IN
        stack' = Advance(t, f) /\ runs' = Note(f, Act(t), f.td, FALSE)
  BY DEF DoQuery
<1> DEFINE d == Top(t).td \/ fetched
           f == [Top(t) EXCEPT !.td = d]
           g == [f EXCEPT !.i = f.i + 1]
<1>4. d \in BOOLEAN /\ (Top(t).td => d) BY <1>2
<1>5. stack' = [stack EXCEPT ![t] = <<g>> \o Tail(stack[t])] BY <1>3 DEF Advance
<1>6. runs' = Note(f, Act(t), f.td, FALSE) BY <1>3
<1>7. f = [Top(t) EXCEPT !.td = d] /\ g = [f EXCEPT !.i = f.i + 1] OBVIOUS
<1> HIDE DEF d, f, g
<1>8. /\ f \in Frames /\ f.td = d /\ f.run = Top(t).run /\ f.i = Top(t).i
      /\ f.acts = Top(t).acts /\ f.kind = Top(t).kind /\ f.ptr = Top(t).ptr
      /\ f.crossed = Top(t).crossed /\ f.nested = Top(t).nested /\ f.erred = Top(t).erred
  BY <1>2, <1>4, <1>7, FrameMarked, FrameTold
<1>9. f.i + 1 \in Nat \ {0} BY <1>2, <1>8
<1>10. /\ g \in Frames /\ g.td = f.td /\ g.run = f.run /\ g.i = f.i + 1 /\ g.acts = f.acts
       /\ g.kind = f.kind /\ g.ptr = f.ptr /\ g.crossed = f.crossed /\ g.nested = f.nested
       /\ g.erred = f.erred
  BY <1>7, <1>8, <1>9 DEF Frames
<1>11. AtNext(g, Top(t)) BY <1>4, <1>8, <1>10 DEF AtNext
<1>12. Later(g, Top(t)) /\ g.erred = Top(t).erred BY <1>8, <1>10 DEF Later
<1>13. Note(f, Act(t), f.td, FALSE) = Note(Top(t), Act(t), g.td, FALSE)
  BY <1>8, <1>10 DEF Note
<1>14. StackWith(stack', t, <<g>> \o Tail(stack[t])) BY <1>5 DEF StackWith
<1>15. runs' = Note(Top(t), Act(t), g.td, FALSE) BY <1>6, <1>13
<1> QED BY <1>1, <1>11, <1>12, <1>14, <1>15, GoesOn

\* The rest of the list from g's action on is left to a timer.
LEMMA PostponeLists ==
  ASSUME TypeOK, ListsRight, NEW t \in Threads, ~Idle(t), NEW g \in Frames, Later(g, Top(t)),
         g.erred = Top(t).erred, g.run = Top(t).run, g.acts = Top(t).acts, g.td = Top(t).td,
         g.i \in 1 .. Len(g.acts) + 1, NEW S \in [Threads -> Seq(Frames)],
         StackWith(S, t, <<g>> \o Tail(stack[t])), runs' \in Seq(Runs),
         Orderly(HeldOf(S, timers), runs'), NEW attempt \in Nat, NEW left \in Nat,
         Postpone(t, Top(t), Rest(g, g.i), attempt, left)
  PROVE  ListsRight'
<1> DEFINE e == [Top(t) EXCEPT !.i = Len(Top(t).acts) + 1]
           b == <<e>> \o Tail(stack[t])
           c == <<g>> \o Tail(stack[t])
           w == [run |-> Top(t).run, rule |-> Top(t).ptr.rule, acts |-> Rest(g, g.i),
                 attempt |-> attempt, td |-> Top(t).td, left |-> left]
<1>1. Top(t) \in Frames /\ Top(t) = stack[t][1] BY TopFacts
<1>2. Len(Top(t).acts) \in Nat BY <1>1 DEF Frames
<1>3. /\ e \in Frames /\ Later(e, Top(t)) /\ e.erred = Top(t).erred /\ e.run = Top(t).run
      /\ e.acts = Top(t).acts /\ e.kind = Top(t).kind /\ e.td = Top(t).td
      /\ e.i = Len(Top(t).acts) + 1
  <2> DEFINE n == Len(Top(t).acts) + 1
  <2>1. n \in Nat \ {0} /\ e = [Top(t) EXCEPT !.i = n] BY <1>2
  <2> HIDE DEF n, e
  <2>2. /\ e \in Frames /\ Later(e, Top(t)) /\ e.erred = Top(t).erred /\ e.run = Top(t).run
        /\ e.acts = Top(t).acts /\ e.kind = Top(t).kind /\ e.td = Top(t).td /\ e.i = n
    BY <1>1, <2>1 DEF Later, Frames
  <2> QED BY <2>2 DEF n
<1>4. timers' = timers \cup {w} /\ stack' = [stack EXCEPT ![t] = b] BY DEF Postpone
<1>5. StackWith(stack', t, b) BY <1>4 DEF StackWith
<1>6. w \in Timers /\ w.run = g.run /\ w.acts = Rest(g, g.i) /\ w.td = g.td
  <2>1. Top(t).run \in Nat /\ Top(t).ptr.rule \in RuleIds /\ Top(t).td \in BOOLEAN
    BY <1>1 DEF Frames, Pointers
  <2>2. Rest(g, g.i) \in Seq(Actions) BY RestFacts
  <2> QED BY <2>1, <2>2 DEF Timers
<1>7. StackWith(S, t, c) OBVIOUS
<1> HIDE DEF e, w, b, c
<1>8. WithTop(b, stack[t], e) BY <1>3, PlainTop DEF b
<1>9. WithTop(c, stack[t], g) BY PlainTop DEF c
<1>10. stack' \in [Threads -> Seq(Frames)] /\ stack'[t] = b /\ S[t] = c
       /\ SameButTop(stack', stack, t) /\ SameButTop(S, stack, t)
  <2>1. stack' \in [Threads -> Seq(Frames)] /\ stack'[t] = b /\ SameButTop(stack', stack, t)
    BY <1>5, <1>8, ButTop DEF WithTop
  <2>2. S[t] = c /\ SameButTop(S, stack, t) BY <1>7, <1>9, ButTop DEF WithTop
  <2> QED BY <2>1, <2>2
<1>11. stack'[t][1] = e /\ S[t][1] = g /\ stack[t] # <<>> /\ S[t] # <<>>
  <2>1. stack[t] # <<>> /\ Len(stack[t]) # 0 BY TopFacts
  <2>2. stack'[t][1] = e /\ S[t][1] = g /\ Len(c) # 0 BY <1>8, <1>9, <1>10, <2>1 DEF WithTop
  <2>3. c \in Seq(Frames) BY <1>9 DEF WithTop
  <2> QED BY <1>10, <2>1, <2>2, <2>3
<1>12. SameButTop(stack', S, t)
  <2>1. /\ Len(stack'[t]) = Len(S[t])
        /\ \A k \in 2 .. Len(S[t]) : SameItem(stack'[t][k], S[t][k])
    BY <1>10 DEF SameButTop, SameItem
  <2>2. ASSUME NEW u \in Threads \ {t}
        PROVE  /\ Len(stack'[u]) = Len(S[u])
               /\ \A k \in 1 .. Len(S[u]) : SameItem(stack'[u][k], S[u][k])
    BY <1>10 DEF SameButTop, SameItem
  <2> QED BY <2>1, <2>2 DEF SameButTop
<1>13. SharedIn(stack')
  <2>1. stack'[t][1].kind = stack[t][1].kind /\ (stack[t][1].td => stack'[t][1].td)
    BY <1>1, <1>3, <1>11
  <2> QED BY <1>10, <1>11, <2>1, SharedButTop DEF ListsRight
<1>14. Orderly(HeldOf(stack', timers \cup {w}), runs')
  <2> DEFINE P == stack'
             R == runs'
  <2>1. timers \subseteq Timers BY DEF TypeOK
  <2>2. /\ P \in [Threads -> Seq(Frames)] /\ R \in Seq(Runs) /\ Orderly(HeldOf(S, timers), R)
        /\ SameButTop(P, S, t) /\ P[t][1].run = S[t][1].run
    BY <1>3, <1>10, <1>11, <1>12
  <2>3. P[t][1].i > Len(P[t][1].acts)
    <3>1. P[t][1].i = Len(Top(t).acts) + 1 /\ P[t][1].acts = Top(t).acts BY <1>3, <1>11
    <3>2. \A n \in Nat : n + 1 > n OBVIOUS
    <3> QED BY Zenon, <1>2, <3>1, <3>2
  <2>4. S[t][1].i \in 1 .. Len(S[t][1].acts) + 1 BY <1>11
  <2>5. w \in Timers /\ w.run = S[t][1].run /\ w.acts = Rest(S[t][1], S[t][1].i)
        /\ w.td = S[t][1].td
    BY <1>6, <1>11
  <2> HIDE DEF P, R
  <2>6. Orderly(HeldOf(P, timers \cup {w}), R)
    BY <1>11, <2>1, <2>2, <2>3, <2>4, <2>5, PostponedHeld
  <2> QED BY <2>6 DEF P, R
<1> QED BY <1>4, <1>13, <1>14 DEF ListsRight, DataShared

LEMMA DelayLists ==
  ASSUME TypeOK, ListsRight, NEW t \in Threads, DoDelay(t)
  PROVE  ListsRight'
<1> DEFINE g == [Top(t) EXCEPT !.i = @ + 1]
           S == [stack EXCEPT ![t] = <<g>> \o Tail(stack[t])]
           left == Longer(Act(t).seconds)
           attempt == 0
<1>1. /\ Ready(t) /\ Postpone(t, Top(t), Rest(Top(t), Top(t).i + 1), attempt, left)
      /\ runs' = Note(Top(t), Act(t), Top(t).td, FALSE)
  BY DEF DoDelay
<1>2. ~Idle(t) /\ Top(t).i \in 1 .. Len(Top(t).acts) /\ Act(t) \in Actions /\ Top(t) \in Frames
  BY <1>1, ActFacts
<1>3. AtNext(g, Top(t)) /\ Later(g, Top(t)) /\ g.erred = Top(t).erred /\ g.td = Top(t).td
  BY <1>2, NextFrame
<1>4. left \in Nat /\ attempt \in Nat BY <1>2, ActionParams DEF Longer
<1>5. StackWith(S, t, <<g>> \o Tail(stack[t])) BY DEF StackWith
<1> HIDE DEF g, S, left, attempt
<1>6. /\ g \in Frames /\ g.run = Top(t).run /\ g.acts = Top(t).acts /\ g.i = Top(t).i + 1
  BY <1>3 DEF AtNext
<1>7. g.i \in 1 .. Len(g.acts) + 1
  <2>1. Len(Top(t).acts) \in Nat BY <1>2 DEF Frames
  <2> QED BY <1>2, <1>6, <2>1
<1>8. Rest(Top(t), Top(t).i + 1) = Rest(g, g.i) BY <1>6 DEF Rest
<1> DEFINE rs == runs'
<1>9. rs = Note(Top(t), Act(t), g.td, FALSE) BY <1>1, <1>3
<1> HIDE DEF rs
<1>10. S \in [Threads -> Seq(Frames)] /\ Orderly(HeldOf(S, timers), rs) /\ rs \in Seq(Runs)
  BY ZenonT(40), <1>1, <1>3, <1>5, <1>9, NextLists
<1>11. Postpone(t, Top(t), Rest(g, g.i), attempt, left) BY <1>1, <1>8
<1>12. Orderly(HeldOf(S, timers), runs') /\ runs' \in Seq(Runs) BY <1>10 DEF rs
<1> QED BY <1>2, <1>3, <1>4, <1>5, <1>6, <1>7, <1>10, <1>11, <1>12, PostponeLists

LEMMA AlpvLists ==
  ASSUME TypeOK, ListsRight, NEW t \in Threads, DoAlpv(t)
  PROVE  ListsRight'
<1> DEFINE again == AttemptOf(Top(t)) + 1
           rest == Rest(Top(t), Top(t).i)
           S == [stack EXCEPT ![t] = <<Top(t)>> \o Tail(stack[t])]
<1>1. Ready(t) BY DEF DoAlpv
<1>2. ~Idle(t) /\ Top(t) \in Frames /\ Top(t).i \in 1 .. Len(Top(t).acts) BY <1>1, ActFacts
<1>3. again \in Nat BY <1>2 DEF AttemptOf, Frames
<1>4. \/ Postpone(t, Top(t), rest, again, 1) /\ UNCHANGED <<cur, gerr, runs, strayed>>
      \/ /\ \E q \in Request : Finish(t, Top(t), Act(t), HttpRequest(q), "copied")
         /\ timers' = timers
  BY DEF DoAlpv
<1>5. StackWith(S, t, <<Top(t)>> \o Tail(stack[t])) BY DEF StackWith
<1>6. S = stack
  <2>1. stack[t] \in Seq(Frames) /\ stack[t] # <<>> /\ Top(t) = Head(stack[t])
    BY <1>2, TopFacts DEF Top
  <2>2. <<Head(stack[t])>> \o Tail(stack[t]) = stack[t]
    <3>1. ASSUME NEW s \in Seq(Frames), s # <<>> PROVE <<Head(s)>> \o Tail(s) = s
      BY <3>1
    <3> QED BY <2>1, <3>1
  <2>3. stack \in [Threads -> Seq(Frames)] BY DEF TypeOK
  <2> QED BY <2>1, <2>2, <2>3
<1> HIDE DEF again, rest, S
<1>7. CASE Postpone(t, Top(t), rest, again, 1) /\ runs' = runs
  <2> DEFINE R == runs'
             g == Top(t)
             one == 1
  <2>1. one \in Nat OBVIOUS
  <2>2. R \in Seq(Runs) /\ Orderly(HeldOf(S, timers), R) /\ S \in [Threads -> Seq(Frames)]
    BY <1>6, <1>7 DEF ListsRight, TypeOK
  <2>3. g.i \in 1 .. Len(g.acts) + 1 BY <1>2
  <2>4. Later(g, Top(t)) BY DEF Later
  <2>5. Postpone(t, Top(t), Rest(g, g.i), again, one) BY <1>7 DEF rest
  <2> HIDE DEF one
  <2>6. runs' \in Seq(Runs) /\ Orderly(HeldOf(S, timers), runs') BY <2>2
  <2> QED BY <1>2, <1>3, <1>5, <2>1, <2>2, <2>3, <2>4, <2>5, <2>6, PostponeLists
<1>8. ASSUME NEW q \in Request, Finish(t, Top(t), Act(t), HttpRequest(q), "copied"),
             timers' = timers
      PROVE  ListsRight'
  <2>1. HttpRequest(q).error \in BOOLEAN /\ HttpRequest(q).failed \in BOOLEAN
    BY MessageResults DEF Results
  <2>2. "copied" \in {"failure", "copied"} OBVIOUS
  <2> QED BY <1>1, <1>8, <2>1, <2>2, FinishLists
<1> QED BY <1>4, <1>7, <1>8

\* The stack s without its innermost call; the call below may have got trigger data.
Popped(b, s) ==
  /\ b \in Seq(Frames) /\ Len(b) = Len(s) - 1
  /\ \A k \in 1 .. Len(b) :
       /\ b[k].run = s[k + 1].run /\ b[k].acts = s[k + 1].acts /\ b[k].i = s[k + 1].i
       /\ b[k].kind = s[k + 1].kind /\ (s[k + 1].td => b[k].td)
       /\ k # 1 /\ b[k].td => s[k + 1].td

LEMMA PoppedFacts ==
  ASSUME TypeOK, FallbacksAbove, DataShared, NEW t \in Threads, Return(t)
  PROVE  timers' = timers /\ runs' = runs /\ stack[t] # <<>>
         /\ ~ Top(t).i <= Len(Top(t).acts)
         /\ \E b : StackWith(stack', t, b) /\ Popped(b, stack[t])
<1> DEFINE f == Top(t)
           below == Tail(stack[t])
           b == IF f.kind = "failure" THEN <<[Head(below) EXCEPT !.td = f.td]>> \o Tail(below)
                ELSE below
<1>1. ~Idle(t) /\ ~Ready(t) /\ UNCHANGED <<timers, runs>> /\ stack' = [stack EXCEPT ![t] = b]
  BY DEF Return
<1>2. /\ f \in Frames /\ f.td \in BOOLEAN /\ f = stack[t][1] /\ 1 \in DOMAIN stack[t]
      /\ below \in Seq(Frames) /\ Len(below) = Len(stack[t]) - 1 /\ Len(stack[t]) \in Nat \ {0}
      /\ \A k \in 1 .. Len(stack[t]) - 1 :
           k + 1 \in DOMAIN stack[t] /\ Tail(stack[t])[k] = stack[t][k + 1]
      /\ stack[t] \in Seq(Frames) /\ stack[t] # <<>>
  BY <1>1, TopFacts DEF Frames
<1>3. Popped(b, stack[t])
  <2>1. CASE f.kind # "failure"
    <3>1. b = below BY <2>1
    <3> HIDE DEF b
    <3> QED BY <1>2, <3>1 DEF Popped
  <2>2. CASE f.kind = "failure"
    <3>1. below # <<>> /\ Len(below) # 0
      <4>1. Len(below) # 0 BY <1>2, <2>2 DEF FallbacksAbove
      <4>2. Len(<<>>) = 0 OBVIOUS
      <4> QED BY <4>1, <4>2
    <3>2. b = <<[Head(below) EXCEPT !.td = f.td]>> \o Tail(below) BY <2>2
    <3>3. Base(t, b, FALSE) /\ HandedOn(b, stack[t], f.td)
      BY <1>1, <1>2, <3>1, <3>2, BaseHandedOn
    <3> HIDE DEF b, below
    <3>4. /\ b \in Seq(Frames) /\ Len(b) = Len(stack[t]) - 1
          /\ b[1] = [stack[t][2] EXCEPT !.td = f.td]
          /\ \A k \in 2 .. Len(b) : b[k] = stack[t][k + 1]
      BY <3>3 DEF HandedOn, Base
    <3>5. 1 \in 1 .. Len(stack[t]) - 1 /\ 1 + 1 = 2 BY <1>2, <3>1
    <3>6. stack[t][2] \in Frames BY <1>2, <3>5
    <3>7. stack[t][2].td => f.td BY <1>2, <2>2, <3>5 DEF DataShared, SharedIn, SharedDown
    <3> HIDE DEF f
    <3>8. /\ b[1].run = stack[t][2].run /\ b[1].acts = stack[t][2].acts
          /\ b[1].i = stack[t][2].i /\ b[1].kind = stack[t][2].kind /\ b[1].td = f.td
      BY <1>2, <3>4, <3>6 DEF Frames
    <3>9. ASSUME NEW k \in 1 .. Len(b)
          PROVE  /\ b[k].run = stack[t][k + 1].run /\ b[k].acts = stack[t][k + 1].acts
                 /\ b[k].i = stack[t][k + 1].i
                 /\ b[k].kind = stack[t][k + 1].kind /\ (stack[t][k + 1].td => b[k].td)
                 /\ k # 1 /\ b[k].td => stack[t][k + 1].td
      <4>1. CASE k = 1 BY <3>5, <3>7, <3>8, <4>1
      <4>2. CASE k # 1
        <5>1. k \in 2 .. Len(b) BY <3>4, <4>2
        <5> QED BY <3>4, <5>1
      <4> QED BY <4>1, <4>2
    <3> QED BY <3>4, <3>9 DEF Popped
  <2> QED BY <2>1, <2>2
<1>4. StackWith(stack', t, b) BY <1>1 DEF StackWith
<1>5. ~ Top(t).i <= Len(Top(t).acts) BY <1>1 DEF Ready
<1> HIDE DEF b
<1> QED BY <1>1, <1>2, <1>3, <1>4, <1>5

LEMMA ReturnLists ==
  ASSUME TypeOK, FallbacksAbove, ListsRight, NEW t \in Threads, Return(t)
  PROVE  ListsRight'
<1>0. /\ timers' = timers /\ runs' = runs
      /\ \E b : StackWith(stack', t, b) /\ Popped(b, stack[t])
  BY PoppedFacts DEF ListsRight
<1>1. PICK b : StackWith(stack', t, b) /\ Popped(b, stack[t]) BY <1>0
<1>2. stack \in [Threads -> Seq(Frames)] /\ timers \subseteq Timers /\ runs \in Seq(Runs)
  BY DEF TypeOK
<1>3. /\ stack' \in [Threads -> Seq(Frames)] /\ stack'[t] = b
      /\ \A u \in Threads \ {t} : stack'[u] = stack[u]
  BY <1>1, <1>2 DEF StackWith, Popped
<1>4. /\ b \in Seq(Frames) /\ Len(b) = Len(stack[t]) - 1 /\ Len(b) \in Nat
      /\ \A k \in 1 .. Len(b) :
           /\ b[k].run = stack[t][k + 1].run /\ b[k].acts = stack[t][k + 1].acts
           /\ b[k].i = stack[t][k + 1].i
           /\ b[k].kind = stack[t][k + 1].kind /\ (stack[t][k + 1].td => b[k].td)
           /\ k # 1 /\ b[k].td => stack[t][k + 1].td
  BY <1>1 DEF Popped
<1> DEFINE P == stack'
           H == HeldOf(stack, timers)
           G == HeldOf(P, timers)
           X == PlacesOf(stack, timers)
           Y == PlacesOf(P, timers)
           from == [y \in Y |-> y]
<1>5. Len(stack[t]) = Len(b) + 1 /\ Len(stack[t]) \in Nat BY <1>2, <1>4
<1>6. ASSUME NEW u \in Threads, NEW d \in 1 .. Len(P[u])
      PROVE  d \in 1 .. Len(stack[u]) /\ SameRest(G[<<u, d>>], H[<<u, d>>])
  <2>1. d \in 1 .. Len(stack[u])
    <3>1. CASE u = t BY <1>3, <1>4, <1>5, <3>1
    <3>2. CASE u # t BY <1>3, <3>2
    <3> QED BY <3>1, <3>2
  <2>2. /\ G[<<u, d>>] = Item(AtDepth(P, u, d), AtDepth(P, u, d).i)
        /\ H[<<u, d>>] = Item(AtDepth(stack, u, d), AtDepth(stack, u, d).i)
    BY <1>2, <1>3, <2>1, HeldFacts
  <2>3. CASE u # t
    <3>1. AtDepth(P, u, d) = AtDepth(stack, u, d) BY <1>3, <2>3 DEF AtDepth
    <3> QED BY <2>1, <2>2, <3>1 DEF SameRest
  <2>4. CASE u = t
    <3> DEFINE k == Len(b) - d + 1
    <3>1. k \in 1 .. Len(b) /\ Len(stack[t]) - d + 1 = k + 1
      BY <1>3, <1>4, <1>5, <2>4, DepthFacts
    <3>2. AtDepth(P, u, d) = b[k] /\ AtDepth(stack, u, d) = stack[t][k + 1]
      BY <1>3, <2>4, <3>1 DEF AtDepth
    <3> HIDE DEF k
    <3>3. /\ b[k].run = stack[t][k + 1].run /\ b[k].acts = stack[t][k + 1].acts
          /\ b[k].i = stack[t][k + 1].i /\ (stack[t][k + 1].td => b[k].td)
      BY <1>4, <3>1
    <3> QED BY <2>1, <2>2, <3>2, <3>3 DEF SameRest, Item
  <2> QED BY <2>3, <2>4
<1>7. ASSUME NEW w \in timers PROVE SameRest(G[<<"timer", w>>], H[<<"timer", w>>])
  <2>1. H[<<"timer", w>>] = Item(w, 1) BY <1>2, HeldFacts
  <2>2. P \in [Threads -> Seq(Frames)] BY <1>3
  <2> HIDE DEF P, H
  <2>3. G[<<"timer", w>>] = Item(w, 1) BY <1>2, <2>2, HeldFacts
  <2> HIDE DEF G
  <2> QED BY <2>1, <2>3 DEF SameRest
<1>8. ASSUME NEW y \in Y PROVE y \in X /\ SameRest(G[y], H[y])
  <2>1. \/ \E u \in Threads : \E d \in 1 .. Len(P[u]) : y = <<u, d>>
        \/ \E w \in timers : y = <<"timer", w>>
    BY PlaceCases
  <2>2. ASSUME NEW u \in Threads, NEW d \in 1 .. Len(P[u]), y = <<u, d>>
        PROVE  y \in X /\ SameRest(G[y], H[y])
    BY <1>6, <2>2, PlaceCases
  <2>3. ASSUME NEW w \in timers, y = <<"timer", w>> PROVE y \in X /\ SameRest(G[y], H[y])
    BY <1>7, <2>3, PlaceCases
  <2> QED BY <2>1, <2>2, <2>3
<1>9. H \in [X -> Items] BY <1>2, HeldFacts
<1>10. G \in [Y -> Items] BY <1>2, <1>3, HeldFacts
<1>11. Orderly(H, runs) BY DEF ListsRight
<1>12. \A y \in Y : from[y] = y OBVIOUS
<1> HIDE DEF H, G, X, Y, from
<1>13. ComesFrom(G, Y, H, X, from, runs)
  <2>1. ASSUME NEW y \in Y PROVE G[y].run = NoRun \/ G[y].run \in DOMAIN runs
    <3>1. G[y].run = H[y].run /\ y \in X BY <1>8 DEF SameRest
    <3> QED BY <1>9, <1>11, <3>1 DEF Orderly
  <2> QED BY <1>8, <1>12, <2>1 DEF ComesFrom
<1>14. Orderly(G, runs) BY <1>2, <1>9, <1>10, <1>11, <1>13, Rearranged
<1>15. SharedIn(P)
  <2>1. ASSUME NEW k \in 1 .. Len(b) - 1, b[k].kind = "failure", b[k + 1].td PROVE b[k].td
    <3>1. k \in 1 .. Len(b) /\ k + 1 \in 1 .. Len(b) /\ k + 1 # 1
          /\ k + 1 \in 1 .. Len(stack[t]) - 1
      BY <1>4, <1>5
    <3>2. stack[t][k + 1].kind = "failure" BY <1>4, <2>1, <3>1
    <3>3. stack[t][(k + 1) + 1].td BY <1>4, <2>1, <3>1
    <3>4. stack[t][k + 1].td BY <3>1, <3>2, <3>3 DEF ListsRight, DataShared, SharedIn, SharedDown
    <3> QED BY <1>4, <3>1, <3>4
  <2>2. \A u \in Threads \ {t} : SharedDown(P[u])
    BY <1>3 DEF ListsRight, DataShared, SharedIn
  <2>3. SharedDown(P[t]) BY <1>3, <2>1 DEF SharedDown
  <2> QED BY <2>2, <2>3 DEF SharedIn
<1> QED BY <1>0, <1>14, <1>15 DEF ListsRight, DataShared, G

(***************************************************************************)
(* The other steps.                                                        *)
(***************************************************************************)

LEMMA FireLists ==
  ASSUME TypeOK, ListsRight, NEW t \in Threads, NEW r \in Rules, Fire(t, r)
  PROVE  ListsRight'
<1> DEFINE b == <<>>
<1>1. Execute(t, runs, r, b) /\ timers' = timers /\ stack[t] = b BY DEF Fire, Idle
<1>2. stack \in [Threads -> Seq(Frames)] /\ runs \in Seq(Runs) BY DEF TypeOK
<1>3. b \in Seq(Frames) OBVIOUS
<1>4. StackWith(stack, t, b) BY <1>1, <1>2 DEF StackWith
<1> HIDE DEF b
<1>5. SharedIn(stack) /\ Orderly(HeldOf(stack, timers), runs) BY DEF ListsRight, DataShared
<1> QED BY <1>1, <1>2, <1>3, <1>4, <1>5, ExecuteLists

LEMMA TestLists ==
  ASSUME TypeOK, ListsRight, NEW a \in TestActions, Actions_Test(a)
  PROVE  ListsRight'
<1> DEFINE f == Frame(NoRun, NULL, <<a>>, 0, FALSE, "test")
           b == <<>>
           t == "http"
<1>1. Call(t, f, b) /\ timers' = timers /\ runs' = runs /\ stack[t] = b
  BY DEF Actions_Test, Idle
<1>2. f \in Frames BY TestTyped
<1>3. f.run = NoRun /\ f.kind = "test" BY DEF Frame
<1>4. stack \in [Threads -> Seq(Frames)] /\ runs \in Seq(Runs) /\ timers \subseteq Timers
  BY DEF TypeOK
<1>5. b \in Seq(Frames) /\ t \in Threads BY DEF Threads
<1>6. StackWith(stack, t, b) BY <1>1, <1>4 DEF StackWith
<1>7. SharedIn(stack) /\ Orderly(HeldOf(stack, timers), runs) BY DEF ListsRight, DataShared
<1> HIDE DEF f, b, t
<1>8. /\ stack' \in [Threads -> Seq(Frames)] /\ SameAndOne(stack', stack, t)
      /\ SameItem(stack'[t][1], f)
  BY <1>1, <1>2, <1>5, <1>6, CallOver
<1>9. SharedIn(stack')
  <2>1. stack'[t][1].kind # "failure" BY <1>3, <1>8 DEF SameItem
  <2> QED BY <1>4, <1>5, <1>7, <1>8, <2>1, SharedAndOne
<1>10. Room(Item(stack'[t][1], stack'[t][1].i), HeldOf(stack, timers), runs)
  BY <1>3, <1>8 DEF SameItem, Room, Open, Item
<1>11. Orderly(HeldOf(stack', timers), runs)
  BY <1>4, <1>5, <1>7, <1>8, <1>10, CallHeld
<1> QED BY <1>1, <1>9, <1>11 DEF ListsRight, DataShared

\* The timer w is gone and its list is called on thread t.
LEMMA ResumedHeld ==
  ASSUME NEW S \in [Threads -> Seq(Frames)], NEW S2 \in [Threads -> Seq(Frames)],
         NEW T, T \subseteq Timers, NEW R \in Seq(Runs), Orderly(HeldOf(S, T), R),
         NEW t \in Threads, SameAndOne(S2, S, t), NEW w \in T,
         S2[t][1].run = w.run, S2[t][1].acts = w.acts, S2[t][1].i = 1, S2[t][1].td = w.td
  PROVE  Orderly(HeldOf(S2, T \ {w}), R)
<1> DEFINE U == T \ {w}
           x1 == <<t, Len(S[t]) + 1>>
           xw == <<"timer", w>>
           H == HeldOf(S, T)
           I == HeldOf(S, U)
           G == HeldOf(S2, U)
           X == PlacesOf(S, T)
           Z == PlacesOf(S, U)
           Y == Z \cup {x1}
           h == Item(S2[t][1], S2[t][1].i)
           from == [y \in Y |-> IF y = x1 THEN xw ELSE y]
<1>1. U \subseteq Timers OBVIOUS
<1>2. /\ I \in [Z -> Items] /\ x1 \notin Z /\ G \in [Y -> Items] /\ AndOne(I, G, x1, h)
  <2> HIDE DEF U
  <2> QED BY <1>1, HeldAndOne
<1>3. H \in [X -> Items] /\ xw \in X /\ H[xw] = Item(w, 1) BY HeldFacts
<1>4. ASSUME NEW y \in Z PROVE y \in X /\ I[y] = H[y] /\ y # xw
  <2>1. \/ \E u \in Threads : \E d \in 1 .. Len(S[u]) : y = <<u, d>>
        \/ \E v \in U : y = <<"timer", v>>
    BY PlaceCases
  <2>2. y \in X BY <2>1, PlaceCases
  <2>3. y # xw
    <3>1. "timer" \notin Threads BY DEF Threads
    <3> QED BY <2>1, <3>1
  <2> QED BY <2>2, <2>3 DEF HeldOf
<1>5. h = Item(w, 1) BY DEF Item
<1>6. \A y \in Y : from[y] = IF y = x1 THEN xw ELSE y OBVIOUS
<1>7. Orderly(H, R) /\ Y = Z \cup {x1} OBVIOUS
<1> HIDE DEF U, x1, xw, H, I, G, X, Z, Y, h, from
<1>8. G[x1] = H[xw] /\ \A y \in Z : G[y] = H[y] BY <1>2, <1>3, <1>4, <1>5 DEF AndOne
<1>9. ASSUME NEW y \in Y PROVE from[y] \in X /\ G[y] = H[from[y]]
  BY <1>3, <1>4, <1>6, <1>7, <1>8
<1>10. \A y \in Y : G[y].run = NoRun \/ G[y].run \in DOMAIN R
  <2>1. \A x \in X : H[x].run = NoRun \/ H[x].run \in DOMAIN R BY <1>3, <1>7 DEF Orderly
  <2> QED BY <1>9, <2>1
<1>11. \A y \in Y : SameRest(G[y], H[from[y]]) BY <1>9 DEF SameRest
<1>12. \A y, z \in Y : from[y] = from[z] => y = z BY <1>4, <1>6, <1>7
<1>13. ComesFrom(G, Y, H, X, from, R) BY <1>9, <1>10, <1>11, <1>12 DEF ComesFrom
<1>14. Orderly(G, R) BY <1>2, <1>3, <1>7, <1>13, Rearranged
<1> QED BY <1>14 DEF G, U

LEMMA ResumeLists ==
  ASSUME TypeOK, ListsRight, Resume
  PROVE  ListsRight'
<1> DEFINE t == "main"
           b == <<>>
<1>1. PICK w \in timers :
        /\ timers' = timers \ {w}
        /\ Call(t, Frame(w.run, Pointer(w.run, w.rule, w.acts, w.attempt), w.acts,
                         w.attempt, w.td, "resume"), b)
  BY DEF Resume
<1>2. runs' = runs /\ stack[t] = b BY DEF Resume, Idle
<1> DEFINE ptr == Pointer(w.run, w.rule, w.acts, w.attempt)
           f == Frame(w.run, ptr, w.acts, w.attempt, w.td, "resume")
<1>3. w \in Timers BY DEF TypeOK
<1>4. ptr \in Pointers BY <1>3 DEF Pointer, Pointers, Timers
<1>5. /\ f \in Frames /\ f.kind = "resume" /\ f.run = w.run /\ f.acts = w.acts /\ f.i = 1
      /\ f.td = w.td
  <2> HIDE DEF ptr
  <2> QED BY <1>3, <1>4 DEF Frame, Frames, Timers
<1>6. Call(t, f, b) BY <1>1
<1>7. b \in Seq(Frames) /\ t \in Threads BY DEF Threads
<1>8. stack \in [Threads -> Seq(Frames)] /\ runs \in Seq(Runs) /\ timers \subseteq Timers
  BY DEF TypeOK
<1>9. StackWith(stack, t, b) BY <1>2, <1>8 DEF StackWith
<1>10. SharedIn(stack) /\ Orderly(HeldOf(stack, timers), runs) BY DEF ListsRight, DataShared
<1> HIDE DEF f, b, t
<1>11. /\ stack' \in [Threads -> Seq(Frames)] /\ SameAndOne(stack', stack, t)
       /\ SameItem(stack'[t][1], f)
  BY <1>5, <1>6, <1>7, <1>9, CallOver
<1>12. /\ stack'[t][1].run = w.run /\ stack'[t][1].acts = w.acts /\ stack'[t][1].i = 1
       /\ stack'[t][1].td = w.td /\ stack'[t][1].kind # "failure"
  BY <1>5, <1>11 DEF SameItem
<1>13. SharedIn(stack') BY <1>7, <1>8, <1>10, <1>11, <1>12, SharedAndOne
<1>14. Orderly(HeldOf(stack', timers \ {w}), runs)
  BY <1>7, <1>8, <1>10, <1>11, <1>12, ResumedHeld
<1> QED BY <1>1, <1>2, <1>13, <1>14 DEF ListsRight, DataShared

\* The timer w a second later.
Aged(w) == [w EXCEPT !.left = IF @ > 0 THEN @ - 1 ELSE 0]

\* The timers T a second later: two of them may have become one.
LEMMA TickedHeld ==
  ASSUME NEW S \in [Threads -> Seq(Frames)], NEW T, T \subseteq Timers, NEW R \in Seq(Runs),
         Orderly(HeldOf(S, T), R), NEW U, U \subseteq Timers, U = {Aged(w) : w \in T}
  PROVE  Orderly(HeldOf(S, U), R)
<1> DEFINE H == HeldOf(S, T)
           G == HeldOf(S, U)
           X == PlacesOf(S, T)
           Y == PlacesOf(S, U)
           src(v) == CHOOSE w \in T : Aged(w) = v
           from == [y \in Y |-> IF y[1] = "timer" THEN <<"timer", src(y[2])>> ELSE y]
<1>1. ASSUME NEW w \in Timers, NEW v, v = Aged(w)
      PROVE  v.run = w.run /\ v.acts = w.acts /\ v.td = w.td
  <2> DEFINE n == IF w.left > 0 THEN w.left - 1 ELSE 0
  <2>1. v = [w EXCEPT !.left = n] BY <1>1 DEF Aged
  <2> HIDE DEF n
  <2> QED BY <2>1 DEF Timers
<1>2. ASSUME NEW v \in U PROVE src(v) \in T /\ Aged(src(v)) = v
  <2>1. \E w \in T : Aged(w) = v OBVIOUS
  <2> QED BY Zenon, <2>1
<1>3. "timer" \notin Threads BY DEF Threads
<1> HIDE DEF src
<1>4. ASSUME NEW v \in U PROVE Item(v, 1) = Item(src(v), 1) /\ src(v) \in T
  <2>1. src(v) \in Timers BY <1>2
  <2> QED BY <1>1, <1>2, <2>1 DEF Item
<1>5. ASSUME NEW y \in Y PROVE from[y] \in X /\ G[y] = H[from[y]]
  <2>1. CASE \E u \in Threads : \E d \in 1 .. Len(S[u]) : y = <<u, d>>
    <3>1. PICK u \in Threads : \E d \in 1 .. Len(S[u]) : y = <<u, d>> BY <2>1
    <3>2. PICK d \in 1 .. Len(S[u]) : y = <<u, d>> BY <3>1
    <3>3. from[y] = y BY <1>3, <3>2
    <3>4. y \in X /\ H[y] = Item(AtDepth(S, u, d), AtDepth(S, u, d).i) BY <3>2, HeldFacts
    <3>5. G[y] = Item(AtDepth(S, u, d), AtDepth(S, u, d).i) BY <3>2, HeldFacts
    <3> QED BY <3>3, <3>4, <3>5
  <2>2. CASE \E v \in U : y = <<"timer", v>>
    <3>1. PICK v \in U : y = <<"timer", v>> BY <2>2
    <3>2. from[y] = <<"timer", src(v)>> /\ src(v) \in T BY <1>4, <3>1
    <3>3. from[y] \in X /\ H[from[y]] = Item(src(v), 1) BY <3>2, HeldFacts
    <3>4. G[y] = Item(v, 1) BY <3>1, HeldFacts
    <3> QED BY <1>4, <3>1, <3>3, <3>4
  <2> QED BY <2>1, <2>2, PlaceCases
<1>6. ASSUME NEW y \in Y, NEW z \in Y, from[y] = from[z] PROVE y = z
  <2>1. ASSUME NEW x \in Y
        PROVE  \/ x[1] # "timer" /\ from[x] = x
               \/ \E v \in U : x = <<"timer", v>> /\ from[x] = <<"timer", src(v)>>
    <3>1. \/ \E u \in Threads : \E d \in 1 .. Len(S[u]) : x = <<u, d>>
          \/ \E v \in U : x = <<"timer", v>>
      BY PlaceCases
    <3>2. \/ x[1] # "timer"
          \/ \E v \in U : x = <<"timer", v>>
      BY <1>3, <3>1
    <3> QED BY <3>2
  <2> HIDE DEF from
  <2>2. CASE y[1] # "timer" /\ from[y] = y
    <3>1. \A v : <<"timer", src(v)>>[1] = "timer" OBVIOUS
    <3>2. ASSUME NEW v \in U, from[z] = <<"timer", src(v)>> PROVE FALSE
      BY <1>6, <2>2, <3>1, <3>2
    <3> QED BY <1>6, <2>1, <2>2, <3>2
  <2>3. CASE \E v \in U : y = <<"timer", v>> /\ from[y] = <<"timer", src(v)>>
    <3>1. PICK v \in U : y = <<"timer", v>> /\ from[y] = <<"timer", src(v)>> BY <2>3
    <3>2. from[z] = <<"timer", src(v)>> BY <1>6, <3>1
    <3>3. PICK x \in U : z = <<"timer", x>> /\ from[z] = <<"timer", src(x)>>
      BY <2>1, <3>2
    <3>4. src(x) = src(v)
      <4>1. <<"timer", src(x)>>[2] = src(x) /\ <<"timer", src(v)>>[2] = src(v) OBVIOUS
      <4> QED BY <3>2, <3>3, <4>1
    <3>5. x = v BY <1>2, <3>4
    <3> QED BY <3>1, <3>3, <3>5
  <2> QED BY <2>1, <2>2, <2>3
<1>7. H \in [X -> Items] /\ G \in [Y -> Items] BY HeldFacts
<1>8. Orderly(H, R) OBVIOUS
<1> HIDE DEF H, G, X, Y, from
<1>9. \A y \in Y : G[y].run = NoRun \/ G[y].run \in DOMAIN R
  <2>1. \A x \in X : H[x].run = NoRun \/ H[x].run \in DOMAIN R BY <1>7, <1>8 DEF Orderly
  <2> QED BY <1>5, <2>1
<1>10. \A y \in Y : SameRest(G[y], H[from[y]]) BY <1>5 DEF SameRest
<1>11. ComesFrom(G, Y, H, X, from, R) BY <1>5, <1>6, <1>9, <1>10 DEF ComesFrom
<1>12. Orderly(G, R) BY <1>7, <1>8, <1>11, Rearranged
<1> QED BY <1>12 DEF G

LEMMA TickLists ==
  ASSUME TypeOK, ListsRight, Tick
  PROVE  ListsRight'
<1> DEFINE U == timers'
<1>1. timers' = {Aged(w) : w \in timers} /\ stack' = stack /\ runs' = runs
  BY DEF Tick, Aged
<1>2. U \subseteq Timers /\ U = {Aged(w) : w \in timers} BY <1>1, TickTyped DEF OthersTyped
<1>3. stack \in [Threads -> Seq(Frames)] /\ runs \in Seq(Runs) /\ timers \subseteq Timers
  BY DEF TypeOK
<1>4. SharedIn(stack) /\ Orderly(HeldOf(stack, timers), runs) BY DEF ListsRight, DataShared
<1> HIDE DEF U
<1>5. Orderly(HeldOf(stack, U), runs) BY <1>2, <1>3, <1>4, TickedHeld
<1> QED BY <1>1, <1>4, <1>5 DEF ListsRight, DataShared, U

\* Marks on the calls change nothing of what they hold.
LEMMA MarkedHeld ==
  ASSUME NEW S \in [Threads -> Seq(Frames)], NEW S2 \in [Threads -> Seq(Frames)],
         NEW T, T \subseteq Timers,
         \A u \in Threads :
           Len(S2[u]) = Len(S[u]) /\ \A k \in 1 .. Len(S[u]) : SameItem(S2[u][k], S[u][k])
  PROVE  HeldOf(S2, T) = HeldOf(S, T) /\ (SharedIn(S) => SharedIn(S2))
<1>1. \A u \in Threads : Len(S[u]) \in Nat OBVIOUS
<1>2. PlacesOf(S2, T) = PlacesOf(S, T)
  <2>1. \A x : x \in PlacesOf(S2, T) <=> x \in PlacesOf(S, T) BY PlaceCases
  <2> QED BY <2>1
<1>3. ASSUME NEW u \in Threads, NEW d \in 1 .. Len(S[u])
      PROVE  HeldOf(S2, T)[<<u, d>>] = HeldOf(S, T)[<<u, d>>]
  <2> DEFINE f == AtDepth(S, u, d)
             g == AtDepth(S2, u, d)
             k == Len(S[u]) - d + 1
  <2>1. f = S[u][k] /\ g = S2[u][k] /\ k \in 1 .. Len(S[u])
    BY <1>1, DepthFacts DEF AtDepth
  <2>2. f \in Frames /\ HeldOf(S, T)[<<u, d>>] = Item(f, f.i) BY HeldFacts
  <2>3. d \in 1 .. Len(S2[u]) OBVIOUS
  <2>4. g \in Frames /\ HeldOf(S2, T)[<<u, d>>] = Item(g, g.i) BY <2>3, HeldFacts
  <2>5. SameItem(g, f) BY <2>1
  <2> HIDE DEF f, g, k
  <2> QED BY <2>2, <2>4, <2>5, SameHeld
<1>4. \A w \in T : HeldOf(S2, T)[<<"timer", w>>] = HeldOf(S, T)[<<"timer", w>>] BY ZenonT(40), HeldFacts
<1>5. \A x \in PlacesOf(S, T) : HeldOf(S2, T)[x] = HeldOf(S, T)[x]
  BY <1>3, <1>4, PlaceCases
<1> DEFINE X == PlacesOf(S, T)
           H == HeldOf(S, T)
           G == HeldOf(S2, T)
<1>6. H \in [X -> Items] BY HeldFacts
<1>7. G \in [X -> Items] BY <1>2, HeldFacts
<1>8. ASSUME SharedIn(S), NEW u \in Threads, NEW k \in 1 .. Len(S2[u]) - 1,
             S2[u][k].kind = "failure", S2[u][k + 1].td
      PROVE  S2[u][k].td
  <2>1. k \in 1 .. Len(S[u]) /\ k + 1 \in 1 .. Len(S[u]) /\ k \in 1 .. Len(S[u]) - 1 BY <1>1
  <2>2. SameItem(S2[u][k], S[u][k]) /\ SameItem(S2[u][k + 1], S[u][k + 1]) BY <2>1
  <2>3. S[u][k].td BY <1>8, <2>1, <2>2 DEF SameItem, SharedIn, SharedDown
  <2> QED BY <2>2, <2>3 DEF SameItem
<1>9. SharedIn(S) => SharedIn(S2) BY <1>8 DEF SharedIn, SharedDown
<1>10. \A x \in X : G[x] = H[x] BY <1>5
<1> HIDE DEF X, H, G
<1>11. G = H BY <1>6, <1>7, <1>10
<1> QED BY <1>9, <1>11 DEF G, H

LEMMA DigestTickLists ==
  ASSUME TypeOK, ListsRight, Actions_Digest_Tick
  PROVE  ListsRight'
<1> DEFINE P == stack'
           marked == [k \in 1..Len(stack["http"]) |->
                        [stack["http"][k] EXCEPT !.crossed = TRUE]]
<1>1. timers' = timers /\ runs' = runs /\ P = [stack EXCEPT !["http"] = marked]
      /\ P \in [Threads -> Seq(Frames)]
  BY DigestTickTyped
<1>2. stack \in [Threads -> Seq(Frames)] /\ timers \subseteq Timers BY DEF TypeOK
<1>3. stack["http"] \in Seq(Frames) /\ Len(stack["http"]) \in Nat BY <1>2 DEF Threads
<1>4. /\ Len(marked) = Len(stack["http"])
      /\ \A k \in 1 .. Len(stack["http"]) : SameItem(marked[k], stack["http"][k])
  <2>1. Len(marked) = Len(stack["http"]) BY <1>3
  <2>2. ASSUME NEW k \in 1 .. Len(stack["http"]) PROVE SameItem(marked[k], stack["http"][k])
    <3>1. stack["http"][k] \in Frames BY <1>3
    <3>2. marked[k] = [stack["http"][k] EXCEPT !.crossed = TRUE] OBVIOUS
    <3> QED BY <3>1, <3>2 DEF SameItem, Frames
  <2> QED BY <2>1, <2>2
<1> HIDE DEF marked
<1>5. ASSUME NEW u \in Threads
      PROVE  /\ Len(P[u]) = Len(stack[u])
             /\ \A k \in 1 .. Len(stack[u]) : SameItem(P[u][k], stack[u][k])
  <2>1. CASE u = "http"
    <3>1. P[u] = marked BY <1>1, <1>2, <2>1
    <3> QED BY <1>4, <2>1, <3>1
  <2>2. CASE u # "http"
    <3>1. P[u] = stack[u] BY <1>1, <1>2, <2>2
    <3> QED BY <3>1 DEF SameItem
  <2> QED BY <2>1, <2>2
<1>6. P \in [Threads -> Seq(Frames)] BY <1>1
<1> HIDE DEF P
<1>7. HeldOf(P, timers) = HeldOf(stack, timers) /\ (SharedIn(stack) => SharedIn(P))
  BY <1>2, <1>5, <1>6, MarkedHeld
<1> QED BY <1>1, <1>7 DEF ListsRight, DataShared, P

(***************************************************************************)
(* The lists, always.                                                      *)
(***************************************************************************)

LEMMA ListsInit == Init => ListsRight
<1> SUFFICES ASSUME Init PROVE ListsRight OBVIOUS
<1>1. \A t \in Threads : stack[t] = <<>> BY DEF Init
<1>2. timers = {} /\ runs = <<>> BY DEF Init
<1>3. \A t \in Threads : Len(stack[t]) = 0 /\ 1 .. Len(stack[t]) = {} /\ 1 .. Len(stack[t]) - 1 = {}
  BY <1>1
<1>4. PlacesOf(stack, timers) = {}
  <2>1. \A x : x \notin PlacesOf(stack, timers) BY <1>2, <1>3, PlaceCases
  <2> QED BY <2>1
<1>5. DOMAIN HeldOf(stack, timers) = {} BY <1>4 DEF HeldOf
<1>6. DOMAIN runs = {} BY <1>2
<1>7. Orderly(HeldOf(stack, timers), runs) BY <1>5, <1>6 DEF Orderly
<1>8. SharedIn(stack) BY <1>3 DEF SharedIn, SharedDown
<1> QED BY <1>7, <1>8 DEF ListsRight, DataShared

LEMMA StepLists ==
  ASSUME TypeOK, FallbacksAbove, ListsRight, NEW t \in Threads, Step(t)
  PROVE  ListsRight'
<1>1. CASE DoDelay(t) BY <1>1, DelayLists
<1>2. CASE DoRequest(t) BY <1>2, RequestLists
<1>3. CASE DoAlpv(t) BY <1>3, AlpvLists
<1>4. CASE DoRunRule(t) BY <1>4, RunRuleLists
<1>5. CASE DoSetRuleEnabled(t) \/ DoDigest(t) BY <1>5, PlainLists
<1>6. CASE DoQuery(t) BY <1>6, QueryLists
<1>7. CASE Return(t) BY <1>7, ReturnLists
<1> QED BY <1>1, <1>2, <1>3, <1>4, <1>5, <1>6, <1>7 DEF Step

LEMMA ListsNext == Sound /\ ListsRight /\ [Next]_vars => ListsRight'
<1> SUFFICES ASSUME Sound, ListsRight, [Next]_vars PROVE ListsRight' OBVIOUS
<1>1. TypeOK /\ FallbacksAbove BY DEF Sound, GlobalsRight
<1>2. ASSUME NEW t \in Threads, Step(t) PROVE ListsRight' BY <1>1, <1>2, StepLists
<1>3. ASSUME NEW t \in Threads, NEW r \in Rules, Fire(t, r) PROVE ListsRight'
  BY <1>1, <1>3, FireLists
<1>4. ASSUME NEW a \in TestActions, Actions_Test(a) PROVE ListsRight'
  BY <1>1, <1>4, TestLists
<1>5. CASE Resume BY <1>1, <1>5, ResumeLists
<1>6. CASE Tick BY <1>1, <1>6, TickLists
<1>7. CASE Actions_Digest_Tick BY <1>1, <1>7, DigestTickLists
<1>8. CASE UNCHANGED vars
  <2>1. stack' = stack /\ timers' = timers /\ runs' = runs BY <1>8 DEF vars
  <2> QED BY <2>1 DEF ListsRight, DataShared
<1> QED BY <1>2, <1>3, <1>4, <1>5, <1>6, <1>7, <1>8 DEF Next

LEMMA ListsRightKept == ListsRight => ListsKept
<1> SUFFICES ASSUME ListsRight PROVE ListsKept OBVIOUS
<1>1. \A n \in DOMAIN runs : RunRight(runs[n]) BY DEF ListsRight, Orderly
<1>2. RunsInOrder
  <2>1. ASSUME NEW n \in DOMAIN runs
        PROVE  /\ \A j, k \in DOMAIN runs[n].did :
                    runs[n].did[j].tag = runs[n].did[k].tag => j = k
               /\ \A L \in Lists[runs[n].rule] : \A q \in DOMAIN L :
                    /\ \A k \in DOMAIN runs[n].did : runs[n].did[k].tag = L[q].tag =>
                         \A p \in 1..q - 1 : \E j \in 1..k - 1 : runs[n].did[j].tag = L[p].tag
                    /\ DoneIn(runs[n]) \cap Tags(L[q].onFailure) # {}
                         => L[q].tag \in runs[n].failed
    BY <1>1 DEF RunRight
  <2> QED BY Zenon, <2>1 DEF RunsInOrder
<1>3. DataKept BY <1>1 DEF RunRight, DataKept
<1> QED BY <1>2, <1>3 DEF ListsKept

\* However often delays and image retries put the rest of a list into a timer, whatever runs
\* in between on either thread: a firing does the actions of its rule's lists in their order,
\* each at most once, an on_failure list only after its request failed, and no action loses
\* the trigger data of an earlier one.
THEOREM ListsInOrder == Spec => []ListsKept
<1>1. Init => Sound /\ ListsRight BY SoundInit, ListsInit
<1>2. Sound /\ ListsRight /\ [Next]_vars => (Sound /\ ListsRight)' BY SoundNext, ListsNext
<1>3. Sound /\ ListsRight => ListsKept BY ListsRightKept
<1> QED BY <1>1, <1>2, <1>3, PTL DEF Spec
==============================================================================
