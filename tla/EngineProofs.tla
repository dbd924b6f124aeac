----------------------------- MODULE EngineProofs -----------------------------
(***************************************************************************)
(* Proofs about the services inside the engine that share no state: the    *)
(* event log, the conditions, the scheduler, the variables and the output  *)
(* ports, for all sizes of their tables and all entries in them.           *)
(***************************************************************************)
EXTENDS EventLog, Conditions, Scheduler, Variables, Outputs, FiniteSetTheorems, TLAPS

(***************************************************************************)
(* The event log: its entries in order of time.                            *)
(***************************************************************************)

\* Types; what a file from an earlier version says of a rule counts as a rule.
AnyRule  == LogRules \cup {"", CHOOSE r \in LogRules : TRUE}
LogEntry == [id : Int, rule : AnyRule, at : Int, error : BOOLEAN]
LogSlots == 0 .. EVENT_LOG_SIZE - 1
LogTypes ==
  /\ logEntries \in [LogSlots -> LogEntry] /\ head \in LogSlots /\ count \in 0 .. EVENT_LOG_SIZE
  /\ persist_dirty \in BOOLEAN /\ logFile \in Seq(LogEntry)
  /\ persist_counter \in 0 .. PersistEvery - 1 /\ logTime \in 0 .. MaxLogTime
  /\ appended \in 0 .. MaxAppends
  /\ clearing \in Int /\ clearing <= appended /\ purged \in Int /\ purged <= appended
  /\ lost \in BOOLEAN

\* A set of positions has a first one.
LEMMA LeastPosition ==
  ASSUME NEW T \in SUBSET Nat, T # {}
  PROVE  \E x \in T : \A y \in T : x <= y
<1>1. PICK x \in T : \A y \in T : <<y, x>> \notin OpToRel(<, Nat)
  BY NatLessThanWellFounded, WFMin
<1>2. \A y \in T : ~(y < x) BY <1>1, Zenon DEF OpToRel
<1> QED BY <1>2

\* A function that puts positions in ascending order leaves each in its place.
LEMMA AscendingIsIdentity ==
  ASSUME NEW m \in Nat, NEW f \in [1 .. m -> 1 .. m],
         \A i, j \in 1 .. m : i < j => f[i] < f[j]
  PROVE  \A i \in 1 .. m : f[i] = i
<1>1. \A i \in 1 .. m : f[i] >= i
  <2> DEFINE T == {i \in 1 .. m : f[i] < i}
  <2>1. CASE T # {}
    <3>1. T \in SUBSET Nat OBVIOUS
    <3>2. PICK i \in T : \A y \in T : i <= y BY <2>1, <3>1, LeastPosition
    <3>3. f[i] \in T BY <3>2
    <3> QED BY <3>2, <3>3
  <2> QED BY <2>1
<1>2. \A i \in 1 .. m : f[i] <= i
  <2> DEFINE T == {k \in 0 .. m : \E i \in 1 .. m : f[i] > i /\ k = m - i}
  <2>1. CASE T # {}
    <3>1. T \in SUBSET Nat OBVIOUS
    <3>2. PICK k \in T : \A y \in T : k <= y BY <2>1, <3>1, LeastPosition
    <3>3. PICK i \in 1 .. m : f[i] > i /\ k = m - i BY <3>2
    <3>4. f[i] \in 1 .. m /\ f[f[i]] > f[i] BY <3>3
    <3>5. m - f[i] \in T BY SMTT(30), <3>4
    <3>6. k <= m - f[i] BY <3>2, <3>5
    <3> QED BY <3>3, <3>4, <3>6
  <2>2. CASE T = {}
    <3> SUFFICES ASSUME NEW i \in 1 .. m, f[i] > i PROVE FALSE OBVIOUS
    <3>1. m - i \in T OBVIOUS
    <3> QED BY <2>2, <3>1
  <2> QED BY <2>1, <2>2
<1> QED BY <1>1, <1>2

\* The order of load_item_cmp is a strict total order of positions.
LEMMA EarlierOrder ==
  ASSUME NEW s \in Seq(LogEntry)
  PROVE  \A x, y, z \in 1 .. Len(s) :
           /\ ~Earlier(s, x, x)
           /\ Earlier(s, x, y) /\ Earlier(s, y, z) => Earlier(s, x, z)
           /\ x # y => Earlier(s, x, y) \/ Earlier(s, y, x)
<1>1. \A x \in 1 .. Len(s) : s[x] \in LogEntry OBVIOUS
<1>2. \A x \in 1 .. Len(s) : s[x].at \in Int BY <1>1 DEF LogEntry
<1> QED BY <1>2 DEF Earlier

\* An earlier entry has the smaller place, and there is a place for each.
LEMMA Places ==
  ASSUME NEW s \in Seq(LogEntry)
  PROVE  /\ \A x \in 1 .. Len(s) : Place(s, x) \in 1 .. Len(s)
         /\ \A x, y \in 1 .. Len(s) : Earlier(s, x, y) => Place(s, x) < Place(s, y)
         /\ \A k \in 1 .. Len(s) : \E x \in 1 .. Len(s) : Place(s, x) = k
<1> DEFINE m == Len(s)
           D == 1 .. m
           Ahead(x) == {y \in D : Earlier(s, y, x)}
<1>1. m \in Nat OBVIOUS
<1>2. IsFiniteSet(D) /\ Cardinality(D) = m BY <1>1, FS_Interval
<1>3. \A x \in D : /\ IsFiniteSet(Ahead(x)) /\ Cardinality(Ahead(x)) \in Nat
                   /\ Place(s, x) = 1 + Cardinality(Ahead(x))
  <2> SUFFICES ASSUME NEW x \in D
               PROVE  /\ IsFiniteSet(Ahead(x)) /\ Cardinality(Ahead(x)) \in Nat
                      /\ Place(s, x) = 1 + Cardinality(Ahead(x))
    OBVIOUS
  <2>1. Ahead(x) \in SUBSET D OBVIOUS
  <2>2. IsFiniteSet(Ahead(x)) BY <1>2, <2>1, FS_Subset
  <2>3. Cardinality(Ahead(x)) \in Nat BY <2>2, FS_CardinalityType
  <2> QED BY <2>2, <2>3 DEF Place
<1>4. ASSUME NEW x \in D PROVE Place(s, x) \in D
  <2>1. Ahead(x) \in SUBSET (D \ {x}) BY EarlierOrder
  <2>2. IsFiniteSet(D \ {x}) /\ Cardinality(D \ {x}) = m - 1
    BY <1>2, FS_RemoveElement
  <2>3. Cardinality(Ahead(x)) <= m - 1 BY <2>1, <2>2, FS_Subset
  <2>4. Cardinality(Ahead(x)) \in Nat /\ Place(s, x) = 1 + Cardinality(Ahead(x)) BY <1>3
  <2> HIDE DEF Ahead
  <2> QED BY <1>1, <2>3, <2>4
<1>5. ASSUME NEW x \in D, NEW y \in D, Earlier(s, x, y) PROVE Place(s, x) < Place(s, y)
  <2>1. x \notin Ahead(x) BY EarlierOrder
  <2>2. Ahead(x) \cup {x} \in SUBSET Ahead(y) BY <1>5, EarlierOrder
  <2>3. IsFiniteSet(Ahead(x)) /\ IsFiniteSet(Ahead(y)) BY <1>3
  <2>4. Cardinality(Ahead(x) \cup {x}) = Cardinality(Ahead(x)) + 1
    BY <2>1, <2>3, FS_AddElement
  <2>5. Cardinality(Ahead(x) \cup {x}) <= Cardinality(Ahead(y)) BY <2>2, <2>3, FS_Subset
  <2>6. Cardinality(Ahead(x)) \in Nat /\ Cardinality(Ahead(y)) \in Nat BY <1>3
  <2>7. Place(s, x) = 1 + Cardinality(Ahead(x)) /\ Place(s, y) = 1 + Cardinality(Ahead(y))
    BY <1>3
  <2> HIDE DEF Ahead
  <2> QED BY <2>4, <2>5, <2>6, <2>7
<1>6. ASSUME NEW k \in D PROVE \E x \in D : Place(s, x) = k
  <2> DEFINE f == [x \in D |-> Place(s, x)]
  <2>1. f \in [D -> D] BY <1>4
  <2>2. \A x, y \in D : f[x] = f[y] => x = y
    <3> SUFFICES ASSUME NEW x \in D, NEW y \in D, f[x] = f[y], x # y PROVE FALSE
      OBVIOUS
    <3>1. Place(s, x) = Place(s, y) /\ Place(s, x) \in Int BY <1>4
    <3>2. Earlier(s, x, y) \/ Earlier(s, y, x) BY EarlierOrder
    <3>3. Place(s, x) < Place(s, y) \/ Place(s, y) < Place(s, x) BY <1>5, <3>2
    <3> QED BY <3>1, <3>3
  <2> HIDE DEF f
  <2>3. f \in Injection(D, D) BY <2>1, <2>2 DEF Injection, IsInjective
  <2>4. f \in Surjection(D, D) BY <1>2, <2>3, FS_Injection
  <2>5. PICK x \in D : f[x] = k BY <2>4 DEF Surjection
  <2> QED BY <2>5 DEF f
<1> HIDE DEF D
<1> QED BY <1>4, <1>5, <1>6 DEF D

\* EventLog_Load's order is the promised one.
LEMMA SortedByTime ==
  ASSUME NEW s \in Seq(LogEntry)
  PROVE  Sorted(s) \in Seq(LogEntry) /\ Len(Sorted(s)) = Len(s) /\ Sorted(s) = Promise!ByTime(s)
<1> DEFINE m == Len(s)
           D == 1 .. m
           q == [k \in D |-> CHOOSE x \in D : Place(s, x) = k]
           Ascends(p) == \A i, j \in D : i < j => Earlier(s, p[i], p[j])
<1>1. m \in Nat OBVIOUS
<1>2. ASSUME NEW k \in D PROVE q[k] \in D /\ Place(s, q[k]) = k
  <2>1. \E x \in D : Place(s, x) = k BY Places
  <2> QED BY <2>1
<1>3. Ascends(q)
  <2> SUFFICES ASSUME NEW i \in D, NEW j \in D, i < j PROVE Earlier(s, q[i], q[j])
    OBVIOUS
  <2>1. q[i] \in D /\ q[j] \in D /\ Place(s, q[i]) = i /\ Place(s, q[j]) = j BY <1>2
  <2> HIDE DEF q
  <2>2. q[i] # q[j] BY <2>1
  <2>3. ~Earlier(s, q[j], q[i])
    <3> SUFFICES ASSUME Earlier(s, q[j], q[i]) PROVE FALSE OBVIOUS
    <3>1. Place(s, q[j]) < Place(s, q[i]) BY <2>1, Places
    <3> QED BY <2>1, <3>1
  <2> QED BY <2>1, <2>2, <2>3, EarlierOrder
<1>4. ASSUME NEW p \in [D -> D], Ascends(p) PROVE p = q
  <2> DEFINE f == [i \in D |-> Place(s, p[i])]
  <2>1. f \in [1 .. m -> 1 .. m] BY Places
  <2>2. \A i, j \in 1 .. m : i < j => f[i] < f[j] BY <1>4, Places
  <2> HIDE DEF f
  <2>3. \A i \in 1 .. m : f[i] = i BY <1>1, <2>1, <2>2, AscendingIsIdentity
  <2>4. ASSUME NEW i \in D PROVE p[i] = q[i]
    <3>1. Place(s, p[i]) = i BY <2>3 DEF f
    <3>2. q[i] \in D /\ Place(s, q[i]) = i BY <1>2
    <3> HIDE DEF q
    <3>3. ~Earlier(s, p[i], q[i])
      <4> SUFFICES ASSUME Earlier(s, p[i], q[i]) PROVE FALSE OBVIOUS
      <4>1. p[i] \in D OBVIOUS
      <4>2. Place(s, p[i]) < Place(s, q[i]) BY <3>2, <4>1, Places
      <4> QED BY <3>1, <3>2, <4>2
    <3>4. ~Earlier(s, q[i], p[i])
      <4> SUFFICES ASSUME Earlier(s, q[i], p[i]) PROVE FALSE OBVIOUS
      <4>1. p[i] \in D OBVIOUS
      <4>2. Place(s, q[i]) < Place(s, p[i]) BY <3>2, <4>1, Places
      <4> QED BY <3>1, <3>2, <4>2
    <3> QED BY <3>2, <3>3, <3>4, EarlierOrder
  <2>5. q \in [D -> D] BY <1>2
  <2> HIDE DEF q
  <2> QED BY <2>4, <2>5
<1>5. q \in [D -> D] BY <1>2
<1>6. Promise!Order(s) = q
  <2>1. Promise!Order(s) = CHOOSE p \in [D -> D] : Ascends(p)
    BY DEF Promise!Order, Promise!Before, Earlier
  <2> HIDE DEF q, Ascends
  <2>2. (CHOOSE p \in [D -> D] : Ascends(p)) \in [D -> D]
        /\ Ascends(CHOOSE p \in [D -> D] : Ascends(p))
    BY <1>3, <1>5
  <2> QED BY <1>4, <2>1, <2>2
<1>7. Sorted(s) = [k \in D |-> s[q[k]]] BY DEF Sorted
<1>8. Promise!ByTime(s) = [k \in D |-> s[q[k]]]
  <2> HIDE DEF q
  <2> QED BY <1>6 DEF Promise!ByTime
<1>9. \A k \in D : s[q[k]] \in LogEntry BY <1>2
<1> HIDE DEF q
<1> QED BY <1>1, <1>7, <1>8, <1>9

(***************************************************************************)
(* The ring.                                                               *)
(***************************************************************************)

\* The ring of n slots E with head h and c entries, as it is shown.
At(h, i)      == (h - 1 - i + EVENT_LOG_SIZE) % EVENT_LOG_SIZE
Ring(E, h, c) == [k \in 1 .. c |-> E[At(h, c - k)]]

LEMMA ShownRing ==
  /\ Shown = Ring(logEntries, head, count)
  /\ \A i : Slot(i) = At(head, i)
BY DEF Shown, Ring, Slot, At

\* Where the i-th newest entry is.
LEMMA AtFacts ==
  ASSUME NEW h \in LogSlots
  PROVE  /\ \A i \in LogSlots : /\ At(h, i) \in LogSlots
                                /\ At(h, i) = IF i < h THEN h - 1 - i ELSE h - 1 - i + EVENT_LOG_SIZE
         /\ (h + 1) % EVENT_LOG_SIZE \in LogSlots
         /\ At((h + 1) % EVENT_LOG_SIZE, 0) = h
         /\ \A i \in LogSlots : i + 1 \in LogSlots =>
              At(h, i) # h /\ At((h + 1) % EVENT_LOG_SIZE, i + 1) = At(h, i)
<1> DEFINE N == EVENT_LOG_SIZE
<1>1. N \in Nat \ {0} BY LogSizes
<1>2. \A g \in LogSlots, i \in LogSlots :
        At(g, i) = IF i < g THEN g - 1 - i ELSE g - 1 - i + N
  <2> SUFFICES ASSUME NEW g \in 0 .. N - 1, NEW i \in 0 .. N - 1
               PROVE  At(g, i) = IF i < g THEN g - 1 - i ELSE g - 1 - i + N
    BY DEF LogSlots
  <2> HIDE DEF N
  <2>1. (g - 1 - i + N) % N = IF i <= g - 1 THEN g - 1 - i ELSE g - 1 - i + N
    BY <1>1, SMT
  <2> QED BY <1>1, <2>1 DEF At, N
<1>3. (h + 1) % N = IF h = N - 1 THEN 0 ELSE h + 1
  <2>1. h \in 0 .. N - 1 BY DEF LogSlots
  <2> HIDE DEF N
  <2> QED BY <1>1, <2>1, SMT
<1>4. (h + 1) % N \in LogSlots /\ 0 \in LogSlots BY <1>1, <1>3 DEF LogSlots
<1>5. At((h + 1) % N, 0) = h
  <2> DEFINE g == (h + 1) % N
             z == 0
  <2>1. g \in LogSlots /\ z \in LogSlots /\ g = IF h = N - 1 THEN 0 ELSE h + 1 BY <1>3, <1>4
  <2> HIDE DEF g, z
  <2>2. At(g, z) = IF z < g THEN g - 1 - z ELSE g - 1 - z + N BY <1>2, <2>1
  <2>3. At(g, z) = h BY <1>1, <2>1, <2>2 DEF LogSlots, z
  <2> QED BY <2>3 DEF g, z
<1>6. ASSUME NEW i \in LogSlots, i + 1 \in LogSlots
      PROVE  At(h, i) # h /\ At((h + 1) % N, i + 1) = At(h, i)
  <2>1. At(h, i) = IF i < h THEN h - 1 - i ELSE h - 1 - i + N BY <1>2
  <2>2. At((h + 1) % N, i + 1) = IF i + 1 < (h + 1) % N THEN ((h + 1) % N) - 1 - (i + 1)
                                 ELSE ((h + 1) % N) - 1 - (i + 1) + N
    BY <1>2, <1>4, <1>6
  <2> QED BY <1>1, <1>3, <1>6, <2>1, <2>2 DEF LogSlots
<1>7. \A i \in LogSlots : At(h, i) \in LogSlots BY <1>1, <1>2 DEF LogSlots
<1> QED BY <1>2, <1>4, <1>5, <1>6, <1>7

\* What is shown has the type of a log.
LEMMA RingType ==
  ASSUME NEW E \in [LogSlots -> LogEntry], NEW h \in LogSlots, NEW c \in 0 .. EVENT_LOG_SIZE
  PROVE  /\ Ring(E, h, c) \in Seq(LogEntry) /\ Len(Ring(E, h, c)) = c
         /\ \A k \in 1 .. c : c - k \in LogSlots /\ Ring(E, h, c)[k] = E[At(h, c - k)]
<1>1. \A k \in 1 .. c : c - k \in LogSlots BY LogSizes DEF LogSlots
<1>2. \A k \in 1 .. c : E[At(h, c - k)] \in LogEntry BY <1>1, AtFacts
<1>3. c \in Nat BY LogSizes
<1> QED BY <1>1, <1>2, <1>3 DEF Ring

\* The newest n of a log.
LEMMA NewestFacts ==
  ASSUME NEW q \in Seq(LogEntry), NEW n \in Nat
  PROVE  /\ Promise!Newest(q, n) \in Seq(LogEntry)
         /\ Len(Promise!Newest(q, n)) = IF Len(q) <= n THEN Len(q) ELSE n
         /\ \A k \in 1 .. Len(Promise!Newest(q, n)) :
              Promise!Newest(q, n)[k] = q[k + (Len(q) - Len(Promise!Newest(q, n)))]
<1>1. CASE Len(q) <= n
  <2>1. Promise!Newest(q, n) = q BY <1>1 DEF Promise!Newest
  <2> QED BY <1>1, <2>1
<1>2. CASE ~(Len(q) <= n)
  <2>1. Promise!Newest(q, n) = SubSeq(q, Len(q) - n + 1, Len(q)) BY <1>2 DEF Promise!Newest
  <2> QED BY <1>2, <2>1
<1> QED BY <1>1, <1>2

\* An append adds an entry, and drops the oldest of a full ring.
LEMMA RingAppend ==
  ASSUME NEW E \in [LogSlots -> LogEntry], NEW h \in LogSlots, NEW c \in 0 .. EVENT_LOG_SIZE,
         NEW e \in LogEntry
  PROVE  Ring([E EXCEPT ![h] = e], (h + 1) % EVENT_LOG_SIZE,
              IF c < EVENT_LOG_SIZE THEN c + 1 ELSE c)
           = Promise!Newest(Append(Ring(E, h, c), e), EVENT_LOG_SIZE)
<1> DEFINE N == EVENT_LOG_SIZE
           F == [E EXCEPT ![h] = e]
           g == (h + 1) % EVENT_LOG_SIZE
           d == IF c < N THEN c + 1 ELSE c
           R == Ring(E, h, c)
           A == Append(R, e)
<1>1. N \in Nat \ {0} /\ c \in Nat BY LogSizes
<1>2. g \in LogSlots BY AtFacts
<1>3. F \in [LogSlots -> LogEntry] OBVIOUS
<1>4. d \in 0 .. N BY <1>1
<1>5. /\ Ring(F, g, d) \in Seq(LogEntry) /\ Len(Ring(F, g, d)) = d
      /\ \A k \in 1 .. d : d - k \in LogSlots /\ Ring(F, g, d)[k] = F[At(g, d - k)]
  <2> HIDE DEF F, g, d, N
  <2> QED BY <1>2, <1>3, <1>4, RingType DEF N
<1>6. /\ R \in Seq(LogEntry) /\ Len(R) = c
      /\ \A k \in 1 .. c : c - k \in LogSlots /\ R[k] = E[At(h, c - k)]
  BY RingType
<1> DEFINE W == Promise!Newest(A, N)
<1>7. A \in Seq(LogEntry) /\ Len(A) = c + 1 /\ A[c + 1] = e /\ \A k \in 1 .. c : A[k] = R[k]
  <2> HIDE DEF R
  <2> QED BY <1>6
<1>8. W \in Seq(LogEntry) /\ Len(W) = d /\ \A k \in 1 .. d : W[k] = A[k + (c + 1 - d)]
  <2> HIDE DEF A, R
  <2>1. CASE c + 1 <= N BY <1>1, <1>7, <2>1 DEF Promise!Newest
  <2>2. CASE ~(c + 1 <= N)
    <3>1. c = N BY <1>1, <2>2
    <3>2. W = SubSeq(A, 2, c + 1) BY <1>1, <1>7, <2>2, <3>1 DEF Promise!Newest
    <3> QED BY <1>1, <1>7, <3>1, <3>2
  <2> QED BY <2>1, <2>2
<1>9. ASSUME NEW k \in 1 .. d PROVE Ring(F, g, d)[k] = W[k]
  <2>1. CASE k = d
    <3>1. Ring(F, g, d)[k] = F[At(g, 0)]
      <4>1. d - k = 0 BY <1>1, <2>1
      <4>2. Ring(F, g, d)[k] = F[At(g, d - k)] BY <1>5
      <4> HIDE DEF F, g, d
      <4> QED BY <4>1, <4>2
    <3>2. At(g, 0) = h BY AtFacts
    <3>3. F[h] = e OBVIOUS
    <3>4. W[k] = A[c + 1]
      <4>1. k + (c + 1 - d) = c + 1 BY <1>1, <2>1
      <4>2. W[k] = A[k + (c + 1 - d)] BY <1>8
      <4> HIDE DEF W, A, d
      <4> QED BY <4>1, <4>2
    <3> QED BY <1>7, <3>1, <3>2, <3>3, <3>4
  <2>2. CASE k # d
    <3> DEFINE i == d - k - 1
    <3>1. i + 1 \in LogSlots /\ i \in LogSlots BY <1>1, <1>4, <1>5, <2>2 DEF LogSlots
    <3>2. At(h, i) # h /\ At(h, i) \in LogSlots /\ At(g, i + 1) = At(h, i) BY <3>1, AtFacts
    <3>3. Ring(F, g, d)[k] = F[At(g, i + 1)] BY <1>1, <1>4, <1>5, <2>2
    <3>4. F[At(h, i)] = E[At(h, i)] BY <3>2
    <3>5. k + (c + 1 - d) \in 1 .. c /\ c - (k + (c + 1 - d)) = i BY <1>1, <2>2
    <3>6. W[k] = R[k + (c + 1 - d)] BY <1>7, <1>8, <3>5
    <3>7. R[k + (c + 1 - d)] = E[At(h, i)] BY <1>6, <3>5
    <3> HIDE DEF W, F, g, i, R
    <3> QED BY <3>2, <3>3, <3>4, <3>6, <3>7
  <2> QED BY <2>1, <2>2
<1> HIDE DEF W, F, g, d
<1>10. Ring(F, g, d) = W BY <1>5, <1>8, <1>9
<1> QED BY <1>10 DEF W, F, g, d

\* The slots or entries E with a mark on the one at a.
Marked(E, a) == [E EXCEPT ![a].error = TRUE]

\* A mark on the i-th newest entry is seen there and nowhere else.
LEMMA RingMark ==
  ASSUME NEW E \in [LogSlots -> LogEntry], NEW h \in LogSlots, NEW c \in 0 .. EVENT_LOG_SIZE,
         NEW i \in 0 .. c - 1
  PROVE  /\ i \in LogSlots /\ At(h, i) \in LogSlots
         /\ Marked(E, At(h, i)) \in [LogSlots -> LogEntry]
         /\ Ring(Marked(E, At(h, i)), h, c) = Marked(Ring(E, h, c), c - i)
<1> DEFINE a == At(h, i)
           F == [E EXCEPT ![a].error = TRUE]
           R == Ring(E, h, c)
           W == [R EXCEPT ![c - i].error = TRUE]
<1>1. c \in Nat /\ i \in LogSlots /\ c - i \in 1 .. c BY LogSizes DEF LogSlots
<1>2. a \in LogSlots BY <1>1, AtFacts
<1>3. F \in [LogSlots -> LogEntry]
  <2> HIDE DEF a
  <2>1. \A e \in LogEntry : [e EXCEPT !.error = TRUE] \in LogEntry BY DEF LogEntry
  <2>2. F = [E EXCEPT ![a] = [E[a] EXCEPT !.error = TRUE]] BY <1>2
  <2>3. [E[a] EXCEPT !.error = TRUE] \in LogEntry BY <1>2, <2>1
  <2> HIDE DEF F
  <2> QED BY <2>2, <2>3
<1>4. /\ R \in Seq(LogEntry) /\ Len(R) = c
      /\ \A k \in 1 .. c : c - k \in LogSlots /\ R[k] = E[At(h, c - k)]
  BY RingType
<1>5. /\ Ring(F, h, c) \in Seq(LogEntry) /\ Len(Ring(F, h, c)) = c
      /\ \A k \in 1 .. c : c - k \in LogSlots /\ Ring(F, h, c)[k] = F[At(h, c - k)]
  <2> HIDE DEF F
  <2> QED BY <1>3, RingType
<1>6. DOMAIN Ring(F, h, c) = 1 .. c /\ DOMAIN R = 1 .. c
  <2> HIDE DEF F, R
  <2> QED BY <1>4, <1>5
<1>7. ASSUME NEW k \in 1 .. c PROVE Ring(F, h, c)[k] = W[k]
  <2>1. CASE k = c - i
    <3>1. c - k = i BY <1>1, <2>1
    <3>2. Ring(F, h, c)[k] = F[a] /\ R[k] = E[a] BY <1>4, <1>5, <3>1
    <3>3. F[a] = [E[a] EXCEPT !.error = TRUE] BY <1>2
    <3>4. W[k] = [R[k] EXCEPT !.error = TRUE] BY <1>6, <2>1
    <3> HIDE DEF W, F, R, a
    <3> QED BY <3>2, <3>3, <3>4
  <2>2. CASE k # c - i
    <3>1. c - k # i /\ c - k \in LogSlots BY <1>1, <1>4, <2>2
    <3>2. At(h, c - k) # a
      <4>1. At(h, c - k) = IF c - k < h THEN h - 1 - (c - k) ELSE h - 1 - (c - k) + EVENT_LOG_SIZE
        BY <3>1, AtFacts
      <4>2. a = IF i < h THEN h - 1 - i ELSE h - 1 - i + EVENT_LOG_SIZE
        BY <1>1, AtFacts
      <4> HIDE DEF a
      <4> QED BY <1>1, <3>1, <4>1, <4>2, LogSizes DEF LogSlots
    <3>3. F[At(h, c - k)] = E[At(h, c - k)] BY <3>1, <3>2, AtFacts
    <3>4. W[k] = R[k] BY <1>6, <2>2
    <3>5. Ring(F, h, c)[k] = F[At(h, c - k)] /\ R[k] = E[At(h, c - k)] BY <1>4, <1>5
    <3> HIDE DEF W, F, R, a
    <3> QED BY <3>3, <3>4, <3>5
  <2> QED BY <2>1, <2>2
<1>8. Ring(F, h, c) = W
  <2>1. DOMAIN W = 1 .. c /\ W = [k \in 1 .. c |-> W[k]] BY <1>6
  <2>2. Ring(F, h, c) = [k \in 1 .. c |-> Ring(F, h, c)[k]] BY DEF Ring
  <2> HIDE DEF W, F
  <2> QED BY <1>7, <2>1, <2>2
<1> HIDE DEF F
<1>9. F = Marked(E, At(h, i)) /\ W = Marked(R, c - i) BY DEF F, Marked
<1> HIDE DEF W, R
<1> QED BY <1>1, <1>2, <1>3, <1>8, <1>9 DEF R

\* What is saved is the newest part of what is shown.
LEMMA RingSaved ==
  ASSUME LogTypes
  PROVE  /\ SavedEntries = Promise!Newest(Shown, SaveLimit)
         /\ SavedEntries \in Seq(LogEntry)
         /\ \A k \in 1 .. count : count - k < SaveLimit =>
              \E i \in 1 .. Len(SavedEntries) : SavedEntries[i] = Shown[k]
         /\ \A i \in 1 .. Len(SavedEntries) : \E k \in 1 .. count : SavedEntries[i] = Shown[k]
<1> DEFINE n == IF count < SaveLimit THEN count ELSE SaveLimit
           W == Promise!Newest(Shown, SaveLimit)
<1>1. count \in Nat /\ SaveLimit \in Nat \ {0} /\ n \in 0 .. count BY LogSizes DEF LogTypes
<1>2. /\ Shown \in Seq(LogEntry) /\ Len(Shown) = count
      /\ \A k \in 1 .. count : Shown[k] = logEntries[At(head, count - k)]
  BY ShownRing, RingType DEF LogTypes
<1>3. SavedEntries = [k \in 1 .. n |-> logEntries[At(head, n - k)]]
  BY ShownRing DEF SavedEntries
<1>4. W \in Seq(LogEntry) /\ Len(W) = n /\ \A k \in 1 .. n : W[k] = Shown[k + (count - n)]
  BY <1>1, <1>2 DEF Promise!Newest
<1>5. \A k \in 1 .. n : W[k] = logEntries[At(head, n - k)]
  <2> SUFFICES ASSUME NEW k \in 1 .. n PROVE W[k] = logEntries[At(head, n - k)] OBVIOUS
  <2>1. k + (count - n) \in 1 .. count /\ count - (k + (count - n)) = n - k BY <1>1
  <2>2. Shown[k + (count - n)] = logEntries[At(head, n - k)] BY <1>2, <2>1
  <2> HIDE DEF W
  <2> QED BY <1>4, <2>2
<1> HIDE DEF W, n
<1>6. SavedEntries = W BY <1>3, <1>4, <1>5
<1>7. \A k \in 1 .. count : count - k < SaveLimit => \E i \in 1 .. Len(W) : W[i] = Shown[k]
  <2> SUFFICES ASSUME NEW k \in 1 .. count, count - k < SaveLimit
               PROVE  \E i \in 1 .. Len(W) : W[i] = Shown[k]
    OBVIOUS
  <2>1. k - (count - n) \in 1 .. n /\ (k - (count - n)) + (count - n) = k BY <1>1 DEF n
  <2> QED BY <1>4, <2>1
<1>8. \A i \in 1 .. Len(W) : \E k \in 1 .. count : W[i] = Shown[k]
  <2> SUFFICES ASSUME NEW i \in 1 .. n PROVE \E k \in 1 .. count : W[i] = Shown[k] BY <1>4
  <2>1. i + (count - n) \in 1 .. count BY <1>1
  <2> QED BY <1>4, <2>1
<1> QED BY <1>4, <1>6, <1>7, <1>8 DEF W

\* A load shows the newest entries of the file without their marks.
LEMMA RingLoaded ==
  ASSUME NEW f \in Seq(LogEntry)
  PROVE  /\ Loaded(f).entries \in [LogSlots -> LogEntry]
         /\ Loaded(f).head \in LogSlots /\ Loaded(f).count \in 0 .. EVENT_LOG_SIZE
         /\ Ring(Loaded(f).entries, Loaded(f).head, Loaded(f).count)
              = Promise!Newest(Promise!Unmarked(Promise!ByTime(f)), EVENT_LOG_SIZE)
         /\ \A k \in 1 .. Loaded(f).count : \E i \in 1 .. Len(f) :
              Ring(Loaded(f).entries, Loaded(f).head, Loaded(f).count)[k].id = f[i].id
<1> DEFINE N == EVENT_LOG_SIZE
           m == Len(f)
           start == IF m > N THEN m - N ELSE 0
           S == Sorted(f)
           put(k) == [S[start + k] EXCEPT !.error = FALSE]
           E == [i \in 0 .. N - 1 |-> IF i < m - start THEN put(i + 1) ELSE Empty]
           c == m - start
           h == c % N
           U == Promise!Unmarked(S)
           W == Promise!Newest(U, N)
<1>1. Loaded(f) = [entries |-> E, head |-> h, count |-> c] BY DEF Loaded
<1>2. N \in Nat \ {0} /\ m \in Nat /\ start \in Nat /\ c \in 0 .. N /\ c <= m /\ c \in Nat
      /\ start + c = m
  BY LogSizes
<1>3. S \in Seq(LogEntry) /\ Len(S) = m /\ S = Promise!ByTime(f) BY SortedByTime
<1>4. \A e \in LogEntry : [e EXCEPT !.error = FALSE] \in LogEntry BY DEF LogEntry
<1>5. ASSUME NEW k \in 1 .. c PROVE put(k) \in LogEntry
  <2> HIDE DEF S, start, m
  <2>1. start + k \in 1 .. m BY <1>2
  <2>2. S[start + k] \in LogEntry BY <1>3, <2>1
  <2> QED BY <1>4, <2>2
<1>6. E \in [LogSlots -> LogEntry]
  <2>1. Empty \in LogEntry
    <3>1. "" \in AnyRule BY Zenon DEF AnyRule
    <3>2. 0 \in Int /\ FALSE \in BOOLEAN OBVIOUS
    <3> QED BY <3>1, <3>2, Zenon DEF Empty, LogEntry
  <2>2. \A i \in 0 .. N - 1 : i < c => put(i + 1) \in LogEntry
    <3> SUFFICES ASSUME NEW i \in 0 .. N - 1, i < c PROVE put(i + 1) \in LogEntry OBVIOUS
    <3>1. i + 1 \in 1 .. c BY <1>2
    <3> HIDE DEF put, c
    <3> QED BY <1>5, <3>1
  <2> HIDE DEF put
  <2> QED BY <2>1, <2>2 DEF LogSlots
<1>7. h = IF c = N THEN 0 ELSE c
  <2> HIDE DEF c, N
  <2> QED BY <1>2, SMT
<1>8. h \in LogSlots
  <2> HIDE DEF h, c
  <2> QED BY <1>2, <1>7 DEF LogSlots
<1>9. /\ Ring(E, h, c) \in Seq(LogEntry) /\ Len(Ring(E, h, c)) = c
      /\ \A k \in 1 .. c : c - k \in LogSlots /\ Ring(E, h, c)[k] = E[At(h, c - k)]
  <2> HIDE DEF E, h, c, N
  <2> QED BY <1>2, <1>6, <1>8, RingType DEF N
<1>10. ASSUME NEW k \in 1 .. c PROVE Ring(E, h, c)[k] = put(k)
  <2>1. At(h, c - k) = IF c - k < h THEN h - 1 - (c - k) ELSE h - 1 - (c - k) + N
    <3> HIDE DEF E, h, c
    <3> QED BY <1>8, <1>9, AtFacts
  <2>2. At(h, c - k) = k - 1
    <3> HIDE DEF c, h, N
    <3> QED BY <1>2, <1>7, <2>1
  <2>3. k - 1 \in 0 .. N - 1 /\ k - 1 < c BY <1>2
  <2>4. E[k - 1] = put(k)
    <3> HIDE DEF put, c, N
    <3> QED BY <2>3 DEF c
  <2> HIDE DEF E, h, c, put
  <2> QED BY <1>9, <2>2, <2>4
<1>11. U \in Seq(LogEntry) /\ Len(U) = m
       /\ \A k \in 1 .. m : U[k] = [S[k] EXCEPT !.error = FALSE]
  <2> HIDE DEF S, m
  <2>1. \A k \in 1 .. m : [S[k] EXCEPT !.error = FALSE] \in LogEntry BY <1>3, <1>4
  <2>2. U = [k \in 1 .. m |-> [S[k] EXCEPT !.error = FALSE]] BY <1>3 DEF Promise!Unmarked
  <2>3. m \in Nat BY <1>2
  <2> HIDE DEF U, m
  <2>4. \A k \in 1 .. m : U[k] = [S[k] EXCEPT !.error = FALSE] BY <2>2
  <2>5. U = [k \in 1 .. m |-> U[k]] BY <2>2
  <2>6. \A k \in 1 .. m : U[k] \in LogEntry BY <2>1, <2>4
  <2> QED BY <2>3, <2>4, <2>5, <2>6
<1>12. W \in Seq(LogEntry) /\ Len(W) = c /\ \A k \in 1 .. c : W[k] = U[k + (m - c)]
  <2>1. c = IF m <= N THEN m ELSE N
    <3>1. m \in Nat /\ N \in Nat BY <1>2
    <3>2. c = m - IF m > N THEN m - N ELSE 0 OBVIOUS
    <3> HIDE DEF m, N, c
    <3> QED BY <3>1, <3>2
  <2>2. N \in Nat BY <1>2
  <2> HIDE DEF U, c, m, N
  <2>3. U \in Seq(LogEntry) /\ Len(U) = m BY <1>11
  <2>4. /\ W \in Seq(LogEntry) /\ Len(W) = IF Len(U) <= N THEN Len(U) ELSE N
        /\ \A k \in 1 .. Len(W) : W[k] = U[k + (Len(U) - Len(W))]
    BY <2>2, <2>3, NewestFacts
  <2> HIDE DEF W
  <2> QED BY <2>1, <2>3, <2>4
<1>13. ASSUME NEW k \in 1 .. c PROVE Ring(E, h, c)[k] = W[k]
  <2>1. k + (m - c) \in 1 .. m /\ k + (m - c) = start + k BY <1>2
  <2>2. W[k] = U[start + k] BY <1>12, <2>1
  <2>3. U[start + k] = put(k)
    <3> HIDE DEF U, S, m, start, c
    <3> QED BY <1>11, <2>1
  <2> HIDE DEF W, U, put, E, h
  <2> QED BY <1>10, <2>2, <2>3
<1>14. Ring(E, h, c) = W
  <2> HIDE DEF W, E, h, c
  <2> QED BY <1>9, <1>12, <1>13
<1>15. ASSUME NEW k \in 1 .. c PROVE \E i \in 1 .. m : Ring(E, h, c)[k].id = f[i].id
  <2>1. start + k \in 1 .. m BY <1>2
  <2>2. \E i \in 1 .. m : S[start + k] = f[i]
    <3>1. S[start + k] = f[CHOOSE x \in 1 .. m : Place(f, x) = start + k] BY <2>1 DEF Sorted
    <3>2. \E x \in 1 .. m : Place(f, x) = start + k BY <2>1, Places
    <3> QED BY <3>1, <3>2
  <2>3. put(k).id = S[start + k].id
    <3> HIDE DEF S, start, m
    <3>1. S[start + k] \in LogEntry BY <1>3, <2>1
    <3> QED BY <3>1 DEF LogEntry
  <2> HIDE DEF put, S, E, h
  <2> QED BY <1>10, <2>2, <2>3
<1> HIDE DEF E, h, c, W, U, S
<1> QED BY <1>1, <1>2, <1>3, <1>6, <1>8, <1>14, <1>15 DEF W, U

\* Types are kept.
LEMMA LogTypesInit == LogInit => LogTypes
<1> SUFFICES ASSUME LogInit PROVE LogTypes OBVIOUS
<1>1. logFile \in Seq(LogEntry)
  <2>1. ASSUME NEW k \in Int PROVE Legacy(k) \in LogEntry
    <3>1. (CHOOSE r \in LogRules : TRUE) \in AnyRule BY Zenon DEF AnyRule
    <3>2. 1 - k \in Int /\ -k \in Int /\ FALSE \in BOOLEAN OBVIOUS
    <3> QED BY <3>1, <3>2, Zenon DEF Legacy, LogEntry
  <2>2. <<Legacy(1), Legacy(2)>> \in Seq(LogEntry) BY <2>1
  <2>3. <<>> \in Seq(LogEntry) OBVIOUS
  <2> QED BY <2>2, <2>3 DEF LogInit, LegacyFiles
<1>2. /\ logEntries \in [LogSlots -> LogEntry] /\ head \in LogSlots
      /\ count \in 0 .. EVENT_LOG_SIZE
  BY <1>1, RingLoaded DEF LogInit
<1>3. 0 \in 0 .. PersistEvery - 1 /\ 0 \in 0 .. MaxLogTime /\ 0 \in 0 .. MaxAppends BY LogSizes
<1>4. -1 \in Int /\ -2 \in Int /\ -1 <= 0 /\ -2 <= 0 /\ FALSE \in BOOLEAN OBVIOUS
<1> QED BY <1>1, <1>2, <1>3, <1>4, Zenon DEF LogInit, LogTypes

LEMMA LogTypesKept ==
  ASSUME LogTypes, [LogNext]_logVars
  PROVE  LogTypes'
<1>1. ASSUME NEW r \in LogRules, EventLog_Append(r) PROVE LogTypes'
  <2> DEFINE e == [id |-> appended + 1, rule |-> r, at |-> logTime, error |-> FALSE]
  <2>1. r \in AnyRule BY DEF AnyRule
  <2>2. appended + 1 \in Int /\ logTime \in Int BY DEF LogTypes
  <2>3. e \in LogEntry BY <2>1, <2>2 DEF LogEntry
  <2>4. logEntries' = [logEntries EXCEPT ![head] = e] BY <1>1 DEF EventLog_Append
  <2> HIDE DEF e
  <2>5. logEntries' \in [LogSlots -> LogEntry] BY <2>3, <2>4 DEF LogTypes
  <2>6. head' \in LogSlots BY <1>1, AtFacts DEF EventLog_Append, NextHead, LogTypes
  <2>7. count' \in 0 .. EVENT_LOG_SIZE BY <1>1, LogSizes DEF EventLog_Append, LogTypes
  <2> QED BY <1>1, <2>5, <2>6, <2>7, LogSizes DEF EventLog_Append, LogTypes
<1>2. ASSUME NEW r \in LogRules, EventLog_Set_Action_Error(r) PROVE LogTypes'
  <2>1. PICK i \in 0 .. count - 1 :
          logEntries' = Marked(logEntries, At(head, i))
    BY <1>2, ShownRing DEF EventLog_Set_Action_Error, Marked
  <2>2. logEntries' \in [LogSlots -> LogEntry] BY <2>1, RingMark DEF LogTypes
  <2> QED BY <1>2, <2>2 DEF EventLog_Set_Action_Error, LogTypes
<1>3. CASE EventLog_Clear
  <2>1. Empty \in LogEntry
    <3>1. "" \in AnyRule BY Zenon DEF AnyRule
    <3>2. 0 \in Int /\ FALSE \in BOOLEAN OBVIOUS
    <3> QED BY <3>1, <3>2, Zenon DEF Empty, LogEntry
  <2>2. Blank \in [LogSlots -> LogEntry] BY <2>1 DEF Blank, LogSlots
  <2> QED BY <1>3, <2>2, LogSizes DEF EventLog_Clear, LogTypes, LogSlots
<1>4. ASSUME EventLog_Persist
      PROVE  persist_dirty' \in BOOLEAN /\ logFile' \in Seq(LogEntry) /\ lost' \in BOOLEAN
  <2>1. ASSUME WriteFile PROVE logFile' \in Seq(LogEntry) /\ lost' \in BOOLEAN
    <3>1. <<>> \in Seq(LogEntry) OBVIOUS
    <3> QED BY <2>1, <3>1, RingSaved DEF WriteFile, LogTypes
  <2> QED BY <1>4, <2>1 DEF EventLog_Persist, LogTypes
<1>5. CASE ClearPersist
  <2>1. persist_dirty' \in BOOLEAN /\ logFile' \in Seq(LogEntry) /\ lost' \in BOOLEAN
    BY <1>4, <1>5 DEF ClearPersist
  <2> QED BY <1>5, <2>1, LogSizes DEF ClearPersist, LogTypes
<1>6. CASE LogTick
  <2>1. persist_dirty' \in BOOLEAN /\ logFile' \in Seq(LogEntry) /\ lost' \in BOOLEAN
    BY <1>4, <1>6 DEF LogTick, LogTypes
  <2>2. persist_counter' \in 0 .. PersistEvery - 1 BY <1>6, LogSizes DEF LogTick, LogTypes
  <2>3. logTime' \in 0 .. MaxLogTime BY <1>6, LogSizes DEF LogTick, LogTypes
  <2> QED BY <1>6, <2>1, <2>2, <2>3 DEF LogTick, LogTypes
<1>7. CASE LogRestart
  <2>1. PICK f \in Seq(LogEntry) : EventLog_Load(f)
    <3>1. logFile \in Seq(LogEntry) /\ <<>> \in Seq(LogEntry) BY DEF LogTypes
    <3> QED BY <1>7, <3>1 DEF LogRestart
  <2>2. /\ logEntries' \in [LogSlots -> LogEntry] /\ head' \in LogSlots
        /\ count' \in 0 .. EVENT_LOG_SIZE /\ logFile' \in Seq(LogEntry)
        /\ persist_dirty' \in BOOLEAN
    BY <2>1, RingLoaded DEF EventLog_Load
  <2>3. -1 <= appended' /\ 0 \in 0 .. PersistEvery - 1
    BY <1>7, LogSizes DEF LogRestart, LogTypes
  <2>4. purged' \in Int /\ purged' <= appended'
    BY <1>7, LogSizes DEF LogRestart, LogTypes
  <2>5. /\ persist_counter' = 0 /\ logTime' = logTime /\ appended' = appended /\ clearing' = -1
        /\ lost' = FALSE
    BY <1>7 DEF LogRestart
  <2>6. persist_counter' \in 0 .. PersistEvery - 1 /\ logTime' \in 0 .. MaxLogTime
        /\ appended' \in 0 .. MaxAppends /\ clearing' \in Int /\ clearing' <= appended'
    BY <2>3, <2>5 DEF LogTypes
  <2>7. lost' \in BOOLEAN BY <2>5
  <2> QED BY <2>2, <2>4, <2>6, <2>7, Zenon DEF LogTypes
<1>8. CASE UNCHANGED logVars BY <1>8 DEF logVars, LogTypes
<1> QED BY <1>1, <1>2, <1>3, <1>5, <1>6, <1>7, <1>8 DEF LogNext

(***************************************************************************)
(* The event log: the ring implements the bounded log.                     *)
(***************************************************************************)

\* What is shown after a step.
LEMMA ShownNext ==
  /\ Shown' = Ring(logEntries', head', count')
  /\ UNCHANGED <<logEntries, head, count>> => Shown' = Shown
BY DEF Shown, Ring, Slot, At

\* A load shows what the promise says of the file.
LEMMA LoadShows ==
  ASSUME NEW f \in Seq(LogEntry), EventLog_Load(f)
  PROVE  /\ Shown' = Promise!Newest(Promise!Unmarked(Promise!ByTime(f)), EVENT_LOG_SIZE)
         /\ \A k \in 1 .. count' : \E i \in 1 .. Len(f) : Shown'[k].id = f[i].id
<1>1. /\ logEntries' = Loaded(f).entries /\ head' = Loaded(f).head
      /\ count' = Loaded(f).count
  BY DEF EventLog_Load
<1>2. Shown' = Ring(Loaded(f).entries, Loaded(f).head, Loaded(f).count)
  BY <1>1, ShownNext
<1> QED BY <1>1, <1>2, RingLoaded

LEMMA PromiseStep ==
  ASSUME LogTypes, [LogNext]_logVars
  PROVE  [Promise!Next]_<<Shown, logFile>>
<1> USE DEF Promise!Next
<1>1. /\ Shown \in Seq(LogEntry) /\ Len(Shown) = count /\ Shown = Ring(logEntries, head, count)
      /\ \A k \in 1 .. count : Shown[k] = logEntries[At(head, count - k)]
  BY ShownRing, RingType DEF LogTypes
<1>2. ASSUME NEW r \in LogRules, EventLog_Append(r) PROVE Promise!Add
  <2> DEFINE e == [id |-> appended + 1, rule |-> r, at |-> logTime, error |-> FALSE]
  <2>1. r \in AnyRule BY DEF AnyRule
  <2>2. appended + 1 \in 1 .. MaxAppends /\ logTime \in 0 .. MaxLogTime
    BY <1>2, LogSizes DEF EventLog_Append, LogTypes
  <2>3. e \in LogEntry BY <2>1, <2>2 DEF LogEntry
  <2>4. e \in [id : 1 .. MaxAppends, rule : LogRules, at : 0 .. MaxLogTime, error : {FALSE}]
    BY <2>2
  <2>5. Shown' = Ring([logEntries EXCEPT ![head] = e], (head + 1) % EVENT_LOG_SIZE,
                      IF count < EVENT_LOG_SIZE THEN count + 1 ELSE count)
    BY <1>2, ShownNext DEF EventLog_Append, NextHead
  <2>6. logFile' = logFile BY <1>2 DEF EventLog_Append
  <2> HIDE DEF e
  <2>7. Shown' = Promise!Newest(Append(Shown, e), EVENT_LOG_SIZE)
    BY ZenonT(40), <1>1, <2>3, <2>5, RingAppend DEF LogTypes
  <2> QED BY <2>4, <2>6, <2>7 DEF Promise!Add
<1>3. ASSUME NEW r \in LogRules, EventLog_Set_Action_Error(r) PROVE Promise!Mark
  <2>1. PICK i \in 0 .. count - 1 :
          /\ logEntries[At(head, i)].rule = r
          /\ \A j \in 0 .. i - 1 : logEntries[At(head, j)].rule # r
          /\ logEntries' = Marked(logEntries, At(head, i))
    BY <1>3, ShownRing DEF EventLog_Set_Action_Error, Marked
  <2>2. head' = head /\ count' = count /\ logFile' = logFile
    BY <1>3 DEF EventLog_Set_Action_Error
  <2>3. Shown' = Ring(Marked(logEntries, At(head, i)), head, count) BY <2>1, <2>2, ShownNext
  <2>4. Shown' = Marked(Shown, count - i)
    BY <1>1, <2>3, RingMark DEF LogTypes
  <2> DEFINE k == count - i
  <2>5. k \in 1 .. Len(Shown) /\ count - k = i BY <1>1 DEF LogTypes
  <2>6. \A j \in k + 1 .. Len(Shown) : Shown[j].rule # Shown[k].rule
    <3> SUFFICES ASSUME NEW j \in k + 1 .. Len(Shown) PROVE Shown[j].rule # Shown[k].rule
      OBVIOUS
    <3>1. count - j \in 0 .. i - 1 /\ j \in 1 .. count BY <1>1 DEF LogTypes
    <3>2. Shown[j].rule # r BY <1>1, <2>1, <3>1
    <3>3. Shown[k].rule = r BY <1>1, <2>1, <2>5
    <3> QED BY <3>2, <3>3
  <2> HIDE DEF k
  <2>7. Shown' = [Shown EXCEPT ![k].error = TRUE] BY <2>4 DEF k, Marked
  <2> QED BY <2>2, <2>5, <2>6, <2>7 DEF Promise!Mark
<1>4. CASE EventLog_Clear
  <2>1. count' = 0 /\ logFile' = logFile BY <1>4 DEF EventLog_Clear
  <2>2. Shown' = <<>> BY <2>1, ShownNext DEF Ring
  <2> QED BY <2>1, <2>2 DEF Promise!Clear
<1>5. ASSUME EventLog_Persist, UNCHANGED <<logEntries, head, count>>
      PROVE  Promise!Save \/ Promise!Lose \/ UNCHANGED <<Shown, logFile>>
  <2>1. Shown' = Shown BY <1>5, ShownNext
  <2>2. CASE logFile' = SavedEntries BY <2>1, <2>2, RingSaved DEF Promise!Save
  <2>3. CASE logFile' = <<>> BY <2>1, <2>3 DEF Promise!Lose
  <2>4. CASE logFile' = logFile BY <2>1, <2>4
  <2> QED BY <1>5, <2>2, <2>3, <2>4 DEF EventLog_Persist, WriteFile
<1>6. CASE ClearPersist BY <1>5, <1>6 DEF ClearPersist
<1>7. CASE LogTick
  <2>1. UNCHANGED <<logEntries, head, count>> BY <1>7 DEF LogTick
  <2>2. EventLog_Persist \/ UNCHANGED logFile BY <1>7 DEF LogTick
  <2> QED BY <1>5, <2>1, <2>2, ShownNext
<1>8. CASE LogRestart
  <2>1. CASE EventLog_Load(logFile)
    <3>1. Shown' = Promise!Newest(Promise!Unmarked(Promise!ByTime(logFile)), EVENT_LOG_SIZE)
      BY <2>1, LoadShows DEF LogTypes
    <3>2. logFile' = logFile BY <2>1 DEF EventLog_Load
    <3> QED BY <3>1, <3>2 DEF Promise!Restart
  <2>2. CASE EventLog_Load(<<>>)
    <3>1. count' = 0 /\ logFile' = <<>> BY <2>2, LogSizes DEF EventLog_Load, Loaded
    <3>2. Shown' = <<>> BY <3>1, ShownNext DEF Ring
    <3> QED BY <3>1, <3>2 DEF Promise!Tear
  <2> QED BY <1>8, <2>1, <2>2 DEF LogRestart
<1>9. CASE UNCHANGED logVars BY <1>9, ShownNext DEF logVars
<1> QED BY <1>2, <1>3, <1>4, <1>6, <1>7, <1>8, <1>9 DEF LogNext

\* The ring, its file and its saves implement the bounded log of BoundedLog: the newest
\* entries in order, marks on the newest entry of a rule, and a file that brings the newest
\* of them back (EventLog_Append, EventLog_Persist, EventLog_Load).
THEOREM LogPromised == LogSpec => LogKeepsPromise
<1>1. LogInit => Promise!Init
  <2> SUFFICES ASSUME LogInit PROVE Promise!Init OBVIOUS
  <2>1. logFile \in Seq(LogEntry) BY LogTypesInit DEF LogTypes
  <2>2. Shown = Ring(Loaded(logFile).entries, Loaded(logFile).head, Loaded(logFile).count)
    BY ShownRing DEF LogInit
  <2> QED BY <2>1, <2>2, RingLoaded DEF Promise!Init
<1>2. LogTypes /\ [LogNext]_logVars => LogTypes' BY LogTypesKept
<1>3. LogTypes /\ [LogNext]_logVars => [Promise!Next]_<<Shown, logFile>> BY PromiseStep
<1> QED BY <1>1, <1>2, <1>3, LogTypesInit, PTL DEF LogSpec, LogKeepsPromise

(***************************************************************************)
(* The event log: the file keeps up.                                       *)
(***************************************************************************)

\* Nothing purged is left, in the ring or, if the last save worked, in the file; and what was
\* there before a clear is out of the file once the cleared ring is saved.
PurgedRight ==
  /\ \A k \in 1 .. count : /\ Shown[k].id > purged
                           /\ clearing >= 0 => Shown[k].id > clearing
  /\ \A i \in 1 .. Len(logFile) :
       /\ logFile[i].id > -2
       /\ ~lost => logFile[i].id > purged
       /\ clearing >= 0 /\ ~persist_dirty /\ ~lost => logFile[i].id > clearing
  /\ purged >= -2

\* What the next save will keep is in the file, or came after the last save.
SavedRight ==
  ~lost => \A k \in 1 .. count : count - k < SaveLimit =>
    \/ \E i \in 1 .. Len(logFile) : logFile[i].id = Shown[k].id
    \/ persist_dirty /\ Shown[k].at + persist_counter >= logTime

\* What is shown after an append is new or was shown, one place nearer to the newest.
LEMMA AppendShows ==
  ASSUME LogTypes, NEW r \in LogRules, EventLog_Append(r), NEW k \in 1 .. count'
  PROVE  \/ Shown'[k].id = appended + 1 /\ Shown'[k].at = logTime
         \/ \E j \in 1 .. count : count - j < count' - k /\ Shown'[k] = Shown[j]
<1> DEFINE e == [id |-> appended + 1, rule |-> r, at |-> logTime, error |-> FALSE]
           A == Append(Shown, e)
           W == Promise!Newest(A, EVENT_LOG_SIZE)
<1>1. /\ Shown \in Seq(LogEntry) /\ Len(Shown) = count /\ Shown = Ring(logEntries, head, count)
  BY ShownRing, RingType DEF LogTypes
<1>2. e \in LogEntry
  <2>1. r \in AnyRule BY DEF AnyRule
  <2>2. appended + 1 \in Int /\ logTime \in Int BY DEF LogTypes
  <2> QED BY <2>1, <2>2 DEF LogEntry
<1>3. e.id = appended + 1 /\ e.at = logTime OBVIOUS
<1>4. count' = IF count < EVENT_LOG_SIZE THEN count + 1 ELSE count
  BY DEF EventLog_Append
<1>5. Shown' = Ring([logEntries EXCEPT ![head] = e], (head + 1) % EVENT_LOG_SIZE, count')
  BY ShownNext DEF EventLog_Append, NextHead
<1> HIDE DEF e
<1>6. Shown' = W BY ZenonT(40), <1>1, <1>2, <1>4, <1>5, RingAppend DEF LogTypes
<1>7. A \in Seq(LogEntry) /\ Len(A) = count + 1 /\ A[count + 1] = e
      /\ \A j \in 1 .. count : A[j] = Shown[j]
  BY <1>1, <1>2
<1>8. count \in Nat /\ EVENT_LOG_SIZE \in Nat /\ count <= EVENT_LOG_SIZE BY LogSizes DEF LogTypes
<1> HIDE DEF A
<1>9. Len(W) = (IF Len(A) <= EVENT_LOG_SIZE THEN Len(A) ELSE EVENT_LOG_SIZE)
      /\ \A j \in 1 .. Len(W) : W[j] = A[j + (Len(A) - Len(W))]
  BY <1>7, <1>8, NewestFacts
<1> HIDE DEF W
<1>10. Len(W) = count'
  <2>1. Len(A) = count + 1 BY <1>7
  <2>2. Len(W) = IF Len(A) <= EVENT_LOG_SIZE THEN Len(A) ELSE EVENT_LOG_SIZE BY <1>9
  <2> QED BY <1>4, <1>8, <2>1, <2>2
<1>11. W[k] = A[k + (count + 1 - count')]
  <2>1. count' \in Nat BY <1>4, <1>8
  <2>2. k \in 1 .. Len(W) /\ Len(A) - Len(W) = count + 1 - count' BY <1>7, <1>8, <1>10, <2>1
  <2>3. W[k] = A[k + (Len(A) - Len(W))] BY <1>9, <2>2
  <2> QED BY <2>2, <2>3
<1>12. CASE k = count'
  <2>1. W[k] = e BY <1>4, <1>7, <1>8, <1>11, <1>12
  <2> QED BY <1>3, <1>6, <2>1
<1>13. CASE k # count'
  <2> DEFINE j == k + (count + 1 - count')
  <2>1. j \in 1 .. count /\ count - j < count' - k BY <1>4, <1>8, <1>13
  <2>2. W[k] = Shown[j] BY <1>7, <1>11, <2>1
  <2> QED BY <1>6, <2>1, <2>2
<1> QED BY <1>12, <1>13

\* What a mark leaves alone.
LEMMA MarkShows ==
  ASSUME LogTypes, NEW r \in LogRules, EventLog_Set_Action_Error(r), NEW k \in 1 .. count
  PROVE  Shown'[k].id = Shown[k].id /\ Shown'[k].at = Shown[k].at
<1>1. /\ Shown \in Seq(LogEntry) /\ Len(Shown) = count /\ Shown = Ring(logEntries, head, count)
  BY ShownRing, RingType DEF LogTypes
<1>2. PICK i \in 0 .. count - 1 : logEntries' = Marked(logEntries, At(head, i))
  BY ShownRing DEF EventLog_Set_Action_Error, Marked
<1>3. head' = head /\ count' = count BY DEF EventLog_Set_Action_Error
<1>4. Shown' = Marked(Shown, count - i)
  <2>1. Shown' = Ring(Marked(logEntries, At(head, i)), head, count) BY <1>2, <1>3, ShownNext
  <2> QED BY <1>1, <2>1, RingMark DEF LogTypes
<1>5. \A e \in LogEntry : [e EXCEPT !.error = TRUE].id = e.id /\ [e EXCEPT !.error = TRUE].at = e.at
  BY DEF LogEntry
<1>6. Shown[k] \in LogEntry BY <1>1
<1>7. Shown'[k] = Shown[k] \/ Shown'[k] = [Shown[k] EXCEPT !.error = TRUE]
  <2>1. DOMAIN Shown = 1 .. count BY <1>1
  <2>2. Marked(Shown, count - i)[k] = Shown[k]
        \/ Marked(Shown, count - i)[k] = [Shown[k] EXCEPT !.error = TRUE]
    BY <2>1 DEF Marked
  <2> QED BY <1>4, <2>2
<1> QED BY <1>5, <1>6, <1>7

LEMMA PurgedKept ==
  ASSUME LogTypes, PurgedRight, [LogNext]_logVars
  PROVE  PurgedRight'
<1>1. /\ Shown \in Seq(LogEntry) /\ Len(Shown) = count
      /\ \A k \in 1 .. count : Shown[k] \in LogEntry /\ Shown[k].id \in Int
  <2>1. Shown \in Seq(LogEntry) /\ Len(Shown) = count BY ShownRing, RingType DEF LogTypes
  <2>2. \A k \in 1 .. count : Shown[k] \in LogEntry BY <2>1
  <2> QED BY <2>1, <2>2 DEF LogEntry
<1>2. ASSUME NEW r \in LogRules, EventLog_Append(r) PROVE PurgedRight'
  <2>1. UNCHANGED <<logFile, clearing, purged, lost>> /\ persist_dirty' = TRUE
    BY <1>2 DEF EventLog_Append
  <2>2. ASSUME NEW k \in 1 .. count'
        PROVE  Shown'[k].id > purged /\ (clearing >= 0 => Shown'[k].id > clearing)
    <3>1. CASE Shown'[k].id = appended + 1 BY <3>1 DEF LogTypes
    <3>2. CASE \E j \in 1 .. count : Shown'[k] = Shown[j] BY <3>2 DEF PurgedRight
    <3> QED BY <1>2, <3>1, <3>2, AppendShows
  <2> QED BY <2>1, <2>2 DEF PurgedRight
<1>3. ASSUME NEW r \in LogRules, EventLog_Set_Action_Error(r) PROVE PurgedRight'
  <2>1. UNCHANGED <<count, logFile, clearing, purged, persist_dirty, lost>>
    BY <1>3 DEF EventLog_Set_Action_Error
  <2>2. \A k \in 1 .. count : Shown'[k].id = Shown[k].id BY <1>3, MarkShows
  <2> QED BY <2>1, <2>2 DEF PurgedRight
<1>4. CASE EventLog_Clear
  <2>1. UNCHANGED <<logFile, purged, lost>> /\ persist_dirty' = TRUE /\ count' = 0
    BY <1>4 DEF EventLog_Clear
  <2> QED BY <2>1 DEF PurgedRight
<1>5. ASSUME EventLog_Persist, UNCHANGED <<logEntries, head, count>>
      PROVE  /\ Shown' = Shown /\ persist_dirty' = FALSE
             /\ \A i \in 1 .. Len(logFile') :
                  /\ logFile'[i].id > -2
                  /\ ~lost' => logFile'[i].id > purged
                  /\ clearing >= 0 /\ ~lost' => logFile'[i].id > clearing
  <2>1. Shown' = Shown BY <1>5, ShownNext
  <2>2. CASE persist_dirty
    <3>1. WriteFile /\ persist_dirty' = FALSE BY <1>5, <2>2 DEF EventLog_Persist
    <3>2. CASE logFile' = SavedEntries
      <4>1. \A i \in 1 .. Len(logFile') :
              /\ logFile'[i].id > purged
              /\ clearing >= 0 => logFile'[i].id > clearing
        BY <3>2, RingSaved DEF PurgedRight
      <4>2. \A i \in 1 .. Len(logFile') : logFile'[i].id > -2
        <5> SUFFICES ASSUME NEW i \in 1 .. Len(logFile') PROVE logFile'[i].id > -2 OBVIOUS
        <5>1. logFile'[i] \in LogEntry
          <6>1. SavedEntries \in Seq(LogEntry) BY RingSaved DEF LogTypes
          <6> QED BY <3>2, <6>1
        <5>2. logFile'[i].id \in Int BY <5>1 DEF LogEntry
        <5>3. purged >= -2 /\ purged \in Int BY DEF PurgedRight, LogTypes
        <5>4. logFile'[i].id > purged BY <4>1
        <5>5. \A x, y \in Int : x > y /\ y >= -2 => x > -2 OBVIOUS
        <5> QED BY <5>2, <5>3, <5>4, <5>5, Zenon
      <4> QED BY <2>1, <3>1, <4>1, <4>2, Zenon
    <3>3. CASE logFile' \in {logFile, <<>>} /\ lost' = TRUE BY <2>1, <3>1, <3>3 DEF PurgedRight
    <3> QED BY <3>1, <3>2, <3>3 DEF WriteFile
  <2>3. CASE ~persist_dirty
    <3>1. logFile' = logFile /\ persist_dirty' = FALSE /\ lost' = lost
      BY <1>5, <2>3 DEF EventLog_Persist, LogTypes
    <3> QED BY <2>1, <2>3, <3>1 DEF PurgedRight
  <2> QED BY <2>2, <2>3
<1>6. CASE ClearPersist
  <2>1. /\ clearing >= 0 /\ clearing' = -1 /\ purged' = clearing
        /\ UNCHANGED <<logEntries, head, count>> /\ EventLog_Persist
    BY <1>6 DEF ClearPersist
  <2>2. purged' >= -2 BY <2>1 DEF LogTypes
  <2> QED BY <1>5, <2>1, <2>2 DEF PurgedRight
<1>7. CASE LogTick
  <2>1. UNCHANGED <<logEntries, head, count, clearing, purged>> BY <1>7 DEF LogTick
  <2>2. CASE EventLog_Persist BY <1>5, <2>1, <2>2 DEF PurgedRight
  <2>3. CASE UNCHANGED <<logFile, persist_dirty, lost>>
    <3>1. Shown' = Shown BY <2>1, ShownNext
    <3> QED BY <2>1, <2>3, <3>1 DEF PurgedRight
  <2> QED BY <1>7, <2>2, <2>3 DEF LogTick
<1>8. CASE LogRestart
  <2>1. purged' = (IF lost THEN -2 ELSE purged) /\ clearing' = -1 BY <1>8 DEF LogRestart
  <2>2. PICK f \in Seq(LogEntry) : /\ EventLog_Load(f)
                                   /\ \A i \in 1 .. Len(f) : f[i].id > purged' /\ f[i].id > -2
    <3>1. logFile \in Seq(LogEntry) /\ <<>> \in Seq(LogEntry) /\ Len(<<>>) = 0 BY DEF LogTypes
    <3>2. EventLog_Load(logFile) \/ EventLog_Load(<<>>) BY <1>8 DEF LogRestart
    <3>3. \A i \in 1 .. Len(logFile) : logFile[i].id > purged' /\ logFile[i].id > -2
      BY <2>1 DEF PurgedRight
    <3>4. \A f : Len(f) = 0 => \A i \in 1 .. Len(f) : f[i].id > purged' /\ f[i].id > -2 OBVIOUS
    <3> QED BY <3>1, <3>2, <3>3, <3>4
  <2>3. \A k \in 1 .. count' : \E i \in 1 .. Len(f) : Shown'[k].id = f[i].id
    BY <2>2, LoadShows
  <2>4. logFile' = f BY <2>2 DEF EventLog_Load
  <2>5. purged' >= -2 BY <2>1 DEF PurgedRight
  <2> QED BY <2>1, <2>2, <2>3, <2>4, <2>5 DEF PurgedRight
<1>9. CASE UNCHANGED logVars
  <2>1. Shown' = Shown BY <1>9, ShownNext DEF logVars
  <2> QED BY <1>9, <2>1 DEF logVars, PurgedRight
<1> QED BY <1>2, <1>3, <1>4, <1>6, <1>7, <1>8, <1>9 DEF LogNext

LEMMA SavedKept ==
  ASSUME LogTypes, SavedRight, [LogNext]_logVars
  PROVE  SavedRight'
<1>1. /\ Shown \in Seq(LogEntry) /\ Len(Shown) = count
      /\ \A k \in 1 .. count : Shown[k] \in LogEntry /\ Shown[k].at \in Int
  <2>1. Shown \in Seq(LogEntry) /\ Len(Shown) = count BY ShownRing, RingType DEF LogTypes
  <2>2. \A k \in 1 .. count : Shown[k] \in LogEntry BY <2>1
  <2> QED BY <2>1, <2>2 DEF LogEntry
<1>2. ASSUME NEW r \in LogRules, EventLog_Append(r) PROVE SavedRight'
  <2>1. UNCHANGED <<logFile, persist_counter, logTime, lost>> /\ persist_dirty' = TRUE
    BY <1>2 DEF EventLog_Append
  <2>2. ASSUME NEW k \in 1 .. count', count' - k < SaveLimit, ~lost
        PROVE  \/ \E i \in 1 .. Len(logFile) : logFile[i].id = Shown'[k].id
               \/ Shown'[k].at + persist_counter >= logTime
    <3>1. CASE Shown'[k].at = logTime
      <4>1. persist_counter >= 0 /\ persist_counter \in Int /\ logTime \in Int BY DEF LogTypes
      <4> QED BY <3>1, <4>1
    <3>2. CASE \E j \in 1 .. count : count - j < count' - k /\ Shown'[k] = Shown[j]
      <4>1. PICK j \in 1 .. count : count - j < count' - k /\ Shown'[k] = Shown[j] BY <3>2
      <4>2. count - j < SaveLimit
        <5>1. count \in Int /\ count' \in Int /\ SaveLimit \in Int
          BY <1>2, LogSizes DEF EventLog_Append, LogTypes
        <5>2. count - j < count' - k /\ count' - k < SaveLimit BY <2>2, <4>1
        <5>3. j \in Int /\ k \in Int BY <5>1
        <5>4. \A a, b, c \in Int : a < b /\ b < c => a < c OBVIOUS
        <5>5. count - j \in Int /\ count' - k \in Int BY <5>1, <5>3
        <5> QED BY <5>1, <5>2, <5>4, <5>5
      <4> QED BY <2>2, <4>1, <4>2 DEF SavedRight
    <3> QED BY <1>2, <3>1, <3>2, AppendShows
  <2> QED BY <2>1, <2>2 DEF SavedRight
<1>3. ASSUME NEW r \in LogRules, EventLog_Set_Action_Error(r) PROVE SavedRight'
  <2>1. UNCHANGED <<count, logFile, logTime, persist_counter, persist_dirty, lost>>
    BY <1>3 DEF EventLog_Set_Action_Error
  <2>2. \A k \in 1 .. count : Shown'[k].id = Shown[k].id /\ Shown'[k].at = Shown[k].at
    BY <1>3, MarkShows
  <2> QED BY <2>1, <2>2 DEF SavedRight
<1>4. CASE EventLog_Clear
  <2>1. count' = 0 BY <1>4 DEF EventLog_Clear
  <2> QED BY <2>1 DEF SavedRight
<1>5. ASSUME EventLog_Persist, UNCHANGED <<logEntries, head, count>> PROVE SavedRight'
  <2>1. Shown' = Shown BY <1>5, ShownNext
  <2>2. CASE persist_dirty
    <3>1. CASE logFile' = SavedEntries
      <4>1. \A k \in 1 .. count : count - k < SaveLimit =>
              \E i \in 1 .. Len(logFile') : logFile'[i].id = Shown[k].id
        BY <3>1, RingSaved
      <4>2. count' = count BY <1>5
      <4> QED BY <2>1, <4>1, <4>2, Zenon DEF SavedRight
    <3>2. CASE lost' = TRUE BY <3>2 DEF SavedRight
    <3> QED BY <1>5, <2>2, <3>1, <3>2 DEF EventLog_Persist, WriteFile
  <2>3. CASE ~persist_dirty
    <3>1. logFile' = logFile /\ lost' = lost BY <1>5, <2>3 DEF EventLog_Persist
    <3> QED BY <1>5, <2>1, <2>3, <3>1 DEF SavedRight
  <2> QED BY <2>2, <2>3
<1>6. CASE ClearPersist BY <1>5, <1>6 DEF ClearPersist
<1>7. CASE LogTick
  <2>1. UNCHANGED <<logEntries, head, count>> /\ logTime' = logTime + 1 BY <1>7 DEF LogTick
  <2>2. CASE EventLog_Persist BY <1>5, <2>1, <2>2
  <2>3. CASE /\ persist_counter' = persist_counter + 1
             /\ UNCHANGED <<logFile, persist_dirty, lost>>
    <3>1. Shown' = Shown BY <2>1, ShownNext
    <3>2. persist_counter \in Int /\ logTime \in Int BY DEF LogTypes
    <3>3. \A k \in 1 .. count : Shown[k].at + persist_counter >= logTime =>
            Shown[k].at + persist_counter' >= logTime'
      BY <1>1, <2>1, <2>3, <3>2
    <3> QED BY <2>1, <2>3, <3>1, <3>3 DEF SavedRight
  <2> QED BY <1>7, <2>2, <2>3 DEF LogTick
<1>8. CASE LogRestart
  <2>1. PICK f \in Seq(LogEntry) : EventLog_Load(f)
    <3>1. logFile \in Seq(LogEntry) /\ <<>> \in Seq(LogEntry) BY DEF LogTypes
    <3> QED BY <1>8, <3>1 DEF LogRestart
  <2>2. \A k \in 1 .. count' : \E i \in 1 .. Len(f) : Shown'[k].id = f[i].id
    BY <2>1, LoadShows
  <2>3. logFile' = f BY <2>1 DEF EventLog_Load
  <2> QED BY <2>2, <2>3 DEF SavedRight
<1>9. CASE UNCHANGED logVars
  <2>1. Shown' = Shown BY <1>9, ShownNext DEF logVars
  <2> QED BY <1>9, <2>1 DEF logVars, SavedRight
<1> QED BY <1>2, <1>3, <1>4, <1>6, <1>7, <1>8, <1>9 DEF LogNext

\* What has been in the log for a save period is in the file if the last save worked, and
\* what a clear request has removed stays away once it is answered, through restarts, except
\* a restart right after a failed save (Engine_Tick, HTTP_Events, ACAP_FILE_Write).
THEOREM JournalHolds == LogSpec => []JournalKept
<1>1. LogInit => LogTypes /\ PurgedRight /\ SavedRight
  <2> SUFFICES ASSUME LogInit PROVE LogTypes /\ PurgedRight /\ SavedRight OBVIOUS
  <2>1. LogTypes BY LogTypesInit
  <2>2. logFile \in Seq(LogEntry) BY <2>1 DEF LogTypes
  <2>3. Shown = Ring(Loaded(logFile).entries, Loaded(logFile).head, Loaded(logFile).count)
        /\ count = Loaded(logFile).count
    BY ShownRing DEF LogInit
  <2>4. \A k \in 1 .. count : \E i \in 1 .. Len(logFile) : Shown[k].id = logFile[i].id
    BY <2>2, <2>3, RingLoaded
  <2>5. \A i \in 1 .. Len(logFile) : logFile[i].id > -2
    <3>1. Legacy(1).id = 0 /\ Legacy(2).id = -1 BY DEF Legacy
    <3>2. CASE logFile = <<Legacy(1), Legacy(2)>> BY <3>1, <3>2
    <3>3. CASE logFile = <<>> BY <3>3
    <3> QED BY <3>2, <3>3 DEF LogInit, LegacyFiles
  <2>6. purged = -2 /\ clearing = -1 /\ lost = FALSE BY DEF LogInit
  <2> QED BY <2>1, <2>4, <2>5, <2>6 DEF PurgedRight, SavedRight
<1>2. LogTypes /\ PurgedRight /\ SavedRight /\ [LogNext]_logVars
        => LogTypes' /\ PurgedRight' /\ SavedRight'
  BY LogTypesKept, PurgedKept, SavedKept
<1>3. LogTypes /\ PurgedRight /\ SavedRight => JournalKept
  <2> SUFFICES ASSUME LogTypes, PurgedRight, SavedRight PROVE JournalKept OBVIOUS
  <2>1. ASSUME NEW k \in 1 .. count, count - k < SaveLimit,
               Shown[k].at + PersistEvery < logTime, ~lost
        PROVE  Shown[k].id \in Ids(logFile)
    <3>1. Shown \in Seq(LogEntry) /\ Len(Shown) = count BY ShownRing, RingType DEF LogTypes
    <3>2. Shown[k] \in LogEntry BY <3>1
    <3>3. Shown[k].at \in Int BY <3>2 DEF LogEntry
    <3>4. persist_counter \in Int /\ persist_counter < PersistEvery /\ logTime \in Int
          /\ PersistEvery \in Int
      BY LogSizes DEF LogTypes
    <3>5. ~(Shown[k].at + persist_counter >= logTime) BY <2>1, <3>3, <3>4
    <3>6. \E i \in 1 .. Len(logFile) : logFile[i].id = Shown[k].id BY <2>1, <3>5 DEF SavedRight
    <3> QED BY <3>6 DEF Ids
  <2>2. OldOnesSaved BY <2>1 DEF OldOnesSaved
  <2>3. ClearedStaysCleared BY DEF ClearedStaysCleared, PurgedRight
  <2> QED BY <2>2, <2>3 DEF JournalKept
<1> QED BY <1>1, <1>2, <1>3, PTL DEF LogSpec

(***************************************************************************)
(* Conditions: one condition.                                              *)
(***************************************************************************)

\* A window of the day, also around midnight.
LEMMA WindowRight ==
  ASSUME NEW c, c.start \in 0 .. DayLength - 1, c.end \in 0 .. DayLength - 1,
         NEW s \in 0 .. DayLength - 1
  PROVE  s \in Window(c) <=> IF c.start <= c.end THEN s >= c.start /\ s < c.end
                             ELSE s >= c.start \/ s < c.end
<1> DEFINE D == DayLength
           a == c.start
           b == c.end
           n == (b - a) % D
<1>1. D \in Nat \ {0} /\ a \in 0 .. D - 1 /\ b \in 0 .. D - 1 BY CondParams
<1>2. n = IF a <= b THEN b - a ELSE b - a + D
  <2> HIDE DEF D, a, b
  <2>1. CASE a <= b
    <3>1. b - a \in 0 .. D - 1 BY <1>1, <2>1
    <3> QED BY <1>1, <2>1, <3>1, SMT
  <2>2. CASE ~(a <= b)
    <3>1. b - a + D \in 0 .. D - 1 BY <1>1, <2>2
    <3>2. (b - a) % D = (b - a + D) % D BY <1>1, SMT
    <3> QED BY <1>1, <2>2, <3>1, <3>2, SMT
  <2> QED BY <2>1, <2>2
<1>3. \A k \in 0 .. D - 1 : (a + k) % D = IF a + k < D THEN a + k ELSE a + k - D
  <2> HIDE DEF D, a, b
  <2> SUFFICES ASSUME NEW k \in 0 .. D - 1
               PROVE  (a + k) % D = IF a + k < D THEN a + k ELSE a + k - D
    OBVIOUS
  <2> QED BY <1>1, SMT
<1>4. Window(c) = {(a + k) % D : k \in 0 .. n - 1} BY DEF Window
<1> HIDE DEF D, a, b, n
<1>5. n \in 0 .. D - 1 BY <1>1, <1>2
<1>6. s \in Window(c) <=> \E k \in 0 .. n - 1 : s = IF a + k < D THEN a + k ELSE a + k - D
  <2>1. \A k \in 0 .. n - 1 : k \in 0 .. D - 1 BY <1>1, <1>5
  <2>2. \A k \in 0 .. n - 1 : (a + k) % D = IF a + k < D THEN a + k ELSE a + k - D
    BY <1>3, <2>1
  <2> QED BY <1>4, <2>2
<1>7. s \in 0 .. D - 1 BY DEF D
<1>8. (\E k \in 0 .. n - 1 : s = IF a + k < D THEN a + k ELSE a + k - D)
        <=> IF a <= b THEN s >= a /\ s < b ELSE s >= a \/ s < b
  <2> DEFINE R == IF a <= b THEN s >= a /\ s < b ELSE s >= a \/ s < b
  <2>1. ASSUME NEW k \in 0 .. n - 1, s = IF a + k < D THEN a + k ELSE a + k - D PROVE R
    <3>1. CASE a <= b
      <4>1. a + k < b /\ a + k < D /\ a + k >= a BY <1>1, <1>2, <3>1
      <4> QED BY <2>1, <3>1, <4>1
    <3>2. CASE ~(a <= b)
      <4>1. a + k >= a /\ a + k - D < b BY <1>1, <1>2, <3>2
      <4> QED BY <2>1, <3>2, <4>1
    <3> QED BY <3>1, <3>2
  <2>2. ASSUME R, s >= a PROVE \E k \in 0 .. n - 1 : s = IF a + k < D THEN a + k ELSE a + k - D
    <3>1. s - a \in 0 .. n - 1 BY <1>1, <1>2, <1>7, <2>2
    <3>2. s = IF a + (s - a) < D THEN a + (s - a) ELSE a + (s - a) - D BY <1>1, <1>7
    <3> QED BY <3>1, <3>2
  <2>3. ASSUME R, ~(s >= a)
        PROVE  \E k \in 0 .. n - 1 : s = IF a + k < D THEN a + k ELSE a + k - D
    <3>1. s - a + D \in 0 .. n - 1 BY <1>1, <1>2, <1>7, <2>3
    <3>2. s = IF a + (s - a + D) < D THEN a + (s - a + D) ELSE a + (s - a + D) - D
      BY <1>1, <1>7
    <3> QED BY <3>1, <3>2
  <2> HIDE DEF R
  <2> QED BY <2>1, <2>2, <2>3 DEF R
<1> QED BY <1>6, <1>8 DEF a, b

\* strcmp finds two texts equal or puts one first.
LEMMA Strcmp ==
  ASSUME NEW x, NEW y
  PROVE  /\ strcmp(x, y) \in {-1, 0, 1}
         /\ strcmp(x, y) = 0 <=> Text(x) = Text(y)
BY DEF strcmp

\* A value other than None has one of the five kinds.
LEMMA ValueKinds ==
  ASSUME NEW x \in Values
  PROVE  /\ x.kind \in {"number", "numtext", "text", "bool", "booltext"} /\ x.v \in Nat
         /\ x.kind \in {"bool", "booltext"} => x.v \in 0 .. 1
         /\ x # None
<1>1. CASE \E k \in {"number", "numtext", "text"}, n \in Numbers : x = [kind |-> k, v |-> n]
  BY <1>1, CondParams DEF None
<1>2. CASE \E k \in {"bool", "booltext"}, n \in 0 .. 1 : x = [kind |-> k, v |-> n]
  BY <1>2 DEF None
<1> QED BY <1>1, <1>2 DEF Values

\* The window of the documentation is the window of the code, for a list of days that is not
\* empty or not there.
LEMMA TimeMet ==
  ASSUME NEW c \in Conds, c.type = "time_window", NEW a \in Answers(c.type), ~Departs(c, a)
  PROVE  Passes(c, a) <=> Met(c, a)
<1>1. c.start \in 0 .. DayLength - 1 /\ c.end \in 0 .. DayLength - 1 /\ c.listed \in BOOLEAN
      /\ c.named \in BOOLEAN /\ (c.listed \/ c.days = {})
  BY CondParams
<1>2. a \in [sod : 0 .. DayLength - 1, dow : 0 .. 6] BY DEF Answers
<1>3. a.sod \in 0 .. DayLength - 1 BY <1>2
<1>4. Passes(c, a) <=> cond_time_window(c, a) BY DEF Passes
<1>5. Met(c, a) <=> /\ c.named /\ a.sod \in Window(c)
                    /\ c.days = {} \/ a.dow \in c.days
  BY DEF Met
<1>6. ~(c.listed /\ c.days = {}) BY DEF Departs
<1>7. a.sod \in Window(c) <=> IF c.start <= c.end THEN a.sod >= c.start /\ a.sod < c.end
                              ELSE a.sod >= c.start \/ a.sod < c.end
  BY <1>1, <1>3, WindowRight
<1> QED BY <1>1, <1>4, <1>5, <1>6, <1>7 DEF cond_time_window

LEMMA PortMet ==
  ASSUME NEW c \in Conds, c.type = "io_state", NEW a \in Answers(c.type)
  PROVE  Passes(c, a) <=> Met(c, a)
<1>1. a \in {None} \cup {x \in Values : x.kind = "bool"} BY DEF Answers
<1>2. a = None \/ a = [kind |-> "bool", v |-> 0] \/ a = [kind |-> "bool", v |-> 1]
  <2>1. ASSUME a \in Values, a.kind = "bool"
        PROVE  a = [kind |-> "bool", v |-> 0] \/ a = [kind |-> "bool", v |-> 1]
    <3>1. CASE \E k \in {"bool", "booltext"}, n \in 0 .. 1 : a = [kind |-> k, v |-> n]
      BY <2>1, <3>1
    <3>2. CASE \E k \in {"number", "numtext", "text"}, n \in Numbers : a = [kind |-> k, v |-> n]
      BY <2>1, <3>2
    <3> QED BY <2>1, <3>1, <3>2 DEF Values
  <2> QED BY <1>1, <2>1
<1>3. Passes(c, a) <=> cond_io_state(c, a) BY DEF Passes
<1>4. Met(c, a) <=> c.named /\ a = [kind |-> "bool", v |-> IF c.want = "active" THEN 1 ELSE 0]
  BY DEF Met
<1> QED BY <1>2, <1>3, <1>4 DEF cond_io_state, None

LEMMA HttpMet ==
  ASSUME NEW c \in Conds, c.type = "http_check", NEW a \in Answers(c.type), ~Departs(c, a)
  PROVE  Passes(c, a) <=> Met(c, a)
<1>1. CASE a = NoReply BY <1>1 DEF Passes, Met, cond_http_check
<1>2. CASE a # NoReply
  <2>1. /\ c.status = AnyStatus => a.status = 200
        /\ a.body = None => c.expected = None /\ c.json = None
    BY <1>2 DEF Departs
  <2>2. Passes(c, a) <=> cond_http_check(c, a) BY DEF Passes
  <2>3. Met(c, a) <=> /\ c.named /\ a # NoReply
                      /\ a.status = IF c.status = AnyStatus THEN 200 ELSE c.status
                      /\ c.expected # None => a.body # None /\ Text(a.body) = Text(c.expected)
                      /\ c.json # None => a.field # None /\ Text(a.field) = Text(c.json)
    BY DEF Met
  <2>4. c.status \in {AnyStatus, a.status}
          <=> a.status = IF c.status = AnyStatus THEN 200 ELSE c.status
    BY <2>1
  <2> QED BY <1>2, <2>1, <2>2, <2>3, <2>4 DEF cond_http_check
<1> QED BY <1>1, <1>2

LEMMA VariableMeets ==
  ASSUME NEW c \in Conds, c.type = "variable_compare", NEW a \in Answers(c.type), ~Departs(c, a)
  PROVE  Passes(c, a) <=> Met(c, a)
<1>1. Passes(c, a) <=> cond_variable_compare(c, a) BY DEF Passes
<1>2. Met(c, a) <=> c.named /\ a # None /\ VariableMet(Default(c.op, "eq"), c, a) BY DEF Met
<1>3. c.op # "none" /\ c.op # "neq" BY DEF Departs
<1>4. Default(c.op, "eq") = c.op BY <1>3 DEF Default
<1>5. CASE a = None BY <1>1, <1>2, <1>5 DEF cond_variable_compare
<1>6. CASE a # None
  <2>1. a \in Values BY <1>6 DEF Answers
  <2>2. CASE c.op \in {"eq", "ne"}
    BY <1>1, <1>2, <1>4, <2>2, Strcmp DEF cond_variable_compare, VariableMet, Compare
  <2>3. CASE c.op \in {"gt", "gte", "lt", "lte"}
    <3>1. /\ IsNumber(a) /\ IsNumber(c.expected)
          /\ a.v < c.expected.v <=> strcmp(a, c.expected) < 0
      BY <1>6, <2>3 DEF Departs
    <3>2. Text(a) = Text(c.expected) <=> a.v = c.expected.v BY <3>1 DEF Text
    <3> DEFINE s == strcmp(a, c.expected)
               x == a.v
               y == c.expected.v
    <3>3. s \in {-1, 0, 1} /\ (s = 0 <=> x = y) BY <3>2, Strcmp
    <3>4. Passes(c, a) <=> c.named /\ Compare(c.op, s, 0)
      BY <1>1, <1>6 DEF cond_variable_compare
    <3>5. Met(c, a) <=> c.named /\ Compare(c.op, x, y)
      BY <1>2, <1>4, <1>6, <2>3, <3>1 DEF VariableMet
    <3>6. x < y <=> s < 0 BY <3>1
    <3>7. x \in Nat /\ y \in Nat BY <2>1, <3>1, ValueKinds, CondParams DEF IsNumber, None
    <3> HIDE DEF s, x, y
    <3>8. Compare(c.op, s, 0) <=> Compare(c.op, x, y) BY <2>3, <3>3, <3>6, <3>7 DEF Compare
    <3> QED BY <3>4, <3>5, <3>8
  <2>4. CASE c.op \notin {"eq", "ne", "gt", "gte", "lt", "lte"}
    BY <1>1, <1>2, <1>3, <1>4, <2>4 DEF cond_variable_compare, VariableMet, Compare
  <2> QED BY <2>2, <2>3, <2>4
<1> QED BY <1>5, <1>6

\* What reads as a Boolean.
LEMMA TruthsOf ==
  ASSUME NEW x, Truths(x) # {}
  PROVE  /\ Truths(x) = {x.v}
         /\ x.kind \in {"bool", "booltext"} \/ (IsNumber(x) /\ x.v \in 0 .. 1)
BY DEF Truths

LEMMA EventMeets ==
  ASSUME NEW c \in Conds, c.type = "vapix_event_state", NEW a \in Answers(c.type), ~Departs(c, a)
  PROVE  Passes(c, a) <=> Met(c, a)
<1>1. Passes(c, a) <=> cond_vapix_event_state(c, a) BY DEF Passes
<1>2. Met(c, a) <=> c.named /\ a # None /\ EventMet(Default(c.op, "eq_str"), c, a) BY DEF Met
<1>3. CASE a = None BY <1>1, <1>2, <1>3 DEF cond_vapix_event_state
<1>4. CASE a # None
  <2>1. a \in Values BY <1>4 DEF Answers
  <2>2. /\ a.kind \in {"number", "numtext", "text", "bool", "booltext"} /\ a.v \in Nat
        /\ a.kind \in {"bool", "booltext"} => a.v \in 0 .. 1
    BY <2>1, ValueKinds
  <2>3. /\ c.op # "boolean" => a.kind # "bool"
        /\ c.op = "boolean" => Truths(a) # {} /\ Truths(c.expected) # {}
    BY <1>4 DEF Departs
  <2>4. CASE c.op \in {"eq_str", "none", "contains"}
    BY <1>1, <1>2, <1>4, <2>3, <2>4 DEF cond_vapix_event_state, EventMet, Default
  <2>5. CASE c.op = "boolean"
    <3>1. /\ Truths(a) = {a.v} /\ Truths(c.expected) = {c.expected.v}
          /\ a.kind \in {"bool", "booltext"} \/ (IsNumber(a) /\ a.v \in 0 .. 1)
          /\ \/ c.expected.kind \in {"bool", "booltext"}
             \/ (IsNumber(c.expected) /\ c.expected.v \in 0 .. 1)
      BY <2>3, <2>5, TruthsOf
    <3>2. Passes(c, a) <=> /\ c.named /\ c.expected # None
                           /\ (IF a.kind = "number" THEN a.v # 0 ELSE True(a)) = True(c.expected)
      BY <1>1, <1>4, <2>5 DEF cond_vapix_event_state
    <3>3. Met(c, a) <=> c.named /\ a.v = c.expected.v
      BY <1>2, <1>4, <2>5, <3>1 DEF EventMet, Default
    <3> DEFINE e == c.expected
    <3>4. e \in {None} \cup [kind : {"numtext", "text"}, v : Nat] \cup [kind : {"booltext"}, v : 0 .. 1]
      BY CondParams
    <3>5. e # None /\ e.kind \in {"numtext", "booltext"} /\ e.v \in 0 .. 1
      BY <3>1, <3>4 DEF None, IsNumber
    <3>6. True(e) = (e.v = 1) BY <3>5 DEF True
    <3>7. a.v \in 0 .. 1 BY <2>2, <3>1
    <3>8. (IF a.kind = "number" THEN a.v # 0 ELSE True(a)) = (a.v = 1)
      BY <2>2, <3>1, <3>7 DEF True, IsNumber
    <3>9. (a.v = 1 <=> e.v = 1) <=> a.v = e.v BY <3>5, <3>7
    <3> HIDE DEF e
    <3>10. Passes(c, a) <=> c.named /\ (a.v = 1) = (e.v = 1)
      BY <3>2, <3>5, <3>6, <3>8, Zenon DEF e
    <3>11. Met(c, a) <=> c.named /\ a.v = e.v BY <3>3 DEF e
    <3> QED BY <3>9, <3>10, <3>11
  <2>6. CASE c.op \notin {"eq_str", "none", "contains", "boolean"}
    <3>1. a.kind \notin {"text", "booltext"} <=> IsNumber(a) BY <2>2, <2>3, <2>6 DEF IsNumber
    <3>2. Default(c.op, "eq_str") = c.op BY <2>6 DEF Default
    <3> QED BY <1>1, <1>2, <1>4, <2>6, <3>1, <3>2
            DEF cond_vapix_event_state, EventMet, value_passes_cond, Compare
  <2> QED BY <2>4, <2>5, <2>6
<1> QED BY <1>3, <1>4

\* What a condition makes of an answer is what the documentation says of it.
LEMMA PassesMet ==
  ASSUME NEW c \in Conds, c.type # "unknown", NEW a \in Answers(c.type), ~Departs(c, a)
  PROVE  Passes(c, a) <=> Met(c, a)
<1>1. c.type \in CondTypes BY CondParams
<1>2. CASE c.type = "time_window" BY <1>2, TimeMet
<1>3. CASE c.type = "day_night"
  <2>1. a \in -1 .. 1 BY <1>3 DEF Answers
  <2>2. c.want # "none" BY <1>3 DEF Departs
  <2> QED BY <1>3, <2>1, <2>2 DEF Passes, Met, cond_day_night
<1>4. CASE c.type = "io_state" BY <1>4, PortMet
<1>5. CASE c.type = "http_check" BY <1>5, HttpMet
<1>6. CASE c.type = "counter"
  <2>1. c.named BY <1>6 DEF Departs
  <2> QED BY <1>6, <2>1 DEF Passes, Met, cond_counter, None
<1>7. CASE c.type = "variable_compare" BY <1>7, VariableMeets
<1>8. CASE c.type = "aoa_occupancy"
  <2>1. a \in {None} \cup {x \in Values : x.kind = "number"} BY <1>8 DEF Answers
  <2>2. a = None \/ (a # None /\ a.kind = "number") BY <2>1, ValueKinds
  <2> QED BY <1>8, <2>2 DEF Passes, Met, cond_aoa_occupancy, None, Compare
<1>9. CASE c.type = "trigger_data"
  <2>1. c.op # "none" BY <1>9 DEF Departs
  <2> QED BY <1>9, <2>1 DEF Passes, Met, cond_trigger_data, trigger_data_compare, DataMet, Default
<1>10. CASE c.type = "vapix_event_state" BY <1>10, EventMeets
<1> QED BY <1>1, <1>2, <1>3, <1>4, <1>5, <1>6, <1>7, <1>8, <1>9, <1>10 DEF CondTypes

(***************************************************************************)
(* Conditions: the walk.                                                   *)
(***************************************************************************)

Answer == {None} \cup UNION {Answers(t) : t \in CondTypes}
Walk   == [list : CondLists, logic : {"AND", "OR"}, skip : BOOLEAN, i : Nat, done : BOOLEAN,
           result : BOOLEAN, answers : Seq(Answer)]

\* Whether the walk w took condition k for passed.
Took(w, k) == (w.skip /\ w.list[k].type \in Expensive) \/ Passes(w.list[k], w.answers[k])
Asked(w)   == {k \in 1 .. Len(w.answers) : k \in Known(w.list)}

\* An answer for each condition the walk has passed, and while it goes on none has decided.
WalkRight ==
  /\ eval \in Walk
  /\ eval.i = Len(eval.answers) + 1 /\ eval.i <= Len(eval.list) + 1
  /\ \A k \in Asked(eval) : eval.answers[k] \in Answers(eval.list[k].type)
  /\ ~eval.done => \A k \in Asked(eval) : Took(eval, k) <=> eval.logic = "AND"
  /\ eval.done =>
       IF eval.logic = "AND"
       THEN eval.result <=> Asked(eval) = Known(eval.list) /\ \A k \in Asked(eval) : Took(eval, k)
       ELSE /\ eval.result => eval.list = <<>> \/ \E k \in Asked(eval) : Took(eval, k)
            /\ ~eval.result => /\ Asked(eval) = Known(eval.list)
                               /\ \A k \in Asked(eval) : ~Took(eval, k)

\* A list is a sequence of conditions.
LEMMA ListFacts ==
  ASSUME NEW l \in CondLists
  PROVE  /\ l \in Seq(Conds) /\ Len(l) \in Nat /\ \A k \in 1 .. Len(l) : l[k] \in Conds
         /\ Known(l) = {k \in 1 .. Len(l) : l[k].type # "unknown"}
<1>1. l \in Seq(Conds) BY CondParams
<1> QED BY <1>1 DEF Known

\* An answer more: what was taken before stays, and the last condition is asked if it is known.
LEMMA OneMore ==
  ASSUME WalkRight, ~eval.done, eval.i <= Len(eval.list), NEW a \in Answer,
         eval'.list = eval.list, eval'.skip = eval.skip,
         eval'.answers = Append(eval.answers, a)
  PROVE  /\ eval'.answers \in Seq(Answer) /\ Len(eval'.answers) = eval.i
         /\ eval'.answers[eval.i] = a
         /\ eval.i \notin Asked(eval)
         /\ Asked(eval') = IF eval.list[eval.i].type # "unknown" THEN Asked(eval) \cup {eval.i}
                           ELSE Asked(eval)
         /\ \A k \in Asked(eval) : /\ eval'.answers[k] = eval.answers[k]
                                   /\ Took(eval', k) <=> Took(eval, k)
<1>1. eval.answers \in Seq(Answer) /\ eval.i = Len(eval.answers) + 1 /\ eval.i \in Nat
  BY DEF WalkRight, Walk
<1>2. eval.list \in CondLists BY DEF WalkRight, Walk
<1>3. /\ Append(eval.answers, a) \in Seq(Answer) /\ Len(Append(eval.answers, a)) = eval.i
      /\ Append(eval.answers, a)[eval.i] = a
      /\ \A k \in 1 .. Len(eval.answers) : Append(eval.answers, a)[k] = eval.answers[k]
  BY <1>1
<1>4. Asked(eval) = {k \in 1 .. eval.i - 1 : k \in Known(eval.list)} BY <1>1 DEF Asked
<1>5. Asked(eval') = {k \in 1 .. eval.i : k \in Known(eval.list)} BY <1>3 DEF Asked
<1>6. eval.i \in 1 .. Len(eval.list) BY <1>1, <1>2, ListFacts
<1>7. eval.i \in Known(eval.list) <=> eval.list[eval.i].type # "unknown"
  BY <1>2, <1>6, ListFacts
<1>8. \A k \in Asked(eval) : k \in 1 .. Len(eval.answers) BY DEF Asked
<1>9. \A k \in Asked(eval) : eval'.answers[k] = eval.answers[k] BY <1>3, <1>8
<1>10. \A k \in Asked(eval) : Took(eval', k) <=> Took(eval, k) BY <1>9 DEF Took
<1>11. \A k \in 1 .. eval.i : k \in 1 .. eval.i - 1 \/ k = eval.i BY <1>1
<1>12. \A k \in 1 .. eval.i - 1 : k \in 1 .. eval.i /\ k # eval.i BY <1>1
<1>13. eval.i \in 1 .. eval.i BY <1>1
<1> QED BY <1>3, <1>4, <1>5, <1>7, <1>9, <1>10, <1>11, <1>12, <1>13

\* The walk w a condition further, with the answers s.
Further(w, s, d, r) == [w EXCEPT !.answers = s, !.i = w.i + 1, !.done = d, !.result = r]
LEMMA FurtherFields ==
  ASSUME NEW w \in Walk, NEW s \in Seq(Answer), NEW d \in BOOLEAN, NEW r \in BOOLEAN
  PROVE  /\ Further(w, s, d, r).list = w.list /\ Further(w, s, d, r).logic = w.logic
         /\ Further(w, s, d, r).skip = w.skip /\ Further(w, s, d, r).answers = s
         /\ Further(w, s, d, r).i = w.i + 1 /\ Further(w, s, d, r).done = d
         /\ Further(w, s, d, r).result = r /\ Further(w, s, d, r) \in Walk
<1>1. w.i \in Nat /\ w.i + 1 \in Nat BY DEF Walk
<1> DEFINE n == w.i + 1
<1>2. n \in Nat /\ n = w.i + 1 BY <1>1
<1>3. Further(w, s, d, r) = [w EXCEPT !.answers = s, !.i = n, !.done = d, !.result = r]
  BY DEF Further
<1> HIDE DEF n
<1>4. /\ Further(w, s, d, r).list = w.list /\ Further(w, s, d, r).logic = w.logic
      /\ Further(w, s, d, r).skip = w.skip /\ Further(w, s, d, r).answers = s
  BY <1>3 DEF Walk
<1>5. /\ Further(w, s, d, r).i = n /\ Further(w, s, d, r).done = d
      /\ Further(w, s, d, r).result = r
  BY <1>3 DEF Walk
<1>6. Further(w, s, d, r) \in Walk
  BY <1>2, <1>3 DEF Walk
<1> QED BY <1>2, <1>4, <1>5, <1>6

LEMMA WalkKept ==
  ASSUME WalkRight, [CondNext]_eval
  PROVE  WalkRight'
<1>1. /\ eval \in Walk /\ eval.list \in CondLists /\ eval.i \in Nat
      /\ eval.answers \in Seq(Answer) /\ eval.i = Len(eval.answers) + 1
      /\ eval.i <= Len(eval.list) + 1 /\ Len(eval.list) \in Nat
      /\ eval.logic \in {"AND", "OR"} /\ eval.skip \in BOOLEAN
      /\ eval.done \in BOOLEAN /\ eval.result \in BOOLEAN
  BY ListFacts DEF WalkRight, Walk
<1>2. CASE EvalEnds
  <2>1. /\ ~eval.done /\ eval.i > Len(eval.list)
        /\ eval' = [eval EXCEPT !.done = TRUE, !.result = eval.list = <<>> \/ eval.logic = "AND"]
    BY <1>2 DEF EvalEnds
  <2>2. /\ eval'.list = eval.list /\ eval'.logic = eval.logic /\ eval'.skip = eval.skip
        /\ eval'.answers = eval.answers /\ eval'.i = eval.i /\ eval'.done = TRUE
        /\ eval'.result = (eval.list = <<>> \/ eval.logic = "AND") /\ eval' \in Walk
    BY <1>1, <2>1 DEF Walk
  <2>3. Asked(eval') = Asked(eval) /\ \A k : Took(eval', k) <=> Took(eval, k)
    BY <2>2 DEF Asked, Took
  <2>4. Asked(eval) = Known(eval.list)
    <3>1. Len(eval.answers) = Len(eval.list) BY <1>1, <2>1
    <3> QED BY <3>1 DEF Asked, Known
  <2>5. \A k \in Asked(eval) : Took(eval, k) <=> eval.logic = "AND"
    BY <2>1 DEF WalkRight
  <2>6. /\ eval'.i = Len(eval'.answers) + 1 /\ eval'.i <= Len(eval'.list) + 1
        /\ \A k \in Asked(eval') : eval'.answers[k] \in Answers(eval'.list[k].type)
    BY <1>1, <2>2, <2>3 DEF WalkRight
  <2>7. CASE eval.logic = "AND" BY <2>2, <2>3, <2>4, <2>5, <2>6, <2>7 DEF WalkRight
  <2>8. CASE eval.logic = "OR" BY <2>2, <2>3, <2>4, <2>5, <2>6, <2>8 DEF WalkRight
  <2> QED BY <1>1, <2>7, <2>8
<1>3. CASE EvalSkips
  <2>1. /\ ~eval.done /\ eval.i <= Len(eval.list) /\ eval.list[eval.i].type = "unknown"
        /\ eval' = [eval EXCEPT !.i = @ + 1, !.answers = Append(@, None)]
    BY <1>3 DEF EvalSkips
  <2> DEFINE s == Append(eval.answers, None)
  <2>2. None \in Answer BY DEF Answer
  <2>3. Append(eval.answers, None) \in Seq(Answer) BY <1>1, <2>2
  <2>4. /\ eval'.list = eval.list /\ eval'.logic = eval.logic /\ eval'.skip = eval.skip
        /\ eval'.answers = Append(eval.answers, None) /\ eval'.i = eval.i + 1
        /\ eval'.done = eval.done /\ eval' \in Walk
    <3>1. eval' = Further(eval, s, eval.done, eval.result)
      <4>1. /\ eval' = [eval EXCEPT !.i = eval.i + 1, !.answers = s] BY <2>1
      <4> HIDE DEF s
      <4> QED BY <1>1, <4>1 DEF Further, Walk
    <3>2. s \in Seq(Answer) BY <2>3
    <3>3. s = Append(eval.answers, None) OBVIOUS
    <3> HIDE DEF s
    <3> DEFINE d == eval.done
               r == eval.result
    <3>5. d \in BOOLEAN /\ r \in BOOLEAN BY <1>1, Zenon
    <3>6. eval' = Further(eval, s, d, r) BY <3>1, Zenon
    <3>7. d = eval.done /\ eval \in Walk BY <1>1, Zenon
    <3> HIDE DEF d, r
    <3>8. /\ eval'.list = eval.list /\ eval'.logic = eval.logic /\ eval'.skip = eval.skip
          /\ eval'.answers = s /\ eval'.i = eval.i + 1
          /\ eval'.done = d /\ eval' \in Walk
      BY <3>2, <3>5, <3>6, <3>7, FurtherFields
    <3>4. /\ eval'.list = eval.list /\ eval'.logic = eval.logic /\ eval'.skip = eval.skip
          /\ eval'.answers = s /\ eval'.i = eval.i + 1
          /\ eval'.done = eval.done /\ eval' \in Walk
      BY <3>7, <3>8, Zenon
    <3> QED BY <3>3, <3>4, Zenon
  <2>5. /\ Len(eval'.answers) = eval.i /\ Asked(eval') = Asked(eval)
        /\ \A k \in Asked(eval) : /\ eval'.answers[k] = eval.answers[k]
                                  /\ Took(eval', k) <=> Took(eval, k)
    BY <2>1, <2>2, <2>4, OneMore
  <2>6. eval'.i <= Len(eval'.list) + 1 BY <1>1, <2>1, <2>4
  <2> QED BY <2>1, <2>4, <2>5, <2>6 DEF WalkRight
<1>4. ASSUME NEW a \in Answers(eval.list[eval.i].type), EvalCondition, EvalStep(a)
      PROVE  WalkRight'
  <2> DEFINE pass == Took(eval', eval.i)
  <2>1. ~eval.done /\ eval.i <= Len(eval.list) /\ eval.list[eval.i].type # "unknown"
    BY <1>4 DEF EvalCondition
  <2>2. eval.list[eval.i] \in Conds BY <1>1, <2>1, ListFacts
  <2>3. a \in Answer
    <3>1. eval.list[eval.i].type \in CondTypes BY <2>2, CondParams
    <3> QED BY <3>1 DEF Answer
  <2>4. Append(eval.answers, a) \in Seq(Answer) BY <1>1, <2>3
  <2> DEFINE p == (eval.skip /\ eval.list[eval.i].type \in Expensive)
                    \/ Passes(eval.list[eval.i], a)
  <2>5. eval' = [eval EXCEPT !.answers = Append(@, a), !.i = @ + 1,
                             !.done = p = (eval.logic = "OR"),
                             !.result = p /\ eval.logic = "OR"]
    BY <1>4 DEF EvalStep
  <2>6. p \in BOOLEAN OBVIOUS
  <2> HIDE DEF p
  <2>7. /\ eval'.list = eval.list /\ eval'.logic = eval.logic /\ eval'.skip = eval.skip
        /\ eval'.answers = Append(eval.answers, a) /\ eval'.i = eval.i + 1
        /\ eval'.done = (p = (eval.logic = "OR")) /\ eval'.result = (p /\ eval.logic = "OR")
        /\ eval' \in Walk
    <3> DEFINE s == Append(eval.answers, a)
               d == p = (eval.logic = "OR")
               r == p /\ eval.logic = "OR"
    <3>1. eval' = Further(eval, s, d, r) BY <2>5, Zenon DEF Further
    <3>2. s \in Seq(Answer) /\ d \in BOOLEAN /\ r \in BOOLEAN BY <2>4
    <3>3. s = Append(eval.answers, a) OBVIOUS
    <3>4. d = (p = (eval.logic = "OR")) /\ r = (p /\ eval.logic = "OR") BY Zenon
    <3>5. eval \in Walk BY <1>1
    <3> HIDE DEF s, d, r
    <3>6. /\ eval'.list = eval.list /\ eval'.logic = eval.logic /\ eval'.skip = eval.skip
          /\ eval'.answers = s /\ eval'.i = eval.i + 1
          /\ eval'.done = d /\ eval'.result = r /\ eval' \in Walk
      BY <3>1, <3>2, <3>5, FurtherFields
    <3> QED BY <3>3, <3>4, <3>6, Zenon
  <2>8. /\ Len(eval'.answers) = eval.i /\ eval'.answers[eval.i] = a /\ eval.i \notin Asked(eval)
        /\ Asked(eval') = Asked(eval) \cup {eval.i}
        /\ \A k \in Asked(eval) : /\ eval'.answers[k] = eval.answers[k]
                                  /\ Took(eval', k) <=> Took(eval, k)
    BY <2>1, <2>3, <2>7, OneMore
  <2>9. Took(eval', eval.i) <=> p BY <2>7, <2>8 DEF Took, p
  <2>10. eval'.i <= Len(eval'.list) + 1 /\ eval'.i = Len(eval'.answers) + 1
    BY <1>1, <2>1, <2>7, <2>8
  <2>11. \A k \in Asked(eval') : eval'.answers[k] \in Answers(eval'.list[k].type)
    BY <2>7, <2>8 DEF WalkRight
  <2>12. \A k \in Asked(eval) : Took(eval, k) <=> eval.logic = "AND"
    BY <2>1 DEF WalkRight
  <2>13. CASE p = (eval.logic = "OR")
    <3>1. CASE eval.logic = "OR"
      BY <2>6, <2>7, <2>8, <2>9, <2>10, <2>11, <2>13, <3>1 DEF WalkRight
    <3>2. CASE eval.logic = "AND"
      BY <2>6, <2>7, <2>8, <2>9, <2>10, <2>11, <2>13, <3>2 DEF WalkRight
    <3> QED BY <1>1, <3>1, <3>2
  <2>14. CASE p # (eval.logic = "OR")
    <3>1. ~eval'.done BY <2>7, <2>14
    <3>2. p <=> eval.logic = "AND" BY <1>1, <2>6, <2>14
    <3>3. \A k \in Asked(eval') : Took(eval', k) <=> eval'.logic = "AND"
      BY <2>7, <2>8, <2>9, <2>12, <3>2
    <3> QED BY <2>7, <2>10, <2>11, <3>1, <3>3 DEF WalkRight
  <2> QED BY <2>13, <2>14
<1>5. CASE eval' = eval BY <1>5 DEF WalkRight
<1> QED BY <1>2, <1>3, <1>4, <1>5 DEF CondNext, EvalCondition

\* A list passes exactly if its conditions are met by the answers they got, whatever comes
\* back from devices and servers and however early the walk ends (conditions_evaluate_internal).
THEOREM EvaluationRight == CondSpec => []EvaluatedRight
<1>1. CondInit => WalkRight
  <2> SUFFICES ASSUME CondInit PROVE WalkRight OBVIOUS
  <2>1. PICK list \in CondLists, logic \in {"AND", "OR"}, skip \in BOOLEAN :
          eval = [list |-> list, logic |-> logic, skip |-> skip, i |-> 1, done |-> FALSE,
                  result |-> FALSE, answers |-> <<>>]
    BY DEF CondInit
  <2>2. <<>> \in Seq(Answer) /\ Len(<<>>) = 0 OBVIOUS
  <2>3. eval \in Walk BY <2>1, <2>2 DEF Walk
  <2>4. eval.answers = <<>> /\ eval.i = 1 /\ eval.list = list /\ ~eval.done BY <2>1
  <2>5. Asked(eval) = {} BY <2>2, <2>4 DEF Asked
  <2>6. 1 <= Len(eval.list) + 1 BY <2>4, ListFacts
  <2> QED BY <2>2, <2>3, <2>4, <2>5, <2>6 DEF WalkRight
<1>2. WalkRight /\ [CondNext]_eval => WalkRight' BY WalkKept
<1>3. WalkRight => EvaluatedRight
  <2> SUFFICES ASSUME WalkRight, eval.done,
                      \A i \in Counted : ~Departs(eval.list[i], eval.answers[i])
               PROVE  IF eval.logic = "AND"
                      THEN eval.result = (Counted = Known(eval.list) /\ \A i \in Counted : Fine(i))
                      ELSE /\ eval.result => eval.list = <<>> \/ \E i \in Counted : Fine(i)
                           /\ ~eval.result => /\ Counted = Known(eval.list)
                                              /\ \A i \in Counted : ~Fine(i)
    BY DEF EvaluatedRight
  <2>1. eval.list \in CondLists /\ eval.result \in BOOLEAN BY DEF WalkRight, Walk
  <2>2. Counted = Asked(eval) BY DEF Counted, Asked
  <2>3. ASSUME NEW k \in Counted PROVE Fine(k) <=> Took(eval, k)
    <3>1. k \in Known(eval.list) BY DEF Counted
    <3>2. eval.list[k] \in Conds /\ eval.list[k].type # "unknown" BY <2>1, <3>1, ListFacts
    <3>3. eval.answers[k] \in Answers(eval.list[k].type) BY <2>2 DEF WalkRight
    <3>4. Passes(eval.list[k], eval.answers[k]) <=> Met(eval.list[k], eval.answers[k])
      BY <3>2, <3>3, PassesMet
    <3> QED BY <3>4 DEF Fine, Took
  <2> QED BY <2>1, <2>2, <2>3 DEF WalkRight
<1> QED BY <1>1, <1>2, <1>3, PTL DEF CondSpec

(***************************************************************************)
(* The scheduler.                                                          *)
(***************************************************************************)

ScheduleEntry == [cron_last_min : Never .. Minutes - 1, last_run : Nat, fired_today : BOOLEAN,
                  prev_sod : Never .. DayLen - 1, astro_sod : Int, astro_yday : Int,
                  seen : Int, moved : BOOLEAN]
Fired == [on : SUBSET Nat, last : Int]

\* An entry e that has fired as f says, at time n.  The minute a cron entry remembers is that
\* of its last firing, and the time an interval remembers is that of its last firing; the
\* latch of a daily entry says whether it has fired on the day of n.
Remembers(c, e, f, n) ==
  /\ c.type = "cron" =>
       /\ e.cron_last_min # Never => f.last # Never /\ minute(f.last) = e.cron_last_min
       /\ ~e.moved => \A o \in f.on : o * Secs <= n
  /\ c.type = "interval" =>
       /\ f.last # Never => e.last_run = f.last /\ f.last # 0
       /\ ~e.moved => \A o \in f.on : o <= n
  /\ c.type \in {"daily_time", "astronomical"} =>
       /\ IF e.seen = Never THEN f.on = {} /\ ~e.fired_today /\ e.prev_sod = Never
          ELSE e.prev_sod = sod(n)
       /\ ~e.moved => /\ \A o \in f.on : o <= day(n)
                      /\ e.fired_today <=> day(n) \in f.on
  /\ c.type = "astronomical" =>
       (e.astro_yday # Never => e.astro_sod = astro_sod(c, e.astro_yday))

ScheduleTypes ==
  /\ now \in 1 .. MaxTime /\ Registered \subseteq Schedules
  /\ entries \in [Registered -> ScheduleEntry] /\ fires \in [Schedules -> Fired]
  /\ \A c \in Schedules \ Registered : fires[c] = Unfired

ScheduleRight ==
  /\ ScheduleTypes
  /\ \A c \in Registered : Remembers(c, entries[c], fires[c], now)
  /\ doubled = {} /\ ServedUnlessSameMinute

\* Division, as the clock is divided into days, and days into minutes.
LEMMA DivMod ==
  ASSUME NEW m \in Nat \ {0}, NEW t \in Nat
  PROVE  t \div m \in Nat /\ t % m \in 0 .. m - 1 /\ t = m * (t \div m) + (t % m)
<1> DEFINE q == t \div m
           r == t % m
           p == m * q
<1>1. q \in Int /\ r \in 0 .. m - 1 /\ r = t - m * q OBVIOUS
<1> HIDE DEF q, r
<1>2. p \in Int /\ r = t - p BY <1>1
<1>3. ~(q < 0)
  <2> SUFFICES ASSUME q < 0 PROVE FALSE OBVIOUS
  <2>1. PICK k \in Nat : q = -1 - k BY <1>1
  <2>2. p = -m - m * k /\ m * k \in Nat BY <2>1
  <2> HIDE DEF p
  <2> QED BY <1>1, <1>2, <2>2
<1>4. t = p + r
  <2> HIDE DEF p
  <2> QED BY <1>1, <1>2
<1>5. t = m * q + r BY <1>4
<1>6. q \in Nat BY <1>1, <1>3
<1>7. t \div m \in Nat BY <1>6, Zenon DEF q
<1>8. t % m \in 0 .. m - 1 BY <1>1, Zenon DEF r
<1>9. t = m * (t \div m) + (t % m) BY <1>5, Zenon DEF q, r
<1> QED BY <1>7, <1>8, <1>9

LEMMA NextTick ==
  ASSUME NEW m \in Nat \ {0}, NEW n \in Nat, NEW t \in Nat, n < t, t < n + m
  PROVE  \/ t \div m = n \div m /\ t % m > n % m
         \/ t \div m = n \div m + 1 /\ t % m < n % m
<1> DEFINE q == n \div m
           r == n % m
           v == t \div m
           w == t % m
<1>1. q \in Nat /\ v \in Nat /\ r \in 0 .. m - 1 /\ w \in 0 .. m - 1 /\ n = m * q + r /\ t = m * v + w
  BY DivMod
<1> HIDE DEF q, r, v, w
<1>2. ~(v < q)
  <2> SUFFICES ASSUME v < q PROVE FALSE OBVIOUS
  <2>1. PICK k \in Nat : q = v + 1 + k BY <1>1
  <2>2. m * q = m * v + m + m * k BY <1>1, <2>1
  <2>3. m * k \in Nat /\ m * v \in Nat BY <1>1
  <2> QED BY <1>1, <2>2, <2>3
<1>3. ~(v > q + 1)
  <2> SUFFICES ASSUME v > q + 1 PROVE FALSE OBVIOUS
  <2>1. PICK k \in Nat : v = q + 2 + k BY <1>1
  <2>2. m * v = m * q + 2 * m + m * k BY <1>1, <2>1
  <2>3. m * k \in Nat /\ m * q \in Nat BY <1>1
  <2> QED BY <1>1, <2>2, <2>3
<1>4. v = q \/ v = q + 1 BY <1>1, <1>2, <1>3
<1>5. CASE v = q BY <1>1, <1>5 DEF q, r, v, w
<1>6. CASE v = q + 1
  <2>1. m * v = m * q + m BY <1>1, <1>6
  <2>2. m * q \in Nat BY <1>1
  <2>3. w < r BY <1>1, <2>1, <2>2
  <2> QED BY <1>6, <2>3 DEF q, r, v, w
<1> QED BY <1>4, <1>5, <1>6

LEMMA MinuteStarts ==
  ASSUME NEW t \in Nat, sod(t) % Secs = 0
  PROVE  t = (t \div Secs) * Secs
<1>1. Secs \in Nat \ {0} /\ Minutes \in Nat \ {0} BY SchedulerParams
<1>2. DayLen \in Nat \ {0} BY <1>1 DEF DayLen
<1> DEFINE q == t \div DayLen
           r == t % DayLen
           k == r \div Secs
           h == t \div Secs
           g == t % Secs
           p == Minutes * q + k
<1>3. q \in Nat /\ r \in Nat /\ t = DayLen * q + r
  <2>1. q \in Nat /\ r \in 0 .. DayLen - 1 /\ t = DayLen * q + r BY <1>2, DivMod, Zenon
  <2> HIDE DEF q, r
  <2>2. r \in Nat BY <1>2, <2>1
  <2> QED BY <2>1, <2>2
<1>4. k \in Nat /\ r = Secs * k
  <2>1. r % Secs = 0 BY DEF sod
  <2> HIDE DEF r
  <2>2. k \in Nat /\ r = Secs * k + (r % Secs) BY <1>1, <1>3, DivMod
  <2> HIDE DEF k
  <2> DEFINE z == Secs * k
             w == r % Secs
  <2>3. z \in Nat BY <1>1, <2>2
  <2>4. r = z + w /\ w = 0 BY <2>1, <2>2, Zenon
  <2> HIDE DEF z, w
  <2>5. r = z BY <2>3, <2>4
  <2> QED BY <2>2, <2>5 DEF z
<1>5. h \in Nat /\ g \in 0 .. Secs - 1 /\ t = Secs * h + g BY <1>1, DivMod
<1> HIDE DEF q, r, k, h, g
<1>6. p \in Nat BY <1>1, <1>3, <1>4
<1>7. t = Secs * p
  <2>1. DayLen * q = Secs * (Minutes * q) BY <1>1, <1>3 DEF DayLen
  <2>2. Secs * p = Secs * (Minutes * q) + Secs * k BY <1>1, <1>3, <1>4
  <2> DEFINE x == Minutes * q
             y == Secs * x
             z == Secs * k
  <2>3. x \in Nat /\ y \in Nat /\ z \in Nat BY <1>1, <1>3, <1>4
  <2>4. DayLen * q = y /\ Secs * p = y + z /\ r = z BY <1>4, <2>1, <2>2
  <2> HIDE DEF x, y, z, p
  <2> QED BY <1>3, <2>3, <2>4
<1> HIDE DEF p
<1>8. ~(p > h)
  <2> SUFFICES ASSUME p > h PROVE FALSE OBVIOUS
  <2>1. PICK j \in Nat : p = h + 1 + j BY <1>5, <1>6
  <2>2. Secs * p = Secs * h + Secs + Secs * j BY <1>1, <1>5, <2>1
  <2>3. Secs * j \in Nat /\ Secs * h \in Nat BY <1>1, <1>5
  <2> QED BY <1>1, <1>5, <1>7, <2>2, <2>3
<1>9. ~(p < h)
  <2> SUFFICES ASSUME p < h PROVE FALSE OBVIOUS
  <2>1. PICK j \in Nat : h = p + 1 + j BY <1>5, <1>6
  <2>2. Secs * h = Secs * p + Secs + Secs * j BY <1>1, <1>6, <2>1
  <2>3. Secs * j \in Nat /\ Secs * p \in Nat BY <1>1, <1>6
  <2> QED BY <1>1, <1>5, <1>7, <2>2, <2>3
<1>10. t = h * Secs BY <1>1, <1>5, <1>6, <1>7, <1>8, <1>9
<1> QED BY <1>10 DEF h

LEMMA ClockFacts ==
  ASSUME NEW t \in Nat
  PROVE  /\ DayLen \in Nat \ {0} /\ Secs \in Nat \ {0} /\ Minutes \in Nat \ {0}
         /\ sod(t) \in 0 .. DayLen - 1 /\ day(t) \in Nat /\ minute(t) \in 0 .. Minutes - 1
         /\ t \div Secs \in Nat
<1>1. Secs \in Nat \ {0} /\ Minutes \in Nat \ {0} BY SchedulerParams
<1>2. DayLen \in Nat \ {0} BY <1>1 DEF DayLen
<1>3. sod(t) \in 0 .. DayLen - 1 /\ day(t) \in Nat BY <1>2, DivMod DEF sod, day
<1>4. t \div Secs \in Nat BY <1>1, DivMod
<1>5. minute(t) \in 0 .. Minutes - 1
  <2> DEFINE r == sod(t)
             k == r \div Secs
             g == r % Secs
  <2>1. r \in 0 .. DayLen - 1 BY <1>3
  <2> HIDE DEF r
  <2>6. r \in Nat BY <1>2, <2>1
  <2>2. k \in Nat /\ g \in 0 .. Secs - 1 /\ r = Secs * k + g BY <1>1, <2>6, DivMod, Zenon
  <2> HIDE DEF k, g
  <2>3. g \in Nat BY <1>1, <2>2
  <2>4. ~(k >= Minutes)
    <3> SUFFICES ASSUME k >= Minutes PROVE FALSE OBVIOUS
    <3>1. PICK j \in Nat : k = Minutes + j BY <1>1, <2>2
    <3>2. Secs * k = DayLen + Secs * j BY <1>1, <3>1 DEF DayLen
    <3>3. Secs * j \in Nat BY <1>1
    <3> QED BY <1>2, <2>1, <2>2, <2>3, <3>2, <3>3
  <2>5. k \in 0 .. Minutes - 1 BY <1>1, <2>2, <2>4
  <2> QED BY <2>5 DEF minute, k, r
<1> QED BY <1>1, <1>2, <1>3, <1>4, <1>5

\* An entry at a tick at time t; m says whether the clock has been set back since it was
\* registered.
Stamped(e, t, m)       == [e EXCEPT !.seen = t, !.moved = m]
NextEntry(c, e, t, m)  == Stamped(Due(c, e, t).entry, t, m)
Occasions(c, f, t)     == f.on \cup {Occasion(c, t)}
Hit(c, f, t)           == [on |-> Occasions(c, f, t), last |-> t]
NextFired(c, e, f, t)  == IF Due(c, e, t).fire THEN Hit(c, f, t) ELSE f
CronAt(c, t) ==
  c.type = "cron" /\ sod(t) % Secs = 0 /\ minute(t) \in c.minutes /\ dow(t) \in c.days
InWindow(at, t) == sod(t) >= at /\ sod(t) < at + Secs
DayAt(c, t) ==
  \/ c.type = "daily_time" /\ dow(t) \in c.days /\ InWindow(c.at, t)
  \/ /\ c.type = "astronomical" /\ Solar[c.event][day(t)] >= 0
     /\ InWindow((Solar[c.event][day(t)] + c.offset) % DayLen, t)
ServedAt(c, f, t, m) ==
  /\ CronAt(c, t) => Occasion(c, t) \in f.on \/ (f.last # Never /\ minute(f.last) = minute(t))
  /\ DayAt(c, t) /\ ~m => Occasion(c, t) \in f.on
Early(c, f, t) == c.type = "interval" /\ f.last # Never /\ t - f.last < c.seconds
TickRight(c, e, f, t, m) ==
  /\ NextEntry(c, e, t, m) \in ScheduleEntry /\ NextFired(c, e, f, t) \in Fired
  /\ Remembers(c, NextEntry(c, e, t, m), NextFired(c, e, f, t), t)
  /\ ServedAt(c, NextFired(c, e, f, t), t, m)
  /\ Due(c, e, t).fire /\ ~m => Occasion(c, t) \notin f.on /\ ~Early(c, f, t)

LEMMA StampedFields ==
  ASSUME NEW e \in ScheduleEntry, NEW t \in Int, NEW m \in BOOLEAN
  PROVE  /\ Stamped(e, t, m) \in ScheduleEntry
         /\ Stamped(e, t, m).seen = t /\ Stamped(e, t, m).moved = m
         /\ Stamped(e, t, m).cron_last_min = e.cron_last_min
         /\ Stamped(e, t, m).last_run = e.last_run
         /\ Stamped(e, t, m).fired_today = e.fired_today
         /\ Stamped(e, t, m).prev_sod = e.prev_sod
         /\ Stamped(e, t, m).astro_sod = e.astro_sod
         /\ Stamped(e, t, m).astro_yday = e.astro_yday
BY DEF Stamped, ScheduleEntry

LEMMA HitFields ==
  ASSUME NEW c \in Schedules, NEW f \in Fired, NEW t \in Nat
  PROVE  /\ Occasion(c, t) \in Nat /\ Hit(c, f, t) \in Fired /\ Hit(c, f, t).last = t
         /\ Hit(c, f, t).on = Occasions(c, f, t)
<1>1. Occasion(c, t) \in Nat
  <2>1. t \div Secs \in Nat /\ day(t) \in Nat BY ClockFacts
  <2> QED BY <2>1 DEF Occasion
<1> QED BY <1>1 DEF Hit, Fired, Occasions

LEMMA CronTick ==
  ASSUME NEW c \in Schedules, c.type = "cron", NEW e \in ScheduleEntry, NEW f \in Fired,
         NEW n \in 1 .. MaxTime, NEW t \in 1 .. MaxTime, NEW m \in BOOLEAN,
         Remembers(c, e, f, n), ~m => ~e.moved /\ n < t /\ t < n + DayLen
  PROVE  TickRight(c, e, f, t, m)
<1> DEFINE E == NextEntry(c, e, t, m)
           F == NextFired(c, e, f, t)
           x == t \div Secs
           min == minute(t)
           fires_now == sod(t) % Secs = 0 /\ min # e.cron_last_min /\ min \in c.minutes /\ dow(t) \in c.days
<1>1. t \in Nat /\ n \in Nat /\ t # 0 BY SchedulerParams
<1>2. Secs \in Nat \ {0} /\ min \in 0 .. Minutes - 1 /\ x \in Nat /\ Minutes \in Nat
  BY <1>1, ClockFacts
<1>3. e.cron_last_min \in Never .. Minutes - 1 /\ min # Never BY <1>2 DEF ScheduleEntry, Never
<1>4. Occasion(c, t) = x BY DEF Occasion
<1>5. Due(c, e, t) = Cron(c, e, t) BY DEF Due
<1>6. /\ e.cron_last_min # Never => f.last # Never /\ minute(f.last) = e.cron_last_min
      /\ ~e.moved => \A o \in f.on : o * Secs <= n
  BY DEF Remembers
<1>7. CASE fires_now
  <2>1. Due(c, e, t) = Fires([e EXCEPT !.cron_last_min = min]) BY <1>5, <1>7 DEF Cron
  <2>2. /\ [e EXCEPT !.cron_last_min = min] \in ScheduleEntry
        /\ [e EXCEPT !.cron_last_min = min].cron_last_min = min
    <3>1. min \in Never .. Minutes - 1 BY <1>2 DEF Never
    <3> HIDE DEF min
    <3> QED BY <3>1 DEF ScheduleEntry
  <2>3. Due(c, e, t).fire /\ Due(c, e, t).entry = [e EXCEPT !.cron_last_min = min]
    BY <2>1 DEF Fires
  <2>4. E \in ScheduleEntry /\ E.cron_last_min = min /\ E.moved = m
    <3> DEFINE g == Due(c, e, t).entry
    <3>1. g \in ScheduleEntry /\ g.cron_last_min = min BY <2>2, <2>3
    <3>2. E = Stamped(g, t, m) /\ t \in Int BY <1>1 DEF NextEntry
    <3> HIDE DEF g, E, min
    <3> QED BY <3>1, <3>2, StampedFields
  <2>5. F = Hit(c, f, t) BY <2>3 DEF NextFired
  <2>6. F \in Fired /\ F.last = t /\ F.on = f.on \cup {x}
    <3> HIDE DEF F, x
    <3>1. /\ Hit(c, f, t) \in Fired /\ Hit(c, f, t).last = t
          /\ Hit(c, f, t).on = Occasions(c, f, t)
      BY <1>1, HitFields
    <3> QED BY <1>4, <2>5, <3>1, Zenon DEF Occasions
  <2>7. t = x * Secs BY <1>1, <1>7, MinuteStarts
  <2>8. ASSUME ~m PROVE x \notin f.on /\ \A o \in F.on : o * Secs <= t
    <3>1. \A o \in f.on : o * Secs <= n BY <1>6, <2>8
    <3>2. n < t BY <2>8
    <3>3. ASSUME NEW o \in f.on PROVE o * Secs < t
      <4>1. o * Secs <= n BY <3>1
      <4>2. o * Secs \in Nat BY <1>2 DEF Fired
      <4> QED BY <1>1, <3>2, <4>1, <4>2
    <3>4. x \notin f.on BY <1>1, <2>7, <3>3
    <3>5. x * Secs <= t BY <1>1, <2>7
    <3>6. ASSUME NEW o \in f.on PROVE o * Secs <= t
      <4>1. o * Secs < t BY <3>3
      <4>2. o * Secs \in Nat BY <1>2 DEF Fired
      <4> QED BY <1>1, <4>1, <4>2
    <3> HIDE DEF x, F
    <3> QED BY <2>6, <3>4, <3>5, <3>6
  <2>9. t # Never BY <1>1 DEF Never
  <2>10. Remembers(c, E, F, t) BY <2>4, <2>6, <2>8, <2>9 DEF Remembers
  <2>11. ServedAt(c, F, t, m) BY <1>4, <2>6 DEF ServedAt, DayAt
  <2>12. ~m => Occasion(c, t) \notin f.on /\ ~Early(c, f, t) BY <1>4, <2>8 DEF Early
  <2> QED BY <2>4, <2>6, <2>10, <2>11, <2>12 DEF TickRight
<1>8. CASE ~fires_now
  <2>1. Due(c, e, t) = Quiet(e) BY <1>5, <1>8 DEF Cron
  <2>2. ~Due(c, e, t).fire /\ Due(c, e, t).entry = e BY <2>1 DEF Quiet
  <2>3. F = f BY <2>2 DEF NextFired
  <2>4. E \in ScheduleEntry /\ E.cron_last_min = e.cron_last_min /\ E.moved = m
    BY <1>1, <2>2, StampedFields DEF NextEntry
  <2>5. ASSUME ~m PROVE \A o \in f.on : o * Secs <= t
    <3> SUFFICES ASSUME NEW o \in f.on PROVE o * Secs <= t OBVIOUS
    <3>1. o * Secs <= n /\ n < t BY <1>6, <2>5
    <3>2. o * Secs \in Nat BY <1>2 DEF Fired
    <3> QED BY <1>1, <3>1, <3>2
  <2>6. Remembers(c, E, f, t) BY <1>6, <2>4, <2>5 DEF Remembers
  <2>7. ServedAt(c, f, t, m)
    <3>1. CronAt(c, t) => min = e.cron_last_min BY <1>8 DEF CronAt
    <3> QED BY <1>3, <1>6, <3>1 DEF ServedAt, DayAt
  <2> QED BY <2>2, <2>3, <2>4, <2>6, <2>7 DEF TickRight
<1> QED BY <1>7, <1>8

LEMMA IntervalTick ==
  ASSUME NEW c \in Schedules, c.type = "interval", NEW e \in ScheduleEntry, NEW f \in Fired,
         NEW n \in 1 .. MaxTime, NEW t \in 1 .. MaxTime, NEW m \in BOOLEAN,
         Remembers(c, e, f, n), ~m => ~e.moved /\ n < t /\ t < n + DayLen
  PROVE  TickRight(c, e, f, t, m)
<1> DEFINE E == NextEntry(c, e, t, m)
           F == NextFired(c, e, f, t)
           g == Due(c, e, t).entry
<1>1. t \in Nat /\ n \in Nat /\ t # 0 BY SchedulerParams
<1>2. c.seconds \in Nat \ {0} /\ e.last_run \in Nat BY SchedulerParams DEF ScheduleEntry
<1>3. Due(c, e, t) = Interval(c, e, t) BY DEF Due
<1>4. Occasion(c, t) = t BY DEF Occasion
<1>5. /\ f.last # Never => e.last_run = f.last /\ f.last # 0
      /\ ~e.moved => \A o \in f.on : o <= n
  BY DEF Remembers
<1>6. ASSUME ~m PROVE t \notin f.on /\ \A o \in f.on : o <= t
  <2> SUFFICES ASSUME NEW o \in f.on PROVE o <= t /\ o # t OBVIOUS
  <2>1. o <= n /\ n < t BY <1>5, <1>6
  <2>2. o \in Nat BY DEF Fired
  <2> QED BY <1>1, <2>1, <2>2
<1>7. [e EXCEPT !.last_run = t] \in ScheduleEntry /\ [e EXCEPT !.last_run = t].last_run = t
  BY <1>1 DEF ScheduleEntry
<1>8. ~CronAt(c, t) /\ ~DayAt(c, t) BY DEF CronAt, DayAt
<1>9. E = Stamped(g, t, m) BY DEF NextEntry
<1>10. CASE e.last_run = 0
  <2>1. Due(c, e, t) = Quiet([e EXCEPT !.last_run = t]) BY <1>3, <1>10 DEF Interval
  <2>2. ~Due(c, e, t).fire /\ g = [e EXCEPT !.last_run = t] BY <2>1 DEF Quiet
  <2>3. F = f /\ g \in ScheduleEntry BY <1>7, <2>2 DEF NextFired
  <2> HIDE DEF g, E, F
  <2>4. E \in ScheduleEntry /\ E.moved = m BY <1>1, <1>9, <2>3, StampedFields
  <2>5. Remembers(c, E, f, t) BY <1>5, <1>6, <1>10, <2>4 DEF Remembers
  <2> QED BY <1>8, <2>2, <2>3, <2>4, <2>5 DEF TickRight, ServedAt, E, F
<1>11. CASE e.last_run # 0 /\ t - e.last_run >= c.seconds
  <2>1. Due(c, e, t) = Fires([e EXCEPT !.last_run = t]) BY <1>3, <1>11 DEF Interval
  <2>2. Due(c, e, t).fire /\ g = [e EXCEPT !.last_run = t] BY <2>1 DEF Fires
  <2>3. F = Hit(c, f, t) /\ g \in ScheduleEntry /\ g.last_run = t BY <1>7, <2>2 DEF NextFired
  <2> HIDE DEF g, E, F
  <2>4. E \in ScheduleEntry /\ E.moved = m /\ E.last_run = t BY <1>1, <1>9, <2>3, StampedFields
  <2>5. F \in Fired /\ F.last = t /\ F.on = f.on \cup {t}
    <3>1. /\ Hit(c, f, t) \in Fired /\ Hit(c, f, t).last = t
          /\ Hit(c, f, t).on = Occasions(c, f, t)
      BY <1>1, HitFields
    <3> QED BY <1>4, <2>3, <3>1, Zenon DEF Occasions
  <2>6. ~m => \A o \in F.on : o <= t BY <1>1, <1>6, <2>5
  <2>7. Remembers(c, E, F, t) BY <1>1, <2>4, <2>5, <2>6 DEF Remembers
  <2>8. ~Early(c, f, t)
    <3>1. CASE f.last = Never BY <3>1 DEF Early
    <3>2. CASE f.last # Never
      <4>1. f.last = e.last_run BY <1>5, <3>2
      <4> QED BY <1>1, <1>2, <1>11, <4>1 DEF Early
    <3> QED BY <3>1, <3>2
  <2> QED BY <1>4, <1>6, <1>8, <2>2, <2>4, <2>5, <2>7, <2>8 DEF TickRight, ServedAt, E, F
<1>12. CASE e.last_run # 0 /\ ~(t - e.last_run >= c.seconds)
  <2>1. Due(c, e, t) = Quiet(e) BY <1>3, <1>12 DEF Interval
  <2>2. ~Due(c, e, t).fire /\ g = e BY <2>1 DEF Quiet
  <2>3. F = f BY <2>2 DEF NextFired
  <2> HIDE DEF g, E, F
  <2>4. E \in ScheduleEntry /\ E.moved = m /\ E.last_run = e.last_run
    BY <1>1, <1>9, <2>2, StampedFields
  <2>5. Remembers(c, E, f, t) BY <1>5, <1>6, <2>4 DEF Remembers
  <2> QED BY <1>8, <2>2, <2>3, <2>4, <2>5 DEF TickRight, ServedAt, E, F
<1> QED BY <1>10, <1>11, <1>12

\* The day of a tick, as NewDay sees it: the latch of another day is gone.
LEMMA LatchOfToday ==
  ASSUME NEW c \in Schedules, c.type \in {"daily_time", "astronomical"},
         NEW e \in ScheduleEntry, NEW f \in Fired,
         NEW n \in 1 .. MaxTime, NEW t \in 1 .. MaxTime, NEW m \in BOOLEAN,
         Remembers(c, e, f, n), ~m => ~e.moved /\ n < t /\ t < n + DayLen
  PROVE  /\ NewDay(e, t) \in ScheduleEntry /\ NewDay(e, t).prev_sod = sod(t)
         /\ NewDay(e, t).astro_sod = e.astro_sod /\ NewDay(e, t).astro_yday = e.astro_yday
         /\ ~m => /\ \A o \in f.on : o <= day(t)
                  /\ NewDay(e, t).fired_today <=> day(t) \in f.on
<1> DEFINE latch == e.fired_today /\ ~(e.prev_sod > 0 /\ sod(t) < e.prev_sod)
           s == sod(t)
<1>1. t \in Nat /\ n \in Nat BY SchedulerParams
<1>2. s \in 0 .. DayLen - 1 /\ sod(n) \in 0 .. DayLen - 1 /\ day(t) \in Nat /\ day(n) \in Nat
      /\ DayLen \in Nat \ {0}
  BY <1>1, ClockFacts
<1>3. NewDay(e, t) = [e EXCEPT !.fired_today = latch, !.prev_sod = s]
  <2>1. e.fired_today = e.fired_today OBVIOUS
  <2> QED BY Zenon DEF NewDay
<1>4. latch \in BOOLEAN BY DEF ScheduleEntry
<1>5. s \in Never .. DayLen - 1 BY <1>2 DEF Never
<1>6. latch <=> e.fired_today /\ ~(e.prev_sod > 0 /\ s < e.prev_sod) OBVIOUS
<1>7. s = sod(t) OBVIOUS
<1> HIDE DEF latch, s
<1>8. NewDay(e, t) \in ScheduleEntry BY <1>3, <1>4, <1>5 DEF ScheduleEntry
<1>9. /\ NewDay(e, t).prev_sod = s /\ NewDay(e, t).fired_today = latch
      /\ NewDay(e, t).astro_sod = e.astro_sod /\ NewDay(e, t).astro_yday = e.astro_yday
  BY <1>3 DEF ScheduleEntry
<1>10. ASSUME ~m PROVE (\A o \in f.on : o <= day(t)) /\ (latch <=> day(t) \in f.on)
  <2>1. ~e.moved /\ n < t /\ t < n + DayLen BY <1>10
  <2>2. /\ IF e.seen = Never THEN f.on = {} /\ ~e.fired_today /\ e.prev_sod = Never
           ELSE e.prev_sod = sod(n)
        /\ \A o \in f.on : o <= day(n)
        /\ e.fired_today <=> day(n) \in f.on
    BY <2>1 DEF Remembers
  <2>3. \/ day(t) = day(n) /\ sod(t) > sod(n)
        \/ day(t) = day(n) + 1 /\ sod(t) < sod(n)
    BY <1>1, <1>2, <2>1, NextTick DEF day, sod
  <2>4. CASE e.seen = Never BY <1>6, <2>2, <2>4
  <2>5. CASE e.seen # Never /\ day(t) = day(n) /\ sod(t) > sod(n)
    <3>1. ~(s < e.prev_sod) BY <1>2, <1>7, <2>2, <2>5
    <3> QED BY <1>6, <2>2, <2>5, <3>1
  <2>6. CASE e.seen # Never /\ day(t) = day(n) + 1 /\ sod(t) < sod(n)
    <3>1. e.prev_sod > 0 /\ s < e.prev_sod BY <1>2, <1>7, <2>2, <2>6
    <3>2. ~latch BY <1>6, <3>1
    <3>3. \A o \in f.on : o <= day(t) /\ o # day(t)
      <4> SUFFICES ASSUME NEW o \in f.on PROVE o <= day(t) /\ o # day(t) OBVIOUS
      <4>1. o <= day(n) /\ o \in Nat BY <2>2 DEF Fired
      <4> QED BY <1>2, <2>6, <4>1
    <3> QED BY <3>2, <3>3
  <2> QED BY <2>3, <2>4, <2>5, <2>6
<1> QED BY <1>7, <1>8, <1>9, <1>10

LEMMA LatchTick ==
  ASSUME NEW c \in Schedules, c.type \in {"daily_time", "astronomical"},
         NEW e \in ScheduleEntry, NEW w \in ScheduleEntry, NEW f \in Fired,
         NEW t \in 1 .. MaxTime, NEW m \in BOOLEAN, NEW at \in Int,
         Due(c, e, t) = OnceInWindow(w, at, t),
         w.prev_sod = sod(t),
         ~m => /\ \A o \in f.on : o <= day(t)
               /\ w.fired_today <=> day(t) \in f.on,
         c.type = "astronomical" =>
           (w.astro_yday # Never => w.astro_sod = astro_sod(c, w.astro_yday)),
         DayAt(c, t) => at >= 0 /\ InWindow(at, t)
  PROVE  TickRight(c, e, f, t, m)
<1> DEFINE E == NextEntry(c, e, t, m)
           F == NextFired(c, e, f, t)
           g == Due(c, e, t).entry
           hits == ~w.fired_today /\ at >= 0 /\ InWindow(at, t)
<1>1. t \in Nat /\ t \in Int /\ t # 0 /\ t # Never BY SchedulerParams DEF Never
<1>2. Occasion(c, t) = day(t) BY DEF Occasion
<1>3. E = Stamped(g, t, m) BY DEF NextEntry
<1>4. ~CronAt(c, t) /\ ~Early(c, f, t) BY DEF CronAt, Early
<1>5. CASE hits
  <2>1. Due(c, e, t) = Fires([w EXCEPT !.fired_today = TRUE])
    BY <1>5 DEF OnceInWindow, InWindow
  <2>2. Due(c, e, t).fire /\ g = [w EXCEPT !.fired_today = TRUE] BY <2>1 DEF Fires
  <2>3. /\ g \in ScheduleEntry /\ g.fired_today = TRUE /\ g.prev_sod = sod(t)
        /\ g.astro_sod = w.astro_sod /\ g.astro_yday = w.astro_yday
    <3>1. [w EXCEPT !.fired_today = TRUE] \in ScheduleEntry BY DEF ScheduleEntry
    <3>2. /\ [w EXCEPT !.fired_today = TRUE].fired_today = TRUE
          /\ [w EXCEPT !.fired_today = TRUE].prev_sod = w.prev_sod
          /\ [w EXCEPT !.fired_today = TRUE].astro_sod = w.astro_sod
          /\ [w EXCEPT !.fired_today = TRUE].astro_yday = w.astro_yday
      BY DEF ScheduleEntry
    <3> HIDE DEF g
    <3> QED BY <2>2, <3>1, <3>2, Zenon
  <2>4. F = Hit(c, f, t) BY <2>2 DEF NextFired
  <2> HIDE DEF g, E, F
  <2>5. /\ E \in ScheduleEntry /\ E.moved = m /\ E.seen = t /\ E.fired_today = TRUE
        /\ E.prev_sod = sod(t)
        /\ E.astro_sod = w.astro_sod /\ E.astro_yday = w.astro_yday
    BY <1>1, <1>3, <2>3, StampedFields
  <2>6. F \in Fired /\ F.on = f.on \cup {day(t)}
    <3>1. Hit(c, f, t) \in Fired /\ Hit(c, f, t).on = Occasions(c, f, t) BY <1>1, HitFields
    <3> QED BY <1>2, <2>4, <3>1, Zenon DEF Occasions
  <2>7. ~m => \A o \in F.on : o <= day(t)
    <3>1. day(t) \in Nat BY <1>1, ClockFacts
    <3>2. day(t) <= day(t) BY <3>1
    <3> QED BY <2>6, <3>2
  <2>8. E.fired_today <=> day(t) \in F.on BY <2>5, <2>6
  <2>9. Remembers(c, E, F, t) BY <1>1, <2>5, <2>7, <2>8 DEF Remembers
  <2>10. ServedAt(c, F, t, m) BY <1>2, <1>4, <2>6 DEF ServedAt
  <2>11. ~m => Occasion(c, t) \notin f.on BY <1>2, <1>5
  <2> QED BY <1>4, <2>2, <2>5, <2>6, <2>9, <2>10, <2>11 DEF TickRight, E, F
<1>6. CASE ~hits
  <2>1. Due(c, e, t) = Quiet(w) BY <1>6 DEF OnceInWindow, InWindow
  <2>2. ~Due(c, e, t).fire /\ g = w BY <2>1 DEF Quiet
  <2>3. F = f BY <2>2 DEF NextFired
  <2> HIDE DEF g, E, F
  <2>4. /\ E \in ScheduleEntry /\ E.moved = m /\ E.seen = t /\ E.fired_today = w.fired_today
        /\ E.prev_sod = sod(t)
        /\ E.astro_sod = w.astro_sod /\ E.astro_yday = w.astro_yday
    BY <1>1, <1>3, <2>2, StampedFields
  <2>5. Remembers(c, E, f, t) BY <1>1, <2>4 DEF Remembers
  <2>6. ServedAt(c, f, t, m)
    <3>1. DayAt(c, t) => w.fired_today BY <1>6
    <3> QED BY <1>2, <1>4, <3>1 DEF ServedAt
  <2> QED BY <2>2, <2>3, <2>4, <2>5, <2>6 DEF TickRight, E, F
<1> QED BY <1>5, <1>6

LEMMA DailyTick ==
  ASSUME NEW c \in Schedules, c.type = "daily_time", NEW e \in ScheduleEntry, NEW f \in Fired,
         NEW n \in 1 .. MaxTime, NEW t \in 1 .. MaxTime, NEW m \in BOOLEAN,
         Remembers(c, e, f, n), ~m => ~e.moved /\ n < t /\ t < n + DayLen
  PROVE  TickRight(c, e, f, t, m)
<1> DEFINE w == NewDay(e, t)
<1>1. /\ w \in ScheduleEntry /\ w.prev_sod = sod(t)
      /\ ~m => /\ \A o \in f.on : o <= day(t)
               /\ w.fired_today <=> day(t) \in f.on
  BY LatchOfToday
<1>2. Due(c, e, t) = Daily(c, e, t) BY DEF Due
<1>3. c.at \in Int /\ c.at >= 0
  <2>1. DayLen \in Nat BY SchedulerParams DEF DayLen
  <2>2. c.at \in 0 .. DayLen - 1 BY SchedulerParams
  <2> QED BY <2>1, <2>2
<1>4. CASE dow(t) \in c.days
  <2>1. Due(c, e, t) = OnceInWindow(w, c.at, t) BY <1>2, <1>4 DEF Daily
  <2>2. DayAt(c, t) => c.at >= 0 /\ InWindow(c.at, t) BY <1>3 DEF DayAt
  <2> HIDE DEF w
  <2> QED BY <1>1, <1>3, <2>1, <2>2, LatchTick
<1>5. CASE dow(t) \notin c.days
  <2>1. Due(c, e, t) = Quiet(w) BY <1>2, <1>5 DEF Daily
  <2>2. OnceInWindow(w, Never, t) = Quiet(w) BY DEF OnceInWindow, Never
  <2>3. DayAt(c, t) => Never >= 0 /\ InWindow(Never, t) BY <1>5 DEF DayAt
  <2>4. Never \in Int BY DEF Never
  <2>5. Due(c, e, t) = OnceInWindow(w, Never, t) BY <2>1, <2>2
  <2> HIDE DEF w
  <2> QED BY <1>1, <2>3, <2>4, <2>5, LatchTick
<1> QED BY <1>4, <1>5

LEMMA AstronomicalTick ==
  ASSUME NEW c \in Schedules, c.type = "astronomical", NEW e \in ScheduleEntry, NEW f \in Fired,
         NEW n \in 1 .. MaxTime, NEW t \in 1 .. MaxTime, NEW m \in BOOLEAN,
         Remembers(c, e, f, n), ~m => ~e.moved /\ n < t /\ t < n + DayLen
  PROVE  TickRight(c, e, f, t, m)
<1> DEFINE w == NewDay(e, t)
           d == day(t)
           as == astro_sod(c, d)
           v == IF w.astro_yday = d THEN w ELSE [w EXCEPT !.astro_sod = as, !.astro_yday = d]
           raw == Solar[c.event][d]
<1>1. /\ w \in ScheduleEntry /\ w.prev_sod = sod(t)
      /\ w.astro_sod = e.astro_sod /\ w.astro_yday = e.astro_yday
      /\ ~m => /\ \A o \in f.on : o <= d
               /\ w.fired_today <=> d \in f.on
  BY LatchOfToday
<1>2. t \in Nat /\ d \in Nat /\ DayLen \in Nat \ {0} /\ d \in 0 .. MaxTime \div DayLen
  <2>1. t \in Nat /\ MaxTime \in Nat /\ t <= MaxTime BY SchedulerParams
  <2>2. d \in Nat /\ DayLen \in Nat \ {0} BY <2>1, ClockFacts
  <2> DEFINE h == MaxTime \div DayLen
             r == t % DayLen
             z == MaxTime % DayLen
  <2>3. /\ h \in Nat /\ z \in 0 .. DayLen - 1 /\ MaxTime = DayLen * h + z
        /\ r \in 0 .. DayLen - 1 /\ t = DayLen * d + r
    BY <2>1, <2>2, DivMod, Zenon DEF day
  <2>4. ~(d > h)
    <3> HIDE DEF d, h, r, z
    <3> SUFFICES ASSUME d > h PROVE FALSE OBVIOUS
    <3>1. PICK j \in Nat : d = h + 1 + j BY <2>2, <2>3
    <3>2. DayLen * d = DayLen * h + DayLen + DayLen * j BY <2>2, <2>3, <3>1
    <3>3. DayLen * j \in Nat /\ DayLen * h \in Nat BY <2>2, <2>3
    <3> DEFINE x == DayLen * h
               y == DayLen * j
               u == DayLen * d
    <3>4. x \in Nat /\ y \in Nat /\ u = x + DayLen + y /\ MaxTime = x + z /\ t = u + r
      BY <2>3, <3>2, <3>3
    <3> HIDE DEF x, y, u
    <3> QED BY <2>1, <2>2, <2>3, <3>4
  <2> HIDE DEF d, h
  <2>5. d \in 0 .. h BY <2>2, <2>3, <2>4
  <2> QED BY <2>1, <2>2, <2>5 DEF h
<1>3. raw \in -1 .. DayLen - 1 /\ c.offset \in (1 - DayLen) .. (DayLen - 1)
  BY <1>2, SchedulerParams
<1>4. as \in Int /\ (raw >= 0 => as >= 0 /\ as = (raw + c.offset) % DayLen)
  <2> DEFINE D == DayLen
             a == raw + c.offset
  <2>1. D \in Nat \ {0} /\ raw \in -1 .. D - 1 /\ c.offset \in (1 - D) .. (D - 1)
    BY <1>2, <1>3
  <2>2. as = IF raw < 0 THEN Never ELSE IF a >= D THEN a - D ELSE IF a < 0 THEN a + D ELSE a
    BY DEF astro_sod
  <2> DEFINE o == c.offset
  <2>3. a = raw + o /\ o \in (1 - D) .. (D - 1) BY <2>1
  <2>4. (raw + c.offset) % DayLen = a % D OBVIOUS
  <2> HIDE DEF D, as, raw, o, a
  <2>5. a \in Int /\ as \in Int BY <2>1, <2>2, <2>3 DEF Never
  <2>6. ASSUME raw >= 0 PROVE as >= 0 /\ as = a % D
    <3>1. a \in 1 - D .. D + D - 2 BY <2>1, <2>3, <2>6
    <3>2. CASE a >= D
      <4>1. a % D = a - D BY <2>1, <2>5, <3>1, <3>2
      <4> QED BY <2>1, <2>2, <2>5, <2>6, <3>2, <4>1
    <3>3. CASE a < 0
      <4>1. a % D = a + D BY <2>1, <2>5, <3>1, <3>3
      <4> QED BY <2>1, <2>2, <2>5, <2>6, <3>1, <3>3, <4>1
    <3>4. CASE a >= 0 /\ a < D
      <4>1. a % D = a BY <2>1, <2>5, <3>4
      <4> QED BY <2>1, <2>2, <2>5, <2>6, <3>4, <4>1
    <3>5. a >= D \/ a < 0 \/ (a >= 0 /\ a < D) BY <2>1, <2>5
    <3> QED BY <3>2, <3>3, <3>4, <3>5, Zenon
  <2> QED BY <2>4, <2>5, <2>6
<1>5. d # Never BY <1>2 DEF Never
<1>6. w.astro_yday # Never => w.astro_sod = astro_sod(c, w.astro_yday)
  BY <1>1 DEF Remembers
<1>7. /\ v \in ScheduleEntry /\ v.prev_sod = sod(t) /\ v.fired_today = w.fired_today
      /\ v.astro_sod = as /\ v.astro_yday = d
  <2>1. as \in Int /\ d \in Int BY <1>2, <1>4
  <2>2. w.astro_yday = d => w.astro_sod = as BY <1>5, <1>6
  <2> HIDE DEF w, as, d
  <2>3. CASE w.astro_yday = d BY <1>1, <2>2, <2>3
  <2>4. CASE w.astro_yday # d
    <3> DEFINE x == [w EXCEPT !.astro_sod = as, !.astro_yday = d]
    <3>1. v = x BY <2>4
    <3>2. x \in ScheduleEntry BY <1>1, <2>1 DEF ScheduleEntry
    <3>3. x.prev_sod = w.prev_sod /\ x.fired_today = w.fired_today
          /\ x.astro_sod = as /\ x.astro_yday = d
      BY <1>1, <2>1 DEF ScheduleEntry
    <3> HIDE DEF v, x
    <3> QED BY <1>1, <3>1, <3>2, <3>3
  <2> QED BY <2>3, <2>4
<1>8. Due(c, e, t) = OnceInWindow(v, as, t)
  <2>1. Due(c, e, t) = Astronomical(c, e, t) BY DEF Due
  <2>2. Astronomical(c, e, t) = OnceInWindow(v, v.astro_sod, t) BY Zenon DEF Astronomical
  <2> QED BY <1>7, <2>1, <2>2
<1>9. DayAt(c, t) => as >= 0 /\ InWindow(as, t) BY <1>4 DEF DayAt
<1>10. /\ ~m => /\ \A o \in f.on : o <= day(t)
                /\ v.fired_today <=> day(t) \in f.on
       /\ v.astro_yday # Never => v.astro_sod = astro_sod(c, v.astro_yday)
  BY <1>1, <1>7
<1> HIDE DEF v, as, w
<1> QED BY <1>4, <1>7, <1>8, <1>9, <1>10, LatchTick

LEMMA EntryTick ==
  ASSUME NEW c \in Schedules, NEW e \in ScheduleEntry, NEW f \in Fired,
         NEW n \in 1 .. MaxTime, NEW t \in 1 .. MaxTime, NEW m \in BOOLEAN,
         Remembers(c, e, f, n), ~m => ~e.moved /\ n < t /\ t < n + DayLen
  PROVE  TickRight(c, e, f, t, m)
<1>1. c.type \in {"cron", "interval", "daily_time", "astronomical"} BY SchedulerParams
<1> QED BY <1>1, CronTick, IntervalTick, DailyTick, AstronomicalTick

\* A tick at time t: now, or later by less than a day, or earlier.
LEMMA SchedulerTickKeeps ==
  ASSUME ScheduleRight, NEW t \in 1 .. MaxTime, t > now => t < now + DayLen, t # now,
         Scheduler_Tick(t)
  PROVE  ScheduleRight'
<1> DEFINE moved(c) == entries[c].moved \/ t < now
           hit == {c \in Registered : Due(c, entries[c], t).fire}
<1>1. /\ now \in 1 .. MaxTime /\ Registered \subseteq Schedules
      /\ entries \in [Registered -> ScheduleEntry] /\ fires \in [Schedules -> Fired]
      /\ \A c \in Schedules \ Registered : fires[c] = Unfired
      /\ \A c \in Registered : Remembers(c, entries[c], fires[c], now)
      /\ doubled = {}
  BY DEF ScheduleRight, ScheduleTypes
<1>2. now \in Nat /\ t \in Nat /\ DayLen \in Nat BY <1>1, SchedulerParams DEF DayLen
<1>3. /\ now' = t
      /\ entries' = [c \in Registered |-> NextEntry(c, entries[c], t, moved(c))]
      /\ fires' = [c \in Schedules |->
                     IF c \in hit THEN Hit(c, fires[c], t) ELSE fires[c]]
      /\ doubled' = doubled \cup
           {c \in hit : ~moved(c) /\ (Occasion(c, t) \in fires[c].on \/ Early(c, fires[c], t))}
  <2>1. now' = t BY DEF Scheduler_Tick
  <2>2. entries' = [c \in Registered |-> NextEntry(c, entries[c], t, moved(c))]
    BY Zenon DEF Scheduler_Tick, NextEntry, Stamped
  <2>3. fires' = [c \in Schedules |-> IF c \in hit THEN Hit(c, fires[c], t) ELSE fires[c]]
    BY Zenon DEF Scheduler_Tick, Hit, Occasions
  <2>4. doubled' = doubled \cup
          {c \in hit : ~moved(c) /\ (Occasion(c, t) \in fires[c].on \/ Early(c, fires[c], t))}
    BY Zenon DEF Scheduler_Tick, Early
  <2> QED BY <2>1, <2>2, <2>3, <2>4
<1>4. ASSUME NEW c \in Registered
      PROVE  /\ moved(c) \in BOOLEAN /\ TickRight(c, entries[c], fires[c], t, moved(c))
             /\ entries'[c] = NextEntry(c, entries[c], t, moved(c))
             /\ fires'[c] = NextFired(c, entries[c], fires[c], t)
  <2>1. c \in Schedules /\ entries[c] \in ScheduleEntry /\ fires[c] \in Fired BY <1>1
  <2>2. entries[c].moved \in BOOLEAN BY <2>1 DEF ScheduleEntry
  <2>3. moved(c) \in BOOLEAN BY <2>2
  <2>4. ~moved(c) => ~entries[c].moved /\ now < t /\ t < now + DayLen BY <1>2
  <2>5. Remembers(c, entries[c], fires[c], now) BY <1>1
  <2>6. TickRight(c, entries[c], fires[c], t, moved(c))
    <3> DEFINE m == moved(c)
               e == entries[c]
               f == fires[c]
    <3>1. /\ c \in Schedules /\ e \in ScheduleEntry /\ f \in Fired /\ now \in 1 .. MaxTime
          /\ m \in BOOLEAN /\ Remembers(c, e, f, now)
          /\ ~m => ~e.moved /\ now < t /\ t < now + DayLen
      BY <1>1, <2>1, <2>3, <2>4, <2>5, Zenon
    <3>2. TickRight(c, e, f, t, m)
      <4> HIDE DEF m, e, f
      <4> QED BY <3>1, EntryTick
    <3> QED BY <3>2, Zenon
  <2>7. entries'[c] = NextEntry(c, entries[c], t, moved(c)) BY <1>3, Zenon
  <2>8. fires'[c] = NextFired(c, entries[c], fires[c], t)
    <3>1. fires'[c] = IF c \in hit THEN Hit(c, fires[c], t) ELSE fires[c] BY <1>3, <2>1, Zenon
    <3> QED BY <3>1, Zenon DEF NextFired
  <2> QED BY <2>3, <2>6, <2>7, <2>8
<1>5. Registered' = Registered
  <2>1. DOMAIN entries' = Registered BY <1>3, Zenon
  <2> QED BY <2>1, Zenon DEF Registered
<1>6. ASSUME NEW c \in Registered
      PROVE  /\ entries'[c] \in ScheduleEntry /\ fires'[c] \in Fired
             /\ Remembers(c, entries'[c], fires'[c], t)
             /\ ServedAt(c, fires'[c], t, moved(c))
             /\ entries'[c].moved = moved(c)
             /\ c \in hit /\ ~moved(c) =>
                  Occasion(c, t) \notin fires[c].on /\ ~Early(c, fires[c], t)
  <2> HIDE DEF moved
  <2>1. /\ moved(c) \in BOOLEAN /\ TickRight(c, entries[c], fires[c], t, moved(c))
        /\ entries'[c] = NextEntry(c, entries[c], t, moved(c))
        /\ fires'[c] = NextFired(c, entries[c], fires[c], t)
    BY <1>4
  <2>2. entries'[c].moved = moved(c)
    <3> DEFINE g == Due(c, entries[c], t).entry
               m == moved(c)
    <3>1. NextEntry(c, entries[c], t, moved(c)) \in ScheduleEntry BY <2>1 DEF TickRight
    <3>2. Stamped(g, t, m) \in ScheduleEntry BY <3>1, Zenon DEF NextEntry
    <3>3. Stamped(g, t, m).moved = m
      <4> HIDE DEF g, m
      <4> QED BY <3>2 DEF Stamped, ScheduleEntry
    <3> QED BY <2>1, <3>3, Zenon DEF NextEntry
  <2> QED BY <2>1, <2>2, Zenon DEF TickRight
<1>7. ASSUME NEW c \in Schedules \ Registered PROVE fires'[c] = Unfired /\ fires'[c] \in Fired
  <2>1. fires'[c] = fires[c] BY <1>3, Zenon
  <2> QED BY <1>1, <2>1
<1>8. doubled' = {}
  <2> HIDE DEF moved
  <2>1. \A c \in hit : c \in Registered OBVIOUS
  <2> HIDE DEF hit
  <2> QED BY <1>1, <1>3, <1>6, <2>1
<1>9. ScheduleTypes'
  <2>1. entries' \in [Registered -> ScheduleEntry]
    <3> HIDE DEF moved
    <3>1. entries' = [c \in Registered |-> entries'[c]] BY <1>3, Zenon
    <3> QED BY <1>6, <3>1
  <2>2. fires' \in [Schedules -> Fired]
    <3>1. fires' = [c \in Schedules |-> fires'[c]] BY <1>3, Zenon
    <3>2. \A c \in Schedules : fires'[c] \in Fired
      <4> HIDE DEF moved, hit
      <4> QED BY <1>6, <1>7
    <3> QED BY <3>1, <3>2
  <2> QED BY <1>1, <1>3, <1>5, <1>7, <2>1, <2>2 DEF ScheduleTypes
<1>10. \A c \in Registered' : Remembers(c, entries'[c], fires'[c], now')
  <2>1. \A c \in Registered : Remembers(c, entries'[c], fires'[c], t)
    <3> HIDE DEF moved, hit
    <3> QED BY <1>6
  <2>2. now' = t BY <1>3
  <2> QED BY <1>5, <2>1, <2>2
<1>11. ServedUnlessSameMinute'
  <2> SUFFICES ASSUME NEW c \in Registered, entries'[c].seen = now'
               PROVE  /\ CronDue(c)' => \/ Occasion(c, now') \in fires'[c].on
                                        \/ (fires'[c].last # Never
                                              /\ minute(fires'[c].last) = minute(now'))
                      /\ DayDue(c)' /\ ~entries'[c].moved => Occasion(c, now') \in fires'[c].on
    BY <1>5, Zenon DEF ServedUnlessSameMinute
  <2>1. CronDue(c)' <=> CronAt(c, t) BY <1>3, Zenon DEF CronDue, CronAt
  <2>2. DayDue(c)' <=> DayAt(c, t) BY <1>3, Zenon DEF DayDue, DayAt, InWindow
  <2>3. ServedAt(c, fires'[c], t, moved(c)) /\ entries'[c].moved = moved(c)
    <3> HIDE DEF moved, hit
    <3> QED BY <1>6
  <2>4. now' = t BY <1>3
  <2> HIDE DEF moved, hit
  <2> QED BY <2>1, <2>2, <2>3, <2>4, Zenon DEF ServedAt
<1> QED BY <1>8, <1>9, <1>10, <1>11 DEF ScheduleRight

\* Every occasion of a schedule is served and once, whatever is registered or unregistered
\* and however late the ticks are (Scheduler_Tick): a clock that is set back excuses an entry
\* only from what it does by the day.
THEOREM SchedulesServed == Spec => []ScheduleKept
<1>1. Init => ScheduleRight
  <2> SUFFICES ASSUME Init PROVE ScheduleRight OBVIOUS
  <2>1. now \in 1 .. DayLen /\ entries = [c \in {} |-> Fresh] /\ doubled = {}
        /\ fires = [c \in Schedules |-> Unfired]
    BY DEF Init
  <2>2. Registered = {} BY <2>1 DEF Registered
  <2>3. Unfired \in Fired BY DEF Unfired, Fired, Never
  <2>4. DayLen \in Nat /\ MaxTime \in Nat /\ DayLen <= MaxTime BY SchedulerParams DEF DayLen
  <2>5. now \in 1 .. MaxTime BY <2>1, <2>4
  <2> QED BY <2>1, <2>2, <2>3, <2>5
       DEF ScheduleRight, ScheduleTypes, ServedUnlessSameMinute
<1>2. ScheduleRight /\ [Next]_vars => ScheduleRight'
  <2> SUFFICES ASSUME ScheduleRight, [Next]_vars PROVE ScheduleRight' OBVIOUS
  <2>1. /\ now \in 1 .. MaxTime /\ Registered \subseteq Schedules
        /\ entries \in [Registered -> ScheduleEntry] /\ fires \in [Schedules -> Fired]
        /\ \A c \in Schedules \ Registered : fires[c] = Unfired
        /\ \A c \in Registered : Remembers(c, entries[c], fires[c], now)
        /\ doubled = {} /\ ServedUnlessSameMinute
    BY DEF ScheduleRight, ScheduleTypes
  <2>2. /\ now \in Nat /\ now # 0 /\ MaxTime \in Nat /\ DayLen \in Nat \ {0}
        /\ MaxGap \in 1 .. DayLen - 1
    BY <2>1, SchedulerParams DEF DayLen
  <2>3. ASSUME NEW c \in Schedules, Register(c) PROVE ScheduleRight'
    <3>1. /\ c \notin Registered
          /\ entries' = [x \in Registered \cup {c} |-> IF x = c THEN Fresh ELSE entries[x]]
          /\ now' = now /\ fires' = fires /\ doubled' = doubled
      BY <2>3 DEF Register
    <3>2. Fresh \in ScheduleEntry /\ Fresh.seen = Never /\ Fresh.cron_last_min = Never
          /\ ~Fresh.fired_today /\ Fresh.prev_sod = Never /\ Fresh.astro_yday = Never
      <4>1. Minutes \in Nat /\ Never \in Never .. Minutes - 1 /\ Never \in Never .. DayLen - 1
        BY <2>2, SchedulerParams DEF Never
      <4>2. Never \in Int BY DEF Never
      <4> HIDE DEF Never
      <4> QED BY <4>1, <4>2 DEF Fresh, ScheduleEntry
    <3>3. fires[c] = Unfired /\ Unfired.on = {} /\ Unfired.last = Never
      BY <2>1, <3>1 DEF Unfired
    <3>4. Registered' = Registered \cup {c}
      <4>1. DOMAIN entries' = Registered \cup {c} BY <3>1, Zenon
      <4> QED BY <4>1, Zenon DEF Registered
    <3>5. entries'[c] = Fresh /\ \A x \in Registered : entries'[x] = entries[x] BY <3>1
    <3>6. Remembers(c, Fresh, Unfired, now)
      <4> HIDE DEF Never
      <4> QED BY <3>2, <3>3 DEF Remembers
    <3>7. ScheduleTypes' BY <2>1, <3>1, <3>2, <3>4 DEF ScheduleTypes
    <3>8. \A x \in Registered' : Remembers(x, entries'[x], fires'[x], now')
      BY <2>1, <3>1, <3>3, <3>4, <3>5, <3>6
    <3>9. ServedUnlessSameMinute'
      <4>1. Fresh.seen # now' BY <2>2, <3>1, <3>2 DEF Never
      <4>2. \A x : CronDue(x)' = CronDue(x) /\ DayDue(x)' = DayDue(x)
        BY <3>1, Zenon DEF CronDue, DayDue
      <4> QED BY <2>1, <3>1, <3>4, <3>5, <4>1, <4>2, Zenon DEF ServedUnlessSameMinute
    <3> QED BY <2>1, <3>1, <3>7, <3>8, <3>9 DEF ScheduleRight
  <2>4. ASSUME NEW c \in Schedules, Unregister(c.rule) PROVE ScheduleRight'
    <3>1. /\ entries' = [x \in {d \in Registered : d.rule # c.rule} |-> entries[x]]
          /\ fires' = [d \in Schedules |-> IF d.rule = c.rule THEN Unfired ELSE fires[d]]
          /\ now' = now /\ doubled' = doubled
      BY <2>4 DEF Unregister
    <3>2. Registered' = {d \in Registered : d.rule # c.rule}
      <4>1. DOMAIN entries' = {d \in Registered : d.rule # c.rule} BY <3>1, Zenon
      <4> QED BY <4>1, Zenon DEF Registered
    <3>3. \A x \in Registered' : /\ x \in Registered /\ x \in Schedules
                                 /\ entries'[x] = entries[x] /\ fires'[x] = fires[x]
      BY <2>1, <3>1, <3>2
    <3>4. Unfired \in Fired BY DEF Unfired, Fired, Never
    <3>5. fires' \in [Schedules -> Fired] BY <2>1, <3>1, <3>4
    <3>6. entries' \in [Registered' -> ScheduleEntry] BY <2>1, <3>1, <3>2
    <3>7. \A x \in Schedules \ Registered' : fires'[x] = Unfired BY <2>1, <3>1, <3>2
    <3>8. ScheduleTypes' BY <2>1, <3>1, <3>3, <3>5, <3>6, <3>7 DEF ScheduleTypes
    <3>9. \A x \in Registered' : Remembers(x, entries'[x], fires'[x], now')
      BY <2>1, <3>1, <3>3
    <3>10. ServedUnlessSameMinute'
      <4>1. \A x : CronDue(x)' = CronDue(x) /\ DayDue(x)' = DayDue(x)
        BY <3>1, Zenon DEF CronDue, DayDue
      <4> QED BY <2>1, <3>1, <3>3, <4>1, Zenon DEF ServedUnlessSameMinute
    <3> QED BY <2>1, <3>1, <3>8, <3>9, <3>10 DEF ScheduleRight
  <2>5. CASE Tick
    <3>1. PICK d \in 1 .. MaxGap : now + d <= MaxTime /\ Scheduler_Tick(now + d)
      BY <2>5 DEF Tick
    <3> DEFINE t == now + d
    <3>2. /\ t \in 1 .. MaxTime /\ (t > now => t < now + DayLen) /\ t # now /\ Scheduler_Tick(t)
      BY <2>2, <3>1
    <3> HIDE DEF t
    <3> QED BY <3>2, SchedulerTickKeeps
  <2>6. CASE SetBack
    <3>1. PICK d \in 1 .. DayLen - 1 : now - d >= 1 /\ Scheduler_Tick(now - d)
      BY <2>6 DEF SetBack
    <3> DEFINE t == now - d
    <3>2. /\ t \in 1 .. MaxTime /\ (t > now => t < now + DayLen) /\ t # now /\ Scheduler_Tick(t)
      BY <2>1, <2>2, <3>1
    <3> HIDE DEF t
    <3> QED BY <3>2, SchedulerTickKeeps
  <2>7. CASE UNCHANGED vars
    <3>1. /\ now' = now /\ entries' = entries /\ fires' = fires /\ doubled' = doubled
      BY <2>7 DEF vars
    <3>5. Registered' = Registered BY <3>1 DEF Registered
    <3>2. \A x : CronDue(x)' = CronDue(x) /\ DayDue(x)' = DayDue(x)
      BY <3>1, Zenon DEF CronDue, DayDue
    <3>3. ServedUnlessSameMinute' BY <2>1, <3>1, <3>2, <3>5, Zenon DEF ServedUnlessSameMinute
    <3>4. ScheduleTypes' BY <2>1, <3>1, <3>5 DEF ScheduleTypes
    <3> QED BY <2>1, <3>1, <3>3, <3>4, <3>5 DEF ScheduleRight
  <2> QED BY <2>3, <2>4, <2>5, <2>6, <2>7 DEF Next
<1>3. ScheduleRight => ScheduleKept BY DEF ScheduleRight, ScheduleKept, OncePerOccasion
<1> QED BY <1>1, <1>2, <1>3, PTL DEF Spec

(***************************************************************************)
(* Variables and counters.                                                 *)
(***************************************************************************)

\* The names that slots have, and what slots, items of the file and expectations hold.
StoredNames == ShortNames \cup {CutName}
VarValue    == VarValues \cup Int
VarSlot     == [name : StoredNames, value : VarValue, numeric : Int, counter : BOOLEAN]
Item        == [name : StoredNames, value : VarValue, counter : BOOLEAN]
Wanted == [value : VarValue, numeric : Int, counter : BOOLEAN, there : BOOLEAN]

\* VarSlot i of s is the only one with the name n; no slot has it.
OnlyOne(s, n, i) == i \in 1 .. Len(s) /\ \A j \in 1 .. Len(s) : s[j].name = n <=> j = i
Lacks(s, n)      == \A j \in 1 .. Len(s) : s[j].name # n

\* What a name is wanted to be is something a write leaves.
WantedRight(w) ==
  /\ w \in [ShortNames -> Wanted]
  /\ \A n \in ShortNames : w[n].there => IF w[n].counter THEN w[n].value = Printed(w[n].numeric)
                                         ELSE w[n].numeric = 0
\* The slots are those of the names that w wants; names in cut may read otherwise.
SlotsRight(s, w, cut) ==
  /\ s \in Seq(VarSlot) /\ Len(s) <= MAX_VARS
  /\ \A i \in 1 .. Len(s) : s[i].counter => s[i].value \in Int
  /\ \A n \in ShortNames :
       IF w[n].there THEN \E i \in 1 .. Len(s) : /\ OnlyOne(s, n, i)
                                                 /\ n \notin cut => Expect(s[i]) = w[n]
       ELSE Lacks(s, n)
\* The same of the file.
FileRight(file, w) ==
  /\ file \in Seq(Item) /\ Len(file) <= MAX_VARS
  /\ \A i \in 1 .. Len(file) : file[i].counter => file[i].value \in Int
  /\ \A n \in ShortNames :
       IF w[n].there THEN \E i \in 1 .. Len(file) :
                            /\ OnlyOne(file, n, i)
                            /\ n \notin LossyIn(w) => /\ file[i].value = w[n].value
                                                      /\ file[i].counter = w[n].counter
       ELSE Lacks(file, n)
VarsRight ==
  /\ WantedRight(want) /\ WantedRight(wantSaved)
  /\ SlotsRight(store, want, lossy) /\ FileRight(varFile, wantSaved)
  /\ \A n \in lossy : n \in ShortNames => /\ want[n] = wantSaved[n]
                                          /\ want[n].there => n \in LossyIn(want)

LEMMA FirstFound ==
  ASSUME NEW s \in Seq(VarSlot), NEW name, Found(s, name) # {}
  PROVE  First(s, name) \in Found(s, name)
<1>1. Found(s, name) \in SUBSET Nat BY DEF Found
<1>2. \E i \in Found(s, name) : \A j \in Found(s, name) : i <= j BY <1>1, LeastPosition
<1> QED BY <1>2 DEF First

LEMMA OnlyFound ==
  ASSUME NEW s \in Seq(VarSlot), NEW n, NEW i, OnlyOne(s, n, i)
  PROVE  Found(s, n) = {i} /\ First(s, n) = i
<1>1. Found(s, n) = {i} BY DEF Found, OnlyOne
<1>2. First(s, n) \in Found(s, n) BY <1>1, FirstFound
<1> QED BY <1>1, <1>2

\* A write leaves a slot of its name, and the slots of other names alone.
LEMMA WriteKeeps ==
  ASSUME NEW s \in Seq(VarSlot), Len(s) <= MAX_VARS,
         NEW name \in ShortNames \cup {LongName, CutName},
         NEW x \in VarSlot, x.name = Stored(name), CanWrite(s, name)
  PROVE  /\ Write(s, name, x) \in Seq(VarSlot)
         /\ Len(Write(s, name, x)) <= MAX_VARS /\ Len(Write(s, name, x)) <= Len(s) + 1
         /\ \A i \in 1 .. Len(Write(s, name, x)) :
              Write(s, name, x)[i] = x \/ (i \in 1 .. Len(s) /\ Write(s, name, x)[i] = s[i])
         /\ name \in ShortNames /\ (Lacks(s, name) \/ \E i \in 1 .. Len(s) : OnlyOne(s, name, i)) =>
              \E i \in 1 .. Len(Write(s, name, x)) :
                OnlyOne(Write(s, name, x), name, i) /\ Write(s, name, x)[i] = x
         /\ \A n \in ShortNames \ {name} : Lacks(s, n) => Lacks(Write(s, name, x), n)
         /\ \A n \in ShortNames \ {name} : \A i \in 1 .. Len(s) :
              OnlyOne(s, n, i) => /\ i \in 1 .. Len(Write(s, name, x))
                                  /\ OnlyOne(Write(s, name, x), n, i)
                                  /\ Write(s, name, x)[i] = s[i]
<1> DEFINE W == Write(s, name, x)
<1>1. Len(s) \in Nat /\ MAX_VARS \in Nat BY VarSizes
<1>2. \A i \in 1 .. Len(s) : s[i] \in VarSlot /\ s[i].name \in StoredNames /\ s[i].name # LongName
  <2>1. LongName \notin StoredNames BY VarNames DEF StoredNames
  <2>2. \A i \in 1 .. Len(s) : s[i] \in VarSlot OBVIOUS
  <2>3. \A y \in VarSlot : y.name \in StoredNames BY DEF VarSlot
  <2> QED BY <2>1, <2>2, <2>3
<1>3. CASE Found(s, name) # {}
  <2> DEFINE f == First(s, name)
  <2>1. f \in 1 .. Len(s) /\ s[f].name = name BY <1>3, FirstFound DEF Found
  <2>2. x.name = name BY <1>2, <2>1 DEF Stored
  <2>3. W = [s EXCEPT ![f] = x] BY <1>3 DEF Write
  <2> HIDE DEF f, W
  <2>4. W \in Seq(VarSlot) /\ Len(W) = Len(s) BY <2>1, <2>3
  <2>5. \A i \in 1 .. Len(s) : W[i] = IF i = f THEN x ELSE s[i] BY <2>1, <2>3
  <2>6. \A i \in 1 .. Len(s) : W[i].name = s[i].name BY <2>1, <2>2, <2>5
  <2>7. \A n \in ShortNames : Lacks(s, n) => Lacks(W, n) BY <2>4, <2>6 DEF Lacks
  <2>8. \A n \in ShortNames, i \in 1 .. Len(s) : OnlyOne(s, n, i) => OnlyOne(W, n, i)
    BY <2>4, <2>6 DEF OnlyOne
  <2>9. \A n \in ShortNames \ {name}, i \in 1 .. Len(s) : OnlyOne(s, n, i) => W[i] = s[i]
    BY <2>1, <2>5 DEF OnlyOne
  <2>10. name \in ShortNames /\ (Lacks(s, name) \/ \E i \in 1 .. Len(s) : OnlyOne(s, name, i)) =>
              \E i \in 1 .. Len(W) : OnlyOne(W, name, i) /\ W[i] = x
    <3> SUFFICES ASSUME name \in ShortNames,
                        Lacks(s, name) \/ \E i \in 1 .. Len(s) : OnlyOne(s, name, i)
                 PROVE  \E i \in 1 .. Len(W) : OnlyOne(W, name, i) /\ W[i] = x
      OBVIOUS
    <3>1. PICK i \in 1 .. Len(s) : OnlyOne(s, name, i) BY <2>1 DEF Lacks
    <3>2. i = f BY <2>1, <3>1 DEF OnlyOne
    <3> QED BY <2>4, <2>5, <2>8, <3>1, <3>2
  <2>11. Len(W) <= MAX_VARS /\ Len(W) <= Len(s) + 1 BY <1>1, <2>4
  <2>12. \A i \in 1 .. Len(W) : W[i] = x \/ (i \in 1 .. Len(s) /\ W[i] = s[i])
    BY <2>4, <2>5
  <2> QED BY <2>4, <2>7, <2>8, <2>9, <2>10, <2>11, <2>12 DEF W
<1>4. CASE Found(s, name) = {}
  <2> DEFINE k == Len(s) + 1
  <2>1. W = Append(s, x) /\ k <= MAX_VARS /\ k \in Nat BY <1>1, <1>4 DEF Write, CanWrite
  <2> HIDE DEF W
  <2>2. /\ W \in Seq(VarSlot) /\ Len(W) = k /\ W[k] = x
        /\ \A i \in 1 .. Len(s) : W[i] = s[i]
    BY <1>1, <2>1
  <2>3. \A i \in 1 .. k : i \in 1 .. Len(s) \/ i = k BY <1>1
  <2>4. k \in 1 .. k /\ k \notin 1 .. Len(s) /\ \A i \in 1 .. Len(s) : i \in 1 .. k BY <1>1
  <2>5. \A n \in ShortNames \ {name} : x.name # n BY VarNames DEF Stored
  <2>6. name \in ShortNames => x.name = name BY VarNames DEF Stored
  <2>7. \A i \in 1 .. Len(s) : s[i].name # name BY <1>4 DEF Found
  <2> HIDE DEF k
  <2>8. \A n \in ShortNames \ {name} : Lacks(s, n) => Lacks(W, n)
    BY <2>2, <2>3, <2>5 DEF Lacks
  <2>9. \A n \in ShortNames \ {name}, i \in 1 .. Len(s) :
          OnlyOne(s, n, i) => i \in 1 .. Len(W) /\ OnlyOne(W, n, i) /\ W[i] = s[i]
    BY <2>2, <2>3, <2>4, <2>5 DEF OnlyOne
  <2>10. name \in ShortNames => OnlyOne(W, name, k) /\ W[k] = x
    BY <2>2, <2>3, <2>4, <2>6, <2>7 DEF OnlyOne
  <2>11. Len(W) <= Len(s) + 1 BY <2>2 DEF k
  <2>12. \A i \in 1 .. Len(W) : W[i] = x \/ (i \in 1 .. Len(s) /\ W[i] = s[i])
    BY <2>2, <2>3
  <2> QED BY <2>1, <2>2, <2>4, <2>8, <2>9, <2>10, <2>11, <2>12 DEF W
<1> QED BY <1>3, <1>4

\* The last slot moves into the gap: the other names keep their slots.
LEMMA WithoutKeeps ==
  ASSUME NEW s \in Seq(VarSlot), Len(s) <= MAX_VARS, NEW f \in 1 .. Len(s)
  PROVE  /\ Without(s, f) \in Seq(VarSlot) /\ Len(Without(s, f)) <= MAX_VARS
         /\ \A i \in 1 .. Len(Without(s, f)) : \E j \in 1 .. Len(s) : Without(s, f)[i] = s[j]
         /\ OnlyOne(s, s[f].name, f) => Lacks(Without(s, f), s[f].name)
         /\ \A n : Lacks(s, n) => Lacks(Without(s, f), n)
         /\ \A n : \A i \in 1 .. Len(s) : n # s[f].name /\ OnlyOne(s, n, i) =>
              \E j \in 1 .. Len(Without(s, f)) : /\ OnlyOne(Without(s, f), n, j)
                                                 /\ Without(s, f)[j] = s[i]
<1> DEFINE L == Len(s)
           z == s[L]
           E == [s EXCEPT ![f] = z]
           W == Without(s, f)
<1>1. L \in Nat /\ L # 0 /\ MAX_VARS \in Nat /\ z \in VarSlot BY VarSizes
<1>2. E \in Seq(VarSlot) /\ Len(E) = L /\ \A i \in 1 .. L : E[i] = IF i = f THEN z ELSE s[i]
  BY <1>1
<1>3. W = SubSeq(E, 1, L - 1) BY Zenon DEF Without
<1> HIDE DEF E, W
<1>4. W \in Seq(VarSlot) /\ Len(W) = L - 1 /\ \A i \in 1 .. L - 1 : W[i] = E[i]
  BY <1>1, <1>2, <1>3
<1>5. \A i \in 1 .. L - 1 : i \in 1 .. L /\ W[i] = IF i = f THEN z ELSE s[i]
  BY <1>1, <1>2, <1>4
<1> DEFINE m == L - 1
<1>6. /\ m \in Nat /\ Len(W) = m /\ L \notin 1 .. m /\ L \in 1 .. L
      /\ \A i \in 1 .. L : i \in 1 .. m \/ i = L
      /\ \A i \in 1 .. m : i \in 1 .. L /\ i # L /\ W[i] = IF i = f THEN z ELSE s[i]
  BY SMTT(30), <1>1, <1>4, <1>5
<1>7. z = s[L] /\ f \in 1 .. L OBVIOUS
<1>8. Len(W) <= MAX_VARS BY <1>1, <1>4
<1>9. L = Len(s) OBVIOUS
<1> HIDE DEF m, z, L
<1>10. \A i \in 1 .. Len(W) : \E j \in 1 .. L : W[i] = s[j] BY <1>6, <1>7
<1>11. OnlyOne(s, s[f].name, f) => Lacks(W, s[f].name)
  BY <1>6, <1>7, <1>9 DEF OnlyOne, Lacks
<1>12. ASSUME NEW n, Lacks(s, n) PROVE Lacks(W, n) BY <1>6, <1>7, <1>9, <1>12 DEF Lacks
<1>13. ASSUME NEW n, NEW i \in 1 .. L, n # s[f].name, OnlyOne(s, n, i)
       PROVE  \E j \in 1 .. Len(W) : OnlyOne(W, n, j) /\ W[j] = s[i]
  <2>1. /\ s[i].name = n /\ i # f
        /\ \A j \in 1 .. L : s[j].name = n <=> j = i
    BY <1>9, <1>13 DEF OnlyOne
  <2>2. CASE i = L
    <3>1. f \in 1 .. m BY <1>6, <1>7, <2>1, <2>2
    <3>2. W[f] = s[i] BY <1>6, <1>7, <2>2, <3>1
    <3>3. ASSUME NEW j \in 1 .. m, W[j].name = n PROVE j = f BY <1>6, <2>1, <2>2, <3>3
    <3> QED BY <1>6, <2>1, <3>1, <3>2, <3>3 DEF OnlyOne
  <2>3. CASE i # L
    <3>1. i \in 1 .. m /\ W[i] = s[i] BY <1>6, <2>1, <2>3
    <3>2. ASSUME NEW j \in 1 .. m, W[j].name = n PROVE j = i
      BY <1>6, <1>7, <2>1, <2>3, <3>2
    <3> QED BY <1>6, <2>1, <3>1, <3>2 DEF OnlyOne
  <2> QED BY <2>2, <2>3
<1> QED BY <1>4, <1>8, <1>9, <1>10, <1>11, <1>12, <1>13, Zenon DEF W

\* What an item of the file becomes, and the tables that loading one item after another makes.
LoadedItem(item) == [name |-> item.name, value |-> item.value, counter |-> item.counter,
                     numeric |-> IF item.counter THEN item.value ELSE 0]
UpTo(file, n, L) == L = [k \in 0 .. n |-> IF k = 0 THEN <<>> ELSE LoadOne(L[k - 1], file[k])]

LEMMA LoadsExist ==
  ASSUME NEW file, NEW n \in Nat
  PROVE  \E L : UpTo(file, n, L)
<1> DEFINE T == {m \in Nat : ~\E L : UpTo(file, m, L)}
<1>1. CASE T = {} BY <1>1
<1>2. CASE T # {}
  <2>1. T \in SUBSET Nat OBVIOUS
  <2>2. PICK m \in T : \A j \in T : m <= j
    <3> HIDE DEF T
    <3> QED BY <1>2, <2>1, LeastPosition
  <2>3. m \in Nat /\ ~\E L : UpTo(file, m, L) OBVIOUS
  <2>4. CASE m = 0
    <3> DEFINE L == [k \in 0 .. 0 |-> <<>>]
    <3>1. \A k \in 0 .. 0 : k = 0 OBVIOUS
    <3>2. UpTo(file, 0, L) BY <3>1 DEF UpTo
    <3> QED BY <2>3, <2>4, <3>2
  <2>5. CASE m # 0
    <3> DEFINE b == m - 1
    <3>1. b \in Nat /\ ~(m <= b) BY <2>3, <2>5
    <3>2. PICK L : UpTo(file, b, L) BY <2>2, <3>1
    <3> DEFINE v == LoadOne(L[b], file[m])
               M == [k \in 0 .. m |-> IF k = m THEN v ELSE L[k]]
    <3>3. /\ \A k \in 0 .. m : k = m \/ k \in 0 .. b
          /\ \A k \in 0 .. b : k # m /\ k \in 0 .. m /\ (k # 0 => k - 1 \in 0 .. b)
          /\ b \in 0 .. b /\ m \in 0 .. m
      BY <2>3, <2>5
    <3>4. \A k \in 0 .. b : L[k] = IF k = 0 THEN <<>> ELSE LoadOne(L[k - 1], file[k])
      BY <3>2, Zenon DEF UpTo
    <3>5. M[b] = L[b] /\ \A k \in 0 .. b : M[k] = L[k] BY <3>3
    <3>6. \A k \in 0 .. m : M[k] = IF k = 0 THEN <<>> ELSE LoadOne(M[k - 1], file[k])
      <4> SUFFICES ASSUME NEW k \in 0 .. m
                   PROVE  M[k] = IF k = 0 THEN <<>> ELSE LoadOne(M[k - 1], file[k])
        OBVIOUS
      <4>1. CASE k = m
        <5>1. M[k] = v /\ k - 1 = b BY <4>1
        <5> HIDE DEF M
        <5> QED BY <2>5, <3>5, <4>1, <5>1
      <4>2. CASE k # m
        <5>1. k \in 0 .. b BY <3>3, <4>2
        <5>2. M[k] = L[k] /\ (k # 0 => M[k - 1] = L[k - 1]) BY <3>3, <3>5, <5>1
        <5> HIDE DEF M
        <5> QED BY <3>4, <5>1, <5>2
      <4> QED BY <4>1, <4>2
    <3>7. M = [k \in 0 .. m |-> M[k]] OBVIOUS
    <3>8. UpTo(file, m, M)
      <4> HIDE DEF M
      <4> QED BY <3>6, <3>7 DEF UpTo
    <3> QED BY <2>3, <3>8
  <2> QED BY <2>4, <2>5
<1> QED BY <1>1, <1>2

LEMMA LoadFacts ==
  ASSUME NEW file, Len(file) \in Nat
  PROVE  \E L : UpTo(file, Len(file), L) /\ LoadedVars(file) = L[Len(file)]
<1> DEFINE L == CHOOSE f : UpTo(file, Len(file), f)
<1>1. UpTo(file, Len(file), L) BY LoadsExist
<1>2. LoadedVars(file) = L[Len(file)] BY DEF LoadedVars, UpTo
<1> QED BY <1>1, <1>2

\* The table s after the first k items of the file.
PrefixLoaded(file, k, s) ==
  /\ s \in Seq(VarSlot) /\ Len(s) <= MAX_VARS /\ Len(s) <= k
  /\ \A j \in 1 .. Len(s) : s[j].counter => s[j].value \in Int
  /\ \A n \in ShortNames :
       /\ (\A i \in 1 .. k : file[i].name # n) => Lacks(s, n)
       /\ \A i \in 1 .. k : OnlyOne(file, n, i) =>
            \E j \in 1 .. Len(s) : OnlyOne(s, n, j) /\ s[j] = LoadedItem(file[i])

LEMMA OneItemMore ==
  ASSUME NEW file \in Seq(Item), Len(file) <= MAX_VARS, NEW b \in Nat, b + 1 <= Len(file),
         file[b + 1].counter => file[b + 1].value \in Int,
         NEW s, PrefixLoaded(file, b, s)
  PROVE  PrefixLoaded(file, b + 1, LoadOne(s, file[b + 1]))
<1> DEFINE k == b + 1
           item == file[k]
           name == item.name
           x == LoadedItem(item)
           W == Write(s, name, x)
<1>1. /\ k \in Nat /\ k \in 1 .. Len(file) /\ Len(file) \in Nat /\ MAX_VARS \in Nat
      /\ \A i \in 1 .. k : i \in 1 .. b \/ i = k
      /\ \A i \in 1 .. b : i \in 1 .. k /\ i # k /\ i \in 1 .. Len(file)
      /\ k \in 1 .. k
  BY VarSizes
<1>2. item \in Item /\ name \in StoredNames /\ item.value \in VarValue /\ item.counter \in BOOLEAN
  <2>1. item \in Item BY <1>1
  <2> HIDE DEF item
  <2> QED BY <2>1 DEF Item
<1>3. /\ s \in Seq(VarSlot) /\ Len(s) <= MAX_VARS /\ Len(s) <= b /\ Len(s) \in Nat
      /\ \A j \in 1 .. Len(s) : s[j].counter => s[j].value \in Int
  BY DEF PrefixLoaded
<1>4. /\ x.name = name /\ x.value = item.value /\ x.counter = item.counter
      /\ x.numeric = IF item.counter THEN item.value ELSE 0
  BY DEF LoadedItem
<1>5. item.counter => item.value \in Int OBVIOUS
<1>6. x \in VarSlot
  <2>1. (IF item.counter THEN item.value ELSE 0) \in Int BY <1>5
  <2> DEFINE q == IF item.counter THEN item.value ELSE 0
  <2>2. x = [name |-> name, value |-> item.value, counter |-> item.counter, numeric |-> q]
    BY Zenon DEF LoadedItem
  <2>3. q \in Int BY <2>1
  <2> HIDE DEF q, x, name, item
  <2> QED BY <1>2, <2>2, <2>3 DEF VarSlot
<1>7. name # LongName /\ name \in ShortNames \cup {LongName, CutName} /\ Stored(name) = name
  BY <1>2, VarNames DEF StoredNames, Stored
<1>8. CanWrite(s, name)
  <2>1. Len(s) < MAX_VARS BY <1>1, <1>3
  <2> QED BY <2>1 DEF CanWrite
<1>9. LoadOne(s, item) = W BY <1>8, Zenon DEF LoadOne, LoadedItem
<1>10. k = b + 1 /\ item = file[k] /\ name = item.name OBVIOUS
<1> HIDE DEF name, x, item, k
<1>11. /\ W \in Seq(VarSlot) /\ Len(W) <= MAX_VARS /\ Len(W) <= Len(s) + 1
       /\ \A i \in 1 .. Len(W) : W[i] = x \/ (i \in 1 .. Len(s) /\ W[i] = s[i])
       /\ name \in ShortNames /\ (Lacks(s, name) \/ \E i \in 1 .. Len(s) : OnlyOne(s, name, i)) =>
            \E i \in 1 .. Len(W) : OnlyOne(W, name, i) /\ W[i] = x
       /\ \A n \in ShortNames \ {name} : Lacks(s, n) => Lacks(W, n)
       /\ \A n \in ShortNames \ {name} : \A i \in 1 .. Len(s) :
            OnlyOne(s, n, i) => i \in 1 .. Len(W) /\ OnlyOne(W, n, i) /\ W[i] = s[i]
  BY <1>3, <1>4, <1>6, <1>7, <1>8, WriteKeeps
<1> HIDE DEF W
<1>12. Len(W) <= k BY <1>3, <1>10, <1>11
<1>13. \A j \in 1 .. Len(W) : W[j].counter => W[j].value \in Int
  BY <1>3, <1>4, <1>5, <1>11
<1>14. ASSUME NEW n \in ShortNames, \A i \in 1 .. k : file[i].name # n PROVE Lacks(W, n)
  <2>1. n # name BY <1>1, <1>10, <1>14
  <2>2. Lacks(s, n) BY <1>1, <1>14 DEF PrefixLoaded
  <2> QED BY <1>11, <2>1, <2>2
<1>15. ASSUME NEW n \in ShortNames, NEW i \in 1 .. k, OnlyOne(file, n, i)
       PROVE  \E j \in 1 .. Len(W) : OnlyOne(W, n, j) /\ W[j] = LoadedItem(file[i])
  <2>1. \A j \in 1 .. Len(file) : file[j].name = n <=> j = i BY <1>15 DEF OnlyOne
  <2>2. CASE i = k
    <3>1. n = name BY <1>1, <1>10, <2>1, <2>2
    <3>2. \A j \in 1 .. b : file[j].name # n BY <1>1, <2>1, <2>2
    <3>3. Lacks(s, n) BY <3>2 DEF PrefixLoaded
    <3> QED BY <1>10, <1>11, <2>2, <3>1, <3>3 DEF x
  <2>3. CASE i \in 1 .. b
    <3>1. n # name BY <1>1, <1>10, <2>1, <2>3
    <3>2. PICK j \in 1 .. Len(s) : OnlyOne(s, n, j) /\ s[j] = LoadedItem(file[i])
      BY <1>15, <2>3 DEF PrefixLoaded
    <3> QED BY <1>11, <3>1, <3>2
  <2> QED BY <1>1, <2>2, <2>3
<1>16. PrefixLoaded(file, k, W) BY <1>11, <1>12, <1>13, <1>14, <1>15 DEF PrefixLoaded
<1> QED BY <1>9, <1>10, <1>16

\* What is loaded is what was saved, but for counters with too many digits.
LEMMA LoadRight ==
  ASSUME NEW file, NEW w, WantedRight(w), FileRight(file, w), NEW cut, LossyIn(w) \subseteq cut
  PROVE  SlotsRight(LoadedVars(file), w, cut)
<1>1. /\ file \in Seq(Item) /\ Len(file) <= MAX_VARS /\ Len(file) \in Nat
      /\ \A i \in 1 .. Len(file) : file[i].counter => file[i].value \in Int
  BY DEF FileRight
<1>2. PICK L : UpTo(file, Len(file), L) /\ LoadedVars(file) = L[Len(file)] BY <1>1, LoadFacts
<1>3. \A k \in 0 .. Len(file) : L[k] = IF k = 0 THEN <<>> ELSE LoadOne(L[k - 1], file[k])
  BY <1>2, Zenon DEF UpTo
<1>4. \A k \in 0 .. Len(file) : PrefixLoaded(file, k, L[k])
  <2> DEFINE T == {k \in 0 .. Len(file) : ~PrefixLoaded(file, k, L[k])}
  <2>1. CASE T = {} BY <2>1
  <2>2. CASE T # {}
    <3>1. T \in SUBSET Nat OBVIOUS
    <3>2. PICK k \in T : \A j \in T : k <= j
      <4> HIDE DEF T
      <4> QED BY <2>2, <3>1, LeastPosition
    <3>3. k \in 0 .. Len(file) /\ ~PrefixLoaded(file, k, L[k]) OBVIOUS
    <3>4. CASE k = 0
      <4>1. L[0] = <<>> BY <1>1, <1>3
      <4>2. <<>> \in Seq(VarSlot) /\ Len(<<>>) = 0 /\ 0 <= MAX_VARS BY VarSizes
      <4>3. PrefixLoaded(file, 0, <<>>) BY <4>2 DEF PrefixLoaded, Lacks
      <4> QED BY <3>3, <3>4, <4>1, <4>3
    <3>5. CASE k # 0
      <4> DEFINE b == k - 1
      <4>1. b \in Nat /\ b \in 0 .. Len(file) /\ ~(k <= b) /\ b + 1 <= Len(file) /\ b + 1 = k
        BY <1>1, <3>3, <3>5
      <4>2. PrefixLoaded(file, b, L[b]) BY <3>2, <4>1
      <4>3. L[k] = LoadOne(L[b], file[k]) BY <1>3, <3>3, <3>5
      <4>4. k \in 1 .. Len(file) BY <3>3, <3>5
      <4>5. file[k].counter => file[k].value \in Int BY <1>1, <4>4
      <4> HIDE DEF b
      <4>6. PrefixLoaded(file, b + 1, LoadOne(L[b], file[b + 1]))
        BY <1>1, <4>1, <4>2, <4>5, OneItemMore
      <4> QED BY <3>3, <4>1, <4>3, <4>6
    <3> QED BY <3>4, <3>5
  <2> QED BY <2>1, <2>2
<1> DEFINE s == LoadedVars(file)
           N == Len(file)
<1>5. PrefixLoaded(file, N, s) BY <1>1, <1>2, <1>4
<1>6. s \in Seq(VarSlot) /\ Len(s) <= MAX_VARS /\ \A i \in 1 .. Len(s) : s[i].counter => s[i].value \in Int
  BY <1>5 DEF PrefixLoaded
<1> HIDE DEF s
<1>7. ASSUME NEW n \in ShortNames, ~w[n].there PROVE Lacks(s, n)
  <2>1. Lacks(file, n) BY <1>7 DEF FileRight
  <2> QED BY <1>5, <2>1 DEF PrefixLoaded, Lacks
<1>8. ASSUME NEW n \in ShortNames, w[n].there
      PROVE  \E i \in 1 .. Len(s) : OnlyOne(s, n, i) /\ (n \notin cut => Expect(s[i]) = w[n])
  <2>1. PICK i \in 1 .. Len(file) :
          /\ OnlyOne(file, n, i)
          /\ n \notin LossyIn(w) => file[i].value = w[n].value /\ file[i].counter = w[n].counter
    BY <1>8 DEF FileRight
  <2>2. PICK j \in 1 .. Len(s) : OnlyOne(s, n, j) /\ s[j] = LoadedItem(file[i])
    BY <1>5, <2>1 DEF PrefixLoaded
  <2>3. ASSUME n \notin cut PROVE Expect(s[j]) = w[n]
    <3>1. n \notin LossyIn(w) BY <2>3
    <3>2. file[i].value = w[n].value /\ file[i].counter = w[n].counter BY <2>1, <3>1
    <3>3. /\ w[n] \in Wanted /\ w[n].numeric \in Int /\ w[n].counter \in BOOLEAN
          /\ IF w[n].counter THEN w[n].value = Printed(w[n].numeric) ELSE w[n].numeric = 0
      BY <1>8 DEF WantedRight, Wanted
    <3>4. (IF file[i].counter THEN file[i].value ELSE 0) = w[n].numeric
      <4>1. CASE ~w[n].counter BY <3>2, <3>3, <4>1
      <4>2. CASE w[n].counter
        <5>1. Precision \in Nat /\ ~(Abs(w[n].numeric) >= Precision)
          BY <1>8, <3>1, <4>2, VarSizes DEF LossyIn
        <5> DEFINE x == w[n].numeric
        <5>2. x \in Int /\ ~(Abs(x) >= Precision) BY <3>3, <5>1
        <5>3. Printed(x) = x
          <6> HIDE DEF x
          <6> QED BY <5>1, <5>2 DEF Printed, PrintedAbs, Abs
        <5> QED BY <3>2, <3>3, <4>2, <5>3
      <4> QED BY <3>3, <4>1, <4>2
    <3>5. /\ s[j].value = w[n].value /\ s[j].counter = w[n].counter
          /\ s[j].numeric = w[n].numeric
      <4>1. /\ LoadedItem(file[i]).value = file[i].value /\ LoadedItem(file[i]).counter = file[i].counter
            /\ LoadedItem(file[i]).numeric = IF file[i].counter THEN file[i].value ELSE 0
        BY DEF LoadedItem
      <4> QED BY <2>2, <3>2, <3>4, <4>1, Zenon
    <3>6. Expect(s[j]) = [value |-> w[n].value, numeric |-> w[n].numeric,
                          counter |-> w[n].counter, there |-> w[n].there]
      <4>1. w[n].there = TRUE BY <1>8, <3>3 DEF Wanted
      <4> QED BY <3>5, <4>1, Zenon DEF Expect
    <3>7. w[n] = [value |-> w[n].value, numeric |-> w[n].numeric,
                  counter |-> w[n].counter, there |-> w[n].there]
      BY <3>3 DEF Wanted
    <3> QED BY <3>6, <3>7
  <2> QED BY <2>2, <2>3
<1> QED BY <1>6, <1>7, <1>8 DEF SlotsRight, s

LEMMA PrintedInt == ASSUME NEW x \in Int PROVE Printed(x) \in Int
BY DEF Printed, PrintedAbs

LEMMA AssignKeeps ==
  ASSUME VarsRight, NEW name \in ShortNames \cup {LongName, CutName}, NEW x \in VarSlot,
         x.name = Stored(name), IF x.counter THEN x.value = Printed(x.numeric) ELSE x.numeric = 0,
         Assign(name, x)
  PROVE  VarsRight'
<1> DEFINE W == Write(store, name, x)
<1>1. /\ CanWrite(store, name) /\ store' = W
      /\ want' = [n \in ShortNames |-> IF n = name THEN Expect(x) ELSE want[n]]
      /\ lossy' = lossy \ {name} /\ varFile' = varFile /\ wantSaved' = wantSaved
  BY DEF Assign
<1>2. /\ WantedRight(want) /\ WantedRight(wantSaved)
      /\ SlotsRight(store, want, lossy) /\ FileRight(varFile, wantSaved)
      /\ \A n \in lossy : n \in ShortNames => /\ want[n] = wantSaved[n]
                                              /\ want[n].there => n \in LossyIn(want)
  BY DEF VarsRight
<1>3. /\ store \in Seq(VarSlot) /\ Len(store) <= MAX_VARS /\ want \in [ShortNames -> Wanted]
      /\ \A i \in 1 .. Len(store) : store[i].counter => store[i].value \in Int
      /\ \A n \in ShortNames :
           IF want[n].there THEN \E i \in 1 .. Len(store) : /\ OnlyOne(store, n, i)
                                                            /\ n \notin lossy => Expect(store[i]) = want[n]
           ELSE Lacks(store, n)
  BY <1>2 DEF SlotsRight, WantedRight
<1>4. /\ x.value \in VarValue /\ x.numeric \in Int /\ x.counter \in BOOLEAN
      /\ x.counter => x.value \in Int
  BY PrintedInt DEF VarSlot
<1>5. /\ Expect(x) \in Wanted /\ Expect(x).there
      /\ Expect(x).value = x.value /\ Expect(x).numeric = x.numeric /\ Expect(x).counter = x.counter
  <2>1. Expect(x) \in Wanted BY <1>4 DEF Expect, Wanted
  <2>2. Expect(x).there = TRUE /\ Expect(x).value = x.value /\ Expect(x).numeric = x.numeric
        /\ Expect(x).counter = x.counter
    BY Zenon DEF Expect
  <2> QED BY <2>1, <2>2, Zenon
<1>6. /\ W \in Seq(VarSlot) /\ Len(W) <= MAX_VARS
      /\ \A i \in 1 .. Len(W) : W[i] = x \/ (i \in 1 .. Len(store) /\ W[i] = store[i])
      /\ name \in ShortNames /\ (Lacks(store, name) \/ \E i \in 1 .. Len(store) : OnlyOne(store, name, i)) =>
           \E i \in 1 .. Len(W) : OnlyOne(W, name, i) /\ W[i] = x
      /\ \A n \in ShortNames \ {name} : Lacks(store, n) => Lacks(W, n)
      /\ \A n \in ShortNames \ {name} : \A i \in 1 .. Len(store) :
           OnlyOne(store, n, i) => i \in 1 .. Len(W) /\ OnlyOne(W, n, i) /\ W[i] = store[i]
  BY <1>1, <1>3, WriteKeeps
<1>7. /\ \A n \in ShortNames \ {name} : want'[n] = want[n]
      /\ name \in ShortNames => want'[name] = Expect(x)
  BY <1>1
<1> HIDE DEF W
<1>8. WantedRight(want')
  <2>1. want' \in [ShortNames -> Wanted] BY <1>1, <1>3, <1>5
  <2>2. \A n \in ShortNames : want'[n].there =>
          IF want'[n].counter THEN want'[n].value = Printed(want'[n].numeric)
          ELSE want'[n].numeric = 0
    <3> SUFFICES ASSUME NEW n \in ShortNames, want'[n].there
                 PROVE  IF want'[n].counter THEN want'[n].value = Printed(want'[n].numeric)
                        ELSE want'[n].numeric = 0
      OBVIOUS
    <3>1. CASE n = name BY <1>5, <1>7, <3>1
    <3>2. CASE n # name BY <1>2, <1>7, <3>2 DEF WantedRight
    <3> QED BY <3>1, <3>2
  <2> QED BY <2>1, <2>2 DEF WantedRight
<1>9. SlotsRight(W, want', lossy')
  <2>1. \A i \in 1 .. Len(W) : W[i].counter => W[i].value \in Int BY <1>3, <1>4, <1>6
  <2>2. ASSUME NEW n \in ShortNames
        PROVE  IF want'[n].there
               THEN \E i \in 1 .. Len(W) : OnlyOne(W, n, i) /\ (n \notin lossy' => Expect(W[i]) = want'[n])
               ELSE Lacks(W, n)
    <3>1. CASE n = name
      <4>1. Lacks(store, n) \/ \E i \in 1 .. Len(store) : OnlyOne(store, n, i) BY <1>3
      <4>2. PICK i \in 1 .. Len(W) : OnlyOne(W, n, i) /\ W[i] = x BY <1>6, <3>1, <4>1
      <4>3. want'[n] = Expect(x) /\ want'[n].there BY <1>5, <1>7, <3>1
      <4> QED BY <4>2, <4>3
    <3>2. CASE n # name
      <4>1. want'[n] = want[n] /\ n \in ShortNames \ {name} BY <1>7, <3>2
      <4>2. n \in lossy' <=> n \in lossy BY <1>1, <3>2
      <4>3. CASE want[n].there
        <5>1. PICK i \in 1 .. Len(store) : OnlyOne(store, n, i)
                                           /\ (n \notin lossy => Expect(store[i]) = want[n])
          BY <1>3, <4>3
        <5>2. i \in 1 .. Len(W) /\ OnlyOne(W, n, i) /\ W[i] = store[i] BY <1>6, <4>1, <5>1
        <5> QED BY <4>1, <4>2, <4>3, <5>1, <5>2
      <4>4. CASE ~want[n].there
        <5>1. Lacks(W, n) BY <1>3, <1>6, <4>1, <4>4
        <5> QED BY <4>1, <4>4, <5>1
      <4> QED BY <4>3, <4>4
    <3> QED BY <3>1, <3>2
  <2> QED BY <1>6, <2>1, <2>2 DEF SlotsRight
<1>10. ASSUME NEW n \in lossy', n \in ShortNames
       PROVE  want'[n] = wantSaved'[n] /\ (want'[n].there => n \in LossyIn(want'))
  <2>3. n \in lossy /\ n # name BY <1>1, <1>10
  <2>4. want'[n] = want[n] BY <1>7, <1>10, <2>3
  <2>1. n \in lossy /\ want'[n] = want[n] BY <2>3, <2>4
  <2>2. want[n] = wantSaved[n] /\ (want[n].there => n \in LossyIn(want)) BY <1>2, <1>10, <2>1
  <2> QED BY <1>1, <1>10, <2>1, <2>2 DEF LossyIn
<1> QED BY <1>1, <1>2, <1>8, <1>9, <1>10 DEF VarsRight

\* What is saved is what is wanted, but for counters with too many digits.
LEMMA SaveRight == ASSUME VarsRight PROVE FileRight(SavedVars, want)
<1> DEFINE N == Len(store)
           file == SavedVars
           item(i) == [name |-> store[i].name, value |-> store[i].value,
                       counter |-> store[i].counter]
<1>1. /\ store \in Seq(VarSlot) /\ N <= MAX_VARS /\ N \in Nat
      /\ \A i \in 1 .. N : store[i].counter => store[i].value \in Int
      /\ \A n \in ShortNames :
           IF want[n].there THEN \E i \in 1 .. N : /\ OnlyOne(store, n, i)
                                                   /\ n \notin lossy => Expect(store[i]) = want[n]
           ELSE Lacks(store, n)
      /\ \A n \in lossy : n \in ShortNames => (want[n].there => n \in LossyIn(want))
  BY DEF VarsRight, SlotsRight
<1>2. file = [i \in 1 .. N |-> item(i)] BY Zenon DEF SavedVars
<1>3. \A i \in 1 .. N : item(i) \in Item
  <2> SUFFICES ASSUME NEW i \in 1 .. N PROVE item(i) \in Item OBVIOUS
  <2>1. store[i] \in VarSlot BY <1>1
  <2> QED BY <2>1 DEF VarSlot, Item
<1>4. \A i \in 1 .. N : /\ item(i).name = store[i].name /\ item(i).value = store[i].value
                        /\ item(i).counter = store[i].counter
  OBVIOUS
<1> HIDE DEF item, file
<1>5. file \in Seq(Item) /\ Len(file) = N /\ \A i \in 1 .. N : file[i] = item(i)
  BY <1>1, <1>2, <1>3
<1>6. \A i \in 1 .. N : /\ file[i].name = store[i].name /\ file[i].value = store[i].value
                        /\ file[i].counter = store[i].counter
  BY <1>4, <1>5
<1>7. N = Len(store) OBVIOUS
<1> HIDE DEF N
<1>8. ASSUME NEW n \in ShortNames, want[n].there
      PROVE  \E i \in 1 .. Len(file) :
               /\ OnlyOne(file, n, i)
               /\ n \notin LossyIn(want) => file[i].value = want[n].value /\ file[i].counter = want[n].counter
  <2>1. PICK i \in 1 .. N : OnlyOne(store, n, i) /\ (n \notin lossy => Expect(store[i]) = want[n])
    BY <1>1, <1>8
  <2>2. OnlyOne(file, n, i) BY <1>5, <1>6, <1>7, <2>1 DEF OnlyOne
  <2>3. ASSUME n \notin LossyIn(want)
        PROVE  file[i].value = want[n].value /\ file[i].counter = want[n].counter
    <3>1. Expect(store[i]) = want[n] BY <1>1, <1>8, <2>1, <2>3
    <3>2. Expect(store[i]).value = store[i].value /\ Expect(store[i]).counter = store[i].counter
      BY Zenon DEF Expect
    <3> QED BY <1>6, <3>1, <3>2
  <2> QED BY <1>5, <2>1, <2>2, <2>3
<1>9. ASSUME NEW n \in ShortNames, ~want[n].there PROVE Lacks(file, n)
  BY <1>1, <1>5, <1>6, <1>7, <1>9 DEF Lacks
<1>10. \A i \in 1 .. Len(file) : file[i].counter => file[i].value \in Int BY <1>1, <1>5, <1>6
<1> QED BY <1>1, <1>5, <1>8, <1>9, <1>10 DEF FileRight, file

LEMMA StartRight ==
  ASSUME VarsRight, NEW file, NEW w, WantedRight(w), FileRight(file, w), Start(file, w),
         \A n \in lossy : n \in ShortNames => (w[n].there => n \in LossyIn(w))
  PROVE  VarsRight'
<1>1. /\ store' = LoadedVars(file) /\ varFile' = file /\ want' = w /\ wantSaved' = w
      /\ lossy' = lossy \cup LossyIn(w)
  BY DEF Start
<1>2. SlotsRight(store', w, lossy') BY <1>1, LoadRight
<1>3. \A n \in lossy' : n \in ShortNames => (w[n].there => n \in LossyIn(w)) BY <1>1
<1> QED BY <1>1, <1>2, <1>3 DEF VarsRight

\* Every name that fits reads back as it was last written, whatever other names, deletions,
\* restarts and crashes there are (Variables_Get, Counter_Get): only a counter that was saved
\* with too many digits may differ.
THEOREM VariablesRight == VarSpec => []VarsFaithful
<1>1. VarInit => VarsRight
  <2> SUFFICES ASSUME VarInit PROVE VarsRight OBVIOUS
  <2>1. /\ store = <<>> /\ varFile = <<>> /\ lossy = {} /\ want = [n \in ShortNames |-> Absent]
        /\ wantSaved = want
    BY DEF VarInit
  <2>2. Absent \in Wanted BY DEF Absent, Wanted, VarValue
  <2>3. ~Absent.there BY DEF Absent
  <2>4. WantedRight(want) BY <2>1, <2>2, <2>3 DEF WantedRight
  <2>5. <<>> \in Seq(VarSlot) /\ <<>> \in Seq(Item) /\ Len(<<>>) = 0 /\ 0 <= MAX_VARS BY VarSizes
  <2>6. SlotsRight(store, want, lossy) /\ FileRight(varFile, wantSaved)
    BY <2>1, <2>3, <2>5 DEF SlotsRight, FileRight, Lacks
  <2> QED BY <2>1, <2>4, <2>6 DEF VarsRight
<1>2. VarsRight /\ [VarNext]_varVars => VarsRight'
  <2> SUFFICES ASSUME VarsRight, [VarNext]_varVars PROVE VarsRight' OBVIOUS
  <2> DEFINE Names == ShortNames \cup {LongName, CutName}
  <2>1. \A n \in Names : Stored(n) \in StoredNames BY DEF Stored, StoredNames
  <2>2. ASSUME NEW name \in Names, NEW v \in VarValues, Variables_Set(name, v) PROVE VarsRight'
    <3> DEFINE x == Plain(name, v)
    <3>1. /\ x.name = Stored(name) /\ x.value = v /\ x.numeric = 0 /\ x.counter = FALSE
          /\ x \in VarSlot
      BY <2>1 DEF Plain, VarSlot, VarValue
    <3>2. Assign(name, x) BY <2>2 DEF Variables_Set
    <3> HIDE DEF x
    <3> QED BY <3>1, <3>2, AssignKeeps
  <2>3. ASSUME NEW name \in Names, NEW n \in Int, Assign(name, Counter(name, n)) PROVE VarsRight'
    <3> DEFINE x == Counter(name, n)
    <3>1. Printed(n) \in Int BY PrintedInt
    <3>2. /\ x.name = Stored(name) /\ x.value = Printed(n) /\ x.numeric = n /\ x.counter = TRUE
      BY DEF Counter
    <3>3. x \in VarSlot BY <2>1, <3>1 DEF Counter, VarSlot, VarValue
    <3>4. Assign(name, x) BY <2>3
    <3> HIDE DEF x
    <3> QED BY <3>2, <3>3, <3>4, AssignKeeps
  <2>4. ASSUME NEW name \in Names, NEW op \in {"reset", "set", "decrement", "increment"},
               NEW d \in Deltas, action_increment_counter(name, op, d)
        PROVE  VarsRight'
    <3>1. d \in Int /\ -d \in Int /\ 0 \in Int BY VarSizes
    <3>2. Numeric(store, name) \in Int
      <4>1. store \in Seq(VarSlot) BY DEF VarsRight, SlotsRight
      <4>2. CASE Found(store, name) = {} BY <4>2 DEF Numeric
      <4>3. CASE Found(store, name) # {}
        <5>1. First(store, name) \in 1 .. Len(store) BY <4>1, <4>3, FirstFound DEF Found
        <5>2. store[First(store, name)] \in VarSlot BY <4>1, <5>1
        <5>3. \A y \in VarSlot : y.numeric \in Int BY DEF VarSlot
        <5> QED BY <4>3, <5>2, <5>3 DEF Numeric
      <4> QED BY <4>2, <4>3
    <3>3. \E n \in Int : Assign(name, Counter(name, n))
      <4>1. CASE op = "reset"
        BY <2>4, <3>1, <4>1 DEF action_increment_counter, Counter_Set
      <4>2. CASE op = "set"
        BY <2>4, <3>1, <4>2 DEF action_increment_counter, Counter_Set
      <4>3. CASE op = "decrement"
        <5>1. Numeric(store, name) + (-d) \in Int BY <3>1, <3>2
        <5> QED BY <2>4, <4>3, <5>1 DEF action_increment_counter, Counter_Increment
      <4>4. CASE op = "increment"
        <5>1. Numeric(store, name) + d \in Int BY <3>1, <3>2
        <5> QED BY <2>4, <4>4, <5>1 DEF action_increment_counter, Counter_Increment
      <4> QED BY <4>1, <4>2, <4>3, <4>4
    <3> QED BY <2>3, <3>3
  <2>5. ASSUME NEW name \in Names, Variables_Delete(name) PROVE VarsRight'
    <3> DEFINE f == First(store, name)
               W == Without(store, f)
    <3>1. /\ Found(store, name) # {} /\ store' = W
          /\ want' = [n \in ShortNames |-> IF n = name THEN Absent ELSE want[n]]
          /\ lossy' = lossy \ {name} /\ varFile' = varFile /\ wantSaved' = wantSaved
      BY <2>5 DEF Variables_Delete
    <3>2. /\ WantedRight(want) /\ WantedRight(wantSaved)
          /\ FileRight(varFile, wantSaved)
          /\ store \in Seq(VarSlot) /\ Len(store) <= MAX_VARS /\ want \in [ShortNames -> Wanted]
          /\ \A i \in 1 .. Len(store) : store[i].counter => store[i].value \in Int
          /\ \A n \in ShortNames :
               IF want[n].there THEN \E i \in 1 .. Len(store) : /\ OnlyOne(store, n, i)
                                                                /\ n \notin lossy => Expect(store[i]) = want[n]
               ELSE Lacks(store, n)
          /\ \A n \in lossy : n \in ShortNames => /\ want[n] = wantSaved[n]
                                                  /\ want[n].there => n \in LossyIn(want)
      BY DEF VarsRight, SlotsRight, WantedRight
    <3>3. f \in 1 .. Len(store) /\ store[f].name = name BY <3>1, <3>2, FirstFound DEF Found
    <3> HIDE DEF f
    <3>4. /\ W \in Seq(VarSlot) /\ Len(W) <= MAX_VARS
          /\ \A i \in 1 .. Len(W) : \E j \in 1 .. Len(store) : W[i] = store[j]
          /\ OnlyOne(store, name, f) => Lacks(W, name)
          /\ \A n : Lacks(store, n) => Lacks(W, n)
          /\ \A n : \A i \in 1 .. Len(store) : n # name /\ OnlyOne(store, n, i) =>
               \E j \in 1 .. Len(W) : OnlyOne(W, n, j) /\ W[j] = store[i]
      BY <3>2, <3>3, WithoutKeeps
    <3> HIDE DEF W
    <3>5. /\ \A n \in ShortNames \ {name} : want'[n] = want[n]
          /\ name \in ShortNames => want'[name] = Absent
      BY <3>1
    <3>6. Absent \in Wanted /\ ~Absent.there BY DEF Absent, Wanted, VarValue
    <3>7. WantedRight(want')
      <4>1. want' \in [ShortNames -> Wanted] BY <3>1, <3>2, <3>6
      <4> QED BY <3>2, <3>5, <3>6, <4>1 DEF WantedRight
    <3>8. ASSUME NEW n \in ShortNames
          PROVE  IF want'[n].there
                 THEN \E i \in 1 .. Len(W) : OnlyOne(W, n, i) /\ (n \notin lossy' => Expect(W[i]) = want'[n])
                 ELSE Lacks(W, n)
      <4>1. CASE n = name
        <5>1. ~want'[n].there BY <3>5, <3>6, <4>1
        <5>2. ~Lacks(store, n) BY <3>3, <4>1 DEF Lacks
        <5>3. PICK i \in 1 .. Len(store) : OnlyOne(store, n, i) BY <3>2, <5>2
        <5>4. i = f BY <3>3, <4>1, <5>3 DEF OnlyOne
        <5> QED BY <3>4, <4>1, <5>1, <5>3, <5>4
      <4>2. CASE n # name
        <5>1. want'[n] = want[n] /\ (n \in lossy' <=> n \in lossy) BY <3>1, <3>5, <4>2
        <5>2. CASE want[n].there
          <6>1. PICK i \in 1 .. Len(store) : OnlyOne(store, n, i)
                                             /\ (n \notin lossy => Expect(store[i]) = want[n])
            BY <3>2, <5>2
          <6>2. PICK j \in 1 .. Len(W) : OnlyOne(W, n, j) /\ W[j] = store[i]
            BY <3>4, <4>2, <6>1
          <6> QED BY <5>1, <5>2, <6>1, <6>2
        <5>3. CASE ~want[n].there
          <6>1. Lacks(W, n) BY <3>2, <3>4, <5>3
          <6> QED BY <5>1, <5>3, <6>1
        <5> QED BY <5>2, <5>3
      <4> QED BY <4>1, <4>2
    <3>9. SlotsRight(W, want', lossy')
      <4>1. \A i \in 1 .. Len(W) : W[i].counter => W[i].value \in Int BY <3>2, <3>4
      <4> QED BY <3>4, <3>8, <4>1 DEF SlotsRight
    <3>10. ASSUME NEW n \in lossy', n \in ShortNames
           PROVE  want'[n] = wantSaved'[n] /\ (want'[n].there => n \in LossyIn(want'))
      <4>1. n \in lossy /\ want'[n] = want[n] BY <3>1, <3>5, <3>10
      <4>2. want[n] = wantSaved[n] /\ (want[n].there => n \in LossyIn(want)) BY <3>2, <3>10, <4>1
      <4> QED BY <3>1, <3>10, <4>1, <4>2 DEF LossyIn
    <3> QED BY <3>1, <3>2, <3>7, <3>9, <3>10 DEF VarsRight
  <2>6. CASE Variables_Flush
    <3>1. /\ varFile' = SavedVars /\ wantSaved' = want
          /\ store' = store /\ want' = want /\ lossy' = lossy
      BY <2>6 DEF Variables_Flush
    <3>2. FileRight(SavedVars, want) BY SaveRight
    <3> QED BY <3>1, <3>2 DEF VarsRight
  <2>7. /\ WantedRight(want) /\ WantedRight(wantSaved) /\ FileRight(varFile, wantSaved)
        /\ \A n \in lossy : n \in ShortNames => /\ want[n].there => n \in LossyIn(want)
                                                /\ wantSaved[n].there => n \in LossyIn(wantSaved)
    BY DEF VarsRight, LossyIn
  <2>8. ASSUME Start(varFile, wantSaved) PROVE VarsRight' BY <2>7, <2>8, StartRight
  <2>9. CASE VarStop
    <3>1. FileRight(SavedVars, want) BY SaveRight
    <3>2. CASE dirty
      <4>1. Start(SavedVars, want) BY <2>9, <3>2 DEF VarStop
      <4> QED BY <2>7, <3>1, <4>1, StartRight
    <3>3. CASE ~dirty BY <2>8, <2>9, <3>3 DEF VarStop
    <3> QED BY <3>2, <3>3
  <2>10. CASE VarCrash
    <3>1. CASE Start(varFile, wantSaved) BY <2>8, <3>1
    <3>2. CASE Start(<<>>, [n \in ShortNames |-> Absent])
      <4> DEFINE none == [n \in ShortNames |-> Absent]
      <4>1. Absent \in Wanted /\ ~Absent.there BY DEF Absent, Wanted, VarValue
      <4>2. WantedRight(none) BY <4>1 DEF WantedRight
      <4>3. <<>> \in Seq(Item) /\ Len(<<>>) = 0 /\ 0 <= MAX_VARS BY VarSizes
      <4>4. \A n \in ShortNames : ~none[n].there BY <4>1
      <4>5. FileRight(<<>>, none) BY <4>3, <4>4 DEF FileRight, Lacks
      <4> HIDE DEF none
      <4>6. Start(<<>>, none) BY <3>2 DEF none
      <4> QED BY <4>2, <4>4, <4>5, <4>6, StartRight
    <3> QED BY <2>10, <3>1, <3>2 DEF VarCrash
  <2>11. CASE UNCHANGED varVars BY <2>11 DEF varVars, VarsRight
  <2> QED BY <2>2, <2>4, <2>5, <2>6, <2>9, <2>10, <2>11 DEF VarNext
<1>3. VarsRight => VarsFaithful
  <2> SUFFICES ASSUME VarsRight, NEW n \in ShortNames
               PROVE  IF want[n].there
                      THEN /\ Cardinality(Found(store, n)) = 1
                           /\ n \notin lossy => Expect(store[First(store, n)]) = want[n]
                      ELSE Found(store, n) = {}
    BY DEF VarsFaithful
  <2>1. /\ store \in Seq(VarSlot)
        /\ IF want[n].there THEN \E i \in 1 .. Len(store) : /\ OnlyOne(store, n, i)
                                                            /\ n \notin lossy => Expect(store[i]) = want[n]
           ELSE Lacks(store, n)
    BY DEF VarsRight, SlotsRight
  <2>2. CASE want[n].there
    <3>1. PICK i \in 1 .. Len(store) : OnlyOne(store, n, i)
                                       /\ (n \notin lossy => Expect(store[i]) = want[n])
      BY <2>1, <2>2
    <3>2. Found(store, n) = {i} /\ First(store, n) = i BY <2>1, <3>1, OnlyFound
    <3>3. Cardinality({i}) = 1 BY FS_Singleton
    <3> QED BY <2>2, <3>1, <3>2, <3>3
  <2>3. CASE ~want[n].there
    <3>1. Found(store, n) = {} BY <2>1, <2>3 DEF Lacks, Found
    <3> QED BY <2>3, <3>1
  <2> QED BY <2>2, <2>3
<1> QED BY <1>1, <1>2, <1>3, PTL DEF VarSpec

(***************************************************************************)
(* The output ports.                                                       *)
(***************************************************************************)

RuleIds   == {""} \cup {a.rule : a \in OutputActions}
States    == UNION {[S -> BOOLEAN] : S \in SUBSET OutPorts}
OutAction == [rule : RuleIds, kind : {"plain", "timed", "while_active"}, set : States]
OutPlaces == {"idle", "read", "claim", "cancel", "post", "add", "restore", "undo", "remove"}
OutCall   == [at : OutPlaces, id : Nat,
              act : OutAction, restore : States, unknown : SUBSET OutPorts,
              cancel : SUBSET OutPorts]
Entry     == [used : BOOLEAN, id : Nat, by_timer : BOOLEAN, restore : States]
Sequence  == [id : Nat, back : BOOLEAN]
Many(t)   == Cardinality(PortsOfCall(t)) > 1

\* Calls: what they restore is of the ports they are for, and they are where their kind takes
\* them.
CallRight(t) ==
  /\ DOMAIN out[t].restore = PortsOfCall(t) /\ IsFiniteSet(PortsOfCall(t))
  /\ out[t].at = "idle" => out[t].act.kind = "plain" /\ PortsOfCall(t) = {}
  /\ out[t].at \in {"claim", "cancel", "restore", "undo", "remove"} => out[t].act.kind = "timed"
  /\ out[t].at \in {"undo", "remove"} => t = "main"
  /\ out[t].at \in {"read", "add"} => out[t].act.kind # "plain"
  /\ out[t].at = "cancel" => Many(t) /\ out[t].cancel \subseteq PortsOfCall(t)
  /\ out[t].at \notin {"idle", "restore"} => out[t].id # 0
OutTypes ==
  /\ level \in [OutPorts -> BOOLEAN] /\ base \in [OutPorts -> BOOLEAN]
  /\ sequence \in [OutPorts -> Sequence] /\ pending \in [OutSlots -> Entry]
  /\ lone \subseteq Entry /\ wa \in Seq([rule : RuleIds, restore : States])
  /\ out \in [OutThreads -> OutCall] /\ outCalls \in Nat
  /\ \A t \in OutThreads : CallRight(t)
  /\ \A i \in OutSlots : IsFiniteSet(DOMAIN pending[i].restore)

\* An entry that is being undone keeps its place in the table, if not what is in it.
Placed == out["main"].at \in {"undo", "remove"} => out["main"].id \in 1..Len(wa)

\* The call of t is for port p, and will have the port change back.
Covers(t, p)  == p \in PortsOfCall(t) /\ out[t].act.kind # "plain"
\* The call of t has taken p from the entries that had it.
Claimed(t, p) == /\ p \in PortsOfCall(t) /\ out[t].act.kind = "timed"
                 /\ out[t].at \in {"cancel", "post", "add"}

\* A port that no excuse holds for belongs to one call at most and to one entry at most;
\* whatever will change it back gives it the state base; a sequence that runs on it has its
\* entry, unless a call has just taken it from there.
PortAlone(p) ==
  /\ \A t, u \in OutThreads : p \in PortsOfCall(t) /\ p \in PortsOfCall(u) => t = u
  /\ \A i, j \in InPending(p) : i = j
  /\ \A l \in lone : p \notin DOMAIN l.restore
PortHolds(p) ==
  /\ \A i \in InPending(p) : pending[i].restore[p] = base[p]
  /\ \A i \in InWa(p) : wa[i].restore[p] = base[p]
  /\ \A t \in OutThreads : Covers(t, p) /\ p \notin out[t].unknown => out[t].restore[p] = base[p]
  /\ sequence[p].id # 0 => sequence[p].back = base[p]
PortSequence(p) ==
  sequence[p].id # 0 =>
    \/ \E i \in InPending(p) : ~pending[i].by_timer /\ pending[i].id = sequence[p].id
    \/ \E t \in OutThreads : Claimed(t, p)
PortCall(t, p) ==
  /\ Covers(t, p) /\ p \in out[t].unknown =>
       /\ out[t].at = "read" /\ level[p] = base[p] /\ sequence[p].id = 0
       /\ InPending(p) = {} /\ InWa(p) = {}
  /\ Claimed(t, p) =>
       /\ InPending(p) = {}
       /\ Many(t) /\ sequence[p].id # 0 => out[t].at = "cancel" /\ p \in out[t].cancel
       /\ ~Many(t) /\ out[t].at = "add" => /\ sequence[p].id \in {0, out[t].id}
                                           /\ sequence[p].id = 0 => level[p] = base[p]
  /\ Covers(t, p) /\ out[t].at = "remove" => level[p] = base[p]
PortCalls(p) == \A t \in OutThreads : PortCall(t, p)
PortRight(p) ==
  /\ PortAlone(p) /\ PortHolds(p) /\ PortSequence(p) /\ PortCalls(p)
  /\ ~HeldPort(p) => level[p] = base[p]
PortsRight == OutTypes /\ \A p \in OutPorts \ spoilt : PortRight(p)

\* The lowest of a set of slots is one of them.
LEMMA LowestIn ==
  ASSUME NEW T \in SUBSET Nat, T # {}
  PROVE  Lowest(T) \in T
<1>1. PICK x \in T : \A y \in T : x <= y BY LeastPosition
<1> QED BY <1>1 DEF Lowest

LEMMA ElementIn ==
  ASSUME NEW S, NEW q \in Seq(S)
  PROVE  Len(q) \in Nat /\ \A i \in 1 .. Len(q) : q[i] \in S
OBVIOUS

\* A call that is not for many ports is for one at most.
LEMMA OneOfFew ==
  ASSUME NEW S, IsFiniteSet(S), NEW p \in S
  PROVE  /\ Cardinality(S) > 1 \/ S = {p}
         /\ S = {p} => ~(Cardinality(S) > 1)
<1>1. Cardinality({p}) = 1 BY FS_Singleton
<1>2. {p} \subseteq S OBVIOUS
<1>3. Cardinality(S) \in Nat /\ Cardinality({p}) <= Cardinality(S)
  BY <1>2, FS_Subset, FS_CardinalityType
<1>4. Cardinality({p}) = Cardinality(S) => {p} = S BY <1>2, FS_Subset
<1> QED BY <1>1, <1>3, <1>4

\* The empty function is the states of no port.
LEMMA NothingIsStates == Nothing \in States /\ DOMAIN Nothing = {} /\ IsFiniteSet(DOMAIN Nothing)
<1>1. Nothing \in [{} -> BOOLEAN] BY DEF Nothing
<1>2. DOMAIN Nothing = {} BY DEF Nothing
<1> QED BY <1>1, <1>2, FS_EmptySet DEF States

LEMMA StatesType ==
  ASSUME NEW f \in States
  PROVE  DOMAIN f \subseteq OutPorts /\ f \in [DOMAIN f -> BOOLEAN] /\ IsFiniteSet(DOMAIN f)
<1>1. PICK S \in SUBSET OutPorts : f \in [S -> BOOLEAN] BY DEF States
<1>2. IsFiniteSet(S) BY FS_Subset, OutputParams
<1> QED BY <1>1, <1>2

LEMMA StatesIn ==
  ASSUME NEW S \in SUBSET OutPorts, NEW f \in [S -> BOOLEAN]
  PROVE  f \in States
BY DEF States

LEMMA ActionType ==
  ASSUME NEW a \in OutputActions
  PROVE  a \in OutAction /\ a.set \in States /\ a.rule \in RuleIds
         /\ a.kind \in {"plain", "timed", "while_active"}
<1>1. a \in [rule : {b.rule : b \in OutputActions}, kind : {"plain", "timed", "while_active"},
             set : States] BY OutputParams DEF States
<1>2. a.rule \in RuleIds BY DEF RuleIds
<1> QED BY <1>1, <1>2 DEF OutAction

\* The other thread's ports, and what a call writes.
LEMMA OthersPorts ==
  ASSUME NEW t \in OutThreads, NEW p
  PROVE  p \notin Meanwhile(t) <=> \A u \in OutThreads : u # t => p \notin PortsOfCall(u)
BY DEF Meanwhile

LEMMA NewCall ==
  ASSUME OutTypes, NEW t \in OutThreads, NEW c \in OutCall, out' = [out EXCEPT ![t] = c]
  PROVE  /\ out' \in [OutThreads -> OutCall] /\ out'[t] = c
         /\ \A u \in OutThreads : u # t => out'[u] = out[u] /\ PortsOfCall(u)' = PortsOfCall(u)
         /\ \A u \in OutThreads : u # t => CallRight(u)'
<1>1. out' \in [OutThreads -> OutCall] /\ out'[t] = c
      /\ \A u \in OutThreads : u # t => out'[u] = out[u]
  BY DEF OutTypes
<1>2. \A u \in OutThreads : u # t => PortsOfCall(u)' = PortsOfCall(u) BY <1>1 DEF PortsOfCall
<1>3. \A u \in OutThreads : u # t => CallRight(u)'
  BY <1>1, <1>2 DEF OutTypes, CallRight, Many
<1> QED BY <1>1, <1>2, <1>3

LEMMA NoCallRight ==
  /\ NoCall \in OutCall /\ DOMAIN NoCall.act.set = {} /\ NoCall.act.kind = "plain"
  /\ NoCall.at = "idle" /\ DOMAIN NoCall.restore = {}
<1>1. "" \in RuleIds BY DEF RuleIds
<1>2. NoCall \in OutCall BY <1>1, NothingIsStates DEF NoCall, OutCall, OutAction, OutPlaces
<1>3. NoCall.act.set = Nothing /\ NoCall.restore = Nothing BY DEF NoCall
<1>4. NoCall.act.kind = "plain" /\ NoCall.at = "idle" BY DEF NoCall
<1> QED BY <1>2, <1>3, <1>4, NothingIsStates

LEMMA CallEnds ==
  ASSUME OutTypes, NEW t \in OutThreads, out' = [out EXCEPT ![t] = NoCall]
  PROVE  /\ out' \in [OutThreads -> OutCall] /\ \A u \in OutThreads : CallRight(u)'
         /\ out'[t] = NoCall /\ PortsOfCall(t)' = {}
         /\ \A u \in OutThreads : u # t => out'[u] = out[u] /\ PortsOfCall(u)' = PortsOfCall(u)
<1>1. /\ out' \in [OutThreads -> OutCall] /\ out'[t] = NoCall
      /\ \A u \in OutThreads : u # t => out'[u] = out[u] /\ PortsOfCall(u)' = PortsOfCall(u)
      /\ \A u \in OutThreads : u # t => CallRight(u)'
  BY NewCall, NoCallRight
<1>2. PortsOfCall(t)' = {} BY <1>1, NoCallRight DEF PortsOfCall
<1>3. CallRight(t)' BY <1>1, <1>2, FS_EmptySet, NothingIsStates DEF CallRight, NoCall
<1> QED BY <1>1, <1>2, <1>3

LEMMA HeldType ==
  ASSUME OutTypes
  PROVE  io_output_held_states \in States
<1> DEFINE T == {x \in OutPorts : InPending(x) \cup InWa(x) # {}}
           H(x) == IF InPending(x) # {} THEN pending[Lowest(InPending(x))].restore[x]
                                        ELSE wa[Lowest(InWa(x))].restore[x]
<1>1. ASSUME NEW x \in T PROVE H(x) \in BOOLEAN
  <2>1. InPending(x) # {} => Lowest(InPending(x)) \in InPending(x)
    <3>1. InPending(x) \in SUBSET Nat BY OutputParams DEF InPending, OutSlots
    <3> QED BY <3>1, LowestIn
  <2>2. InPending(x) = {} => Lowest(InWa(x)) \in InWa(x)
    <3>1. InWa(x) \in SUBSET Nat BY DEF InWa, OutTypes
    <3> QED BY <3>1, LowestIn
  <2>3. \A i \in InPending(x) : pending[i].restore \in States /\ x \in DOMAIN pending[i].restore
    BY DEF OutTypes, Entry, InPending
  <2>4. \A i \in InWa(x) : wa[i].restore \in States /\ x \in DOMAIN wa[i].restore
    <3>1. wa \in Seq([rule : RuleIds, restore : States]) BY DEF OutTypes
    <3>2. \A i \in 1 .. Len(wa) : wa[i] \in [rule : RuleIds, restore : States]
      BY <3>1, ElementIn
    <3> QED BY <3>2 DEF InWa
  <2>5. \A i \in InPending(x) : pending[i].restore[x] \in BOOLEAN BY <2>3, StatesType
  <2>6. \A i \in InWa(x) : wa[i].restore[x] \in BOOLEAN BY <2>4, StatesType
  <2> QED BY <2>1, <2>2, <2>5, <2>6
<1>2. [x \in T |-> H(x)] \in [T -> BOOLEAN] BY <1>1
<1>3. io_output_held_states = [x \in T |-> H(x)] BY DEF io_output_held_states
<1> QED BY <1>2, <1>3, StatesIn

\* What a pending restore or a while_active entry holds for a port is the state base.
LEMMA HeldIsBase ==
  ASSUME OutTypes, NEW p \in OutPorts, PortHolds(p)
  PROVE  /\ p \in DOMAIN io_output_held_states => io_output_held_states[p] = base[p]
         /\ p \notin DOMAIN io_output_held_states => InPending(p) = {} /\ InWa(p) = {}
<1>1. InPending(p) # {} => Lowest(InPending(p)) \in InPending(p)
  <2>1. InPending(p) \in SUBSET Nat BY OutputParams DEF InPending, OutSlots
  <2> QED BY <2>1, LowestIn
<1>2. InPending(p) = {} /\ InWa(p) # {} => Lowest(InWa(p)) \in InWa(p)
  <2>1. InWa(p) \in SUBSET Nat BY DEF InWa, OutTypes
  <2> QED BY <2>1, LowestIn
<1>3. p \in DOMAIN io_output_held_states => InPending(p) \cup InWa(p) # {}
  BY DEF io_output_held_states
<1>4. p \in DOMAIN io_output_held_states => io_output_held_states[p] = base[p]
  BY <1>1, <1>2, <1>3 DEF io_output_held_states, PortHolds
<1>5. p \notin DOMAIN io_output_held_states => InPending(p) = {} /\ InWa(p) = {}
  BY DEF io_output_held_states
<1> QED BY <1>4, <1>5

\* The restores a new call starts with, from what is held for ports.
Opposite(a, held) == [p \in DOMAIN a.set |-> IF p \in DOMAIN held THEN held[p] ELSE ~a.set[p]]

LEMMA OppositeType ==
  ASSUME NEW a \in OutputActions, NEW held \in States
  PROVE  Opposite(a, held) \in States /\ DOMAIN Opposite(a, held) = DOMAIN a.set
<1> DEFINE H(p) == IF p \in DOMAIN held THEN held[p] ELSE ~a.set[p]
<1>1. a.set \in [DOMAIN a.set -> BOOLEAN] /\ DOMAIN a.set \subseteq OutPorts
  BY ActionType, StatesType
<1>2. held \in [DOMAIN held -> BOOLEAN] BY StatesType
<1>3. \A p \in DOMAIN a.set : H(p) \in BOOLEAN BY <1>1, <1>2
<1>4. [p \in DOMAIN a.set |-> H(p)] \in [DOMAIN a.set -> BOOLEAN] BY <1>3
<1>5. Opposite(a, held) = [p \in DOMAIN a.set |-> H(p)] BY DEF Opposite
<1> QED BY <1>1, <1>4, <1>5, StatesIn

\* action_io_output: a port that is held is to get what it is held for, one that is not has
\* the state base.
LEMMA ActionRight ==
  ASSUME PortsRight, NEW t \in OutThreads, NEW a \in OutputActions, action_io_output(t, a)
  PROVE  PortsRight'
<1>a. PICK held \in IF TableBusy(t) THEN [DOMAIN io_output_held_states -> BOOLEAN]
                                ELSE {io_output_held_states} :
        LET unknown == IF a.kind = "plain" THEN {} ELSE DOMAIN a.set \ DOMAIN held IN
        /\ out[t].at = "idle" /\ outCalls' = outCalls + 1
        /\ out' = [out EXCEPT ![t] =
             [at |-> IF unknown = {} THEN Onward(a) ELSE "read", id |-> outCalls + 1, act |-> a,
              restore |-> Opposite(a, held), unknown |-> unknown, cancel |-> {}]]
        /\ spoilt' = spoilt \cup (IF TableBusy(t) THEN DOMAIN a.set
                                  ELSE DOMAIN a.set \cap Meanwhile(t))
        /\ UNCHANGED <<level, sequence, pending, lone, wa, outFails, base>>
  BY DEF action_io_output, Opposite
<1> DEFINE unknown == IF a.kind = "plain" THEN {} ELSE DOMAIN a.set \ DOMAIN held
           c == [at |-> IF unknown = {} THEN Onward(a) ELSE "read", id |-> outCalls + 1, act |-> a,
                 restore |-> Opposite(a, held), unknown |-> unknown, cancel |-> {}]
<1>1. /\ out[t].at = "idle" /\ outCalls' = outCalls + 1 /\ out' = [out EXCEPT ![t] = c]
      /\ spoilt' = spoilt \cup (IF TableBusy(t) THEN DOMAIN a.set
                                ELSE DOMAIN a.set \cap Meanwhile(t))
      /\ UNCHANGED <<level, sequence, pending, lone, wa, outFails, base>>
  BY <1>a
<1>2. a \in OutAction /\ a.set \in States /\ DOMAIN a.set \subseteq OutPorts
      /\ IsFiniteSet(DOMAIN a.set) /\ a.kind \in {"plain", "timed", "while_active"}
  BY ActionType, StatesType
<1>3. OutTypes /\ OutPorts \ spoilt' \subseteq OutPorts \ spoilt BY <1>1 DEF PortsRight
<1>b. held \in States
  <2>1. io_output_held_states \in States BY <1>3, HeldType
  <2>2. DOMAIN io_output_held_states \subseteq OutPorts BY <2>1, StatesType
  <2>3. CASE TableBusy(t)
    <3>1. held \in [DOMAIN io_output_held_states -> BOOLEAN] BY <2>3
    <3> QED BY <2>2, <3>1, StatesIn
  <2>4. CASE ~TableBusy(t) BY <2>1, <2>4
  <2> QED BY <2>3, <2>4
<1>4. Opposite(a, held) \in States /\ DOMAIN Opposite(a, held) = DOMAIN a.set
  BY <1>b, OppositeType
<1>5. c \in OutCall
  <2>1. c.at \in {"read", "claim", "post"} BY DEF Onward
  <2>2. c.id \in Nat BY <1>3 DEF OutTypes
  <2>3. unknown \in SUBSET OutPorts BY <1>2
  <2> QED BY <1>2, <1>4, <2>1, <2>2, <2>3 DEF OutCall, OutPlaces
<1>6. /\ out' \in [OutThreads -> OutCall] /\ out'[t] = c
      /\ \A u \in OutThreads : u # t => out'[u] = out[u] /\ PortsOfCall(u)' = PortsOfCall(u)
      /\ \A u \in OutThreads : u # t => CallRight(u)'
  <2> HIDE DEF c
  <2> QED BY <1>1, <1>3, <1>5, NewCall
<1>7. PortsOfCall(t)' = DOMAIN a.set BY <1>6 DEF PortsOfCall
<1>8. CallRight(t)'
  <2>1. outCalls + 1 # 0 BY <1>3 DEF OutTypes
  <2> QED BY <1>2, <1>4, <1>6, <1>7, <2>1 DEF CallRight, Onward
<1>9. OutTypes'
  <2>1. \A u \in OutThreads : CallRight(u)' BY <1>6, <1>8
  <2>2. outCalls' \in Nat BY <1>1, <1>3 DEF OutTypes
  <2> QED BY <1>1, <1>3, <1>6, <2>1, <2>2 DEF OutTypes, InPending
<1>10. ASSUME NEW p \in OutPorts \ spoilt' PROVE PortRight(p)'
  <2>1. PortRight(p) BY <1>3 DEF PortsRight
  <2>2. p \in DOMAIN a.set => /\ held = io_output_held_states
                              /\ \A u \in OutThreads : u # t => p \notin PortsOfCall(u)
    <3>1. p \in DOMAIN a.set => ~TableBusy(t) /\ p \notin Meanwhile(t) BY <1>1
    <3> QED BY <3>1, OthersPorts
  <2>3. InPending(p)' = InPending(p) /\ InWa(p)' = InWa(p) BY <1>1 DEF InPending, InWa
  <2>4. PortsOfCall(t) = {} /\ out[t].act.kind = "plain" BY <1>1, <1>3 DEF OutTypes, CallRight
  <2>5. PortAlone(p)' BY <1>1, <1>6, <1>7, <2>1, <2>2, <2>3 DEF PortRight, PortAlone
  <2>6. p \in DOMAIN a.set /\ a.kind # "plain" /\ p \notin unknown => Opposite(a, held)[p] = base[p]
    BY <1>3, <2>1, <2>2, HeldIsBase DEF PortRight, Opposite
  <2>7. p \in unknown => InPending(p) = {} /\ InWa(p) = {} /\ p \in DOMAIN a.set
    <3>1. p \in unknown => p \in DOMAIN a.set /\ p \notin DOMAIN held OBVIOUS
    <3>2. p \in unknown => p \notin DOMAIN io_output_held_states BY <2>2, <3>1
    <3> QED BY <1>3, <2>1, <3>1, <3>2, HeldIsBase DEF PortRight
  <2>8. PortHolds(p)'
    BY <1>1, <1>6, <1>7, <2>1, <2>3, <2>6 DEF PortRight, PortHolds, Covers
  <2>9. \A u \in OutThreads : Claimed(u, p) => Claimed(u, p)' /\ u # t
    BY <1>1, <1>6, <1>7 DEF Claimed
  <2>10. \A u \in OutThreads : Claimed(u, p)' => Claimed(u, p) /\ u # t
    BY <1>1, <1>6, <1>7 DEF Claimed, Onward
  <2>11. PortSequence(p)' BY <1>1, <2>1, <2>3, <2>9 DEF PortRight, PortSequence
  <2>12. p \in unknown => sequence[p].id = 0
    BY <2>1, <2>2, <2>4, <2>7 DEF PortRight, PortSequence, Claimed
  <2>13. p \in unknown => ~HeldPort(p)
    BY <2>1, <2>2, <2>4, <2>7, <2>12 DEF PortRight, PortAlone, HeldPort
  <2>14. p \in unknown => level[p] = base[p] BY <2>1, <2>13 DEF PortRight
  <2>a. out'[t].at # "remove" BY <1>6 DEF Onward
  <2>15. PortCalls(p)'
    BY <1>1, <1>6, <1>7, <2>1, <2>3, <2>7, <2>10, <2>12, <2>14, <2>a
       DEF PortRight, PortCalls, PortCall, Covers, Many
  <2>16. HeldPort(p) => HeldPort(p)' BY <1>1, <1>6, <1>7, <2>3, <2>4 DEF HeldPort
  <2>17. (~HeldPort(p))' => level'[p] = base'[p] BY <1>1, <2>1, <2>16 DEF PortRight
  <2> QED BY <2>5, <2>8, <2>11, <2>15, <2>17 DEF PortRight
<1> QED BY <1>9, <1>10 DEF PortsRight

\* What a call for an unspoilt port keeps to itself.
LEMMA AloneAt ==
  ASSUME NEW p, PortAlone(p), NEW t \in OutThreads, p \in PortsOfCall(t),
         NEW u \in OutThreads, p \in PortsOfCall(u)
  PROVE  u = t
BY DEF PortAlone

\* io_output_current_states: a port that nobody holds and that could be read has the state
\* base.
LEMMA ReadRight ==
  ASSUME PortsRight, NEW t \in OutThreads, io_output_current_states(t)
  PROVE  PortsRight'
<1> DEFINE c == out[t]
           read == [p \in DOMAIN c.restore |->
                      IF p \in c.unknown THEN level[p] ELSE c.restore[p]]
<1>1. /\ c.at = "read" /\ spoilt \subseteq spoilt'
      /\ UNCHANGED <<level, sequence, pending, lone, wa, outCalls, base>>
  BY DEF io_output_current_states
<1>2. OutTypes /\ OutPorts \ spoilt' \subseteq OutPorts \ spoilt BY <1>1 DEF PortsRight
<1>3. CallRight(t) /\ c \in OutCall BY <1>2 DEF OutTypes
<1>4. c.restore \in States /\ c.act \in OutAction /\ c.cancel \in SUBSET OutPorts /\ c.id \in Nat
      /\ c.at \in OutPlaces
  BY <1>3 DEF OutCall
<1>5. c.act.kind \in {"timed", "while_active"}
  BY <1>1, <1>3, <1>4 DEF CallRight, OutAction
<1>6. read \in States /\ DOMAIN read = DOMAIN c.restore
  <2>1. DOMAIN c.restore \subseteq OutPorts /\ c.restore \in [DOMAIN c.restore -> BOOLEAN]
    BY <1>4, StatesType
  <2>2. \A p \in DOMAIN c.restore :
          (IF p \in c.unknown THEN level[p] ELSE c.restore[p]) \in BOOLEAN
    BY <1>2, <2>1 DEF OutTypes
  <2>3. read \in [DOMAIN c.restore -> BOOLEAN] BY <2>2
  <2> QED BY <2>1, <2>3, StatesIn
<1>7. PICK r \in {read, c.restore} :
        /\ out' = [out EXCEPT ![t].at = Onward(c.act), ![t].restore = r, ![t].unknown = {}]
        /\ r = read \/ spoilt' = spoilt \cup {p \in c.unknown : c.restore[p] # level[p]}
  BY DEF io_output_current_states
<1> DEFINE d == [c EXCEPT !.at = Onward(c.act), !.restore = r, !.unknown = {}]
<1>8. r \in States /\ DOMAIN r = DOMAIN c.restore BY <1>4, <1>6
<1>9. out' = [out EXCEPT ![t] = d] BY <1>2, <1>7 DEF OutTypes
<1>10. /\ d \in OutCall /\ d.at = Onward(c.act) /\ d.restore = r /\ d.unknown = {}
       /\ d.act = c.act /\ d.id = c.id /\ d.cancel = c.cancel
  BY <1>3, <1>4, <1>5, <1>8 DEF OutCall, OutPlaces, Onward
<1>11. /\ out' \in [OutThreads -> OutCall] /\ out'[t] = d
       /\ \A u \in OutThreads : u # t => out'[u] = out[u] /\ PortsOfCall(u)' = PortsOfCall(u)
       /\ \A u \in OutThreads : u # t => CallRight(u)'
  <2> HIDE DEF d
  <2> QED BY <1>2, <1>9, <1>10, NewCall
<1> HIDE DEF d
<1>12. PortsOfCall(t)' = PortsOfCall(t) BY <1>10, <1>11 DEF PortsOfCall
<1>13. CallRight(t)' BY <1>1, <1>3, <1>5, <1>8, <1>10, <1>11, <1>12 DEF CallRight, Onward
<1>14. OutTypes'
  <2>1. \A u \in OutThreads : CallRight(u)' BY <1>10, <1>11, <1>13
  <2> QED BY <1>1, <1>2, <1>10, <1>11, <2>1 DEF OutTypes
<1>15. ASSUME NEW p \in OutPorts \ spoilt' PROVE PortRight(p)'
  <2>1. PortRight(p) BY <1>2 DEF PortsRight
  <2>2. InPending(p)' = InPending(p) /\ InWa(p)' = InWa(p) BY <1>1 DEF InPending, InWa
  <2>3. PortAlone(p)' BY <1>1, <1>10, <1>11, <1>12, <2>1, <2>2 DEF PortRight, PortAlone
  <2>4. p \in PortsOfCall(t) => r[p] = base[p]
    <3>1. p \in PortsOfCall(t) => p \in DOMAIN c.restore BY <1>3 DEF CallRight
    <3>2. p \in PortsOfCall(t) /\ p \notin c.unknown => c.restore[p] = base[p]
      BY <1>5, <2>1 DEF PortRight, PortHolds, Covers
    <3>3. p \in PortsOfCall(t) /\ p \in c.unknown => level[p] = base[p]
      BY <1>5, <2>1 DEF PortRight, PortCalls, PortCall, Covers
    <3>4. r = read => (p \in PortsOfCall(t) => r[p] = base[p]) BY <3>1, <3>2, <3>3
    <3>5. r = c.restore /\ r # read => (p \in c.unknown => c.restore[p] = level[p]) BY <1>7
    <3> QED BY <3>2, <3>3, <3>4, <3>5
  <2>5. PortHolds(p)' BY <1>1, <1>10, <1>11, <1>12, <2>1, <2>2, <2>4 DEF PortRight, PortHolds, Covers
  <2>6. \A u \in OutThreads : Claimed(u, p)' <=> Claimed(u, p)
    BY <1>1, <1>10, <1>11, <1>12 DEF Claimed, Onward
  <2>7. PortSequence(p)' BY <1>1, <2>1, <2>2, <2>6 DEF PortRight, PortSequence
  <2>8. ~Claimed(t, p)' BY <1>1, <2>6 DEF Claimed
  <2>a. out'[t].at # "remove" BY <1>10, <1>11 DEF Onward
  <2>9. PortCalls(p)'
    BY <1>1, <1>10, <1>11, <1>12, <2>1, <2>2, <2>6, <2>8, <2>a DEF PortRight, PortCalls, PortCall, Covers, Many
  <2>10. HeldPort(p) => HeldPort(p)' BY <1>1, <1>10, <1>11, <1>12, <2>2 DEF HeldPort
  <2>11. (~HeldPort(p))' => level'[p] = base'[p] BY <1>1, <2>1, <2>10 DEF PortRight
  <2> QED BY <2>3, <2>5, <2>7, <2>9, <2>11 DEF PortRight
<1> QED BY <1>14, <1>15 DEF PortsRight

\* io_out_pending_claim: a port leaves the entry that has it, and keeps what it is held for.
LEMMA ClaimRight ==
  ASSUME PortsRight, NEW t \in OutThreads, io_out_pending_claim(t)
  PROVE  PortsRight'
<1> DEFINE c == out[t]
           mine == PortsOfCall(t)
           Rest(e) == Restrict(e.restore, DOMAIN e.restore \ mine)
           Left(e) == [e EXCEPT !.restore = Restrict(@, DOMAIN @ \ mine),
                                !.used = DOMAIN e.restore \ mine # {}]
           runs == {p \in mine : \E i \in InPending(p) : ~pending[i].by_timer}
           stop == IF Cardinality(mine) > 1 THEN runs ELSE {}
           d == [c EXCEPT !.at = IF stop = {} THEN "post" ELSE "cancel", !.cancel = stop]
<1>1. /\ c.at = "claim"
      /\ pending' = [i \in OutSlots |-> IF pending[i].used THEN Left(pending[i]) ELSE pending[i]]
      /\ out' = [out EXCEPT ![t].at = IF stop = {} THEN "post" ELSE "cancel", ![t].cancel = stop]
      /\ UNCHANGED <<level, sequence, lone, wa, outCalls, outFails, base, spoilt>>
  BY DEF io_out_pending_claim
<1>2. OutTypes BY DEF PortsRight
<1>3. CallRight(t) /\ c \in OutCall /\ c.act.kind = "timed" BY <1>1, <1>2 DEF OutTypes, CallRight
<1>4. mine \subseteq OutPorts /\ IsFiniteSet(mine)
  BY <1>3, StatesType DEF OutCall, OutAction, PortsOfCall
<1>5. out' = [out EXCEPT ![t] = d] BY <1>1, <1>2 DEF OutTypes
<1>6. /\ d \in OutCall /\ d.at = (IF stop = {} THEN "post" ELSE "cancel") /\ d.cancel = stop
      /\ d.restore = c.restore /\ d.unknown = c.unknown /\ d.act = c.act /\ d.id = c.id
  <2>1. stop \in SUBSET OutPorts BY <1>4
  <2> HIDE DEF stop
  <2> QED BY <1>3, <2>1 DEF OutCall, OutPlaces
<1> HIDE DEF d
<1>7. /\ out' \in [OutThreads -> OutCall] /\ out'[t] = d
      /\ \A u \in OutThreads : u # t => out'[u] = out[u] /\ PortsOfCall(u)' = PortsOfCall(u)
      /\ \A u \in OutThreads : u # t => CallRight(u)'
  BY <1>2, <1>5, <1>6, NewCall
<1>8. PortsOfCall(t)' = PortsOfCall(t) BY <1>6, <1>7 DEF PortsOfCall
<1>9. CallRight(t)' /\ \A u \in OutThreads : PortsOfCall(u)' = PortsOfCall(u)
  <2>1. stop \subseteq mine /\ (stop # {} => Cardinality(mine) > 1) OBVIOUS
  <2> HIDE DEF stop
  <2> QED BY ZenonT(40), <1>1, <1>3, <1>6, <1>7, <1>8, <2>1 DEF CallRight, Many
<1>10. ASSUME NEW i \in OutSlots
       PROVE  LET e == pending[i] IN
              /\ e \in Entry /\ Rest(e) \in States /\ DOMAIN Rest(e) = DOMAIN e.restore \ mine
              /\ \A p \in DOMAIN Rest(e) : Rest(e)[p] = e.restore[p]
  <2> DEFINE e == pending[i]
             D == DOMAIN e.restore \ mine
  <2>1. e \in Entry /\ e.restore \in States BY <1>2 DEF OutTypes, Entry
  <2>2. Rest(e) = [p \in D |-> e.restore[p]] BY DEF Restrict
  <2>3. DOMAIN e.restore \subseteq OutPorts /\ e.restore \in [DOMAIN e.restore -> BOOLEAN]
    BY <2>1, StatesType
  <2>4. [p \in D |-> e.restore[p]] \in [D -> BOOLEAN] /\ D \subseteq OutPorts BY <2>3
  <2>5. [p \in D |-> e.restore[p]] \in States BY <2>4, StatesIn
  <2> QED BY <2>1, <2>2, <2>5
<1>11. ASSUME NEW i \in OutSlots
       PROVE  /\ pending'[i] \in Entry
              /\ pending'[i].id = pending[i].id /\ pending'[i].by_timer = pending[i].by_timer
              /\ pending[i].used => /\ pending'[i].restore = Rest(pending[i])
                                    /\ pending'[i].used = (DOMAIN pending[i].restore \ mine # {})
              /\ ~pending[i].used => ~pending'[i].used
  <2>1. pending[i] \in Entry /\ Rest(pending[i]) \in States BY <1>10
  <2>2. pending'[i] = (IF pending[i].used THEN Left(pending[i]) ELSE pending[i]) BY <1>1
  <2>3. Left(pending[i]) = [pending[i] EXCEPT !.restore = Rest(pending[i]),
                              !.used = DOMAIN pending[i].restore \ mine # {}]
    OBVIOUS
  <2> HIDE DEF Rest, Left
  <2> QED BY <2>1, <2>2, <2>3 DEF Entry
<1>12. \A i \in OutSlots : IsFiniteSet(DOMAIN pending'[i].restore)
  BY <1>11, StatesType DEF Entry
<1>13. pending' \in [OutSlots -> Entry] BY <1>1, <1>11
<1>14. OutTypes'
  <2>1. \A u \in OutThreads : CallRight(u)' BY <1>7, <1>9
  <2> QED BY <1>1, <1>2, <1>7, <1>12, <1>13, <2>1 DEF OutTypes
<1> HIDE DEF Rest, Left
<1>15. ASSUME NEW p \in OutPorts \ spoilt' PROVE PortRight(p)'
  <2>1. PortRight(p) BY <1>1 DEF PortsRight
  <2>2. InWa(p)' = InWa(p) BY <1>1 DEF InWa
  <2>3. InPending(p)' = IF p \in mine THEN {} ELSE InPending(p)
    <3>1. ASSUME NEW i \in OutSlots
          PROVE  i \in InPending(p)' <=> p \notin mine /\ i \in InPending(p)
      BY <1>10, <1>11 DEF InPending
    <3>2. InPending(p)' \subseteq OutSlots /\ InPending(p) \subseteq OutSlots BY DEF InPending
    <3> QED BY <3>1, <3>2
  <2>4. \A i \in InPending(p)' : /\ pending'[i].restore[p] = pending[i].restore[p]
                                 /\ i \in InPending(p) /\ i \in OutSlots
    <3>1. ASSUME NEW i \in InPending(p)'
          PROVE  /\ pending'[i].restore[p] = pending[i].restore[p]
                 /\ i \in InPending(p) /\ i \in OutSlots
      <4>1. i \in InPending(p) /\ p \notin mine /\ i \in OutSlots
        BY <2>3 DEF InPending
      <4>2. pending[i].used /\ p \in DOMAIN pending[i].restore BY <4>1 DEF InPending
      <4>3. pending'[i].restore = Rest(pending[i]) BY <1>11, <4>1, <4>2
      <4>4. p \in DOMAIN Rest(pending[i]) BY <1>10, <4>1, <4>2
      <4>5. Rest(pending[i])[p] = pending[i].restore[p] BY <1>10, <4>1, <4>4
      <4> QED BY <4>1, <4>3, <4>5
    <3> QED BY <3>1
  <2>5. PortAlone(p)' BY <1>1, <1>9, <2>1, <2>4 DEF PortRight, PortAlone
  <2>6. PortHolds(p)'
    <3>1. \A i \in InPending(p)' : pending'[i].restore[p] = base'[p]
      BY <1>1, <2>1, <2>4 DEF PortRight, PortHolds
    <3>2. \A i \in InWa(p)' : wa'[i].restore[p] = base'[p]
      BY <1>1, <2>1, <2>2 DEF PortRight, PortHolds
    <3>3. \A u \in OutThreads : Covers(u, p)' /\ p \notin out'[u].unknown
                                  => out'[u].restore[p] = base'[p]
      <4>1. \A u \in OutThreads : Covers(u, p)' <=> Covers(u, p)
        BY <1>6, <1>7, <1>9 DEF Covers
      <4>2. \A u \in OutThreads : out'[u].unknown = out[u].unknown
                                   /\ out'[u].restore = out[u].restore BY <1>6, <1>7
      <4> QED BY <1>1, <2>1, <4>1, <4>2 DEF PortRight, PortHolds
    <3>4. sequence'[p].id # 0 => sequence'[p].back = base'[p]
      BY <1>1, <2>1 DEF PortRight, PortHolds
    <3> QED BY <3>1, <3>2, <3>3, <3>4 DEF PortHolds
  <2>7. Claimed(t, p)' <=> p \in mine
    BY <1>3, <1>6, <1>7, <1>8 DEF Claimed
  <2>8. \A u \in OutThreads : u # t => (Claimed(u, p)' <=> Claimed(u, p))
    BY <1>7 DEF Claimed
  <2>9. ~Claimed(t, p) BY <1>1 DEF Claimed
  <2>10. PortSequence(p)'
    BY <1>1, <1>11, <2>1, <2>3, <2>7, <2>8, <2>9 DEF PortRight, PortSequence, InPending
  <2>11. p \in mine /\ sequence[p].id # 0 => p \in runs
    BY <2>1, <2>8, <2>9, AloneAt DEF PortRight, PortSequence, Claimed
  <2>12. \A u \in OutThreads : u # t => ~(p \in mine /\ p \in PortsOfCall(u))
    BY <2>1, AloneAt DEF PortRight
  <2>13. p \in mine => ~(Covers(t, p) /\ p \in c.unknown)
    BY <1>1, <2>1 DEF PortRight, PortCalls, PortCall
  <2>14. PortCalls(p)'
    <3>1. ASSUME NEW u \in OutThreads, u # t
          PROVE  PortCall(u, p)'
      BY <1>1, <1>7, <2>1, <2>2, <2>3, <2>8, <3>1 DEF PortRight, PortCalls, PortCall, Covers, Many
    <3>2. ~(Covers(t, p)' /\ p \in out'[t].unknown)
      BY <1>6, <1>7, <1>8, <2>13 DEF Covers
    <3>3. Claimed(t, p)' =>
            /\ InPending(p)' = {}
            /\ Many(t)' /\ sequence'[p].id # 0
                 => out'[t].at = "cancel" /\ p \in out'[t].cancel
            /\ out'[t].at # "add"
      BY <1>1, <1>6, <1>7, <1>8, <2>3, <2>7, <2>11 DEF Many
    <3>4. out'[t].at # "remove" BY <1>6, <1>7
    <3> QED BY <3>1, <3>2, <3>3, <3>4 DEF PortCalls, PortCall
  <2>15. HeldPort(p) => HeldPort(p)'
    <3>1. p \in mine => HeldPort(p)' BY <1>3, <1>6, <1>7, <1>8 DEF HeldPort
    <3>2. p \notin mine => (HeldPort(p) => HeldPort(p)')
      <4>1. p \notin mine => InPending(p)' = InPending(p) BY <2>3
      <4>2. \A i \in InPending(p) : pending'[i].by_timer = pending[i].by_timer
        BY <1>11 DEF InPending
      <4>3. \A u \in OutThreads : out'[u].act = out[u].act BY <1>6, <1>7
      <4> QED BY <1>1, <1>9, <2>2, <4>1, <4>2, <4>3 DEF HeldPort
    <3> QED BY <3>1, <3>2
  <2>16. (~HeldPort(p))' => level'[p] = base'[p] BY <1>1, <2>1, <2>15 DEF PortRight
  <2> QED BY <2>5, <2>6, <2>10, <2>14, <2>16 DEF PortRight
<1> QED BY <1>14, <1>15 DEF PortsRight

\* CancelSequence: the port stays with the call, whatever ran on it.
LEMMA CancelRight ==
  ASSUME PortsRight, NEW t \in OutThreads, CancelSequence(t)
  PROVE  PortsRight'
<1> DEFINE c == out[t]
           D(q) == [c EXCEPT !.cancel = @ \ {q},
                             !.at = IF c.cancel = {q} THEN "post" ELSE "cancel"]
<1>1. c.at = "cancel" /\ UNCHANGED <<pending, lone, wa, outCalls, base>>
  BY DEF CancelSequence
<1>2. PICK q \in c.cancel :
        /\ out' = [out EXCEPT ![t].cancel = @ \ {q},
                              ![t].at = IF c.cancel = {q} THEN "post" ELSE "cancel"]
        /\ \/ /\ sequence' = [sequence EXCEPT ![q] = NoSequence]
              /\ level' = [level EXCEPT ![q] = c.act.set[q]]
              /\ UNCHANGED <<outFails, spoilt>>
           \/ MayFail /\ spoilt' = spoilt \cup {q} /\ UNCHANGED <<sequence, level>>
  BY DEF CancelSequence
<1> DEFINE d == D(q)
<1>3. OutTypes /\ OutPorts \ spoilt' \subseteq OutPorts \ spoilt BY <1>2 DEF PortsRight
<1>4. /\ CallRight(t) /\ c \in OutCall /\ c.act.kind = "timed" /\ Many(t)
      /\ c.cancel \subseteq PortsOfCall(t)
  BY <1>1, <1>3 DEF OutTypes, CallRight
<1>5. PortsOfCall(t) \subseteq OutPorts /\ c.act.set \in [PortsOfCall(t) -> BOOLEAN]
  BY <1>4, StatesType DEF OutCall, OutAction, PortsOfCall
<1>6. out' = [out EXCEPT ![t] = d] BY <1>2, <1>3 DEF OutTypes
<1>7. /\ d \in OutCall /\ d.cancel = c.cancel \ {q}
      /\ d.at = (IF c.cancel = {q} THEN "post" ELSE "cancel")
      /\ d.restore = c.restore /\ d.unknown = c.unknown /\ d.act = c.act /\ d.id = c.id
  BY <1>4 DEF OutCall, OutPlaces
<1> HIDE DEF d
<1>8. /\ out' \in [OutThreads -> OutCall] /\ out'[t] = d
      /\ \A u \in OutThreads : u # t => out'[u] = out[u] /\ PortsOfCall(u)' = PortsOfCall(u)
      /\ \A u \in OutThreads : u # t => CallRight(u)'
  BY <1>3, <1>6, <1>7, NewCall
<1>9. \A u \in OutThreads : PortsOfCall(u)' = PortsOfCall(u) /\ Many(u)' = Many(u)
  BY <1>7, <1>8 DEF PortsOfCall, Many
<1>10. CallRight(t)' BY <1>1, <1>4, <1>7, <1>8, <1>9 DEF CallRight
<1>11. /\ level' \in [OutPorts -> BOOLEAN] /\ sequence' \in [OutPorts -> Sequence]
       /\ \A p \in OutPorts : p # q => level'[p] = level[p] /\ sequence'[p] = sequence[p]
       /\ q \notin spoilt' => sequence'[q].id = 0
  <2>1. q \in OutPorts /\ c.act.set[q] \in BOOLEAN BY <1>4, <1>5
  <2>2. NoSequence \in Sequence /\ NoSequence.id = 0 BY DEF NoSequence, Sequence
  <2>3. level \in [OutPorts -> BOOLEAN] /\ sequence \in [OutPorts -> Sequence]
    BY <1>3 DEF OutTypes
  <2> QED BY <1>2, <2>1, <2>2, <2>3
<1>12. OutTypes'
  <2>1. \A u \in OutThreads : CallRight(u)' BY <1>8, <1>10
  <2> QED BY <1>1, <1>3, <1>8, <1>11, <2>1 DEF OutTypes
<1>13. ASSUME NEW p \in OutPorts \ spoilt' PROVE PortRight(p)'
  <2>1. PortRight(p) BY <1>3 DEF PortsRight
  <2>2. InPending(p)' = InPending(p) /\ InWa(p)' = InWa(p) BY <1>1 DEF InPending, InWa
  <2>3. p = q => Covers(t, p) /\ p \in PortsOfCall(t) BY <1>4 DEF Covers
  <2>4. \A u \in OutThreads : u # t => ~(p \in PortsOfCall(t) /\ p \in PortsOfCall(u))
    BY <2>1, AloneAt DEF PortRight
  <2>5. \A u \in OutThreads : /\ Covers(u, p)' <=> Covers(u, p)
                              /\ Claimed(u, p)' <=> Claimed(u, p)
    BY <1>1, <1>7, <1>8, <1>9 DEF Covers, Claimed
  <2>6. PortAlone(p)' BY <1>1, <1>9, <2>1, <2>2 DEF PortRight, PortAlone
  <2>7. sequence'[p].id # 0 => sequence'[p] = sequence[p] BY <1>11
  <2>8. PortHolds(p)'
    <3>1. \A u \in OutThreads : out'[u].unknown = out[u].unknown
                                 /\ out'[u].restore = out[u].restore BY <1>7, <1>8
    <3> QED BY <1>1, <2>1, <2>2, <2>5, <2>7, <3>1 DEF PortRight, PortHolds
  <2>9. PortSequence(p)' BY <1>1, <2>1, <2>2, <2>5, <2>7 DEF PortRight, PortSequence
  <2>10. PortCalls(p)'
    <3>1. ASSUME NEW u \in OutThreads, u # t
          PROVE  PortCall(u, p)'
      <4>1. CASE p \in PortsOfCall(u)
        <5>1. p # q BY <2>3, <2>4, <3>1, <4>1
        <5>2. sequence'[p] = sequence[p] /\ level'[p] = level[p] BY <1>11, <5>1
        <5> QED BY <1>1, <1>8, <1>9, <2>1, <2>2, <2>5, <3>1, <5>2 DEF PortRight, PortCalls, PortCall
      <4>2. CASE p \notin PortsOfCall(u) BY <2>5, <4>2 DEF PortCall, Covers, Claimed
      <4> QED BY <4>1, <4>2
    <3>2. ~(Covers(t, p)' /\ p \in out'[t].unknown)
      BY <1>1, <1>7, <1>8, <2>1, <2>5 DEF PortRight, PortCalls, PortCall
    <3>3. Claimed(t, p)' =>
            /\ InPending(p)' = {}
            /\ Many(t)' /\ sequence'[p].id # 0
                 => out'[t].at = "cancel" /\ p \in out'[t].cancel
            /\ out'[t].at # "add"
      <4>1. Claimed(t, p) => InPending(p) = {}
              /\ (sequence[p].id # 0 => p \in c.cancel)
        BY <1>4, <2>1 DEF PortRight, PortCalls, PortCall
      <4>2. sequence'[p].id # 0 => p # q BY <1>11
      <4> QED BY <1>7, <1>8, <2>2, <2>5, <2>7, <4>1, <4>2
    <3>4. out'[t].at # "remove" BY <1>7, <1>8
    <3> QED BY <3>1, <3>2, <3>3, <3>4 DEF PortCalls, PortCall
  <2>11. (~HeldPort(p))' => level'[p] = base'[p]
    <3>1. p \in PortsOfCall(t) => HeldPort(p)' BY <1>4, <1>7, <1>8, <1>9 DEF HeldPort
    <3>2. p \notin PortsOfCall(t) => sequence'[p] = sequence[p] /\ level'[p] = level[p]
      BY <1>11, <2>3
    <3>3. \A u \in OutThreads : out'[u].act = out[u].act BY <1>7, <1>8
    <3>4. p \notin PortsOfCall(t) => (HeldPort(p) => HeldPort(p)')
      BY <1>1, <1>9, <2>2, <3>2, <3>3 DEF HeldPort
    <3> QED BY <1>1, <2>1, <3>1, <3>2, <3>4 DEF PortRight
  <2> QED BY <2>6, <2>8, <2>9, <2>10, <2>11 DEF PortRight
<1> QED BY <1>12, <1>13 DEF PortsRight

\* A step of t that does not touch what a port has leaves the port as it was.
LEMMA Elsewhere ==
  ASSUME NEW p, NEW t \in OutThreads, PortRight(p), ~Covers(t, p), p \notin PortsOfCall(t)',
         \A u \in OutThreads : u # t => out'[u] = out[u] /\ PortsOfCall(u)' = PortsOfCall(u),
         level'[p] = level[p], base'[p] = base[p], sequence'[p] = sequence[p],
         InPending(p)' = InPending(p), \A i \in InPending(p) : pending'[i] = pending[i],
         InWa(p)' = InWa(p), \A i \in InWa(p) : wa'[i] = wa[i],
         \A l \in lone' : p \notin DOMAIN l.restore
  PROVE  PortRight(p)'
<1>1. \A u \in OutThreads : u # t => /\ Covers(u, p)' <=> Covers(u, p)
                                     /\ Claimed(u, p)' <=> Claimed(u, p)
                                     /\ Many(u)' = Many(u)
  BY DEF Covers, Claimed, Many
<1>2. ~Covers(t, p)' /\ ~Claimed(t, p)' /\ ~Claimed(t, p) BY DEF Covers, Claimed
<1>3. PortAlone(p)' BY DEF PortRight, PortAlone
<1>4. PortHolds(p)' BY <1>1, <1>2 DEF PortRight, PortHolds
<1>5. PortSequence(p)'
  <2>1. \A u \in OutThreads : Claimed(u, p) => Claimed(u, p)' BY <1>1, <1>2
  <2> QED BY <2>1 DEF PortRight, PortSequence
<1>6. \A u \in OutThreads : u # t => PortCall(u, p)'
  BY <1>1 DEF PortRight, PortCalls, PortCall
<1>7. PortCall(t, p)' BY <1>2 DEF PortCall
<1>8. PortCalls(p)' BY <1>6, <1>7 DEF PortCalls
<1>9. HeldPort(p) => HeldPort(p)'
  <2>1. \A u \in OutThreads : Covers(u, p) => Covers(u, p)' BY <1>1
  <2> QED BY <2>1 DEF HeldPort, PortRight, PortAlone, Covers
<1> QED BY <1>3, <1>4, <1>5, <1>8, <1>9 DEF PortRight

\* The state of a port that nothing but its own call can have for base.
LEMMA OwnRight ==
  ASSUME NEW p, NEW t \in OutThreads, PortRight(p), p \in PortsOfCall(t),
         \A u \in OutThreads : u # t => PortsOfCall(u)' = PortsOfCall(u),
         \A i, j \in InPending(p)' : i = j, \A l \in lone' : p \notin DOMAIN l.restore
  PROVE  /\ PortAlone(p)' /\ \A u \in OutThreads : u # t => p \notin PortsOfCall(u)
         /\ \A u \in OutThreads : u # t => ~Covers(u, p)' /\ ~Claimed(u, p)' /\ PortCall(u, p)'
<1>1. \A u \in OutThreads : u # t => p \notin PortsOfCall(u) BY AloneAt DEF PortRight
<1>2. \A u \in OutThreads : u # t => ~Covers(u, p)' /\ ~Claimed(u, p)'
  BY <1>1 DEF Covers, Claimed
<1>3. \A u \in OutThreads : u # t => PortCall(u, p)' BY <1>2 DEF PortCall
<1>4. PortAlone(p)' BY <1>1 DEF PortAlone
<1> QED BY <1>1, <1>2, <1>3, <1>4

\* What a request makes of the ports.
LEMMA CarriedPorts ==
  ASSUME OutTypes, NEW t \in OutThreads, Carried(t)
  PROVE  /\ level' \in [OutPorts -> BOOLEAN] /\ base' \in [OutPorts -> BOOLEAN]
         /\ sequence' \in [OutPorts -> Sequence]
         /\ \A p \in OutPorts \ PortsOfCall(t) :
              level'[p] = level[p] /\ base'[p] = base[p] /\ sequence'[p] = sequence[p]
         /\ \A p \in PortsOfCall(t) :
              /\ p \in OutPorts /\ level'[p] = out[t].act.set[p]
              /\ base'[p] = IF out[t].act.kind = "plain" /\ ~HeldPort(p) THEN level'[p] ELSE base[p]
              /\ sequence'[p] = IF out[t].act.kind = "timed" /\ PortsOfCall(t) = {p}
                                  THEN [id |-> out[t].id, back |-> out[t].restore[p]]
                                  ELSE sequence[p]
<1> DEFINE a == out[t].act
           P == PortsOfCall(t)
<1>1. CallRight(t) /\ out[t] \in OutCall BY DEF OutTypes
<1>2. P \subseteq OutPorts /\ a.set \in [P -> BOOLEAN] /\ P = DOMAIN a.set
  BY <1>1, StatesType DEF OutCall, OutAction, PortsOfCall
<1>3. out[t].restore \in [P -> BOOLEAN] /\ out[t].id \in Nat
  BY <1>1, StatesType DEF OutCall, CallRight
<1>4. /\ level' = [p \in OutPorts |-> IF p \in P THEN a.set[p] ELSE level[p]]
      /\ sequence' = [p \in OutPorts |-> IF a.kind = "timed" /\ P = {p}
                        THEN [id |-> out[t].id, back |-> out[t].restore[p]] ELSE sequence[p]]
      /\ base' = [p \in OutPorts |->
                    IF a.kind = "plain" /\ p \in P /\ ~HeldPort(p) THEN a.set[p] ELSE base[p]]
  BY <1>2 DEF Carried, SetPorts
<1>5. level \in [OutPorts -> BOOLEAN] /\ base \in [OutPorts -> BOOLEAN]
      /\ sequence \in [OutPorts -> Sequence]
  BY DEF OutTypes
<1> HIDE DEF a, P
<1>6. level' \in [OutPorts -> BOOLEAN] BY <1>2, <1>4, <1>5
<1>7. base' \in [OutPorts -> BOOLEAN] BY <1>2, <1>4, <1>5
<1>8. sequence' \in [OutPorts -> Sequence]
  <2>1. \A p \in OutPorts : P = {p} => [id |-> out[t].id, back |-> out[t].restore[p]] \in Sequence
    BY <1>3 DEF Sequence
  <2> QED BY <1>4, <1>5, <2>1
<1>9. \A p \in OutPorts \ P :
        level'[p] = level[p] /\ base'[p] = base[p] /\ sequence'[p] = sequence[p]
  BY <1>4
<1>10. \A p \in P :
         /\ p \in OutPorts /\ level'[p] = a.set[p]
         /\ base'[p] = IF a.kind = "plain" /\ ~HeldPort(p) THEN level'[p] ELSE base[p]
         /\ sequence'[p] = IF a.kind = "timed" /\ P = {p}
                             THEN [id |-> out[t].id, back |-> out[t].restore[p]] ELSE sequence[p]
  BY <1>2, <1>4
<1> QED BY <1>6, <1>7, <1>8, <1>9, <1>10 DEF a, P

\* PostOutput of a call that holds its ports: what runs on them now gives the state base.
LEMMA PostHolds ==
  ASSUME PortsRight, NEW t \in OutThreads, out[t].at = "post", out[t].act.kind # "plain",
         Carried(t), out'[t] = [out[t] EXCEPT !.at = "add"],
         \A u \in OutThreads : u # t => out'[u] = out[u] /\ PortsOfCall(u)' = PortsOfCall(u),
         UNCHANGED <<pending, lone, wa>>,
         NEW p \in OutPorts, PortRight(p), p \in PortsOfCall(t)
  PROVE  PortRight(p)'
<1> DEFINE c == out[t]
           one == c.act.kind = "timed" /\ PortsOfCall(t) = {p}
<1>1. OutTypes BY DEF PortsRight
<1>2. CallRight(t) /\ c \in OutCall BY <1>1 DEF OutTypes
<1>3. /\ out'[t].at = "add" /\ out'[t].act = c.act /\ out'[t].id = c.id
      /\ out'[t].restore = c.restore /\ out'[t].unknown = c.unknown
  BY <1>2 DEF OutCall
<1>4. PortsOfCall(t)' = PortsOfCall(t) /\ Many(t)' = Many(t) BY <1>3 DEF PortsOfCall, Many
<1>5. InPending(p)' = InPending(p) /\ InWa(p)' = InWa(p) BY DEF InPending, InWa
<1>6. Covers(t, p) /\ Covers(t, p)' /\ p \notin c.unknown
  BY <1>3, <1>4 DEF Covers, PortRight, PortCalls, PortCall
<1>7. c.restore[p] = base[p] BY <1>6 DEF PortRight, PortHolds
<1>8. base'[p] = base[p] /\ sequence'[p] = IF one THEN [id |-> c.id, back |-> c.restore[p]]
                                                 ELSE sequence[p]
  BY <1>1, CarriedPorts
<1>9. one <=> c.act.kind = "timed" /\ ~Many(t)
  BY <1>2, OneOfFew DEF CallRight, Many
<1>10. c.id # 0 BY <1>2 DEF CallRight
<1> HIDE DEF one
<1>11. /\ PortAlone(p)' /\ \A u \in OutThreads : u # t => p \notin PortsOfCall(u)
       /\ \A u \in OutThreads : u # t => ~Covers(u, p)' /\ ~Claimed(u, p)' /\ PortCall(u, p)'
  BY <1>5, OwnRight DEF PortRight, PortAlone
<1>12. sequence'[p].id # 0 => sequence'[p].back = base'[p]
  BY <1>7, <1>8 DEF PortRight, PortHolds
<1>13. PortHolds(p)' BY <1>3, <1>5, <1>6, <1>7, <1>8, <1>11, <1>12 DEF PortRight, PortHolds
<1>14. Claimed(t, p)' <=> c.act.kind = "timed" BY <1>3, <1>4 DEF Claimed
<1>15. Claimed(t, p) <=> c.act.kind = "timed" BY DEF Claimed
<1>16. PortSequence(p)'
  <2>1. CASE c.act.kind = "timed" BY <1>14, <2>1 DEF PortSequence
  <2>2. CASE c.act.kind # "timed"
    <3>1. \A u \in OutThreads : ~Claimed(u, p) BY <1>11, <1>15, <2>2 DEF Claimed
    <3>2. sequence'[p] = sequence[p] BY <1>8, <1>9, <2>2
    <3> QED BY <1>5, <3>1, <3>2 DEF PortRight, PortSequence
  <2> QED BY <2>1, <2>2
<1>17. PortCall(t, p)'
  <2>1. Claimed(t, p) => InPending(p) = {} /\ (Many(t) => sequence[p].id = 0)
    BY DEF PortRight, PortCalls, PortCall
  <2>2. Claimed(t, p)' => /\ InPending(p)' = {}
                          /\ Many(t)' => sequence'[p].id = 0
                          /\ ~Many(t)' => sequence'[p].id = out'[t].id /\ out'[t].id # 0
    BY <1>3, <1>4, <1>5, <1>8, <1>9, <1>10, <1>14, <1>15, <2>1
  <2> QED BY <1>3, <1>6, <2>2 DEF PortCall
<1>18. PortCalls(p)' BY <1>11, <1>17 DEF PortCalls
<1>19. HeldPort(p)' BY <1>3, <1>4 DEF HeldPort
<1> QED BY <1>11, <1>13, <1>16, <1>18, <1>19 DEF PortRight

\* PostOutput that sets a port for good: it has a new base, or something still holds it.
LEMMA PostPlain ==
  ASSUME PortsRight, NEW t \in OutThreads, out[t].act.kind = "plain",
         Carried(t), out'[t] = NoCall, PortsOfCall(t)' = {},
         \A u \in OutThreads : u # t => out'[u] = out[u] /\ PortsOfCall(u)' = PortsOfCall(u),
         UNCHANGED <<pending, lone, wa>>,
         NEW p \in OutPorts, PortRight(p), p \in PortsOfCall(t), ~Lingers(p)
  PROVE  PortRight(p)'
<1>1. OutTypes BY DEF PortsRight
<1>2. sequence'[p] = sequence[p] /\ base'[p] = IF HeldPort(p) THEN base[p] ELSE level'[p]
  BY <1>1, CarriedPorts
<1>3. InPending(p)' = InPending(p) /\ InWa(p)' = InWa(p) BY DEF InPending, InWa
<1>4. /\ PortAlone(p)' /\ \A u \in OutThreads : u # t => p \notin PortsOfCall(u)
      /\ \A u \in OutThreads : u # t => ~Covers(u, p)' /\ ~Claimed(u, p)' /\ PortCall(u, p)'
  BY <1>3, OwnRight DEF PortRight, PortAlone
<1>5. ~Covers(t, p)' /\ ~Claimed(t, p)' /\ ~Claimed(t, p) BY DEF Covers, Claimed
<1>6. PortCalls(p)' BY <1>4, <1>5 DEF PortCalls, PortCall
<1>7. \A u \in OutThreads : ~Claimed(u, p) BY <1>4, <1>5 DEF Claimed
<1>8. PortSequence(p)' BY <1>2, <1>3, <1>7 DEF PortRight, PortSequence
<1>9. \A u \in OutThreads : ~Covers(u, p)' BY <1>4, <1>5
<1>10. HeldPort(p) => HeldPort(p)'
  BY <1>2, <1>3, <1>4 DEF HeldPort
<1>11. PortHolds(p)'
  <2>1. CASE HeldPort(p) BY <1>2, <1>3, <1>9, <2>1 DEF PortRight, PortHolds
  <2>2. CASE ~HeldPort(p)
    <3>1. InPending(p) = {} BY <2>2 DEF Lingers
    <3>2. InWa(p) = {} /\ sequence[p].id = 0 BY <2>2 DEF HeldPort
    <3> QED BY <1>2, <1>3, <1>9, <3>1, <3>2 DEF PortHolds
  <2> QED BY <2>1, <2>2
<1>12. (~HeldPort(p))' => level'[p] = base'[p] BY <1>2, <1>10
<1> QED BY <1>4, <1>6, <1>8, <1>11, <1>12 DEF PortRight

\* PostOutput.
LEMMA PostRight ==
  ASSUME PortsRight, NEW t \in OutThreads, PostOutput(t)
  PROVE  PortsRight'
<1> DEFINE c == out[t]
           d == [c EXCEPT !.at = "add"]
<1>1. c.at = "post" /\ UNCHANGED <<pending, lone, wa, outCalls>> BY DEF PostOutput
<1>2. Carried(t) \/ UNCHANGED <<level, sequence, base>> BY DEF PostOutput
<1>3. \/ c.act.kind # "plain" /\ out' = [out EXCEPT ![t] = d] /\ Carried(t)
      \/ out' = [out EXCEPT ![t] = NoCall]
  <2>1. CASE out' = [out EXCEPT ![t] = IF c.act.kind = "plain" THEN NoCall
                                                             ELSE [@ EXCEPT !.at = "add"]]
             /\ Carried(t)
    <3>1. CASE c.act.kind = "plain" BY <2>1, <3>1
    <3>2. CASE c.act.kind # "plain" BY <2>1, <3>2 DEF PortsRight, OutTypes
    <3> QED BY <3>1, <3>2
  <2> QED BY <2>1 DEF PostOutput
<1>4. /\ spoilt \subseteq spoilt'
      /\ out' # [out EXCEPT ![t] = d] =>
           \A p \in PortsOfCall(t) : p \in spoilt' \/ (c.act.kind = "plain" /\ ~Lingers(p))
  <2>1. CASE Carried(t)
             /\ out' = [out EXCEPT ![t] = IF c.act.kind = "plain" THEN NoCall
                                                             ELSE [@ EXCEPT !.at = "add"]]
             /\ spoilt' = spoilt \cup {p \in DOMAIN c.act.set : c.act.kind = "plain" /\ Lingers(p)}
    <3>1. c.act.kind # "plain" => out' = [out EXCEPT ![t] = d]
      BY <2>1 DEF PortsRight, OutTypes
    <3>2. \A p \in DOMAIN c.act.set : c.act.kind = "plain" /\ Lingers(p) => p \in spoilt'
      BY <2>1
    <3>3. out' # [out EXCEPT ![t] = d] => c.act.kind = "plain" BY <3>1
    <3>4. spoilt \subseteq spoilt' BY <2>1
    <3> HIDE DEF d
    <3> QED BY <3>2, <3>3, <3>4, Zenon DEF PortsOfCall
  <2>2. CASE spoilt' = spoilt \cup {p \in DOMAIN c.act.set : c.act.kind # "plain" \/ Lingers(p)}
    <3>1. \A p \in DOMAIN c.act.set : c.act.kind # "plain" \/ Lingers(p) => p \in spoilt'
      BY <2>2
    <3>2. spoilt \subseteq spoilt' BY <2>2
    <3> HIDE DEF d
    <3> QED BY <3>1, <3>2, Zenon DEF PortsOfCall
  <2> QED BY <2>1, <2>2 DEF PostOutput
<1>5. OutTypes /\ OutPorts \ spoilt' \subseteq OutPorts \ spoilt BY <1>4 DEF PortsRight
<1>6. CallRight(t) /\ c \in OutCall BY <1>5 DEF OutTypes
<1>7. d \in OutCall /\ d.at = "add" /\ d.restore = c.restore /\ d.act = c.act /\ d.id = c.id
      /\ d.unknown = c.unknown /\ d.cancel = c.cancel
  BY <1>6 DEF OutCall, OutPlaces
<1>8. /\ level' \in [OutPorts -> BOOLEAN] /\ base' \in [OutPorts -> BOOLEAN]
      /\ sequence' \in [OutPorts -> Sequence]
      /\ \A p \in OutPorts \ PortsOfCall(t) :
           level'[p] = level[p] /\ base'[p] = base[p] /\ sequence'[p] = sequence[p]
  BY <1>2, <1>5, CarriedPorts DEF OutTypes
<1>9. /\ out' \in [OutThreads -> OutCall] /\ \A u \in OutThreads : CallRight(u)'
      /\ \A u \in OutThreads : u # t => out'[u] = out[u] /\ PortsOfCall(u)' = PortsOfCall(u)
      /\ \/ out'[t] = d /\ c.act.kind # "plain" /\ Carried(t)
            /\ PortsOfCall(t)' = PortsOfCall(t)
         \/ out'[t] = NoCall /\ out' = [out EXCEPT ![t] = NoCall] /\ PortsOfCall(t)' = {}
  <2>1. CASE c.act.kind # "plain" /\ out' = [out EXCEPT ![t] = d] /\ Carried(t)
    <3> HIDE DEF d
    <3>1. /\ out' \in [OutThreads -> OutCall] /\ out'[t] = d
          /\ \A u \in OutThreads : u # t => out'[u] = out[u] /\ PortsOfCall(u)' = PortsOfCall(u)
          /\ \A u \in OutThreads : u # t => CallRight(u)'
      BY <1>5, <1>7, <2>1, NewCall
    <3>2. PortsOfCall(t)' = PortsOfCall(t) BY <1>7, <3>1 DEF PortsOfCall
    <3>3. CallRight(t)' BY <1>1, <1>6, <1>7, <2>1, <3>1, <3>2 DEF CallRight
    <3> QED BY <2>1, <3>1, <3>2, <3>3
  <2>2. CASE out' = [out EXCEPT ![t] = NoCall] BY <1>5, <2>2, CallEnds
  <2> QED BY <1>3, <2>1, <2>2
<1>10. OutTypes' BY <1>1, <1>5, <1>8, <1>9 DEF OutTypes
<1>11. ASSUME NEW p \in OutPorts \ spoilt' PROVE PortRight(p)'
  <2>1. PortRight(p) BY <1>5 DEF PortsRight
  <2>2. InPending(p)' = InPending(p) /\ InWa(p)' = InWa(p) BY <1>1 DEF InPending, InWa
  <2>3. \A l \in lone' : p \notin DOMAIN l.restore BY <1>1, <2>1 DEF PortRight, PortAlone
  <2>4. CASE p \notin PortsOfCall(t)
    <3>1. p \notin PortsOfCall(t)' /\ ~Covers(t, p) BY <1>9, <2>4 DEF Covers
    <3>2. level'[p] = level[p] /\ base'[p] = base[p] /\ sequence'[p] = sequence[p]
      BY <1>8, <2>4
    <3> QED BY <1>1, <1>9, <2>1, <2>2, <2>3, <3>1, <3>2, Elsewhere
  <2>5. CASE p \in PortsOfCall(t) /\ out'[t] = d /\ c.act.kind # "plain" /\ Carried(t)
    BY <1>1, <1>9, <2>1, <2>5, PostHolds
  <2>6. CASE /\ p \in PortsOfCall(t) /\ out'[t] = NoCall /\ out' = [out EXCEPT ![t] = NoCall]
             /\ PortsOfCall(t)' = {}
    <3>1. out' # [out EXCEPT ![t] = d]
      <4>1. [out EXCEPT ![t] = d][t] = d BY <1>5 DEF OutTypes
      <4>2. NoCall.at = "idle" BY DEF NoCall
      <4> HIDE DEF d
      <4> QED BY <1>7, <2>6, <4>1, <4>2
    <3>2. c.act.kind = "plain" /\ ~Lingers(p) BY <1>4, <2>6, <3>1
    <3>3. CASE Carried(t)
      BY <1>1, <1>9, <2>1, <2>6, <3>2, <3>3, PostPlain
    <3>4. CASE UNCHANGED <<level, sequence, base>>
      <4>1. ~Covers(t, p) BY <3>2 DEF Covers
      <4> QED BY <1>1, <1>9, <2>1, <2>2, <2>3, <2>6, <3>4, <4>1, Elsewhere
    <3> QED BY <1>2, <3>3, <3>4
  <2> QED BY <1>9, <2>4, <2>5, <2>6
<1> QED BY <1>10, <1>11 DEF PortsRight

\* io_out_pending_add: the entry takes over what the call held its ports for.
LEMMA AddRight ==
  ASSUME PortsRight, NEW t \in OutThreads, io_out_pending_add(t)
  PROVE  PortsRight'
<1> DEFINE c    == out[t]
           free == {i \in OutSlots : ~pending[i].used}
           slot == Lowest(free)
           e    == [used |-> TRUE, id |-> c.id, by_timer |-> Many(t), restore |-> c.restore]
<1>1. /\ c.at = "add" /\ c.act.kind = "timed" /\ out' = [out EXCEPT ![t] = NoCall]
      /\ UNCHANGED <<level, sequence, wa, outCalls, outFails, base>>
      /\ \/ /\ free # {} /\ pending' = [pending EXCEPT ![slot] = e]
            /\ UNCHANGED <<lone, spoilt>>
         \/ /\ free = {} /\ lone' \subseteq lone \cup {e}
            /\ spoilt' = spoilt \cup PortsOfCall(t) /\ UNCHANGED pending
  BY DEF io_out_pending_add, Many
<1>2. OutTypes /\ OutPorts \ spoilt' \subseteq OutPorts \ spoilt BY <1>1 DEF PortsRight
<1>3. CallRight(t) /\ c \in OutCall /\ DOMAIN c.restore = PortsOfCall(t)
      /\ IsFiniteSet(PortsOfCall(t))
  BY <1>2 DEF OutTypes, CallRight
<1>4. /\ out' \in [OutThreads -> OutCall] /\ \A u \in OutThreads : CallRight(u)'
      /\ out'[t] = NoCall /\ PortsOfCall(t)' = {}
      /\ \A u \in OutThreads : u # t => out'[u] = out[u] /\ PortsOfCall(u)' = PortsOfCall(u)
  BY <1>1, <1>2, CallEnds
<1>5. e \in Entry BY <1>3 DEF Entry, OutCall, Many
<1>6. free # {} => slot \in OutSlots /\ ~pending[slot].used
  <2>1. free \in SUBSET Nat BY OutputParams DEF OutSlots
  <2>2. free # {} => slot \in free BY <2>1, LowestIn
  <2> QED BY <2>2
<1>7. e.used /\ e.id = c.id /\ e.by_timer = Many(t) /\ e.restore = c.restore OBVIOUS
<1> HIDE DEF e, slot
<1>8. /\ pending' \in [OutSlots -> Entry] /\ lone' \subseteq Entry
      /\ \A i \in OutSlots : IsFiniteSet(DOMAIN pending'[i].restore)
  BY <1>1, <1>2, <1>3, <1>5, <1>6, <1>7 DEF OutTypes
<1>9. OutTypes' BY <1>1, <1>2, <1>4, <1>8 DEF OutTypes
<1>10. ASSUME NEW p \in OutPorts \ spoilt' PROVE PortRight(p)'
  <2>1. PortRight(p) BY <1>2 DEF PortsRight
  <2>2. InWa(p)' = InWa(p) BY <1>1 DEF InWa
  <2>3. \A l \in lone' : p \notin DOMAIN l.restore
    BY <1>1, <1>3, <1>7, <2>1 DEF PortRight, PortAlone
  <2>4. CASE p \notin PortsOfCall(t)
    <3>1. p \notin PortsOfCall(t)' /\ ~Covers(t, p) BY <1>4, <2>4 DEF Covers
    <3>2. /\ InPending(p)' = InPending(p) /\ \A i \in InPending(p) : pending'[i] = pending[i]
      <4>1. CASE UNCHANGED pending BY <4>1 DEF InPending
      <4>2. CASE free # {} /\ pending' = [pending EXCEPT ![slot] = e]
        <5>1. ASSUME NEW i \in OutSlots
              PROVE  /\ i \in InPending(p)' <=> i \in InPending(p)
                     /\ i \in InPending(p) => pending'[i] = pending[i]
          <6>1. CASE i = slot
            <7>1. pending'[i] = e BY <1>2, <4>2, <6>1 DEF OutTypes
            <7> QED BY <1>3, <1>6, <1>7, <2>4, <4>2, <6>1, <7>1 DEF InPending
          <6>2. CASE i # slot
            <7>1. pending'[i] = pending[i] BY <1>2, <4>2, <6>2 DEF OutTypes
            <7> QED BY <7>1 DEF InPending
          <6> QED BY <6>1, <6>2
        <5>2. InPending(p)' \subseteq OutSlots /\ InPending(p) \subseteq OutSlots
          BY DEF InPending
        <5> QED BY <5>1, <5>2
      <4> QED BY <1>1, <4>1, <4>2
    <3> QED BY <1>1, <1>4, <2>1, <2>2, <2>3, <3>1, <3>2, Elsewhere
  <2>5. CASE p \in PortsOfCall(t)
    <3>1. /\ free # {} /\ pending' = [pending EXCEPT ![slot] = e] /\ UNCHANGED lone
      BY <1>1, <2>5
    <3>2. Claimed(t, p) /\ Covers(t, p) BY <1>1, <2>5 DEF Claimed, Covers
    <3>3. /\ InPending(p) = {} /\ p \notin c.unknown
          /\ Many(t) => sequence[p].id = 0
          /\ ~Many(t) => sequence[p].id \in {0, c.id}
          /\ ~Many(t) /\ sequence[p].id = 0 => level[p] = base[p]
      BY <1>1, <2>1, <3>2 DEF PortRight, PortCalls, PortCall
    <3>4. InPending(p)' = {slot} /\ pending'[slot] = e
      <4>1. pending'[slot] = e /\ slot \in OutSlots BY <1>2, <1>6, <3>1 DEF OutTypes
      <4>2. \A i \in OutSlots : i # slot => pending'[i] = pending[i]
        BY <1>2, <3>1 DEF OutTypes
      <4>3. \A i \in OutSlots : i \in InPending(p)' <=> i = slot
        BY <1>3, <1>7, <2>5, <3>3, <4>1, <4>2 DEF InPending
      <4>4. InPending(p)' \subseteq OutSlots BY DEF InPending
      <4> QED BY <4>1, <4>3, <4>4
    <3>5. /\ PortAlone(p)' /\ \A u \in OutThreads : u # t => p \notin PortsOfCall(u)
          /\ \A u \in OutThreads : u # t => ~Covers(u, p)' /\ ~Claimed(u, p)' /\ PortCall(u, p)'
      BY <1>4, <2>1, <2>3, <2>5, <3>4, OwnRight
    <3>6. ~Covers(t, p)' /\ ~Claimed(t, p)' BY <1>4 DEF Covers, Claimed
    <3>7. PortCalls(p)' BY <3>5, <3>6 DEF PortCalls, PortCall
    <3>8. c.restore[p] = base[p] BY <2>1, <3>2, <3>3 DEF PortRight, PortHolds
    <3>9. PortHolds(p)'
      <4>1. \A u \in OutThreads : ~Covers(u, p)' BY <3>5, <3>6
      <4> QED BY <1>1, <1>7, <2>1, <2>2, <3>4, <3>8, <4>1 DEF PortRight, PortHolds
    <3>10. PortSequence(p)'
      <4>1. sequence[p].id # 0 => ~e.by_timer /\ e.id = sequence[p].id BY <1>7, <3>3
      <4> QED BY <1>1, <3>4, <4>1 DEF PortSequence
    <3>11. (~HeldPort(p))' => level'[p] = base'[p]
      <4>1. (~HeldPort(p))' => ~e.by_timer /\ sequence[p].id = 0
        BY <1>1, <3>4 DEF HeldPort
      <4> QED BY <1>1, <1>7, <3>3, <4>1
    <3> QED BY <3>5, <3>7, <3>9, <3>10, <3>11 DEF PortRight
  <2> QED BY <2>4, <2>5
<1> QED BY <1>9, <1>10 DEF PortsRight

\* while_active_register: the same for the entry of the rule.
LEMMA RegisterRight ==
  ASSUME PortsRight, NEW t \in OutThreads, while_active_register(t)
  PROVE  PortsRight'
<1> DEFINE c    == out[t]
           mine == {i \in 1..Len(wa) : wa[i].rule = c.act.rule}
           e    == [rule |-> c.act.rule, restore |-> c.restore]
           gone == (UNION {DOMAIN wa[i].restore : i \in mine}) \ PortsOfCall(t)
           slot == Lowest(mine)
           R    == [rule : RuleIds, restore : States]
<1>1. /\ c.at = "add" /\ c.act.kind = "while_active" /\ out' = [out EXCEPT ![t] = NoCall]
      /\ UNCHANGED <<level, sequence, pending, lone, outCalls, outFails, base>>
      /\ spoilt \subseteq spoilt'
      /\ \/ /\ mine # {} /\ wa' = [wa EXCEPT ![slot] = e] /\ gone \subseteq spoilt'
         \/ wa' = Append(wa, e)
         \/ PortsOfCall(t) \subseteq spoilt' /\ UNCHANGED wa
  BY DEF while_active_register
<1>2. OutTypes /\ OutPorts \ spoilt' \subseteq OutPorts \ spoilt BY <1>1 DEF PortsRight
<1>3. CallRight(t) /\ c \in OutCall /\ DOMAIN c.restore = PortsOfCall(t)
  BY <1>2 DEF OutTypes, CallRight
<1>4. /\ out' \in [OutThreads -> OutCall] /\ \A u \in OutThreads : CallRight(u)'
      /\ out'[t] = NoCall /\ PortsOfCall(t)' = {}
      /\ \A u \in OutThreads : u # t => out'[u] = out[u] /\ PortsOfCall(u)' = PortsOfCall(u)
  BY <1>1, <1>2, CallEnds
<1>5. e \in R /\ e.restore = c.restore BY <1>3 DEF OutCall, OutAction
<1>6. mine # {} => slot \in mine /\ slot \in 1 .. Len(wa)
  <2>1. mine \in SUBSET Nat BY <1>2 DEF OutTypes
  <2> QED BY <2>1, LowestIn
<1>7. wa \in Seq(R) /\ Len(wa) \in Nat BY <1>2 DEF OutTypes
<1>8. mine # {} => \A p : p \in DOMAIN wa[slot].restore => p \in gone \/ p \in PortsOfCall(t)
  <2> DEFINE all == {DOMAIN wa[i].restore : i \in mine}
  <2>1. mine # {} => DOMAIN wa[slot].restore \in all BY <1>6
  <2> HIDE DEF all
  <2>2. mine # {} => \A p : p \in DOMAIN wa[slot].restore => p \in UNION all BY <2>1
  <2>3. gone = (UNION all) \ PortsOfCall(t) BY DEF all
  <2> HIDE DEF gone, mine, slot
  <2> QED BY <2>2, <2>3
<1> HIDE DEF e, slot, R, gone, mine
<1>9. /\ wa' \in Seq(R)
      /\ \A p \in OutPorts \ spoilt' :
           /\ p \notin PortsOfCall(t) =>
                InWa(p)' = InWa(p) /\ \A i \in InWa(p) : wa'[i] = wa[i]
           /\ p \in PortsOfCall(t) =>
                /\ InWa(p)' # {}
                /\ \A i \in InWa(p)' : wa'[i] = e \/ (i \in InWa(p) /\ wa'[i] = wa[i])
  <2>1. CASE mine # {} /\ wa' = [wa EXCEPT ![slot] = e] /\ gone \subseteq spoilt'
    <3>1. wa' \in Seq(R) /\ Len(wa') = Len(wa) /\ wa'[slot] = e
          /\ \A i \in 1 .. Len(wa) : i # slot => wa'[i] = wa[i]
      BY <1>5, <1>6, <1>7, <2>1
    <3>2. ASSUME NEW p \in OutPorts \ spoilt', p \notin PortsOfCall(t)
          PROVE  InWa(p)' = InWa(p) /\ \A i \in InWa(p) : wa'[i] = wa[i]
      <4>1. p \notin DOMAIN wa[slot].restore /\ p \notin DOMAIN wa'[slot].restore
        BY <1>3, <1>5, <1>8, <2>1, <3>1, <3>2
      <4> QED BY <3>1, <4>1 DEF InWa
    <3>3. ASSUME NEW p \in OutPorts \ spoilt', p \in PortsOfCall(t)
          PROVE  /\ InWa(p)' # {}
                 /\ \A i \in InWa(p)' : wa'[i] = e \/ (i \in InWa(p) /\ wa'[i] = wa[i])
      <4>1. slot \in InWa(p)' BY <1>3, <1>5, <1>6, <2>1, <3>1, <3>3 DEF InWa
      <4> QED BY <3>1, <4>1 DEF InWa
    <3> QED BY <3>1, <3>2, <3>3
  <2>2. CASE wa' = Append(wa, e)
    <3>1. wa' \in Seq(R) /\ Len(wa') = Len(wa) + 1 /\ wa'[Len(wa) + 1] = e
          /\ \A i \in 1 .. Len(wa) : wa'[i] = wa[i]
      BY <1>5, <1>7, <2>2
    <3>2. ASSUME NEW p \in OutPorts \ spoilt', p \notin PortsOfCall(t)
          PROVE  InWa(p)' = InWa(p) /\ \A i \in InWa(p) : wa'[i] = wa[i]
      <4>1. p \notin DOMAIN wa'[Len(wa) + 1].restore BY <1>3, <1>5, <3>1, <3>2
      <4>2. \A i \in 1 .. Len(wa) + 1 : i = Len(wa) + 1 \/ i \in 1 .. Len(wa) BY <1>7
      <4>3. \A i \in 1 .. Len(wa) : i \in 1 .. Len(wa) + 1 BY <1>7
      <4> QED BY <3>1, <4>1, <4>2, <4>3 DEF InWa
    <3>3. ASSUME NEW p \in OutPorts \ spoilt', p \in PortsOfCall(t)
          PROVE  /\ InWa(p)' # {}
                 /\ \A i \in InWa(p)' : wa'[i] = e \/ (i \in InWa(p) /\ wa'[i] = wa[i])
      <4>1. Len(wa) + 1 \in InWa(p)' BY <1>3, <1>5, <1>7, <3>1, <3>3 DEF InWa
      <4>2. \A i \in 1 .. Len(wa) + 1 : i = Len(wa) + 1 \/ i \in 1 .. Len(wa) BY <1>7
      <4> QED BY <3>1, <4>1, <4>2 DEF InWa
    <3> QED BY <3>1, <3>2, <3>3
  <2>3. CASE PortsOfCall(t) \subseteq spoilt' /\ UNCHANGED wa
    BY <1>7, <2>3 DEF InWa
  <2> QED BY <1>1, <2>1, <2>2, <2>3
<1>10. OutTypes' BY <1>1, <1>2, <1>4, <1>9 DEF OutTypes, R
<1>11. ASSUME NEW p \in OutPorts \ spoilt' PROVE PortRight(p)'
  <2>1. PortRight(p) BY <1>2 DEF PortsRight
  <2>2. InPending(p)' = InPending(p) BY <1>1 DEF InPending
  <2>3. \A l \in lone' : p \notin DOMAIN l.restore BY <1>1, <2>1 DEF PortRight, PortAlone
  <2>4. CASE p \notin PortsOfCall(t)
    <3>1. p \notin PortsOfCall(t)' /\ ~Covers(t, p) BY <1>4, <2>4 DEF Covers
    <3>2. InWa(p)' = InWa(p) /\ \A i \in InWa(p) : wa'[i] = wa[i] BY <1>9, <2>4
    <3> QED BY <1>1, <1>4, <2>1, <2>2, <2>3, <3>1, <3>2, Elsewhere
  <2>5. CASE p \in PortsOfCall(t)
    <3>1. /\ InWa(p)' # {}
          /\ \A i \in InWa(p)' : wa'[i] = e \/ (i \in InWa(p) /\ wa'[i] = wa[i])
      BY <1>9, <2>5
    <3>2. Covers(t, p) /\ p \notin c.unknown
      BY <1>1, <2>1, <2>5 DEF Covers, PortRight, PortCalls, PortCall
    <3>3. c.restore[p] = base[p] BY <2>1, <3>2 DEF PortRight, PortHolds
    <3>4. /\ PortAlone(p)' /\ \A u \in OutThreads : u # t => p \notin PortsOfCall(u)
          /\ \A u \in OutThreads : u # t => ~Covers(u, p)' /\ ~Claimed(u, p)' /\ PortCall(u, p)'
      BY <1>4, <2>1, <2>2, <2>3, <2>5, OwnRight DEF PortRight, PortAlone
    <3>5. ~Covers(t, p)' /\ ~Claimed(t, p)' /\ ~Claimed(t, p) BY <1>1, <1>4 DEF Covers, Claimed
    <3>6. PortCalls(p)' BY <3>4, <3>5 DEF PortCalls, PortCall
    <3>7. PortHolds(p)'
      <4>1. \A u \in OutThreads : ~Covers(u, p)' BY <3>4, <3>5
      <4>2. \A i \in InWa(p)' : wa'[i].restore[p] = base'[p]
        BY <1>1, <1>5, <2>1, <3>1, <3>3 DEF PortRight, PortHolds
      <4> QED BY <1>1, <2>1, <2>2, <4>1, <4>2 DEF PortRight, PortHolds
    <3>8. PortSequence(p)'
      <4>1. \A u \in OutThreads : ~Claimed(u, p) BY <3>4, <3>5 DEF Claimed
      <4> QED BY <1>1, <2>1, <2>2, <4>1 DEF PortRight, PortSequence
    <3>9. HeldPort(p)' BY <3>1 DEF HeldPort
    <3> QED BY <3>4, <3>6, <3>7, <3>8, <3>9 DEF PortRight
  <2> QED BY <2>4, <2>5
<1> QED BY <1>10, <1>11 DEF PortsRight

\* The camera ends a sequence: the port has the state base.
LEMMA EndsRight ==
  ASSUME PortsRight, NEW q \in OutPorts, SequenceEnds(q)
  PROVE  PortsRight'
<1>1. /\ sequence[q].id # 0 /\ level' = [level EXCEPT ![q] = sequence[q].back]
      /\ sequence' = [sequence EXCEPT ![q] = NoSequence]
      /\ UNCHANGED <<pending, lone, wa, out, outCalls, outFails, base, spoilt>>
  BY DEF SequenceEnds
<1>2. OutTypes BY DEF PortsRight
<1>3. NoSequence \in Sequence /\ NoSequence.id = 0 BY DEF NoSequence, Sequence
<1>4. /\ level' \in [OutPorts -> BOOLEAN] /\ sequence' \in [OutPorts -> Sequence]
      /\ \A p \in OutPorts : p # q => level'[p] = level[p] /\ sequence'[p] = sequence[p]
      /\ level'[q] = sequence[q].back /\ sequence'[q].id = 0
  BY <1>1, <1>2, <1>3 DEF OutTypes, Sequence
<1>5. \A u \in OutThreads : PortsOfCall(u)' = PortsOfCall(u) /\ Many(u)' = Many(u)
  BY <1>1 DEF PortsOfCall, Many
<1>6. OutTypes'
  <2>1. \A u \in OutThreads : CallRight(u)'
    BY <1>1, <1>2, <1>5 DEF OutTypes, CallRight
  <2> QED BY <1>1, <1>2, <1>4, <2>1 DEF OutTypes
<1>7. ASSUME NEW p \in OutPorts \ spoilt' PROVE PortRight(p)'
  <2>1. PortRight(p) BY <1>1 DEF PortsRight
  <2>2. InPending(p)' = InPending(p) /\ InWa(p)' = InWa(p) BY <1>1 DEF InPending, InWa
  <2>3. \A u \in OutThreads : /\ Covers(u, p)' <=> Covers(u, p)
                              /\ Claimed(u, p)' <=> Claimed(u, p)
    BY <1>1, <1>5 DEF Covers, Claimed
  <2>4. \/ sequence'[p] = sequence[p] /\ level'[p] = level[p]
        \/ sequence[p].id # 0 /\ sequence'[p].id = 0 /\ level'[p] = base[p]
    BY <1>1, <1>4, <2>1 DEF PortRight, PortHolds
  <2>5. PortAlone(p)' BY <1>1, <1>5, <2>1, <2>2 DEF PortRight, PortAlone
  <2>6. PortHolds(p)' BY <1>1, <2>1, <2>2, <2>3, <2>4 DEF PortRight, PortHolds
  <2>7. PortSequence(p)' BY <1>1, <2>1, <2>2, <2>3, <2>4 DEF PortRight, PortSequence
  <2>8. PortCalls(p)'
    BY <1>1, <1>5, <2>1, <2>2, <2>3, <2>4 DEF PortRight, PortCalls, PortCall
  <2>9. (~HeldPort(p))' => level'[p] = base'[p]
    BY <1>1, <1>5, <2>1, <2>2, <2>4 DEF PortRight, HeldPort
  <2> QED BY <2>5, <2>6, <2>7, <2>8, <2>9 DEF PortRight
<1> QED BY <1>6, <1>7 DEF PortsRight

LEMMA FreeRight ==
  /\ FreeEntry \in Entry /\ ~FreeEntry.used /\ IsFiniteSet(DOMAIN FreeEntry.restore)
BY NothingIsStates DEF FreeEntry, Entry

\* io_out_pending_cb: the main loop's call takes the ports over from a timer; the sequence of
\* an entry without one has ended or has been replaced.
LEMMA TimerRight ==
  ASSUME PortsRight, NEW i \in OutSlots, io_out_pending_cb(i)
  PROVE  PortsRight'
<1> DEFINE e == pending[i]
           t == "main"
           d == [NoCall EXCEPT !.at = "restore", !.restore = e.restore,
                               !.act.kind = "timed", !.act.set = e.restore]
<1>1. /\ out[t].at = "idle" /\ e.used
      /\ e.by_timer \/ \A p \in DOMAIN e.restore : sequence[p].id # e.id
      /\ pending' = [pending EXCEPT ![i] = FreeEntry]
      /\ out' = IF e.by_timer THEN [out EXCEPT ![t] = d] ELSE out
      /\ spoilt' = spoilt \cup (DOMAIN e.restore \cap Meanwhile(t))
      /\ UNCHANGED <<level, sequence, lone, wa, outCalls, outFails, base>>
  BY DEF io_out_pending_cb
<1>2. OutTypes /\ OutPorts \ spoilt' \subseteq OutPorts \ spoilt /\ t \in OutThreads
  BY <1>1 DEF PortsRight, OutThreads
<1>3. e \in Entry /\ e.restore \in States /\ IsFiniteSet(DOMAIN e.restore)
  BY <1>2 DEF OutTypes, Entry
<1>4. /\ d \in OutCall /\ d.at = "restore" /\ d.restore = e.restore /\ d.unknown = {}
      /\ d.act.kind = "timed" /\ d.act.set = e.restore
  <2>1. "" \in RuleIds BY DEF RuleIds
  <2> QED BY <1>3, <2>1 DEF NoCall, OutCall, OutPlaces, OutAction
<1> HIDE DEF d
<1>5. PortsOfCall(t) = {} /\ out[t].act.kind = "plain"
  BY <1>1, <1>2 DEF OutTypes, CallRight
<1>6. /\ out' \in [OutThreads -> OutCall] /\ \A u \in OutThreads : CallRight(u)'
      /\ \A u \in OutThreads : u # t => out'[u] = out[u] /\ PortsOfCall(u)' = PortsOfCall(u)
      /\ e.by_timer => out'[t] = d /\ PortsOfCall(t)' = DOMAIN e.restore
      /\ ~e.by_timer => out' = out /\ PortsOfCall(t)' = {}
  <2>1. CASE e.by_timer
    <3>1. /\ out' \in [OutThreads -> OutCall] /\ out'[t] = d
          /\ \A u \in OutThreads : u # t => out'[u] = out[u] /\ PortsOfCall(u)' = PortsOfCall(u)
          /\ \A u \in OutThreads : u # t => CallRight(u)'
      <4>1. out' = [out EXCEPT ![t] = d] BY <1>1, <2>1
      <4> QED BY <1>2, <1>4, <4>1, NewCall
    <3>2. PortsOfCall(t)' = DOMAIN e.restore BY <1>4, <3>1 DEF PortsOfCall
    <3>3. CallRight(t)' BY <1>3, <1>4, <3>1, <3>2 DEF CallRight
    <3> QED BY <2>1, <3>1, <3>2, <3>3
  <2>2. CASE ~e.by_timer
    <3>1. out' = out BY <1>1, <2>2
    <3> QED BY <1>2, <1>5, <2>2, <3>1 DEF OutTypes, CallRight, PortsOfCall, Many
  <2> QED BY <2>1, <2>2
<1>7. /\ pending' \in [OutSlots -> Entry] /\ ~pending'[i].used
      /\ \A j \in OutSlots : j # i => pending'[j] = pending[j]
      /\ \A j \in OutSlots : IsFiniteSet(DOMAIN pending'[j].restore)
  BY <1>1, <1>2, FreeRight DEF OutTypes
<1>8. OutTypes' BY <1>1, <1>2, <1>6, <1>7 DEF OutTypes
<1>9. ASSUME NEW p \in OutPorts \ spoilt' PROVE PortRight(p)'
  <2>1. PortRight(p) BY <1>2 DEF PortsRight
  <2>2. InWa(p)' = InWa(p) BY <1>1 DEF InWa
  <2>3. \A l \in lone' : p \notin DOMAIN l.restore BY <1>1, <2>1 DEF PortRight, PortAlone
  <2>4. InPending(p)' = InPending(p) \ {i}
    <3>1. \A j \in OutSlots : j \in InPending(p)' <=> j # i /\ j \in InPending(p)
      BY <1>7 DEF InPending
    <3>2. InPending(p)' \subseteq OutSlots /\ InPending(p) \subseteq OutSlots BY DEF InPending
    <3> QED BY <3>1, <3>2
  <2>5. \A j \in InPending(p)' : pending'[j] = pending[j] BY <1>7, <2>4 DEF InPending
  <2>6. CASE p \notin DOMAIN e.restore
    <3>1. i \notin InPending(p) BY <2>6 DEF InPending
    <3>2. p \notin PortsOfCall(t)' /\ ~Covers(t, p) BY <1>5, <1>6, <2>6 DEF Covers
    <3> QED BY <1>1, <1>2, <1>6, <2>1, <2>2, <2>3, <2>4, <2>5, <3>1, <3>2, Elsewhere
  <2>7. CASE p \in DOMAIN e.restore
    <3>1. InPending(p) = {i} /\ InPending(p)' = {}
      <4>1. i \in InPending(p) BY <1>1, <2>7 DEF InPending
      <4> QED BY <2>1, <2>4, <4>1 DEF PortRight, PortAlone
    <3>2. \A u \in OutThreads : u # t => p \notin PortsOfCall(u) /\ p \notin PortsOfCall(u)'
      BY <1>1, <1>2, <1>6, <2>7, OthersPorts
    <3>3. \A u \in OutThreads : ~Claimed(u, p) /\ ~Covers(u, p)
      BY <1>5, <3>2 DEF Claimed, Covers
    <3>4. sequence[p].id = 0
      BY <1>1, <2>1, <2>7, <3>1, <3>3 DEF PortRight, PortSequence
    <3>5. e.restore[p] = base[p] BY <2>1, <3>1 DEF PortRight, PortHolds
    <3>6. \A u \in OutThreads : u # t => ~Claimed(u, p)' /\ ~Covers(u, p)'
      BY <3>2 DEF Claimed, Covers
    <3>7. ~Claimed(t, p)' BY <1>4, <1>5, <1>6 DEF Claimed
    <3>8. PortAlone(p)' BY <2>3, <3>1, <3>2 DEF PortAlone
    <3>9. Covers(t, p)' => out'[t] = d BY <1>6 DEF Covers
    <3>10. PortHolds(p)'
      <4>1. \A u \in OutThreads : Covers(u, p)' => u = t BY <3>6
      <4>2. \A u \in OutThreads : Covers(u, p)' /\ p \notin out'[u].unknown
                                    => out'[u].restore[p] = base'[p]
        BY <1>1, <1>4, <3>5, <3>9, <4>1
      <4> QED BY <1>1, <2>1, <2>2, <3>1, <3>4, <4>2 DEF PortRight, PortHolds
    <3>11. PortSequence(p)' BY <1>1, <3>4 DEF PortSequence
    <3>12. PortCalls(p)'
      <4>1. PortCall(t, p)' BY <1>4, <3>7, <3>9 DEF PortCall
      <4>2. \A u \in OutThreads : u # t => PortCall(u, p)' BY <3>6 DEF PortCall
      <4> QED BY <4>1, <4>2 DEF PortCalls
    <3>13. (~HeldPort(p))' => level'[p] = base'[p]
      <4>1. CASE e.by_timer
        <5>1. HeldPort(p)' BY <1>2, <1>4, <1>6, <2>7, <4>1 DEF HeldPort
        <5> QED BY <5>1
      <4>2. CASE ~e.by_timer
        <5>1. HeldPort(p) => HeldPort(p)'
          BY <1>1, <1>6, <2>2, <3>1, <4>2 DEF HeldPort, PortsOfCall
        <5> QED BY <1>1, <2>1, <5>1 DEF PortRight
      <4> QED BY <4>1, <4>2
    <3> QED BY <3>8, <3>10, <3>11, <3>12, <3>13 DEF PortRight
  <2> QED BY <2>6, <2>7
<1> QED BY <1>8, <1>9 DEF PortsRight

LEMMA RestoredPorts ==
  ASSUME OutTypes, NEW states \in States, Restores(states)
  PROVE  /\ level' \in [OutPorts -> BOOLEAN] /\ spoilt \subseteq spoilt'
         /\ \A p \in OutPorts \ DOMAIN states : level'[p] = level[p]
         /\ \A p \in DOMAIN states : p \in OutPorts /\ (p \in spoilt' \/ level'[p] = states[p])
<1>1. DOMAIN states \subseteq OutPorts /\ states \in [DOMAIN states -> BOOLEAN] BY StatesType
<1>2. level \in [OutPorts -> BOOLEAN] BY DEF OutTypes
<1>3. CASE SetPorts(states) /\ UNCHANGED <<outFails, spoilt>> BY <1>1, <1>2, <1>3 DEF SetPorts
<1>4. CASE MayFail /\ spoilt' = spoilt \cup DOMAIN states /\ UNCHANGED level BY <1>1, <1>2, <1>4
<1> QED BY <1>3, <1>4 DEF Restores

\* io_output_post_restore: the ports of the timer have the state base.
LEMMA RestoreRight ==
  ASSUME PortsRight, io_output_post_restore
  PROVE  PortsRight'
<1> DEFINE t == "main"
<1>1. /\ out[t].at = "restore" /\ Restores(out[t].restore) /\ out' = [out EXCEPT ![t] = NoCall]
      /\ UNCHANGED <<sequence, pending, lone, wa, outCalls, base>>
  BY DEF io_output_post_restore
<1>2. OutTypes /\ t \in OutThreads BY DEF PortsRight, OutThreads
<1>3. /\ out[t].restore \in States /\ out[t].act.kind = "timed"
      /\ DOMAIN out[t].restore = PortsOfCall(t)
  BY <1>1, <1>2 DEF OutTypes, CallRight, OutCall
<1>4. /\ level' \in [OutPorts -> BOOLEAN] /\ spoilt \subseteq spoilt'
      /\ \A p \in OutPorts \ PortsOfCall(t) : level'[p] = level[p]
      /\ \A p \in PortsOfCall(t) :
           p \in OutPorts /\ (p \in spoilt' \/ level'[p] = out[t].restore[p])
  BY <1>1, <1>2, <1>3, RestoredPorts
<1>5. /\ out' \in [OutThreads -> OutCall] /\ \A u \in OutThreads : CallRight(u)'
      /\ out'[t] = NoCall /\ PortsOfCall(t)' = {}
      /\ \A u \in OutThreads : u # t => out'[u] = out[u] /\ PortsOfCall(u)' = PortsOfCall(u)
  BY <1>1, <1>2, CallEnds
<1>6. OutTypes' BY <1>1, <1>2, <1>4, <1>5 DEF OutTypes
<1>7. ASSUME NEW p \in OutPorts \ spoilt' PROVE PortRight(p)'
  <2>1. PortRight(p) BY <1>4 DEF PortsRight
  <2>2. InPending(p)' = InPending(p) /\ InWa(p)' = InWa(p) BY <1>1 DEF InPending, InWa
  <2>3. \A l \in lone' : p \notin DOMAIN l.restore BY <1>1, <2>1 DEF PortRight, PortAlone
  <2>4. CASE p \notin PortsOfCall(t)
    <3>1. p \notin PortsOfCall(t)' /\ ~Covers(t, p) BY <1>5, <2>4 DEF Covers
    <3> QED BY <1>1, <1>2, <1>4, <1>5, <2>1, <2>2, <2>3, <2>4, <3>1, Elsewhere
  <2>5. CASE p \in PortsOfCall(t)
    <3>1. /\ PortAlone(p)' /\ \A u \in OutThreads : u # t => p \notin PortsOfCall(u)
          /\ \A u \in OutThreads : u # t => ~Covers(u, p)' /\ ~Claimed(u, p)' /\ PortCall(u, p)'
      BY <1>2, <1>5, <2>1, <2>2, <2>3, <2>5, OwnRight DEF PortRight, PortAlone
    <3>2. Covers(t, p) /\ p \notin out[t].unknown
      BY <1>1, <1>2, <1>3, <2>1, <2>5 DEF Covers, PortRight, PortCalls, PortCall
    <3>3. level'[p] = base'[p]
      BY <1>1, <1>2, <1>4, <2>1, <2>5, <3>2 DEF PortRight, PortHolds
    <3>4. ~Covers(t, p)' /\ ~Claimed(t, p)' /\ ~Claimed(t, p)
      BY <1>1, <1>5 DEF Covers, Claimed
    <3>5. PortCalls(p)' BY <3>1, <3>4 DEF PortCalls, PortCall
    <3>6. \A u \in OutThreads : ~Covers(u, p)' /\ ~Claimed(u, p)
      BY <3>1, <3>4 DEF Claimed
    <3>7. PortHolds(p)' BY <1>1, <2>1, <2>2, <3>6 DEF PortRight, PortHolds
    <3>8. PortSequence(p)' BY <1>1, <2>1, <2>2, <3>6 DEF PortRight, PortSequence
    <3> QED BY <3>1, <3>3, <3>5, <3>7, <3>8 DEF PortRight
  <2> QED BY <2>4, <2>5
<1> QED BY <1>6, <1>7 DEF PortsRight

\* io_out_lone_cb is for ports that are excused.
LEMMA LoneRight ==
  ASSUME PortsRight, io_out_lone_cb
  PROVE  PortsRight'
<1> DEFINE t == "main"
<1>1. /\ out[t].at = "idle" /\ UNCHANGED <<sequence, pending, wa, out, outCalls, base>>
  BY DEF io_out_lone_cb
<1>2. PICK l \in lone : lone' = lone \ {l} /\ Restores(l.restore) BY DEF io_out_lone_cb
<1>3. OutTypes /\ t \in OutThreads BY DEF PortsRight, OutThreads
<1>4. l.restore \in States BY <1>3 DEF OutTypes, Entry
<1>5. /\ level' \in [OutPorts -> BOOLEAN] /\ spoilt \subseteq spoilt'
      /\ \A p \in OutPorts \ DOMAIN l.restore : level'[p] = level[p]
  BY <1>2, <1>3, <1>4, RestoredPorts
<1>6. PortsOfCall(t) = {} /\ \A u \in OutThreads : PortsOfCall(u)' = PortsOfCall(u)
  BY <1>1, <1>3 DEF OutTypes, CallRight, PortsOfCall
<1>7. OutTypes'
  <2>1. \A u \in OutThreads : CallRight(u)'
    BY <1>1, <1>3, <1>6 DEF OutTypes, CallRight, Many
  <2> QED BY <1>1, <1>2, <1>3, <1>5, <2>1 DEF OutTypes
<1>8. ASSUME NEW p \in OutPorts \ spoilt' PROVE PortRight(p)'
  <2>1. PortRight(p) BY <1>5 DEF PortsRight
  <2>2. InPending(p)' = InPending(p) /\ InWa(p)' = InWa(p) BY <1>1 DEF InPending, InWa
  <2>3. \A k \in lone' : p \notin DOMAIN k.restore
    BY <1>2, <2>1 DEF PortRight, PortAlone
  <2>4. level'[p] = level[p] BY <1>2, <1>5, <2>1 DEF PortRight, PortAlone
  <2>5. p \notin PortsOfCall(t)' /\ ~Covers(t, p) BY <1>3, <1>6 DEF Covers
  <2> QED BY <1>1, <1>3, <1>6, <2>1, <2>2, <2>3, <2>4, <2>5, Elsewhere
<1> QED BY <1>7, <1>8 DEF PortsRight

\* UndoOutputs: the ports of the entry are to get the state base.
LEMMA UndoRight ==
  ASSUME PortsRight, UndoOutputs
  PROVE  PortsRight'
<1> DEFINE t == "main"
           R == [rule : RuleIds, restore : States]
<1>1. /\ out[t].at = "idle"
      /\ UNCHANGED <<level, sequence, pending, lone, wa, outCalls, outFails, base>>
  BY DEF UndoOutputs
<1>2. PICK i \in 1 .. Len(wa) :
        /\ out' = [out EXCEPT ![t] =
             [NoCall EXCEPT !.at = "undo", !.id = i, !.restore = wa[i].restore,
                            !.act.kind = "timed", !.act.set = wa[i].restore]]
        /\ spoilt' = spoilt \cup (IF TableBusy(t) THEN DOMAIN wa[i].restore
                                  ELSE DOMAIN wa[i].restore \cap Meanwhile(t))
  BY DEF UndoOutputs
<1> DEFINE S == wa[i].restore
           d == [NoCall EXCEPT !.at = "undo", !.id = i, !.restore = S,
                               !.act.kind = "timed", !.act.set = S]
<1>3. OutTypes /\ OutPorts \ spoilt' \subseteq OutPorts \ spoilt /\ t \in OutThreads
  BY <1>2 DEF PortsRight, OutThreads
<1>4. i \in Nat /\ i # 0 /\ S \in States /\ DOMAIN S \subseteq OutPorts /\ IsFiniteSet(DOMAIN S)
  <2>1. wa \in Seq(R) BY <1>3 DEF OutTypes
  <2> HIDE DEF R
  <2>a. wa[i] \in R BY <2>1, ElementIn
  <2>2. wa[i] \in R /\ i \in Nat /\ i # 0 BY <2>1, <2>a
  <2>3. S \in States BY <2>2 DEF R
  <2> QED BY <2>2, <2>3, StatesType
<1>5. out' = [out EXCEPT ![t] = d] BY <1>2
<1>6. /\ d \in OutCall /\ d.at = "undo" /\ d.restore = S /\ d.unknown = {} /\ d.id = i
      /\ d.act.kind = "timed" /\ d.act.set = S
  <2>1. "" \in RuleIds BY DEF RuleIds
  <2> QED BY <1>4, <2>1 DEF NoCall, OutCall, OutPlaces, OutAction
<1> HIDE DEF d, R
<1>7. PortsOfCall(t) = {} /\ out[t].act.kind = "plain"
  BY <1>1, <1>3 DEF OutTypes, CallRight
<1>8. /\ out' \in [OutThreads -> OutCall] /\ out'[t] = d
      /\ \A u \in OutThreads : u # t => out'[u] = out[u] /\ PortsOfCall(u)' = PortsOfCall(u)
      /\ \A u \in OutThreads : u # t => CallRight(u)'
  BY <1>3, <1>5, <1>6, NewCall
<1>9. PortsOfCall(t)' = DOMAIN S BY <1>6, <1>8 DEF PortsOfCall
<1>10. CallRight(t)' BY <1>4, <1>6, <1>8, <1>9 DEF CallRight
<1>11. OutTypes'
  <2>1. \A u \in OutThreads : CallRight(u)' BY <1>8, <1>10
  <2> QED BY <1>1, <1>3, <1>8, <2>1 DEF OutTypes
<1>12. \A p \in DOMAIN S \ spoilt' : \A u \in OutThreads : u # t => p \notin PortsOfCall(u)
  <2>1. \A p \in DOMAIN S \ spoilt' : p \notin Meanwhile(t) BY <1>2
  <2> QED BY <1>3, <2>1, OthersPorts
<1>13. \A p \in DOMAIN S : i \in InWa(p) BY DEF InWa
<1> HIDE DEF S, t
<1>14. ASSUME NEW p \in OutPorts \ spoilt' PROVE PortRight(p)'
  <2>1. PortRight(p) BY <1>3 DEF PortsRight
  <2>2. InPending(p)' = InPending(p) /\ InWa(p)' = InWa(p) BY <1>1 DEF InPending, InWa
  <2>3. \A l \in lone' : p \notin DOMAIN l.restore BY <1>1, <2>1 DEF PortRight, PortAlone
  <2>4. ~Covers(t, p) BY <1>7 DEF Covers
  <2>5. CASE p \notin DOMAIN S
    <3>1. p \notin PortsOfCall(t)' BY <1>9, <2>5
    <3> QED BY <1>1, <1>3, <1>8, <2>1, <2>2, <2>3, <2>4, <3>1, Elsewhere
  <2>6. CASE p \in DOMAIN S
    <3>1. /\ \A u \in OutThreads : u # t => p \notin PortsOfCall(u) /\ p \notin PortsOfCall(u)'
          /\ i \in InWa(p)
      BY <1>8, <1>12, <1>13, <2>6
    <3>2. S[p] = base[p] BY <2>1, <3>1 DEF PortRight, PortHolds, S
    <3>3. \A u \in OutThreads : /\ u # t => ~Covers(u, p)' /\ ~Claimed(u, p)'
                                /\ ~Covers(u, p) /\ ~Claimed(u, p)
      BY <1>7, <3>1 DEF Covers, Claimed
    <3>4. ~Claimed(t, p)' BY <1>6, <1>8 DEF Claimed
    <3>5. PortAlone(p)' BY <1>1, <2>1, <2>2, <2>3, <3>1 DEF PortRight, PortAlone
    <3>6. PortHolds(p)'
      <4>1. out'[t].restore[p] = base'[p] BY <1>1, <1>6, <1>8, <3>2
      <4>2. \A u \in OutThreads : Covers(u, p)' => out'[u].restore[p] = base'[p]
        BY <3>3, <4>1
      <4> QED BY <1>1, <2>1, <2>2, <4>2 DEF PortRight, PortHolds
    <3>7. PortSequence(p)' BY <1>1, <2>1, <2>2, <3>3 DEF PortRight, PortSequence
    <3>8. PortCall(t, p)' BY <1>6, <1>8, <3>4 DEF PortCall
    <3>9. \A u \in OutThreads : u # t => PortCall(u, p)' BY <3>1, <3>3 DEF PortCall
    <3>10. PortCalls(p)' BY <3>8, <3>9 DEF PortCalls
    <3>11. HeldPort(p)' BY <2>2, <3>1 DEF HeldPort
    <3> QED BY <3>5, <3>6, <3>7, <3>10, <3>11 DEF PortRight
  <2> QED BY <2>5, <2>6
<1> QED BY <1>11, <1>14 DEF PortsRight

\* while_active_undo: the ports of the entry have the state base.
LEMMA UndoneRight ==
  ASSUME PortsRight, while_active_undo
  PROVE  PortsRight'
<1> DEFINE t == "main"
           c == out[t]
           d == [c EXCEPT !.at = "remove"]
<1>1. /\ c.at = "undo" /\ Restores(c.restore) /\ out' = [out EXCEPT ![t].at = "remove"]
      /\ UNCHANGED <<sequence, pending, lone, wa, outCalls, base>>
  BY DEF while_active_undo
<1>2. OutTypes /\ t \in OutThreads BY DEF PortsRight, OutThreads
<1>3. /\ c.restore \in States /\ c.act.kind = "timed" /\ c \in OutCall /\ CallRight(t)
      /\ DOMAIN c.restore = PortsOfCall(t)
  BY <1>1, <1>2 DEF OutTypes, CallRight, OutCall
<1>4. /\ level' \in [OutPorts -> BOOLEAN] /\ spoilt \subseteq spoilt'
      /\ \A p \in OutPorts \ PortsOfCall(t) : level'[p] = level[p]
      /\ \A p \in PortsOfCall(t) : p \in OutPorts /\ (p \in spoilt' \/ level'[p] = c.restore[p])
  BY <1>1, <1>2, <1>3, RestoredPorts
<1>5. out' = [out EXCEPT ![t] = d] BY <1>1, <1>2 DEF OutTypes
<1>6. /\ d \in OutCall /\ d.at = "remove" /\ d.restore = c.restore /\ d.act = c.act /\ d.id = c.id
      /\ d.unknown = c.unknown /\ d.cancel = c.cancel
  BY <1>3 DEF OutCall, OutPlaces
<1>7. /\ out' \in [OutThreads -> OutCall] /\ out'[t] = d
      /\ \A u \in OutThreads : u # t => out'[u] = out[u] /\ PortsOfCall(u)' = PortsOfCall(u)
      /\ \A u \in OutThreads : u # t => CallRight(u)'
  <2> HIDE DEF d
  <2> QED BY <1>2, <1>5, <1>6, NewCall
<1> HIDE DEF d
<1>8. PortsOfCall(t)' = PortsOfCall(t) BY <1>6, <1>7 DEF PortsOfCall
<1>9. CallRight(t)' BY <1>1, <1>3, <1>6, <1>7, <1>8 DEF CallRight, Many
<1>10. OutTypes'
  <2>1. \A u \in OutThreads : CallRight(u)' BY <1>7, <1>9
  <2> QED BY <1>1, <1>2, <1>4, <1>7, <2>1 DEF OutTypes
<1>11. ASSUME NEW p \in OutPorts \ spoilt' PROVE PortRight(p)'
  <2>1. PortRight(p) BY <1>4 DEF PortsRight
  <2>2. InPending(p)' = InPending(p) /\ InWa(p)' = InWa(p) BY <1>1 DEF InPending, InWa
  <2>3. \A l \in lone' : p \notin DOMAIN l.restore BY <1>1, <2>1 DEF PortRight, PortAlone
  <2>4. CASE p \notin PortsOfCall(t)
    <3>1. p \notin PortsOfCall(t)' /\ ~Covers(t, p) BY <1>8, <2>4 DEF Covers
    <3>2. level'[p] = level[p] BY <1>4, <2>4
    <3> QED BY <1>1, <1>2, <1>7, <2>1, <2>2, <2>3, <3>1, <3>2, Elsewhere
  <2>5. CASE p \in PortsOfCall(t)
    <3>1. /\ PortAlone(p)' /\ \A u \in OutThreads : u # t => p \notin PortsOfCall(u)
          /\ \A u \in OutThreads : u # t => ~Covers(u, p)' /\ ~Claimed(u, p)' /\ PortCall(u, p)'
      BY <1>2, <1>7, <2>1, <2>2, <2>3, <2>5, OwnRight DEF PortRight, PortAlone
    <3>2. Covers(t, p) /\ Covers(t, p)' /\ p \notin c.unknown
      BY <1>1, <1>2, <1>3, <1>6, <1>7, <1>8, <2>1, <2>5 DEF Covers, PortRight, PortCalls, PortCall
    <3>3. c.restore[p] = base[p] BY <1>2, <2>1, <3>2 DEF PortRight, PortHolds
    <3>4. level'[p] = base'[p] BY <1>1, <1>4, <2>5, <3>3
    <3>5. ~Claimed(t, p)' /\ ~Claimed(t, p) BY <1>1, <1>6, <1>7 DEF Claimed
    <3>6. PortCall(t, p)' BY <1>6, <1>7, <3>2, <3>4, <3>5 DEF PortCall
    <3>7. PortCalls(p)' BY <3>1, <3>6 DEF PortCalls
    <3>8. \A u \in OutThreads : ~Claimed(u, p) BY <3>1, <3>5 DEF Claimed
    <3>9. out'[t].restore[p] = base'[p] BY <1>1, <1>6, <1>7, <3>3
    <3>10. PortHolds(p)'
      <4>1. \A u \in OutThreads : Covers(u, p)' => out'[u].restore[p] = base'[p]
        BY <3>1, <3>9
      <4> QED BY <1>1, <2>1, <2>2, <4>1 DEF PortRight, PortHolds
    <3>11. PortSequence(p)' BY <1>1, <2>1, <2>2, <3>8 DEF PortRight, PortSequence
    <3> QED BY <3>1, <3>4, <3>7, <3>10, <3>11 DEF PortRight
  <2> QED BY <2>4, <2>5
<1> QED BY <1>10, <1>11 DEF PortsRight

\* RemoveEntry: the ports of the entry that was undone have the state base, and the entries
\* for the others are still there.
LEMMA RemoveRight ==
  ASSUME PortsRight, Placed, RemoveEntry
  PROVE  PortsRight'
<1> DEFINE t == "main"
           n == Len(wa)
           i == out[t].id
           R == [rule : RuleIds, restore : States]
           over == [wa EXCEPT ![i] = wa[n]]
<1>1. /\ out[t].at = "remove" /\ out' = [out EXCEPT ![t] = NoCall]
      /\ UNCHANGED <<level, sequence, pending, lone, outCalls, outFails, base>>
      /\ wa' = SubSeq(over, 1, n - 1) \/ (TableBusy(t) /\ wa' = over)
      /\ spoilt' = spoilt \cup (IF TableBusy(t) THEN DOMAIN wa[i].restore \cup DOMAIN wa[n].restore
                                ELSE DOMAIN wa[i].restore \ PortsOfCall(t))
  BY DEF RemoveEntry
<1>2. /\ OutTypes /\ t \in OutThreads /\ OutPorts \ spoilt' \subseteq OutPorts \ spoilt
      /\ wa \in Seq(R)
  BY <1>1 DEF PortsRight, OutThreads, OutTypes
<1> HIDE DEF R
<1>3. n \in Nat /\ i \in 1 .. n /\ n \in 1 .. n /\ wa[n] \in R
  <2>1. i \in 1 .. n BY <1>1 DEF Placed
  <2>2. n \in Nat /\ n \in 1 .. n BY <1>2, <2>1
  <2> QED BY <1>2, <2>1, <2>2, ElementIn
<1>4. over \in Seq(R) /\ Len(over) = n
      /\ \A k \in 1 .. n : over[k] = IF k = i THEN wa[n] ELSE wa[k]
  BY <1>2, <1>3
<1> HIDE DEF over, i, t, n
<1>5. \/ /\ wa' \in Seq(R) /\ Len(wa') = n - 1
         /\ \A k \in 1 .. n - 1 : wa'[k] = IF k = i THEN wa[n] ELSE wa[k]
      \/ /\ wa' \in Seq(R) /\ Len(wa') = n /\ TableBusy(t)
         /\ \A k \in 1 .. n : wa'[k] = IF k = i THEN wa[n] ELSE wa[k]
  <2>1. CASE wa' = SubSeq(over, 1, n - 1)
    <3>1. \A k \in 1 .. n - 1 : k \in 1 .. n BY <1>3
    <3>2. wa' \in Seq(R) /\ Len(wa') = n - 1 /\ \A k \in 1 .. n - 1 : wa'[k] = over[k]
      BY <1>3, <1>4, <2>1
    <3> QED BY <1>4, <3>1, <3>2
  <2>2. CASE TableBusy(t) /\ wa' = over BY <1>4, <2>2
  <2> QED BY <1>1, <2>1, <2>2
<1>6. /\ out' \in [OutThreads -> OutCall] /\ \A u \in OutThreads : CallRight(u)'
      /\ out'[t] = NoCall /\ PortsOfCall(t)' = {}
      /\ \A u \in OutThreads : u # t => out'[u] = out[u] /\ PortsOfCall(u)' = PortsOfCall(u)
  BY <1>1, <1>2, CallEnds
<1>7. OutTypes' BY <1>1, <1>2, <1>5, <1>6 DEF OutTypes, R
<1>8. \A p \in OutPorts \ spoilt' :
        /\ i \in InWa(p) => p \in PortsOfCall(t)
        /\ TableBusy(t) => p \notin DOMAIN wa[n].restore /\ i \notin InWa(p)
  BY <1>1 DEF InWa
<1>9. ASSUME NEW p \in OutPorts \ spoilt' PROVE PortRight(p)'
  <2>1. PortRight(p) BY <1>2 DEF PortsRight
  <2>2. InPending(p)' = InPending(p) BY <1>1 DEF InPending
  <2>3. \A l \in lone' : p \notin DOMAIN l.restore BY <1>1, <2>1 DEF PortRight, PortAlone
  <2>4. \A k \in InWa(p)' : wa'[k].restore[p] = base[p]
    <3>1. ASSUME NEW k \in InWa(p)' PROVE wa'[k].restore[p] = base[p]
      <4>1. k \in 1 .. Len(wa') /\ p \in DOMAIN wa'[k].restore BY <3>1 DEF InWa
      <4>2. PICK j \in 1 .. n : wa'[k] = wa[j] BY <1>3, <1>5, <4>1
      <4>3. j \in InWa(p) BY <4>1, <4>2 DEF InWa, n
      <4> QED BY <2>1, <4>2, <4>3 DEF PortRight, PortHolds
    <3> QED BY <3>1
  <2>5. i \notin InWa(p) /\ InWa(p) # {} => InWa(p)' # {}
    <3>1. SUFFICES ASSUME NEW k \in InWa(p), k # i PROVE InWa(p)' # {} OBVIOUS
    <3>2. k \in 1 .. n /\ p \in DOMAIN wa[k].restore BY <3>1 DEF InWa, n
    <3>3. CASE k = n
      <4>1. ~TableBusy(t) BY <1>8, <3>2, <3>3
      <4>2. i \in 1 .. n - 1 /\ wa'[i] = wa[k] /\ Len(wa') = n - 1
        BY <1>3, <1>5, <3>1, <3>3, <4>1
      <4> QED BY <3>2, <4>2 DEF InWa
    <3>4. CASE k # n
      <4>1. k \in 1 .. Len(wa') /\ wa'[k] = wa[k] BY <1>3, <1>5, <3>1, <3>2, <3>4
      <4> QED BY <3>2, <4>1 DEF InWa
    <3> QED BY <3>3, <3>4
  <2>6. \A u \in OutThreads : u # t => /\ Covers(u, p)' <=> Covers(u, p)
                                       /\ Claimed(u, p)' <=> Claimed(u, p)
                                       /\ Many(u)' = Many(u)
    BY <1>6 DEF Covers, Claimed, Many
  <2>7. ~Covers(t, p)' /\ ~Claimed(t, p)' /\ ~Claimed(t, p) BY <1>1, <1>6 DEF Covers, Claimed
  <2>8. p \in PortsOfCall(t) => /\ level[p] = base[p]
                                /\ \A u \in OutThreads : u # t => p \notin PortsOfCall(u)
    <3>1. out[t].act.kind = "timed" BY <1>1, <1>2 DEF OutTypes, CallRight
    <3> QED BY <1>1, <1>2, <2>1, <3>1 DEF PortRight, PortAlone, PortCalls, PortCall, Covers
  <2>9. PortAlone(p)' BY <1>1, <1>6, <2>1, <2>2, <2>3 DEF PortRight, PortAlone
  <2>10. PortHolds(p)'
    <3>1. \A u \in OutThreads : Covers(u, p)' => u # t BY <2>7
    <3>2. \A u \in OutThreads : Covers(u, p)' /\ p \notin out'[u].unknown
                                  => out'[u].restore[p] = base'[p]
      BY <1>1, <1>6, <2>1, <2>6, <3>1 DEF PortRight, PortHolds
    <3> QED BY <1>1, <2>1, <2>2, <2>4, <3>2 DEF PortRight, PortHolds
  <2>11. PortSequence(p)'
    <3>1. \A u \in OutThreads : Claimed(u, p) => Claimed(u, p)' BY <2>6, <2>7
    <3> QED BY <1>1, <2>1, <2>2, <3>1 DEF PortRight, PortSequence
  <2>12. PortCalls(p)'
    <3>1. ASSUME NEW u \in OutThreads PROVE PortCall(u, p)'
      <4>1. CASE u = t BY <1>6, <2>7, <4>1 DEF PortCall
      <4>2. CASE u # t
        <5>1. PortCall(u, p) BY <2>1 DEF PortRight, PortCalls
        <5>2. p \in PortsOfCall(u) => i \notin InWa(p) BY <1>8, <2>8, <4>2
        <5>3. InWa(p) = {} => InWa(p)' = {}
          <6>1. ASSUME NEW k \in InWa(p)' PROVE InWa(p) # {}
            <7>1. k \in 1 .. Len(wa') /\ p \in DOMAIN wa'[k].restore BY <6>1 DEF InWa
            <7>2. PICK j \in 1 .. n : wa'[k] = wa[j] BY <1>3, <1>5, <7>1
            <7>3. j \in InWa(p) BY <7>1, <7>2 DEF InWa, n
            <7> QED BY <7>3
          <6> QED BY <6>1
        <5> QED BY <1>1, <1>6, <2>2, <2>6, <4>2, <5>1, <5>3 DEF PortCall
      <4> QED BY <4>1, <4>2
    <3> QED BY <3>1 DEF PortCalls
  <2>13. (~HeldPort(p))' => level'[p] = base'[p]
    <3>1. CASE p \in PortsOfCall(t) BY <1>1, <2>8, <3>1
    <3>2. CASE p \notin PortsOfCall(t)
      <4>1. i \notin InWa(p) BY <1>8, <3>2
      <4>2. \A u \in OutThreads : Covers(u, p) => Covers(u, p)' BY <2>6, <3>2 DEF Covers
      <4>3. HeldPort(p) => HeldPort(p)'
        BY <1>1, <2>2, <2>5, <4>1, <4>2 DEF HeldPort, Covers
      <4> QED BY <1>1, <2>1, <4>3 DEF PortRight
    <3> QED BY <3>1, <3>2
  <2> QED BY <2>9, <2>10, <2>11, <2>12, <2>13 DEF PortRight
<1> QED BY <1>7, <1>9 DEF PortsRight

\* Only the main loop's own call takes entries out of the table.
LEMMA PlacedNext == PortsRight /\ Placed /\ [OutNext]_outVars => Placed'
<1> SUFFICES ASSUME PortsRight, Placed, [OutNext]_outVars,
                    out'["main"].at \in {"undo", "remove"}
             PROVE  out'["main"].id \in 1 .. Len(wa')
  BY DEF Placed
<1> DEFINE R == [rule : RuleIds, restore : States]
<1>1. /\ out \in [OutThreads -> OutCall] /\ wa \in Seq(R) /\ "main" \in OutThreads
      /\ Len(wa) \in Nat
  BY DEF PortsRight, OutTypes, OutThreads
<1> HIDE DEF R
<1>2. CASE out'["main"] = out["main"] /\ Len(wa') \in Nat /\ Len(wa) <= Len(wa')
  BY <1>1, <1>2 DEF Placed
<1>3. ASSUME NEW t \in OutThreads, NEW a \in OutputActions, action_io_output(t, a)
      PROVE  UNCHANGED wa /\ out'["main"] = out["main"]
  <2>1. UNCHANGED wa BY <1>3 DEF action_io_output
  <2>2. PICK held : LET unknown == IF a.kind = "plain" THEN {} ELSE DOMAIN a.set \ DOMAIN held IN
          out' = [out EXCEPT ![t] =
             [at |-> IF unknown = {} THEN Onward(a) ELSE "read", id |-> outCalls + 1, act |-> a,
              restore |-> [p \in DOMAIN a.set |-> IF p \in DOMAIN held THEN held[p] ELSE ~a.set[p]],
              unknown |-> unknown, cancel |-> {}]]
    BY <1>3 DEF action_io_output
  <2> DEFINE unknown == IF a.kind = "plain" THEN {} ELSE DOMAIN a.set \ DOMAIN held
             c == [at |-> IF unknown = {} THEN Onward(a) ELSE "read", id |-> outCalls + 1, act |-> a,
                   restore |-> [p \in DOMAIN a.set |->
                                  IF p \in DOMAIN held THEN held[p] ELSE ~a.set[p]],
                   unknown |-> unknown, cancel |-> {}]
  <2>3. c.at \in {"read", "claim", "post"} BY DEF Onward
  <2>4. out' = [out EXCEPT ![t] = c] BY <2>2
  <2> HIDE DEF c
  <2> QED BY <1>1, <2>1, <2>3, <2>4
<1>4. ASSUME NEW t \in OutThreads,
             io_output_current_states(t) \/ io_out_pending_claim(t) \/ CancelSequence(t)
      PROVE  UNCHANGED wa /\ out'["main"] = out["main"]
  <2>1. UNCHANGED wa BY <1>4 DEF io_output_current_states, io_out_pending_claim, CancelSequence
  <2>2. out'[t].at \in {"claim", "post", "cancel"}
    <3>1. CASE io_output_current_states(t)
      <4>1. PICK r : out' = [out EXCEPT ![t].at = Onward(out[t].act), ![t].restore = r,
                                        ![t].unknown = {}]
        BY <3>1 DEF io_output_current_states
      <4>2. out'[t].at = Onward(out[t].act) BY <1>1, <4>1 DEF OutCall
      <4> QED BY <4>2 DEF Onward
    <3>2. CASE io_out_pending_claim(t)
      <4>1. PICK x \in {"post", "cancel"} :
              \E y : out' = [out EXCEPT ![t].at = x, ![t].cancel = y]
        BY <3>2 DEF io_out_pending_claim
      <4> QED BY <1>1, <4>1 DEF OutCall
    <3>3. CASE CancelSequence(t)
      <4>1. PICK p : out' = [out EXCEPT ![t].cancel = out[t].cancel \ {p},
                               ![t].at = IF out[t].cancel = {p} THEN "post" ELSE "cancel"]
        BY <1>1, <3>3 DEF CancelSequence
      <4> QED BY <1>1, <4>1 DEF OutCall
    <3> QED BY <1>4, <3>1, <3>2, <3>3
  <2>3. \A u \in OutThreads : u # t => out'[u] = out[u]
    BY <1>1, <1>4 DEF io_output_current_states, io_out_pending_claim, CancelSequence
  <2> QED BY <1>1, <2>1, <2>2, <2>3
<1>5. ASSUME NEW t \in OutThreads,
             PostOutput(t) \/ io_out_pending_add(t)
      PROVE  UNCHANGED wa /\ out'["main"] = out["main"]
  <2>1. UNCHANGED wa BY <1>5 DEF PostOutput, io_out_pending_add
  <2>2. PICK x \in {"add", "idle"} : out'[t].at = x
    <3>1. NoCall.at = "idle" BY NoCallRight
    <3>2. \A c \in OutCall : [c EXCEPT !.at = "add"].at = "add" BY DEF OutCall
    <3>3. PICK c \in {NoCall, [out[t] EXCEPT !.at = "add"]} : out' = [out EXCEPT ![t] = c]
      <4>1. CASE PostOutput(t) BY <4>1 DEF PostOutput
      <4>2. CASE io_out_pending_add(t) BY <4>2 DEF io_out_pending_add
      <4> QED BY <1>5, <4>1, <4>2
    <3>4. out'[t] = c BY <1>1, <3>3
    <3> QED BY <1>1, <3>1, <3>2, <3>3, <3>4
  <2>3. \A u \in OutThreads : u # t => out'[u] = out[u]
    BY <1>1, <1>5 DEF PostOutput, io_out_pending_add
  <2> QED BY <1>1, <2>1, <2>2, <2>3
<1>6. ASSUME NEW t \in OutThreads, while_active_register(t)
      PROVE  out'["main"] = out["main"] /\ Len(wa') \in Nat /\ Len(wa) <= Len(wa')
  <2> DEFINE e == [rule |-> out[t].act.rule, restore |-> out[t].restore]
             m == {i \in 1..Len(wa) : wa[i].rule = out[t].act.rule}
  <2>1. /\ out' = [out EXCEPT ![t] = NoCall]
        /\ \/ wa' = [wa EXCEPT ![Lowest(m)] = e]
           \/ wa' = Append(wa, e)
           \/ UNCHANGED wa
    BY <1>6 DEF while_active_register
  <2> HIDE DEF e, m
  <2>2. Len(wa') \in Nat /\ Len(wa) <= Len(wa') BY <1>1, <2>1
  <2>3. NoCall.at = "idle" BY NoCallRight
  <2> QED BY <1>1, <2>1, <2>2, <2>3
<1>7. ASSUME NEW i \in OutSlots, io_out_pending_cb(i)
      PROVE  UNCHANGED wa /\ out'["main"] = out["main"]
  <2>1. UNCHANGED wa BY <1>7 DEF io_out_pending_cb
  <2> DEFINE d == [NoCall EXCEPT !.at = "restore", !.restore = pending[i].restore,
                                 !.act.kind = "timed", !.act.set = pending[i].restore]
  <2>2. out' = [out EXCEPT !["main"] = d] \/ out' = out BY <1>7 DEF io_out_pending_cb
  <2>3. d.at = "restore" BY DEF NoCall
  <2> HIDE DEF d
  <2> QED BY <1>1, <2>1, <2>2, <2>3
<1>8. CASE io_output_post_restore \/ RemoveEntry
  <2>1. out'["main"].at = "idle"
    BY <1>1, <1>8, NoCallRight DEF io_output_post_restore, RemoveEntry
  <2> QED BY <2>1
<1>9. CASE UndoOutputs
  <2>1. UNCHANGED wa BY <1>9 DEF UndoOutputs
  <2>2. PICK i \in 1 .. Len(wa) :
          out' = [out EXCEPT !["main"] =
                    [NoCall EXCEPT !.at = "undo", !.id = i, !.restore = wa[i].restore,
                                   !.act.kind = "timed", !.act.set = wa[i].restore]]
    BY <1>9 DEF UndoOutputs
  <2> DEFINE d == [NoCall EXCEPT !.at = "undo", !.id = i, !.restore = wa[i].restore,
                                 !.act.kind = "timed", !.act.set = wa[i].restore]
  <2>3. d.id = i BY DEF NoCall
  <2>4. out' = [out EXCEPT !["main"] = d] BY <2>2
  <2> HIDE DEF d
  <2> QED BY <1>1, <2>1, <2>3, <2>4
<1>10. CASE while_active_undo
  <2>1. UNCHANGED wa /\ out' = [out EXCEPT !["main"].at = "remove"] /\ out["main"].at = "undo"
    BY <1>10 DEF while_active_undo
  <2>2. out'["main"].id = out["main"].id BY <1>1, <2>1 DEF OutCall
  <2> QED BY <2>1, <2>2 DEF Placed
<1>11. CASE (\E p \in OutPorts : SequenceEnds(p)) \/ io_out_lone_cb
  <2>1. UNCHANGED <<wa, out>> BY <1>11 DEF SequenceEnds, io_out_lone_cb
  <2> QED BY <1>1, <1>2, <2>1
<1>12. CASE UNCHANGED outVars BY <1>1, <1>2, <1>12 DEF outVars
<1> QED BY <1>1, <1>2, <1>3, <1>4, <1>5, <1>6, <1>7, <1>8, <1>9, <1>10, <1>11, <1>12 DEF OutNext

LEMMA PortsRightInit == OutInit => PortsRight /\ Placed
<1> SUFFICES ASSUME OutInit PROVE PortsRight /\ Placed OBVIOUS
<1>1. /\ level = [p \in OutPorts |-> FALSE] /\ sequence = [p \in OutPorts |-> NoSequence]
      /\ pending = [i \in OutSlots |-> FreeEntry] /\ lone = {} /\ wa = <<>>
      /\ out = [t \in OutThreads |-> NoCall] /\ outCalls = 0 /\ base = level
  BY DEF OutInit
<1>2. \A t \in OutThreads : out[t] = NoCall /\ PortsOfCall(t) = {}
  BY <1>1, NoCallRight DEF PortsOfCall
<1>3. NoSequence \in Sequence /\ NoSequence.id = 0 BY DEF NoSequence, Sequence
<1>4. ASSUME NEW t \in OutThreads PROVE CallRight(t)
  <2>1. out[t] = NoCall /\ PortsOfCall(t) = {} BY <1>2
  <2>2. /\ out[t].at = "idle" /\ out[t].act.kind = "plain" /\ DOMAIN out[t].restore = {}
    BY <2>1, NoCallRight
  <2> QED BY <2>1, <2>2, FS_EmptySet DEF CallRight
<1>5. OutTypes BY <1>1, <1>3, <1>4, FreeRight, NoCallRight DEF OutTypes
<1>6. ASSUME NEW p \in OutPorts PROVE PortRight(p)
  <2>1. InPending(p) = {} BY <1>1, FreeRight DEF InPending
  <2>2. InWa(p) = {} BY <1>1 DEF InWa
  <2>3. \A t \in OutThreads : ~Covers(t, p) /\ ~Claimed(t, p) BY <1>2 DEF Covers, Claimed
  <2>4. sequence[p].id = 0 BY <1>1, <1>3
  <2>5. PortAlone(p) BY <1>1, <1>2, <2>1 DEF PortAlone
  <2>6. PortHolds(p) BY <2>1, <2>2, <2>3, <2>4 DEF PortHolds
  <2>7. PortSequence(p) BY <2>4 DEF PortSequence
  <2>8. PortCalls(p) BY <2>3 DEF PortCalls, PortCall
  <2> QED BY <1>1, <2>5, <2>6, <2>7, <2>8 DEF PortRight
<1>7. Placed BY <1>2, NoCallRight DEF Placed, OutThreads
<1> QED BY <1>5, <1>6, <1>7 DEF PortsRight

LEMMA PortsStay == PortsRight /\ UNCHANGED outVars => PortsRight'
BY DEF outVars, PortsRight, OutTypes, CallRight, Many, PortRight, PortAlone, PortHolds,
       PortSequence, PortCalls, PortCall, Covers, Claimed, HeldPort, InPending, InWa, PortsOfCall

LEMMA PortsRightNext == PortsRight /\ Placed /\ [OutNext]_outVars => PortsRight'
<1> SUFFICES ASSUME PortsRight, Placed, [OutNext]_outVars PROVE PortsRight' OBVIOUS
<1>1. CASE \E t \in OutThreads :
             \/ \E a \in OutputActions : action_io_output(t, a)
             \/ io_output_current_states(t) \/ io_out_pending_claim(t) \/ CancelSequence(t)
             \/ PostOutput(t) \/ io_out_pending_add(t) \/ while_active_register(t)
  BY <1>1, ActionRight, ReadRight, ClaimRight, CancelRight, PostRight, AddRight, RegisterRight
<1>2. CASE \E p \in OutPorts : SequenceEnds(p) BY <1>2, EndsRight
<1>3. CASE \E i \in OutSlots : io_out_pending_cb(i) BY <1>3, TimerRight
<1>4. CASE \/ io_output_post_restore \/ io_out_lone_cb
           \/ UndoOutputs \/ while_active_undo \/ RemoveEntry
  BY <1>4, RestoreRight, LoneRight, UndoRight, UndoneRight, RemoveRight
<1>5. CASE UNCHANGED outVars BY <1>5, PortsStay
<1> QED BY <1>1, <1>2, <1>3, <1>4, <1>5 DEF OutNext

\* A port returns to the state it had before the first of the actions that overlap on it,
\* whichever rules and threads they are of, for any ports, actions and sizes of the tables;
\* the excuses are those of PortsReturn (action_io_output and what it leaves behind).
THEOREM PortsGoBack == OutSpec => []PortsReturn
<1>1. PortsRight => PortsReturn BY DEF PortsRight, PortRight, PortsReturn
<1> QED BY <1>1, PortsRightInit, PortsRightNext, PlacedNext, PTL DEF OutSpec
==============================================================================
