------------------------------- MODULE Variables -------------------------------
(***************************************************************************)
(* Named variables and counters, src/app/engine/variables.c: a table of    *)
(* MAX_VARS slots under a mutex, written by actions and by the FastCGI     *)
(* thread, saved by the main loop's tick and at a regular stop, loaded at  *)
(* start.                                                                  *)
(*                                                                         *)
(* A name of VAR_NAME_LEN characters or more is stored cut off, and is     *)
(* never found again under its full length.  A counter is saved as text    *)
(* with "%g": six significant digits.  Values are integers.                *)
(***************************************************************************)
EXTENDS Integers, Sequences, FiniteSets

CONSTANTS ShortNames, LongName, CutName,   \* CutName: LongName as it is stored
          MAX_VARS,
          VarValues, Deltas,               \* inputs of the set and increment operations
          Precision,                       \* 10^6: the smallest number "%g" may round
          MaxOps                           \* bound

ASSUME VarSizes == MAX_VARS \in Nat \ {0} /\ Precision \in Nat \ {0} /\ Deltas \subseteq Int
ASSUME VarNames == CutName \notin ShortNames \cup {LongName} /\ LongName \notin ShortNames

VARIABLES
  store,          \* the slots in use
  dirty,
  varFile,        \* variables.json; <<>> also if unreadable
  ops,            \* writes so far, for the bound
  want,           \* history: short name -> what the last successful write made it
  wantSaved,      \* history: want when the file was last written
  lossy           \* history: counters that were saved with more digits than "%g" keeps

varVars == <<store, dirty, varFile, ops, want, wantSaved, lossy>>

Absent == [value |-> 0, numeric |-> 0, counter |-> FALSE, there |-> FALSE]

VarInit ==
  /\ store = <<>>
  /\ dirty = FALSE
  /\ varFile = <<>>
  /\ ops = 0
  /\ want = [n \in ShortNames |-> Absent]
  /\ wantSaved = want
  /\ lossy = {}

Abs(n) == IF n < 0 THEN -n ELSE n

\* "%g" of a number with at most one digit too many: rounded, a tie to even.
PrintedAbs(n) ==
  IF n < Precision THEN n
  ELSE LET q == n \div 10
           r == n % 10
       IN 10 * (IF r > 5 \/ (r = 5 /\ q % 2 = 1) THEN q + 1 ELSE q)
Printed(n) == IF n < 0 THEN -PrintedAbs(-n) ELSE PrintedAbs(n)

Stored(name) == IF name = LongName THEN CutName ELSE name

\* find_var compares the full name with the stored ones.
Found(s, name) == {i \in 1..Len(s) : s[i].name = name}
First(s, name) == CHOOSE i \in Found(s, name) : \A j \in Found(s, name) : i <= j

\* find_or_create followed by an assignment to the slot; the table may be full.
CanWrite(s, name) == Found(s, name) # {} \/ Len(s) < MAX_VARS
Write(s, name, slot) ==
  IF Found(s, name) # {} THEN [s EXCEPT ![First(s, name)] = slot] ELSE Append(s, slot)
Numeric(s, name) == IF Found(s, name) = {} THEN 0 ELSE s[First(s, name)].numeric

Plain(name, v)   == [name |-> Stored(name), value |-> v, numeric |-> 0, counter |-> FALSE]
Counter(name, x) == [name |-> Stored(name), value |-> Printed(x), numeric |-> x, counter |-> TRUE]

Expect(slot) == [value |-> slot.value, numeric |-> slot.numeric, counter |-> slot.counter,
                 there |-> TRUE]

Assign(name, slot) ==
  /\ ops < MaxOps
  /\ ops' = ops + 1
  /\ CanWrite(store, name)
  /\ store' = Write(store, name, slot)
  /\ dirty' = TRUE
  /\ want' = [n \in ShortNames |-> IF n = name THEN Expect(slot) ELSE want[n]]
  /\ lossy' = lossy \ {name}
  /\ UNCHANGED <<varFile, wantSaved>>

Variables_Set(name, v) == Assign(name, Plain(name, v))

Counter_Set(name, x) == Assign(name, Counter(name, x))

\* The numeric part of a plain variable is 0: an increment starts there.
Counter_Increment(name, d) ==
  /\ Abs(Numeric(store, name) + d) < 10 * Precision
  /\ Assign(name, Counter(name, Numeric(store, name) + d))

\* The action's four operations.
action_increment_counter(name, op, d) ==
  CASE op = "reset"     -> Counter_Set(name, 0)
    [] op = "set"       -> Counter_Set(name, d)
    [] op = "decrement" -> Counter_Increment(name, -d)
    [] op = "increment" -> Counter_Increment(name, d)

\* Mutant: the table shrinks without the last slot moving into the gap.
WithoutLast(s, i) == SubSeq(s, 1, Len(s) - 1)

\* The last slot moves into the gap.
Without(s, i) == SubSeq([s EXCEPT ![i] = s[Len(s)]], 1, Len(s) - 1)

Variables_Delete(name) ==
  /\ Found(store, name) # {}
  /\ ops < MaxOps
  /\ ops' = ops + 1
  /\ store' = Without(store, First(store, name))
  /\ dirty' = TRUE
  /\ want' = [n \in ShortNames |-> IF n = name THEN Absent ELSE want[n]]
  /\ lossy' = lossy \ {name}
  /\ UNCHANGED <<varFile, wantSaved>>

\* save_locked: name, text and kind of every slot.
SavedVars == [i \in 1..Len(store) |->
  [name |-> store[i].name, value |-> store[i].value, counter |-> store[i].counter]]

\* The tick's Variables_Flush.
Variables_Flush ==
  /\ dirty
  /\ varFile' = SavedVars
  /\ dirty' = FALSE
  /\ wantSaved' = want
  /\ UNCHANGED <<store, ops, want, lossy>>

\* load: find_or_create for every object of the file; a counter reads its text back.
LoadOne(s, item) ==
  IF CanWrite(s, item.name)
  THEN Write(s, item.name, [name |-> item.name, value |-> item.value, counter |-> item.counter,
                            numeric |-> IF item.counter THEN item.value ELSE 0])
  ELSE s
LoadedVars(file) ==
  LET upTo[k \in 0..Len(file)] == IF k = 0 THEN <<>> ELSE LoadOne(upTo[k - 1], file[k])
  IN upTo[Len(file)]

LossyIn(w) == {n \in ShortNames : w[n].there /\ w[n].counter /\ Abs(w[n].numeric) >= Precision}

Start(file, w) ==
  /\ store' = LoadedVars(file)
  /\ varFile' = file
  /\ dirty' = FALSE
  /\ want' = w /\ wantSaved' = w
  /\ lossy' = lossy \cup LossyIn(w)
  /\ ops' = ops

\* Variables_Cleanup saves at a regular stop.
VarStop == IF dirty THEN Start(SavedVars, want) ELSE Start(varFile, wantSaved)

\* A crash loses what was not saved, and the file if it was being written.
VarCrash ==
  \/ Start(varFile, wantSaved)
  \/ dirty /\ Start(<<>>, [n \in ShortNames |-> Absent])

VarNext ==
  \/ \E name \in ShortNames \cup {LongName, CutName} :
       \/ \E v \in VarValues : Variables_Set(name, v)
       \/ \E op \in {"reset", "set", "decrement", "increment"}, d \in Deltas :
            action_increment_counter(name, op, d)
       \/ Variables_Delete(name)
  \/ Variables_Flush \/ VarStop \/ VarCrash

VarSpec == VarInit /\ [][VarNext]_varVars

(***************************************************************************)
(* Properties.                                                             *)
(***************************************************************************)

\* A name that fits reads back as the last successful write left it, in this process or as
\* it was last saved, whatever is deleted, reordered, stored under a cut name or loaded in
\* between; only a counter saved at Precision or more may differ (Variables_Get,
\* Counter_Get).
VarsFaithful ==
  \A n \in ShortNames :
    IF want[n].there
    THEN /\ Cardinality(Found(store, n)) = 1
         /\ n \notin lossy => Expect(store[First(store, n)]) = want[n]
    ELSE Found(store, n) = {}
=============================================================================
