------------------------------- MODULE Outputs -------------------------------
(***************************************************************************)
(* The I/O Output action of src/app/engine/actions.c: ports that return to *)
(* the state they had, after a time or when the rule's trigger clears,     *)
(* although actions of several rules overlap.  IoFlash has what the action *)
(* does to flashing ports.                                                 *)
(*                                                                         *)
(* A single timed port is a sequence that the camera ends by itself and    *)
(* that another setPorts does not cancel; several are restored by a timer. *)
(* Either is remembered in io_out_pending, under io_out_lock; requests are *)
(* sent without it.  The main loop executes rules, timers and undos; the   *)
(* FastCGI thread executes tests and the rules of webhooks and of requests *)
(* to fire, while_active ones too.  No lock guards while_active_entries:   *)
(* when both threads are about to change it, either change may be lost.    *)
(* A request may fail, and may have been carried out all the same.  One    *)
(* device; a state is TRUE for closed.                                     *)
(***************************************************************************)
EXTENDS Integers, Sequences, FiniteSets, Functions

CONSTANTS
  OutPorts,
  OutputActions,       \* [rule, kind, set]: kind "plain", "timed" or "while_active", set
                       \* a function from the ports of the action to their states
  IO_OUT_MAX_PENDING,
  WaRoom,              \* room in the while-active table for these entries
  MaxOutCalls, MaxOutFails   \* bounds

ASSUME OutputParams ==
  /\ IO_OUT_MAX_PENDING \in Nat /\ WaRoom \in Nat /\ IsFiniteSet(OutPorts)
  /\ OutputActions \subseteq
       [rule : {a.rule : a \in OutputActions}, kind : {"plain", "timed", "while_active"},
        set : UNION {[S -> BOOLEAN] : S \in SUBSET OutPorts}]

VARIABLES
  level,       \* port -> its state at the camera
  sequence,    \* port -> [id, back] of the sequence the camera runs on it; id 0 is none
  pending,     \* slot -> [used, id, by_timer, restore]
  lone,        \* timers that found no slot: the states they restore
  wa,          \* while_active_entries of this type: [rule, restore]
  out,         \* thread -> the call it is in: [at, id, act, restore, unknown, cancel]; in an
               \* undo id is the place of the entry in wa
  outCalls, outFails,
  base,        \* history: port -> its state before the first of the actions that hold it
  spoilt       \* history: ports for which the excuses of PortsReturn hold

outVars == <<level, sequence, pending, lone, wa, out, outCalls, outFails, base, spoilt>>

OutThreads == {"main", "http"}
OutSlots   == 1..IO_OUT_MAX_PENDING
Nothing    == <<>>
NoSequence == [id |-> 0, back |-> FALSE]
FreeEntry  == [used |-> FALSE, id |-> 0, by_timer |-> FALSE, restore |-> Nothing]
NoCall     == [at |-> "idle", id |-> 0, act |-> [rule |-> "", kind |-> "plain", set |-> Nothing],
               restore |-> Nothing, unknown |-> {}, cancel |-> {}]

OutInit ==
  /\ level = [p \in OutPorts |-> FALSE]
  /\ sequence = [p \in OutPorts |-> NoSequence]
  /\ pending = [i \in OutSlots |-> FreeEntry]
  /\ lone = {} /\ wa = <<>>
  /\ out = [t \in OutThreads |-> NoCall]
  /\ outCalls = 0 /\ outFails = 0
  /\ base = level /\ spoilt = {}

PortsOfCall(t) == DOMAIN out[t].act.set
Meanwhile(t)   == UNION {PortsOfCall(u) : u \in OutThreads \ {t}}

\* setPorts: the listed ports take their states; a running sequence goes on.
SetPorts(states) ==
  level' = [p \in OutPorts |-> IF p \in DOMAIN states THEN states[p] ELSE level[p]]

MayFail == outFails < MaxOutFails /\ outFails' = outFails + 1

InPending(p) == {i \in OutSlots : pending[i].used /\ p \in DOMAIN pending[i].restore}
InWa(p)      == {i \in 1..Len(wa) : p \in DOMAIN wa[i].restore}

\* Something will still change the port back.
HeldPort(p) ==
  \/ \E i \in InPending(p) : pending[i].by_timer
  \/ InWa(p) # {} \/ sequence[p].id # 0
  \/ \E l \in lone : p \in DOMAIN l.restore
  \/ \E t \in OutThreads : out[t].act.kind # "plain" /\ p \in PortsOfCall(t)

\* Another thread is at while_active_entries.
TableBusy(t) == \E u \in OutThreads \ {t} :
                  \/ out[u].at = "remove"
                  \/ out[u].at = "add" /\ out[u].act.kind = "while_active"

(***************************************************************************)
(* The action.                                                             *)
(***************************************************************************)

Lowest(S) == CHOOSE i \in S : \A j \in S : i <= j

\* Mutant: nobody is asked what a port is to return to.
HeldNone == [p \in {} |-> FALSE]

\* The states that pending restores and while_active entries hold for ports.
io_output_held_states ==
  [p \in {x \in OutPorts : InPending(x) \cup InWa(x) # {}} |->
     IF InPending(p) # {} THEN pending[Lowest(InPending(p))].restore[p]
                          ELSE wa[Lowest(InWa(p))].restore[p]]

\* The step that follows once a call knows what its ports return to.
Onward(a) == IF a.kind = "timed" THEN "claim" ELSE "post"

\* Up to io_output_held_states, which may read anything from an entry that the other thread
\* writes; a port nobody holds is to get the opposite of what it is set to, unless its state
\* can be read.
action_io_output(t, a) == \E held \in IF TableBusy(t) THEN [DOMAIN io_output_held_states -> BOOLEAN]
                                     ELSE {io_output_held_states} :
  LET unknown == IF a.kind = "plain" THEN {} ELSE DOMAIN a.set \ DOMAIN held IN
  /\ out[t].at = "idle" /\ outCalls < MaxOutCalls
  /\ outCalls' = outCalls + 1
  /\ out' = [out EXCEPT ![t] =
       [at |-> IF unknown = {} THEN Onward(a) ELSE "read", id |-> outCalls + 1, act |-> a,
        restore |-> [p \in DOMAIN a.set |-> IF p \in DOMAIN held THEN held[p] ELSE ~a.set[p]],
        unknown |-> unknown, cancel |-> {}]]
  /\ spoilt' = spoilt \cup (IF TableBusy(t) THEN DOMAIN a.set ELSE DOMAIN a.set \cap Meanwhile(t))
  /\ UNCHANGED <<level, sequence, pending, lone, wa, outFails, base>>

\* getPorts for the ports nobody holds; a wrong guess spoils a port.
io_output_current_states(t) ==
  LET c    == out[t]
      read == [p \in DOMAIN c.restore |-> IF p \in c.unknown THEN level[p] ELSE c.restore[p]]
      Goes(restore) ==
        out' = [out EXCEPT ![t].at = Onward(c.act), ![t].restore = restore, ![t].unknown = {}] IN
  /\ c.at = "read"
  /\ \/ Goes(read) /\ UNCHANGED <<outFails, spoilt>>
     \/ /\ MayFail /\ Goes(c.restore)
        /\ spoilt' = spoilt \cup {p \in c.unknown : c.restore[p] # level[p]}
  /\ UNCHANGED <<level, sequence, pending, lone, wa, outCalls, base>>

\* A port belongs to one pending restore only; an entry without ports is given up.
io_out_pending_claim(t) ==
  LET mine == PortsOfCall(t)
      left(e) == [e EXCEPT !.restore = Restrict(@, DOMAIN @ \ mine),
                           !.used = DOMAIN e.restore \ mine # {}] IN
  /\ out[t].at = "claim"
  /\ pending' = [i \in OutSlots |-> IF pending[i].used THEN left(pending[i]) ELSE pending[i]]
  /\ LET runs == {p \in mine : \E i \in InPending(p) : ~pending[i].by_timer}
         stop == IF Cardinality(mine) > 1 THEN runs ELSE {} IN
     out' = [out EXCEPT ![t].at = IF stop = {} THEN "post" ELSE "cancel", ![t].cancel = stop]
  /\ UNCHANGED <<level, sequence, lone, wa, outCalls, outFails, base, spoilt>>

\* A sequence of its own replaces the one that runs on a port; the answer is not looked at.
CancelSequence(t) ==
  /\ out[t].at = "cancel"
  /\ \E p \in out[t].cancel :
       /\ out' = [out EXCEPT ![t].cancel = @ \ {p},
                             ![t].at = IF out[t].cancel = {p} THEN "post" ELSE "cancel"]
       /\ \/ /\ sequence' = [sequence EXCEPT ![p] = NoSequence]
             /\ level' = [level EXCEPT ![p] = out[t].act.set[p]]
             /\ UNCHANGED <<outFails, spoilt>>
          \/ MayFail /\ spoilt' = spoilt \cup {p} /\ UNCHANGED <<sequence, level>>
  /\ UNCHANGED <<pending, lone, wa, outCalls, base>>

\* A sequence has ended and its entry is still there, for as long as the request took.
Lingers(p) == InPending(p) # {} /\ ~HeldPort(p)

\* What the camera makes of the request: a sequence for one timed port, else setPorts.
Carried(t) ==
  LET a == out[t].act IN
  /\ SetPorts(a.set)
  /\ sequence' = [p \in OutPorts |->
       IF a.kind = "timed" /\ DOMAIN a.set = {p}
         THEN [id |-> out[t].id, back |-> out[t].restore[p]] ELSE sequence[p]]
  /\ base' = [p \in OutPorts |->
       IF a.kind = "plain" /\ p \in DOMAIN a.set /\ ~HeldPort(p) THEN a.set[p] ELSE base[p]]

PostOutput(t) ==
  LET a == out[t].act IN
  /\ out[t].at = "post"
  /\ \/ /\ Carried(t)
        /\ out' = [out EXCEPT ![t] = IF a.kind = "plain" THEN NoCall ELSE [@ EXCEPT !.at = "add"]]
        /\ spoilt' = spoilt \cup {p \in DOMAIN a.set : a.kind = "plain" /\ Lingers(p)}
        /\ UNCHANGED outFails
     \/ /\ MayFail
        /\ Carried(t) \/ UNCHANGED <<level, sequence, base>>
        /\ out' = [out EXCEPT ![t] = NoCall]
        /\ spoilt' = spoilt \cup {p \in DOMAIN a.set : a.kind # "plain" \/ Lingers(p)}
  /\ UNCHANGED <<pending, lone, wa, outCalls>>

\* io_out_pending_add: without a free slot the ports are restored without being tracked.
io_out_pending_add(t) ==
  LET c    == out[t]
      free == {i \in OutSlots : ~pending[i].used}
      many == Cardinality(PortsOfCall(t)) > 1
      e    == [used |-> TRUE, id |-> c.id, by_timer |-> many, restore |-> c.restore] IN
  /\ c.at = "add" /\ c.act.kind = "timed"
  /\ \/ /\ free # {}
        /\ pending' = [pending EXCEPT ![Lowest(free)] = e]
        /\ UNCHANGED <<lone, spoilt>>
     \/ /\ free = {}
        /\ lone' = IF many THEN lone \cup {e} ELSE lone
        /\ spoilt' = spoilt \cup PortsOfCall(t)
        /\ UNCHANGED pending
  /\ out' = [out EXCEPT ![t] = NoCall]
  /\ UNCHANGED <<level, sequence, wa, outCalls, outFails, base>>

\* while_active_register: one entry for a rule; the ports of the entry it replaces, or of
\* the one there is no room for, are not restored any more.
while_active_register(t) ==
  LET c    == out[t]
      mine == {i \in 1..Len(wa) : wa[i].rule = c.act.rule}
      e    == [rule |-> c.act.rule, restore |-> c.restore]
      gone == (UNION {DOMAIN wa[i].restore : i \in mine}) \ PortsOfCall(t)
      torn == IF TableBusy(t) THEN PortsOfCall(t) ELSE {} IN
  /\ c.at = "add" /\ c.act.kind = "while_active"
  /\ \/ /\ mine # {}
        /\ wa' = [wa EXCEPT ![Lowest(mine)] = e]
        /\ spoilt' = spoilt \cup gone \cup torn
     \/ /\ mine = {} /\ Len(wa) < WaRoom
        /\ wa' = Append(wa, e)
        /\ spoilt' = spoilt \cup torn
     \/ /\ TableBusy(t) \/ (mine = {} /\ Len(wa) >= WaRoom)
        /\ spoilt' = spoilt \cup gone \cup PortsOfCall(t)
        /\ UNCHANGED wa
  /\ out' = [out EXCEPT ![t] = NoCall]
  /\ UNCHANGED <<level, sequence, pending, lone, outCalls, outFails, base>>

(***************************************************************************)
(* What changes ports back.                                                *)
(***************************************************************************)

\* The camera ends a sequence.
SequenceEnds(p) ==
  /\ sequence[p].id # 0
  /\ level' = [level EXCEPT ![p] = sequence[p].back]
  /\ sequence' = [sequence EXCEPT ![p] = NoSequence]
  /\ UNCHANGED <<pending, lone, wa, out, outCalls, outFails, base, spoilt>>

\* The timer of an entry.  One that accompanies a sequence was started after it, with the
\* same time, and so finds it ended or replaced.
io_out_pending_cb(i) ==
  LET e == pending[i] IN
  /\ out["main"].at = "idle" /\ e.used
  /\ e.by_timer \/ \A p \in DOMAIN e.restore : sequence[p].id # e.id
  /\ pending' = [pending EXCEPT ![i] = FreeEntry]
  /\ out' = IF e.by_timer
              THEN [out EXCEPT !["main"] =
                      [NoCall EXCEPT !.at = "restore", !.restore = e.restore,
                         !.act.kind = "timed", !.act.set = e.restore]]
              ELSE out
  /\ spoilt' = spoilt \cup (DOMAIN e.restore \cap Meanwhile("main"))
  /\ UNCHANGED <<level, sequence, lone, wa, outCalls, outFails, base>>

\* setPorts with the states to return to; the answer is not looked at.
Restores(states) ==
  \/ SetPorts(states) /\ UNCHANGED <<outFails, spoilt>>
  \/ MayFail /\ spoilt' = spoilt \cup DOMAIN states /\ UNCHANGED level

io_output_post_restore ==
  /\ out["main"].at = "restore"
  /\ Restores(out["main"].restore)
  /\ out' = [out EXCEPT !["main"] = NoCall]
  /\ UNCHANGED <<sequence, pending, lone, wa, outCalls, base>>

io_out_lone_cb ==
  /\ out["main"].at = "idle"
  /\ \E l \in lone : lone' = lone \ {l} /\ Restores(l.restore)
  /\ UNCHANGED <<sequence, pending, wa, out, outCalls, base>>

\* Actions_Stop_Active_Siren: the rule's trigger has cleared and an entry of it is to be
\* undone; the request is sent while the entry is still in the table.
UndoOutputs ==
  /\ out["main"].at = "idle"
  /\ \E i \in 1..Len(wa) :
       LET states == wa[i].restore IN
       /\ out' = [out EXCEPT !["main"] =
                     [NoCall EXCEPT !.at = "undo", !.id = i, !.restore = states,
                                    !.act.kind = "timed", !.act.set = states]]
       /\ spoilt' = spoilt \cup (IF TableBusy("main") THEN DOMAIN states
                                ELSE DOMAIN states \cap Meanwhile("main"))
  /\ UNCHANGED <<level, sequence, pending, lone, wa, outCalls, outFails, base>>

while_active_undo ==
  /\ out["main"].at = "undo"
  /\ Restores(out["main"].restore)
  /\ out' = [out EXCEPT !["main"].at = "remove"]
  /\ UNCHANGED <<sequence, pending, lone, wa, outCalls, base>>

\* What is in the place of the entry now, renewed or not, goes, and the last one moves there.
RemoveEntry ==
  LET c    == out["main"]
      over == [wa EXCEPT ![c.id] = wa[Len(wa)]]
      both == DOMAIN wa[c.id].restore \cup DOMAIN wa[Len(wa)].restore IN
  /\ c.at = "remove"
  /\ \/ wa' = SubSeq(over, 1, Len(wa) - 1)
     \/ TableBusy("main") /\ wa' = over
  /\ spoilt' = spoilt \cup (IF TableBusy("main") THEN both
                           ELSE DOMAIN wa[c.id].restore \ PortsOfCall("main"))
  /\ out' = [out EXCEPT !["main"] = NoCall]
  /\ UNCHANGED <<level, sequence, pending, lone, outCalls, outFails, base>>

OutNext ==
  \/ \E t \in OutThreads :
       \/ \E a \in OutputActions : action_io_output(t, a)
       \/ io_output_current_states(t) \/ io_out_pending_claim(t) \/ CancelSequence(t)
       \/ PostOutput(t) \/ io_out_pending_add(t) \/ while_active_register(t)
  \/ \E p \in OutPorts : SequenceEnds(p)
  \/ \E i \in OutSlots : io_out_pending_cb(i)
  \/ io_output_post_restore \/ io_out_lone_cb
  \/ UndoOutputs \/ while_active_undo \/ RemoveEntry

OutSpec == OutInit /\ [][OutNext]_outVars

\* actions.c:2203 "A port changed by a timed or while_active io_output returns to the state
\* it had before the first of any overlapping actions, whichever rules they belong to": a
\* port that nothing holds any more has that state.  Excused are ports for which a request
\* failed, that both threads worked on at once, whose restore found no room in its table,
\* whose while-active entry was replaced, removed in the place of the one that was undone or
\* written while the other thread was at the table too, or that were set for good while the
\* entry of a sequence that had ended was still there (2413, 2319, 158, 241, 2266).
PortsReturn == \A p \in OutPorts \ spoilt : ~HeldPort(p) => level[p] = base[p]
=============================================================================
