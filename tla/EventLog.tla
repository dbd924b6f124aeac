------------------------------- MODULE EventLog -------------------------------
(***************************************************************************)
(* The event log of src/app/engine/event_log.c: a ring of EVENT_LOG_SIZE   *)
(* entries under a mutex, appended to and marked by the rule engine on two *)
(* threads, cleared by the FastCGI thread, saved by the main loop every    *)
(* PersistEvery seconds and loaded at start.  A stop does not save it, so  *)
(* a stop and a crash are one action here (main.c:1780).  Whether the file *)
(* could be written is not looked at, and a save that failed is not        *)
(* repeated until something new is logged (event_log.c:189).               *)
(***************************************************************************)
EXTENDS Integers, Sequences, FiniteSets

CONSTANTS LogRules,        \* rule ids
          EVENT_LOG_SIZE,
          SaveLimit,       \* entries in the file (200)
          PersistEvery,    \* seconds between two saves (60)
          MaxAppends, MaxLogTime   \* bounds

ASSUME LogSizes ==
  /\ EVENT_LOG_SIZE \in Nat \ {0} /\ SaveLimit \in Nat \ {0} /\ PersistEvery \in Nat \ {0}
  /\ MaxAppends \in Nat /\ MaxLogTime \in Nat

VARIABLES
  logEntries, head, count,   \* the ring
  persist_dirty,
  logFile,                \* event_log.json, oldest entry first; <<>> also if unreadable
  persist_counter,        \* the static counter of Engine_Tick
  clearing,               \* the FastCGI thread is between EventLog_Clear and EventLog_Persist:
                          \* the appends at the time of the clear, or -1
  logTime,                \* seconds
  appended,               \* history: appends so far
  purged,                 \* history: the last entry dropped by an answered clear request
  lost                    \* history: the last save of this process failed

logVars == <<logEntries, head, count, persist_dirty, logFile, persist_counter, clearing, logTime,
             appended, purged, lost>>

Empty == [id |-> 0, rule |-> "", at |-> 0, error |-> FALSE]
Blank == [i \in 0..EVENT_LOG_SIZE - 1 |-> Empty]

\* A file of a version up to 1.9.15 may be newest first.
Legacy(k) == [id |-> 1 - k, rule |-> CHOOSE r \in LogRules : TRUE, at |-> -k,
              error |-> FALSE]
LegacyFiles == {<<>>, <<Legacy(1), Legacy(2)>>}

\* EventLog_Load: the entries by time stamp (load_item_cmp), the newest EVENT_LOG_SIZE of
\* them, into the blank ring of a new process; error marks are not read.
Earlier(s, x, y) == s[x].at < s[y].at \/ (s[x].at = s[y].at /\ x < y)
Place(s, x) == 1 + Cardinality({y \in 1..Len(s) : Earlier(s, y, x)})

\* Mutant: the file's order is kept.
Unsorted(s) == s

Sorted(s) == [k \in 1..Len(s) |-> s[CHOOSE x \in 1..Len(s) : Place(s, x) = k]]

Loaded(file) ==
  LET m == Len(file)
      start == IF m > EVENT_LOG_SIZE THEN m - EVENT_LOG_SIZE ELSE 0
      put(k) == [Sorted(file)[start + k] EXCEPT !.error = FALSE]
  IN [entries |-> [i \in 0..EVENT_LOG_SIZE - 1 |->
                     IF i < m - start THEN put(i + 1) ELSE Empty],
      head |-> (m - start) % EVENT_LOG_SIZE,
      count |-> m - start]

LogInit ==
  /\ logFile \in LegacyFiles
  /\ logEntries = Loaded(logFile).entries /\ head = Loaded(logFile).head
  /\ count = Loaded(logFile).count
  /\ persist_dirty = FALSE
  /\ persist_counter = 0
  /\ clearing = -1
  /\ logTime = 0
  /\ appended = 0
  /\ purged = -2
  /\ lost = FALSE

\* The index of the i-th newest entry, i = 0 for the newest.
Slot(i) == (head - 1 - i + EVENT_LOG_SIZE) % EVENT_LOG_SIZE

\* What EventLog_Get_Recent shows, oldest first.
Shown == [k \in 1..count |-> logEntries[Slot(count - k)]]

Ids(s) == {s[k].id : k \in 1..Len(s)}

\* Mutant: a full ring starts again at its beginning.
NextHeadReset == IF count = EVENT_LOG_SIZE THEN 0 ELSE (head + 1) % EVENT_LOG_SIZE

NextHead == (head + 1) % EVENT_LOG_SIZE

EventLog_Append(r) ==
  /\ appended < MaxAppends
  /\ logEntries' = [logEntries EXCEPT ![head] =
       [id |-> appended + 1, rule |-> r, at |-> logTime, error |-> FALSE]]
  /\ head' = NextHead
  /\ count' = IF count < EVENT_LOG_SIZE THEN count + 1 ELSE count
  /\ persist_dirty' = TRUE
  /\ appended' = appended + 1
  /\ UNCHANGED <<logFile, persist_counter, clearing, logTime, purged, lost>>

\* The newest entry of the rule, whatever it says: also one that reports a blocked trigger.
\* persist_dirty is left alone.
EventLog_Set_Action_Error(r) ==
  /\ \E i \in 0..count - 1 :
       /\ logEntries[Slot(i)].rule = r
       /\ \A j \in 0..i - 1 : logEntries[Slot(j)].rule # r
       /\ logEntries' = [logEntries EXCEPT ![Slot(i)].error = TRUE]
  /\ UNCHANGED <<head, count, persist_dirty, logFile, persist_counter, clearing, logTime,
                 appended, purged, lost>>

EventLog_Clear ==
  /\ clearing = -1
  /\ clearing' = appended
  /\ logEntries' = Blank /\ head' = 0 /\ count' = 0
  /\ persist_dirty' = TRUE
  /\ UNCHANGED <<logFile, persist_counter, logTime, appended, purged, lost>>

\* Mutant: the oldest entries are saved.
SavedOldest == SubSeq(Shown, 1, IF count < SaveLimit THEN count ELSE SaveLimit)

\* The newest SaveLimit logEntries, oldest first.
SavedEntries ==
  LET n == IF count < SaveLimit THEN count ELSE SaveLimit
  IN [k \in 1..n |-> logEntries[Slot(n - k)]]

\* Mutant: nothing is written.
PersistNothing == persist_dirty' = FALSE /\ UNCHANGED <<logFile, lost>>

\* ACAP_FILE_Write: the file is written, or cannot be opened, or was emptied by the opening
\* and cannot be written.  Its answer is not looked at.
WriteFile ==
  \/ logFile' = SavedEntries /\ lost' = FALSE
  \/ logFile' \in {logFile, <<>>} /\ lost' = TRUE

EventLog_Persist ==
  IF persist_dirty THEN WriteFile /\ persist_dirty' = FALSE
  ELSE UNCHANGED <<logFile, persist_dirty, lost>>

\* The request's second half; it is answered now.
ClearPersist ==
  /\ clearing >= 0
  /\ EventLog_Persist
  /\ clearing' = -1
  /\ purged' = clearing
  /\ UNCHANGED <<logEntries, head, count, persist_counter, logTime, appended>>

\* Engine_Tick.
LogTick ==
  /\ logTime < MaxLogTime
  /\ logTime' = logTime + 1
  /\ IF persist_counter + 1 >= PersistEvery
     THEN persist_counter' = 0 /\ EventLog_Persist
     ELSE persist_counter' = persist_counter + 1 /\ UNCHANGED <<logFile, persist_dirty, lost>>
  /\ UNCHANGED <<logEntries, head, count, clearing, appended, purged>>

EventLog_Load(file) ==
  /\ logEntries' = Loaded(file).entries /\ head' = Loaded(file).head /\ count' = Loaded(file).count
  /\ logFile' = file
  /\ persist_dirty' = FALSE

\* The process ends, in the middle of writing the file or not, and starts again.  A file that
\* was not replaced brings back what it holds.
LogRestart ==
  /\ \/ EventLog_Load(logFile)
     \/ persist_dirty /\ EventLog_Load(<<>>)
  /\ persist_counter' = 0
  /\ clearing' = -1
  /\ purged' = IF lost THEN -2 ELSE purged
  /\ lost' = FALSE
  /\ UNCHANGED <<logTime, appended>>

LogNext ==
  \/ \E r \in LogRules : EventLog_Append(r)
  \/ \E r \in LogRules : EventLog_Set_Action_Error(r)
  \/ EventLog_Clear \/ ClearPersist \/ LogTick \/ LogRestart

LogSpec == LogInit /\ [][LogNext]_logVars

(***************************************************************************)
(* Properties.                                                             *)
(***************************************************************************)

Promise == INSTANCE BoundedLog WITH
  Entries <- [id : 1..MaxAppends, rule : LogRules, at : 0..MaxLogTime, error : {FALSE}],
  Size <- EVENT_LOG_SIZE, Saved <- SaveLimit, log <- Shown, file <- logFile

\* The ring is a bounded log: whatever is appended, marked, cleared, saved and loaded, its
\* entries are the newest ones in order, and a file holds the newest of them.
LogKeepsPromise == Promise!Init /\ [][Promise!Next]_<<Shown, logFile>>

\* While the process runs, an entry that has been in the log for a whole save period is in
\* the file, unless more than SaveLimit entries are newer (Engine_Tick saves every 60 s) or
\* the last save failed: one save that succeeds makes good for all that failed.
OldOnesSaved ==
  \A k \in 1..count :
    LET e == Shown[k] IN
    ~lost /\ count - k < SaveLimit /\ e.at + PersistEvery < logTime => e.id \in Ids(logFile)

\* Entries that a clear request has removed never come back once it is answered, not even
\* through the file (HTTP_Events saves the cleared log before it answers), unless the
\* process ends while its last save is one that failed.
ClearedStaysCleared == \A k \in 1..count : Shown[k].id > purged

\* The file keeps up with the log, with what comes and with what goes.
JournalKept == OldOnesSaved /\ ClearedStaysCleared
=============================================================================
