----------------------------- MODULE ApiMonitor -----------------------------
(***************************************************************************)
(* The request log.  The interceptor records an entry when a request ends; *)
(* entries wait in the memory of the process until a full buffer, the      *)
(* timer or the end of the module flushes them.  Nobody waits for a flush, *)
(* so several are under way at once.                                       *)
(*                                                                         *)
(* The fields of an entry decide nothing here and are left out.            *)
(***************************************************************************)
EXTENDS Integers, FiniteSets

CONSTANTS
  Entries,      \* one for each monitored request
  FlushSize,    \* FLUSH_SIZE
  MaxFailures   \* bound on failed saves and crashes

VARIABLES
  mode,     \* "up", "destroying" (onModuleDestroy waits for its flush), "quiet" (timers cleared), "down"
  buffer,   \* entries in memory
  saving,   \* batches whose save is under way
  last,     \* the batch onModuleDestroy waits for
  stored,   \* api_logs: how many rows of each entry
  fate,     \* history: what became of an entry that is in neither
  failures

vars == <<mode, buffer, saving, last, stored, fate, failures>>

TypeOK ==
  /\ mode \in {"up", "destroying", "quiet", "down"}
  /\ buffer \subseteq Entries /\ saving \subseteq SUBSET Entries /\ last \subseteq Entries
  /\ stored \in [Entries -> Nat]
  /\ fate \in [Entries -> {"unrecorded", "kept", "saveFailed", "processEnded", "cleaned"}]
  /\ failures \in 0 .. MaxFailures

Init ==
  /\ mode = "up"
  /\ buffer = {} /\ saving = {} /\ last = {}
  /\ stored = [e \in Entries |-> 0]
  /\ fate = [e \in Entries |-> "unrecorded"]
  /\ failures = 0

Running == mode # "down"

\* flush up to its await: the buffer is emptied into a batch of its own.
Flush(entries) ==
  /\ buffer' = {}
  /\ saving' = IF entries = {} THEN saving ELSE saving \cup {entries}

\* recordLog of the interceptor and record.  The server still answers requests
\* while the module is destroyed.
Record(e) ==
  LET entries == buffer \cup {e}
  IN /\ Running /\ fate[e] = "unrecorded"
     /\ fate' = [fate EXCEPT ![e] = "kept"]
     /\ IF Cardinality(entries) >= FlushSize
        THEN Flush(entries)
        ELSE buffer' = entries /\ UNCHANGED saving
     /\ UNCHANGED <<mode, last, stored, failures>>

\* Mutation: the timer waits for the saves under way.
TimerFlushAlone ==
  /\ mode \in {"up", "destroying"} /\ buffer # {} /\ saving = {}
  /\ Flush(buffer)
  /\ UNCHANGED <<mode, last, stored, fate, failures>>

\* The interval of five seconds.
TimerFlush ==
  /\ mode \in {"up", "destroying"} /\ buffer # {}
  /\ Flush(buffer)
  /\ UNCHANGED <<mode, last, stored, fate, failures>>

Saved(batch) ==
  /\ Running /\ batch \in saving
  /\ stored' = [e \in Entries |-> IF e \in batch THEN stored[e] + 1 ELSE stored[e]]
  /\ saving' = saving \ {batch}
  /\ UNCHANGED <<mode, buffer, last, fate, failures>>

\* Mutation: the entries of a failed save go back to the buffer although the
\* database may have some of them.
SaveFailsKept(batch) ==
  /\ Running /\ batch \in saving /\ failures < MaxFailures
  /\ failures' = failures + 1
  /\ saving' = saving \ {batch}
  /\ buffer' = buffer \cup batch
  /\ \E rows \in {{}, batch} : stored' = [e \in Entries |-> IF e \in rows THEN stored[e] + 1 ELSE stored[e]]
  /\ UNCHANGED <<mode, last, fate>>

\* save runs in a transaction; its answer may be lost after the commit.  The
\* error is logged and the batch dropped.
SaveFails(batch) ==
  /\ Running /\ batch \in saving /\ failures < MaxFailures
  /\ failures' = failures + 1
  /\ saving' = saving \ {batch}
  /\ \E rows \in {{}, batch} :
       /\ stored' = [e \in Entries |-> IF e \in rows THEN stored[e] + 1 ELSE stored[e]]
       /\ fate' = [e \in Entries |-> IF e \in batch \ rows THEN "saveFailed" ELSE fate[e]]
  /\ UNCHANGED <<mode, buffer, last>>

\* cleanup, once a day: the rows older than thirty days.
Cleanup ==
  /\ mode \in {"up", "destroying"}
  /\ \E old \in SUBSET {e \in Entries : stored[e] > 0} :
       /\ old # {}
       /\ stored' = [e \in Entries |-> IF e \in old THEN 0 ELSE stored[e]]
       /\ fate' = [e \in Entries |-> IF e \in old THEN "cleaned" ELSE fate[e]]
  /\ UNCHANGED <<mode, buffer, saving, last, failures>>

(***************************************************************************)
(* onModuleDestroy: flush, wait for it, clear the timers.  Only app.close  *)
(* leads here; a server stopped by a signal ends like a crash.             *)
(***************************************************************************)
Destroy ==
  /\ mode = "up"
  /\ mode' = "destroying" /\ last' = buffer
  /\ Flush(buffer)
  /\ UNCHANGED <<stored, fate, failures>>

ClearTimers ==
  /\ mode = "destroying" /\ last \notin saving
  /\ mode' = "quiet"
  /\ UNCHANGED <<buffer, saving, last, stored, fate, failures>>

\* The process ends and its memory with it.
End ==
  /\ mode' = "down"
  /\ buffer' = {} /\ saving' = {}
  /\ fate' = [e \in Entries |-> IF e \in buffer \cup UNION saving THEN "processEnded" ELSE fate[e]]
  /\ UNCHANGED <<last, stored>>

Exit == mode = "quiet" /\ End /\ UNCHANGED failures

Crash == Running /\ failures < MaxFailures /\ End /\ failures' = failures + 1

Next ==
  \/ \E e \in Entries : Record(e)
  \/ \E batch \in saving : Saved(batch) \/ SaveFails(batch)
  \/ TimerFlush \/ Cleanup \/ Destroy \/ ClearTimers \/ Exit \/ Crash

\* The timer keeps running and the process that is told to end ends.
Fairness == WF_vars(TimerFlush) /\ WF_vars(Exit)

Spec == Init /\ [][Next]_vars

-----------------------------------------------------------------------------
(***************************************************************************)
(* Properties.                                                             *)
(***************************************************************************)
\* However flushes overlap with each other and with new requests, an entry is
\* in exactly one place: the buffer, one batch, one row, or nowhere for a reason
\* the code accepts (a failed save, the end of the process, the daily cleanup).
StoredOnce ==
  \A e \in Entries :
    LET places == stored[e] + Cardinality({batch \in saving : e \in batch}) + (IF e \in buffer THEN 1 ELSE 0)
    IN places = IF fate[e] = "kept" THEN 1 ELSE 0

\* No entry stays in the buffer, not even one recorded while the module is
\* destroyed: it is flushed, or the process ends.
BufferDrains == \A e \in Entries : e \in buffer ~> e \notin buffer
=============================================================================
