----------------------------- MODULE LogWriter -----------------------------
(***************************************************************************)
(* DeliveryLogWriter: log rows are buffered in memory and inserted in      *)
(* batches, when enough have gathered or when a timer fires, one insert at *)
(* a time.  enqueue() is synchronous; flush() runs up to its insertMany.   *)
(* The process ends by main's app.close(), which calls every module's      *)
(* onModuleDestroy before it closes Bull's queues: workers still enqueue.  *)
(***************************************************************************)
EXTENDS Naturals, FiniteSets

CONSTANTS
  Rows,       \* rows in play; one that is stored or lost may come again
  BatchSize,  \* BATCH_SIZE
  MaxBuffer   \* MAX_BUFFER

ASSUME SizeAssumption == BatchSize \in Nat \ {0} /\ MaxBuffer \in Nat \ {0}

VARIABLES
  process,  \* "up", "closing" (main's app.close() has called onModuleDestroy) or "down"
  buffer,   \* rows waiting
  batch,    \* rows of the insertMany under way
  flushing, \* the flag of the same name
  timer,    \* is a timer armed?
  awaited,  \* does app.close() wait for the insert under way?
  hooked,   \* has Nest's own signal listener called onModuleDestroy, too?
  during,   \* history: rows buffered while an insert was under way
  left,     \* history: rows that app.close() does not wait for
  killed    \* history: was the process ended otherwise?

writerVars == <<process, buffer, batch, flushing, timer, awaited, hooked, during, left, killed>>

WriterTypeOK ==
  /\ process \in {"up", "closing", "down"}
  /\ buffer \subseteq Rows /\ batch \subseteq Rows /\ during \subseteq Rows
  /\ flushing \in BOOLEAN /\ timer \in BOOLEAN /\ awaited \in BOOLEAN
  /\ hooked \in BOOLEAN /\ killed \in BOOLEAN /\ left \subseteq Rows
  /\ buffer \cap batch = {} /\ (batch # {} => flushing)

WriterInit ==
  /\ process = "up" /\ buffer = {} /\ batch = {} /\ during = {} /\ left = {}
  /\ flushing = FALSE /\ timer = FALSE /\ awaited = FALSE
  /\ hooked = FALSE /\ killed = FALSE

\* flush() up to its await, on a buffer b: nothing while an insert is under
\* way; else the buffer becomes the batch and the timer is cleared.
Flush(b, armed) ==
  IF ~flushing /\ b # {}
  THEN /\ batch' = b /\ buffer' = {} /\ flushing' = TRUE /\ timer' = FALSE
       /\ during' = {}
  ELSE /\ buffer' = b /\ timer' = armed
       /\ UNCHANGED <<batch, flushing>>
       /\ during' = IF flushing THEN during \cup (b \ buffer) ELSE during

\* Mutant: the timer is armed only by the first row of a buffer.
ArmIfEmpty == buffer = {}
Arm == TRUE

\* A full buffer is flushed and arms no timer; else a timer is armed if none is.
\* Nothing tells the workers, which Bull stops last, that the process closes.
Enqueue(r) ==
  /\ process # "down" /\ r \notin buffer \cup batch
  /\ LET b == buffer \cup {r}
     IN  \/ /\ Cardinality(b) >= BatchSize \/ Cardinality(b) >= MaxBuffer
            /\ Flush(b, timer)
         \/ /\ Cardinality(b) < BatchSize /\ Cardinality(b) < MaxBuffer
            /\ buffer' = b /\ timer' = (timer \/ Arm)
            /\ during' = IF flushing THEN during \cup {r} ELSE during
            /\ UNCHANGED <<batch, flushing>>
  /\ left' = IF process = "closing" THEN left \cup {r} ELSE left
  /\ UNCHANGED <<process, awaited, hooked, killed>>

\* The timer fires; during an insert it is used up for nothing.
Fire ==
  /\ timer /\ process # "down"
  /\ Flush(buffer, FALSE)
  /\ UNCHANGED <<process, awaited, hooked, left, killed>>

\* Mutant: the flag is not reset when the insert ends.
StayFlushing ==
  /\ flushing /\ process # "down"
  /\ batch' = {} /\ awaited' = FALSE /\ left' = left \ batch
  /\ UNCHANGED <<process, buffer, flushing, timer, hooked, during, killed>>

\* insertMany ends, well or not: failed rows are logged and forgotten.
Inserted ==
  /\ flushing /\ process # "down"
  /\ batch' = {} /\ flushing' = FALSE /\ awaited' = FALSE /\ left' = left \ batch
  /\ UNCHANGED <<process, buffer, timer, hooked, during, killed>>

\* Mutant: the process stops without a flush.
JustStop ==
  /\ process = "up" /\ process' = "closing"
  /\ UNCHANGED <<buffer, batch, flushing, timer, awaited, hooked, during, left, killed>>

\* onModuleDestroy in main's app.close(): it waits for the insert it begins, but
\* flush() returns at once when one is under way, and then nobody waits for that
\* insert or for the buffer.
Stop ==
  /\ process = "up" /\ process' = "closing"
  /\ Flush(buffer, timer)
  /\ awaited' = (flushing' /\ ~flushing)
  /\ left' = IF flushing THEN buffer \cup batch ELSE left
  /\ UNCHANGED <<hooked, killed>>

\* enableShutdownHooks: on a signal Nest goes through the same hooks by itself,
\* beside main's listener.
HookStop ==
  /\ process # "down" /\ ~hooked /\ hooked' = TRUE
  /\ Flush(buffer, timer)
  /\ UNCHANGED <<process, awaited, left, killed>>

\* app.close() is done, with Bull's queues, and the process exits.
Exit ==
  /\ process = "closing" /\ ~awaited /\ process' = "down"
  /\ UNCHANGED <<buffer, batch, flushing, timer, awaited, hooked, during, left, killed>>

\* A crash, or the 30 seconds given to app.close() are over.
Kill ==
  /\ process # "down" /\ process' = "down" /\ killed' = TRUE
  /\ UNCHANGED <<buffer, batch, flushing, timer, awaited, hooked, during, left>>

WriterNext ==
  Fire \/ Inserted \/ Stop \/ HookStop \/ Exit \/ Kill \/ \E r \in Rows : Enqueue(r)

\* Timers fire, inserts end and a process that closes exits; it is owed no stop,
\* and traffic goes on while it is up.
GoOn == process = "up" /\ \E r \in Rows : Enqueue(r)
WriterFairness ==
  /\ WF_writerVars(Fire) /\ WF_writerVars(Inserted) /\ WF_writerVars(Exit)
  /\ WF_writerVars(GoOn)
WriterSpec == WriterInit /\ [][WriterNext]_writerVars /\ WriterFairness

-----------------------------------------------------------------------------
(* Properties *)

\* A buffered row is left without a timer only if it came while an insert was
\* under way: the timer fired, or was not armed, because flush() was busy.
StrandedOnlyByInsert ==
  process # "down" /\ ~timer /\ ~flushing => buffer \subseteq during

\* The rows lost by an orderly exit are those that came after onModuleDestroy had
\* been called, and, if it met an insert, that insert's and those behind it.
CleanExit == process = "down" /\ ~killed => buffer \cup batch \subseteq left

\* As long as rows keep coming, a row does not stay in the buffer for ever: the
\* next enqueue after the insert arms a timer again.
TrafficDrains ==
  \A r \in Rows : (r \in buffer) ~> (r \notin buffer \/ process = "down")

\* No row is left behind, but for these ways (flush, onModuleDestroy).
WriterSafe ==
  /\ WriterTypeOK /\ StrandedOnlyByInsert /\ CleanExit
=============================================================================
