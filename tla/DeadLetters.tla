---------------------------- MODULE DeadLetters ----------------------------
(***************************************************************************)
(* EventsService on events that exist: replay, replay-all of the dead ones *)
(* in batches, and the erasure of one customer's events; and the worker    *)
(* that delivers what they queue.  Each reads events first and writes      *)
(* later, by id.                                                           *)
(***************************************************************************)
EXTENDS Naturals, FiniteSets, FiniteSetsExt

CONSTANTS
  Letters,   \* events, all of one customer
  Encrypted, \* those whose payload is stored encrypted
  Agents,    \* requests
  BatchMax,  \* BATCH_SIZE
  MaxDeaths, \* bound: times an event dies, per event
  MaxStopped  \* bound: stops and failures of the queue

ASSUME DeadLettersAssumption ==
  /\ Encrypted \subseteq Letters /\ IsFiniteSet(Agents)
  /\ BatchMax \in Nat \ {0} /\ MaxDeaths \in [Letters -> Nat] /\ MaxStopped \in Nat

VARIABLES
  letter,   \* per event: its status, or gone
  queued,   \* per event: jobs in the queue, delayed ones among them
  sending,  \* events a worker is delivering
  unlogged, \* events with rows in the buffer of the log writer
  logged,   \* events with rows in the delivery log
  agent,    \* per request: what it does, with which events, and those half done
  erased,   \* history: events there when an erasure was asked for that is done
  died, asked, added,  \* history: deaths, replays asked for and jobs added
  shared, dropped, busy,   \* history, see the properties
  stops

eventVars == <<letter, queued, sending, unlogged, logged>>
letterHistory == <<erased, died, asked, added, shared, dropped, busy>>
letterVars == <<eventVars, agent, letterHistory, stops>>

Stored == {e \in Letters : letter[e] # "gone"}
Dead == {e \in Letters : letter[e] = "dead"}
NotYet == [does |-> "nothing", todo |-> {}, half |-> {}, seen |-> {}]
Done == [NotYet EXCEPT !.does = "done"]

LettersTypeOK ==
  /\ letter \in [Letters -> {"pending", "retrying", "delivered", "dead", "gone"}]
  /\ sending \subseteq Letters /\ unlogged \subseteq Letters /\ logged \subseteq Letters
  /\ queued \in [Letters -> Nat] /\ stops \in 0..MaxStopped
  /\ agent \in [Agents -> [does : {"nothing", "replay", "all", "rest", "erase", "done"},
                           todo : SUBSET Letters, half : SUBSET Letters, seen : SUBSET Letters]]
  /\ \A h \in {died, asked, added} : h \in [Letters -> Nat]
  /\ \A h \in {erased, shared, dropped, busy} : h \subseteq Letters

LettersInit ==
  /\ letter \in [Letters -> {"delivered", "dead"}]
  /\ queued = [e \in Letters |-> 0] /\ sending = {} /\ unlogged = {} /\ logged = Letters
  /\ agent = [a \in Agents |-> NotYet] /\ stops = 0
  /\ died = [e \in Letters |-> IF letter[e] = "dead" THEN 1 ELSE 0]
  /\ asked = [e \in Letters |-> 0] /\ added = asked
  /\ erased = {} /\ shared = {} /\ dropped = {} /\ busy = {}

Does(a, what) == agent[a].does = what
Replaying(a) == agent[a].does \in {"replay", "all", "rest"}
\* Dead events a replay-all has found and not put back yet.
FoundBy(a) == IF agent[a].does \in {"all", "rest"} THEN agent[a].todo ELSE {}
Erasing == UNION {agent[a].todo \cup agent[a].half : a \in {a \in Agents : Does(a, "erase")}}
Begin(a, what, rows, half, seen) ==
  agent' = [agent EXCEPT ![a] = [does |-> what, todo |-> rows, half |-> half,
                               seen |-> seen]]

-----------------------------------------------------------------------------
(* Replays *)

FindOne(a, e) ==
  /\ Does(a, "nothing") /\ e \in Stored
  /\ Begin(a, "replay", {e}, {}, {}) /\ asked' = [asked EXCEPT ![e] = @ + 1]
  /\ UNCHANGED <<eventVars, erased, died, added, shared, dropped, busy, stops>>

\* Mutant: the events are not asked for by status.
FindAny(a) ==
  /\ Does(a, "nothing") /\ Begin(a, "all", Stored, {}, {})
  /\ UNCHANGED <<eventVars, letterHistory, stops>>

\* A batch of dead events, the first or, after a full one, the next; the request
\* is done when there are none.  history shared: another replay-all holds it too.
FindDead(a) ==
  /\ Does(a, "nothing") \/ (Does(a, "all") /\ agent[a].todo \cup agent[a].half = {})
  /\ \/ /\ Dead = {} /\ agent' = [agent EXCEPT ![a] = Done] /\ UNCHANGED shared
     \/ \E rows \in SUBSET Dead :
          /\ rows # {} /\ Cardinality(rows) = Min({BatchMax, Cardinality(Dead)})
          /\ Begin(a, "all", rows, {}, rows)
          /\ shared' = shared \cup (rows \cap UNION {FoundBy(b) : b \in Agents})
  /\ UNCHANGED <<eventVars, erased, died, asked, added, dropped, busy, stops>>

\* Mutant: the job of an event that has been replayed by now is left out.
ResetOnly(a, e) ==
  /\ Replaying(a) /\ e \in agent[a].todo
  /\ letter' = IF e \in Stored THEN [letter EXCEPT ![e] = "pending"] ELSE letter
  /\ agent' = [agent EXCEPT ![a].todo = @ \ {e},
                             ![a].half = IF e \in Dead THEN @ \cup {e} ELSE @]
  /\ UNCHANGED <<queued, sending, unlogged, logged, letterHistory, stops>>

\* The status is reset, whatever it is by now ...
ResetStatus(a, e) ==
  /\ Replaying(a) /\ e \in agent[a].todo
  /\ letter' = IF e \in Stored THEN [letter EXCEPT ![e] = "pending"] ELSE letter
  /\ agent' = [agent EXCEPT ![a].todo = @ \ {e}, ![a].half = @ \cup {e}]
  /\ dropped' = dropped \ {e}
  /\ UNCHANGED <<queued, sending, unlogged, logged, erased, died, asked, added, shared, busy,
                 stops>>

\* ... and then a job is added.
Finished(task) ==
  /\ task.todo \cup task.half = {}
  /\ task.does = "all" => Cardinality(task.seen) < BatchMax
Took(a, e) ==
  LET task == [agent[a] EXCEPT !.half = @ \ {e}]
  IN  agent' = [agent EXCEPT ![a] = IF Finished(task) THEN Done ELSE task]
AddToQueue(a, e) ==
  /\ Replaying(a) /\ e \in agent[a].half /\ Took(a, e)
  /\ queued' = [queued EXCEPT ![e] = @ + 1] /\ added' = [added EXCEPT ![e] = @ + 1]
  /\ UNCHANGED <<letter, sending, unlogged, logged, erased, died, asked, shared, dropped, busy,
                 stops>>

\* The queue refuses the job: what else was started goes on, no batch follows.
QueueFails(a, e) ==
  /\ Replaying(a) /\ e \in agent[a].half
  /\ agent' = [agent EXCEPT ![a].half = @ \ {e}, ![a].seen = {},
                             ![a].does = IF @ = "all" THEN "rest" ELSE @]
  /\ stops < MaxStopped /\ stops' = stops + 1 /\ dropped' = dropped \cup {e}
  /\ UNCHANGED <<eventVars, erased, died, asked, added, shared, busy>>

\* The process stops under its requests.
StopAgents ==
  /\ stops < MaxStopped /\ stops' = stops + 1
  /\ dropped' = dropped \cup UNION {agent[a].half : a \in Agents}
  /\ agent' = [a \in Agents |-> IF Does(a, "nothing") THEN NotYet ELSE Done]
  /\ UNCHANGED <<eventVars, erased, died, asked, added, shared, busy>>

-----------------------------------------------------------------------------
(* Erasure *)

\* The customer's id is looked for in the payload, in vain if that is encrypted.
FindCustomer(a) ==
  /\ Does(a, "nothing") /\ Stored # {}
  /\ LET rows == Stored \ Encrypted IN Begin(a, "erase", rows, rows, Stored)
  /\ busy' = busy \cup ((sending \cup unlogged) \ Encrypted)
  /\ UNCHANGED <<eventVars, erased, died, asked, added, shared, dropped, stops>>

\* Their logs and the events are deleted, in either order.
EraseLogs(a) ==
  /\ Does(a, "erase") /\ agent[a].todo # {}
  /\ logged' = logged \ agent[a].todo
  /\ agent' = [agent EXCEPT ![a].todo = {}]
  /\ UNCHANGED <<letter, queued, sending, unlogged, letterHistory, stops>>

\* Mutant: only the dead ones go.
EraseDead(a) ==
  /\ Does(a, "erase") /\ agent[a].half # {}
  /\ letter' = [e \in Letters |-> IF e \in agent[a].half \cap Dead THEN "gone" ELSE letter[e]]
  /\ agent' = [agent EXCEPT ![a].half = {}]
  /\ UNCHANGED <<queued, sending, unlogged, logged, letterHistory, stops>>

EraseEvents(a) ==
  /\ Does(a, "erase") /\ agent[a].half # {}
  /\ letter' = [e \in Letters |-> IF e \in agent[a].half THEN "gone" ELSE letter[e]]
  /\ agent' = [agent EXCEPT ![a].half = {}]
  /\ UNCHANGED <<queued, sending, unlogged, logged, letterHistory, stops>>

EraseEnds(a) ==
  /\ Does(a, "erase") /\ agent[a].todo \cup agent[a].half = {}
  /\ erased' = erased \cup agent[a].seen /\ agent' = [agent EXCEPT ![a] = Done]
  /\ UNCHANGED <<eventVars, died, asked, added, shared, dropped, busy, stops>>

-----------------------------------------------------------------------------
(* The worker: a job of an event that is gone does nothing. *)

\* history busy: events whose delivery and erasure overlap.
StartJob(e) ==
  /\ queued[e] > 0 /\ e \notin sending
  /\ queued' = [queued EXCEPT ![e] = @ - 1]
  /\ sending' = IF e \in Stored THEN sending \cup {e} ELSE sending
  /\ busy' = IF e \in Stored \cap Erasing THEN busy \cup {e} ELSE busy
  /\ dropped' = dropped \ {e}
  /\ UNCHANGED <<letter, unlogged, logged, agent, erased, died, asked, added, shared, stops>>

\* deliver() writes what became of the event: delivered (or filtered, or refused by a
\* limit for more than an hour), dead, or to be tried again, as a rule with a job.
\* Most of these outcomes, and every death, leave a row for the log.
EndJob(e, status) ==
  /\ e \in sending /\ sending' = sending \ {e}
  /\ status = "dead" => died[e] < MaxDeaths[e]
  /\ letter' = IF e \in Stored THEN [letter EXCEPT ![e] = status] ELSE letter
  /\ died' = IF e \in Stored /\ status = "dead" /\ letter[e] # "dead"
             THEN [died EXCEPT ![e] = @ + 1] ELSE died
  /\ queued' = queued \/ (status = "retrying" /\ queued' = [queued EXCEPT ![e] = @ + 1])
  /\ unlogged' = unlogged \cup {e} \/ (status # "dead" /\ unlogged' = unlogged)
  /\ UNCHANGED <<logged, agent, erased, asked, added, shared, dropped, busy, stops>>

\* deliver() returns with nothing written, as the endpoint is paused or gone, or it
\* throws, or its worker dies more often than Bull forgives: the job is spent.
GiveUp(e) ==
  /\ e \in sending /\ sending' = sending \ {e}
  /\ dropped' = dropped \cup {e}
  /\ UNCHANGED <<letter, queued, unlogged, logged, agent, erased, died, asked, added, shared,
                 busy, stops>>

FlushLog(e) ==
  /\ e \in unlogged /\ unlogged' = unlogged \ {e} /\ logged' = logged \cup {e}
  /\ UNCHANGED <<letter, queued, sending, agent, letterHistory, stops>>

LettersNext ==
  \/ \E a \in Agents :
       \/ \E e \in Letters : \/ FindOne(a, e) \/ ResetStatus(a, e) \/ AddToQueue(a, e)
                             \/ QueueFails(a, e)
       \/ FindDead(a) \/ FindCustomer(a) \/ EraseLogs(a) \/ EraseEvents(a)
       \/ EraseEnds(a)
  \/ \E e \in Letters :
       \/ StartJob(e) \/ GiveUp(e) \/ FlushLog(e)
       \/ \E s \in {"delivered", "dead", "retrying"} : EndJob(e, s)
  \/ StopAgents

-----------------------------------------------------------------------------
(* Properties *)

\* An event is queued once for each time it died or its replay was asked for,
\* unless two replay-alls had found it.
OneJobPerDeath ==
  \A e \in Letters : added[e] <= died[e] + asked[e] \/ e \in shared

\* An event that was put back to pending is in the queue, with a worker, or about to
\* be added, unless since then the queue refused its job, the process stopped under the
\* request, or a worker gave the job up: it then stays pending for good, as no retry
\* looks for that status.
PendingIsUnderWay ==
  \A e \in Letters :
    letter[e] = "pending" =>
      queued[e] > 0 \/ e \in sending \cup dropped \/ \E a \in Agents : Replaying(a) /\ e \in agent[a].half

\* When an erasure is done nothing of the customer is left that was there when it
\* was asked for, but what was encrypted, or its logs when they overlapped a delivery.
ErasedButEncrypted ==
  \A e \in erased \ Encrypted :
    letter[e] = "gone" /\ (e \in logged => e \in busy)

\* What replays queue and what an erasure leaves (EventsService).
LettersSafe ==
  /\ LettersTypeOK /\ OneJobPerDeath /\ PendingIsUnderWay /\ ErasedButEncrypted
=============================================================================
