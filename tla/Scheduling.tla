----------------------------- MODULE Scheduling -----------------------------
(***************************************************************************)
(* SchedulingService: schedules of one endpoint, the API calls that make,  *)
(* change and cancel them, and the cron that turns the due ones into       *)
(* events.  The cron runs in every replica and may overlap itself; update  *)
(* and cancel read the status and write later, whatever it has become.     *)
(***************************************************************************)
EXTENDS Naturals, FiniteSets

CONSTANTS
  Schedules,   \* schedule documents
  NoSchedule,  \* a pass has no schedule in hand
  Keys,        \* idempotency keys
  NoKey,       \* null: none was given
  Passes,      \* passes of dispatchDueEvents that may overlap
  Batch,       \* the limit of a pass
  MaxCalls,    \* bound: update and cancel calls under way at once
  MaxDeaths    \* bound: passes that die half-way, or meet an error

ASSUME ScheduleAssumption ==
  /\ NoKey \notin Keys /\ NoSchedule \notin Schedules /\ IsFiniteSet(Passes)
  /\ Batch \in Nat \ {0} /\ MaxCalls \in Nat /\ MaxDeaths \in Nat

VARIABLES
  status, key, due,   \* schedule documents; is scheduledFor past?
  eventKeys,          \* idempotency keys that have an event
  elsewhere,          \* history: those whose event came in by another way
  made, sent,         \* per schedule: events created, jobs added
  edits, cancels,     \* update and cancel calls that have read PENDING
  todo, cur, pc,      \* per pass: schedules found, the one in hand, step
  deaths

docs == <<status, key, due>>
keys == <<eventKeys, elsewhere>>
calls == <<edits, cancels>>
passes == <<todo, cur, pc>>
vars == <<docs, keys, made, sent, calls, passes, deaths>>

Statuses == {"none", "PENDING", "QUEUED", "CANCELLED", "FAILED"}

TypeOK ==
  /\ status \in [Schedules -> Statuses]
  /\ key \in [Schedules -> Keys \cup {NoKey}]
  /\ due \in [Schedules -> BOOLEAN]
  /\ eventKeys \subseteq Keys /\ elsewhere \subseteq eventKeys
  /\ made \in [Schedules -> Nat] /\ sent \in [Schedules -> Nat]
  /\ edits \subseteq Schedules /\ cancels \subseteq Schedules
  /\ todo \in [Passes -> SUBSET Schedules]
  /\ cur \in [Passes -> Schedules \cup {NoSchedule}]
  /\ pc \in [Passes -> {"idle", "next", "fail", "create", "add", "mark"}]
  /\ deaths \in 0..MaxDeaths

Init ==
  /\ status = [s \in Schedules |-> "none"]
  /\ key = [s \in Schedules |-> NoKey] /\ due = [s \in Schedules |-> FALSE]
  /\ eventKeys = {} /\ elsewhere = {}
  /\ made = [s \in Schedules |-> 0] /\ sent = [s \in Schedules |-> 0]
  /\ edits = {} /\ cancels = {}
  /\ todo = [p \in Passes |-> {}] /\ cur = [p \in Passes |-> NoSchedule]
  /\ pc = [p \in Passes |-> "idle"]
  /\ deaths = 0

CallsLeft == Cardinality(edits) + Cardinality(cancels) < MaxCalls
Exists(s) == status[s] # "none"

-----------------------------------------------------------------------------
(* The API *)

\* uq_schedule_idempotency: the fields are always there, so that sparse leaves
\* nothing out, neither a null key nor a cancelled schedule.
Taken(k) == \E t \in Schedules : Exists(t) /\ key[t] = k

\* schedule(): a live schedule of the same key is answered as a duplicate, and
\* the insert may still meet the unique index; both leave everything as it was.
Schedule(s, k) ==
  /\ ~Exists(s)
  /\ ~Taken(k)
  /\ status' = [status EXCEPT ![s] = "PENDING"]
  /\ key' = [key EXCEPT ![s] = k] /\ due' = [due EXCEPT ![s] = FALSE]
  /\ UNCHANGED <<keys, made, sent, calls, passes, deaths>>

\* The clock; only a schedule that is PENDING has anything to fall due for.
FallsDue(s) ==
  /\ status[s] = "PENDING" /\ ~due[s] /\ due' = [due EXCEPT ![s] = TRUE]
  /\ UNCHANGED <<status, key, keys, made, sent, calls, passes, deaths>>

UpdateRead(s) ==
  /\ status[s] = "PENDING" /\ s \notin edits /\ CallsLeft /\ edits' = edits \cup {s}
  /\ UNCHANGED <<docs, keys, made, sent, cancels, passes, deaths>>

\* The new time is in the future; the status is not looked at again.
UpdateWrite(s) ==
  /\ s \in edits /\ edits' = edits \ {s}
  /\ due' = [due EXCEPT ![s] = FALSE]
  /\ UNCHANGED <<status, key, keys, made, sent, cancels, passes, deaths>>

CancelRead(s) ==
  /\ status[s] = "PENDING" /\ s \notin cancels /\ CallsLeft /\ cancels' = cancels \cup {s}
  /\ UNCHANGED <<docs, keys, made, sent, edits, passes, deaths>>

CancelWrite(s) ==
  /\ s \in cancels /\ cancels' = cancels \ {s}
  /\ status' = [status EXCEPT ![s] = "CANCELLED"]
  /\ UNCHANGED <<key, due, keys, made, sent, edits, passes, deaths>>

\* EventsService.send makes the event of a key that is given to it: the same
\* unique index, but nothing is known of schedules there.
SendElsewhere(k) ==
  /\ k \notin eventKeys /\ eventKeys' = eventKeys \cup {k} /\ elsewhere' = elsewhere \cup {k}
  /\ UNCHANGED <<docs, made, sent, calls, passes, deaths>>

-----------------------------------------------------------------------------
(* dispatchDueEvents *)

At(p, step) == pc[p] = step
Go(p, step) == pc' = [pc EXCEPT ![p] = step] /\ UNCHANGED <<todo, cur>>
Done(p) ==
  /\ pc' = [pc EXCEPT ![p] = IF todo[p] = {} THEN "idle" ELSE "next"]
  /\ cur' = [cur EXCEPT ![p] = NoSchedule]
  /\ UNCHANGED todo
Due == {s \in Schedules : status[s] = "PENDING" /\ due[s]}

\* Mutant: what is found includes what has been queued already.
FindAll(p) ==
  /\ At(p, "idle") /\ Due # {}
  /\ todo' = [todo EXCEPT ![p] = {s \in Schedules : Exists(s) /\ due[s]}]
  /\ pc' = [pc EXCEPT ![p] = "next"]
  /\ UNCHANGED <<docs, keys, made, sent, calls, cur, deaths>>

Find(p) ==
  /\ At(p, "idle") /\ Due # {}
  /\ \E S \in SUBSET Due :
       /\ Cardinality(S) = Batch \/ (S = Due /\ Cardinality(S) < Batch)
       /\ todo' = [todo EXCEPT ![p] = S]
  /\ pc' = [pc EXCEPT ![p] = "next"]
  /\ UNCHANGED <<docs, keys, made, sent, calls, cur, deaths>>

\* The next schedule, as it was found, and its endpoint as it is now.
NextDue(p) ==
  /\ At(p, "next")
  /\ \E s \in todo[p], step \in {"fail", "create"} :
       /\ todo' = [todo EXCEPT ![p] = @ \ {s}] /\ cur' = [cur EXCEPT ![p] = s]
       /\ pc' = [pc EXCEPT ![p] = step]
  /\ UNCHANGED <<docs, keys, made, sent, calls, deaths>>

\* Mutant: a schedule that cannot be sent is marked EXPIRED, which nothing reads.
FailAsExpired(p) ==
  /\ At(p, "fail") /\ status' = [status EXCEPT ![cur[p]] = "EXPIRED"] /\ Done(p)
  /\ UNCHANGED <<key, due, keys, made, sent, calls, deaths>>

\* The endpoint is gone or not ACTIVE.
Fail(p) ==
  /\ At(p, "fail") /\ status' = [status EXCEPT ![cur[p]] = "FAILED"] /\ Done(p)
  /\ UNCHANGED <<key, due, keys, made, sent, calls, deaths>>

\* Mutant: the schedule's key is not handed to its event.
FreshKey(s) == TRUE
\* A key of its own makes the event unique; a generated one carries the time.
EventKeyFree(s) == key[s] = NoKey \/ key[s] \notin eventKeys

CreateEvent(p) ==
  /\ At(p, "create")
  /\ LET s == cur[p]
     IN  \/ /\ EventKeyFree(s)
            /\ made' = [made EXCEPT ![s] = @ + 1]
            /\ eventKeys' = eventKeys \cup ({key[s]} \ {NoKey})
            /\ Go(p, "add")
         \/ ~EventKeyFree(s) /\ Done(p) /\ UNCHANGED <<made, eventKeys>>
  /\ UNCHANGED <<docs, elsewhere, sent, calls, deaths>>

\* Mutant: the job is not queued before the schedule is marked.
MarkFirst(p) ==
  /\ At(p, "add") /\ status' = [status EXCEPT ![cur[p]] = "QUEUED"] /\ Go(p, "mark")
  /\ UNCHANGED <<key, due, keys, made, sent, calls, deaths>>

AddJob(p) ==
  /\ At(p, "add") /\ sent' = [sent EXCEPT ![cur[p]] = @ + 1] /\ Go(p, "mark")
  /\ UNCHANGED <<docs, keys, made, calls, deaths>>

\* Mutant: the schedule stays PENDING when it has been queued.
ForgetMark(p) ==
  /\ At(p, "mark") /\ Done(p)
  /\ UNCHANGED <<docs, keys, made, sent, calls, deaths>>

Mark(p) ==
  /\ At(p, "mark") /\ status' = [status EXCEPT ![cur[p]] = "QUEUED"] /\ Done(p)
  /\ UNCHANGED <<key, due, keys, made, sent, calls, deaths>>

\* An error ends the schedule in hand; a crash ends the pass.
Die(p) ==
  /\ ~At(p, "idle") /\ deaths < MaxDeaths /\ deaths' = deaths + 1
  /\ \/ cur[p] # NoSchedule /\ Done(p)
     \/ /\ pc' = [pc EXCEPT ![p] = "idle"] /\ todo' = [todo EXCEPT ![p] = {}]
        /\ cur' = [cur EXCEPT ![p] = NoSchedule]
  /\ UNCHANGED <<docs, keys, made, sent, calls>>

Pass(p) == Find(p) \/ NextDue(p) \/ Fail(p) \/ CreateEvent(p) \/ AddJob(p) \/ Mark(p)
Next ==
  \/ \E s \in Schedules :
       \/ \E k \in Keys \cup {NoKey} : Schedule(s, k)
       \/ FallsDue(s) \/ UpdateRead(s) \/ UpdateWrite(s) \/ CancelRead(s) \/ CancelWrite(s)
  \/ \E k \in Keys : SendElsewhere(k)
  \/ \E p \in Passes : Pass(p) \/ Die(p)

\* The cron keeps running; users are owed nothing.
Fairness == \A p \in Passes : WF_vars(Pass(p))
Spec == Init /\ [][Next]_vars /\ Fairness

-----------------------------------------------------------------------------
(* Properties *)

\* The events of one key are one, however passes overlap, die or meet a second
\* schedule of that key: the unique index of events backs the cron up.
KeyedOnce ==
  \A k \in Keys :
    \A s, t \in Schedules :
      key[s] = k /\ key[t] = k /\ made[s] > 0 /\ made[t] > 0 => s = t /\ made[s] = 1

\* A keyless schedule has no such back-up: it makes as many events as passes
\* have it in hand at once, or have died with it.
DuplicatesExplained ==
  \A s \in Schedules :
    made[s] <= Cardinality(Passes) + deaths

\* A schedule that says QUEUED has a job.
QueuedHasJob == \A s \in Schedules : status[s] = "QUEUED" => sent[s] > 0

\* What is due does not stay pending, unless the key of its event is taken, by
\* another way in or by a pass that died after it made the event: every later
\* pass then meets that key.
DueIsDispatched ==
  \A s \in Schedules :
    (status[s] = "PENDING" /\ due[s]) ~>
      (status[s] # "PENDING" \/ ~due[s] \/ key[s] \in IF deaths > 0 THEN eventKeys ELSE elsewhere)

\* A schedule that has been cancelled is not sent later.
CancelledIsNotSent ==
  [][\A s \in Schedules : status[s] = "CANCELLED" => sent'[s] = sent[s]]_vars

\* With keys the cron is a way in like the others: jobs of a key, over the
\* schedules that have it, against its event.
SentUnder(k) ==
  Cardinality(UNION {{s} \X (1..sent[s]) : s \in {t \in Schedules : key[t] = k}})
Intake == INSTANCE EventIntake
            WITH stored <- eventKeys, queued <- [k \in Keys |-> SentUnder(k)]
IntakeSpec == Intake!Spec

\* How often a schedule is sent, and that QUEUED means a job, together.
SchedulingSafe ==
  /\ TypeOK /\ KeyedOnce /\ DuplicatesExplained /\ QueuedHasJob
=============================================================================
