------------------------------- MODULE Ingest -------------------------------
(***************************************************************************)
(* How an event gets in: EventsService.send (monthly count, idempotency    *)
(* key, deduplication window), WebhooksController.send (project counter,   *)
(* idempotency key) and broadcast (neither), by concurrent requests, seen  *)
(* from one endpoint, which is active.                                     *)
(* Each awaits the database or Redis several times, and may die anywhere.  *)
(***************************************************************************)
EXTENDS Naturals, FiniteSets

CONSTANTS
  Requests,   \* concurrent requests; each is sent again and again
  Keys,       \* idempotency keys, given or generated
  Marks,      \* what deduplication compares: the given key, or the payload
  MarkOf,     \* the mark of a request with a key
  Windowed,   \* keys sent with a deduplication window
  EventLimit, \* subscription.eventsPerMonth, 0 if there is no limit or no subscription
  Monthly,    \* project.monthlyEventLimit
  MaxDeaths   \* bound: requests that die half-way

ASSUME IngestAssumption ==
  /\ MarkOf \in [Keys -> Marks] /\ Windowed \subseteq Keys
  /\ EventLimit \in Nat /\ Monthly \in Nat /\ MaxDeaths \in Nat
  /\ IsFiniteSet(Requests) /\ Requests # {}

VARIABLES
  events,          \* keys that have an event document (unique index)
  marks,           \* deduplication keys alive in Redis
  jobs,            \* deliver jobs added per key
  monthEvents,     \* project.currentMonthEvents
  pc, key, answer, \* per request: step, key, last answer
  creates,         \* history: documents created by each limited route
  lost, deaths     \* history: marks whose setter died; requests that died

db == <<events, marks, jobs, monthEvents>>
history == <<creates, lost, deaths>>
ingestVars == <<db, pc, key, answer, history>>

Limited == {"events", "webhooks"}
Routes == Limited \cup {"broadcast"}
Steps == {"limit", "find", "dedup", "create", "add", "count"}
Answers == {"none", "queued", "limit", "duplicate", "deduplicated", "error"}

IngestTypeOK ==
  /\ events \subseteq Keys /\ marks \subseteq Marks /\ lost \subseteq Marks
  /\ jobs \in [Keys -> Nat] /\ monthEvents \in Nat
  /\ pc \in [Requests -> {<<"idle">>} \cup (Routes \X Steps)]
  /\ key \in [Requests -> Keys] /\ answer \in [Requests -> Answers]
  /\ creates \in [Limited -> Nat] /\ deaths \in 0..MaxDeaths

IngestInit ==
  /\ events = {} /\ marks = {} /\ lost = {}
  /\ jobs = [k \in Keys |-> 0] /\ monthEvents = 0
  /\ pc = [r \in Requests |-> <<"idle">>]
  /\ key \in [Requests -> Keys] /\ answer = [r \in Requests |-> "none"]
  /\ creates = [rt \in Limited |-> 0] /\ deaths = 0

At(r, route, step) == pc[r] = <<route, step>>
Go(r, route, step) == pc' = [pc EXCEPT ![r] = <<route, step>>] /\ UNCHANGED answer
Reply(r, a) == pc' = [pc EXCEPT ![r] = <<"idle">>] /\ answer' = [answer EXCEPT ![r] = a]

Call(r, route, step) ==
  /\ pc[r] = <<"idle">> /\ pc' = [pc EXCEPT ![r] = <<route, step>>]
  /\ \E k \in Keys : key' = [key EXCEPT ![r] = k]
  /\ answer' = [answer EXCEPT ![r] = "none"]
  /\ UNCHANGED <<db, history>>
CallEvents(r) == Call(r, "events", "limit")
CallWebhooks(r) == Call(r, "webhooks", "limit")

\* To all endpoints of the project: no limit is looked at and no key looked for;
\* the key of an endpoint's event is made of the given one and the endpoint.
CallBroadcast(r) == Call(r, "broadcast", "create")

\* Mutant: the limit itself still passes.
OneOver(route) ==
  IF route = "events" THEN EventLimit = 0 \/ Cardinality(events) <= EventLimit
                      ELSE monthEvents <= Monthly

\* countDocuments of this month, or the project's counter, against the limit.
WithinLimit(route) ==
  IF route = "events" THEN EventLimit = 0 \/ Cardinality(events) < EventLimit
                      ELSE monthEvents < Monthly

CheckLimit(r, route) ==
  /\ At(r, route, "limit")
  /\ IF WithinLimit(route) THEN Go(r, route, "find") ELSE Reply(r, "limit")
  /\ UNCHANGED <<db, key, history>>

FindKey(r, route) ==
  /\ At(r, route, "find")
  /\ \/ key[r] \in events /\ Reply(r, "duplicate")
     \/ /\ key[r] \notin events
        /\ Go(r, route, IF route = "events" /\ key[r] \in Windowed THEN "dedup" ELSE "create")
  /\ UNCHANGED <<db, key, history>>

\* Mutant: the answer of SET NX is read the wrong way round.
DedupInverted(r) ==
  /\ At(r, "events", "dedup")
  /\ LET m == MarkOf[key[r]]
     IN  \/ m \notin marks /\ Reply(r, "deduplicated")
         \/ m \in marks /\ Go(r, "events", "create")
  /\ marks' = marks \cup {MarkOf[key[r]]} /\ UNCHANGED lost
  /\ UNCHANGED <<events, jobs, monthEvents, key, creates, deaths>>

\* SET NX: the first sender in the window sets the mark.
Dedup(r) ==
  /\ At(r, "events", "dedup")
  /\ LET m == MarkOf[key[r]]
     IN  \/ m \in marks /\ Reply(r, "deduplicated") /\ UNCHANGED <<marks, lost>>
         \/ /\ m \notin marks /\ marks' = marks \cup {m} /\ lost' = lost \ {m}
            /\ Go(r, "events", "create")
  /\ UNCHANGED <<events, jobs, monthEvents, key, creates, deaths>>

MarkExpires(m) ==
  /\ m \in marks /\ marks' = marks \ {m}
  /\ UNCHANGED <<events, jobs, monthEvents, pc, key, answer, history>>

HoldsMark(r) ==
  pc[r] = <<"events", "create">> /\ key[r] \in Windowed

\* Mutant: the unique index on (idempotencyKey, endpointId) is missing.
AnyKeyFree(k) == TRUE
KeyFree(k) == k \notin events

\* create(): the unique index refuses the key of a request that was faster.
Create(r, route) ==
  /\ At(r, route, "create")
  /\ \/ /\ KeyFree(key[r])
        /\ events' = events \cup {key[r]}
        /\ creates' = [rt \in Limited |-> IF rt = route THEN creates[rt] + 1 ELSE creates[rt]]
        /\ Go(r, route, "add")
     \/ /\ ~KeyFree(key[r]) /\ Reply(r, "error")
        /\ UNCHANGED <<events, creates>>
  /\ UNCHANGED <<marks, jobs, monthEvents, key, lost, deaths>>

Add(r, route) ==
  /\ At(r, route, "add")
  /\ jobs' = [jobs EXCEPT ![key[r]] = @ + 1]
  /\ IF route = "webhooks" THEN Go(r, route, "count") ELSE Reply(r, "queued")
  /\ UNCHANGED <<events, marks, monthEvents, key, history>>

\* Mutant: the counter is decremented.
CountDown(r) ==
  /\ At(r, "webhooks", "count")
  /\ monthEvents' = monthEvents - 1
  /\ Reply(r, "queued")
  /\ UNCHANGED <<events, marks, jobs, key, history>>

CountEvent(r) ==
  /\ At(r, "webhooks", "count")
  /\ monthEvents' = monthEvents + 1
  /\ Reply(r, "queued")
  /\ UNCHANGED <<events, marks, jobs, key, history>>

\* The request dies where it is: an error, a lost connection or a crash.
Die(r) ==
  /\ pc[r] # <<"idle">> /\ deaths < MaxDeaths
  /\ deaths' = deaths + 1
  /\ lost' = IF HoldsMark(r) THEN lost \cup {MarkOf[key[r]]} ELSE lost
  /\ Reply(r, "error")
  /\ UNCHANGED <<db, key, creates>>

IngestNext ==
  \/ \E r \in Requests :
       \/ CallEvents(r) \/ CallWebhooks(r) \/ CallBroadcast(r) \/ Dedup(r) \/ CountEvent(r) \/ Die(r)
       \/ \E route \in Limited : CheckLimit(r, route) \/ FindKey(r, route)
       \/ \E route \in Routes : Create(r, route) \/ Add(r, route)
  \/ \E m \in Marks : MarkExpires(m)
IngestSpec == IngestInit /\ [][IngestNext]_ingestVars

-----------------------------------------------------------------------------
(* Properties *)

\* However requests with one key race, through whichever routes, one job is added;
\* and a request that was told "queued" has its event and its job.
OneJobPerKey ==
  /\ \A k \in Keys : jobs[k] <= 1
  /\ \A r \in Requests :
       answer[r] = "queued" => key[r] \in events /\ jobs[key[r]] = 1

\* Both limits are read before the event is created, so requests may pass them (the
\* first one where there is one) together, but only as many as run at once; a project's counter misses the
\* requests that died before they were counted.
OvershootBounded ==
  LET slack == Cardinality(Requests) - 1
  IN  /\ EventLimit > 0 => creates["events"] <= EventLimit + slack
      /\ creates["webhooks"] <= Monthly + slack + deaths

\* "deduplicated" is no promise that an event exists: there is one of the same
\* mark, or a request that set the mark is about to create it, or it died.
DedupExplained ==
  \A r \in Requests :
    answer[r] = "deduplicated" =>
      LET m == MarkOf[key[r]]
      IN  \/ \E k \in events : MarkOf[k] = m
          \/ \E q \in Requests : HoldsMark(q) /\ MarkOf[key[q]] = m
          \/ m \in lost

\* What the three routes promise together of a key.
Intake == INSTANCE EventIntake WITH stored <- events, queued <- jobs
IntakeSpec == Intake!Spec

\* Jobs, limits and answers of the routes, however requests race and die.
IngestSafe ==
  /\ IngestTypeOK /\ OneJobPerKey /\ OvershootBounded /\ DedupExplained
=============================================================================
