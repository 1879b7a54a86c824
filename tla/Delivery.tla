------------------------------ MODULE Delivery ------------------------------
(***************************************************************************)
(* The delivery pipeline: webhook event documents in MongoDB, the Bull     *)
(* queue of deliver jobs, the workers that run DeliveryService.deliver,    *)
(* and the crons and API calls that touch the same documents.              *)
(*                                                                         *)
(* deliver() is cut at its awaits: a worker's pc names the await it has    *)
(* reached, and between two awaits other workers, crons and API calls run. *)
(* Wall-clock time is abstracted: a delayed job may start at any time.     *)
(*                                                                         *)
(* Job ids.  Ids that carry a time stamp or that Bull generates never      *)
(* recur, so such a job is forgotten when it ends.  The id retry-<e>-<n>   *)
(* does recur: Bull ignores an add whose id it still keeps, so the state   *)
(* "kept" (finished, not yet evicted) matters for those jobs only.         *)
(***************************************************************************)
EXTENDS Naturals, FiniteSets

CONSTANTS
  Events,        \* event documents
  Workers,       \* processing slots, over all replicas
  MaxRetries,    \* endpoint.maxRetries || MAX_RETRY_ATTEMPTS
  RetrySlots,    \* RETRY_DELAYS_MS.length
  Stamps,        \* bound: live jobs of one stamped kind per event
  MaxStalled,    \* Bull's maxStalledCount
  MaxFaults,     \* bound: crashes, rate denials and replays in a behaviour
  Env,           \* what the environment may do, a subset of Disturbances
  LeanDocHasId   \* does a lean() document carry mongoose's id virtual?

Disturbances ==
  {"reject", "timeout", "throw", "record", "logClash", "inactive", "maintenance",
   "filter", "limit", "hardLimit", "breaker", "crash", "apiCrash", "evict",
   "replay", "cron", "ttl", "delete"}

ASSUME BudgetAssumption ==
  /\ MaxRetries \in Nat \ {0} /\ RetrySlots \in Nat \ {0}
  /\ Stamps \in Nat \ {0} /\ MaxStalled \in Nat /\ MaxFaults \in Nat
ASSUME EnvAssumption == Env \subseteq Disturbances /\ LeanDocHasId \in BOOLEAN

VARIABLES
  status, retryCount, lastError,  \* the event documents
  queue, stalls,                  \* Bull: state and stall count of each job id
  pc, job, snap,                  \* per worker: await, job, event.retryCount read
  adds,                           \* API calls between their write and queue.add
  picked, expired,                \* rows the two crons have read
  dlq,                            \* events added to the dead letter queue
  accepted, failures,             \* history: 2xx given by a receiver; failed tries
  faults                          \* disturbances so far

docs == <<status, retryCount, lastError>>
bull == <<queue, stalls>>
crons == <<picked, expired>>
history == <<accepted, failures>>
vars == <<docs, bull, pc, job, snap, adds, crons, dlq, history, faults>>

Statuses == {"none", "PENDING", "DELIVERED", "RETRYING", "DEAD", "FILTERED",
             "RATE_LIMITED", "RATE_QUEUED", "deleted"}
Terminal == {"DELIVERED", "DEAD", "FILTERED", "RATE_LIMITED"}

AddKinds == {"first", "replay"}
StampedJobs ==
  [kind : AddKinds \cup {"drip", "reschedule"}, ev : Events, n : 1..Stamps]
RetryJobs == [kind : {"retry"}, ev : Events, n : 0..(RetrySlots - 1)]
Jobs == StampedJobs \cup RetryJobs
NoJob == [kind |-> "none"]

Awaits == {"load", "endpoint", "defer", "filter", "limit", "rateLimited",
           "rateQueue", "drip", "breaker", "retrySame", "send", "delivered",
           "recorded", "failed", "verdict", "dlq", "retryNext", "finish"}

TypeOK ==
  /\ status \in [Events -> Statuses]
  /\ retryCount \in [Events -> Nat]
  /\ lastError \in [Events -> {"none", "failed", "TTL_EXCEEDED"}]
  /\ queue \in [Jobs -> {"absent", "waiting", "active", "kept"}]
  /\ stalls \in [Jobs -> Nat]
  /\ pc \in [Workers -> Awaits \cup {"idle"}]
  /\ job \in [Workers -> Jobs \cup {NoJob}]
  /\ \A w \in Workers : pc[w] # "idle" => job[w] \in Jobs
  /\ snap \in [Workers -> Nat]
  /\ adds \subseteq [kind : AddKinds, ev : Events]
  /\ picked \subseteq Events /\ expired \subseteq Events
  /\ dlq \subseteq Events /\ accepted \subseteq Events
  /\ failures \in [Events -> Nat]
  /\ faults \in Nat

Init ==
  /\ status = [e \in Events |-> "none"]
  /\ retryCount = [e \in Events |-> 0]
  /\ lastError = [e \in Events |-> "none"]
  /\ queue = [j \in Jobs |-> "absent"]
  /\ stalls = [j \in Jobs |-> 0]
  /\ pc = [w \in Workers |-> "idle"]
  /\ job = [w \in Workers |-> NoJob]
  /\ snap = [w \in Workers |-> 0]
  /\ adds = {} /\ picked = {} /\ expired = {} /\ dlq = {} /\ accepted = {}
  /\ failures = [e \in Events |-> 0]
  /\ faults = 0

-----------------------------------------------------------------------------
(* Bull and MongoDB primitives *)

Exists(e) == status[e] \notin {"none", "deleted"}

\* findByIdAndUpdate: no effect on a document that is gone.
Write(e, s, n, err) ==
  /\ status' = IF Exists(e) THEN [status EXCEPT ![e] = s] ELSE status
  /\ retryCount' = IF Exists(e) THEN [retryCount EXCEPT ![e] = n] ELSE retryCount
  /\ lastError' = IF Exists(e) THEN [lastError EXCEPT ![e] = err] ELSE lastError

\* Mutant: a status update that hands back a try.
RefundStatus(e, s) == Write(e, s, retryCount[e] - 1, lastError[e])
SetStatus(e, s) == Write(e, s, retryCount[e], lastError[e])

\* queue.add with an id of its own: any stamp no live job of this kind has.
AddStamped(kind, e) ==
  \E n \in 1..Stamps :
    LET j == [kind |-> kind, ev |-> e, n |-> n]
    IN  /\ queue[j] = "absent"
        /\ queue' = [queue EXCEPT ![j] = "waiting"]
        /\ stalls' = [stalls EXCEPT ![j] = 0]

\* Mutant: the last entry of the delay table is never used.
ShortRetry(e, n) ==
  LET j == [kind |-> "retry", ev |-> e, n |-> n]
  IN  IF n + 1 < RetrySlots /\ queue[j] = "absent"
      THEN queue' = [queue EXCEPT ![j] = "waiting"] /\ UNCHANGED stalls
      ELSE UNCHANGED bull

\* scheduleRetry: nothing when the delay table is exhausted; Bull ignores the
\* add when it still knows a job with this id.
ScheduleRetry(e, n) ==
  LET j == [kind |-> "retry", ev |-> e, n |-> n]
  IN  IF n < RetrySlots /\ queue[j] = "absent"
      THEN /\ queue' = [queue EXCEPT ![j] = "waiting"]
           /\ stalls' = [stalls EXCEPT ![j] = 0]
      ELSE UNCHANGED bull

\* A job that ends: only an id that can recur is worth keeping.
End(j) == queue' = [queue EXCEPT ![j] = IF j.kind = "retry" THEN "kept" ELSE "absent"]

Disturb(d) == d \in Env /\ faults < MaxFaults /\ faults' = faults + 1

-----------------------------------------------------------------------------
(* deliver(eventId), one action per await *)

At(w, p) == pc[w] = p
Go(w, p) == pc' = [pc EXCEPT ![w] = p]
Ev(w) == job[w].ev
KeepJob == UNCHANGED <<job, snap>>
NoDocs == UNCHANGED docs
Others == UNCHANGED <<adds, crons, dlq, history, faults>>

Take(w) ==
  /\ At(w, "idle")
  /\ \E j \in Jobs :
       /\ queue[j] = "waiting"
       /\ queue' = [queue EXCEPT ![j] = "active"]
       /\ job' = [job EXCEPT ![w] = j]
  /\ Go(w, "load")
  /\ NoDocs /\ Others /\ UNCHANGED <<stalls, snap>>

\* Whatever the status of the event, it is delivered (again).
Load(w) ==
  /\ At(w, "load")
  /\ \/ ~Exists(Ev(w)) /\ Go(w, "finish") /\ UNCHANGED snap
     \/ /\ Exists(Ev(w)) /\ Go(w, "endpoint")
        /\ snap' = [snap EXCEPT ![w] = retryCount[Ev(w)]]
  /\ NoDocs /\ Others /\ UNCHANGED <<bull, job>>

\* The endpoint as the cache or the database gives it, and the branches taken
\* before the next await: not ACTIVE, in maintenance, filtered, or go on.
Endpoint(w) ==
  /\ At(w, "endpoint")
  /\ \/ "inactive" \in Env /\ Go(w, "finish")
     \/ "maintenance" \in Env /\ Go(w, "defer")
     \/ "filter" \in Env /\ Go(w, "filter")
     \/ Go(w, "limit")
  /\ NoDocs /\ Others /\ KeepJob /\ UNCHANGED bull

\* Maintenance: RETRYING with a nextRetryAt, and no job.
Defer(w) ==
  /\ At(w, "defer") /\ SetStatus(Ev(w), "RETRYING") /\ Go(w, "finish")
  /\ Others /\ KeepJob /\ UNCHANGED bull

Filter(w) ==
  /\ At(w, "filter") /\ SetStatus(Ev(w), "FILTERED") /\ Go(w, "finish")
  /\ Others /\ KeepJob /\ UNCHANGED bull

\* checkRateLimit(endpoint.id); without an id no endpoint is ever found.
Limit(w) ==
  /\ At(w, "limit")
  /\ \/ LeanDocHasId /\ Go(w, "breaker") /\ UNCHANGED faults
     \/ LeanDocHasId /\ Disturb("hardLimit") /\ Go(w, "rateLimited")
     \/ LeanDocHasId /\ Disturb("limit") /\ Go(w, "rateQueue")
     \/ ~LeanDocHasId /\ Go(w, "rateQueue") /\ UNCHANGED faults
  /\ NoDocs /\ KeepJob /\ UNCHANGED <<bull, adds, crons, dlq, history>>

RateLimited(w) ==
  /\ At(w, "rateLimited") /\ SetStatus(Ev(w), "RATE_LIMITED") /\ Go(w, "finish")
  /\ Others /\ KeepJob /\ UNCHANGED bull

RateQueue(w) ==
  /\ At(w, "rateQueue") /\ SetStatus(Ev(w), "RATE_QUEUED") /\ Go(w, "drip")
  /\ Others /\ KeepJob /\ UNCHANGED bull

\* Mutant: no return after the drip job is queued.
DripAndGoOn(w) ==
  /\ At(w, "drip") /\ AddStamped("drip", Ev(w)) /\ Go(w, "breaker")
  /\ NoDocs /\ Others /\ KeepJob

Drip(w) ==
  /\ At(w, "drip") /\ AddStamped("drip", Ev(w)) /\ Go(w, "finish")
  /\ NoDocs /\ Others /\ KeepJob

\* The local opossum breaker, then the shared one in Redis.
Breaker(w) ==
  /\ At(w, "breaker")
  /\ \/ "breaker" \in Env /\ Go(w, "retrySame")
     \/ Go(w, "send")
  /\ NoDocs /\ Others /\ KeepJob /\ UNCHANGED bull

\* A breaker is open: scheduleRetry(event), under the count that was read.
RetrySame(w) ==
  /\ At(w, "retrySame") /\ ScheduleRetry(Ev(w), snap[w]) /\ Go(w, "finish")
  /\ NoDocs /\ Others /\ KeepJob

\* Mutant: any answer counts as success.
AnyAnswer(w) == Go(w, "delivered") /\ UNCHANGED accepted

\* A 2xx answer.
Success(w) == Go(w, "delivered") /\ accepted' = accepted \cup {Ev(w)}

\* Pre-flight checks and breaker.fire: accepted; accepted but the answer is
\* late or lost; refused (by the receiver, the allowlist, the size check or the
\* address check); or an exception outside the try (OAuth token, S3 or GCS).
Send(w) ==
  /\ At(w, "send")
  /\ \/ Success(w)
     \/ "timeout" \in Env /\ Go(w, "failed") /\ accepted' = accepted \cup {Ev(w)}
     \/ "reject" \in Env /\ Go(w, "failed") /\ UNCHANGED accepted
     \/ "throw" \in Env /\ Go(w, "finish") /\ UNCHANGED accepted
  /\ NoDocs /\ KeepJob /\ UNCHANGED <<bull, adds, crons, dlq, failures, faults>>

Delivered(w) ==
  /\ At(w, "delivered") /\ SetStatus(Ev(w), "DELIVERED") /\ Go(w, "recorded")
  /\ Others /\ KeepJob /\ UNCHANGED bull

\* Counters and analytics after the write; an exception there is caught by the
\* handler of failed deliveries.
Recorded(w) ==
  /\ At(w, "recorded")
  /\ \/ Go(w, "finish")
     \/ "record" \in Env /\ Go(w, "failed")
  /\ NoDocs /\ Others /\ KeepJob /\ UNCHANGED bull

\* handleDeliveryFailure up to its verdict: the failure log and counters.
\* Without a log writer the log row is inserted here; when the try had an
\* answer, deliver() has inserted one for the same (eventId, attempt) already,
\* the unique index refuses this one, and the exception ends the job.
Failed(w) ==
  /\ At(w, "failed")
  /\ \/ Go(w, "verdict")
     \/ "logClash" \in Env /\ Go(w, "finish")
  /\ failures' = [failures EXCEPT ![Ev(w)] = @ + 1]
  /\ NoDocs /\ KeepJob /\ UNCHANGED <<bull, adds, crons, dlq, accepted, faults>>

\* Mutant: the failed try is counted twice.
TwoTries(w) == snap[w] + 2

\* newRetryCount: from the count read when the job started.
Tries(w) == snap[w] + 1

\* Mutant: one try too many before the event is given up.
LateVerdict(w) ==
  /\ At(w, "verdict")
  /\ LET n == Tries(w)
     IN  IF n > MaxRetries
         THEN Write(Ev(w), "DEAD", n, "failed") /\ Go(w, "dlq")
         ELSE Write(Ev(w), "RETRYING", n, "failed") /\ Go(w, "retryNext")
  /\ Others /\ KeepJob /\ UNCHANGED bull

\* DEAD when the budget is spent, else RETRYING.
Verdict(w) ==
  /\ At(w, "verdict")
  /\ LET n == Tries(w)
     IN  IF n >= MaxRetries
         THEN Write(Ev(w), "DEAD", n, "failed") /\ Go(w, "dlq")
         ELSE Write(Ev(w), "RETRYING", n, "failed") /\ Go(w, "retryNext")
  /\ Others /\ KeepJob /\ UNCHANGED bull

AddDlq(w) ==
  /\ At(w, "dlq") /\ dlq' = dlq \cup {Ev(w)} /\ Go(w, "finish")
  /\ NoDocs /\ KeepJob /\ UNCHANGED <<bull, adds, crons, history, faults>>

RetryNext(w) ==
  /\ At(w, "retryNext") /\ ScheduleRetry(Ev(w), Tries(w)) /\ Go(w, "finish")
  /\ NoDocs /\ Others /\ KeepJob

Finish(w) ==
  /\ At(w, "finish") /\ Go(w, "idle")
  /\ End(job[w])
  /\ job' = [job EXCEPT ![w] = NoJob] /\ snap' = [snap EXCEPT ![w] = 0]
  /\ NoDocs /\ Others /\ UNCHANGED stalls

Deliver(w) ==
  \/ Load(w) \/ Endpoint(w) \/ Defer(w) \/ Filter(w) \/ Limit(w)
  \/ RateLimited(w) \/ RateQueue(w) \/ Drip(w) \/ Breaker(w) \/ RetrySame(w)
  \/ Send(w) \/ Delivered(w) \/ Recorded(w) \/ Failed(w) \/ Verdict(w)
  \/ AddDlq(w) \/ RetryNext(w) \/ Finish(w)

-----------------------------------------------------------------------------
(* Crashes and Bull's housekeeping *)

\* The process dies: its jobs stay active, without an owner.
Crash(w) ==
  /\ ~At(w, "idle") /\ Disturb("crash")
  /\ Go(w, "idle")
  /\ job' = [job EXCEPT ![w] = NoJob] /\ snap' = [snap EXCEPT ![w] = 0]
  /\ NoDocs /\ UNCHANGED <<bull, adds, crons, dlq, history>>

\* Bull finds an active job whose lock has lapsed: run again, or give up.
Stalled(j) ==
  /\ queue[j] = "active" /\ \A w \in Workers : job[w] # j
  /\ \/ /\ stalls[j] < MaxStalled
        /\ queue' = [queue EXCEPT ![j] = "waiting"]
        /\ stalls' = [stalls EXCEPT ![j] = @ + 1]
     \/ stalls[j] >= MaxStalled /\ End(j) /\ UNCHANGED stalls
  /\ NoDocs /\ Others /\ KeepJob /\ UNCHANGED pc

Evict(j) ==
  /\ "evict" \in Env /\ queue[j] = "kept"
  /\ queue' = [queue EXCEPT ![j] = "absent"]
  /\ NoDocs /\ Others /\ KeepJob /\ UNCHANGED <<pc, stalls>>

-----------------------------------------------------------------------------
(* The API and the crons *)

API == UNCHANGED <<bull, pc, job, snap>>

\* send: the document is created, then its job is added.
Create(e) ==
  /\ status[e] = "none"
  /\ status' = [status EXCEPT ![e] = "PENDING"]
  /\ adds' = adds \cup {[kind |-> "first", ev |-> e]}
  /\ API /\ UNCHANGED <<retryCount, lastError, crons, dlq, history, faults>>

\* replay and replayDlq: whatever the status, back to PENDING with a fresh
\* budget, then a job.  Only DeliveryService.replay clears lastError.
Replay(e) ==
  /\ Exists(e) /\ Disturb("replay")
  /\ [kind |-> "replay", ev |-> e] \notin adds  \* bound: one at a time
  /\ \E err \in {"none", lastError[e]} : Write(e, "PENDING", 0, err)
  /\ adds' = adds \cup {[kind |-> "replay", ev |-> e]}
  /\ API /\ UNCHANGED <<crons, dlq, history>>

Enqueue(a) ==
  /\ AddStamped(a.kind, a.ev)
  /\ adds' = adds \ {a}
  /\ NoDocs /\ UNCHANGED <<pc, job, snap, crons, dlq, history, faults>>

\* The API process dies, or Redis refuses, between the write and the add.
ApiCrash(a) ==
  /\ Disturb("apiCrash")
  /\ adds' = adds \ {a}
  /\ NoDocs /\ API /\ UNCHANGED <<crons, dlq, history>>

\* Mutant: only FAILED rows are rescheduled.
CronFindFailed(e) ==
  /\ "cron" \in Env /\ status[e] = "FAILED" /\ e \notin picked
  /\ picked' = picked \cup {e}
  /\ NoDocs /\ API /\ UNCHANGED <<adds, expired, dlq, history, faults>>

\* rescheduleFailedEvents: find (no code sets FAILED), then add, event by event.
CronFind(e) ==
  /\ "cron" \in Env /\ status[e] = "RATE_QUEUED" /\ e \notin picked
  /\ picked' = picked \cup {e}
  /\ NoDocs /\ API /\ UNCHANGED <<adds, expired, dlq, history, faults>>

CronAdd(e) ==
  /\ e \in picked /\ AddStamped("reschedule", e)
  /\ picked' = picked \ {e}
  /\ NoDocs /\ UNCHANGED <<pc, job, snap, adds, expired, dlq, history, faults>>

\* cleanExpiredEvents: find the expired rows, then mark each one dead.
ExpireFind(e) ==
  /\ "ttl" \in Env /\ status[e] \in {"PENDING", "RETRYING"} /\ e \notin expired
  /\ expired' = expired \cup {e}
  /\ NoDocs /\ API /\ UNCHANGED <<adds, picked, dlq, history, faults>>

ExpireWrite(e) ==
  /\ e \in expired
  /\ Write(e, "DEAD", retryCount[e], "TTL_EXCEEDED")
  /\ expired' = expired \ {e}
  /\ API /\ UNCHANGED <<adds, picked, dlq, history, faults>>

\* purgeOldDlqEvents drops old DEAD rows; the TTL index on expiresAt drops any.
Delete(e) ==
  /\ "delete" \in Env /\ Exists(e)
  /\ status[e] = "DEAD" \/ "ttl" \in Env
  /\ status' = [status EXCEPT ![e] = "deleted"]
  /\ API /\ UNCHANGED <<retryCount, lastError, adds, crons, dlq, history, faults>>

-----------------------------------------------------------------------------
Next ==
  \/ \E w \in Workers : Take(w) \/ Deliver(w) \/ Crash(w)
  \/ \E j \in Jobs : Stalled(j) \/ Evict(j)
  \/ \E a \in adds : Enqueue(a) \/ ApiCrash(a)
  \/ \E e \in Events :
       \/ Create(e) \/ Replay(e) \/ CronFind(e) \/ CronAdd(e)
       \/ ExpireFind(e) \/ ExpireWrite(e) \/ Delete(e)

\* Node's event loop, Bull's stalled-job checker and the cron scheduler run
\* what is runnable; users, crashes and evictions are owed nothing.
Fairness ==
  /\ \A w \in Workers : WF_vars(Take(w)) /\ WF_vars(Deliver(w))
  /\ \A j \in Jobs : WF_vars(Stalled(j))
  /\ WF_vars(\E a \in adds : Enqueue(a))
  /\ \A e \in Events : /\ WF_vars(CronFind(e)) /\ WF_vars(CronAdd(e))
                       /\ WF_vars(ExpireWrite(e))

Safe == Init /\ [][Next]_vars
Spec == Safe /\ Fairness

-----------------------------------------------------------------------------
(* Properties *)

\* An event is given up as failed, and reaches the dead letter queue, only
\* after MaxRetries tries that failed; its retryCount never claims more tries
\* than were made, whatever stale counts concurrent workers write back.
BudgetSpent ==
  \A e \in Events :
    /\ retryCount[e] <= failures[e]
    /\ status[e] = "DEAD" /\ lastError[e] = "failed" => failures[e] >= MaxRetries
    /\ e \in dlq => failures[e] >= MaxRetries

\* DELIVERED is written only for an event some receiver has answered 2xx.
DeliveredWasAccepted ==
  \A e \in Events : status[e] = "DELIVERED" => e \in accepted

\* Something will still work on the event: an API call about to add its job, a
\* job that waits or has stalled, or a worker that has not reached its end.
Carried(e) ==
  \/ \E a \in adds : a.ev = e
  \/ \E j \in Jobs : /\ j.ev = e
                     /\ \/ queue[j] = "waiting"
                        \/ queue[j] = "active" /\ \A w \in Workers : job[w] # j
  \/ \E w \in Workers : pc[w] \notin {"idle", "finish"} /\ Ev(w) = e

\* No event is left half-way with nothing that will ever work on it.
NoOrphan ==
  \A e \in Events : Exists(e) /\ status[e] \notin Terminal => Carried(e)

\* An event that has reached a terminal status is not sent again.
SentWhileOpen ==
  [][\A w \in Workers : At(w, "send") /\ pc'[w] \in {"delivered", "failed"}
                          => status[Ev(w)] \notin Terminal]_vars

\* Every event is in the end delivered, dead, filtered or refused for good.
EventuallySettled ==
  \A e \in Events : Exists(e) ~> (status[e] \in Terminal)

\* Whatever crashes, an event that waits for its rate limit does not wait for
\* ever: its drip job or the minutely cron brings it back.
RateQueuedMovesOn ==
  \A e \in Events : (status[e] = "RATE_QUEUED") ~> (status[e] # "RATE_QUEUED")

Phase(s) ==
  CASE s = "none" -> "none"
    [] s = "DELIVERED" -> "delivered"
    [] s = "DEAD" -> "dead"
    [] s \in {"FILTERED", "RATE_LIMITED"} -> "discarded"
    [] OTHER -> "open"

\* Left alone by crashes, crons and replays, the pipeline keeps the promise of
\* EventLifecycle: one unit of budget per failed try, nothing after settlement.
Lifecycle == INSTANCE EventLifecycle
  WITH phase <- [e \in Events |-> Phase(status[e])], tries <- retryCount,
       Budget <- MaxRetries
LifecycleSpec == Lifecycle!Spec
=============================================================================
