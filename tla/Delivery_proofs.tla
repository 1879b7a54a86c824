-------------------------- MODULE Delivery_proofs --------------------------
(***************************************************************************)
(* Theorems about Delivery for any set of events and workers, any retry    *)
(* budget and any disturbances: type correctness, the invariant that no    *)
(* event is given up before its budget is spent, and the invariant that    *)
(* DELIVERED is only written after a receiver's 2xx.                       *)
(***************************************************************************)
EXTENDS Delivery, TLAPS

\* The worker-side half of BudgetSpent: the count a worker has read is never
\* ahead of the failed tries, and it counts its own failure before it writes.
WorkerBudget ==
  \A w \in Workers :
    /\ pc[w] \notin {"idle", "load", "finish"} => snap[w] <= failures[Ev(w)]
    /\ pc[w] \in {"verdict", "dlq", "retryNext"} => snap[w] + 1 <= failures[Ev(w)]
    /\ pc[w] = "dlq" => snap[w] + 1 >= MaxRetries

BudgetInv == TypeOK /\ BudgetSpent /\ WorkerBudget

\* The worker-side half of DeliveredWasAccepted.
AcceptInv ==
  /\ TypeOK /\ DeliveredWasAccepted
  /\ \A w \in Workers : pc[w] = "delivered" => Ev(w) \in accepted

\* Every job is a job for some event.
LEMMA JobEvent == \A j \in Jobs : j.ev \in Events /\ j.kind # "none" /\ j # NoJob
BY DEF Jobs, StampedJobs, RetryJobs, NoJob, AddKinds

\* A document update keeps the documents well typed.
LEMMA WriteType ==
  ASSUME TypeOK, NEW e \in Events, NEW s \in Statuses, NEW n \in Nat,
         NEW err \in {"none", "failed", "TTL_EXCEEDED"}, Write(e, s, n, err)
  PROVE  /\ status' \in [Events -> Statuses]
         /\ retryCount' \in [Events -> Nat]
         /\ lastError' \in [Events -> {"none", "failed", "TTL_EXCEEDED"}]
BY DEF TypeOK, Write

\* An add keeps the queue well typed.
LEMMA AddType ==
  ASSUME TypeOK, NEW e \in Events, NEW k,
         k \in {"first", "replay", "drip", "reschedule"}, AddStamped(k, e)
  PROVE  /\ queue' \in [Jobs -> {"absent", "waiting", "active", "kept"}]
         /\ stalls' \in [Jobs -> Nat]
<1>1. PICK n \in 1..Stamps :
        /\ queue' = [queue EXCEPT ![[kind |-> k, ev |-> e, n |-> n]] = "waiting"]
        /\ stalls' = [stalls EXCEPT ![[kind |-> k, ev |-> e, n |-> n]] = 0]
  BY DEF AddStamped
<1> DEFINE j == [kind |-> k, ev |-> e, n |-> n]
<1>2. queue' = [queue EXCEPT ![j] = "waiting"] /\ stalls' = [stalls EXCEPT ![j] = 0]
  BY <1>1
<1> HIDE DEF j
<1> QED BY <1>2 DEF TypeOK

LEMMA RetryType ==
  ASSUME TypeOK, NEW e \in Events, NEW n \in Nat, ScheduleRetry(e, n)
  PROVE  /\ queue' \in [Jobs -> {"absent", "waiting", "active", "kept"}]
         /\ stalls' \in [Jobs -> Nat]
BY DEF TypeOK, ScheduleRetry, bull

\* A worker that is not idle works on an event.
LEMMA WorkerEvent ==
  ASSUME TypeOK, NEW w \in Workers, pc[w] # "idle"
  PROVE  job[w] \in Jobs /\ Ev(w) \in Events
BY JobEvent DEF TypeOK, Ev

\* Types are preserved by every step of deliver().
LEMMA DeliverType ==
  ASSUME TypeOK, NEW w \in Workers, Deliver(w)
  PROVE  TypeOK'
<1> USE DEF At, Go, KeepJob, NoDocs, Others, docs, bull, crons, history
<1>0. pc[w] # "idle" /\ job[w] \in Jobs /\ Ev(w) \in Events
  <2>1. pc[w] # "idle"
    BY DEF Deliver, Load, Endpoint, Defer, Filter, Limit, RateLimited, RateQueue,
           Drip, Breaker, RetrySame, Send, Delivered, Recorded, Failed, Verdict,
           AddDlq, RetryNext, Finish
  <2> QED BY <2>1, WorkerEvent
<1>1. CASE Load(w) BY <1>0, <1>1 DEF TypeOK, Load, Awaits
<1>2. CASE Endpoint(w) BY <1>0, <1>2 DEF TypeOK, Endpoint, Awaits
<1>3. CASE Defer(w)
  BY <1>0, <1>3, WriteType DEF TypeOK, Defer, SetStatus, Awaits, Statuses
<1>4. CASE Filter(w)
  BY <1>0, <1>4, WriteType DEF TypeOK, Filter, SetStatus, Awaits, Statuses
<1>5. CASE Limit(w) BY <1>0, <1>5 DEF TypeOK, Limit, Disturb, Awaits
<1>6. CASE RateLimited(w)
  BY <1>0, <1>6, WriteType DEF TypeOK, RateLimited, SetStatus, Awaits, Statuses
<1>7. CASE RateQueue(w)
  BY <1>0, <1>7, WriteType DEF TypeOK, RateQueue, SetStatus, Awaits, Statuses
<1>8. CASE Drip(w) BY <1>0, <1>8, AddType DEF TypeOK, Drip, Awaits
<1>9. CASE Breaker(w) BY <1>0, <1>9 DEF TypeOK, Breaker, Awaits
<1>10. CASE RetrySame(w) BY <1>0, <1>10, RetryType DEF TypeOK, RetrySame, Awaits
<1>11. CASE Send(w) BY <1>0, <1>11 DEF TypeOK, Send, Success, Awaits
<1>12. CASE Delivered(w)
  BY <1>0, <1>12, WriteType DEF TypeOK, Delivered, SetStatus, Awaits, Statuses
<1>13. CASE Recorded(w) BY <1>0, <1>13 DEF TypeOK, Recorded, Awaits
<1>14. CASE Failed(w) BY <1>0, <1>14 DEF TypeOK, Failed, Awaits
<1>15. CASE Verdict(w)
  <2>1. /\ status' \in [Events -> Statuses] /\ retryCount' \in [Events -> Nat]
        /\ lastError' \in [Events -> {"none", "failed", "TTL_EXCEEDED"}]
    <3>1. snap[w] + 1 \in Nat BY DEF TypeOK
    <3>2. CASE Write(Ev(w), "DEAD", snap[w] + 1, "failed")
      BY <1>0, <3>1, <3>2, WriteType DEF Statuses
    <3>3. CASE Write(Ev(w), "RETRYING", snap[w] + 1, "failed")
      BY <1>0, <3>1, <3>3, WriteType DEF Statuses
    <3> QED BY <1>15, <3>2, <3>3 DEF Verdict, Tries
  <2>2. /\ pc' \in [Workers -> Awaits \cup {"idle"}]
        /\ UNCHANGED <<bull, job, snap, adds, crons, dlq, history, faults>>
    BY <1>15 DEF TypeOK, Verdict, Awaits
  <2>3. \A v \in Workers : pc'[v] # "idle" => job[v] \in Jobs
    BY <1>0, <1>15 DEF TypeOK, Verdict
  <2> QED BY <2>1, <2>2, <2>3 DEF TypeOK
<1>16. CASE AddDlq(w) BY <1>0, <1>16 DEF TypeOK, AddDlq, Awaits
<1>17. CASE RetryNext(w)
  <2>1. snap[w] + 1 \in Nat BY DEF TypeOK
  <2> QED BY <1>0, <1>17, <2>1, RetryType DEF TypeOK, RetryNext, Tries, Awaits
<1>18. CASE Finish(w) BY <1>0, <1>18 DEF TypeOK, Finish, End, Awaits
<1> QED
  BY <1>1, <1>2, <1>3, <1>4, <1>5, <1>6, <1>7, <1>8, <1>9, <1>10, <1>11, <1>12,
     <1>13, <1>14, <1>15, <1>16, <1>17, <1>18 DEF Deliver

\* Types are preserved by Bull, the API and the crons.
LEMMA ServiceType ==
  ASSUME TypeOK,
         \/ \E w \in Workers : Take(w) \/ Crash(w)
         \/ \E j \in Jobs : Stalled(j) \/ Evict(j)
         \/ \E a \in adds : Enqueue(a) \/ ApiCrash(a)
         \/ \E e \in Events :
              \/ Create(e) \/ Replay(e) \/ CronFind(e) \/ CronAdd(e)
              \/ ExpireFind(e) \/ ExpireWrite(e) \/ Delete(e)
  PROVE  TypeOK'
<1> USE DEF At, Go, KeepJob, NoDocs, Others, API, docs, bull, crons, history
<1>1. ASSUME NEW w \in Workers, Take(w) PROVE TypeOK'
  BY <1>1 DEF TypeOK, Take, Awaits
<1>2. ASSUME NEW w \in Workers, Crash(w) PROVE TypeOK'
  BY <1>2 DEF TypeOK, Crash, Disturb
<1>3. ASSUME NEW j \in Jobs, Stalled(j) PROVE TypeOK'
  BY <1>3 DEF TypeOK, Stalled, End
<1>4. ASSUME NEW j \in Jobs, Evict(j) PROVE TypeOK'
  BY <1>4 DEF TypeOK, Evict
<1>5. ASSUME NEW a \in adds, Enqueue(a) PROVE TypeOK'
  <2>1. a.ev \in Events /\ a.kind \in {"first", "replay", "drip", "reschedule"}
    BY DEF TypeOK, AddKinds
  <2> QED BY <1>5, <2>1, AddType DEF TypeOK, Enqueue
<1>6. ASSUME NEW a \in adds, ApiCrash(a) PROVE TypeOK'
  BY <1>6 DEF TypeOK, ApiCrash, Disturb
<1>7. ASSUME NEW e \in Events, Create(e) PROVE TypeOK'
  BY <1>7 DEF TypeOK, Create, Statuses, AddKinds
<1>8. ASSUME NEW e \in Events, Replay(e) PROVE TypeOK'
  <2>1. PICK err \in {"none", lastError[e]} : Write(e, "PENDING", 0, err)
    BY <1>8 DEF Replay
  <2>2. err \in {"none", "failed", "TTL_EXCEEDED"} /\ "PENDING" \in Statuses
    BY DEF TypeOK, Statuses
  <2>3. /\ status' \in [Events -> Statuses] /\ retryCount' \in [Events -> Nat]
        /\ lastError' \in [Events -> {"none", "failed", "TTL_EXCEEDED"}]
    BY <2>1, <2>2, WriteType
  <2> QED BY <1>8, <2>3 DEF TypeOK, Replay, Disturb, AddKinds
<1>9. ASSUME NEW e \in Events, CronFind(e) PROVE TypeOK'
  BY <1>9 DEF TypeOK, CronFind
<1>10. ASSUME NEW e \in Events, CronAdd(e) PROVE TypeOK'
  BY <1>10, AddType DEF TypeOK, CronAdd
<1>11. ASSUME NEW e \in Events, ExpireFind(e) PROVE TypeOK'
  BY <1>11 DEF TypeOK, ExpireFind
<1>12. ASSUME NEW e \in Events, ExpireWrite(e) PROVE TypeOK'
  <2>1. "DEAD" \in Statuses /\ retryCount[e] \in Nat BY DEF TypeOK, Statuses
  <2>2. Write(e, "DEAD", retryCount[e], "TTL_EXCEEDED") BY <1>12 DEF ExpireWrite
  <2>3. /\ status' \in [Events -> Statuses] /\ retryCount' \in [Events -> Nat]
        /\ lastError' \in [Events -> {"none", "failed", "TTL_EXCEEDED"}]
    BY <2>1, <2>2, WriteType
  <2> QED BY <1>12, <2>3 DEF TypeOK, ExpireWrite
<1>13. ASSUME NEW e \in Events, Delete(e) PROVE TypeOK'
  BY <1>13 DEF TypeOK, Delete, Statuses
<1> QED
  BY <1>1, <1>2, <1>3, <1>4, <1>5, <1>6, <1>7, <1>8, <1>9, <1>10, <1>11, <1>12,
     <1>13

\* Every reachable state is well typed.
THEOREM TypeCorrect == Safe => []TypeOK
<1>1. Init => TypeOK
  BY DEF Init, TypeOK, Statuses
<1>2. TypeOK /\ [Next]_vars => TypeOK'
  <2> SUFFICES ASSUME TypeOK, [Next]_vars PROVE TypeOK' OBVIOUS
  <2>1. CASE UNCHANGED vars
    BY <2>1 DEF TypeOK, vars, docs, bull, crons, history
  <2>2. CASE Next BY <2>2, DeliverType, ServiceType DEF Next
  <2> QED BY <2>1, <2>2
<1> QED BY <1>1, <1>2, PTL DEF Safe

-----------------------------------------------------------------------------
(* BudgetSpent *)

\* A write that claims no more tries than were made, and that buries an event
\* as failed only when its budget is spent, keeps BudgetSpent.
LEMMA WriteBudget ==
  ASSUME BudgetInv, UNCHANGED <<failures, dlq>>,
         NEW e \in Events, NEW s, NEW n \in Nat, NEW err, Write(e, s, n, err),
         n <= failures[e], s = "DEAD" /\ err = "failed" => failures[e] >= MaxRetries
  PROVE  BudgetSpent'
BY DEF BudgetInv, TypeOK, BudgetSpent, Write

\* SetStatus leaves the count and the error as they are.
LEMMA SetStatusBudget ==
  ASSUME BudgetInv, UNCHANGED <<failures, dlq>>,
         NEW e \in Events, NEW s, SetStatus(e, s), s # "DEAD"
  PROVE  BudgetSpent'
<1>1. retryCount[e] \in Nat /\ retryCount[e] <= failures[e]
  BY DEF BudgetInv, TypeOK, BudgetSpent
<1> QED BY <1>1, WriteBudget DEF SetStatus

\* A worker's own step keeps its half of the invariant when it reads no new
\* count, unless it moves to one of the steps after a failure.
LEMMA MoveBudget ==
  ASSUME BudgetInv, NEW w \in Workers, NEW p, Go(w, p),
         pc[w] \notin {"idle", "load", "finish"} \/ p = "finish",
         p \notin {"verdict", "dlq", "retryNext"},
         KeepJob, UNCHANGED failures
  PROVE  WorkerBudget'
BY DEF BudgetInv, TypeOK, WorkerBudget, Go, KeepJob, Ev

\* BudgetInv is preserved by every step of deliver().
LEMMA DeliverBudget ==
  ASSUME BudgetInv, NEW w \in Workers, Deliver(w)
  PROVE  BudgetSpent' /\ WorkerBudget'
<1> USE DEF At, NoDocs, Others, docs, history
<1>0. pc[w] # "idle" /\ Ev(w) \in Events
  <2>1. pc[w] # "idle"
    BY DEF Deliver, Load, Endpoint, Defer, Filter, Limit, RateLimited, RateQueue,
           Drip, Breaker, RetrySame, Send, Delivered, Recorded, Failed, Verdict,
           AddDlq, RetryNext, Finish
  <2> QED BY <2>1, WorkerEvent DEF BudgetInv
<1>1. CASE Load(w)
  <2>1. BudgetSpent' BY <1>1 DEF BudgetInv, BudgetSpent, Load
  <2>2. retryCount[Ev(w)] <= failures[Ev(w)] BY <1>0 DEF BudgetInv, BudgetSpent
  <2>3. \A v \in Workers \ {w} : pc'[v] = pc[v] /\ snap'[v] = snap[v]
    BY <1>1 DEF BudgetInv, TypeOK, Load, Go
  <2>4. UNCHANGED <<job, failures>> BY <1>1 DEF Load
  <2>5. \/ pc'[w] = "finish"
        \/ pc'[w] = "endpoint" /\ snap'[w] = retryCount[Ev(w)]
    BY <1>1 DEF BudgetInv, TypeOK, Load, Go
  <2> QED BY <2>1, <2>2, <2>3, <2>4, <2>5 DEF BudgetInv, WorkerBudget, Ev
<1>2. CASE Endpoint(w)
  <2>1. BudgetSpent' BY <1>2 DEF BudgetInv, BudgetSpent, Endpoint
  <2> QED BY <1>2, <2>1, MoveBudget DEF Endpoint
<1>3. CASE Defer(w) BY <1>0, <1>3, SetStatusBudget, MoveBudget DEF Defer
<1>4. CASE Filter(w) BY <1>0, <1>4, SetStatusBudget, MoveBudget DEF Filter
<1>5. CASE Limit(w)
  <2>1. BudgetSpent' BY <1>5 DEF BudgetInv, BudgetSpent, Limit
  <2> QED BY <1>5, <2>1, MoveBudget DEF Limit
<1>6. CASE RateLimited(w)
  BY <1>0, <1>6, SetStatusBudget, MoveBudget DEF RateLimited
<1>7. CASE RateQueue(w)
  BY <1>0, <1>7, SetStatusBudget, MoveBudget DEF RateQueue
<1>8. CASE Drip(w)
  <2>1. BudgetSpent' BY <1>8 DEF BudgetInv, BudgetSpent, Drip
  <2> QED BY <1>8, <2>1, MoveBudget DEF Drip
<1>9. CASE Breaker(w)
  <2>1. BudgetSpent' BY <1>9 DEF BudgetInv, BudgetSpent, Breaker
  <2> QED BY <1>9, <2>1, MoveBudget DEF Breaker
<1>10. CASE RetrySame(w)
  <2>1. BudgetSpent' BY <1>10 DEF BudgetInv, BudgetSpent, RetrySame
  <2> QED BY <1>10, <2>1, MoveBudget DEF RetrySame
<1>11. CASE Send(w)
  <2>1. BudgetSpent' BY <1>11 DEF BudgetInv, BudgetSpent, Send
  <2> QED BY <1>11, <2>1, MoveBudget DEF Send, Success
<1>12. CASE Delivered(w)
  BY <1>0, <1>12, SetStatusBudget, MoveBudget DEF Delivered
<1>13. CASE Recorded(w)
  <2>1. BudgetSpent' BY <1>13 DEF BudgetInv, BudgetSpent, Recorded
  <2> QED BY <1>13, <2>1, MoveBudget DEF Recorded
<1>14. CASE Failed(w)
  <2>1. failures' = [failures EXCEPT ![Ev(w)] = @ + 1] BY <1>14 DEF Failed
  <2>2. \A e \in Events : failures[e] \in Nat /\ failures'[e] \in Nat
                           /\ failures'[e] >= failures[e]
    BY <1>0, <2>1 DEF BudgetInv, TypeOK
  <2>3. \A e \in Events : retryCount[e] \in Nat BY DEF BudgetInv, TypeOK
  <2>4. MaxRetries \in Nat BY BudgetAssumption
  <2>5. BudgetSpent'
    <3>1. UNCHANGED <<status, retryCount, lastError, dlq>> BY <1>14 DEF Failed
    <3>2. \A e \in Events : retryCount[e] <= failures'[e]
      BY <2>2, <2>3 DEF BudgetInv, BudgetSpent
    <3>3. \A e \in Events : failures[e] >= MaxRetries => failures'[e] >= MaxRetries
      BY <2>2, <2>4
    <3> QED BY <3>1, <3>2, <3>3 DEF BudgetInv, BudgetSpent
  <2>6. WorkerBudget'
    <3> SUFFICES ASSUME NEW v \in Workers
                 PROVE  /\ pc'[v] \notin {"idle", "load", "finish"}
                             => snap[v] <= failures'[Ev(v)]
                        /\ pc'[v] \in {"verdict", "dlq", "retryNext"}
                             => snap[v] + 1 <= failures'[Ev(v)]
                        /\ pc'[v] = "dlq" => snap[v] + 1 >= MaxRetries
      BY <1>14 DEF WorkerBudget, Failed, KeepJob, Ev
    <3>1. snap[v] \in Nat BY DEF BudgetInv, TypeOK
    <3>2. CASE v = w
      <4>1. pc[w] = "failed" /\ pc'[w] \in {"verdict", "finish"}
        BY <1>14 DEF BudgetInv, TypeOK, Failed, Go
      <4>2. snap[w] <= failures[Ev(w)] BY <4>1 DEF BudgetInv, WorkerBudget
      <4>3. failures'[Ev(w)] = failures[Ev(w)] + 1
        BY <1>0, <2>1 DEF BudgetInv, TypeOK
      <4> QED BY <1>0, <2>2, <3>1, <3>2, <4>1, <4>2, <4>3
    <3>3. CASE v # w
      <4>1. pc'[v] = pc[v] BY <1>14, <3>3 DEF BudgetInv, TypeOK, Failed, Go
      <4>2. pc[v] # "idle" => Ev(v) \in Events BY WorkerEvent DEF BudgetInv
      <4> QED BY <2>2, <3>1, <4>1, <4>2 DEF BudgetInv, WorkerBudget
    <3> QED BY <3>2, <3>3
  <2> QED BY <2>5, <2>6
<1>15. CASE Verdict(w)
  <2>1. snap[w] \in Nat /\ MaxRetries \in Nat /\ failures[Ev(w)] \in Nat
    BY <1>0, BudgetAssumption DEF BudgetInv, TypeOK
  <2>2. snap[w] + 1 <= failures[Ev(w)]
    BY <1>15 DEF Verdict, BudgetInv, WorkerBudget
  <2>3. BudgetSpent'
    <3>1. UNCHANGED <<failures, dlq>> BY <1>15 DEF Verdict
    <3>2. CASE snap[w] + 1 >= MaxRetries
      <4>1. Write(Ev(w), "DEAD", snap[w] + 1, "failed") BY <1>15, <3>2 DEF Verdict, Tries
      <4>2. failures[Ev(w)] >= MaxRetries BY <2>1, <2>2, <3>2
      <4> QED BY <1>0, <2>1, <2>2, <3>1, <4>1, <4>2, WriteBudget
    <3>3. CASE ~(snap[w] + 1 >= MaxRetries)
      <4>1. Write(Ev(w), "RETRYING", snap[w] + 1, "failed")
        BY <1>15, <3>3 DEF Verdict, Tries, Tries
      <4> QED BY <1>0, <2>1, <2>2, <3>1, <4>1, WriteBudget
    <3> QED BY <3>2, <3>3
  <2>4. WorkerBudget'
    <3>1. UNCHANGED <<job, snap, failures>> BY <1>15 DEF Verdict, KeepJob
    <3>2. \A v \in Workers \ {w} : pc'[v] = pc[v]
      BY <1>15 DEF BudgetInv, TypeOK, Verdict, Go
    <3>3. \/ snap[w] + 1 >= MaxRetries /\ pc'[w] = "dlq"
          \/ pc'[w] = "retryNext"
      BY <1>15 DEF BudgetInv, TypeOK, Verdict, Tries, Go
    <3>4. pc[w] = "verdict" BY <1>15 DEF Verdict
    <3> QED BY <2>2, <3>1, <3>2, <3>3, <3>4 DEF BudgetInv, WorkerBudget, Ev
  <2> QED BY <2>3, <2>4
<1>16. CASE AddDlq(w)
  <2>1. snap[w] + 1 <= failures[Ev(w)] /\ snap[w] + 1 >= MaxRetries
    BY <1>16 DEF AddDlq, BudgetInv, WorkerBudget
  <2>2. failures[Ev(w)] >= MaxRetries
    BY <1>0, <2>1, BudgetAssumption DEF BudgetInv, TypeOK
  <2>3. BudgetSpent' BY <1>16, <2>2 DEF BudgetInv, BudgetSpent, AddDlq
  <2> QED BY <1>16, <2>3, MoveBudget DEF AddDlq
<1>17. CASE RetryNext(w)
  <2>1. BudgetSpent' BY <1>17 DEF BudgetInv, BudgetSpent, RetryNext
  <2> QED BY <1>17, <2>1, MoveBudget DEF RetryNext
<1>18. CASE Finish(w)
  <2>1. BudgetSpent' BY <1>18 DEF BudgetInv, BudgetSpent, Finish
  <2>2. WorkerBudget'
    BY <1>18 DEF BudgetInv, TypeOK, WorkerBudget, Finish, Go, Ev
  <2> QED BY <2>1, <2>2
<1> QED
  BY <1>1, <1>2, <1>3, <1>4, <1>5, <1>6, <1>7, <1>8, <1>9, <1>10, <1>11, <1>12,
     <1>13, <1>14, <1>15, <1>16, <1>17, <1>18 DEF Deliver

\* The budget invariant is preserved by Bull, the API and the crons: only
\* ExpireWrite buries an event, and it names another cause.
LEMMA ServiceBudget ==
  ASSUME BudgetInv,
         \/ \E w \in Workers : Take(w) \/ Crash(w)
         \/ \E j \in Jobs : Stalled(j) \/ Evict(j)
         \/ \E a \in adds : Enqueue(a) \/ ApiCrash(a)
         \/ \E e \in Events :
              \/ Create(e) \/ Replay(e) \/ CronFind(e) \/ CronAdd(e)
              \/ ExpireFind(e) \/ ExpireWrite(e) \/ Delete(e)
  PROVE  BudgetSpent' /\ WorkerBudget'
<1> USE DEF BudgetInv, At, Go, KeepJob, NoDocs, Others, API, docs, crons, history
<1>0. ASSUME UNCHANGED <<docs, dlq, failures>> PROVE BudgetSpent'
  BY <1>0 DEF BudgetSpent
<1>00. ASSUME UNCHANGED <<pc, job, snap, failures>> PROVE WorkerBudget'
  BY <1>00 DEF WorkerBudget, Ev
<1>1. ASSUME NEW w \in Workers, Take(w) PROVE BudgetSpent' /\ WorkerBudget'
  <2>1. WorkerBudget' BY <1>1 DEF TypeOK, WorkerBudget, Take, Ev
  <2> QED BY <1>0, <1>1, <2>1 DEF Take
<1>2. ASSUME NEW w \in Workers, Crash(w) PROVE BudgetSpent' /\ WorkerBudget'
  <2>1. WorkerBudget' BY <1>2 DEF TypeOK, WorkerBudget, Crash, Ev
  <2> QED BY <1>0, <1>2, <2>1 DEF Crash
<1>3. ASSUME NEW j \in Jobs, Stalled(j) \/ Evict(j)
      PROVE  BudgetSpent' /\ WorkerBudget'
  BY <1>0, <1>00, <1>3 DEF Stalled, Evict
<1>4. ASSUME NEW a \in adds, Enqueue(a) \/ ApiCrash(a)
      PROVE  BudgetSpent' /\ WorkerBudget'
  BY <1>0, <1>00, <1>4 DEF Enqueue, ApiCrash
<1>5. ASSUME NEW e \in Events, CronFind(e) \/ CronAdd(e) \/ ExpireFind(e)
      PROVE  BudgetSpent' /\ WorkerBudget'
  BY <1>0, <1>00, <1>5 DEF CronFind, CronAdd, ExpireFind
<1>6. ASSUME NEW e \in Events, Create(e) \/ Delete(e)
      PROVE  BudgetSpent' /\ WorkerBudget'
  <2>1. BudgetSpent' BY <1>6 DEF TypeOK, BudgetSpent, Create, Delete
  <2> QED BY <1>00, <1>6, <2>1 DEF Create, Delete
<1>7. ASSUME NEW e \in Events, Replay(e) PROVE BudgetSpent' /\ WorkerBudget'
  <2>1. PICK err : Write(e, "PENDING", 0, err) BY <1>7 DEF Replay
  <2>2. 0 <= failures[e] BY DEF TypeOK
  <2>3. BudgetSpent' BY <1>7, <2>1, <2>2, WriteBudget DEF Replay
  <2> QED BY <1>00, <1>7, <2>3 DEF Replay
<1>8. ASSUME NEW e \in Events, ExpireWrite(e) PROVE BudgetSpent' /\ WorkerBudget'
  <2>1. retryCount[e] \in Nat /\ retryCount[e] <= failures[e]
    BY DEF TypeOK, BudgetSpent
  <2>2. BudgetSpent' BY <1>8, <2>1, WriteBudget DEF ExpireWrite
  <2> QED BY <1>00, <1>8, <2>2 DEF ExpireWrite
<1> QED BY <1>1, <1>2, <1>3, <1>4, <1>5, <1>6, <1>7, <1>8

\* No event is declared dead, or put in the dead letter queue, before
\* MaxRetries tries of it have failed, however workers overlap and crash.
THEOREM BudgetIsSpent == Safe => []BudgetSpent
<1>1. Init => BudgetInv
  <2>1. Init => TypeOK BY DEF Init, TypeOK, Statuses
  <2>2. Init => BudgetSpent /\ WorkerBudget
    BY DEF Init, BudgetSpent, WorkerBudget
  <2> QED BY <2>1, <2>2 DEF BudgetInv
<1>2. BudgetInv /\ [Next]_vars => BudgetInv'
  <2> SUFFICES ASSUME BudgetInv, [Next]_vars PROVE BudgetInv' OBVIOUS
  <2>1. CASE UNCHANGED vars
    BY <2>1 DEF BudgetInv, TypeOK, BudgetSpent, WorkerBudget, Ev,
                vars, docs, bull, crons, history
  <2>2. CASE Next
    BY <2>2, DeliverType, ServiceType, DeliverBudget, ServiceBudget
    DEF Next, BudgetInv
  <2> QED BY <2>1, <2>2
<1>3. BudgetInv => BudgetSpent BY DEF BudgetInv
<1> QED BY <1>1, <1>2, <1>3, PTL DEF Safe

-----------------------------------------------------------------------------
(* DeliveredWasAccepted *)

\* A status write other than DELIVERED, or of an accepted event, is harmless.
LEMMA WriteAccept ==
  ASSUME AcceptInv, UNCHANGED accepted,
         NEW e \in Events, NEW s, NEW n, NEW err, Write(e, s, n, err),
         s = "DELIVERED" => e \in accepted
  PROVE  DeliveredWasAccepted'
BY DEF AcceptInv, TypeOK, DeliveredWasAccepted, Write

\* Every step of deliver() keeps DELIVERED events accepted.
LEMMA DeliverAccept ==
  ASSUME AcceptInv, NEW w \in Workers, Deliver(w)
  PROVE  /\ DeliveredWasAccepted'
         /\ \A v \in Workers : pc'[v] = "delivered" => Ev(v)' \in accepted'
<1> USE DEF At, Go, KeepJob, NoDocs, Others, docs, history
<1>0. pc[w] # "idle" /\ Ev(w) \in Events
  <2>1. pc[w] # "idle"
    BY DEF Deliver, Load, Endpoint, Defer, Filter, Limit, RateLimited, RateQueue,
           Drip, Breaker, RetrySame, Send, Delivered, Recorded, Failed, Verdict,
           AddDlq, RetryNext, Finish
  <2> QED BY <2>1, WorkerEvent DEF AcceptInv
<1>1. \A v \in Workers : pc'[v] = "delivered" => Ev(v)' \in accepted'
  <2>1. CASE Send(w) BY <2>1 DEF AcceptInv, TypeOK, Send, Success, Ev
  <2>2. CASE ~Send(w)
    <3>1. UNCHANGED accepted /\ pc'[w] # "delivered"
      BY <2>2 DEF AcceptInv, TypeOK,
           Deliver, Load, Endpoint, Defer, Filter, Limit, RateLimited, RateQueue,
           Drip, Breaker, RetrySame, Delivered, Recorded, Failed, Verdict,
           AddDlq, RetryNext, Finish
    <3>2. \A v \in Workers \ {w} : pc'[v] = pc[v] /\ job'[v] = job[v]
      BY <2>2 DEF AcceptInv, TypeOK,
           Deliver, Load, Endpoint, Defer, Filter, Limit, RateLimited, RateQueue,
           Drip, Breaker, RetrySame, Delivered, Recorded, Failed, Verdict,
           AddDlq, RetryNext, Finish
    <3> QED BY <3>1, <3>2 DEF AcceptInv, Ev
  <2> QED BY <2>1, <2>2
<1>2. CASE Delivered(w)
  <2>1. Ev(w) \in accepted BY <1>2 DEF AcceptInv, Delivered
  <2>2. DeliveredWasAccepted'
    BY <1>0, <1>2, <2>1, WriteAccept DEF Delivered, SetStatus
  <2> QED BY <1>1, <2>2
<1>3. CASE Defer(w) \/ Filter(w) \/ RateLimited(w) \/ RateQueue(w)
  <2>1. DeliveredWasAccepted'
    BY <1>0, <1>3, WriteAccept DEF Defer, Filter, RateLimited, RateQueue, SetStatus
  <2> QED BY <1>1, <2>1
<1>4. CASE Verdict(w)
  <2>1. DeliveredWasAccepted' BY <1>0, <1>4, WriteAccept DEF Verdict
  <2> QED BY <1>1, <2>1
<1>5. CASE \/ Load(w) \/ Endpoint(w) \/ Limit(w) \/ Drip(w) \/ Breaker(w)
           \/ RetrySame(w) \/ Send(w) \/ Recorded(w) \/ Failed(w) \/ AddDlq(w)
           \/ RetryNext(w) \/ Finish(w)
  <2>1. UNCHANGED status /\ accepted \subseteq accepted'
    BY <1>5 DEF Load, Endpoint, Limit, Drip, Breaker, RetrySame, Send, Success,
                Recorded, Failed, AddDlq, RetryNext, Finish
  <2>2. DeliveredWasAccepted' BY <2>1 DEF AcceptInv, DeliveredWasAccepted
  <2> QED BY <1>1, <2>2
<1> QED BY <1>2, <1>3, <1>4, <1>5 DEF Deliver

\* Bull, the API and the crons never write DELIVERED nor move a worker to it.
LEMMA ServiceAccept ==
  ASSUME AcceptInv,
         \/ \E w \in Workers : Take(w) \/ Crash(w)
         \/ \E j \in Jobs : Stalled(j) \/ Evict(j)
         \/ \E a \in adds : Enqueue(a) \/ ApiCrash(a)
         \/ \E e \in Events :
              \/ Create(e) \/ Replay(e) \/ CronFind(e) \/ CronAdd(e)
              \/ ExpireFind(e) \/ ExpireWrite(e) \/ Delete(e)
  PROVE  /\ DeliveredWasAccepted'
         /\ \A v \in Workers : pc'[v] = "delivered" => Ev(v)' \in accepted'
<1> USE DEF AcceptInv, At, Go, KeepJob, NoDocs, Others, API, docs, crons, history
<1>1. ASSUME NEW w \in Workers, Take(w) \/ Crash(w)
      PROVE  /\ DeliveredWasAccepted'
             /\ \A v \in Workers : pc'[v] = "delivered" => Ev(v)' \in accepted'
  BY <1>1 DEF TypeOK, DeliveredWasAccepted, Take, Crash, Ev
<1>2. ASSUME NEW j \in Jobs, Stalled(j) \/ Evict(j)
      PROVE  /\ DeliveredWasAccepted'
             /\ \A v \in Workers : pc'[v] = "delivered" => Ev(v)' \in accepted'
  BY <1>2 DEF DeliveredWasAccepted, Stalled, Evict, Ev
<1>3. ASSUME NEW a \in adds, Enqueue(a) \/ ApiCrash(a)
      PROVE  /\ DeliveredWasAccepted'
             /\ \A v \in Workers : pc'[v] = "delivered" => Ev(v)' \in accepted'
  BY <1>3 DEF DeliveredWasAccepted, Enqueue, ApiCrash, Ev
<1>4. ASSUME NEW e \in Events,
             \/ Create(e) \/ Replay(e) \/ CronFind(e) \/ CronAdd(e)
             \/ ExpireFind(e) \/ ExpireWrite(e) \/ Delete(e)
      PROVE  /\ DeliveredWasAccepted'
             /\ \A v \in Workers : pc'[v] = "delivered" => Ev(v)' \in accepted'
  <2>1. UNCHANGED <<pc, job, accepted>>
    BY <1>4 DEF Create, Replay, CronFind, CronAdd, ExpireFind, ExpireWrite, Delete
  <2>2. CASE Replay(e) \/ ExpireWrite(e)
    BY <2>1, <2>2, WriteAccept DEF Replay, ExpireWrite, Ev
  <2>3. CASE Create(e) \/ Delete(e)
    BY <2>1, <2>3 DEF TypeOK, DeliveredWasAccepted, Create, Delete, Ev
  <2>4. CASE CronFind(e) \/ CronAdd(e) \/ ExpireFind(e)
    BY <2>1, <2>4 DEF DeliveredWasAccepted, CronFind, CronAdd, ExpireFind, Ev
  <2> QED BY <1>4, <2>2, <2>3, <2>4
<1> QED BY <1>1, <1>2, <1>3, <1>4

\* An event is only ever recorded as DELIVERED after a receiver's 2xx.
THEOREM DeliveredIsAccepted == Safe => []DeliveredWasAccepted
<1>1. Init => AcceptInv
  <2>1. Init => TypeOK BY DEF Init, TypeOK, Statuses
  <2>2. Init => DeliveredWasAccepted
    BY DEF Init, DeliveredWasAccepted
  <2> QED BY <2>1, <2>2 DEF Init, AcceptInv
<1>2. AcceptInv /\ [Next]_vars => AcceptInv'
  <2> SUFFICES ASSUME AcceptInv, [Next]_vars PROVE AcceptInv' OBVIOUS
  <2>1. CASE UNCHANGED vars
    BY <2>1 DEF AcceptInv, TypeOK, DeliveredWasAccepted, Ev,
                vars, docs, bull, crons, history
  <2>2. CASE Next
    BY <2>2, DeliverType, ServiceType, DeliverAccept, ServiceAccept
    DEF Next, AcceptInv
  <2> QED BY <2>1, <2>2
<1>3. AcceptInv => DeliveredWasAccepted BY DEF AcceptInv
<1> QED BY <1>1, <1>2, <1>3, PTL DEF Safe

-----------------------------------------------------------------------------
(* Left alone: no orphan, nothing sent again, and EventLifecycle               *)

\* Receivers may refuse or answer late and rate limits may deny; nothing crashes,
\* no cron runs and nobody replays.  The delay table has a delay for every retry.
Calm ==
  /\ Env \subseteq {"reject", "timeout", "filter", "limit", "hardLimit", "evict"}
  /\ LeanDocHasId /\ MaxRetries <= RetrySlots

Open == {"PENDING", "RETRYING", "RATE_QUEUED"}
Adding(e) == \E a \in adds : a.ev = e
Waits(j, e) == j.ev = e /\ queue[j] = "waiting"
Works(w, e) == pc[w] \notin {"idle", "finish"} /\ Ev(w) = e

\* No cron has found anything, and the API only adds first jobs.
Quiet ==
  /\ picked = {} /\ expired = {} /\ \A a \in adds : a.kind = "first"
  /\ \A e \in Events : status[e] # "deleted"

\* Each active job has its own worker.
Manned ==
  /\ \A j \in Jobs : queue[j] = "active" => \E w \in Workers : pc[w] # "idle" /\ job[w] = j
  /\ \A w \in Workers : IF pc[w] = "idle" THEN job[w] = NoJob ELSE queue[job[w]] = "active"
  /\ \A v, w \in Workers : pc[w] # "idle" /\ job[v] = job[w] => v = w

\* One thing at a time carries an event: an API call that adds its job, a job that
\* waits, or a worker.  While it is open, something does.
OneCarrier ==
  \A e \in Events :
    /\ Adding(e) => /\ status[e] \in Open /\ \A w \in Workers : ~Works(w, e)
                    /\ \A j \in Jobs : ~Waits(j, e)
    /\ \A j \in Jobs : Waits(j, e) => /\ status[e] \in Open /\ \A w \in Workers : ~Works(w, e)
                                      /\ \A i \in Jobs : Waits(i, e) => i = j
    /\ \A v, w \in Workers : Works(v, e) /\ Works(w, e) => v = w
Held(e) ==
  Adding(e) \/ (\E j \in Jobs : Waits(j, e)) \/ \E w \in Workers : Works(w, e)
OpenIsHeld == \A e \in Events : status[e] \in Open => Held(e)

\* What the worker on an event knows of its status and its tries.
Fits(w) ==
  /\ pc[w] \notin {"defer", "retrySame"}
  /\ pc[w] \in {"recorded", "dlq"} => status[Ev(w)] \in Terminal
  /\ pc[w] \notin {"recorded", "dlq", "idle", "finish"} => status[Ev(w)] \in Open
  /\ pc[w] \notin {"load", "recorded", "dlq", "retryNext", "idle", "finish"} =>
       snap[w] = retryCount[Ev(w)]
  /\ pc[w] = "retryNext" =>
       /\ snap[w] + 1 = retryCount[Ev(w)]
       /\ \A j \in RetryJobs : j.ev = Ev(w) /\ j.n = snap[w] + 1 => queue[j] = "absent"

\* The id of the next retry has not been used yet, and there is one.
NextIsFresh ==
  /\ \A j \in RetryJobs : queue[j] # "absent" => j.n <= retryCount[j.ev]
  /\ \A e \in Events : status[e] \in Open \cup {"none"} => retryCount[e] < MaxRetries

CalmInv ==
  /\ TypeOK /\ Quiet /\ Manned /\ OneCarrier /\ OpenIsHeld /\ NextIsFresh
  /\ \A w \in Workers : Fits(w)

\* What a step of one worker must show: the others and their events are where they were.
LEMMA Apart ==
  ASSUME CalmInv, NEW w \in Workers, NEW v \in Workers \ {w}, pc[v] # "idle",
         pc[w] \notin {"idle", "finish"}
  PROVE  /\ job[v] # job[w] /\ job[v] \in Jobs /\ Ev(v) \in Events
         /\ pc[v] # "finish" => Ev(v) # Ev(w)
<1>1. job[v] \in Jobs /\ job[w] \in Jobs /\ Ev(v) \in Events /\ Ev(w) \in Events
  BY WorkerEvent DEF CalmInv
<1>2. job[v] # job[w]
  BY DEF CalmInv, Manned
<1>3. pc[v] # "finish" => Ev(v) # Ev(w)
  BY <1>1 DEF CalmInv, OneCarrier, Works
<1> QED
  BY <1>1, <1>2, <1>3

\* A worker goes on with its event.
LEMMA Moves ==
  ASSUME CalmInv, TypeOK', NEW w \in Workers, pc[w] \notin {"idle", "finish"},
         NEW p \in Awaits \ {"finish"}, Go(w, p), UNCHANGED <<queue, adds, picked, expired, job>>,
         \A v \in Workers \ {w} : snap'[v] = snap[v],
         \A f \in Events \ {Ev(w)} : status'[f] = status[f] /\ retryCount'[f] = retryCount[f],
         retryCount[Ev(w)] <= retryCount'[Ev(w)], status'[Ev(w)] \in Open \cup Terminal,
         status'[Ev(w)] \in Open => retryCount'[Ev(w)] < MaxRetries, Fits(w)'
  PROVE  CalmInv'
<1> DEFINE e == Ev(w)
<1>1. TypeOK /\ e \in Events /\ job[w] \in Jobs
  BY WorkerEvent DEF CalmInv
<1>2. /\ pc'[w] = p /\ p \notin {"idle", "finish"} /\ \A v \in Workers \ {w} : pc'[v] = pc[v]
      /\ \A v \in Workers : Ev(v)' = Ev(v)
  BY <1>1 DEF TypeOK, Go, Awaits, Ev
<1>3. \A f : \A v \in Workers : Works(v, f)' <=> Works(v, f)
  BY <1>2 DEF Works
<1>4. \A f : (Adding(f)' <=> Adding(f)) /\ \A j \in Jobs : Waits(j, f)' <=> Waits(j, f)
  BY DEF Adding, Waits
<1>5. Works(w, e)
  BY DEF Works
<1>6. Quiet'
  BY DEF CalmInv, Quiet, Open, Terminal
<1>7. Manned'
  BY <1>2 DEF CalmInv, Manned
<1>8. OneCarrier'
  BY <1>1, <1>3, <1>4, <1>5 DEF CalmInv, OneCarrier
<1>9. OpenIsHeld'
  BY <1>3, <1>4, <1>5 DEF CalmInv, OpenIsHeld, Held
<1>10. NextIsFresh'
  <2>1. \A j \in RetryJobs : j.ev \in Events /\ j.n \in Nat
    BY DEF RetryJobs
  <2>2. \A f \in Events : /\ retryCount[f] \in Nat /\ retryCount'[f] \in Nat
                          /\ retryCount[f] <= retryCount'[f]
    BY <1>1 DEF TypeOK
  <2>3. \A j \in RetryJobs : queue'[j] # "absent" => j.n <= retryCount'[j.ev]
    BY <2>1, <2>2 DEF CalmInv, NextIsFresh
  <2>4. \A f \in Events : status'[f] \in Open \cup {"none"} => retryCount'[f] < MaxRetries
    BY DEF CalmInv, NextIsFresh, Open, Terminal
  <2> QED
    BY <2>3, <2>4 DEF NextIsFresh
<1>11. ASSUME NEW v \in Workers \ {w}
       PROVE  Fits(v)'
  <2>1. Fits(v) /\ pc'[v] = pc[v] /\ snap'[v] = snap[v] /\ Ev(v)' = Ev(v)
    BY <1>2 DEF CalmInv
  <2>2. CASE pc[v] \in {"idle", "finish"}
    BY <2>1, <2>2 DEF Fits
  <2>3. CASE pc[v] \notin {"idle", "finish"}
    <3>1. Ev(v) \in Events \ {e}
      BY <2>3, Apart
    <3> QED
      BY <2>1, <3>1 DEF Fits
  <2> QED
    BY <2>2, <2>3
<1> QED
  BY <1>6, <1>7, <1>8, <1>9, <1>10, <1>11 DEF CalmInv

\* A worker is done with its event for good.
LEMMA Closes ==
  ASSUME CalmInv, TypeOK', NEW w \in Workers, pc[w] \notin {"idle", "finish"}, Go(w, "finish"),
         UNCHANGED <<queue, adds, picked, expired, job, snap, retryCount>>,
         \A f \in Events \ {Ev(w)} : status'[f] = status[f], status'[Ev(w)] \in Terminal
  PROVE  CalmInv'
<1> DEFINE e == Ev(w)
<1>1. TypeOK /\ e \in Events /\ job[w] \in Jobs
  BY WorkerEvent DEF CalmInv
<1>2. /\ pc'[w] = "finish" /\ \A v \in Workers \ {w} : pc'[v] = pc[v]
      /\ \A v \in Workers : Ev(v)' = Ev(v)
  BY <1>1 DEF TypeOK, Go, Ev
<1>3. ~Works(w, e)' /\ \A f : \A v \in Workers : Works(v, f)' <=> (Works(v, f) /\ v # w)
  BY <1>2 DEF Works
<1>4. \A f : (Adding(f)' <=> Adding(f)) /\ \A j \in Jobs : Waits(j, f)' <=> Waits(j, f)
  BY DEF Adding, Waits
<1>5. Works(w, e)
  BY DEF Works
<1>6. Quiet'
  BY DEF CalmInv, Quiet, Terminal
<1>7. Manned'
  BY <1>2 DEF CalmInv, Manned
<1>8. OneCarrier'
  BY <1>1, <1>3, <1>4, <1>5 DEF CalmInv, OneCarrier
<1>9. OpenIsHeld'
  <2> SUFFICES ASSUME NEW f \in Events, status'[f] \in Open
               PROVE  Held(f)'
    BY DEF OpenIsHeld
  <2>1. f # e
    BY DEF Open, Terminal
  <2>2. Held(f) /\ ~Works(w, f)
    BY <2>1 DEF CalmInv, OpenIsHeld, Works
  <2> QED
    BY <1>3, <1>4, <2>2 DEF Held
<1>10. NextIsFresh'
  BY DEF CalmInv, NextIsFresh, Open, Terminal
<1>11. ASSUME NEW v \in Workers
       PROVE  Fits(v)'
  <2>1. CASE v = w
    BY <1>2, <2>1 DEF Fits
  <2>2. CASE v # w /\ pc[v] \in {"idle", "finish"}
    BY <1>2, <2>2 DEF Fits
  <2>3. CASE v # w /\ pc[v] \notin {"idle", "finish"}
    <3>1. Ev(v) \in Events \ {e} /\ Fits(v) /\ Ev(v)' = Ev(v) /\ pc'[v] = pc[v]
      BY <1>2, <2>3, Apart DEF CalmInv
    <3> QED
      BY <3>1 DEF Fits
  <2> QED
    BY <2>1, <2>2, <2>3
<1> QED
  BY <1>6, <1>7, <1>8, <1>9, <1>10, <1>11 DEF CalmInv

\* A worker hands its open event on to a new job.
LEMMA Requeues ==
  ASSUME CalmInv, TypeOK', NEW w \in Workers, pc[w] \notin {"idle", "finish"}, Go(w, "finish"),
         UNCHANGED <<status, retryCount, adds, picked, expired, job, snap>>,
         NEW j \in Jobs, j.ev = Ev(w), queue[j] = "absent",
         queue' = [queue EXCEPT ![j] = "waiting"], status[Ev(w)] \in Open,
         j \in RetryJobs => j.n <= retryCount[Ev(w)]
  PROVE  CalmInv'
<1> DEFINE e == Ev(w)
<1>1. TypeOK /\ e \in Events /\ job[w] \in Jobs
  BY WorkerEvent DEF CalmInv
<1>2. /\ pc'[w] = "finish" /\ \A v \in Workers \ {w} : pc'[v] = pc[v]
      /\ \A v \in Workers : Ev(v)' = Ev(v)
  BY <1>1 DEF TypeOK, Go, Ev
<1>3. ~Works(w, e)' /\ \A f : \A v \in Workers : Works(v, f)' <=> (Works(v, f) /\ v # w)
  BY <1>2 DEF Works
<1>4. queue'[j] = "waiting" /\ \A i \in Jobs \ {j} : queue'[i] = queue[i]
  BY <1>1 DEF TypeOK
<1>5. /\ \A f : Adding(f)' <=> Adding(f)
      /\ \A f : \A i \in Jobs : Waits(i, f)' <=> (Waits(i, f) \/ (i = j /\ f = e))
  BY <1>4 DEF Adding, Waits
<1>6. Works(w, e)
  BY DEF Works
<1>7. Quiet'
  BY DEF CalmInv, Quiet
<1>8. Manned'
  <2>1. \A i \in Jobs : queue'[i] = "active" => i # j /\ queue[i] = "active"
    BY <1>4
  <2>2. \A v \in Workers : pc[v] # "idle" => job[v] \in Jobs \ {j} /\ queue'[job[v]] = "active"
    BY <1>1, <1>4, WorkerEvent DEF CalmInv, Manned
  <2> QED
    BY <1>2, <2>1, <2>2 DEF CalmInv, Manned
<1>9. OneCarrier'
  <2> SUFFICES ASSUME NEW f \in Events
        PROVE  /\ Adding(f)' => /\ status[f] \in Open /\ \A v \in Workers : ~Works(v, f)'
                                /\ \A i \in Jobs : ~Waits(i, f)'
               /\ \A k \in Jobs : Waits(k, f)' =>
                     /\ status[f] \in Open /\ \A v \in Workers : ~Works(v, f)'
                     /\ \A i \in Jobs : Waits(i, f)' => i = k
               /\ \A u, v \in Workers : Works(u, f)' /\ Works(v, f)' => u = v
    BY DEF OneCarrier
  <2>1. CASE f = e
    <3>1. ~Adding(e) /\ (\A i \in Jobs : ~Waits(i, e)) /\ \A v \in Workers : Works(v, e) => v = w
      BY <1>1, <1>6 DEF CalmInv, OneCarrier
    <3> QED
      BY <1>3, <1>5, <2>1, <3>1
  <2>2. CASE f # e
    BY <1>3, <1>5, <2>2 DEF CalmInv, OneCarrier
  <2> QED
    BY <2>1, <2>2
<1>10. OpenIsHeld'
  <2> SUFFICES ASSUME NEW f \in Events, status[f] \in Open
               PROVE  Held(f)'
    BY DEF OpenIsHeld
  <2>1. CASE f = e
    BY <1>5, <2>1 DEF Held
  <2>2. CASE f # e
    <3>1. Held(f) /\ ~Works(w, f)
      BY <2>2 DEF CalmInv, OpenIsHeld, Works
    <3> QED
      BY <1>3, <1>5, <3>1 DEF Held
  <2> QED
    BY <2>1, <2>2
<1>11. NextIsFresh'
  <2>1. RetryJobs \subseteq Jobs
    BY DEF Jobs
  <2> QED
    BY <1>4, <2>1 DEF CalmInv, NextIsFresh
<1>12. ASSUME NEW v \in Workers
       PROVE  Fits(v)'
  <2>1. CASE v = w
    BY <1>2, <2>1 DEF Fits
  <2>2. CASE v # w /\ pc[v] \in {"idle", "finish"}
    BY <1>2, <2>2 DEF Fits
  <2>3. CASE v # w /\ pc[v] \notin {"idle", "finish"}
    <3>1. Ev(v) \in Events \ {e} /\ Fits(v) /\ Ev(v)' = Ev(v) /\ pc'[v] = pc[v]
      BY <1>2, <2>3, Apart DEF CalmInv
    <3>2. \A i \in RetryJobs : i.ev = Ev(v) => queue'[i] = queue[i]
      BY <1>4, <3>1 DEF Jobs
    <3> QED
      BY <3>1, <3>2 DEF Fits
  <2> QED
    BY <2>1, <2>2, <2>3
<1> QED
  BY <1>7, <1>8, <1>9, <1>10, <1>11, <1>12 DEF CalmInv

LEMMA Sets ==
  ASSUME TypeOK, NEW e \in Events, status[e] \in Open, NEW s, NEW n, NEW err, Write(e, s, n, err)
  PROVE  /\ status' = [status EXCEPT ![e] = s] /\ retryCount' = [retryCount EXCEPT ![e] = n]
         /\ status'[e] = s /\ retryCount'[e] = n
         /\ \A f \in Events \ {e} : status'[f] = status[f] /\ retryCount'[f] = retryCount[f]
         /\ n = retryCount[e] => retryCount' = retryCount
BY DEF TypeOK, Open, Write, Exists

\* In a calm environment every step of deliver() moves on, closes or requeues.
LEMMA CalmDeliver ==
  ASSUME Calm, CalmInv, NEW w \in Workers, Deliver(w), ~Finish(w)
  PROVE  CalmInv'
<1> DEFINE e == Ev(w)
<1> USE DEF At, KeepJob, NoDocs, Others, docs, bull, crons, history
<1>0. /\ TypeOK /\ TypeOK' /\ Fits(w)
  BY DeliverType DEF CalmInv
<1>1. pc[w] \notin {"idle", "finish"}
  BY DEF Deliver, Load, Endpoint, Defer, Filter, Limit, RateLimited, RateQueue,
         Drip, Breaker, RetrySame, Send, Delivered, Recorded, Failed, Verdict,
         AddDlq, RetryNext
<1>2. e \in Events /\ retryCount[e] \in Nat /\ snap[w] \in Nat /\ MaxRetries \in Nat
      /\ RetrySlots \in Nat
  BY <1>0, <1>1, WorkerEvent, BudgetAssumption DEF TypeOK
<1>3. status[e] \in Open => retryCount[e] < MaxRetries
  BY <1>2 DEF CalmInv, NextIsFresh
<1>4. \A p \in Awaits : Go(w, p) => pc'[w] = p
  BY <1>0 DEF Go, TypeOK
\* A step that only moves on.
<1>5. ASSUME NEW p \in Awaits \ {"finish", "defer", "retrySame", "recorded", "dlq", "retryNext"},
             Go(w, p), UNCHANGED <<queue, adds, picked, expired, job, status, retryCount>>,
             snap' = snap \/ snap' = [snap EXCEPT ![w] = retryCount[e]],
             pc[w] \notin {"recorded", "dlq", "retryNext"},
             pc[w] = "load" => snap'[w] = retryCount[e]
      PROVE  CalmInv'
  <2>1. status[e] \in Open /\ (pc[w] # "load" => snap[w] = retryCount[e])
    BY <1>0, <1>1, <1>5 DEF Fits
  <2>2. snap'[w] = retryCount[e] /\ \A v \in Workers \ {w} : snap'[v] = snap[v]
    BY <1>0, <1>5, <2>1 DEF TypeOK
  <2>3. Fits(w)'
    BY <1>4, <1>5, <2>1, <2>2 DEF Fits, Ev
  <2> QED
    BY <1>0, <1>1, <1>2, <1>3, <1>5, <2>1, <2>2, <2>3, Moves
<1>6. CASE Load(w)
  <2>1. status[e] \in Open /\ Exists(e)
    BY <1>0, <1>6 DEF Load, Fits, Exists, Open
  <2>2. snap'[w] = retryCount[e]
    BY <1>0, <1>6, <2>1 DEF Load, TypeOK
  <2> QED
    BY <1>5, <1>6, <2>1, <2>2 DEF Load, Awaits
<1>7. CASE Endpoint(w)
  BY <1>5, <1>7 DEF Endpoint, Calm, Awaits
<1>8. CASE Limit(w)
  BY <1>5, <1>8 DEF Limit, Calm, Awaits
<1>9. CASE Breaker(w)
  BY <1>5, <1>9 DEF Breaker, Calm, Awaits
<1>10. CASE Send(w)
  BY <1>5, <1>10 DEF Send, Success, Calm, Awaits
<1>11. CASE Failed(w)
  BY <1>5, <1>11 DEF Failed, Calm, Awaits
<1>12. CASE Defer(w) \/ RetrySame(w)
  BY <1>0, <1>12 DEF Fits, Defer, RetrySame
<1>13. CASE Filter(w) \/ RateLimited(w)
  <2>1. status[e] \in Open
    BY <1>0, <1>13 DEF Fits, Filter, RateLimited
  <2>2. PICK s \in Terminal : SetStatus(e, s)
    BY <1>13 DEF Filter, RateLimited, Terminal
  <2>3. /\ retryCount' = retryCount /\ status'[e] \in Terminal
        /\ \A f \in Events \ {e} : status'[f] = status[f]
    BY <1>0, <1>2, <2>1, <2>2, Sets DEF SetStatus
  <2> QED
    BY <1>0, <1>1, <1>13, <2>3, Closes DEF Filter, RateLimited
<1>14. CASE Recorded(w) \/ AddDlq(w)
  <2>1. status[e] \in Terminal
    BY <1>0, <1>14 DEF Fits, Recorded, AddDlq
  <2> QED
    BY <1>0, <1>1, <1>14, <2>1, Closes DEF Recorded, AddDlq, Calm
<1>15. CASE RateQueue(w) \/ Delivered(w)
  <2>1. status[e] \in Open /\ snap[w] = retryCount[e]
    BY <1>0, <1>15 DEF Fits, RateQueue, Delivered
  <2>2. PICK s, p : /\ SetStatus(e, s) /\ Go(w, p)
                    /\ \/ s = "RATE_QUEUED" /\ p = "drip"
                       \/ s = "DELIVERED" /\ p = "recorded"
    BY <1>15 DEF RateQueue, Delivered
  <2>3. /\ retryCount' = retryCount /\ status'[e] = s
        /\ \A f \in Events \ {e} : status'[f] = status[f]
    BY <1>0, <1>2, <2>1, <2>2, Sets DEF SetStatus
  <2>4. UNCHANGED <<queue, adds, picked, expired, job, snap>>
    BY <1>15 DEF RateQueue, Delivered
  <2>5. s \in Open \cup Terminal /\ p \in Awaits \ {"finish"}
    BY <2>2 DEF Open, Terminal, Awaits
  <2>6. Fits(w)'
    BY <1>4, <2>1, <2>2, <2>3, <2>4, <2>5 DEF Fits, Ev, Open, Terminal
  <2> QED
    BY <1>0, <1>1, <1>2, <1>3, <2>1, <2>2, <2>3, <2>4, <2>5, <2>6, Moves
<1>16. CASE Verdict(w)
  <2>1. status[e] \in Open /\ snap[w] = retryCount[e] /\ retryCount[e] + 1 \in Nat
    BY <1>0, <1>2, <1>16 DEF Fits, Verdict
  <2>2. PICK s, p : /\ Write(e, s, retryCount[e] + 1, "failed") /\ Go(w, p)
                    /\ \/ s = "DEAD" /\ p = "dlq"
                       \/ s = "RETRYING" /\ p = "retryNext" /\ retryCount[e] + 1 < MaxRetries
    BY <1>2, <1>16, <2>1 DEF Verdict, Tries
  <2>3. /\ retryCount'[e] = retryCount[e] + 1 /\ status'[e] = s
        /\ \A f \in Events \ {e} : status'[f] = status[f] /\ retryCount'[f] = retryCount[f]
    BY <1>0, <1>2, <2>1, <2>2, Sets
  <2>4. UNCHANGED <<queue, adds, picked, expired, job, snap>>
    BY <1>16 DEF Verdict
  <2>5. s \in Open \cup Terminal /\ p \in Awaits \ {"finish"} /\ retryCount[e] <= retryCount'[e]
    BY <1>2, <2>2, <2>3 DEF Open, Terminal, Awaits
  <2>6. \A j \in RetryJobs : j.ev = e /\ j.n = snap[w] + 1 => queue[j] = "absent"
    BY <1>2, <2>1 DEF CalmInv, NextIsFresh
  <2>7. Fits(w)'
    BY <1>4, <2>1, <2>2, <2>3, <2>4, <2>5, <2>6 DEF Fits, Ev, Open, Terminal
  <2>8. status'[e] \in Open => retryCount'[e] < MaxRetries
    BY <2>2, <2>3 DEF Open
  <2> QED
    BY <1>0, <1>1, <1>2, <2>2, <2>3, <2>4, <2>5, <2>7, <2>8, Moves
<1>17. CASE Drip(w)
  <2>1. status[e] \in Open
    BY <1>0, <1>17 DEF Fits, Drip
  <2>2. PICK n \in 1..Stamps :
          /\ queue[[kind |-> "drip", ev |-> e, n |-> n]] = "absent"
          /\ queue' = [queue EXCEPT ![[kind |-> "drip", ev |-> e, n |-> n]] = "waiting"]
    BY <1>17 DEF Drip, AddStamped
  <2> DEFINE drip == [kind |-> "drip", ev |-> e, n |-> n]
  <2>3. drip \in StampedJobs /\ drip.kind = "drip" /\ drip.ev = e
    BY <1>2 DEF StampedJobs
  <2>4. \A j \in RetryJobs : j.kind = "retry"
    BY DEF RetryJobs
  <2>5. PICK j \in Jobs : j = drip /\ j.ev = e /\ j \notin RetryJobs
    BY <2>3, <2>4 DEF Jobs
  <2>6. queue[j] = "absent" /\ queue' = [queue EXCEPT ![j] = "waiting"]
    BY <2>2, <2>5
  <2>7. Go(w, "finish") /\ UNCHANGED <<status, retryCount, adds, picked, expired, job, snap>>
    BY <1>17 DEF Drip
  <2> QED
    BY <1>0, <1>1, <2>1, <2>5, <2>6, <2>7, Requeues
<1>18. CASE RetryNext(w)
  <2>1. /\ status[e] \in Open /\ snap[w] + 1 = retryCount[e]
        /\ \A j \in RetryJobs : j.ev = e /\ j.n = snap[w] + 1 => queue[j] = "absent"
    BY <1>0, <1>18 DEF Fits, RetryNext
  <2>2. snap[w] + 1 \in 0..(RetrySlots - 1) /\ snap[w] + 1 < RetrySlots
    BY <1>2, <1>3, <2>1 DEF Calm
  <2> DEFINE retry == [kind |-> "retry", ev |-> e, n |-> snap[w] + 1]
  <2>3. retry \in RetryJobs /\ retry.ev = e /\ retry.n = snap[w] + 1
    BY <1>2, <2>2 DEF RetryJobs
  <2>4. PICK j \in Jobs : j = retry /\ j \in RetryJobs /\ j.ev = e /\ j.n = snap[w] + 1
    BY <2>3 DEF Jobs
  <2>5. queue[j] = "absent" /\ queue' = [queue EXCEPT ![j] = "waiting"]
    <3>1. queue[retry] = "absent"
      BY <2>1, <2>3
    <3> QED
      BY <1>18, <2>2, <2>4, <3>1 DEF RetryNext, ScheduleRetry, Tries
  <2>6. Go(w, "finish") /\ UNCHANGED <<status, retryCount, adds, picked, expired, job, snap>>
    BY <1>18 DEF RetryNext
  <2>7. j.n <= retryCount[e]
    BY <1>2, <2>1, <2>4
  <2> QED
    BY <1>0, <1>1, <2>1, <2>4, <2>5, <2>6, <2>7, Requeues
<1> QED
  BY <1>6, <1>7, <1>8, <1>9, <1>10, <1>11, <1>12, <1>13, <1>14, <1>15, <1>16, <1>17, <1>18
     DEF Deliver

\* A worker ends its job: nobody else had it, and its event needs it no more.
LEMMA CalmFinish ==
  ASSUME CalmInv, NEW w \in Workers, Finish(w)
  PROVE  CalmInv'
<1> USE DEF At, NoDocs, Others, docs, bull, crons, history
<1>1. TypeOK /\ TypeOK' /\ pc[w] = "finish" /\ job[w] \in Jobs
  BY DeliverType, WorkerEvent DEF CalmInv, Finish, Deliver
<1>2. PICK j \in Jobs : j = job[w] /\ queue[j] = "active"
  BY <1>1 DEF CalmInv, Manned
<1>3. /\ queue'[j] \in {"kept", "absent"} /\ \A i \in Jobs \ {j} : queue'[i] = queue[i]
      /\ j.kind # "retry" => queue'[j] = "absent"
  BY <1>1, <1>2 DEF Finish, End, TypeOK
<1>4. pc'[w] = "idle" /\ job'[w] = NoJob
  BY <1>1 DEF Finish, Go, TypeOK
<1>5. \A v \in Workers \ {w} : pc'[v] = pc[v] /\ job'[v] = job[v] /\ snap'[v] = snap[v]
  BY <1>1 DEF Finish, Go, TypeOK
<1>6. UNCHANGED <<status, retryCount, adds, picked, expired>>
  BY DEF Finish
<1>7. \A f : \A v \in Workers : Works(v, f)' <=> Works(v, f)
  BY <1>1, <1>4, <1>5 DEF Works, Ev
<1>8. \A f : (Adding(f)' <=> Adding(f)) /\ \A i \in Jobs : Waits(i, f)' <=> Waits(i, f)
  BY <1>2, <1>3, <1>6 DEF Adding, Waits
<1>9. Quiet'
  BY <1>6 DEF CalmInv, Quiet
<1>10. Manned'
  <2>1. ASSUME NEW i \in Jobs, queue'[i] = "active"
        PROVE  \E v \in Workers : pc'[v] # "idle" /\ job'[v] = i
    <3>1. i # j /\ queue[i] = "active"
      BY <1>3, <2>1
    <3>2. PICK v \in Workers : pc[v] # "idle" /\ job[v] = i
      BY <3>1 DEF CalmInv, Manned
    <3> QED
      BY <1>2, <1>5, <3>1, <3>2
  <2>2. ASSUME NEW v \in Workers \ {w}
        PROVE  IF pc'[v] = "idle" THEN job'[v] = NoJob ELSE queue'[job'[v]] = "active"
    <3>1. CASE pc[v] = "idle"
      BY <1>5, <3>1 DEF CalmInv, Manned
    <3>2. CASE pc[v] # "idle"
      <4>1. job[v] \in Jobs \ {j} /\ queue[job[v]] = "active"
        BY <1>1, <1>2, <3>2, WorkerEvent DEF CalmInv, Manned
      <4> QED
        BY <1>3, <1>5, <3>2, <4>1
    <3> QED
      BY <3>1, <3>2
  <2>3. ASSUME NEW u \in Workers, NEW v \in Workers, pc'[v] # "idle", job'[u] = job'[v]
        PROVE  u = v
    <3>1. v # w /\ job'[v] = job[v] /\ job[v] \in Jobs /\ pc[v] # "idle"
      BY <1>1, <1>4, <1>5, <2>3, WorkerEvent
    <3>2. u # w
      BY <1>4, <2>3, <3>1, JobEvent
    <3> QED
      BY <1>5, <2>3, <3>1, <3>2 DEF CalmInv, Manned
  <2> QED
    BY <1>4, <2>1, <2>2, <2>3 DEF Manned
<1>11. OneCarrier'
  BY <1>6, <1>7, <1>8 DEF CalmInv, OneCarrier
<1>12. OpenIsHeld'
  BY <1>6, <1>7, <1>8 DEF CalmInv, OpenIsHeld, Held
<1>13. NextIsFresh'
  <2>1. \A i \in RetryJobs : i \in Jobs
    BY DEF Jobs
  <2> QED
    BY <1>2, <1>3, <1>6, <2>1 DEF CalmInv, NextIsFresh
<1>14. ASSUME NEW v \in Workers
       PROVE  Fits(v)'
  <2>1. CASE v = w
    BY <1>4, <2>1 DEF Fits
  <2>2. CASE v # w
    <3>1. Fits(v) /\ pc'[v] = pc[v] /\ snap'[v] = snap[v] /\ Ev(v)' = Ev(v)
      BY <1>5, <2>2 DEF CalmInv, Ev
    <3>2. \A i \in RetryJobs : queue[i] = "absent" => queue'[i] = "absent"
      BY <1>2, <1>3 DEF Jobs
    <3> QED
      BY <1>6, <3>1, <3>2 DEF Fits
  <2> QED
    BY <2>1, <2>2
<1> QED
  BY <1>1, <1>9, <1>10, <1>11, <1>12, <1>13, <1>14 DEF CalmInv

\* A worker takes a job that waits: it carries the event in its place.
LEMMA CalmTake ==
  ASSUME CalmInv, NEW w \in Workers, Take(w)
  PROVE  CalmInv'
<1> USE DEF At, NoDocs, Others, docs, bull, crons, history
<1>1. TypeOK /\ TypeOK' /\ pc[w] = "idle"
  BY ServiceType DEF CalmInv, Take
<1>2. PICK j \in Jobs : /\ queue[j] = "waiting" /\ queue' = [queue EXCEPT ![j] = "active"]
                        /\ job' = [job EXCEPT ![w] = j]
  BY DEF Take
<1>3. queue'[j] = "active" /\ \A i \in Jobs \ {j} : queue'[i] = queue[i]
  BY <1>1, <1>2 DEF TypeOK
<1>4. pc'[w] = "load" /\ job'[w] = j
  BY <1>1, <1>2 DEF Take, Go, TypeOK
<1>5. \A v \in Workers \ {w} : pc'[v] = pc[v] /\ job'[v] = job[v] /\ snap'[v] = snap[v]
  BY <1>1, <1>2 DEF Take, Go, TypeOK
<1>6. UNCHANGED <<status, retryCount, adds, picked, expired>>
  BY DEF Take
<1>7. \A f : \A v \in Workers : Works(v, f)' <=> (Works(v, f) \/ (v = w /\ f = j.ev))
  BY <1>1, <1>4, <1>5 DEF Works, Ev
<1>8. \A f : (Adding(f)' <=> Adding(f)) /\ \A i \in Jobs : Waits(i, f)' <=> (Waits(i, f) /\ i # j)
  BY <1>3, <1>6 DEF Adding, Waits
<1>9. Waits(j, j.ev) /\ j.ev \in Events
  BY <1>2, JobEvent DEF Waits
<1>10. Quiet'
  BY <1>6 DEF CalmInv, Quiet
<1>11. Manned'
  <2>1. ASSUME NEW i \in Jobs, queue'[i] = "active"
        PROVE  \E v \in Workers : pc'[v] # "idle" /\ job'[v] = i
    <3>1. CASE i = j
      BY <1>4, <3>1
    <3>2. CASE i # j
      <4>1. PICK v \in Workers : pc[v] # "idle" /\ job[v] = i
        BY <1>3, <2>1, <3>2 DEF CalmInv, Manned
      <4> QED
        BY <1>1, <1>5, <4>1
    <3> QED
      BY <3>1, <3>2
  <2>2. ASSUME NEW v \in Workers \ {w}
        PROVE  /\ IF pc'[v] = "idle" THEN job'[v] = NoJob ELSE queue'[job'[v]] = "active"
               /\ job'[v] # j
    <3>1. CASE pc[v] = "idle"
      BY <1>2, <1>5, <3>1, JobEvent DEF CalmInv, Manned
    <3>2. CASE pc[v] # "idle"
      <4>1. job[v] \in Jobs /\ queue[job[v]] = "active"
        BY <1>1, <3>2, WorkerEvent DEF CalmInv, Manned
      <4>2. job[v] # j
        BY <1>2, <4>1
      <4> QED
        BY <1>3, <1>5, <3>2, <4>1, <4>2
    <3> QED
      BY <3>1, <3>2
  <2>3. ASSUME NEW u \in Workers, NEW v \in Workers, pc'[v] # "idle", job'[u] = job'[v]
        PROVE  u = v
    <3>1. CASE v = w
      BY <1>4, <2>2, <2>3, <3>1
    <3>2. CASE v # w
      <4>1. u # w
        BY <1>4, <2>2, <2>3, <3>2
      <4> QED
        BY <1>5, <2>3, <3>2, <4>1 DEF CalmInv, Manned
    <3> QED
      BY <3>1, <3>2
  <2>4. IF pc'[w] = "idle" THEN job'[w] = NoJob ELSE queue'[job'[w]] = "active"
    BY <1>3, <1>4
  <2> QED
    BY <2>1, <2>2, <2>3, <2>4 DEF Manned
<1>12. OneCarrier'
  <2> SUFFICES ASSUME NEW f \in Events
        PROVE  /\ Adding(f)' => /\ status[f] \in Open /\ \A v \in Workers : ~Works(v, f)'
                                /\ \A i \in Jobs : ~Waits(i, f)'
               /\ \A k \in Jobs : Waits(k, f)' =>
                     /\ status[f] \in Open /\ \A v \in Workers : ~Works(v, f)'
                     /\ \A i \in Jobs : Waits(i, f)' => i = k
               /\ \A u, v \in Workers : Works(u, f)' /\ Works(v, f)' => u = v
    BY <1>6 DEF OneCarrier
  <2>1. CASE f = j.ev
    <3>1. ~Adding(f) /\ (\A v \in Workers : ~Works(v, f)) /\ \A i \in Jobs : Waits(i, f) => i = j
      BY <1>9, <2>1 DEF CalmInv, OneCarrier
    <3> QED
      BY <1>7, <1>8, <3>1
  <2>2. CASE f # j.ev
    BY <1>7, <1>8, <2>2 DEF CalmInv, OneCarrier
  <2> QED
    BY <2>1, <2>2
<1>13. OpenIsHeld'
  <2> SUFFICES ASSUME NEW f \in Events, status[f] \in Open
               PROVE  Held(f)'
    BY <1>6 DEF OpenIsHeld
  <2>1. CASE f = j.ev
    BY <1>7, <2>1 DEF Held
  <2>2. CASE f # j.ev
    <3>1. Held(f) /\ ~Waits(j, f)
      BY <2>2 DEF CalmInv, OpenIsHeld, Waits
    <3> QED
      BY <1>7, <1>8, <3>1 DEF Held
  <2> QED
    BY <2>1, <2>2
<1>14. NextIsFresh'
  <2>1. \A i \in RetryJobs : i \in Jobs
    BY DEF Jobs
  <2> QED
    BY <1>2, <1>3, <1>6, <2>1 DEF CalmInv, NextIsFresh
<1>15. ASSUME NEW v \in Workers
       PROVE  Fits(v)'
  <2>1. CASE v = w
    <3>1. status[j.ev] \in Open
      BY <1>9 DEF CalmInv, OneCarrier
    <3> QED
      BY <1>4, <1>6, <2>1, <3>1 DEF Fits, Ev
  <2>2. CASE v # w
    <3>1. Fits(v) /\ pc'[v] = pc[v] /\ snap'[v] = snap[v] /\ Ev(v)' = Ev(v)
      BY <1>5, <2>2 DEF CalmInv, Ev
    <3>2. \A i \in RetryJobs : queue[i] = "absent" => queue'[i] = "absent"
      BY <1>2, <1>3 DEF Jobs
    <3> QED
      BY <1>6, <3>1, <3>2 DEF Fits
  <2> QED
    BY <2>1, <2>2
<1> QED
  BY <1>1, <1>10, <1>11, <1>12, <1>13, <1>14, <1>15 DEF CalmInv

\* Bull forgets a finished job.
LEMMA CalmEvict ==
  ASSUME CalmInv, NEW j \in Jobs, Evict(j)
  PROVE  CalmInv'
<1> USE DEF KeepJob, NoDocs, Others, docs, bull, crons, history
<1>1. TypeOK /\ TypeOK'
  BY ServiceType DEF CalmInv
<1>2. queue[j] = "kept" /\ queue'[j] = "absent" /\ \A i \in Jobs \ {j} : queue'[i] = queue[i]
  BY <1>1 DEF Evict, TypeOK
<1>3. UNCHANGED <<status, retryCount, adds, picked, expired, pc, job, snap>>
  BY DEF Evict
<1>4. \A f : \A v \in Workers : Works(v, f)' <=> Works(v, f)
  BY <1>3 DEF Works, Ev
<1>5. \A f : (Adding(f)' <=> Adding(f)) /\ \A i \in Jobs : Waits(i, f)' <=> Waits(i, f)
  BY <1>2, <1>3 DEF Adding, Waits
<1>6. Quiet'
  BY <1>3 DEF CalmInv, Quiet
<1>7. Manned'
  <2>1. \A i \in Jobs : queue'[i] = "active" <=> queue[i] = "active"
    BY <1>2
  <2>2. \A v \in Workers : pc[v] # "idle" => job[v] \in Jobs
    BY <1>1, WorkerEvent
  <2> QED
    BY <1>3, <2>1, <2>2 DEF CalmInv, Manned
<1>8. OneCarrier'
  BY <1>3, <1>4, <1>5 DEF CalmInv, OneCarrier
<1>9. OpenIsHeld'
  BY <1>3, <1>4, <1>5 DEF CalmInv, OpenIsHeld, Held
<1>10. NextIsFresh'
  <2>1. \A i \in RetryJobs : i \in Jobs
    BY DEF Jobs
  <2> QED
    BY <1>2, <1>3, <2>1 DEF CalmInv, NextIsFresh
<1>11. ASSUME NEW v \in Workers
       PROVE  Fits(v)'
  <2>1. \A i \in RetryJobs : queue[i] = "absent" => queue'[i] = "absent"
    BY <1>2 DEF Jobs
  <2>2. Fits(v) /\ Ev(v)' = Ev(v)
    BY <1>3 DEF CalmInv, Ev
  <2> QED
    BY <1>3, <2>1, <2>2 DEF Fits
<1> QED
  BY <1>1, <1>6, <1>7, <1>8, <1>9, <1>10, <1>11 DEF CalmInv

\* An event comes in: the call that created it will add its job.
LEMMA CalmCreate ==
  ASSUME CalmInv, NEW e \in Events, Create(e)
  PROVE  CalmInv'
<1> USE DEF API, docs, bull, crons, history
<1>1. TypeOK /\ TypeOK'
  BY ServiceType DEF CalmInv
<1>2. /\ status[e] = "none" /\ status'[e] = "PENDING"
      /\ \A f \in Events \ {e} : status'[f] = status[f]
  BY <1>1 DEF Create, TypeOK
<1>3. UNCHANGED <<queue, retryCount, picked, expired, pc, job, snap>>
  BY DEF Create
<1>4. PICK r : r = [kind |-> "first", ev |-> e] /\ r.kind = "first" /\ r.ev = e
  <2> DEFINE f == [kind |-> "first", ev |-> e]
  <2>1. f.kind = "first" /\ f.ev = e
    OBVIOUS
  <2> QED
    BY <2>1
<1>5. adds' = adds \cup {r}
  BY <1>4 DEF Create
<1>6. \A f : Adding(f)' <=> (Adding(f) \/ f = e)
  BY <1>4, <1>5 DEF Adding
<1>7. \A f : /\ \A v \in Workers : Works(v, f)' <=> Works(v, f)
             /\ \A i \in Jobs : Waits(i, f)' <=> Waits(i, f)
  BY <1>3 DEF Works, Ev, Waits
<1>8. (\A v \in Workers : ~Works(v, e)) /\ \A i \in Jobs : ~Waits(i, e)
  <2>1. \A v \in Workers : ~Works(v, e)
    BY <1>2 DEF CalmInv, Fits, Works, Open, Terminal
  <2>2. \A i \in Jobs : ~Waits(i, e)
    BY <1>2 DEF CalmInv, OneCarrier, Open
  <2> QED
    BY <2>1, <2>2
<1>9. Quiet'
  BY <1>2, <1>3, <1>4, <1>5 DEF CalmInv, Quiet
<1>10. Manned'
  BY <1>3 DEF CalmInv, Manned
<1>11. OneCarrier'
  <2> SUFFICES ASSUME NEW f \in Events
        PROVE  /\ Adding(f)' => /\ status'[f] \in Open /\ \A v \in Workers : ~Works(v, f)'
                                /\ \A i \in Jobs : ~Waits(i, f)'
               /\ \A k \in Jobs : Waits(k, f)' =>
                     /\ status'[f] \in Open /\ \A v \in Workers : ~Works(v, f)'
                     /\ \A i \in Jobs : Waits(i, f)' => i = k
               /\ \A u, v \in Workers : Works(u, f)' /\ Works(v, f)' => u = v
    BY DEF OneCarrier, Open
  <2>1. CASE f = e
    BY <1>2, <1>7, <1>8, <2>1 DEF Open
  <2>2. CASE f # e
    BY <1>2, <1>6, <1>7, <2>2 DEF CalmInv, OneCarrier
  <2> QED
    BY <2>1, <2>2
<1>12. OpenIsHeld'
  BY <1>2, <1>6, <1>7 DEF CalmInv, OpenIsHeld, Held
<1>13. NextIsFresh'
  BY <1>2, <1>3 DEF CalmInv, NextIsFresh, Open
<1>14. ASSUME NEW v \in Workers
       PROVE  Fits(v)'
  <2>1. Fits(v) /\ Ev(v)' = Ev(v)
    BY <1>3 DEF CalmInv, Ev
  <2>2. CASE pc[v] \in {"idle", "finish"}
    BY <1>3, <2>2 DEF Fits
  <2>3. CASE pc[v] \notin {"idle", "finish"}
    <3>1. Ev(v) \in Events \ {e}
      BY <1>1, <1>8, <2>3, WorkerEvent DEF Works
    <3> QED
      BY <1>2, <1>3, <2>1, <3>1 DEF Fits
  <2> QED
    BY <2>2, <2>3
<1> QED
  BY <1>1, <1>9, <1>10, <1>11, <1>12, <1>13, <1>14 DEF CalmInv

\* The call adds the event's first job.
LEMMA CalmEnqueue ==
  ASSUME CalmInv, NEW a \in adds, Enqueue(a)
  PROVE  CalmInv'
<1> USE DEF NoDocs, docs, bull, crons, history
<1>1. TypeOK /\ TypeOK' /\ a.kind = "first" /\ a.ev \in Events
  BY ServiceType DEF CalmInv, Quiet, TypeOK
<1>2. PICK n \in 1..Stamps :
        /\ queue[[kind |-> "first", ev |-> a.ev, n |-> n]] = "absent"
        /\ queue' = [queue EXCEPT ![[kind |-> "first", ev |-> a.ev, n |-> n]] = "waiting"]
  BY <1>1 DEF Enqueue, AddStamped
<1> DEFINE first == [kind |-> "first", ev |-> a.ev, n |-> n]
<1>3. first \in StampedJobs /\ first.kind = "first" /\ first.ev = a.ev
  BY <1>1 DEF StampedJobs, AddKinds
<1>4. PICK j \in Jobs : j = first /\ j.ev = a.ev /\ j \notin RetryJobs
  BY <1>3 DEF Jobs, RetryJobs
<1>5. queue[j] = "absent" /\ queue'[j] = "waiting" /\ \A i \in Jobs \ {j} : queue'[i] = queue[i]
  BY <1>1, <1>2, <1>4 DEF TypeOK
<1>6. UNCHANGED <<status, retryCount, picked, expired, pc, job, snap>> /\ adds' = adds \ {a}
  BY DEF Enqueue
<1>7. \A b \in adds : b.ev = a.ev => b = a
  BY <1>1 DEF CalmInv, Quiet, TypeOK
<1>8. \A f : Adding(f)' <=> (Adding(f) /\ f # a.ev)
  BY <1>6, <1>7 DEF Adding
<1>9. \A f : /\ \A v \in Workers : Works(v, f)' <=> Works(v, f)
             /\ \A i \in Jobs : Waits(i, f)' <=> (Waits(i, f) \/ (i = j /\ f = a.ev))
  BY <1>4, <1>5, <1>6 DEF Works, Ev, Waits
<1>10. /\ status[a.ev] \in Open /\ (\A v \in Workers : ~Works(v, a.ev))
       /\ \A i \in Jobs : ~Waits(i, a.ev)
  BY <1>1 DEF CalmInv, OneCarrier, Adding
<1>11. Quiet'
  BY <1>6 DEF CalmInv, Quiet
<1>12. Manned'
  <2>1. \A i \in Jobs : queue'[i] = "active" <=> queue[i] = "active"
    BY <1>5
  <2>2. \A v \in Workers : pc[v] # "idle" => job[v] \in Jobs
    BY <1>1, WorkerEvent
  <2> QED
    BY <1>6, <2>1, <2>2 DEF CalmInv, Manned
<1>13. OneCarrier'
  <2> SUFFICES ASSUME NEW f \in Events
        PROVE  /\ Adding(f)' => /\ status[f] \in Open /\ \A v \in Workers : ~Works(v, f)'
                                /\ \A i \in Jobs : ~Waits(i, f)'
               /\ \A k \in Jobs : Waits(k, f)' =>
                     /\ status[f] \in Open /\ \A v \in Workers : ~Works(v, f)'
                     /\ \A i \in Jobs : Waits(i, f)' => i = k
               /\ \A u, v \in Workers : Works(u, f)' /\ Works(v, f)' => u = v
    BY <1>6 DEF OneCarrier
  <2>1. CASE f = a.ev
    BY <1>8, <1>9, <1>10, <2>1
  <2>2. CASE f # a.ev
    BY <1>8, <1>9, <2>2 DEF CalmInv, OneCarrier
  <2> QED
    BY <2>1, <2>2
<1>14. OpenIsHeld'
  BY <1>6, <1>8, <1>9 DEF CalmInv, OpenIsHeld, Held
<1>15. NextIsFresh'
  <2>1. \A i \in RetryJobs : i \in Jobs \ {j}
    BY <1>4 DEF Jobs
  <2> QED
    BY <1>5, <1>6, <2>1 DEF CalmInv, NextIsFresh
<1>16. ASSUME NEW v \in Workers
       PROVE  Fits(v)'
  <2>1. \A i \in RetryJobs : queue'[i] = queue[i]
    BY <1>4, <1>5 DEF Jobs
  <2>2. Fits(v) /\ Ev(v)' = Ev(v)
    BY <1>6 DEF CalmInv, Ev
  <2> QED
    BY <1>6, <2>1, <2>2 DEF Fits
<1> QED
  BY <1>1, <1>11, <1>12, <1>13, <1>14, <1>15, <1>16 DEF CalmInv

\* In a calm environment these are the steps there are.
CalmNext ==
  \/ \E w \in Workers : Take(w) \/ Deliver(w)
  \/ \E j \in Jobs : Evict(j)
  \/ \E a \in adds : Enqueue(a)
  \/ \E e \in Events : Create(e)

LEMMA NothingElse ==
  ASSUME Calm, CalmInv, Next
  PROVE  CalmNext
<1>1. \A w \in Workers : ~Crash(w)
  BY DEF Calm, Crash, Disturb
<1>2. \A j \in Jobs : ~Stalled(j)
  BY DEF CalmInv, Manned, Stalled
<1>3. \A a \in adds : ~ApiCrash(a)
  BY DEF Calm, ApiCrash, Disturb
<1>4. \A e \in Events : /\ ~Replay(e) /\ ~CronFind(e) /\ ~CronAdd(e)
                        /\ ~ExpireFind(e) /\ ~ExpireWrite(e) /\ ~Delete(e)
  BY DEF Calm, CalmInv, Quiet, Disturb, Replay, CronFind, CronAdd, ExpireFind, ExpireWrite, Delete
<1> QED
  BY <1>1, <1>2, <1>3, <1>4 DEF Next, CalmNext

LEMMA CalmInduction ==
  ASSUME Calm, CalmInv, [Next]_vars
  PROVE  CalmInv'
<1>1. CASE UNCHANGED vars
  <2>1. UNCHANGED <<status, retryCount, lastError, queue, stalls, pc, job, snap, adds, picked,
                    expired, dlq, accepted, failures, faults>>
    BY <1>1 DEF vars, docs, bull, crons, history
  <2> QED
    BY <2>1 DEF CalmInv, TypeOK, Quiet, Manned, OneCarrier, OpenIsHeld, Held, NextIsFresh, Fits,
                Adding, Waits, Works, Ev
<1>2. CASE Next
  BY <1>2, NothingElse, CalmTake, CalmDeliver, CalmFinish, CalmEvict, CalmEnqueue, CalmCreate
     DEF CalmNext
<1> QED
  BY <1>1, <1>2

LEMMA CalmStart ==
  ASSUME Init
  PROVE  CalmInv
<1>1. TypeOK
  BY BudgetAssumption DEF Init, TypeOK, Statuses
<1>2. Quiet /\ OneCarrier /\ OpenIsHeld
  BY <1>1 DEF Init, Quiet, OneCarrier, OpenIsHeld, Held, Adding, Waits, Works, Open
<1>3. Manned
  BY JobEvent DEF Init, Manned
<1>4. NextIsFresh
  BY BudgetAssumption DEF Init, NextIsFresh, Jobs, Open
<1>5. \A w \in Workers : Fits(w)
  BY DEF Init, Fits
<1> QED
  BY <1>1, <1>2, <1>3, <1>4, <1>5 DEF CalmInv

LEMMA CalmHolds ==
  ASSUME Calm
  PROVE  Safe => []CalmInv
<1>1. Init => CalmInv
  BY CalmStart
<1>2. CalmInv /\ [Next]_vars => CalmInv'
  BY CalmInduction
<1> QED
  BY <1>1, <1>2, PTL DEF Safe

\* Left alone, no event is left half-way with nothing that will ever work on it:
\* each open event has its one carrier, from send() to the last await of deliver().
THEOREM NeverOrphaned ==
  ASSUME Calm
  PROVE  Safe => []NoOrphan
<1>1. CalmInv => NoOrphan
  <2> SUFFICES ASSUME CalmInv, NEW e \in Events, Exists(e), status[e] \notin Terminal
               PROVE  Carried(e)
    BY DEF NoOrphan
  <2>1. status[e] \in Open
    BY DEF CalmInv, TypeOK, Statuses, Exists, Open, Terminal
  <2>2. Held(e)
    BY <2>1 DEF CalmInv, OpenIsHeld
  <2> QED
    BY <2>2 DEF Held, Adding, Waits, Works, Carried
<1> QED
  BY <1>1, CalmHolds, PTL

\* Left alone, an event that has reached a terminal status is not sent again,
\* although deliver() looks at the status of no event it loads.
THEOREM NotSentAgain ==
  ASSUME Calm
  PROVE  Safe => SentWhileOpen
<1>1. CalmInv => [\A w \in Workers : At(w, "send") /\ pc'[w] \in {"delivered", "failed"}
                                       => status[Ev(w)] \notin Terminal]_vars
  BY DEF CalmInv, Fits, At, Open, Terminal
<1> QED
  BY <1>1, CalmHolds, PTL DEF SentWhileOpen

\* What EventLifecycle sees of the statuses.
Phases == [e \in Events |-> Phase(status[e])]

LEMMA PhaseOf ==
  /\ Phase("none") = "none" /\ Phase("DELIVERED") = "delivered" /\ Phase("DEAD") = "dead"
  /\ Phase("FILTERED") = "discarded" /\ Phase("RATE_LIMITED") = "discarded"
  /\ \A s \in Open : Phase(s) = "open"
BY DEF Phase, Open

LEMMA PhaseSet ==
  ASSUME TypeOK, NEW e \in Events, NEW s, status' = [status EXCEPT ![e] = s]
  PROVE  Phases' = [Phases EXCEPT ![e] = Phase(s)]
BY DEF TypeOK, Phases

LEMMA LifecycleStart ==
  ASSUME Init
  PROVE  Lifecycle!Init
BY PhaseOf DEF Init, Lifecycle!Init

\* A step that writes an open event to a status and a count is one of EventLifecycle's.
LEMMA LifecycleWrite ==
  ASSUME CalmInv, NEW e \in Events, status[e] \in Open, NEW s, NEW n, NEW err, Write(e, s, n, err),
         \/ s \in Open /\ n = retryCount[e]
         \/ s \in {"DELIVERED", "FILTERED", "RATE_LIMITED"} /\ n = retryCount[e]
         \/ s = "RETRYING" /\ n = retryCount[e] + 1 /\ n < MaxRetries
         \/ s = "DEAD" /\ n = retryCount[e] + 1 /\ n = MaxRetries
  PROVE  [Lifecycle!Next]_Lifecycle!vars
<1>1. TypeOK /\ Phases[e] = "open"
  BY PhaseOf DEF CalmInv, Phases
<1>2. /\ Phases' = [Phases EXCEPT ![e] = Phase(s)] /\ retryCount' = [retryCount EXCEPT ![e] = n]
      /\ n = retryCount[e] => retryCount' = retryCount
  BY <1>1, Sets, PhaseSet
<1>3. CASE s \in Open /\ n = retryCount[e]
  <2>1. Phases' = Phases
    BY <1>1, <1>2, <1>3, PhaseOf DEF Phases
  <2> QED
    BY <1>2, <1>3, <2>1 DEF Lifecycle!vars, Phases
<1>4. CASE s \in {"DELIVERED", "FILTERED", "RATE_LIMITED"} /\ n = retryCount[e]
  <2>1. Phase(s) \in {"delivered", "discarded"}
    BY <1>4, PhaseOf
  <2>2. Lifecycle!Leave(e)
    BY <1>1, <1>2, <1>4, <2>1 DEF Lifecycle!Leave, Lifecycle!Settle, Phases
  <2> QED
    BY <2>2 DEF Lifecycle!Next, Lifecycle!Work
<1>5. CASE s = "RETRYING" /\ n = retryCount[e] + 1 /\ n < MaxRetries
  <2>1. Phases' = Phases
    BY <1>1, <1>2, <1>5, PhaseOf DEF Phases, Open
  <2>2. Lifecycle!Fail(e)
    BY <1>1, <1>2, <1>5, <2>1 DEF Lifecycle!Fail, Phases
  <2> QED
    BY <2>2 DEF Lifecycle!Next, Lifecycle!Work
<1>6. CASE s = "DEAD" /\ n = retryCount[e] + 1 /\ n = MaxRetries
  <2>1. Phase(s) = "dead"
    BY <1>6, PhaseOf
  <2>2. Lifecycle!Die(e)
    BY <1>1, <1>2, <1>6, <2>1 DEF Lifecycle!Die, Lifecycle!Settle, Phases
  <2> QED
    BY <2>2 DEF Lifecycle!Next, Lifecycle!Work
<1> QED
  BY <1>3, <1>4, <1>5, <1>6

LEMMA LifecycleDeliver ==
  ASSUME Calm, CalmInv, NEW w \in Workers, Deliver(w)
  PROVE  [Lifecycle!Next]_Lifecycle!vars
<1> USE DEF At, KeepJob, NoDocs, Others, docs, bull, crons, history
<1>1. TypeOK /\ Fits(w)
  BY DEF CalmInv
<1>2. ASSUME UNCHANGED docs
      PROVE  UNCHANGED Lifecycle!vars
  BY <1>2 DEF Lifecycle!vars
<1>3. ASSUME NEW s \in {"FILTERED", "RATE_LIMITED", "RATE_QUEUED", "DELIVERED"},
             SetStatus(Ev(w), s), pc[w] \in {"filter", "rateLimited", "rateQueue", "delivered"}
      PROVE  [Lifecycle!Next]_Lifecycle!vars
  <2>1. Ev(w) \in Events /\ status[Ev(w)] \in Open
    BY <1>1, <1>3, WorkerEvent DEF Fits
  <2>2. s \in Open \/ s \in {"DELIVERED", "FILTERED", "RATE_LIMITED"}
    BY DEF Open
  <2> QED
    BY <1>3, <2>1, <2>2, LifecycleWrite DEF SetStatus
<1>4. CASE Filter(w) \/ RateLimited(w) \/ RateQueue(w) \/ Delivered(w)
  BY <1>3, <1>4 DEF Filter, RateLimited, RateQueue, Delivered
<1>5. CASE Verdict(w)
  <2>1. /\ Ev(w) \in Events /\ status[Ev(w)] \in Open /\ snap[w] = retryCount[Ev(w)]
        /\ retryCount[Ev(w)] \in Nat /\ MaxRetries \in Nat /\ retryCount[Ev(w)] < MaxRetries
    BY <1>1, <1>5, WorkerEvent, BudgetAssumption DEF Verdict, Fits, TypeOK, CalmInv, NextIsFresh
  <2>2. PICK s, n : /\ Write(Ev(w), s, n, "failed") /\ n = retryCount[Ev(w)] + 1
                    /\ \/ s = "RETRYING" /\ n < MaxRetries
                       \/ s = "DEAD" /\ n = MaxRetries
    BY <1>5, <2>1 DEF Verdict, Tries
  <2> QED
    BY <2>1, <2>2, LifecycleWrite
<1>6. CASE Defer(w)
  BY <1>1, <1>6 DEF Defer, Fits
<1>7. CASE \/ Load(w) \/ Endpoint(w) \/ Limit(w) \/ Drip(w) \/ Breaker(w) \/ RetrySame(w)
           \/ Send(w) \/ Recorded(w) \/ Failed(w) \/ AddDlq(w) \/ RetryNext(w) \/ Finish(w)
  BY <1>2, <1>7 DEF Load, Endpoint, Limit, Drip, Breaker, RetrySame, Send, Recorded, Failed,
                    AddDlq, RetryNext, Finish
<1> QED
  BY <1>4, <1>5, <1>6, <1>7 DEF Deliver

\* Left alone, every step of the pipeline is a step of EventLifecycle, or none: a
\* failed try costs one unit of the budget, an event dies exactly when the budget
\* is spent, and a settled event is not touched again.  (That it is settled in the
\* end, the fairness half of LifecycleSpec, is checked by DeliveryCalm.)
THEOREM LifecycleImplemented ==
  ASSUME Calm
  PROVE  Safe => Lifecycle!Init /\ [][Lifecycle!Next]_Lifecycle!vars
<1> USE DEF docs, bull, crons, history
<1>1. Init => Lifecycle!Init
  BY LifecycleStart
<1>2. CalmInv /\ [Next]_vars => [Lifecycle!Next]_Lifecycle!vars
  <2> SUFFICES ASSUME CalmInv, [Next]_vars
               PROVE  [Lifecycle!Next]_Lifecycle!vars
    OBVIOUS
  <2>1. ASSUME UNCHANGED docs
        PROVE  UNCHANGED Lifecycle!vars
    BY <2>1 DEF Lifecycle!vars
  <2>2. CASE UNCHANGED vars
    BY <2>1, <2>2 DEF vars
  <2>3. CASE \E w \in Workers : Deliver(w)
    BY <2>3, LifecycleDeliver
  <2>4. CASE \/ \E w \in Workers : Take(w)
             \/ \E j \in Jobs : Evict(j)
             \/ \E a \in adds : Enqueue(a)
    BY <2>1, <2>4 DEF Take, Evict, Enqueue, NoDocs
  <2>5. ASSUME NEW e \in Events, Create(e)
        PROVE  Lifecycle!Submit(e)
    <3>1. status[e] = "none" /\ Phase("none") = "none" /\ Phase("PENDING") = "open"
      BY <2>5, PhaseOf DEF Create, Open
    <3>2. Phases' = [Phases EXCEPT ![e] = "open"]
      BY <2>5, <3>1, PhaseSet DEF Create, CalmInv
    <3> QED
      BY <2>5, <3>1, <3>2 DEF Create, Lifecycle!Submit, Phases
  <2> QED
    BY <2>2, <2>3, <2>4, <2>5, NothingElse DEF CalmNext, Lifecycle!Next
<1> QED
  BY <1>1, <1>2, CalmHolds, PTL DEF Safe
=============================================================================
