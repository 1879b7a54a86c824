------------------------------- MODULE Months -------------------------------
(***************************************************************************)
(* The monthly counter of one project: requests look at it and count       *)
(* themselves in two steps (WebhooksController.send), and a job sets the   *)
(* counters back whose month is over (RetryWorkerService).                 *)
(***************************************************************************)
EXTENDS Naturals, FiniteSets

CONSTANTS
  Askers,     \* requests served at a time
  Allowance,  \* project.monthlyEventLimit
  LastMonth   \* bound: months

VARIABLES
  month,
  currentMonthEvents, usageResetAt, \* of the project; no month is 0
  asker,     \* per request: step, or the last answer
  thisMonth, \* history: events that passed the limit this month
  jobRan     \* history: has the job run this month?

monthVars == <<month, currentMonthEvents, usageResetAt, asker, thisMonth, jobRan>>

MonthTypeOK ==
  /\ month \in 1..LastMonth /\ currentMonthEvents \in Nat /\ thisMonth \in Nat
  /\ usageResetAt \in 0..LastMonth + 1 /\ jobRan \in BOOLEAN
  /\ asker \in [Askers -> {"idle", "count", "limit reached"}]

\* The schema's defaults; no route sets another date.
MonthInit ==
  /\ month = 1 /\ currentMonthEvents = 0 /\ usageResetAt = 0
  /\ asker = [r \in Askers |-> "idle"] /\ thisMonth = 0 /\ jobRan = FALSE

\* The answers given so far are of the past.
Answered == asker' = [r \in Askers |-> IF asker[r] = "count" THEN "count" ELSE "idle"]

CheckEventLimit(r) ==
  /\ asker[r] # "count"
  /\ IF currentMonthEvents < Allowance
     THEN asker' = [asker EXCEPT ![r] = "count"] /\ thisMonth' = thisMonth + 1
     ELSE asker' = [asker EXCEPT ![r] = "limit reached"] /\ UNCHANGED thisMonth
  /\ UNCHANGED <<month, currentMonthEvents, usageResetAt, jobRan>>

IncrementEventCount(r) ==
  /\ asker[r] = "count" /\ asker' = [asker EXCEPT ![r] = "idle"]
  /\ currentMonthEvents' = currentMonthEvents + 1
  /\ UNCHANGED <<month, usageResetAt, thisMonth, jobRan>>

\* Every midnight.  $lte compares dates with dates: a null is not among them.
ResetMonthlyCounters ==
  /\ IF usageResetAt # 0 /\ usageResetAt <= month
     THEN currentMonthEvents' = 0 /\ usageResetAt' = month + 1
     ELSE UNCHANGED <<currentMonthEvents, usageResetAt>>
  /\ jobRan' = TRUE /\ Answered
  /\ UNCHANGED <<month, thisMonth>>

NextMonth ==
  /\ month < LastMonth /\ month' = month + 1
  /\ Answered
  /\ thisMonth' = 0 /\ jobRan' = FALSE
  /\ UNCHANGED <<currentMonthEvents, usageResetAt>>

MonthNext ==
  \/ \E r \in Askers : CheckEventLimit(r) \/ IncrementEventCount(r)
  \/ ResetMonthlyCounters \/ NextMonth
Spec == MonthInit /\ [][MonthNext]_monthVars

-----------------------------------------------------------------------------
(* Properties *)

\* Once the job of a month has run, "Monthly event limit reached" is said only of
\* a month in which so many events were let in, but for those that were let in
\* before and counted late (WebhooksController.send).
RefusedForThisMonth ==
  (\E r \in Askers : asker[r] = "limit reached") /\ jobRan
    => thisMonth + Cardinality(Askers) >= Allowance
=============================================================================
