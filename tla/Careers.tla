------------------------------ MODULE Careers ------------------------------
(***************************************************************************)
(* CareersService: job postings, the applications sent to them, and the    *)
(* counter in the job document that tells an administrator whether a job   *)
(* may be deleted.  Applications and deletions read the job first and      *)
(* write later.                                                            *)
(***************************************************************************)
EXTENDS Naturals, FiniteSets

CONSTANTS
  Jobs,     \* job ids
  People,   \* e-mail addresses of applicants
  Callers,    \* requests served at a time
  MaxCount  \* bound: the counter

ASSUME CareersAssumption == MaxCount \in Nat /\ "general" \notin Jobs

VARIABLES
  job,           \* per id: status and applicationCount
  applications,  \* pairs of address and job
  visit,         \* per request: step, address, job
  overlapped,    \* history: jobs deleted under an application, see below
  patched        \* history: jobs whose counter was overwritten

careersVars == <<job, applications, visit, overlapped, patched>>

JobStatus == {"draft", "open", "closed", "on_hold"}
General == "general"
Out == [step |-> "out"]
\* An address applies for a job once: the pair is unique.
Applications == People \X (Jobs \cup {General})

CareersTypeOK ==
  /\ job \in [Jobs -> [status : JobStatus \cup {"none", "deleted"}, count : 0..MaxCount]]
  /\ applications \subseteq Applications
  /\ visit \in [Callers -> {Out} \cup [step : {"count"}, email : People, job : Jobs] \cup
       [step : {"look", "create"}, email : People, job : Jobs \cup {General}] \cup
       [step : {"delete"}, email : {"none"}, job : Jobs]]
  /\ overlapped \subseteq Jobs /\ patched \subseteq Jobs

CareersInit ==
  /\ job = [j \in Jobs |-> [status |-> "none", count |-> 0]]
  /\ applications = {} /\ visit = [d \in Callers |-> Out]
  /\ overlapped = {} /\ patched = {}

Exists(j) == job[j].status \in JobStatus
AtStep(d, s) == visit[d].step = s
Enter(d, s, e, j) ==
  AtStep(d, "out") /\ visit' = [visit EXCEPT ![d] = [step |-> s, email |-> e, job |-> j]]
Proceed(d, s) == visit' = [visit EXCEPT ![d].step = s]
Exit(d) == visit' = [visit EXCEPT ![d] = Out]
For(j, s) == \E d \in Callers : AtStep(d, s) /\ visit[d].job = j

-----------------------------------------------------------------------------
(* Jobs *)

CreateJob(j) ==
  /\ job[j].status = "none" /\ job' = [job EXCEPT ![j].status = "draft"]
  /\ UNCHANGED <<applications, visit, overlapped, patched>>

\* updateJob, publishJob, closeJob.
UpdateJob(j, s) ==
  /\ Exists(j) /\ job' = [job EXCEPT ![j].status = s]
  /\ UNCHANGED <<applications, visit, overlapped, patched>>

\* updateJob with a counter in the body, which is passed on as it came.
OverwriteCount(j, n) ==
  /\ Exists(j) /\ job' = [job EXCEPT ![j].count = n] /\ patched' = patched \cup {j}
  /\ UNCHANGED <<applications, visit, overlapped>>

\* Mutant: the counter is not looked at.
FindAnyJob(d, j) ==
  /\ Exists(j) /\ Enter(d, "delete", "none", j)
  /\ UNCHANGED <<job, applications, overlapped, patched>>

\* deleteJob: a job nobody has applied to, by the copy that was read.
FindToDelete(d, j) ==
  /\ Exists(j) /\ job[j].count = 0 /\ Enter(d, "delete", "none", j)
  /\ UNCHANGED <<job, applications, overlapped, patched>>

\* history overlapped: an application had found the job open and was not counted
\* when the deletion read the counter.
DeleteJob(d) ==
  /\ AtStep(d, "delete")
  /\ LET j == visit[d].job
     IN  /\ job' = IF Exists(j) THEN [job EXCEPT ![j].status = "deleted"] ELSE job
         /\ overlapped' = IF For(j, "count") THEN overlapped \cup {j} ELSE overlapped
  /\ Exit(d)
  /\ UNCHANGED <<applications, patched>>

-----------------------------------------------------------------------------
(* submitApplication *)

FindOpenJob(d, e, j) ==
  /\ \/ j = General /\ Enter(d, "look", e, j)
     \/ j \in Jobs /\ job[j].status = "open" /\ Enter(d, "count", e, j)
  /\ UNCHANGED <<job, applications, overlapped, patched>>

\* Mutant: the count is the number of applications that were found.
CountFound(d) ==
  /\ AtStep(d, "count")
  /\ LET j == visit[d].job
     IN  /\ job' = [job EXCEPT ![j].count =
                      Cardinality({a \in applications : a[2] = j})]
         /\ overlapped' = IF For(j, "delete") THEN overlapped \cup {j} ELSE overlapped
  /\ Proceed(d, "look")
  /\ UNCHANGED <<applications, patched>>

\* $inc, before anything else; nothing happens to a job that is gone.
CountApplication(d) ==
  /\ AtStep(d, "count")
  /\ LET j == visit[d].job
     IN  /\ Exists(j) => job[j].count < MaxCount  \* the bound
         /\ job' = IF Exists(j) THEN [job EXCEPT ![j].count = @ + 1] ELSE job
         /\ overlapped' = IF For(j, "delete") THEN overlapped \cup {j} ELSE overlapped
  /\ Proceed(d, "look")
  /\ UNCHANGED <<applications, patched>>

LookForApplication(d) ==
  /\ AtStep(d, "look")
  /\ IF <<visit[d].email, visit[d].job>> \in applications THEN Exit(d)
                                                          ELSE Proceed(d, "create")
  /\ UNCHANGED <<job, applications, overlapped, patched>>

\* The unique index uq_email_job refuses the slower of two.
CreateApplication(d) ==
  /\ AtStep(d, "create")
  /\ applications' = applications \cup {<<visit[d].email, visit[d].job>>}
  /\ Exit(d)
  /\ UNCHANGED <<job, overlapped, patched>>

CareersNext ==
  \/ \E j \in Jobs : \/ CreateJob(j) \/ \E s \in JobStatus : UpdateJob(j, s)
                     \/ \E n \in 0..MaxCount : OverwriteCount(j, n)
  \/ \E d \in Callers :
       \/ \E j \in Jobs : FindToDelete(d, j)
       \/ \E e \in People, j \in Jobs \cup {General} : FindOpenJob(d, e, j)
       \/ DeleteJob(d) \/ CountApplication(d) \/ LookForApplication(d)
       \/ CreateApplication(d)

-----------------------------------------------------------------------------
(* Properties *)

\* The counter never falls behind: it covers the applications that are stored
\* and those about to be, so a job with a zero may be deleted; unless an administrator
\* wrote it himself.
CountCovers ==
  \A j \in Jobs \ patched : Exists(j) =>
    Cardinality({a \in applications : a[2] = j} \cup
      {<<visit[d].email, j>> : d \in {d \in Callers : AtStep(d, "create") /\ visit[d].job = j}})
    <= job[j].count

\* An application's job is still there, unless the two requests overlapped: the
\* application had not been counted when the deletion read the counter, or the counter
\* was overwritten.
JobKeptUnlessOverlapped ==
  \A a \in applications :
    a[2] # General /\ job[a[2]].status = "deleted" => a[2] \in overlapped \cup patched

\* A job's counter and its applications belong together (CareersService).
CareersSafe ==
  /\ CareersTypeOK /\ CountCovers /\ JobKeptUnlessOverlapped
=============================================================================
