----------------------------- MODULE TrialMails -----------------------------
(***************************************************************************)
(* TrialService.expireStaleSubscriptions, which every process runs at the  *)
(* full hour: trials that have ended expire, and the users whose trial     *)
(* ended in the last hour get a mail; users whose trial ends soon get a    *)
(* warning.  Mails are sent one by one, and a failure ends the sweep.      *)
(***************************************************************************)
EXTENDS Naturals, FiniteSets

CONSTANTS
  Trials,            \* users on trial
  Sweepers,          \* processes
  Hour,              \* ticks of an hour
  Slack,             \* ticks a sweep takes at most
  WarnFrom, WarnTo,  \* a trial ends soon: in so many ticks (bound: none ends later)
  LastTick           \* bound: time

ASSUME TrialAssumption ==
  /\ Hour \in Nat \ {0} /\ Slack \in Nat /\ WarnFrom \in Nat /\ WarnTo \in Nat
  /\ LastTick \in Nat /\ IsFiniteSet(Trials) /\ IsFiniteSet(Sweepers)

VARIABLES
  tick,    \* the time
  trial,   \* per user: status and end of the trial
  sweep,   \* per process: step, its now, the users still to mail
  lastRun, \* per process: the hours that have begun when it ran last
  toldEnd,    \* per user: mails that the trial has ended
  warned,  \* users warned
  swept,   \* history: the nows of the sweeps that let trials expire
  leftOut      \* history: users a sweep that failed still had to mail

trialVars == <<tick, trial, sweep, lastRun, toldEnd, warned, swept, leftOut>>
NoSweep == [step |-> "wait", now |-> 0, todo |-> {}]

TrialTypeOK ==
  /\ tick \in 0..LastTick
  /\ trial \in [Trials -> [status : {"trial", "expired", "active"}, end : 0..WarnTo]]
  /\ sweep \in [Sweepers -> [step : {"wait", "expire", "find", "mail", "look", "warn"},
                             now : 0..LastTick, todo : SUBSET Trials]]
  /\ lastRun \in [Sweepers -> Nat] /\ toldEnd \in [Trials -> Nat]
  /\ warned \subseteq Trials /\ swept \subseteq 0..LastTick /\ leftOut \subseteq Trials

TrialInit ==
  /\ tick = 0
  /\ trial \in [Trials -> [status : {"trial"}, end : 0..WarnTo]]
  /\ sweep = [p \in Sweepers |-> NoSweep] /\ lastRun = [p \in Sweepers |-> 0]
  /\ toldEnd = [u \in Trials |-> 0] /\ warned = {} /\ swept = {} /\ leftOut = {}

OnStep(p, s) == sweep[p].step = s
Turn(p, s, todo) == sweep' = [sweep EXCEPT ![p].step = s, ![p].todo = todo]
\* The cron job fires in the first tick of an hour or the next one.
HourBegun(p) == tick % Hour \in {0, 1} /\ lastRun[p] < tick \div Hour + 1
TrialsEnded(p) == {u \in Trials : trial[u].status = "trial" /\ trial[u].end < sweep[p].now}
JustExpired(p) == {u \in Trials : /\ trial[u].status = "expired"
                                  /\ trial[u].end < sweep[p].now
                                  /\ trial[u].end + Hour > sweep[p].now}
SoonExpiring(p) == {u \in Trials : /\ trial[u].status = "trial"
                                   /\ trial[u].end >= sweep[p].now + WarnFrom
                                   /\ trial[u].end <= sweep[p].now + WarnTo}

StartSweep(p) ==
  /\ OnStep(p, "wait") /\ HourBegun(p)
  /\ sweep' = [sweep EXCEPT ![p] = [step |-> "expire", now |-> tick, todo |-> {}]]
  /\ lastRun' = [lastRun EXCEPT ![p] = tick \div Hour + 1]
  /\ UNCHANGED <<tick, trial, toldEnd, warned, swept, leftOut>>

\* Mutant: the users are looked for even if no trial has just expired.
ExpireAndFind(p) ==
  /\ OnStep(p, "expire")
  /\ trial' = [u \in Trials |-> IF u \in TrialsEnded(p) THEN [trial[u] EXCEPT !.status = "expired"]
                                                  ELSE trial[u]]
  /\ Turn(p, "find", {})
  /\ swept' = swept \cup {sweep[p].now}
  /\ UNCHANGED <<tick, lastRun, toldEnd, warned, leftOut>>

\* updateMany; the users are looked for only if it has changed something.
ExpireTrials(p) ==
  /\ OnStep(p, "expire")
  /\ trial' = [u \in Trials |-> IF u \in TrialsEnded(p) THEN [trial[u] EXCEPT !.status = "expired"]
                                                  ELSE trial[u]]
  /\ Turn(p, IF TrialsEnded(p) = {} THEN "look" ELSE "find", {})
  /\ swept' = swept \cup {sweep[p].now}
  /\ UNCHANGED <<tick, lastRun, toldEnd, warned, leftOut>>

\* Mutant: only the users this hour's first tick is the end of.
FindFewer(p) ==
  /\ OnStep(p, "find")
  /\ Turn(p, "mail", {u \in JustExpired(p) : trial[u].end + 2 > sweep[p].now})
  /\ UNCHANGED <<tick, trial, lastRun, toldEnd, warned, swept, leftOut>>

FindExpired(p) ==
  /\ OnStep(p, "find") /\ Turn(p, "mail", JustExpired(p))
  /\ UNCHANGED <<tick, trial, lastRun, toldEnd, warned, swept, leftOut>>

SendTrialExpired(p) ==
  /\ OnStep(p, "mail")
  /\ \/ sweep[p].todo = {} /\ Turn(p, "look", {}) /\ UNCHANGED toldEnd
     \/ \E u \in sweep[p].todo :
          /\ toldEnd' = [toldEnd EXCEPT ![u] = @ + 1]
          /\ Turn(p, "mail", sweep[p].todo \ {u})
  /\ UNCHANGED <<tick, trial, lastRun, warned, swept, leftOut>>

FindSoonExpiring(p) ==
  /\ OnStep(p, "look") /\ Turn(p, "warn", SoonExpiring(p))
  /\ UNCHANGED <<tick, trial, lastRun, toldEnd, warned, swept, leftOut>>

\* A user gets a warning every hour while the end is in this window.
SendTrialWarning(p) ==
  /\ OnStep(p, "warn")
  /\ \/ /\ sweep[p].todo = {} /\ UNCHANGED warned
        /\ sweep' = [sweep EXCEPT ![p] = NoSweep]
     \/ \E u \in sweep[p].todo :
          warned' = warned \cup {u} /\ Turn(p, "warn", sweep[p].todo \ {u})
  /\ UNCHANGED <<tick, trial, lastRun, toldEnd, swept, leftOut>>

\* The database does not answer: the sweep ends where it is.  A mail that cannot
\* be sent is only logged.
SweepFails(p) ==
  /\ ~OnStep(p, "wait")
  /\ leftOut' = leftOut \cup (IF OnStep(p, "find") THEN JustExpired(p)
                      ELSE IF OnStep(p, "mail") THEN sweep[p].todo ELSE {})
  /\ sweep' = [sweep EXCEPT ![p] = NoSweep]
  /\ UNCHANGED <<tick, trial, lastRun, toldEnd, warned, swept>>

PayTrial(u) ==
  /\ trial' = [trial EXCEPT ![u].status = "active"]
  /\ UNCHANGED <<tick, sweep, lastRun, toldEnd, warned, swept, leftOut>>

NextTick ==
  /\ tick < LastTick /\ tick' = tick + 1
  /\ \A p \in Sweepers : OnStep(p, "wait") \/ tick < sweep[p].now + Slack
  /\ UNCHANGED <<trial, sweep, lastRun, toldEnd, warned, swept, leftOut>>

TrialNext ==
  \/ \E p \in Sweepers :
       \/ StartSweep(p) \/ ExpireTrials(p) \/ FindExpired(p) \/ SendTrialExpired(p)
       \/ FindSoonExpiring(p) \/ SendTrialWarning(p) \/ SweepFails(p)
  \/ \E u \in Trials : PayTrial(u)
  \/ NextTick

-----------------------------------------------------------------------------
(* Properties *)

\* A user hears of the end of the trial if a sweep ran in the hour after it,
\* early enough, unless the sweep that was to tell failed.  A sweep fired a
\* little late leaves out those whose trial ended right after the one before.
UntoldOnlyByGap ==
  \A u \in Trials :
    /\ trial[u].status = "expired" /\ toldEnd[u] = 0 /\ u \notin leftOut
    /\ \A p \in Sweepers : OnStep(p, "wait")
    => ~\E n \in swept : trial[u].end < n /\ n + Slack < trial[u].end + Hour

\* Users are toldEnd again only by sweeps that let another trial expire.
ToldAgainByOthers ==
  \A u \in Trials : toldEnd[u] <= Cardinality({v \in Trials : trial[v].status # "trial"})

\* Who is told of the end of a trial, and how often (expireStaleSubscriptions).
TrialMailsSafe ==
  /\ TrialTypeOK /\ UntoldOnlyByGap /\ ToldAgainByOthers
=============================================================================
