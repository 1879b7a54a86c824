--------------------------- MODULE SharedBreaker ---------------------------
(***************************************************************************)
(* SharedCircuitBreaker: one endpoint's breaker, kept in two Redis keys    *)
(* that every replica updates with several commands.                       *)
(*                                                                         *)
(* Each delivery is a client of the breaker: it reads isOpen, sends, and   *)
(* reports its outcome in a call nobody waits for.  Key expiries count     *)
(* down; 0 is a key that is absent or has no expiry.                       *)
(***************************************************************************)
EXTENDS Naturals

CONSTANTS
  Senders,      \* deliveries in flight
  Threshold,  \* BREAKER_FAILURES
  Window,     \* BREAKER_WINDOW_MS
  ResetFor,   \* BREAKER_RESET_MS
  BreakerLag,     \* bound: ticks a delivery and its report may take
  MaxFails    \* bound: the counter is not told apart above this

ASSUME BreakerAssumption ==
  /\ Threshold \in Nat \ {0} /\ Window \in Nat \ {0} /\ ResetFor \in Nat \ {0}
  /\ BreakerLag \in Nat /\ MaxFails \in Nat /\ MaxFails > Threshold

VARIABLES
  fails, failsTtl,      \* the failure counter and its expiry
  open,                 \* the expiry of the state key; 0 when absent
  senderPc, senderLag,  \* per delivery: step, and ticks since it started
  born,                 \* history: ticks since the counter went from 0 to 1
  cutReport,            \* history: was its first report cut short?
  blind                 \* history: deliveries on their way, begun while it was open

keys == <<fails, failsTtl, open>>
breakerHistory == <<born, cutReport>>
breakerVars == <<keys, senderPc, senderLag, breakerHistory, blind>>

SenderSteps == {"idle", "send", "incr", "expire", "trip", "delState", "delFails"}
OldestFail == Window + BreakerLag + 1

BreakerTypeOK ==
  /\ fails \in 0..MaxFails /\ failsTtl \in 0..Window /\ open \in 0..ResetFor
  /\ senderPc \in [Senders -> SenderSteps] /\ senderLag \in [Senders -> 0..BreakerLag]
  /\ born \in 0..OldestFail /\ cutReport \in BOOLEAN /\ blind \subseteq Senders

BreakerInit ==
  /\ fails = 0 /\ failsTtl = 0 /\ open = 0
  /\ senderPc = [c \in Senders |-> "idle"] /\ senderLag = [c \in Senders |-> 0]
  /\ born = 0 /\ cutReport = FALSE /\ blind = {}

SenderAt(c, p) == senderPc[c] = p
SenderGo(c, p) ==
  /\ senderPc' = [senderPc EXCEPT ![c] = p]
  /\ senderLag' = IF p = "idle" THEN [senderLag EXCEPT ![c] = 0] ELSE senderLag
  /\ blind' = IF p = "idle" THEN blind \ {c} ELSE blind

\* Time passes; Redis drops the keys whose time is up.
BreakerTick ==
  /\ \A c \in Senders : SenderAt(c, "idle") \/ senderLag[c] < BreakerLag
  /\ senderLag' = [c \in Senders |-> IF SenderAt(c, "idle") THEN 0 ELSE senderLag[c] + 1]
  /\ open' = IF open > 0 THEN open - 1 ELSE 0
  /\ failsTtl' = IF failsTtl > 0 THEN failsTtl - 1 ELSE 0
  /\ fails' = IF failsTtl = 1 THEN 0 ELSE fails
  /\ born' = IF fails' = 0 THEN 0 ELSE IF born < OldestFail THEN born + 1 ELSE born
  /\ cutReport' = (cutReport /\ fails' > 0)
  /\ UNCHANGED <<senderPc, blind>>

\* Mutant: the state key is not read.
NeverOpen == FALSE
IsOpen == open > 0

\* deliver() reads the breaker; while it is open nothing is sent.
Begin(c) ==
  /\ SenderAt(c, "idle") /\ ~IsOpen
  /\ SenderGo(c, "send")
  /\ UNCHANGED <<keys, breakerHistory>>

\* The read fails, and a breaker that is open passes for closed.
BeginUnread(c) ==
  /\ SenderAt(c, "idle") /\ open > 0
  /\ senderPc' = [senderPc EXCEPT ![c] = "send"] /\ blind' = blind \cup {c}
  /\ UNCHANGED <<keys, senderLag, breakerHistory>>

\* The receiver answers.
Outcome(c) ==
  /\ SenderAt(c, "send")
  /\ SenderGo(c, "incr") \/ SenderGo(c, "delState")
  /\ UNCHANGED <<keys, breakerHistory>>

\* Mutant: the expiry is set at the threshold, not at the first failure.
LateExpire(n) ==
  IF n = Threshold THEN "expire" ELSE IF n >= Threshold THEN "trip" ELSE "idle"

\* recordFailure: INCR; PEXPIRE after the first; SET open from the threshold on.
AfterIncr(n) ==
  IF n = 1 THEN "expire" ELSE IF n >= Threshold THEN "trip" ELSE "idle"

Incr(c) ==
  /\ SenderAt(c, "incr")
  /\ fails' = IF fails < MaxFails THEN fails + 1 ELSE MaxFails
  /\ SenderGo(c, AfterIncr(fails'))
  /\ UNCHANGED <<failsTtl, open, breakerHistory>>

Expire(c) ==
  /\ SenderAt(c, "expire")
  /\ failsTtl' = IF fails > 0 THEN Window ELSE 0
  /\ SenderGo(c, IF Threshold = 1 THEN "trip" ELSE "idle")
  /\ UNCHANGED <<fails, open, breakerHistory>>

\* Mutant: the state key is given the counter's expiry.
TripForWindow(c) ==
  /\ SenderAt(c, "trip")
  /\ open' = Window
  /\ SenderGo(c, "idle")
  /\ UNCHANGED <<fails, failsTtl, breakerHistory>>

Trip(c) ==
  /\ SenderAt(c, "trip")
  /\ open' = ResetFor
  /\ SenderGo(c, "idle")
  /\ UNCHANGED <<fails, failsTtl, breakerHistory>>

\* recordSuccess: two DELs sent together, in this order on one connection.
DelState(c) ==
  /\ SenderAt(c, "delState") /\ open' = 0 /\ SenderGo(c, "delFails")
  /\ UNCHANGED <<fails, failsTtl, breakerHistory>>

DelFails(c) ==
  /\ SenderAt(c, "delFails")
  /\ fails' = 0 /\ failsTtl' = 0 /\ born' = 0 /\ cutReport' = FALSE
  /\ SenderGo(c, "idle")
  /\ UNCHANGED open

\* A Redis command fails, or the process dies: the rest of the report is lost.
Abort(c) ==
  /\ ~SenderAt(c, "idle")
  /\ SenderGo(c, "idle")
  /\ cutReport' = (cutReport \/ (SenderAt(c, "expire") /\ fails > 0))
  /\ UNCHANGED <<keys, born>>

Report(c) ==
  Outcome(c) \/ Incr(c) \/ Expire(c) \/ Trip(c) \/ DelState(c) \/ DelFails(c)
BreakerNext == BreakerTick \/ \E c \in Senders :
  Begin(c) \/ BeginUnread(c) \/ Report(c) \/ Abort(c)

\* Time passes and what was sent is answered; nobody has to send.
BreakerFairness ==
  WF_breakerVars(BreakerTick) /\ \A c \in Senders : WF_breakerVars(Report(c))
BreakerSpec == BreakerInit /\ [][BreakerNext]_breakerVars /\ BreakerFairness

-----------------------------------------------------------------------------
(* Properties *)

\* A failure counter without an expiry is about to get one, unless the report
\* that created it was cut short between INCR and PEXPIRE.
CounterWillExpire ==
  fails > 0 /\ failsTtl = 0 => cutReport \/ \E c \in Senders : SenderAt(c, "expire")

\* The failures that open the breaker are recent: no counter outlives its
\* window by more than a report's lag, unless its first report was cut short.
FailuresRecent == born <= Window + BreakerLag \/ cutReport

\* The breaker stays open for ever only if reads of it go on failing: it closes, or
\* a delivery is on its way that was begun while it was open.  Those begun before
\* cannot keep it open.
OpenEnds == (open > 0) ~> (open = 0 \/ blind # {})

\* The counter counts recent failures only (recordFailure, recordSuccess).
BreakerSafe ==
  /\ BreakerTypeOK /\ CounterWillExpire /\ FailuresRecent
=============================================================================
