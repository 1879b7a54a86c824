---------------------------- MODULE RateLimiter ----------------------------
(***************************************************************************)
(* EndpointRateLimiterService.checkRateLimit: fixed windows (minute, hour, *)
(* day) kept in the endpoint document, used by many workers at once.       *)
(*                                                                         *)
(* A call captures the time, then runs two updates: the first restarts     *)
(* the windows that have ended and returns the document, the second takes  *)
(* a token if every window still has room.  Other calls run in between,    *)
(* and the captured time is by then in the past.                           *)
(***************************************************************************)
EXTENDS Naturals, FiniteSets, FiniteSetsExt

CONSTANTS
  Calls,    \* concurrent calls of checkRateLimit
  Windows,  \* the windows of an endpoint
  Order,    \* the order they are tested in, a sequence of Windows
  Length,   \* their lengths
  Cap,      \* rateLimit.maxPerMinute, maxPerHour, maxPerDay
  LimiterLag,   \* bound: ticks between a call's start and its last update
  MaxTime   \* bound: the clock stops here

ASSUME WindowAssumption ==
  /\ IsFiniteSet(Windows) /\ Windows # {} /\ "none" \notin Windows
  /\ Length \in [Windows -> Nat \ {0}] /\ Cap \in [Windows -> Nat]
  /\ Order \in [1..Cardinality(Windows) -> Windows]
  /\ LimiterLag \in Nat /\ MaxTime \in Nat \ {0}

VARIABLES
  now,             \* the clock, from 1; 0 stands for a null date
  used, resetAt,   \* the counters and ...ResetAt dates in the document
  limiterPc, at,          \* per call: step, and the time it captured
  first,           \* per call: end of the first window as it has read it
  verdict,          \* per call: its answer, until the next call
  granted          \* history: tokens taken, each with its time and its number

counters == <<used, resetAt>>
limiterVars == <<now, counters, limiterPc, at, first, verdict, granted>>

NoAnswer == [allowed |-> TRUE, retry |-> 0, window |-> "none"]

LimiterTypeOK ==
  /\ now \in 1..MaxTime
  /\ used \in [Windows -> Nat] /\ resetAt \in [Windows -> Nat]
  /\ limiterPc \in [Calls -> {"idle", "reset", "take"}] /\ at \in [Calls -> Nat]
  /\ first \in [Calls -> Nat]
  /\ verdict \in [Calls -> [allowed : BOOLEAN, retry : Nat, window : Windows \cup {"none"}]]
  /\ granted \subseteq (1..now) \X Nat /\ IsFiniteSet(granted)

LimiterInit ==
  /\ now = 1
  /\ used = [w \in Windows |-> 0] /\ resetAt = [w \in Windows |-> 0]
  /\ limiterPc = [c \in Calls |-> "idle"] /\ at = [c \in Calls |-> 0]
  /\ first = [c \in Calls |-> 0] /\ verdict = [c \in Calls |-> NoAnswer]
  /\ granted = {}

LimiterTick ==
  /\ now < MaxTime
  /\ \A c \in Calls : limiterPc[c] = "idle" \/ now + 1 <= at[c] + LimiterLag
  /\ now' = now + 1
  /\ UNCHANGED <<counters, limiterPc, at, first, verdict, granted>>

Start(c) ==
  /\ limiterPc[c] = "idle"
  /\ limiterPc' = [limiterPc EXCEPT ![c] = "reset"] /\ at' = [at EXCEPT ![c] = now]
  /\ verdict' = [verdict EXCEPT ![c] = NoAnswer]
  /\ UNCHANGED <<now, counters, first, granted>>

Deny(c, w, retry) ==
  /\ limiterPc' = [limiterPc EXCEPT ![c] = "idle"]
  /\ at' = [at EXCEPT ![c] = 0] /\ first' = [first EXCEPT ![c] = 0]
  /\ verdict' = [verdict EXCEPT ![c] = [allowed |-> FALSE, retry |-> retry, window |-> w]]

Ended(w, t) == resetAt[w] < t

\* Mutant: the wait is the reset date itself.
WaitAbsolute(r, t) == r
Wait(r, t) == IF r > t THEN r - t ELSE 0

\* Mutants: a restarted window ends when it starts; the sign is wrong.
NextResetNow(w, t) == t
NextResetBack(w, t) == t - Length[w]
NextReset(w, t) == t + Length[w]

\* The first update restarts what has ended; the answer is read off the
\* document it returns, the windows in their order.
Reset(c) ==
  /\ limiterPc[c] = "reset"
  /\ used' = [w \in Windows |-> IF Ended(w, at[c]) THEN 0 ELSE used[w]]
  /\ resetAt' = [w \in Windows |-> IF Ended(w, at[c]) THEN NextReset(w, at[c])
                                                       ELSE resetAt[w]]
  /\ LET full == {i \in DOMAIN Order : used'[Order[i]] >= Cap[Order[i]]}
     IN  \/ /\ full = {}
            /\ limiterPc' = [limiterPc EXCEPT ![c] = "take"]
            /\ first' = [first EXCEPT ![c] = resetAt'[Order[1]]]
            /\ UNCHANGED <<at, verdict>>
         \/ /\ full # {}
            /\ LET w == Order[Min(full)] IN Deny(c, w, Wait(resetAt'[w], at[c]))
  /\ UNCHANGED <<now, granted>>

\* Mutants: the second update trusts the first one's answer, or one window.
AlwaysRoom == TRUE
SomeRoom == \E w \in Windows : used[w] < Cap[w]
Room == \A w \in Windows : used[w] < Cap[w]

\* The second update takes a token if there is still room in every window;
\* a lost race is answered as the first window, whichever window is full.
Take(c) ==
  /\ limiterPc[c] = "take"
  /\ \/ /\ Room
        /\ used' = [w \in Windows |-> used[w] + 1]
        /\ granted' = granted \cup {<<now, Cardinality(granted) + 1>>}
        /\ limiterPc' = [limiterPc EXCEPT ![c] = "idle"]
        /\ at' = [at EXCEPT ![c] = 0] /\ first' = [first EXCEPT ![c] = 0]
        /\ verdict' = [verdict EXCEPT ![c] = NoAnswer]
     \/ /\ ~Room
        /\ Deny(c, Order[1], Max({1, Wait(first[c], at[c])}))
        /\ UNCHANGED <<used, granted>>
  /\ UNCHANGED <<now, resetAt>>

LimiterNext == LimiterTick \/ \E c \in Calls : Start(c) \/ Reset(c) \/ Take(c)
LimiterSpec == LimiterInit /\ [][LimiterNext]_limiterVars

-----------------------------------------------------------------------------
(* Properties *)

\* However calls interleave between their two updates, no window's counter
\* passes its cap.
WithinCap == \A w \in Windows : used[w] <= Cap[w]

Granted(from, to) == Cardinality({g \in granted : g[1] \in from..to})

\* No stretch of time as long as a window sees more than twice its cap: one
\* cap at the end of a window and one at the start of the next.  A call that
\* restarts a window with the time it captured earlier shortens that window by
\* its lag, so the stretch is shortened by as much.
BurstBounded ==
  \A w \in Windows : \A t \in 1..MaxTime :
    LET end == t + Length[w] + 1 - LimiterLag
    IN  Granted(t, end) <= 2 * Cap[w]

\* A refused call is told to wait no longer than the window that refused it,
\* plus its own lag.  (deliver() gives an event up for good when told to wait
\* more than an hour, so an hour window must not say so.)
WaitBounded ==
  \A c \in Calls :
    ~verdict[c].allowed => verdict[c].retry <= Length[verdict[c].window] + LimiterLag

\* checkRateLimit implements the atomic quota.
Promise == INSTANCE Quota
QuotaSpec == Promise!Spec

\* What callers are granted in a window and in any stretch of time, and what the
\* denied are told.
LimiterSafe ==
  /\ LimiterTypeOK /\ WithinCap /\ BurstBounded /\ WaitBounded
=============================================================================
