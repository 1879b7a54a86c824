---------------------------- MODULE Guards_proofs ----------------------------
(* What a delivery passes on its way: the rate limiter, the shared breaker,  *)
(* the endpoint cache and the log writer, for any values of their constants. *)
EXTENDS RateLimiter, SharedBreaker, EndpointCache, LogWriter, FiniteSetTheorems,
  WellFoundedInduction, TLAPS

-----------------------------------------------------------------------------
(* RateLimiter: any windows, caps, number of calls and lag. *)

\* What the two theorems need of the types.
CounterType == used \in [Windows -> Nat]

CapInv == CounterType /\ WithinCap

\* The counters are natural numbers below their caps after every step.
LEMMA CapStep == CapInv /\ [LimiterNext]_limiterVars => CapInv'
<1> SUFFICES ASSUME CapInv, [LimiterNext]_limiterVars PROVE CapInv' OBVIOUS
<1>0. \A w \in Windows : Cap[w] \in Nat /\ used[w] \in Nat /\ used[w] <= Cap[w]
  BY WindowAssumption DEF CapInv, CounterType, WithinCap
<1>1. CASE UNCHANGED used BY <1>1 DEF CapInv, CounterType, WithinCap
<1>2. ASSUME NEW c \in Calls, Reset(c) PROVE CapInv'
  <2>1. used' = [w \in Windows |-> IF Ended(w, at[c]) THEN 0 ELSE used[w]]
    BY <1>2 DEF Reset
  <2> QED BY <1>0, <2>1 DEF CapInv, CounterType, WithinCap
<1>3. ASSUME NEW c \in Calls, Take(c), Room PROVE CapInv'
  <2>1. used' = [w \in Windows |-> used[w] + 1] BY <1>3 DEF Take
  <2>2. \A w \in Windows : used[w] + 1 \in Nat /\ used[w] + 1 <= Cap[w]
    BY <1>0, <1>3 DEF Room
  <2> QED BY <2>1, <2>2 DEF CapInv, CounterType, WithinCap
<1>4. ASSUME NEW c \in Calls, Take(c), ~Room PROVE UNCHANGED used
  BY <1>4 DEF Take
<1>5. ASSUME LimiterTick \/ UNCHANGED limiterVars PROVE UNCHANGED used
  BY <1>5 DEF LimiterTick, limiterVars, counters
<1>6. ASSUME NEW c \in Calls, Start(c) PROVE UNCHANGED used
  BY <1>6 DEF Start, counters
<1> QED BY <1>1, <1>2, <1>3, <1>4, <1>5, <1>6 DEF LimiterNext

LEMMA CapInit == LimiterInit => CapInv
BY WindowAssumption DEF LimiterInit, CapInv, CounterType, WithinCap

\* No window is ever granted more than its cap, however calls interleave.
THEOREM CapHolds == LimiterSpec => []WithinCap
<1>1. CapInv => WithinCap BY DEF CapInv
<1> QED BY <1>1, CapInit, CapStep, PTL DEF LimiterSpec

\* checkRateLimit implements the atomic quota of module Quota.
THEOREM QuotaImplemented == LimiterSpec => QuotaSpec
<1>1. LimiterInit => Promise!Init BY DEF LimiterInit, Promise!Init
<1>2. CapInv /\ [LimiterNext]_limiterVars => [Promise!Next]_used
  <2> SUFFICES ASSUME CapInv, [LimiterNext]_limiterVars PROVE Promise!Next \/ UNCHANGED used
    OBVIOUS
  <2>1. ASSUME NEW c \in Calls, Reset(c) PROVE Promise!Next
    <3> DEFINE S == {w \in Windows : Ended(w, at[c])}
    <3>1. used' = [w \in Windows |-> IF Ended(w, at[c]) THEN 0 ELSE used[w]]
      BY <2>1 DEF Reset
    <3>2. Promise!Restart(S) BY <3>1 DEF Promise!Restart
    <3>3. S \in SUBSET Windows OBVIOUS
    <3> HIDE DEF S
    <3> QED BY <3>2, <3>3 DEF Promise!Next
  <2>2. ASSUME NEW c \in Calls, Take(c), Room PROVE Promise!Next
    BY <2>2 DEF Take, Room, Promise!Next, Promise!Grant
  <2>3. ASSUME NEW c \in Calls, Take(c), ~Room PROVE UNCHANGED used
    BY <2>3 DEF Take
  <2>4. ASSUME LimiterTick \/ UNCHANGED limiterVars PROVE UNCHANGED used
    BY <2>4 DEF LimiterTick, limiterVars, counters
  <2>5. ASSUME NEW c \in Calls, Start(c) PROVE UNCHANGED used
    BY <2>5 DEF Start, counters
  <2> QED BY <2>1, <2>2, <2>3, <2>4, <2>5 DEF LimiterNext
<1> QED BY <1>1, <1>2, CapInit, CapStep, PTL DEF LimiterSpec, QuotaSpec, Promise!Spec

\* A set of numbers has a least element.
LEMMA Least ==
  ASSUME NEW T, T \subseteq Nat, T # {}
  PROVE  \E x \in T : \A y \in T : x <= y
<1> DEFINE R == OpToRel(<, Nat)
<1>1. \A x \in Nat, y \in Nat : <<y, x>> \in R <=> y < x
  BY DEF OpToRel
<1>2. IsWellFoundedOn(R, Nat)
  BY NatLessThanWellFounded
<1> HIDE DEF R
<1>3. \E x \in T : \A y \in T : ~(<<y, x>> \in R)
  BY <1>2, WFMin
<1>4. PICK x \in T : \A y \in T : ~(<<y, x>> \in R)
  BY <1>3
<1>5. ASSUME NEW y \in T
      PROVE  x <= y
  <2>1. x \in Nat /\ y \in Nat
    OBVIOUS
  <2>2. ~(<<y, x>> \in R)
    BY <1>4
  <2>3. ~(y < x)
    BY <1>1, <2>1, <2>2
  <2> QED
    BY <2>1, <2>3
<1> QED
  BY <1>5

\* The types, the clock that no update is far behind, and the windows a call that is
\* about to take a token has seen restarted.
CallsAreRecent ==
  \A c \in Calls : limiterPc[c] # "idle" => at[c] \in 1..now /\ now <= at[c] + LimiterLag
WindowsAreAhead ==
  /\ \A w \in Windows : resetAt[w] <= now + Length[w]
  /\ \A c \in Calls : limiterPc[c] = "take" =>
       /\ \A w \in Windows : at[c] <= resetAt[w]
       /\ first[c] <= at[c] + Length[Order[1]] + LimiterLag

\* Every token but those of the window under way and of the one before is too old to
\* be in one stretch of time with a token that is still to come.
Epochs(w, cur, prev) ==
  /\ Cardinality(cur) = used[w] /\ Cardinality(prev) <= Cap[w]
  /\ \A g \in cur : resetAt[w] <= g[1] + Length[w] /\ g[1] <= resetAt[w] + LimiterLag
  /\ \A g \in prev : g[1] + Length[w] + 1 <= resetAt[w] + LimiterLag
  /\ \A g \in granted \ (cur \cup prev) :
       g[1] + Length[w] + Length[w] + 2 <= resetAt[w] + LimiterLag
TokensInEpochs == \A w \in Windows : \E cur, prev \in SUBSET granted : Epochs(w, cur, prev)
TokensAreNumbered == \A g \in granted : g[2] <= Cardinality(granted)

LimiterInv ==
  /\ LimiterTypeOK /\ WithinCap /\ BurstBounded /\ WaitBounded
  /\ CallsAreRecent /\ WindowsAreAhead /\ TokensInEpochs /\ TokensAreNumbered

LEMMA WindowIs ==
  /\ \A w \in Windows : Length[w] \in Nat /\ Length[w] # 0 /\ Cap[w] \in Nat
  /\ Order[1] \in Windows /\ LimiterLag \in Nat /\ MaxTime \in Nat /\ IsFiniteSet(Windows)
  /\ DOMAIN Order \subseteq Nat /\ \A i \in DOMAIN Order : Order[i] \in Windows
  /\ "none" \notin Windows
<1>1. Cardinality(Windows) \in Nat /\ Cardinality(Windows) # 0
  BY WindowAssumption, FS_CardinalityType, FS_EmptySet
<1>2. 1 \in 1..Cardinality(Windows)
  BY <1>1
<1>3. DOMAIN Order = 1..Cardinality(Windows) /\ \A i \in DOMAIN Order : Order[i] \in Windows
  BY WindowAssumption
<1> QED
  BY <1>1, <1>2, <1>3, WindowAssumption

LEMMA TokenIs ==
  ASSUME LimiterTypeOK, NEW S, S \subseteq granted
  PROVE  /\ IsFiniteSet(S) /\ Cardinality(S) \in Nat
         /\ \A g \in S : g[1] \in 1..now /\ g[2] \in Nat
BY FS_Subset, FS_CardinalityType DEF LimiterTypeOK

\* As long as no token is taken and no window restarts, only the clock and the
\* verdicts can disturb the invariant.
LEMMA CountersStay ==
  ASSUME LimiterInv, UNCHANGED <<used, resetAt, granted>>
  PROVE  WithinCap' /\ BurstBounded' /\ TokensInEpochs' /\ TokensAreNumbered'
BY DEF LimiterInv, WithinCap, BurstBounded, Granted, TokensInEpochs, TokensAreNumbered, Epochs

LEMMA LimiterTickPreserves ==
  ASSUME LimiterInv, LimiterTick
  PROVE  LimiterInv'
<1>1. /\ now' = now + 1 /\ now \in 1..MaxTime /\ now < MaxTime /\ MaxTime \in Nat /\ LimiterLag \in Nat
      /\ UNCHANGED <<used, resetAt, limiterPc, at, first, verdict, granted>>
  BY WindowIs DEF LimiterTick, LimiterInv, LimiterTypeOK, counters
<1>2. LimiterTypeOK'
  <2>1. now' \in 1..MaxTime
    BY <1>1
  <2>2. granted' \subseteq (1..now') \X Nat
    BY <1>1 DEF LimiterInv, LimiterTypeOK
  <2> QED
    BY <1>1, <2>1, <2>2 DEF LimiterInv, LimiterTypeOK
<1>3. CallsAreRecent'
  BY <1>1 DEF LimiterTick, LimiterInv, LimiterTypeOK, CallsAreRecent
<1>4. WindowsAreAhead'
  BY <1>1, WindowIs DEF LimiterInv, LimiterTypeOK, WindowsAreAhead
<1>5. WaitBounded'
  BY <1>1 DEF LimiterInv, WaitBounded
<1> QED
  BY <1>1, <1>2, <1>3, <1>4, <1>5, CountersStay DEF LimiterInv

Verdicts == [allowed : BOOLEAN, retry : Nat, window : Windows \cup {"none"}]

LEMMA StartPreserves ==
  ASSUME LimiterInv, NEW c \in Calls, Start(c)
  PROVE  LimiterInv'
<1>0. NoAnswer \in Verdicts /\ NoAnswer.allowed
  BY DEF NoAnswer, Verdicts
<1>1. /\ limiterPc' = [limiterPc EXCEPT ![c] = "reset"] /\ at' = [at EXCEPT ![c] = now]
      /\ verdict' = [verdict EXCEPT ![c] = NoAnswer]
      /\ UNCHANGED <<now, used, resetAt, first, granted>>
  BY DEF Start, counters
<1>2. now \in Nat /\ now \in 1..now /\ LimiterLag \in Nat
  BY WindowIs DEF LimiterInv, LimiterTypeOK
<1>3. LimiterTypeOK'
  <2>1. verdict' \in [Calls -> Verdicts]
    BY <1>0, <1>1 DEF LimiterInv, LimiterTypeOK, Verdicts
  <2> QED
    BY <1>1, <1>2, <2>1 DEF LimiterInv, LimiterTypeOK, Verdicts
<1>4. CallsAreRecent'
  BY <1>1, <1>2 DEF LimiterInv, LimiterTypeOK, CallsAreRecent
<1>5. WindowsAreAhead'
  BY <1>1 DEF LimiterInv, LimiterTypeOK, WindowsAreAhead
<1>6. WaitBounded'
  BY <1>0, <1>1 DEF LimiterInv, LimiterTypeOK, WaitBounded
<1> QED
  BY <1>1, <1>3, <1>4, <1>5, <1>6, CountersStay DEF LimiterInv

\* A call is refused with a wait that is not too long, and leaves.
LEMMA DenyIs ==
  ASSUME LimiterInv, NEW c \in Calls, NEW w \in Windows, NEW retry \in Nat,
         retry <= Length[w] + LimiterLag, Deny(c, w, retry)
  PROVE  /\ limiterPc' \in [Calls -> {"idle", "reset", "take"}] /\ at' \in [Calls -> Nat]
         /\ first' \in [Calls -> Nat] /\ verdict' \in [Calls -> Verdicts] /\ WaitBounded'
         /\ limiterPc'[c] = "idle"
         /\ \A d \in Calls \ {c} : /\ limiterPc'[d] = limiterPc[d] /\ at'[d] = at[d]
                                   /\ first'[d] = first[d]
<1> DEFINE v == [allowed |-> FALSE, retry |-> retry, window |-> w]
<1>1. v \in Verdicts /\ v.retry = retry /\ v.window = w
  BY DEF Verdicts
<1>2. verdict' = [verdict EXCEPT ![c] = v] /\ verdict \in [Calls -> Verdicts]
  BY DEF Deny, LimiterInv, LimiterTypeOK, Verdicts
<1> HIDE DEF v
<1>3. verdict' \in [Calls -> Verdicts] /\ verdict'[c] = v /\ \A d \in Calls \ {c} : verdict'[d] = verdict[d]
  BY <1>1, <1>2
<1>4. WaitBounded'
  BY <1>1, <1>3 DEF LimiterInv, WaitBounded
<1> QED
  BY <1>3, <1>4 DEF Deny, LimiterInv, LimiterTypeOK

\* A restart begins an epoch: the tokens of the window that ended are the previous ones.
LEMMA RestartEpochs ==
  ASSUME LimiterInv, NEW a \in 1..now,
         used' = [w \in Windows |-> IF Ended(w, a) THEN 0 ELSE used[w]],
         resetAt' = [w \in Windows |-> IF Ended(w, a) THEN NextReset(w, a) ELSE resetAt[w]],
         UNCHANGED granted
  PROVE  TokensInEpochs'
<1> SUFFICES ASSUME NEW w \in Windows
             PROVE  \E cur, prev \in SUBSET granted : Epochs(w, cur, prev)'
  BY DEF TokensInEpochs
<1>1. PICK cur \in SUBSET granted, prev \in SUBSET granted : Epochs(w, cur, prev)
  BY DEF LimiterInv, TokensInEpochs
<1>2. /\ used[w] \in Nat /\ used[w] <= Cap[w] /\ resetAt[w] \in Nat /\ LimiterLag \in Nat
      /\ Length[w] \in Nat /\ Length[w] # 0 /\ Cap[w] \in Nat /\ a \in Nat
  BY WindowIs DEF LimiterInv, LimiterTypeOK, WithinCap
<1>3. CASE ~Ended(w, a)
  <2>1. used'[w] = used[w] /\ resetAt'[w] = resetAt[w]
    BY <1>3
  <2> QED
    BY <1>1, <2>1 DEF Epochs
<1>4. CASE Ended(w, a)
  <2>1. used'[w] = 0 /\ resetAt'[w] = a + Length[w] /\ resetAt[w] < a
    BY <1>4 DEF NextReset, Ended
  <2>2. \A g \in granted : g[1] \in Nat
    BY TokenIs DEF LimiterInv
  <2>3. \A g \in cur : g[1] + Length[w] + 1 <= resetAt'[w] + LimiterLag
    BY <1>1, <1>2, <2>1, <2>2 DEF Epochs
  <2>4. \A g \in granted \ cur : g[1] + Length[w] + Length[w] + 2 <= resetAt'[w] + LimiterLag
    <3> SUFFICES ASSUME NEW g \in granted \ cur
                 PROVE  g[1] + Length[w] + Length[w] + 2 <= resetAt'[w] + LimiterLag
      OBVIOUS
    <3>1. CASE g \in prev
      <4>1. g[1] + Length[w] + 1 <= resetAt[w] + LimiterLag /\ g[1] \in Nat
        BY <1>1, <2>2, <3>1 DEF Epochs
      <4> QED
        BY <1>2, <2>1, <4>1
    <3>2. CASE g \notin prev
      <4>1. g[1] + Length[w] + Length[w] + 2 <= resetAt[w] + LimiterLag /\ g[1] \in Nat
        BY <1>1, <2>2, <3>2 DEF Epochs
      <4> QED
        BY <1>2, <2>1, <4>1
    <3> QED
      BY <3>1, <3>2
  <2>5. Cardinality({}) = 0 /\ Cardinality(cur) <= Cap[w]
    BY <1>1, <1>2, FS_EmptySet DEF Epochs
  <2>6. Epochs(w, {}, cur)'
    BY <2>1, <2>3, <2>4, <2>5 DEF Epochs
  <2> QED
    BY <2>6
<1> QED
  BY <1>3, <1>4

LEMMA LowestIs ==
  ASSUME NEW S, S \subseteq Nat, S # {}
  PROVE  Min(S) \in S
BY Least DEF Min

LEMMA ResetPreserves ==
  ASSUME LimiterInv, NEW c \in Calls, Reset(c)
  PROVE  LimiterInv'
<1>1. PICK a \in 1..now : a = at[c] /\ now <= a + LimiterLag /\ now \in Nat /\ LimiterLag \in Nat
  BY WindowIs DEF Reset, LimiterInv, LimiterTypeOK, CallsAreRecent
<1>2. /\ used' = [w \in Windows |-> IF Ended(w, a) THEN 0 ELSE used[w]]
      /\ resetAt' = [w \in Windows |-> IF Ended(w, a) THEN NextReset(w, a) ELSE resetAt[w]]
      /\ UNCHANGED <<now, granted>>
  BY <1>1 DEF Reset
<1>3. \A w \in Windows :
        /\ Length[w] \in Nat /\ Cap[w] \in Nat /\ used[w] \in Nat /\ used[w] <= Cap[w]
        /\ resetAt[w] \in Nat /\ resetAt[w] <= now + Length[w]
  BY WindowIs DEF LimiterInv, LimiterTypeOK, WithinCap, WindowsAreAhead
<1>4. \A w \in Windows :
        /\ used'[w] \in Nat /\ used'[w] <= Cap[w]
        /\ resetAt'[w] \in Nat /\ resetAt'[w] <= now + Length[w] /\ a <= resetAt'[w]
        /\ resetAt[w] <= resetAt'[w]
  BY <1>1, <1>2, <1>3 DEF Ended, NextReset
<1>5. used' \in [Windows -> Nat] /\ resetAt' \in [Windows -> Nat]
  BY <1>2, <1>4
<1>6. WithinCap' /\ BurstBounded' /\ TokensInEpochs' /\ TokensAreNumbered'
  <2>1. TokensInEpochs'
    BY <1>2, RestartEpochs
  <2> QED
    BY <1>2, <1>4, <2>1 DEF LimiterInv, WithinCap, BurstBounded, Granted, TokensAreNumbered
<1>7. CASE /\ limiterPc' = [limiterPc EXCEPT ![c] = "take"]
           /\ first' = [first EXCEPT ![c] = resetAt'[Order[1]]]
           /\ UNCHANGED <<at, verdict>>
  <2>1. resetAt'[Order[1]] \in Nat /\ resetAt'[Order[1]] <= now + Length[Order[1]]
        /\ Length[Order[1]] \in Nat
    BY <1>3, <1>4, WindowIs
  <2>2. LimiterTypeOK'
    BY <1>2, <1>5, <1>7, <2>1 DEF LimiterInv, LimiterTypeOK
  <2>3. CallsAreRecent'
    BY <1>1, <1>2, <1>7 DEF LimiterInv, LimiterTypeOK, CallsAreRecent
  <2>4. WindowsAreAhead'
    <3>1. \A w \in Windows : resetAt'[w] <= now' + Length[w]
      BY <1>2, <1>4
    <3> SUFFICES ASSUME NEW d \in Calls, limiterPc'[d] = "take"
                 PROVE  /\ \A w \in Windows : at[d] <= resetAt'[w]
                        /\ first'[d] <= at[d] + Length[Order[1]] + LimiterLag
      BY <1>7, <3>1 DEF WindowsAreAhead
    <3>2. CASE d = c
      BY <1>1, <1>4, <1>7, <2>1, <3>2 DEF LimiterInv, LimiterTypeOK
    <3>3. CASE d # c
      <4>1. limiterPc[d] = "take" /\ first'[d] = first[d] /\ at[d] \in Nat
        BY <1>7, <3>3 DEF LimiterInv, LimiterTypeOK
      <4> QED
        BY <1>3, <1>4, <4>1 DEF LimiterInv, WindowsAreAhead
    <3> QED
      BY <3>2, <3>3
  <2>5. WaitBounded'
    BY <1>7 DEF LimiterInv, WaitBounded
  <2> QED
    BY <1>6, <2>2, <2>3, <2>4, <2>5 DEF LimiterInv
<1>8. ASSUME NEW w \in Windows, Deny(c, w, Wait(resetAt'[w], a))
      PROVE  LimiterInv'
  <2>1. Wait(resetAt'[w], a) \in Nat /\ Wait(resetAt'[w], a) <= Length[w] + LimiterLag
    BY <1>1, <1>3, <1>4 DEF Wait
  <2>2. /\ limiterPc' \in [Calls -> {"idle", "reset", "take"}] /\ at' \in [Calls -> Nat]
        /\ first' \in [Calls -> Nat] /\ verdict' \in [Calls -> Verdicts] /\ WaitBounded'
        /\ limiterPc'[c] = "idle"
        /\ \A d \in Calls \ {c} : /\ limiterPc'[d] = limiterPc[d] /\ at'[d] = at[d]
                                  /\ first'[d] = first[d]
    BY <1>8, <2>1, DenyIs
  <2>3. LimiterTypeOK'
    BY <1>2, <1>5, <2>2 DEF LimiterInv, LimiterTypeOK, Verdicts
  <2>4. CallsAreRecent'
    BY <1>2, <2>2 DEF LimiterInv, CallsAreRecent
  <2>5. WindowsAreAhead'
    <3> SUFFICES ASSUME NEW d \in Calls \ {c}, limiterPc[d] = "take"
                 PROVE  /\ \A v \in Windows : at[d] <= resetAt'[v]
                        /\ first[d] <= at[d] + Length[Order[1]] + LimiterLag
      BY <1>2, <1>4, <2>2 DEF WindowsAreAhead
    <3>1. at[d] \in Nat
      BY DEF LimiterInv, LimiterTypeOK
    <3> QED
      BY <1>3, <1>4, <3>1 DEF LimiterInv, WindowsAreAhead
  <2> QED
    BY <1>6, <2>2, <2>3, <2>4, <2>5 DEF LimiterInv
<1>9. \/ /\ limiterPc' = [limiterPc EXCEPT ![c] = "take"]
         /\ first' = [first EXCEPT ![c] = resetAt'[Order[1]]]
         /\ UNCHANGED <<at, verdict>>
      \/ \E w \in Windows : Deny(c, w, Wait(resetAt'[w], a))
  <2> DEFINE full == {i \in DOMAIN Order : used'[Order[i]] >= Cap[Order[i]]}
  <2>1. CASE full = {}
    BY <1>1, <2>1 DEF Reset
  <2>2. CASE full # {}
    <3>1. full \subseteq Nat
      BY WindowIs
    <3>2. Min(full) \in full
      BY <2>2, <3>1, LowestIs
    <3>3. Order[Min(full)] \in Windows
      BY <3>2, WindowIs
    <3>4. Deny(c, Order[Min(full)], Wait(resetAt'[Order[Min(full)]], a))
      BY <1>1, <2>2 DEF Reset
    <3> QED
      BY <3>3, <3>4
  <2> QED
    BY <2>1, <2>2
<1> QED
  BY <1>7, <1>8, <1>9

LEMMA HighestIs ==
  ASSUME NEW n \in Nat
  PROVE  /\ Max({1, n}) \in Nat /\ Max({1, n}) \in {1, n}
<1>1. \E x \in {1, n} : \A y \in {1, n} : x >= y
  <2>1. CASE n >= 1
    BY <2>1
  <2>2. CASE ~(n >= 1)
    BY <2>2
  <2> QED
    BY <2>1, <2>2
<1> QED
  BY <1>1 DEF Max

\* A token that is taken belongs to the window under way.
LEMMA TokenEpochs ==
  ASSUME LimiterInv, NEW c \in Calls, limiterPc[c] = "take", Room,
         NEW n, n = now, NEW k \in Nat, <<n, k>> \notin granted, granted' = granted \cup {<<n, k>>},
         used' = [w \in Windows |-> used[w] + 1], UNCHANGED resetAt
  PROVE  TokensInEpochs' /\ BurstBounded'
<1>1. ASSUME NEW w \in Windows, NEW cur \in SUBSET granted, NEW prev \in SUBSET granted,
             Epochs(w, cur, prev)
      PROVE  /\ Epochs(w, cur \cup {<<n, k>>}, prev)'
             /\ \A t \in 1..MaxTime :
                  Granted(t, t + Length[w] + 1 - LimiterLag)' <= Cap[w] + Cap[w]
  <2>1. /\ used[w] \in Nat /\ used[w] < Cap[w] /\ Cap[w] \in Nat /\ Length[w] \in Nat
        /\ resetAt[w] \in Nat /\ resetAt[w] <= now + Length[w]
        /\ now <= resetAt[w] + LimiterLag /\ now \in Nat /\ LimiterLag \in Nat /\ now \in 1..MaxTime
    <3>1. /\ at[c] \in Nat /\ now <= at[c] + LimiterLag /\ at[c] <= resetAt[w]
          /\ resetAt[w] <= now + Length[w]
      BY DEF LimiterInv, LimiterTypeOK, CallsAreRecent, WindowsAreAhead
    <3>2. used[w] \in Nat /\ used[w] < Cap[w] /\ resetAt[w] \in Nat /\ now \in 1..MaxTime
      BY DEF LimiterInv, LimiterTypeOK, Room
    <3> QED
      BY <3>1, <3>2, WindowIs
  <2>2. /\ IsFiniteSet(cur) /\ IsFiniteSet(prev) /\ Cardinality(prev) \in Nat
        /\ \A g \in granted : g[1] \in Nat
    <3>1. LimiterTypeOK /\ cur \subseteq granted /\ prev \subseteq granted /\ granted \subseteq granted
      BY DEF LimiterInv
    <3>2. IsFiniteSet(cur) /\ IsFiniteSet(prev) /\ Cardinality(prev) \in Nat
      BY <3>1, TokenIs
    <3>3. \A g \in granted : g[1] \in 1..now
      BY <3>1, TokenIs
    <3> QED
      BY <3>2, <3>3
  <2> DEFINE new == cur \cup {<<n, k>>}
  <2>3. IsFiniteSet(new) /\ Cardinality(new) = used[w] + 1
    BY <1>1, <2>2, FS_AddElement DEF Epochs
  <2>4. Epochs(w, new, prev)'
    <3>1. used'[w] = used[w] + 1 /\ resetAt'[w] = resetAt[w]
      OBVIOUS
    <3>2. granted' \ (new \cup prev) \subseteq granted \ (cur \cup prev)
      OBVIOUS
    <3>3. \A g \in new : resetAt[w] <= g[1] + Length[w] /\ g[1] <= resetAt[w] + LimiterLag
      <4>1. <<n, k>>[1] = now
        OBVIOUS
      <4> QED
        BY <1>1, <2>1, <4>1 DEF Epochs
    <3> HIDE DEF new
    <3>4. /\ \A g \in prev : g[1] + Length[w] + 1 <= resetAt[w] + LimiterLag
          /\ \A g \in granted' \ (new \cup prev) :
               g[1] + Length[w] + Length[w] + 2 <= resetAt[w] + LimiterLag
          /\ Cardinality(prev) <= Cap[w]
      BY <1>1, <3>2 DEF Epochs
    <3> QED
      BY <2>3, <3>1, <3>3, <3>4 DEF Epochs
  <2>5. ASSUME NEW t \in 1..MaxTime
        PROVE  Granted(t, t + Length[w] + 1 - LimiterLag)' <= Cap[w] + Cap[w]
    <3> DEFINE end == t + Length[w] + 1 - LimiterLag
    <3>0. MaxTime \in Nat /\ t \in Nat /\ end \in Int
      BY <2>1, WindowIs
    <3>1. CASE now \in t..end
      <4>1. \A g \in granted : g[1] \in t..end => g \in cur \cup prev
        <5> SUFFICES ASSUME NEW g \in granted \ (cur \cup prev), g[1] >= t
                     PROVE  FALSE
          BY <2>2, <3>0
        <5>1. g[1] + Length[w] + Length[w] + 2 <= resetAt[w] + LimiterLag /\ g[1] \in Nat
          BY <1>1, <2>2 DEF Epochs
        <5>2. now <= t + Length[w] + 1 - LimiterLag
          BY <3>0, <3>1, <2>1
        <5> QED
          BY <2>1, <3>0, <5>1, <5>2
      <4>2. {g \in granted' : g[1] \in t..end} \subseteq new \cup prev
        BY <4>1
      <4>3. /\ IsFiniteSet(new \cup prev) /\ Cardinality(new \cup prev) \in Nat
            /\ Cardinality(new \cup prev) <= used[w] + 1 + Cardinality(prev)
        <5>1. /\ IsFiniteSet(new \cup prev)
              /\ Cardinality(new \cup prev) = Cardinality(new) + Cardinality(prev) - Cardinality(new \cap prev)
          BY <2>2, <2>3, FS_Union
        <5>2. Cardinality(new \cap prev) \in Nat
          BY <2>3, FS_Intersection, FS_CardinalityType
        <5> QED
          BY <2>1, <2>2, <2>3, <5>1, <5>2, FS_CardinalityType
      <4>4. /\ Cardinality({g \in granted' : g[1] \in t..end}) \in Nat
            /\ Cardinality({g \in granted' : g[1] \in t..end}) <= Cardinality(new \cup prev)
        BY <4>2, <4>3, FS_Subset, FS_CardinalityType
      <4>5. Cardinality(prev) <= Cap[w]
        BY <1>1 DEF Epochs
      <4>6. Cardinality({g \in granted' : g[1] \in t..end}) <= Cap[w] + Cap[w]
        BY <2>1, <2>2, <4>3, <4>4, <4>5
      <4> QED
        BY <4>6 DEF Granted
    <3>2. CASE now \notin t..end
      <4>1. {g \in granted' : g[1] \in t..end} = {g \in granted : g[1] \in t..end}
        BY <3>2
      <4>2. Granted(t, end) <= 2 * Cap[w]
        BY DEF LimiterInv, BurstBounded
      <4>3. Granted(t, end) <= Cap[w] + Cap[w]
        BY <2>1, <4>2
      <4> QED
        BY <4>1, <4>3 DEF Granted
    <3> QED
      BY <3>1, <3>2
  <2> QED
    BY <2>4, <2>5
<1>2. ASSUME NEW w \in Windows
      PROVE  /\ \E cur, prev \in SUBSET granted' : Epochs(w, cur, prev)'
             /\ \A t \in 1..MaxTime :
                  Granted(t, t + Length[w] + 1 - LimiterLag)' <= Cap[w] + Cap[w]
  <2>1. PICK cur \in SUBSET granted, prev \in SUBSET granted : Epochs(w, cur, prev)
    BY DEF LimiterInv, TokensInEpochs
  <2>2. cur \cup {<<n, k>>} \in SUBSET granted' /\ prev \in SUBSET granted'
    OBVIOUS
  <2> QED
    BY <1>1, <2>1, <2>2
<1>3. BurstBounded'
  <2> SUFFICES ASSUME NEW w \in Windows, NEW t \in 1..MaxTime
               PROVE  Granted(t, t + Length[w] + 1 - LimiterLag)' <= 2 * Cap[w]
    BY DEF BurstBounded
  <2>1. Cap[w] \in Nat /\ Granted(t, t + Length[w] + 1 - LimiterLag)' <= Cap[w] + Cap[w]
    BY <1>2, WindowIs
  <2>2. 2 * Cap[w] = Cap[w] + Cap[w]
    BY <2>1
  <2> QED
    BY <2>1, <2>2
<1> QED
  BY <1>2, <1>3 DEF TokensInEpochs

LEMMA TakePreserves ==
  ASSUME LimiterInv, NEW c \in Calls, Take(c)
  PROVE  LimiterInv'
<1>0. /\ limiterPc[c] = "take" /\ UNCHANGED <<now, resetAt>> /\ now \in Nat /\ LimiterLag \in Nat
      /\ now \in 1..now
  BY WindowIs DEF Take, LimiterInv, LimiterTypeOK
<1>1. CASE Room
  <2>1. PICK k \in Nat : k = Cardinality(granted) + 1 /\ Cardinality(granted) \in Nat
    BY TokenIs DEF LimiterInv
  <2>2. /\ used' = [w \in Windows |-> used[w] + 1] /\ granted' = granted \cup {<<now, k>>}
        /\ limiterPc' = [limiterPc EXCEPT ![c] = "idle"]
        /\ at' = [at EXCEPT ![c] = 0] /\ first' = [first EXCEPT ![c] = 0]
        /\ verdict' = [verdict EXCEPT ![c] = NoAnswer]
    BY <1>1, <2>1 DEF Take
  <2>3. <<now, k>> \notin granted
    <3> SUFFICES ASSUME <<now, k>> \in granted PROVE FALSE
      OBVIOUS
    <3>1. <<now, k>>[2] <= Cardinality(granted) /\ <<now, k>>[2] = k
      BY DEF LimiterInv, TokensAreNumbered
    <3> QED
      BY <2>1, <3>1
  <2>4. TokensInEpochs' /\ BurstBounded'
    <3>1. PICK n : n = now
      OBVIOUS
    <3>2. granted' = granted \cup {<<n, k>>} /\ <<n, k>> \notin granted
      BY <2>2, <2>3, <3>1
    <3> QED
      BY <1>0, <1>1, <2>2, <3>1, <3>2, TokenEpochs
  <2>5. IsFiniteSet(granted') /\ Cardinality(granted') = Cardinality(granted) + 1
    BY <2>2, <2>3, FS_AddElement DEF LimiterInv, LimiterTypeOK
  <2>6. TokensAreNumbered'
    <3> SUFFICES ASSUME NEW g \in granted'
                 PROVE  g[2] <= Cardinality(granted) + 1
      BY <2>5 DEF TokensAreNumbered
    <3>1. CASE g = <<now, k>>
      BY <2>1, <3>1
    <3>2. CASE g \in granted
      <4>1. g[2] \in Nat /\ g[2] <= Cardinality(granted)
        BY <3>2, TokenIs DEF LimiterInv, TokensAreNumbered
      <4> QED
        BY <2>1, <4>1
    <3> QED
      BY <2>2, <3>1, <3>2
  <2>7. NoAnswer \in Verdicts /\ NoAnswer.allowed
    BY DEF NoAnswer, Verdicts
  <2>8. LimiterTypeOK' /\ WithinCap'
    <3>1. \A w \in Windows : used[w] \in Nat /\ Cap[w] \in Nat /\ used[w] < Cap[w]
      BY <1>1, WindowIs DEF Room, LimiterInv, LimiterTypeOK
    <3>2. used' \in [Windows -> Nat] /\ WithinCap'
      BY <2>2, <3>1 DEF WithinCap
    <3>3. granted' \subseteq (1..now') \X Nat
      BY <1>0, <2>2 DEF LimiterInv, LimiterTypeOK
    <3>4. verdict' \in [Calls -> Verdicts]
      BY <2>2, <2>7 DEF LimiterInv, LimiterTypeOK, Verdicts
    <3> QED
      BY <1>0, <2>2, <2>5, <3>2, <3>3, <3>4 DEF LimiterInv, LimiterTypeOK, Verdicts
  <2>9. CallsAreRecent' /\ WindowsAreAhead'
    BY <1>0, <2>2 DEF LimiterInv, LimiterTypeOK, CallsAreRecent, WindowsAreAhead
  <2>10. WaitBounded'
    BY <2>2, <2>7 DEF LimiterInv, LimiterTypeOK, WaitBounded
  <2> QED
    BY <2>4, <2>6, <2>8, <2>9, <2>10 DEF LimiterInv
<1>2. CASE ~Room
  <2>1. Deny(c, Order[1], Max({1, Wait(first[c], at[c])})) /\ UNCHANGED <<used, granted>>
    BY <1>2 DEF Take
  <2>2. /\ first[c] \in Nat /\ at[c] \in Nat /\ first[c] <= at[c] + Length[Order[1]] + LimiterLag
        /\ Order[1] \in Windows /\ Length[Order[1]] \in Nat /\ Length[Order[1]] # 0
    BY <1>0, WindowIs DEF LimiterInv, LimiterTypeOK, WindowsAreAhead
  <2>3. PICK r \in Nat : r = Max({1, Wait(first[c], at[c])}) /\ r <= Length[Order[1]] + LimiterLag
    <3>1. Wait(first[c], at[c]) \in Nat /\ Wait(first[c], at[c]) <= Length[Order[1]] + LimiterLag
      BY <1>0, <2>2 DEF Wait
    <3> QED
      BY <1>0, <2>2, <3>1, HighestIs
  <2>4. /\ limiterPc' \in [Calls -> {"idle", "reset", "take"}] /\ at' \in [Calls -> Nat]
        /\ first' \in [Calls -> Nat] /\ verdict' \in [Calls -> Verdicts] /\ WaitBounded'
        /\ limiterPc'[c] = "idle"
        /\ \A d \in Calls \ {c} : /\ limiterPc'[d] = limiterPc[d] /\ at'[d] = at[d]
                                  /\ first'[d] = first[d]
    BY <2>1, <2>2, <2>3, DenyIs
  <2>5. LimiterTypeOK'
    BY <1>0, <2>1, <2>4 DEF LimiterInv, LimiterTypeOK, Verdicts
  <2>6. CallsAreRecent' /\ WindowsAreAhead'
    BY <1>0, <2>4 DEF LimiterInv, CallsAreRecent, WindowsAreAhead
  <2> QED
    BY <1>0, <2>1, <2>4, <2>5, <2>6, CountersStay DEF LimiterInv
<1> QED
  BY <1>1, <1>2

LEMMA LimiterBegins ==
  ASSUME LimiterInit
  PROVE  LimiterInv
<1>1. NoAnswer \in Verdicts /\ NoAnswer.allowed
  BY DEF NoAnswer, Verdicts
<1>2. granted = {} /\ IsFiniteSet(granted) /\ Cardinality({}) = 0 /\ \A t, e : {g \in {} : g[1] \in t..e} = {}
  BY FS_EmptySet DEF LimiterInit
<1>3. LimiterTypeOK
  <2>1. verdict \in [Calls -> Verdicts]
    BY <1>1 DEF LimiterInit
  <2>2. now \in 1..MaxTime
    BY WindowAssumption DEF LimiterInit
  <2>3. /\ used \in [Windows -> Nat] /\ resetAt \in [Windows -> Nat] /\ at \in [Calls -> Nat]
        /\ first \in [Calls -> Nat] /\ limiterPc \in [Calls -> {"idle", "reset", "take"}]
    BY DEF LimiterInit
  <2> QED
    BY <1>2, <2>1, <2>2, <2>3 DEF LimiterTypeOK, Verdicts
<1>4. WithinCap /\ WaitBounded /\ CallsAreRecent /\ WindowsAreAhead /\ TokensAreNumbered
  BY <1>1, <1>2, WindowIs DEF LimiterInit, WithinCap, WaitBounded, CallsAreRecent, WindowsAreAhead,
     TokensAreNumbered
<1>5. BurstBounded
  <2> SUFFICES ASSUME NEW w \in Windows, NEW t \in 1..MaxTime
               PROVE  Granted(t, t + Length[w] + 1 - LimiterLag) <= 2 * Cap[w]
    BY DEF BurstBounded
  <2>1. Granted(t, t + Length[w] + 1 - LimiterLag) = 0
    BY <1>2 DEF Granted
  <2>2. 0 <= 2 * Cap[w]
    BY WindowIs
  <2> QED
    BY <2>1, <2>2
<1>6. TokensInEpochs
  <2> SUFFICES ASSUME NEW w \in Windows
               PROVE  Epochs(w, {}, {})
    BY DEF TokensInEpochs
  <2>1. used[w] = 0 /\ 0 <= Cap[w]
    BY WindowIs DEF LimiterInit
  <2> QED
    BY <1>2, <2>1 DEF Epochs
<1> QED
  BY <1>3, <1>4, <1>5, <1>6 DEF LimiterInv

\* For any windows, lengths, caps, lag and number of calls: no window passes its
\* cap (checkRateLimit), no stretch of time as long as a window, less the lag, sees
\* more than twice its cap, and a refused call is told to wait no longer than its
\* window and the lag.
THEOREM LimiterIsSafe == LimiterSpec => []LimiterSafe
<1>1. LimiterInv /\ [LimiterNext]_limiterVars => LimiterInv'
  <2> SUFFICES ASSUME LimiterInv, [LimiterNext]_limiterVars
               PROVE  LimiterInv'
    OBVIOUS
  <2>1. CASE LimiterTick
    BY <2>1, LimiterTickPreserves
  <2>2. ASSUME NEW c \in Calls, Start(c) \/ Reset(c) \/ Take(c)
        PROVE  LimiterInv'
    BY <2>2, StartPreserves, ResetPreserves, TakePreserves
  <2>3. CASE UNCHANGED limiterVars
    <3>1. UNCHANGED <<now, used, resetAt, limiterPc, at, first, verdict, granted>>
      BY <2>3 DEF limiterVars, counters
    <3>2. LimiterTypeOK' /\ WaitBounded' /\ CallsAreRecent' /\ WindowsAreAhead'
      BY <3>1 DEF LimiterInv, LimiterTypeOK, WaitBounded, CallsAreRecent, WindowsAreAhead
    <3> QED
      BY <3>1, <3>2, CountersStay DEF LimiterInv
  <2> QED
    BY <2>1, <2>2, <2>3 DEF LimiterNext
<1>2. LimiterInv => LimiterSafe
  BY DEF LimiterInv, LimiterSafe
<1> QED
  BY <1>1, <1>2, LimiterBegins, PTL DEF LimiterSpec

-----------------------------------------------------------------------------
(* SharedBreaker: any number of deliveries, any threshold, window and lag. *)

\* Without a counter there is nothing to expire and nothing to be old.
EmptyIsNew == fails = 0 => failsTtl = 0 /\ born = 0
\* A report that is to set the expiry is at least as old as the counter: the
\* counter it made, or one that was made after that one was deleted.
ExpiryIsOlder == \A c \in Senders : SenderAt(c, "expire") => born <= senderLag[c]
\* Each tick of age is paid for with a tick of the expiry.
AgePaid == failsTtl > 0 => born + failsTtl <= Window + BreakerLag

BreakerInv == BreakerTypeOK /\ CounterWillExpire /\ EmptyIsNew /\ ExpiryIsOlder /\ AgePaid

LEMMA BreakerInvInit == BreakerInit => BreakerInv
<1> SUFFICES ASSUME BreakerInit PROVE BreakerInv
  OBVIOUS
<1>1. cutReport \in BOOLEAN /\ senderPc \in [Senders -> SenderSteps]
  BY Zenon DEF BreakerInit, SenderSteps
<1>2. BreakerTypeOK
  BY <1>1, BreakerAssumption DEF BreakerInit, BreakerTypeOK, OldestFail
<1>3. CounterWillExpire /\ EmptyIsNew /\ ExpiryIsOlder /\ AgePaid
  BY DEF BreakerInit, CounterWillExpire, EmptyIsNew, ExpiryIsOlder, AgePaid, SenderAt
<1> QED
  BY <1>2, <1>3 DEF BreakerInv

LEMMA BreakerInvImpliesSafe == BreakerInv => BreakerSafe
<1> SUFFICES ASSUME BreakerInv PROVE FailuresRecent
  BY DEF BreakerInv, BreakerSafe
<1> USE BreakerAssumption DEF BreakerInv, BreakerTypeOK, OldestFail
<1>1. CASE fails = 0
  BY <1>1 DEF EmptyIsNew, FailuresRecent
<1>2. CASE fails > 0 /\ failsTtl > 0
  BY <1>2 DEF AgePaid, FailuresRecent
<1>3. CASE fails > 0 /\ failsTtl = 0
  BY <1>3 DEF CounterWillExpire, ExpiryIsOlder, FailuresRecent
<1> QED
  BY <1>1, <1>2, <1>3

\* What one delivery does to its own step.
LEMMA GoMovesOne ==
  ASSUME BreakerTypeOK, NEW c \in Senders, NEW p \in SenderSteps, SenderGo(c, p)
  PROVE  /\ senderPc' \in [Senders -> SenderSteps] /\ senderLag' \in [Senders -> 0..BreakerLag]
         /\ blind' \subseteq Senders
         /\ senderPc'[c] = p
         /\ p # "idle" => senderLag'[c] = senderLag[c]
         /\ \A d \in Senders : d # c =>
              senderPc'[d] = senderPc[d] /\ senderLag'[d] = senderLag[d]
BY BreakerAssumption DEF BreakerTypeOK, SenderGo

LEMMA BreakerTickPreserves == ASSUME BreakerInv, BreakerTick PROVE BreakerInv'
<1> USE BreakerAssumption DEF BreakerInv
<1>1. cutReport' \in BOOLEAN
  BY Zenon DEF BreakerTick
<1>2. senderLag' \in [Senders -> 0..BreakerLag]
  BY DEF BreakerTypeOK, BreakerTick, SenderAt
<1>3. BreakerTypeOK'
  BY <1>1, <1>2 DEF BreakerTypeOK, BreakerTick, OldestFail
<1>4. EmptyIsNew' /\ AgePaid'
  BY DEF BreakerTypeOK, EmptyIsNew, AgePaid, BreakerTick, OldestFail
<1>5. ExpiryIsOlder'
  <2> SUFFICES ASSUME NEW c \in Senders, senderPc[c] = "expire" PROVE born' <= senderLag'[c]
    BY DEF ExpiryIsOlder, SenderAt, BreakerTick
  <2>1. born <= senderLag[c] /\ senderLag'[c] = senderLag[c] + 1
    BY DEF ExpiryIsOlder, SenderAt, BreakerTick, BreakerTypeOK
  <2>2. born' <= born + 1
    BY DEF BreakerTick, BreakerTypeOK, OldestFail
  <2> QED
    BY <2>1, <2>2, <1>3 DEF BreakerTypeOK, OldestFail
<1>6. CounterWillExpire'
  <2> SUFFICES ASSUME fails' > 0, failsTtl' = 0
               PROVE  cutReport' \/ \E c \in Senders : senderPc[c] = "expire"
    BY DEF CounterWillExpire, SenderAt, BreakerTick
  <2>1. fails > 0 /\ failsTtl = 0
    BY DEF BreakerTick, BreakerTypeOK
  <2>2. cutReport \/ \E c \in Senders : senderPc[c] = "expire"
    BY <2>1 DEF CounterWillExpire, SenderAt
  <2> QED
    BY <2>2 DEF BreakerTick
<1> QED
  BY <1>3, <1>4, <1>5, <1>6

\* Begin, Outcome, Trip, DelState: the counter is left alone, and so is the step
\* of whoever is to set its expiry.
LEMMA QuietPreserves ==
  ASSUME BreakerInv, NEW c \in Senders,
         Begin(c) \/ Outcome(c) \/ Trip(c) \/ DelState(c)
  PROVE  BreakerInv'
<1> USE BreakerAssumption DEF BreakerInv
<1>1. PICK p \in SenderSteps \ {"expire"} : SenderGo(c, p) /\ senderPc[c] # "expire"
  BY DEF Begin, Outcome, Trip, DelState, SenderSteps, SenderAt
<1>2. UNCHANGED <<fails, failsTtl, born, cutReport>> /\ open' \in 0..ResetFor
  BY DEF Begin, Outcome, Trip, DelState, keys, breakerHistory, BreakerTypeOK
<1>3. BreakerTypeOK'
  BY <1>1, <1>2, GoMovesOne DEF BreakerTypeOK
<1>4. EmptyIsNew' /\ AgePaid'
  BY <1>2 DEF EmptyIsNew, AgePaid
<1>5. \A d \in Senders :
        /\ senderPc'[d] = "expire" <=> senderPc[d] = "expire"
        /\ senderPc[d] = "expire" => senderLag'[d] = senderLag[d]
  BY <1>1, GoMovesOne
<1>6. ExpiryIsOlder' /\ CounterWillExpire'
  BY <1>2, <1>5 DEF ExpiryIsOlder, CounterWillExpire, SenderAt
<1> QED
  BY <1>3, <1>4, <1>6

\* BeginUnread moves nobody who is to set an expiry.
LEMMA UnreadPreserves == ASSUME BreakerInv, NEW c \in Senders, BeginUnread(c) PROVE BreakerInv'
<1> USE DEF BreakerInv
<1>1. /\ senderPc' = [senderPc EXCEPT ![c] = "send"] /\ blind' = blind \cup {c}
      /\ UNCHANGED <<fails, failsTtl, open, senderLag, born, cutReport>> /\ senderPc[c] = "idle"
  BY DEF BeginUnread, keys, breakerHistory, SenderAt
<1>2. BreakerTypeOK'
  BY <1>1 DEF BreakerTypeOK, SenderSteps
<1>3. \A d \in Senders : senderPc'[d] = "expire" <=> senderPc[d] = "expire"
  BY <1>1 DEF BreakerTypeOK
<1>4. CounterWillExpire' /\ EmptyIsNew' /\ ExpiryIsOlder' /\ AgePaid'
  BY <1>1, <1>3 DEF CounterWillExpire, EmptyIsNew, ExpiryIsOlder, AgePaid, SenderAt
<1> QED
  BY <1>2, <1>4

LEMMA IncrPreserves == ASSUME BreakerInv, NEW c \in Senders, Incr(c) PROVE BreakerInv'
<1> USE BreakerAssumption DEF BreakerInv
<1>1. /\ fails' \in 1..MaxFails /\ (fails' = 1 <=> fails = 0)
      /\ UNCHANGED <<failsTtl, open, born, cutReport>>
  BY DEF Incr, BreakerTypeOK, breakerHistory
<1>2. PICK p \in SenderSteps :
        SenderGo(c, p) /\ (p = "expire" <=> fails = 0) /\ senderPc[c] = "incr"
  BY <1>1 DEF Incr, AfterIncr, SenderSteps, SenderAt
<1>3. BreakerTypeOK'
  BY <1>1, <1>2, GoMovesOne DEF BreakerTypeOK
<1>4. EmptyIsNew' /\ AgePaid'
  BY <1>1 DEF EmptyIsNew, AgePaid
<1>5. ExpiryIsOlder'
  <2> SUFFICES ASSUME NEW d \in Senders, senderPc'[d] = "expire" PROVE born <= senderLag'[d]
    BY <1>1 DEF ExpiryIsOlder, SenderAt
  <2>1. CASE d = c
    BY <2>1, <1>2, <1>3, GoMovesOne DEF EmptyIsNew, BreakerTypeOK
  <2>2. CASE d # c
    BY <2>2, <1>2, GoMovesOne DEF ExpiryIsOlder, SenderAt
  <2> QED
    BY <2>1, <2>2
<1>6. CounterWillExpire'
  <2>1. CASE fails = 0
    BY <2>1, <1>2, GoMovesOne DEF CounterWillExpire, SenderAt
  <2>2. CASE fails > 0
    <3>1. \A d \in Senders : senderPc[d] = "expire" => senderPc'[d] = "expire"
      BY <1>2, GoMovesOne
    <3> QED
      BY <2>2, <3>1, <1>1 DEF CounterWillExpire, SenderAt
  <2> QED
    BY <2>1, <2>2 DEF BreakerTypeOK
<1> QED
  BY <1>3, <1>4, <1>5, <1>6

LEMMA ExpirePreserves == ASSUME BreakerInv, NEW c \in Senders, Expire(c) PROVE BreakerInv'
<1> USE BreakerAssumption DEF BreakerInv
<1>1. /\ failsTtl' = (IF fails > 0 THEN Window ELSE 0)
      /\ UNCHANGED <<fails, open, born, cutReport>>
  BY DEF Expire, breakerHistory
<1>2. PICK p \in SenderSteps \ {"expire"} : SenderGo(c, p)
  BY DEF Expire, SenderSteps
<1>3. BreakerTypeOK'
  BY <1>1, <1>2, GoMovesOne DEF BreakerTypeOK
<1>4. born <= senderLag[c] /\ senderLag[c] <= BreakerLag /\ born \in Nat
  BY DEF Expire, ExpiryIsOlder, BreakerTypeOK, OldestFail
<1>5. EmptyIsNew' /\ AgePaid' /\ CounterWillExpire'
  BY <1>1, <1>4 DEF EmptyIsNew, AgePaid, CounterWillExpire, BreakerTypeOK
<1>6. ExpiryIsOlder'
  BY <1>1, <1>2, GoMovesOne DEF ExpiryIsOlder, SenderAt
<1> QED
  BY <1>3, <1>5, <1>6

LEMMA DelFailsPreserves == ASSUME BreakerInv, NEW c \in Senders, DelFails(c) PROVE BreakerInv'
<1> USE BreakerAssumption DEF BreakerInv
<1>1. fails' = 0 /\ failsTtl' = 0 /\ born' = 0 /\ cutReport' \in BOOLEAN /\ open' = open
  BY Zenon DEF DelFails
<1>2. SenderGo(c, "idle") /\ "idle" \in SenderSteps
  BY DEF DelFails, SenderSteps
<1>3. BreakerTypeOK'
  BY <1>1, <1>2, GoMovesOne DEF BreakerTypeOK, OldestFail
<1>4. ExpiryIsOlder'
  BY <1>1, <1>3 DEF ExpiryIsOlder, BreakerTypeOK
<1>5. EmptyIsNew' /\ AgePaid' /\ CounterWillExpire'
  BY <1>1 DEF EmptyIsNew, AgePaid, CounterWillExpire
<1> QED
  BY <1>3, <1>4, <1>5

LEMMA AbortPreserves == ASSUME BreakerInv, NEW c \in Senders, Abort(c) PROVE BreakerInv'
<1> USE BreakerAssumption DEF BreakerInv
<1>1. UNCHANGED <<fails, failsTtl, open, born>>
  BY DEF Abort, keys
<1>2. SenderGo(c, "idle") /\ "idle" \in SenderSteps
  BY DEF Abort, SenderSteps
<1>3. cutReport' \in BOOLEAN
  BY Zenon DEF Abort
<1>4. BreakerTypeOK'
  BY <1>1, <1>2, <1>3, GoMovesOne DEF BreakerTypeOK
<1>5. EmptyIsNew' /\ AgePaid'
  BY <1>1 DEF EmptyIsNew, AgePaid
<1>6. ExpiryIsOlder'
  BY <1>1, <1>2, GoMovesOne DEF ExpiryIsOlder, SenderAt
<1>7. CounterWillExpire'
  <2> SUFFICES ASSUME fails > 0, failsTtl = 0
               PROVE  cutReport' \/ \E d \in Senders : senderPc'[d] = "expire"
    BY <1>1 DEF CounterWillExpire, SenderAt
  <2>1. CASE cutReport \/ senderPc[c] = "expire"
    BY <2>1 DEF Abort, SenderAt
  <2>2. CASE \E d \in Senders : d # c /\ senderPc[d] = "expire"
    BY <2>2, <1>2, GoMovesOne
  <2> QED
    BY <2>1, <2>2 DEF CounterWillExpire, SenderAt
<1> QED
  BY <1>4, <1>5, <1>6, <1>7

\* Whatever the reports of the replicas do to the two keys between each other's
\* commands, and wherever they are cut short, the counter either expires or owes
\* its immortality to a report cut between INCR and PEXPIRE (recordFailure).
THEOREM BreakerIsSafe == BreakerSpec => []BreakerSafe
<1>1. BreakerInit => BreakerInv
  BY BreakerInvInit
<1>2. BreakerInv /\ [BreakerNext]_breakerVars => BreakerInv'
  <2> SUFFICES ASSUME BreakerInv, [BreakerNext]_breakerVars PROVE BreakerInv'
    OBVIOUS
  <2>1. CASE BreakerNext
    BY <2>1, BreakerTickPreserves, QuietPreserves, UnreadPreserves, IncrPreserves, ExpirePreserves,
       DelFailsPreserves, AbortPreserves
       DEF BreakerNext, Report
  <2>2. CASE UNCHANGED breakerVars
    BY <2>2 DEF breakerVars, keys, breakerHistory, BreakerInv, BreakerTypeOK,
                CounterWillExpire, EmptyIsNew, ExpiryIsOlder, AgePaid, SenderAt
  <2> QED
    BY <2>1, <2>2
<1> QED
  BY <1>1, <1>2, BreakerInvImpliesSafe, PTL DEF BreakerSpec

-----------------------------------------------------------------------------
(* EndpointCache: any number of deliveries and writes, time to live and lag. *)

\* A version ages from the write that replaces it.
FreshIsNew == \A v \in 0..MaxVersion : ~Replaced(v) => age[v] = 0
\* A fill stores what was current when it was read.
FillBounded == \A d \in Deliveries : DeliveryAt(d, "fill") => age[read[d]] <= readLag[d]
\* The entry pays for each tick of age with a tick of its time to live.
EntryBounded == cached # None => age[cached] + ttl <= Ttl + CacheLag
UseBounded ==
  \A d \in Deliveries : DeliveryAt(d, "use") => age[read[d]] <= Ttl + CacheLag + readLag[d]
\* A write leaves at most one invalidation behind.
InvalidationsCounted == invalidations <= version + (IF gone THEN 1 ELSE 0)

CacheInv ==
  /\ CacheTypeOK /\ FreshIsNew /\ FillBounded /\ EntryBounded /\ UseBounded
  /\ InvalidationsCounted

LEMMA CacheInvInit == CacheInit => CacheInv
<1> SUFFICES ASSUME CacheInit PROVE CacheInv
  OBVIOUS
<1>1. CacheTypeOK
  <2>1. gone \in BOOLEAN /\ cachePc \in [Deliveries -> {"idle", "load", "fill", "use"}]
    BY Zenon DEF CacheInit
  <2>2. /\ read \in [Deliveries -> 0..MaxVersion] /\ readLag \in [Deliveries -> 0..CacheLag]
        /\ age \in [0..MaxVersion -> 0..OldestCopy]
    BY CacheAssumption DEF CacheInit, OldestCopy
  <2> QED
    BY <2>1, <2>2, CacheAssumption DEF CacheInit, CacheTypeOK, None
<1>2. FreshIsNew /\ FillBounded /\ UseBounded
  BY DEF CacheInit, FreshIsNew, FillBounded, UseBounded, DeliveryAt
<1>3. EntryBounded /\ InvalidationsCounted
  BY DEF CacheInit, EntryBounded, InvalidationsCounted
<1> QED
  BY <1>1, <1>2, <1>3 DEF CacheInv

LEMMA CacheInvImpliesSafe == CacheInv => CacheSafe
BY CacheAssumption
   DEF CacheInv, CacheSafe, CacheTypeOK, EntryBounded, UseBounded, StaleBounded, DeliveryAt,
       None, OldestCopy

LEMMA CacheTickPreserves == ASSUME CacheInv, CacheTick PROVE CacheInv'
<1> USE CacheAssumption DEF CacheInv
<1>1. CacheTypeOK'
  <2>1. readLag' \in [Deliveries -> 0..CacheLag]
    BY DEF CacheTypeOK, CacheTick, DeliveryAt
  <2>2. age' \in [0..MaxVersion -> 0..OldestCopy]
    BY DEF CacheTypeOK, CacheTick, OldestCopy
  <2>3. cached' \in 0..None /\ ttl' \in 0..Ttl /\ (cached' = None <=> ttl' = 0)
    BY DEF CacheTypeOK, CacheTick, None
  <2> QED
    BY <2>1, <2>2, <2>3 DEF CacheTypeOK, CacheTick, doc, None
<1>2. \A v \in 0..MaxVersion : age'[v] <= age[v] + 1
  BY DEF CacheTypeOK, CacheTick, OldestCopy
<1>3. \A d \in Deliveries : ~DeliveryAt(d, "idle") => readLag'[d] = readLag[d] + 1
  BY DEF CacheTypeOK, CacheTick
<1>4. FreshIsNew'
  BY DEF CacheTypeOK, FreshIsNew, CacheTick, Replaced, doc
<1>5. FillBounded' /\ UseBounded'
  <2> SUFFICES ASSUME NEW d \in Deliveries
               PROVE  /\ DeliveryAt(d, "fill") => age'[read[d]] <= readLag'[d]
                      /\ DeliveryAt(d, "use") =>
                           age'[read[d]] <= Ttl + CacheLag + readLag'[d]
    BY DEF FillBounded, UseBounded, CacheTick, DeliveryAt
  <2>1. read[d] \in 0..MaxVersion /\ readLag[d] \in Nat
    BY DEF CacheTypeOK
  <2>2. age[read[d]] \in Nat /\ age'[read[d]] \in Nat /\ age'[read[d]] <= age[read[d]] + 1
    <3>1. OldestCopy \in Nat
      BY DEF OldestCopy
    <3>2. age \in [0..MaxVersion -> 0..OldestCopy] /\ age' \in [0..MaxVersion -> 0..OldestCopy]
      BY <1>1 DEF CacheTypeOK, OldestCopy
    <3> QED
      BY <1>2, <2>1, <3>1, <3>2
  <2>3. ~DeliveryAt(d, "idle") => readLag'[d] = readLag[d] + 1
    BY <1>3
  <2> QED
    BY <2>1, <2>2, <2>3 DEF FillBounded, UseBounded, DeliveryAt
<1>6. EntryBounded'
  BY <1>1, <1>2 DEF CacheTypeOK, EntryBounded, CacheTick, None, OldestCopy
<1>7. InvalidationsCounted'
  BY DEF InvalidationsCounted, CacheTick, doc
<1> QED
  BY <1>1, <1>4, <1>5, <1>6, <1>7

\* A delivery that takes up a version as old as its step allows.
LEMMA HoldPreserves ==
  ASSUME CacheInv, NEW d \in Deliveries, NEW p \in {"idle", "load", "fill", "use"},
         NEW v \in 0..MaxVersion, Hold(d, p, v), UNCHANGED <<doc, invalidations, age>>,
         CacheTypeOK', EntryBounded',
         p = "fill" => age[v] <= 0,
         p = "use" => age[v] <= Ttl + CacheLag
  PROVE  CacheInv'
<1> USE CacheAssumption DEF CacheInv
<1>1. FreshIsNew' /\ InvalidationsCounted'
  BY DEF FreshIsNew, InvalidationsCounted, Replaced, doc
<1>2. \A c \in Deliveries : c # d =>
        cachePc'[c] = cachePc[c] /\ read'[c] = read[c] /\ readLag'[c] = readLag[c]
  BY DEF CacheTypeOK, Hold
<1>3. cachePc'[d] = p /\ read'[d] = v /\ readLag'[d] = 0
  BY DEF CacheTypeOK, Hold
<1>4. FillBounded' /\ UseBounded'
  <2> SUFFICES ASSUME NEW c \in Deliveries
               PROVE  /\ cachePc'[c] = "fill" => age[read'[c]] <= readLag'[c]
                      /\ cachePc'[c] = "use" => age[read'[c]] <= Ttl + CacheLag + readLag'[c]
    BY DEF FillBounded, UseBounded, DeliveryAt
  <2>1. CASE c = d
    BY <2>1, <1>3
  <2>2. CASE c # d
    BY <2>2, <1>2 DEF FillBounded, UseBounded, DeliveryAt
  <2> QED
    BY <2>1, <2>2
<1> QED
  BY <1>1, <1>4

LEMMA StepPreserves == ASSUME CacheInv, NEW d \in Deliveries, Step(d) PROVE CacheInv'
<1> USE CacheAssumption DEF CacheInv
<1>1. CASE Get(d)
  <2>1. PICK p \in {"load", "use"}, v \in 0..MaxVersion :
          Hold(d, p, v) /\ (p = "use" => cached # None /\ v = cached)
    BY <1>1 DEF CacheTypeOK, Get, None
  <2>2. CacheTypeOK' /\ EntryBounded'
    BY <1>1, <2>1 DEF CacheTypeOK, EntryBounded, Get, Hold, doc, entry, None
  <2>3. p = "use" => age[v] <= Ttl + CacheLag
    BY <2>1 DEF CacheTypeOK, EntryBounded, None, OldestCopy
  <2> QED
    BY <1>1, <2>1, <2>2, <2>3, HoldPreserves DEF Get
<1>2. CASE LoadDoc(d)
  <2>1. PICK p \in {"idle", "fill"}, v \in 0..MaxVersion :
          Hold(d, p, v) /\ (p = "fill" => ~gone /\ v = version)
    BY <1>2 DEF CacheTypeOK, LoadDoc
  <2>2. CacheTypeOK' /\ EntryBounded'
    BY <1>2, <2>1 DEF CacheTypeOK, EntryBounded, LoadDoc, Hold, doc, entry, None
  <2>3. p = "fill" => age[v] <= 0
    BY <2>1 DEF CacheTypeOK, FreshIsNew, Replaced
  <2> QED
    BY <1>2, <2>1, <2>2, <2>3, HoldPreserves DEF LoadDoc
<1>3. CASE Fill(d)
  <2>1. Hold(d, "use", read[d]) /\ read[d] \in 0..MaxVersion
    BY <1>3 DEF CacheTypeOK, Fill
  <2>2. age[read[d]] <= CacheLag
    BY <1>3 DEF CacheTypeOK, FillBounded, Fill, OldestCopy
  <2>3. (cached' = read[d] /\ ttl' = Ttl) \/ UNCHANGED <<cached, ttl>>
    BY <1>3 DEF Fill, entry
  <2>4. age[read[d]] \in Nat /\ UNCHANGED <<doc, invalidations, age>>
    BY <1>3, <2>1 DEF CacheTypeOK, OldestCopy, Fill
  <2>5. cached' \in 0..None /\ ttl' \in 0..Ttl /\ (cached' = None <=> ttl' = 0)
    BY <2>1, <2>3 DEF CacheTypeOK, None
  <2>6. CacheTypeOK'
    BY <2>1, <2>4, <2>5 DEF CacheTypeOK, Hold, doc, None, OldestCopy
  <2>7. EntryBounded'
    BY <2>1, <2>2, <2>3, <2>4 DEF EntryBounded, CacheTypeOK, None
  <2>8. age[read[d]] <= Ttl + CacheLag
    BY <2>2, <2>4
  <2> QED
    BY <2>1, <2>4, <2>6, <2>7, <2>8, HoldPreserves
<1>4. CASE Use(d)
  <2>1. CacheTypeOK' /\ EntryBounded'
    BY <1>4 DEF CacheTypeOK, EntryBounded, Use, Hold, doc, entry, None
  <2> QED
    BY <1>4, <2>1, HoldPreserves DEF Use
<1> QED
  BY <1>1, <1>2, <1>3, <1>4 DEF Step

LEMMA WritePreserves == ASSUME CacheInv, Update \/ Remove \/ Invalidate PROVE CacheInv'
<1> USE CacheAssumption DEF CacheInv
<1>1. CacheTypeOK' /\ InvalidationsCounted'
  <2>1. CASE Update
    BY <2>1 DEF CacheTypeOK, InvalidationsCounted, Update, entry, None
  <2>2. CASE Remove
    <3>1. gone' = TRUE /\ gone = FALSE /\ version' = version
      BY <2>2 DEF Remove, CacheTypeOK
    <3>2. gone' \in BOOLEAN
      BY <3>1, Zenon
    <3>3. invalidations' = invalidations + 1 /\ invalidations <= version
      BY <2>2, <3>1 DEF Remove, InvalidationsCounted, CacheTypeOK
    <3>4. invalidations' \in 0..(MaxVersion + 1) /\ InvalidationsCounted'
      BY <3>1, <3>3 DEF InvalidationsCounted, CacheTypeOK
    <3> QED
      BY <2>2, <3>1, <3>2, <3>4 DEF CacheTypeOK, Remove, entry, None, OldestCopy
  <2>3. CASE Invalidate
    BY <2>3 DEF CacheTypeOK, InvalidationsCounted, Invalidate, doc, entry, None
  <2> QED
    BY <2>1, <2>2, <2>3
<1>2. FreshIsNew'
  BY DEF CacheTypeOK, FreshIsNew, Update, Remove, Invalidate, Replaced, doc
<1>3. FillBounded' /\ UseBounded'
  BY DEF FillBounded, UseBounded, Update, Remove, Invalidate, DeliveryAt
<1>4. EntryBounded'
  BY DEF EntryBounded, Update, Remove, Invalidate, entry, None
<1> QED
  BY <1>1, <1>2, <1>3, <1>4

\* However fills, writes and failed invalidations interleave, no delivery works
\* with a configuration that was replaced longer ago than the time to live and
\* the lag of two deliveries (deliver, invalidateEndpointCache).
THEOREM CacheIsSafe == CacheSpec => []CacheSafe
<1>1. CacheInit => CacheInv
  BY CacheInvInit
<1>2. CacheInv /\ [CacheNext]_cacheVars => CacheInv'
  <2> SUFFICES ASSUME CacheInv, [CacheNext]_cacheVars PROVE CacheInv'
    OBVIOUS
  <2>1. CASE CacheNext
    BY <2>1, CacheTickPreserves, WritePreserves, StepPreserves DEF CacheNext
  <2>2. CASE UNCHANGED cacheVars
    BY <2>2 DEF cacheVars, doc, entry, CacheInv, CacheTypeOK, FreshIsNew, FillBounded,
                EntryBounded, UseBounded, InvalidationsCounted, DeliveryAt, Replaced
  <2> QED
    BY <2>1, <2>2
<1> QED
  BY <1>1, <1>2, CacheInvImpliesSafe, PTL DEF CacheSpec

-----------------------------------------------------------------------------
(* LogWriter: any rows and sizes. *)

\* What is buffered while an insert is under way is known to have come then.  While
\* the process closes, what is buffered is known to be left, and what is inserted is
\* that or waited for.
FlushKeepsUp == process # "down" /\ flushing => buffer \subseteq during
LeftOrAwaited ==
  /\ process = "closing" => buffer \subseteq left /\ (awaited \/ batch \subseteq left)
  /\ process = "up" => left = {} /\ ~awaited
WriterInv == WriterSafe /\ FlushKeepsUp /\ LeftOrAwaited

LEMMA WriterInvInit == WriterInit => WriterInv
BY DEF WriterInit, WriterInv, WriterSafe, WriterTypeOK, StrandedOnlyByInsert, CleanExit,
       FlushKeepsUp, LeftOrAwaited

\* flush() on the buffer, or on the buffer and one more row.
LEMMA FlushTyped ==
  ASSUME WriterTypeOK, NEW b \in SUBSET Rows, b \cap batch = {}, buffer \subseteq b,
         NEW armed \in BOOLEAN, Flush(b, armed)
  PROVE  /\ buffer' \subseteq Rows /\ batch' \subseteq Rows /\ during' \subseteq Rows
         /\ flushing' \in BOOLEAN /\ timer' \in BOOLEAN
         /\ buffer' \cap batch' = {} /\ (batch' # {} => flushing')
         /\ \/ /\ ~flushing /\ buffer' = {} /\ batch' \subseteq b
               /\ (flushing' \/ b = {}) /\ (flushing' \/ batch' = {})
            \/ /\ flushing /\ flushing' /\ buffer' = b /\ batch' = batch
               /\ during' = during \cup (b \ buffer)
BY DEF WriterTypeOK, Flush

LEMMA EnqueueKeeps ==
  ASSUME WriterInv, NEW r \in Rows, Enqueue(r)
  PROVE  WriterInv'
<1> USE DEF WriterInv, WriterSafe, WriterTypeOK, StrandedOnlyByInsert, CleanExit,
            FlushKeepsUp, LeftOrAwaited
<1> DEFINE b == buffer \cup {r}
<1>1. /\ process # "down" /\ UNCHANGED <<process, awaited, hooked, killed>>
      /\ left' = IF process = "closing" THEN left \cup {r} ELSE left
      /\ b \in SUBSET Rows /\ b \cap batch = {} /\ buffer \subseteq b /\ b # {}
  BY DEF Enqueue
<1>2. CASE Flush(b, timer)
  <2>1. /\ buffer' \subseteq Rows /\ batch' \subseteq Rows /\ during' \subseteq Rows
        /\ flushing' \in BOOLEAN /\ timer' \in BOOLEAN
        /\ buffer' \cap batch' = {} /\ (batch' # {} => flushing')
        /\ \/ ~flushing /\ buffer' = {} /\ batch' \subseteq b /\ flushing'
           \/ /\ flushing /\ flushing' /\ buffer' = b /\ batch' = batch
              /\ during' = during \cup (b \ buffer)
    BY <1>1, <1>2, FlushTyped
  <2> QED
    BY <1>1, <2>1
<1>3. CASE /\ buffer' = b /\ timer' = (timer \/ Arm)
           /\ during' = IF flushing THEN during \cup {r} ELSE during
           /\ UNCHANGED <<batch, flushing>>
  BY <1>1, <1>3 DEF Arm
<1> QED
  BY <1>2, <1>3 DEF Enqueue

\* flush() on the buffer as it is: a timer that fires, and the two callers of
\* onModuleDestroy.
LEMMA FlushBuffer ==
  ASSUME WriterTypeOK, NEW armed \in BOOLEAN, Flush(buffer, armed)
  PROVE  /\ buffer' \subseteq Rows /\ batch' \subseteq Rows /\ during' \subseteq Rows
         /\ flushing' \in BOOLEAN /\ timer' \in BOOLEAN
         /\ buffer' \cap batch' = {} /\ (batch' # {} => flushing')
         /\ \/ /\ ~flushing /\ buffer' = {} /\ batch' \subseteq buffer
               /\ (flushing' \/ batch' = {})
            \/ /\ flushing /\ flushing' /\ buffer' = buffer /\ batch' = batch
               /\ during' = during
<1>1. buffer \in SUBSET Rows /\ buffer \cap batch = {} /\ buffer \subseteq buffer
  BY DEF WriterTypeOK
<1> QED
  BY <1>1, FlushTyped

LEMMA FlushKeeps ==
  ASSUME WriterInv, Fire \/ HookStop
  PROVE  WriterInv'
<1> USE DEF WriterInv, WriterSafe, WriterTypeOK, StrandedOnlyByInsert, CleanExit,
            FlushKeepsUp, LeftOrAwaited
<1>1. PICK armed \in BOOLEAN : Flush(buffer, armed)
  BY DEF Fire, HookStop
<1>2. /\ UNCHANGED <<process, awaited, left, killed>> /\ process # "down"
      /\ hooked' \in BOOLEAN
  BY DEF Fire, HookStop
<1>3. /\ buffer' \subseteq Rows /\ batch' \subseteq Rows /\ during' \subseteq Rows
      /\ flushing' \in BOOLEAN /\ timer' \in BOOLEAN
      /\ buffer' \cap batch' = {} /\ (batch' # {} => flushing')
      /\ \/ ~flushing /\ buffer' = {} /\ batch' \subseteq buffer
         \/ /\ flushing /\ flushing' /\ buffer' = buffer /\ batch' = batch
            /\ during' = during
  BY <1>1, FlushBuffer
<1> QED
  BY <1>2, <1>3

LEMMA InsertedKeeps == WriterInv /\ Inserted => WriterInv'
BY DEF WriterInv, WriterSafe, WriterTypeOK, StrandedOnlyByInsert, CleanExit,
       FlushKeepsUp, LeftOrAwaited, Inserted

LEMMA StopKeeps == WriterInv /\ Stop => WriterInv'
<1> SUFFICES ASSUME WriterInv, Stop PROVE WriterInv'
  OBVIOUS
<1> USE DEF WriterInv, WriterSafe, WriterTypeOK, StrandedOnlyByInsert, CleanExit,
            FlushKeepsUp, LeftOrAwaited
<1>1. /\ process = "up" /\ process' = "closing" /\ UNCHANGED <<hooked, killed>>
      /\ awaited' = (flushing' /\ ~flushing)
      /\ left' = IF flushing THEN buffer \cup batch ELSE left
      /\ Flush(buffer, timer)
  BY DEF Stop
<1>2. /\ buffer' \subseteq Rows /\ batch' \subseteq Rows /\ during' \subseteq Rows
      /\ flushing' \in BOOLEAN /\ timer' \in BOOLEAN
      /\ buffer' \cap batch' = {} /\ (batch' # {} => flushing')
      /\ \/ ~flushing /\ buffer' = {} /\ (flushing' \/ batch' = {})
         \/ /\ flushing /\ flushing' /\ buffer' = buffer /\ batch' = batch
            /\ during' = during
  BY <1>1, FlushBuffer
<1>3. awaited' \in BOOLEAN /\ left' \subseteq Rows
  BY <1>1, <1>2
<1> QED
  BY <1>1, <1>2, <1>3

LEMMA EndKeeps == WriterInv /\ (Exit \/ Kill) => WriterInv'
BY DEF WriterInv, WriterSafe, WriterTypeOK, StrandedOnlyByInsert, CleanExit,
       FlushKeepsUp, LeftOrAwaited, Exit, Kill

LEMMA WriterInvNext == WriterInv /\ [WriterNext]_writerVars => WriterInv'
<1> SUFFICES ASSUME WriterInv, [WriterNext]_writerVars PROVE WriterInv'
  OBVIOUS
<1>1. CASE WriterNext
  BY <1>1, EnqueueKeeps, FlushKeeps, InsertedKeeps, StopKeeps, EndKeeps DEF WriterNext
<1>2. CASE UNCHANGED writerVars
  BY <1>2 DEF writerVars, WriterInv, WriterSafe, WriterTypeOK, StrandedOnlyByInsert, CleanExit,
              FlushKeepsUp, LeftOrAwaited
<1> QED
  BY <1>1, <1>2

\* Rows stay behind only if they came during an insert, and are lost by an orderly
\* exit only if they came after onModuleDestroy was called, or if that call met an
\* insert; whatever the sizes (enqueue, flush, onModuleDestroy).
THEOREM WriterIsSafe == WriterSpec => []WriterSafe
<1>1. WriterInv => WriterSafe
  BY DEF WriterInv
<1> QED
  BY <1>1, WriterInvInit, WriterInvNext, PTL DEF WriterSpec
=============================================================================
