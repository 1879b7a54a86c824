---------------------------- MODULE LocalBreakers ----------------------------
(***************************************************************************)
(* The circuit breakers a process keeps in memory, one per endpoint        *)
(* (DeliveryService.getBreaker): a Map of bounded size, in the order the   *)
(* breakers were made, which is that of their numbers.  A delivery holds   *)
(* on to the breaker it was given, in the Map or not.  The breakers        *)
(* themselves are opossum's.                                               *)
(***************************************************************************)
EXTENDS Integers, Sequences, FiniteSets

CONSTANTS
  Targets,       \* endpoints
  Couriers,      \* deliveries in flight
  MaxBreakers,   \* MAX_BREAKERS
  MaxMade, MaxReopened  \* bounds: breakers ever made, probes that fail

ASSUME LocalAssumption == MaxBreakers \in Nat \ {0} /\ MaxMade \in Nat /\ MaxReopened \in Nat

VARIABLES
  breakers,  \* the Map: numbers of breakers
  made,      \* per breaker made: its endpoint and its state
  courier,   \* per delivery: step and breaker
  gauge,     \* circuitBreakersOpen
  reopened,  \* history: probes that failed
  excused    \* history: breakers evicted as a last resort, or with a call under way

localVars == <<breakers, made, courier, gauge, reopened, excused>>
NoCall == [step |-> "idle", no |-> 0]

LocalTypeOK ==
  /\ made \in Seq([target : Targets, state : {"closed", "open", "halfOpen", "probing"}])
  /\ Len(made) <= MaxMade /\ breakers \subseteq 1..Len(made)
  /\ courier \in [Couriers -> [step : {"idle", "fire", "sent"}, no : 0..Len(made)]]
  /\ gauge \in Nat /\ reopened \in Nat /\ excused \subseteq 1..Len(made)

LocalInit ==
  /\ breakers = {} /\ made = <<>> /\ courier = [d \in Couriers |-> NoCall]
  /\ gauge = 0 /\ reopened = 0 /\ excused = {}

StateOf(n) == made[n].state
SetState(n, s) == made' = [made EXCEPT ![n].state = s]
Busy(n) == \E d \in Couriers : courier[d].no = n
Oldest(S) == CHOOSE b \in S : \A c \in S : b <= c

\* Mutant: the oldest breaker goes.
EvictOldest == IF Cardinality(breakers) < MaxBreakers THEN 0 ELSE Oldest(breakers)

\* The oldest closed breaker goes, or else the oldest.  0: there is room.
Evicted ==
  LET closed == {b \in breakers : StateOf(b) = "closed"}
  IN  IF Cardinality(breakers) < MaxBreakers THEN 0
      ELSE Oldest(IF closed # {} THEN closed ELSE breakers)
AllOpen == \A b \in breakers : StateOf(b) # "closed"

\* getBreaker, and no delivery while the breaker is open.
GetBreaker(d, t) ==
  /\ courier[d] = NoCall
  /\ \/ \E b \in breakers :
          /\ made[b].target = t /\ StateOf(b) # "open"
          /\ courier' = [courier EXCEPT ![d] = [step |-> "fire", no |-> b]]
          /\ UNCHANGED <<breakers, made, excused>>
     \/ /\ \A b \in breakers : made[b].target # t
        /\ Len(made) < MaxMade
        /\ made' = Append(made, [target |-> t, state |-> "closed"])
        /\ courier' = [courier EXCEPT ![d] = [step |-> "fire", no |-> Len(made) + 1]]
        /\ breakers' = (breakers \ {Evicted}) \cup {Len(made) + 1}
        /\ excused' = excused \cup
             (IF Evicted # 0 /\ (AllOpen \/ Busy(Evicted)) THEN {Evicted} ELSE {})
  /\ UNCHANGED <<gauge, reopened>>

\* breaker.fire, awaits later: by now it may be open, or half open with a probe
\* under way, and reject.
Fire(d) ==
  /\ courier[d].step = "fire"
  /\ LET n == courier[d].no
     IN  /\ IF StateOf(n) \in {"closed", "halfOpen"}
            THEN courier' = [courier EXCEPT ![d].step = "sent"]
            ELSE courier' = [courier EXCEPT ![d] = NoCall]
         /\ IF StateOf(n) = "halfOpen" THEN SetState(n, "probing") ELSE UNCHANGED made
  /\ UNCHANGED <<breakers, gauge, reopened, excused>>

\* Mutant: a breaker that closes is still counted.
AnsweredUncounted(d) ==
  LET n == courier[d].no
  IN  IF StateOf(n) \in {"halfOpen", "probing"}
      THEN SetState(n, "closed") /\ UNCHANGED gauge
      ELSE UNCHANGED <<made, gauge>>

\* Any answer, of the probe or of an older call, closes a half open breaker.
Answered(d) ==
  LET n == courier[d].no
  IN  IF StateOf(n) \in {"halfOpen", "probing"}
      THEN SetState(n, "closed") /\ gauge' = gauge - 1
      ELSE UNCHANGED <<made, gauge>>

\* No answer: it opens a half open breaker again, and a closed one if the
\* failures are half of five calls or more.
Unanswered(d) ==
  LET n == courier[d].no
  IN  \/ /\ StateOf(n) # "open" /\ SetState(n, "open") /\ gauge' = gauge + 1
         /\ reopened' = reopened + (IF StateOf(n) = "closed" THEN 0 ELSE 1)
      \/ StateOf(n) \in {"closed", "open"} /\ UNCHANGED <<made, gauge, reopened>>

Settle(d) ==
  /\ courier[d].step = "sent" /\ courier' = [courier EXCEPT ![d] = NoCall]
  /\ (Answered(d) /\ UNCHANGED reopened) \/ Unanswered(d)
  /\ UNCHANGED <<breakers, excused>>

\* resetTimeout, in the Map or not.
HalfOpen(n) ==
  /\ reopened < MaxReopened /\ StateOf(n) = "open" /\ SetState(n, "halfOpen")
  /\ UNCHANGED <<breakers, courier, gauge, reopened, excused>>

LocalNext ==
  \/ \E d \in Couriers : Fire(d) \/ Settle(d) \/ \E t \in Targets : GetBreaker(d, t)
  \/ \E n \in 1..Len(made) : HalfOpen(n)

LocalSpec == LocalInit /\ [][LocalNext]_localVars

-----------------------------------------------------------------------------
(* Properties *)

\* However many endpoints fail at a time, the Map does not outgrow its limit.
MapBounded == Cardinality(breakers) <= MaxBreakers

\* No breaker that keeps deliveries from a failing endpoint is forgotten, but
\* when none is closed, or when it was closed with a call still under way.
OpenIsHeld ==
  \A n \in 1..Len(made) : StateOf(n) # "closed" => n \in breakers \cup excused

\* The gauge counts the breakers that are not closed, forgotten ones included,
\* and once more every probe that failed: opossum says 'open' again.
GaugeExplained ==
  gauge = Cardinality({n \in 1..Len(made) : StateOf(n) # "closed"}) + reopened

\* What the bounded map of breakers and the gauge still know (getBreaker).
LocalBreakersSafe ==
  /\ LocalTypeOK /\ MapBounded /\ OpenIsHeld /\ GaugeExplained
=============================================================================
