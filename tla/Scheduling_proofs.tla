-------------------------- MODULE Scheduling_proofs --------------------------
(* How often a schedule becomes an event, for any schedules, keys, passes of *)
(* the cron, calls and deaths.                                               *)
EXTENDS Scheduling, FiniteSetTheorems, TLAPS

InHand == {"fail", "create", "add", "mark"}

\* A pass holds schedules that exist, and the one in hand is no longer in its list.
Holding ==
  /\ \A p \in Passes : \A s \in todo[p] : Exists(s)
  /\ \A p \in Passes : pc[p] \in InHand <=> cur[p] # NoSchedule
  /\ \A p \in Passes : cur[p] # NoSchedule => Exists(cur[p]) /\ cur[p] \notin todo[p]
\* Nothing was made of a schedule that is not there, and what was made of one with
\* a key is known by the key.
MadeKnown ==
  \A s \in Schedules : made[s] > 0 => Exists(s) /\ key[s] \in eventKeys \cup {NoKey}
JobBeforeMark == \A p \in Passes : At(p, "mark") => sent[cur[p]] > 0

HandInv == TypeOK /\ Holding /\ MadeKnown /\ JobBeforeMark /\ KeyedOnce /\ QueuedHasJob

-----------------------------------------------------------------------------
(* Steps *)

\* A call of the API: nothing changes for the passes.
ApiStep ==
  \/ \E s \in Schedules :
       \/ \E k \in Keys \cup {NoKey} : Schedule(s, k)
       \/ FallsDue(s) \/ UpdateRead(s) \/ UpdateWrite(s) \/ CancelRead(s) \/ CancelWrite(s)
  \/ \E k \in Keys : SendElsewhere(k)

LEMMA ApiKeeps ==
  ASSUME HandInv, ApiStep
  PROVE  /\ HandInv' /\ UNCHANGED <<made, passes, deaths>>
         /\ \A s \in Schedules : status'[s] = "PENDING" => status[s] \in {"none", "PENDING"}
<1> USE DEF keys, HandInv, TypeOK, Holding, MadeKnown, JobBeforeMark, KeyedOnce, QueuedHasJob
<1>1. ASSUME NEW s \in Schedules, NEW k \in Keys \cup {NoKey}, Schedule(s, k)
      PROVE  /\ HandInv' /\ UNCHANGED <<made, passes, deaths>>
             /\ \A t \in Schedules : status'[t] = "PENDING" => status[t] \in {"none", "PENDING"}
  <2>1. /\ status[s] = "none" /\ status' = [status EXCEPT ![s] = "PENDING"]
        /\ key' = [key EXCEPT ![s] = k] /\ due' = [due EXCEPT ![s] = FALSE]
        /\ UNCHANGED <<eventKeys, elsewhere, made, sent, edits, cancels, todo, cur, pc, deaths>>
    BY <1>1 DEF Schedule, Exists, calls, passes
  <2>2. made[s] = 0
    BY <2>1 DEF Exists
  <2>3. TypeOK'
    BY <2>1 DEF Statuses
  <2>4. \A t \in Schedules : Exists(t) => Exists(t)'
    BY <2>1 DEF Exists
  <2>5. Holding'
    BY <2>1, <2>4 DEF InHand
  <2>6. MadeKnown'
    BY <2>1, <2>2, <2>4
  <2>7. JobBeforeMark'
    BY <2>1 DEF At
  <2>8. KeyedOnce' /\ QueuedHasJob'
    BY <2>1, <2>2
  <2> QED
    BY <2>1, <2>3, <2>5, <2>6, <2>7, <2>8 DEF passes
<1>2. ASSUME NEW s \in Schedules,
             FallsDue(s) \/ UpdateRead(s) \/ UpdateWrite(s) \/ CancelRead(s)
      PROVE  /\ HandInv' /\ UNCHANGED <<made, passes, deaths>>
             /\ \A t \in Schedules : status'[t] = "PENDING" => status[t] \in {"none", "PENDING"}
  <2>1. /\ due' \in [Schedules -> BOOLEAN] /\ edits' \subseteq Schedules /\ cancels' \subseteq Schedules
        /\ UNCHANGED <<status, key, eventKeys, elsewhere, made, sent, todo, cur, pc, deaths>>
    BY <1>2 DEF FallsDue, UpdateRead, UpdateWrite, CancelRead, docs, calls, passes
  <2>2. TypeOK' /\ KeyedOnce' /\ QueuedHasJob'
    BY <2>1
  <2>3. Holding' /\ MadeKnown' /\ JobBeforeMark'
    BY <2>1 DEF Exists, At, InHand
  <2> QED
    BY <2>1, <2>2, <2>3 DEF passes
<1>3. ASSUME NEW s \in Schedules, CancelWrite(s)
      PROVE  /\ HandInv' /\ UNCHANGED <<made, passes, deaths>>
             /\ \A t \in Schedules : status'[t] = "PENDING" => status[t] \in {"none", "PENDING"}
  <2>1. /\ cancels' \subseteq Schedules /\ status' = [status EXCEPT ![s] = "CANCELLED"]
        /\ UNCHANGED <<key, due, eventKeys, elsewhere, made, sent, edits, todo, cur, pc, deaths>>
    BY <1>3 DEF CancelWrite, passes
  <2>2. \A t \in Schedules : /\ Exists(t) => Exists(t)'
                             /\ status'[t] = status[t] \/ status'[t] = "CANCELLED"
    BY <2>1 DEF Exists
  <2>3. TypeOK'
    BY <2>1 DEF Statuses
  <2>4. Holding'
    BY <2>1, <2>2 DEF InHand
  <2>5. MadeKnown'
    BY <2>1, <2>2
  <2>6. JobBeforeMark'
    BY <2>1 DEF At
  <2>7. KeyedOnce' /\ QueuedHasJob'
    BY <2>1, <2>2
  <2>8. /\ UNCHANGED <<made, passes, deaths>>
        /\ \A t \in Schedules : status'[t] = "PENDING" => status[t] \in {"none", "PENDING"}
    BY <2>1, <2>2 DEF passes
  <2> QED
    BY <2>3, <2>4, <2>5, <2>6, <2>7, <2>8
<1>4. ASSUME NEW k \in Keys, SendElsewhere(k)
      PROVE  /\ HandInv' /\ UNCHANGED <<made, passes, deaths>>
             /\ \A t \in Schedules : status'[t] = "PENDING" => status[t] \in {"none", "PENDING"}
  <2>1. /\ eventKeys' = eventKeys \cup {k} /\ elsewhere' = elsewhere \cup {k}
        /\ UNCHANGED <<status, key, due, made, sent, edits, cancels, todo, cur, pc, deaths>>
    BY <1>4 DEF SendElsewhere, docs, calls, passes
  <2>2. TypeOK' /\ KeyedOnce' /\ QueuedHasJob'
    BY <2>1
  <2>3. Holding' /\ MadeKnown' /\ JobBeforeMark'
    BY <2>1 DEF Exists, At, InHand
  <2> QED
    BY <2>1, <2>2, <2>3 DEF passes
<1> QED
  BY <1>1, <1>2, <1>3, <1>4 DEF ApiStep

\* One step of a pass: the others stay as they are.
OfOne(p) ==
  \A q \in Passes : q # p => todo'[q] = todo[q] /\ cur'[q] = cur[q] /\ pc'[q] = pc[q]

LEMMA DoneTyped ==
  ASSUME TypeOK, NEW p \in Passes, Done(p)
  PROVE  /\ pc' \in [Passes -> {"idle", "next", "fail", "create", "add", "mark"}]
         /\ cur' \in [Passes -> Schedules \cup {NoSchedule}] /\ todo' = todo
         /\ OfOne(p) /\ cur'[p] = NoSchedule /\ pc'[p] \in {"idle", "next"}
BY DEF TypeOK, Done, OfOne

LEMMA GoTyped ==
  ASSUME TypeOK, NEW p \in Passes, NEW step \in {"add", "mark"}, Go(p, step)
  PROVE  /\ pc' \in [Passes -> {"idle", "next", "fail", "create", "add", "mark"}]
         /\ cur' = cur /\ todo' = todo /\ OfOne(p) /\ pc'[p] = step
BY DEF TypeOK, Go, OfOne

LEMMA FindKeeps ==
  ASSUME HandInv, NEW p \in Passes, Find(p)
  PROVE  /\ HandInv' /\ OfOne(p) /\ pc[p] = "idle" /\ pc'[p] = "next" /\ cur' = cur
         /\ todo'[p] \subseteq Due /\ UNCHANGED <<status, made, deaths>>
<1> USE DEF keys, HandInv, TypeOK, Holding, MadeKnown, JobBeforeMark, KeyedOnce, QueuedHasJob
<1>1. PICK S \in SUBSET Due : todo' = [todo EXCEPT ![p] = S]
  BY DEF Find
<1>2. /\ pc[p] = "idle" /\ pc' = [pc EXCEPT ![p] = "next"]
      /\ UNCHANGED <<docs, eventKeys, elsewhere, made, sent, calls, cur, deaths>>
  BY DEF Find, At
<1>3. S \subseteq Schedules /\ \A s \in S : Exists(s)
  BY DEF Due, Exists
<1>4. cur[p] = NoSchedule
  BY <1>2 DEF InHand
<1>5. TypeOK' /\ MadeKnown' /\ KeyedOnce' /\ QueuedHasJob'
  BY <1>1, <1>2, <1>3 DEF docs, calls, Exists
<1>6. Holding' /\ JobBeforeMark'
  BY <1>1, <1>2, <1>3, <1>4 DEF docs, Exists, InHand, At
<1> QED
  BY <1>1, <1>2, <1>5, <1>6 DEF docs, OfOne

LEMMA NextDueKeeps ==
  ASSUME HandInv, NEW p \in Passes, NextDue(p)
  PROVE  /\ HandInv' /\ OfOne(p) /\ UNCHANGED <<status, made, deaths>>
         /\ cur[p] = NoSchedule /\ cur'[p] \in todo[p] /\ pc'[p] \in {"fail", "create"}
         /\ todo'[p] = todo[p] \ {cur'[p]}
<1> USE DEF keys, HandInv, TypeOK, Holding, MadeKnown, JobBeforeMark, KeyedOnce, QueuedHasJob
<1>1. PICK s \in todo[p], step \in {"fail", "create"} :
        /\ todo' = [todo EXCEPT ![p] = @ \ {s}] /\ cur' = [cur EXCEPT ![p] = s]
        /\ pc' = [pc EXCEPT ![p] = step]
  BY DEF NextDue
<1>2. /\ pc[p] = "next" /\ UNCHANGED <<docs, eventKeys, elsewhere, made, sent, calls, deaths>>
  BY DEF NextDue, At
<1>3. s \in Schedules /\ Exists(s) /\ s # NoSchedule
  BY ScheduleAssumption
<1>4. cur[p] = NoSchedule
  BY <1>2 DEF InHand
<1>5. TypeOK' /\ MadeKnown' /\ KeyedOnce' /\ QueuedHasJob'
  BY <1>1, <1>2, <1>3 DEF docs, calls, Exists
<1>6. Holding' /\ JobBeforeMark'
  BY <1>1, <1>2, <1>3, <1>4 DEF docs, Exists, InHand, At
<1> QED
  BY <1>1, <1>2, <1>4, <1>5, <1>6 DEF docs, OfOne

\* The end of a schedule in hand: its status may be set, to QUEUED with a job only.
LEMMA DoneKeeps ==
  ASSUME HandInv, NEW p \in Passes, Done(p), UNCHANGED <<key, due, eventKeys, elsewhere, made, sent, calls>>,
         deaths' \in 0..MaxDeaths,
         \/ status' = status
         \/ cur[p] # NoSchedule /\ status' = [status EXCEPT ![cur[p]] = "FAILED"]
         \/ cur[p] # NoSchedule /\ sent[cur[p]] > 0 /\ status' = [status EXCEPT ![cur[p]] = "QUEUED"]
  PROVE  HandInv'
<1> USE DEF keys, HandInv, TypeOK, Holding, MadeKnown, JobBeforeMark, KeyedOnce, QueuedHasJob
<1>1. /\ pc' \in [Passes -> {"idle", "next", "fail", "create", "add", "mark"}]
      /\ cur' \in [Passes -> Schedules \cup {NoSchedule}] /\ todo' = todo
      /\ OfOne(p) /\ cur'[p] = NoSchedule /\ pc'[p] \in {"idle", "next"}
  BY DoneTyped
<1>2. /\ status' \in [Schedules -> Statuses]
      /\ \A s \in Schedules : /\ Exists(s) => Exists(s)'
                              /\ status'[s] = "QUEUED" => status[s] = "QUEUED" \/ sent[s] > 0
  BY DEF Statuses, Exists
<1>3. TypeOK'
  BY <1>1, <1>2 DEF calls
<1>4. Holding'
  BY <1>1, <1>2 DEF OfOne, InHand
<1>5. MadeKnown' /\ KeyedOnce' /\ QueuedHasJob'
  BY <1>2
<1>6. JobBeforeMark'
  BY <1>1 DEF OfOne, At
<1> QED
  BY <1>3, <1>4, <1>5, <1>6

LEMMA CreateKeeps ==
  ASSUME HandInv, NEW p \in Passes, CreateEvent(p)
  PROVE  /\ HandInv' /\ OfOne(p) /\ pc[p] = "create" /\ cur[p] \in Schedules
         /\ UNCHANGED <<status, todo, deaths>>
         /\ \/ /\ made' = [made EXCEPT ![cur[p]] = @ + 1] /\ cur' = cur /\ pc'[p] = "add"
            \/ made' = made /\ cur'[p] = NoSchedule /\ pc'[p] \in {"idle", "next"}
<1> USE DEF keys, HandInv, TypeOK, Holding, MadeKnown, JobBeforeMark, KeyedOnce, QueuedHasJob
<1> DEFINE s == cur[p]
<1>1. pc[p] = "create" /\ UNCHANGED <<docs, elsewhere, sent, calls, deaths>>
  BY DEF CreateEvent, At
<1>2. s \in Schedules /\ Exists(s)
  BY <1>1 DEF InHand
<1>3. CASE EventKeyFree(s)
  <2>1. /\ made' = [made EXCEPT ![s] = @ + 1] /\ Go(p, "add")
        /\ eventKeys' = eventKeys \cup ({key[s]} \ {NoKey})
    BY <1>3 DEF CreateEvent
  <2>2. /\ pc' \in [Passes -> {"idle", "next", "fail", "create", "add", "mark"}]
        /\ cur' = cur /\ todo' = todo /\ OfOne(p) /\ pc'[p] = "add"
    BY <2>1, GoTyped
  <2>3. key[s] \in Keys \cup {NoKey}
    BY <1>2
  <2>4. TypeOK'
    BY <1>1, <1>2, <2>1, <2>2, <2>3 DEF docs, calls
  <2>5. Holding' /\ JobBeforeMark'
    BY <1>1, <2>2 DEF OfOne, InHand, At, docs, Exists
  <2>6. MadeKnown'
    BY <1>1, <1>2, <2>1, <2>3 DEF docs, Exists
  <2>7. \A k \in Keys : key[s] = k => \A t \in Schedules : key[t] = k => made[t] = 0
    BY <1>3, ScheduleAssumption DEF EventKeyFree
  <2>8. KeyedOnce'
    BY <1>1, <1>2, <2>1, <2>7 DEF docs
  <2>9. QueuedHasJob'
    BY <1>1 DEF docs
  <2> QED
    BY <1>1, <1>2, <2>1, <2>2, <2>4, <2>5, <2>6, <2>8, <2>9 DEF docs
<1>4. CASE ~EventKeyFree(s)
  <2>1. Done(p) /\ UNCHANGED <<made, eventKeys>>
    BY <1>4 DEF CreateEvent
  <2>2. HandInv'
    BY <1>1, <2>1, DoneKeeps DEF docs
  <2> QED
    BY <1>1, <1>2, <2>1, <2>2, DoneTyped DEF docs
<1> QED
  BY <1>3, <1>4

\* A job, and then the mark; or the schedule cannot be sent.
LEMMA EndKeeps ==
  ASSUME HandInv, NEW p \in Passes, Fail(p) \/ AddJob(p) \/ Mark(p)
  PROVE  /\ HandInv' /\ OfOne(p) /\ cur[p] \in Schedules /\ UNCHANGED <<todo, made, deaths>>
         /\ \/ /\ pc[p] = "add" /\ pc'[p] = "mark" /\ cur' = cur /\ status' = status
            \/ /\ pc[p] \in {"fail", "mark"} /\ cur'[p] = NoSchedule /\ pc'[p] \in {"idle", "next"}
               /\ status'[cur[p]] # "PENDING"
               /\ \A s \in Schedules : s # cur[p] => status'[s] = status[s]
<1> USE DEF keys, HandInv, TypeOK, Holding, MadeKnown, JobBeforeMark, KeyedOnce, QueuedHasJob
<1>1. CASE AddJob(p)
  <2>1. /\ pc[p] = "add" /\ sent' = [sent EXCEPT ![cur[p]] = @ + 1] /\ Go(p, "mark")
        /\ UNCHANGED <<docs, eventKeys, elsewhere, made, calls, deaths>>
    BY <1>1 DEF AddJob, At
  <2>2. /\ pc' \in [Passes -> {"idle", "next", "fail", "create", "add", "mark"}]
        /\ cur' = cur /\ todo' = todo /\ OfOne(p) /\ pc'[p] = "mark"
    BY <2>1, GoTyped
  <2>3. cur[p] \in Schedules
    BY <2>1 DEF InHand
  <2>4. TypeOK' /\ MadeKnown' /\ KeyedOnce' /\ QueuedHasJob'
    BY <2>1, <2>2, <2>3 DEF docs, calls, Exists
  <2>5. Holding' /\ JobBeforeMark'
    BY <2>1, <2>2, <2>3 DEF docs, Exists, OfOne, InHand, At
  <2> QED
    BY <2>1, <2>2, <2>3, <2>4, <2>5 DEF docs
<1>2. ASSUME NEW verdict \in {"FAILED", "QUEUED"}, Done(p), pc[p] \in {"fail", "mark"},
             verdict = "QUEUED" => sent[cur[p]] > 0,
             status' = [status EXCEPT ![cur[p]] = verdict],
             UNCHANGED <<key, due, eventKeys, elsewhere, made, sent, calls, deaths>>
      PROVE  /\ HandInv' /\ OfOne(p) /\ cur[p] \in Schedules /\ UNCHANGED <<todo, made, deaths>>
             /\ cur'[p] = NoSchedule /\ pc'[p] \in {"idle", "next"}
             /\ status'[cur[p]] # "PENDING"
             /\ \A s \in Schedules : s # cur[p] => status'[s] = status[s]
  <2>1. cur[p] \in Schedules /\ cur[p] # NoSchedule
    BY <1>2 DEF InHand
  <2>2. HandInv'
    BY <1>2, <2>1, DoneKeeps
  <2> QED
    BY <1>2, <2>1, <2>2, DoneTyped
<1>3. CASE Fail(p)
  BY <1>2, <1>3 DEF Fail, At
<1>4. CASE Mark(p)
  BY <1>2, <1>4 DEF Mark, At
<1> QED
  BY <1>1, <1>3, <1>4

LEMMA DieKeeps ==
  ASSUME HandInv, NEW p \in Passes, Die(p)
  PROVE  /\ HandInv' /\ OfOne(p) /\ UNCHANGED <<status, made>> /\ deaths' = deaths + 1
         /\ todo'[p] \subseteq todo[p] /\ cur'[p] = NoSchedule /\ pc'[p] \in {"idle", "next"}
<1> USE DEF keys, HandInv, TypeOK, Holding, MadeKnown, JobBeforeMark, KeyedOnce, QueuedHasJob
<1>1. /\ deaths' = deaths + 1 /\ deaths' \in 0..MaxDeaths
      /\ UNCHANGED <<docs, eventKeys, elsewhere, made, sent, calls>>
  BY ScheduleAssumption DEF Die
<1>2. CASE Done(p)
  BY <1>1, <1>2, DoneKeeps, DoneTyped DEF docs
<1>3. CASE /\ pc' = [pc EXCEPT ![p] = "idle"] /\ todo' = [todo EXCEPT ![p] = {}]
           /\ cur' = [cur EXCEPT ![p] = NoSchedule]
  <2>1. TypeOK' /\ MadeKnown' /\ KeyedOnce' /\ QueuedHasJob'
    BY <1>1, <1>3 DEF docs, calls, Exists
  <2>2. Holding' /\ JobBeforeMark'
    BY <1>1, <1>3 DEF docs, Exists, InHand, At
  <2> QED
    BY <1>1, <1>3, <2>1, <2>2 DEF docs, OfOne
<1> QED
  BY <1>2, <1>3 DEF Die

-----------------------------------------------------------------------------
(* How many events are made of a schedule: a pass that has it before itself  *)
(* may make one, a pass that has it behind has made one.                     *)

Before(s) == {p \in Passes : s \in todo[p] \/ (cur[p] = s /\ pc[p] = "create")}
After(s) == {p \in Passes : cur[p] = s /\ pc[p] \in {"add", "mark"}}

\* While a schedule is PENDING the passes that made its events still have it, or
\* died; when it is not, no pass finds it any more.
Counted(s) ==
  /\ status[s] = "PENDING" => made[s] <= Cardinality(After(s)) + deaths
  /\ status[s] # "PENDING" => made[s] + Cardinality(Before(s)) <= Cardinality(Passes) + deaths

SchedulingInv == HandInv /\ \A s \in Schedules : Counted(s)

LEMMA Part ==
  ASSUME NEW S \in SUBSET Passes
  PROVE  IsFiniteSet(S) /\ Cardinality(S) \in Nat
BY ScheduleAssumption, FS_Subset, FS_CardinalityType

LEMMA SmallerPart ==
  ASSUME NEW T \in SUBSET Passes, NEW S \in SUBSET T
  PROVE  Cardinality(S) <= Cardinality(T)
BY Part, FS_Subset

LEMMA TwoParts ==
  ASSUME NEW S \in SUBSET Passes, NEW T \in SUBSET Passes, S \cap T = {}
  PROVE  Cardinality(S) + Cardinality(T) <= Cardinality(Passes)
<1>1. S \cup T \in SUBSET Passes
  OBVIOUS
<1>2. Cardinality(S \cup T) = Cardinality(S) + Cardinality(T) - Cardinality(S \cap T)
  BY Part, FS_Union
<1>3. Cardinality(S \cap T) = 0
  BY FS_EmptySet
<1>4. Cardinality(S \cup T) <= Cardinality(Passes)
  BY <1>1, SmallerPart
<1> QED
  BY <1>2, <1>3, <1>4, Part

LEMMA Numbers ==
  ASSUME TypeOK, TypeOK', NEW s \in Schedules
  PROVE  /\ Before(s) \in SUBSET Passes /\ Before(s)' \in SUBSET Passes
         /\ After(s) \in SUBSET Passes /\ After(s)' \in SUBSET Passes
         /\ Cardinality(Before(s)) \in Nat /\ Cardinality(Before(s)') \in Nat
         /\ Cardinality(After(s)) \in Nat /\ Cardinality(After(s)') \in Nat
         /\ made[s] \in Nat /\ made'[s] \in Nat /\ deaths \in Nat /\ deaths' \in Nat
         /\ Cardinality(Passes) \in Nat
<1>1. /\ Before(s) \in SUBSET Passes /\ Before(s)' \in SUBSET Passes
      /\ After(s) \in SUBSET Passes /\ After(s)' \in SUBSET Passes
  BY DEF Before, After
<1>2. made[s] \in Nat /\ made'[s] \in Nat /\ deaths \in Nat /\ deaths' \in Nat
  BY ScheduleAssumption DEF TypeOK
<1> QED
  BY <1>1, <1>2, Part

\* A step that makes no event of the schedule.
LEMMA QuietCount ==
  ASSUME HandInv, TypeOK', NEW s \in Schedules, Counted(s), made'[s] = made[s],
         status'[s] = "PENDING" => status[s] \in {"none", "PENDING"},
         status'[s] # "PENDING" => Before(s)' \subseteq Before(s) /\ deaths <= deaths',
         status'[s] = "PENDING" =>
           Cardinality(After(s)) + deaths <= Cardinality(After(s)') + deaths'
  PROVE  Counted(s)'
<1> USE Numbers DEF HandInv
<1>1. ASSUME status'[s] = "PENDING"
      PROVE  made'[s] <= Cardinality(After(s)') + deaths'
  <2>1. CASE status[s] = "PENDING"
    BY <1>1, <2>1 DEF Counted
  <2>2. CASE status[s] = "none"
    <3>1. made[s] = 0
      BY <2>2 DEF MadeKnown, Exists
    <3> QED
      BY <3>1
  <2> QED
    BY <1>1, <2>1, <2>2
<1>2. ASSUME status'[s] # "PENDING"
      PROVE  made'[s] + Cardinality(Before(s)') <= Cardinality(Passes) + deaths'
  <2>1. Cardinality(Before(s)') <= Cardinality(Before(s))
    BY <1>2, SmallerPart
  <2>2. made[s] + Cardinality(Before(s)) <= Cardinality(Passes) + deaths
    <3>1. CASE status[s] = "PENDING"
      <4>1. Before(s) \cap After(s) = {}
        BY ScheduleAssumption DEF Before, After, Holding
      <4>2. Cardinality(Before(s)) + Cardinality(After(s)) <= Cardinality(Passes)
        BY <4>1, TwoParts
      <4> QED
        BY <3>1, <4>2 DEF Counted
    <3> QED
      BY <3>1 DEF Counted
  <2> QED
    BY <1>2, <2>1, <2>2
<1> QED
  BY <1>1, <1>2 DEF Counted

\* What a step of a pass does to the two sets of one schedule.
LEMMA SetsMove ==
  ASSUME NEW p \in Passes, OfOne(p), NEW s \in Schedules
  PROVE  /\ Before(s)' \ {p} = Before(s) \ {p}
         /\ After(s)' \ {p} = After(s) \ {p}
BY DEF OfOne, Before, After

LEMMA FindCounts ==
  ASSUME HandInv, NEW p \in Passes, Find(p), NEW s \in Schedules, Counted(s)
  PROVE  Counted(s)'
<1>1. /\ HandInv' /\ OfOne(p) /\ pc[p] = "idle" /\ pc'[p] = "next" /\ cur' = cur
      /\ todo'[p] \subseteq Due /\ UNCHANGED <<status, made, deaths>>
  BY FindKeeps
<1>2. After(s)' = After(s)
  BY <1>1 DEF OfOne, After
<1>3. ASSUME status'[s] # "PENDING"
      PROVE  Before(s)' \subseteq Before(s)
  <2>1. p \notin Before(s)'
    BY <1>1, <1>3 DEF Before, Due
  <2> QED
    BY <1>1, <2>1, SetsMove
<1>4. TypeOK' /\ deaths \in Nat
  BY <1>1, ScheduleAssumption DEF HandInv, TypeOK
<1> QED
  BY <1>1, <1>2, <1>3, <1>4, QuietCount, Numbers DEF HandInv

LEMMA NextDueCounts ==
  ASSUME HandInv, NEW p \in Passes, NextDue(p), NEW s \in Schedules, Counted(s)
  PROVE  Counted(s)'
<1>1. /\ HandInv' /\ OfOne(p) /\ UNCHANGED <<status, made, deaths>>
      /\ cur[p] = NoSchedule /\ cur'[p] \in todo[p] /\ pc'[p] \in {"fail", "create"}
      /\ todo'[p] = todo[p] \ {cur'[p]}
  BY NextDueKeeps
<1>2. p \notin After(s) /\ p \notin After(s)'
  BY <1>1, ScheduleAssumption DEF After
<1>3. After(s)' = After(s)
  BY <1>1, <1>2, SetsMove
<1>4. Before(s)' \subseteq Before(s)
  BY <1>1 DEF OfOne, Before
<1> QED
  BY <1>1, <1>3, <1>4, QuietCount, Numbers DEF HandInv

LEMMA CreateCounts ==
  ASSUME HandInv, NEW p \in Passes, CreateEvent(p), NEW s \in Schedules, Counted(s)
  PROVE  Counted(s)'
<1>1. /\ HandInv' /\ OfOne(p) /\ pc[p] = "create" /\ cur[p] \in Schedules
      /\ UNCHANGED <<status, todo, deaths>>
      /\ \/ /\ made' = [made EXCEPT ![cur[p]] = @ + 1] /\ cur' = cur /\ pc'[p] = "add"
         \/ made' = made /\ cur'[p] = NoSchedule /\ pc'[p] \in {"idle", "next"}
  BY CreateKeeps
<1>2. p \notin After(s)
  BY <1>1 DEF After
<1>3. After(s) \subseteq After(s)' /\ Before(s)' \subseteq Before(s)
  BY <1>1, <1>2, ScheduleAssumption DEF OfOne, Before, After
<1>4. Cardinality(After(s)) <= Cardinality(After(s)')
  BY <1>1, <1>3, SmallerPart, Numbers DEF HandInv
<1>5. CASE made'[s] = made[s]
  BY <1>1, <1>3, <1>4, <1>5, QuietCount, Numbers DEF HandInv
<1>6. CASE made'[s] # made[s]
  <2>1. s = cur[p] /\ made'[s] = made[s] + 1 /\ cur' = cur /\ pc'[p] = "add"
    BY <1>1, <1>6 DEF HandInv, TypeOK
  <2>2. p \in After(s)' /\ s \notin todo[p]
    BY <1>1, <2>1, ScheduleAssumption DEF After, HandInv, Holding
  <2>3. p \in Before(s) /\ p \notin Before(s)'
    BY <1>1, <2>1, <2>2 DEF Before
  <2>4. After(s)' = After(s) \cup {p} /\ Before(s)' = Before(s) \ {p}
    BY <1>1, <1>2, <2>2, <2>3, SetsMove
  <2>5. Cardinality(After(s)') = Cardinality(After(s)) + 1
    BY <1>1, <1>2, <2>4, Part, Numbers, FS_AddElement DEF HandInv
  <2>6. Cardinality(Before(s)') = Cardinality(Before(s)) - 1
    BY <1>1, <2>3, <2>4, Part, Numbers, FS_RemoveElement DEF HandInv
  <2> QED
    BY <1>1, <2>1, <2>5, <2>6, Numbers DEF Counted, HandInv
<1> QED
  BY <1>5, <1>6

LEMMA EndCounts ==
  ASSUME HandInv, NEW p \in Passes, Fail(p) \/ AddJob(p) \/ Mark(p), NEW s \in Schedules, Counted(s)
  PROVE  Counted(s)'
<1>1. /\ HandInv' /\ OfOne(p) /\ cur[p] \in Schedules /\ UNCHANGED <<todo, made, deaths>>
      /\ \/ /\ pc[p] = "add" /\ pc'[p] = "mark" /\ cur' = cur /\ status' = status
         \/ /\ pc[p] \in {"fail", "mark"} /\ cur'[p] = NoSchedule /\ pc'[p] \in {"idle", "next"}
            /\ status'[cur[p]] # "PENDING"
            /\ \A t \in Schedules : t # cur[p] => status'[t] = status[t]
  BY EndKeeps
<1>2. Before(s)' \subseteq Before(s)
  BY <1>1, ScheduleAssumption DEF OfOne, Before
<1>3. status'[s] = "PENDING" => status[s] = "PENDING" /\ After(s) \subseteq After(s)'
  BY <1>1 DEF OfOne, After
<1>4. status'[s] = "PENDING" => Cardinality(After(s)) <= Cardinality(After(s)')
  BY <1>1, <1>3, SmallerPart, Numbers DEF HandInv
<1> QED
  BY <1>1, <1>2, <1>3, <1>4, QuietCount, Numbers DEF HandInv

LEMMA DieCounts ==
  ASSUME HandInv, NEW p \in Passes, Die(p), NEW s \in Schedules, Counted(s)
  PROVE  Counted(s)'
<1>1. /\ HandInv' /\ OfOne(p) /\ UNCHANGED <<status, made>> /\ deaths' = deaths + 1
      /\ todo'[p] \subseteq todo[p] /\ cur'[p] = NoSchedule /\ pc'[p] \in {"idle", "next"}
  BY DieKeeps
<1>2. Before(s)' \subseteq Before(s)
  BY <1>1, ScheduleAssumption DEF OfOne, Before
<1>3. p \notin After(s)'
  BY <1>1 DEF After
<1>4. After(s)' = After(s) \ {p}
  BY <1>1, <1>3, SetsMove
<1>5. Cardinality(After(s)) <= Cardinality(After(s)') + 1
  <2>1. CASE p \in After(s)
    BY <1>1, <1>4, <2>1, Part, Numbers, FS_RemoveElement DEF HandInv
  <2>2. CASE p \notin After(s)
    <3>1. After(s)' = After(s)
      BY <1>4, <2>2
    <3> QED
      BY <1>1, <3>1, Numbers DEF HandInv
  <2> QED
    BY <2>1, <2>2
<1> QED
  BY <1>1, <1>2, <1>5, QuietCount, Numbers DEF HandInv

LEMMA ApiCounts ==
  ASSUME HandInv, ApiStep, NEW s \in Schedules, Counted(s)
  PROVE  Counted(s)'
<1>1. /\ HandInv' /\ UNCHANGED <<made, todo, cur, pc, deaths>>
      /\ status'[s] = "PENDING" => status[s] \in {"none", "PENDING"}
  BY ApiKeeps DEF passes
<1>2. Before(s)' = Before(s) /\ After(s)' = After(s)
  BY <1>1 DEF Before, After
<1> QED
  BY <1>1, <1>2, QuietCount, Numbers DEF HandInv

-----------------------------------------------------------------------------

LEMMA SchedulingInit == Init => SchedulingInv
<1> SUFFICES ASSUME Init PROVE SchedulingInv
  OBVIOUS
<1> USE DEF Init
<1>1. TypeOK
  BY ScheduleAssumption DEF TypeOK, Statuses
<1>2. Holding /\ MadeKnown /\ JobBeforeMark /\ KeyedOnce /\ QueuedHasJob
  BY DEF Holding, MadeKnown, JobBeforeMark, KeyedOnce, QueuedHasJob, InHand, At
<1>3. ASSUME NEW s \in Schedules
      PROVE  Counted(s)
  <2>1. Before(s) = {}
    BY DEF Before
  <2>2. Cardinality(Before(s)) = 0
    BY <2>1, FS_EmptySet
  <2>3. Cardinality(Passes) \in Nat
    BY Part
  <2> QED
    BY <2>2, <2>3 DEF Counted
<1> QED
  BY <1>1, <1>2, <1>3 DEF SchedulingInv, HandInv

LEMMA SchedulingStep == SchedulingInv /\ [Next]_vars => SchedulingInv'
<1> SUFFICES ASSUME SchedulingInv, [Next]_vars
             PROVE  SchedulingInv'
  OBVIOUS
<1> USE DEF SchedulingInv
<1>1. CASE ApiStep
  BY <1>1, ApiKeeps, ApiCounts
<1>2. ASSUME NEW p \in Passes, Pass(p) \/ Die(p)
      PROVE  SchedulingInv'
  <2>1. CASE Find(p)
    BY <2>1, FindKeeps, FindCounts
  <2>2. CASE NextDue(p)
    BY <2>2, NextDueKeeps, NextDueCounts
  <2>3. CASE Fail(p) \/ AddJob(p) \/ Mark(p)
    BY <2>3, EndKeeps, EndCounts
  <2>4. CASE CreateEvent(p)
    BY <2>4, CreateKeeps, CreateCounts
  <2>5. CASE Die(p)
    BY <2>5, DieKeeps, DieCounts
  <2> QED
    BY <1>2, <2>1, <2>2, <2>3, <2>4, <2>5 DEF Pass
<1>3. CASE UNCHANGED vars
  <2>1. HandInv'
    BY <1>3 DEF vars, docs, keys, calls, passes, HandInv, TypeOK, Holding, MadeKnown, JobBeforeMark,
              KeyedOnce, QueuedHasJob, Exists, At
  <2>2. \A s \in Schedules : Counted(s)'
    BY <1>3 DEF vars, docs, calls, passes, Counted, Before, After
  <2> QED
    BY <2>1, <2>2
<1> QED
  BY <1>1, <1>2, <1>3 DEF Next, ApiStep

LEMMA SchedulingInvSafe == SchedulingInv => SchedulingSafe
<1> SUFFICES ASSUME SchedulingInv, NEW s \in Schedules
             PROVE  made[s] <= Cardinality(Passes) + deaths
  BY DEF SchedulingInv, HandInv, SchedulingSafe, DuplicatesExplained
<1>1. /\ made[s] \in Nat /\ deaths \in Nat /\ Cardinality(Passes) \in Nat
      /\ Cardinality(Before(s)) \in Nat /\ Cardinality(After(s)) \in Nat
  BY ScheduleAssumption, Part DEF SchedulingInv, HandInv, TypeOK, Before, After
<1>2. Cardinality(After(s)) <= Cardinality(Passes)
  BY SmallerPart DEF After
<1> QED
  BY <1>1, <1>2 DEF SchedulingInv, Counted

(* However many passes of the cron overlap, die or meet an error, and whatever *)
(* update and cancel write over what they have read: the events of one key are *)
(* one, a keyless schedule makes no more than the passes and the deaths, and   *)
(* QUEUED means that a job was added (dispatchDueEvents).                      *)
THEOREM SchedulingIsSafe == Spec => []SchedulingSafe
<1>1. Spec => []SchedulingInv
  BY SchedulingInit, SchedulingStep, PTL DEF Spec
<1> QED
  BY <1>1, SchedulingInvSafe, PTL

-----------------------------------------------------------------------------
(* With keys the cron is a way in like the others.                           *)

\* A key belongs to one schedule, as the unique index of schedules has it.
OwnKeys ==
  /\ \A s \in Schedules : ~Exists(s) => key[s] = NoKey
  /\ \A s, t \in Schedules : key[s] \in Keys /\ key[t] = key[s] => s = t
\* A schedule with a key is sent once, by the one pass that made its event.
SentOnce ==
  /\ \A s \in Schedules : /\ sent[s] > 0 => made[s] > 0
                          /\ key[s] \in Keys => sent[s] <= 1
  /\ \A p \in Passes :
       At(p, "add") => made[cur[p]] > 0 /\ (key[cur[p]] \in Keys => sent[cur[p]] = 0)
  /\ \A p, q \in Passes :
       At(p, "add") /\ At(q, "add") /\ cur[p] = cur[q] /\ key[cur[p]] \in Keys => p = q

OnceInv == HandInv /\ OwnKeys /\ SentOnce

\* A step that takes no pass to "add", adds no job and gives no key.
LEMMA QuietOnce ==
  ASSUME OnceInv, UNCHANGED <<key, sent, made>>,
         \A s \in Schedules : Exists(s) => Exists(s)',
         \A q \in Passes : pc'[q] = "add" => pc[q] = "add" /\ cur'[q] = cur[q]
  PROVE  OwnKeys' /\ SentOnce'
<1>1. OwnKeys'
  BY DEF OnceInv, OwnKeys
<1>2. SentOnce'
  BY DEF OnceInv, SentOnce, At
<1> QED
  BY <1>1, <1>2

\* schedule() gives a key that no schedule has.
LEMMA ScheduleOnce ==
  ASSUME OnceInv, NEW s \in Schedules, NEW k \in Keys \cup {NoKey}, Schedule(s, k)
  PROVE  OwnKeys' /\ SentOnce'
<1>1. /\ ~Exists(s) /\ ~Taken(k)
      /\ status' = [status EXCEPT ![s] = "PENDING"] /\ key' = [key EXCEPT ![s] = k]
      /\ UNCHANGED <<made, sent, cur, pc>>
  BY DEF Schedule, passes
<1>2. /\ status \in [Schedules -> Statuses] /\ key \in [Schedules -> Keys \cup {NoKey}]
      /\ cur \in [Passes -> Schedules \cup {NoSchedule}] /\ made[s] \in Nat /\ sent[s] \in Nat
  BY DEF OnceInv, HandInv, TypeOK
<1>3. made[s] = 0 /\ sent[s] = 0
  BY <1>1, <1>2 DEF OnceInv, HandInv, MadeKnown, SentOnce
<1>4. \A t \in Schedules : Exists(t)' <=> t = s \/ Exists(t)
  BY <1>1, <1>2 DEF Exists
<1>5. \A t \in Schedules : key'[t] = IF t = s THEN k ELSE key[t]
  BY <1>1, <1>2
<1>6. k \in Keys => \A t \in Schedules : key[t] # k
  BY <1>1, ScheduleAssumption DEF Taken, OnceInv, OwnKeys
<1>7. OwnKeys'
  BY <1>4, <1>5, <1>6 DEF OnceInv, OwnKeys
<1>8. \A p \in Passes : At(p, "add") => cur[p] \in Schedules /\ cur[p] # s
  BY <1>1, <1>2 DEF OnceInv, HandInv, Holding, InHand, At
<1>9. SentOnce'
  BY <1>1, <1>3, <1>5, <1>8 DEF OnceInv, SentOnce, At
<1> QED
  BY <1>7, <1>9

LEMMA ApiOnce ==
  ASSUME OnceInv, ApiStep
  PROVE  OwnKeys' /\ SentOnce'
<1>1. ASSUME NEW s \in Schedules,
             FallsDue(s) \/ UpdateRead(s) \/ UpdateWrite(s) \/ CancelRead(s) \/ CancelWrite(s)
      PROVE  OwnKeys' /\ SentOnce'
  <2>1. /\ UNCHANGED <<key, sent, made, cur, pc>>
        /\ status' = status \/ status' = [status EXCEPT ![s] = "CANCELLED"]
    BY <1>1 DEF FallsDue, UpdateRead, UpdateWrite, CancelRead, CancelWrite, docs, passes
  <2>2. \A t \in Schedules : Exists(t) => Exists(t)'
    BY <2>1 DEF Exists, OnceInv, HandInv, TypeOK
  <2> QED
    BY <2>1, <2>2, QuietOnce
<1>2. ASSUME NEW k \in Keys, SendElsewhere(k)
      PROVE  OwnKeys' /\ SentOnce'
  BY <1>2, QuietOnce DEF SendElsewhere, docs, passes, Exists
<1> QED
  BY <1>1, <1>2, ScheduleOnce DEF ApiStep

\* Only a pass that makes the event comes to "add": of a key it is the first.
LEMMA CreateOnce ==
  ASSUME OnceInv, NEW p \in Passes, CreateEvent(p)
  PROVE  OwnKeys' /\ SentOnce'
<1> DEFINE s == cur[p]
<1>1. pc[p] = "create" /\ UNCHANGED <<docs, sent>> /\ s \in Schedules /\ OfOne(p)
  BY CreateKeeps DEF CreateEvent, OnceInv, At
<1>2. UNCHANGED <<status, key>> /\ \A t \in Schedules : Exists(t) => Exists(t)'
  BY <1>1 DEF docs, Exists
<1>3. CASE EventKeyFree(s)
  <2>1. made' = [made EXCEPT ![s] = @ + 1] /\ Go(p, "add")
    BY <1>3 DEF CreateEvent
  <2>2. cur' = cur /\ pc' = [pc EXCEPT ![p] = "add"]
    BY <2>1 DEF Go
  <2>3. OwnKeys'
    BY <1>2 DEF OnceInv, OwnKeys
  <2>4. /\ made \in [Schedules -> Nat] /\ sent \in [Schedules -> Nat] /\ pc \in [Passes -> InHand \cup {"idle", "next"}]
        /\ key \in [Schedules -> Keys \cup {NoKey}]
    BY DEF OnceInv, HandInv, TypeOK, InHand
  <2>5. key[s] \in Keys => made[s] = 0 /\ sent[s] = 0
    BY <1>1, <1>3, <2>4, ScheduleAssumption DEF EventKeyFree, OnceInv, HandInv, MadeKnown, SentOnce
  <2>6. \A q \in Passes : At(q, "add") /\ key[s] \in Keys => cur[q] # s
    BY <1>1, <2>4, <2>5 DEF OnceInv, SentOnce
  <2>7. \A t \in Schedules : made'[t] >= made[t] /\ made'[s] > 0
    BY <1>1, <2>1, <2>4
  <2>8. \A q \in Passes : At(q, "add")' <=> q = p \/ At(q, "add")
    BY <2>2, <2>4 DEF At
  <2>9. \A q \in Passes : At(q, "add") => cur[q] \in Schedules
    BY DEF OnceInv, HandInv, TypeOK, Holding, InHand, At
  <2>10. SentOnce'
    <3>1. \A t \in Schedules : /\ sent'[t] > 0 => made'[t] > 0
                               /\ key'[t] \in Keys => sent'[t] <= 1
      BY <1>1, <1>2, <2>1, <2>4, <2>7 DEF OnceInv, SentOnce
    <3>2. \A q \in Passes :
            At(q, "add")' => made'[cur'[q]] > 0 /\ (key'[cur'[q]] \in Keys => sent'[cur'[q]] = 0)
      BY <1>1, <1>2, <2>1, <2>2, <2>4, <2>5, <2>7, <2>8, <2>9 DEF OnceInv, SentOnce
    <3>3. \A q, r \in Passes :
            At(q, "add")' /\ At(r, "add")' /\ cur'[q] = cur'[r] /\ key'[cur'[q]] \in Keys => q = r
      BY <1>2, <2>2, <2>6, <2>8 DEF OnceInv, SentOnce
    <3> QED
      BY <3>1, <3>2, <3>3 DEF SentOnce
  <2> QED
    BY <2>3, <2>10
<1>4. CASE ~EventKeyFree(s)
  <2>1. made' = made /\ Done(p)
    BY <1>4 DEF CreateEvent
  <2>2. \A q \in Passes : pc'[q] = "add" => pc[q] = "add" /\ cur'[q] = cur[q]
    BY <1>1, <2>1, DoneTyped DEF OfOne, OnceInv, HandInv
  <2> QED
    BY <1>1, <1>2, <2>1, <2>2, QuietOnce
<1> QED
  BY <1>3, <1>4

LEMMA AddOnce ==
  ASSUME OnceInv, NEW p \in Passes, AddJob(p)
  PROVE  OwnKeys' /\ SentOnce'
<1> DEFINE s == cur[p]
<1>1. /\ pc[p] = "add" /\ sent' = [sent EXCEPT ![s] = @ + 1] /\ UNCHANGED <<status, key, made>>
      /\ s \in Schedules /\ OfOne(p) /\ pc'[p] = "mark" /\ cur' = cur
  BY EndKeeps DEF AddJob, OnceInv, At, docs, Go
<1>2. OwnKeys'
  BY <1>1 DEF OnceInv, OwnKeys, Exists
<1>3. sent \in [Schedules -> Nat]
  BY DEF OnceInv, HandInv, TypeOK
<1>4. \A q \in Passes : At(q, "add")' <=> q # p /\ At(q, "add")
  BY <1>1 DEF OfOne, At
<1>5. made[s] > 0 /\ (key[s] \in Keys => sent[s] = 0)
  BY <1>1 DEF OnceInv, SentOnce, At
<1>6. \A t \in Schedules : sent'[t] = IF t = s THEN sent[s] + 1 ELSE sent[t]
  BY <1>1, <1>3
<1>7. \A q \in Passes : At(q, "add") => cur[q] \in Schedules
  BY DEF OnceInv, HandInv, TypeOK, Holding, InHand, At
<1>8. SentOnce'
  <2>1. \A t \in Schedules : /\ sent'[t] > 0 => made'[t] > 0
                             /\ key'[t] \in Keys => sent'[t] <= 1
    BY <1>1, <1>3, <1>5, <1>6 DEF OnceInv, SentOnce
  <2>2. \A q \in Passes : At(q, "add") /\ q # p /\ key[s] \in Keys => cur[q] # s
    BY <1>1 DEF OnceInv, SentOnce, At
  <2>3. \A q \in Passes :
          At(q, "add")' => made'[cur'[q]] > 0 /\ (key'[cur'[q]] \in Keys => sent'[cur'[q]] = 0)
    BY <1>1, <1>4, <1>6, <1>7, <2>2 DEF OnceInv, SentOnce
  <2>4. \A q, r \in Passes :
          At(q, "add")' /\ At(r, "add")' /\ cur'[q] = cur'[r] /\ key'[cur'[q]] \in Keys => q = r
    BY <1>1, <1>4 DEF OnceInv, SentOnce
  <2> QED
    BY <2>1, <2>3, <2>4 DEF SentOnce
<1> QED
  BY <1>2, <1>8

\* The other steps of a pass, and its death.
LEMMA PassOnce ==
  ASSUME OnceInv, NEW p \in Passes,
         Find(p) \/ NextDue(p) \/ Fail(p) \/ Mark(p) \/ Die(p)
  PROVE  /\ OwnKeys' /\ SentOnce'
         /\ UNCHANGED <<key, sent, eventKeys>>
<1>1. UNCHANGED <<key, sent, made, eventKeys>>
  BY DEF Find, NextDue, Fail, Mark, Die, docs, keys
<1>2. OfOne(p) /\ pc'[p] # "add"
  <2>1. CASE Fail(p) \/ Mark(p)
    BY <2>1, EndKeeps DEF OnceInv, Fail, Mark, At
  <2> QED
    BY <2>1, FindKeeps, NextDueKeeps, DieKeeps DEF OnceInv
<1>3. \A t \in Schedules : Exists(t) => Exists(t)'
  <2>1. CASE Fail(p) \/ Mark(p)
    BY <2>1 DEF Fail, Mark, Exists, OnceInv, HandInv, TypeOK
  <2> QED
    BY <2>1, FindKeeps, NextDueKeeps, DieKeeps DEF OnceInv, Exists
<1>4. \A q \in Passes : pc'[q] = "add" => pc[q] = "add" /\ cur'[q] = cur[q]
  BY <1>2 DEF OfOne
<1> QED
  BY <1>1, <1>3, <1>4, QuietOnce

LEMMA OnceInit == Init => OnceInv
<1>1. Init => HandInv
  BY SchedulingInit DEF SchedulingInv
<1>2. Init => OwnKeys /\ SentOnce
  BY ScheduleAssumption DEF Init, OwnKeys, SentOnce, At
<1> QED
  BY <1>1, <1>2 DEF OnceInv

LEMMA OnceStep == OnceInv /\ SchedulingInv /\ [Next]_vars => OnceInv'
<1> SUFFICES ASSUME OnceInv, SchedulingInv, [Next]_vars
             PROVE  OnceInv'
  OBVIOUS
<1>1. HandInv'
  BY SchedulingStep DEF SchedulingInv
<1>2. CASE ApiStep
  BY <1>1, <1>2, ApiOnce DEF OnceInv
<1>3. ASSUME NEW p \in Passes, Pass(p) \/ Die(p)
      PROVE  OnceInv'
  BY <1>1, <1>3, CreateOnce, AddOnce, PassOnce DEF OnceInv, Pass
<1>4. CASE UNCHANGED vars
  BY <1>1, <1>4, QuietOnce DEF OnceInv, vars, docs, keys, passes, Exists
<1> QED
  BY <1>2, <1>3, <1>4 DEF Next, ApiStep

\* SentUnder, of any keys of schedules and any numbers of jobs.
JobsUnder(ks, js, k) ==
  Cardinality(UNION {{s} \X (1..js[s]) : s \in {t \in Schedules : ks[t] = k}})

\* The jobs under a key are those of its one schedule.
LEMMA JobsOfOne ==
  ASSUME NEW ks, NEW js, NEW k \in Keys, NEW s \in Schedules, ks[s] = k,
         \A t \in Schedules : ks[t] = k => t = s, js[s] \in Nat
  PROVE  /\ js[s] = 0 => JobsUnder(ks, js, k) = 0
         /\ js[s] = 1 => JobsUnder(ks, js, k) = 1
<1> DEFINE jobs == UNION {{r} \X (1..js[r]) : r \in {t \in Schedules : ks[t] = k}}
<1>1. {t \in Schedules : ks[t] = k} = {s}
  OBVIOUS
<1>2. jobs = {s} \X (1..js[s])
  BY <1>1
<1>3. js[s] = 0 => jobs = {}
  <2>1. 1..0 = {}
    OBVIOUS
  <2> QED
    BY <1>2, <2>1
<1>4. js[s] = 1 => jobs = {<<s, 1>>}
  <2>1. 1..1 = {1}
    OBVIOUS
  <2> QED
    BY <1>2, <2>1
<1> QED
  BY <1>3, <1>4, FS_EmptySet, FS_Singleton DEF JobsUnder

LEMMA JobsOfNone ==
  ASSUME NEW ks, NEW js, NEW k, \A t \in Schedules : ks[t] # k
  PROVE  JobsUnder(ks, js, k) = 0
<1>1. UNION {{r} \X (1..js[r]) : r \in {t \in Schedules : ks[t] = k}} = {}
  OBVIOUS
<1> QED
  BY <1>1, FS_EmptySet DEF JobsUnder

LEMMA SentUnderJobs ==
  ASSUME NEW k
  PROVE  SentUnder(k) = JobsUnder(key, sent, k) /\ SentUnder(k)' = JobsUnder(key', sent', k)
BY DEF SentUnder, JobsUnder

\* The same in the terms of the specification, now and after a step.
LEMMA SentUnderIs ==
  ASSUME OnceInv, OnceInv', NEW k \in Keys
  PROVE  /\ \A s \in Schedules : key[s] = k => SentUnder(k) = sent[s]
         /\ \A s \in Schedules : key'[s] = k => SentUnder(k)' = sent'[s]
         /\ (\A s \in Schedules : key[s] # k) => SentUnder(k) = 0
         /\ (\A s \in Schedules : key'[s] # k) => SentUnder(k)' = 0
<1>1. ASSUME NEW s \in Schedules, key[s] = k
      PROVE  SentUnder(k) = sent[s]
  <2>1. sent[s] \in {0, 1} /\ \A t \in Schedules : key[t] = k => t = s
    BY <1>1 DEF OnceInv, OwnKeys, SentOnce, HandInv, TypeOK
  <2> QED
    BY <1>1, <2>1, JobsOfOne, SentUnderJobs
<1>2. ASSUME NEW s \in Schedules, key'[s] = k
      PROVE  SentUnder(k)' = sent'[s]
  <2>1. sent'[s] \in {0, 1} /\ \A t \in Schedules : key'[t] = k => t = s
    BY <1>2 DEF OnceInv, OwnKeys, SentOnce, HandInv, TypeOK
  <2> QED
    BY <1>2, <2>1, JobsOfOne, SentUnderJobs
<1>3. ASSUME \A s \in Schedules : key[s] # k
      PROVE  SentUnder(k) = 0
  BY <1>3, JobsOfNone, SentUnderJobs
<1>4. ASSUME \A s \in Schedules : key'[s] # k
      PROVE  SentUnder(k)' = 0
  BY <1>4, JobsOfNone, SentUnderJobs
<1> QED
  BY <1>1, <1>2, <1>3, <1>4

queued == [k \in Keys |-> SentUnder(k)]

\* What no key is gained or sent under is nothing to the promise.
LEMMA IntakeSame ==
  ASSUME OnceInv, OnceInv', UNCHANGED eventKeys,
         \A s \in Schedules : key'[s] = key[s] \/ (key[s] = NoKey /\ sent'[s] = 0),
         \A s \in Schedules : sent'[s] = sent[s] \/ key[s] = NoKey
  PROVE  UNCHANGED <<eventKeys, queued>>
<1>1. ASSUME NEW k \in Keys
      PROVE  SentUnder(k)' = SentUnder(k)
  <2>1. CASE \E s \in Schedules : key[s] = k
    <3>1. PICK s \in Schedules : key[s] = k
      BY <2>1
    <3>2. key'[s] = k /\ sent'[s] = sent[s]
      BY <3>1, ScheduleAssumption
    <3> QED
      BY <3>1, <3>2, SentUnderIs
  <2>2. CASE \A s \in Schedules : key[s] # k
    <3>1. SentUnder(k) = 0
      BY <2>2, SentUnderIs
    <3>2. SentUnder(k)' = 0
      <4>1. ASSUME NEW s \in Schedules, key'[s] = k
            PROVE  sent'[s] = 0
        BY <2>2, <4>1
      <4> QED
        BY <4>1, SentUnderIs
    <3> QED
      BY <3>1, <3>2
  <2> QED
    BY <2>1, <2>2
<1> QED
  BY <1>1 DEF queued

LEMMA IntakeStep ==
  ASSUME OnceInv, OnceInv', [Next]_vars
  PROVE  [Intake!Next]_<<eventKeys, queued>>
<1> USE DEF Intake!Next, Intake!Store, Intake!Queue
<1>1. CASE ApiStep
  <2>1. ASSUME NEW s \in Schedules, NEW k \in Keys \cup {NoKey}, Schedule(s, k)
        PROVE  UNCHANGED <<eventKeys, queued>>
    <3>1. /\ ~Exists(s) /\ key' = [key EXCEPT ![s] = k] /\ UNCHANGED <<eventKeys, sent, made>>
      BY <2>1 DEF Schedule, keys
    <3>2. key[s] = NoKey /\ sent[s] = 0 /\ \A t \in Schedules : key'[t] = key[t] \/ t = s
      BY <3>1 DEF OnceInv, OwnKeys, SentOnce, HandInv, TypeOK, MadeKnown
    <3> QED
      BY <3>1, <3>2, IntakeSame
  <2>2. ASSUME NEW s \in Schedules,
               FallsDue(s) \/ UpdateRead(s) \/ UpdateWrite(s) \/ CancelRead(s) \/ CancelWrite(s)
        PROVE  UNCHANGED <<eventKeys, queued>>
    <3>1. UNCHANGED <<eventKeys, key, sent>>
      BY <2>2 DEF FallsDue, UpdateRead, UpdateWrite, CancelRead, CancelWrite, docs, keys
    <3> QED
      BY <3>1, IntakeSame
  <2>3. ASSUME NEW k \in Keys, SendElsewhere(k)
        PROVE  Intake!Store(k)
    <3>1. UNCHANGED <<key, sent>>
      BY <2>3 DEF SendElsewhere, docs
    <3>2. UNCHANGED queued
      BY <3>1 DEF queued, SentUnder
    <3> QED
      BY <2>3, <3>2 DEF SendElsewhere, queued
  <2> QED
    BY <1>1, <2>1, <2>2, <2>3 DEF ApiStep
<1>2. ASSUME NEW p \in Passes, CreateEvent(p)
      PROVE  [Intake!Next]_<<eventKeys, queued>>
  <2> DEFINE s == cur[p]
  <2>1. s \in Schedules /\ UNCHANGED <<key, sent>> /\ key[s] \in Keys \cup {NoKey}
    BY <1>2, CreateKeeps DEF CreateEvent, docs, OnceInv, HandInv, TypeOK
  <2>2. UNCHANGED queued
    BY <2>1 DEF queued, SentUnder
  <2>3. CASE key[s] \in Keys /\ EventKeyFree(s)
    <3>1. key[s] \notin eventKeys /\ eventKeys' = eventKeys \cup {key[s]}
      BY <1>2, <2>3, ScheduleAssumption DEF CreateEvent, EventKeyFree
    <3> QED
      BY <2>2, <2>3, <3>1 DEF queued
  <2>4. CASE key[s] = NoKey \/ ~EventKeyFree(s)
    <3>1. UNCHANGED eventKeys
      BY <1>2, <2>4 DEF CreateEvent, EventKeyFree
    <3> QED
      BY <2>2, <3>1
  <2> QED
    BY <2>1, <2>3, <2>4
<1>3. ASSUME NEW p \in Passes, AddJob(p)
      PROVE  [Intake!Next]_<<eventKeys, queued>>
  <2> DEFINE s == cur[p]
  <2>1. /\ s \in Schedules /\ UNCHANGED <<key, eventKeys>> /\ pc[p] = "add"
        /\ sent' = [sent EXCEPT ![s] = @ + 1] /\ sent \in [Schedules -> Nat]
        /\ key[s] \in Keys \cup {NoKey}
    BY <1>3, EndKeeps DEF AddJob, docs, keys, At, OnceInv, HandInv, TypeOK
  <2>2. CASE key[s] = NoKey
    BY <2>1, <2>2, IntakeSame
  <2>3. CASE key[s] \in Keys
    <3>1. sent[s] = 0 /\ made[s] > 0
      BY <2>1, <2>3 DEF OnceInv, SentOnce, At
    <3>2. key[s] \in eventKeys
      BY <2>1, <2>3, <3>1, ScheduleAssumption DEF OnceInv, HandInv, MadeKnown
    <3>3. PICK own \in Keys : own = key[s]
      BY <2>3
    <3>4. SentUnder(own) = 0 /\ SentUnder(own)' = 1
      <4>1. sent'[s] = 1
        BY <2>1, <3>1
      <4> QED
        BY <2>1, <3>1, <3>3, <4>1, SentUnderIs
    <3>5. ASSUME NEW k \in Keys, k # own
          PROVE  SentUnder(k)' = SentUnder(k)
      <4>1. CASE \E t \in Schedules : key[t] = k
        <5>1. PICK t \in Schedules : key[t] = k
          BY <4>1
        <5>2. sent'[t] = sent[t]
          BY <2>1, <3>3, <3>5, <5>1
        <5> QED
          BY <2>1, <5>1, <5>2, SentUnderIs
      <4>2. CASE \A t \in Schedules : key[t] # k
        BY <2>1, <4>2, SentUnderIs
      <4> QED
        BY <4>1, <4>2
    <3>6. queued' = [queued EXCEPT ![own] = 1] /\ queued[own] = 0
      BY <3>4, <3>5 DEF queued
    <3>7. Intake!Queue(own)
      BY <2>1, <3>2, <3>3, <3>6 DEF queued
    <3> QED
      BY <3>7
  <2> QED
    BY <2>1, <2>2, <2>3
<1>4. ASSUME NEW p \in Passes, Pass(p) \/ Die(p)
      PROVE  [Intake!Next]_<<eventKeys, queued>>
  <2>1. CASE Find(p) \/ NextDue(p) \/ Fail(p) \/ Mark(p) \/ Die(p)
    <3>1. UNCHANGED <<key, sent, eventKeys>>
      BY <2>1, PassOnce
    <3> QED
      BY <3>1, IntakeSame
  <2> QED
    BY <1>2, <1>3, <1>4, <2>1 DEF Pass
<1>5. CASE UNCHANGED vars
  <2>1. UNCHANGED <<key, sent, eventKeys>>
    BY <1>5 DEF vars, docs, keys
  <2> QED
    BY <2>1, IntakeSame
<1> QED
  BY <1>1, <1>4, <1>5 DEF Next, ApiStep

LEMMA IntakeInit == Init /\ OnceInv => Intake!Init
<1> SUFFICES ASSUME Init, NEW k \in Keys
             PROVE  SentUnder(k) = 0
  BY DEF Init, Intake!Init
<1>1. \A s \in Schedules : key[s] # k
  BY ScheduleAssumption DEF Init
<1> QED
  BY <1>1, JobsOfNone, SentUnderJobs

(* Through SchedulingService too a key has one event and then, once, its job:  *)
(* the cron's passes, with EventsService.send beside them, take the steps of   *)
(* module EventIntake and no others (SchedulingService.dispatchDueEvents).     *)
THEOREM SchedulingIsIntake == Spec => IntakeSpec
<1>1. Spec => []SchedulingInv
  BY SchedulingInit, SchedulingStep, PTL DEF Spec
<1>2. OnceInv /\ OnceInv' /\ [Next]_vars => [Intake!Next]_<<eventKeys, queued>>
  BY IntakeStep
<1>3. Spec => [](SchedulingInv /\ OnceInv)
  BY <1>1, OnceInit, OnceStep, PTL DEF Spec
<1> QED
  BY <1>2, <1>3, OnceInit, IntakeInit, PTL DEF Spec, IntakeSpec, Intake!Spec, queued
=============================================================================
