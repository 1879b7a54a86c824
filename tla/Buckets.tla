------------------------------ MODULE Buckets ------------------------------
(***************************************************************************)
(* AnalyticsService: the counters of one endpoint, a bucket for each hour, *)
(* and the reports that add the buckets up.  A record reads its bucket,    *)
(* for the extremes of the latency, and then writes everything in one      *)
(* upsert.  An event type is a path: its dots                              *)
(* make documents within the document of counts, and the database refuses  *)
(* an update that needs a number where there is a document, or the         *)
(* other way round.                                                        *)
(***************************************************************************)
EXTENDS Naturals, Sequences, FiniteSetsExt, SequencesExt

CONSTANTS
  EventTypes,  \* sequences of names
  Latencies,   \* in milliseconds; zero for less than one
  Recorders,   \* deliveries at a time
  LastHour, MaxRecords  \* bounds: hours, records

ASSUME BucketsAssumption ==
  /\ EventTypes \subseteq Seq(STRING) \ {<<>>} /\ Latencies \subseteq Nat
  /\ MaxRecords \in Nat /\ LastHour \in Nat \ {0}

VARIABLES
  hour,      \* the hour it is
  bucket,    \* per hour: whether it is there, its counters and extremes
  typeCount, \* per hour, eventTypeCounts: per type
  recorder,  \* per delivery: what it records, the copy of the bucket, and history
  records,   \* bound
  latencySum, latencyCount, \* history: latencies delivered, and how many
  ended,     \* history: records that ended, per type
  solid      \* history: hours and latencies of records no other was under way with

bucketVars == <<hour, bucket, typeCount, recorder, records, latencySum, latencyCount, ended, solid>>

NoBucket == [found |-> FALSE, deliveryCount |-> 0, totalLatency |-> 0, min |-> 0, max |-> 0]
NotRecording == [metric |-> "none"]
BucketHours == 1..LastHour
Docs == [found : BOOLEAN, deliveryCount : Nat, totalLatency : Nat,
         min : Latencies \cup {0}, max : Latencies \cup {0}]

BucketsTypeOK ==
  /\ hour \in BucketHours /\ bucket \in [BucketHours -> Docs]
  /\ typeCount \in [BucketHours -> [EventTypes -> Nat]]
  /\ recorder \in [Recorders -> {NotRecording} \cup
       [metric : {"delivered", "failed"}, latency : Latencies, type : EventTypes,
        hour : BucketHours, copy : Docs, alone : BOOLEAN]]
  /\ records \in 0..MaxRecords /\ latencySum \in Nat /\ latencyCount \in Nat
  /\ ended \in [EventTypes -> Nat]
  /\ solid \subseteq BucketHours \X Latencies

BucketsInit ==
  /\ hour = 1 /\ bucket = [h \in BucketHours |-> NoBucket]
  /\ typeCount = [h \in BucketHours |-> [t \in EventTypes |-> 0]]
  /\ recorder = [r \in Recorders |-> NotRecording]
  /\ records = 0 /\ latencySum = 0 /\ latencyCount = 0 /\ ended = [t \in EventTypes |-> 0] /\ solid = {}

Recording(r) == recorder[r] # NotRecording
Nested(t, u) == t # u /\ (IsPrefix(t, u) \/ IsPrefix(u, t))
Refused(h, t) == \E u \in EventTypes : Nested(t, u) /\ typeCount[h][u] > 0

\* history alone: no other record was under way with it, so far.
Crowd(r) == {q \in Recorders \ {r} : Recording(q)}
ReadBucket(r, metric, l, t) ==
  /\ ~Recording(r) /\ records < MaxRecords /\ records' = records + 1
  /\ recorder' = [q \in Recorders |->
       IF q = r THEN [metric |-> metric, latency |-> l, type |-> t, hour |-> hour,
                      copy |-> bucket[hour], alone |-> Crowd(r) = {}]
       ELSE IF Recording(q) THEN [recorder[q] EXCEPT !.alone = FALSE] ELSE NotRecording]
  /\ UNCHANGED <<hour, bucket, typeCount, latencySum, latencyCount, ended, solid>>

\* Mutant: the counters are those of the copy.
CountersOfCopy(r, b) ==
  IF recorder[r].metric # "delivered" THEN b
  ELSE [b EXCEPT !.deliveryCount = recorder[r].copy.deliveryCount + 1,
                 !.totalLatency = recorder[r].copy.totalLatency + recorder[r].latency]

\* Mutant: the update is sent again when its answer is lost.
CountersTwice(r, b) ==
  IF recorder[r].metric # "delivered" THEN b
  ELSE [b EXCEPT !.deliveryCount = @ + 2, !.totalLatency = @ + 2 * recorder[r].latency]

\* $inc: only deliveries count for the average.
Counters(r, b) ==
  IF recorder[r].metric # "delivered" THEN b
  ELSE [b EXCEPT !.deliveryCount = @ + 1, !.totalLatency = @ + recorder[r].latency]

\* Mutant: the latency of the last record.
LastLatency(r, b) == [b EXCEPT !.min = recorder[r].latency, !.max = recorder[r].latency]

\* $set: by the copy, when there was one; a minimum of zero is none.
Extremes(r, b) ==
  LET l == recorder[r].latency
      copy == recorder[r].copy
  IN  IF l = 0 \/ ~copy.found THEN b
      ELSE [b EXCEPT !.min = IF copy.min = 0 \/ l < copy.min THEN l ELSE @,
                     !.max = IF l > copy.max THEN l ELSE @]

\* history
Delivers(r) ==
  IF recorder[r].metric = "delivered"
  THEN latencySum' = latencySum + recorder[r].latency /\ latencyCount' = latencyCount + 1
  ELSE UNCHANGED <<latencySum, latencyCount>>

\* Mutant: a type is counted when it is new.
CountOnce(r) ==
  LET h == recorder[r].hour
  IN  /\ bucket' = [bucket EXCEPT ![h] = [Extremes(r, Counters(r, @)) EXCEPT !.found = TRUE]]
      /\ typeCount' = [typeCount EXCEPT ![h][recorder[r].type] = IF @ = 0 THEN 1 ELSE @]
      /\ Delivers(r)

\* Nothing is written when the update is refused: the caller gets the error.
Upsert(r) ==
  LET h == recorder[r].hour
  IN  IF Refused(h, recorder[r].type) THEN UNCHANGED <<bucket, typeCount, latencySum, latencyCount>>
      ELSE /\ bucket' = [bucket EXCEPT ![h] = [Extremes(r, Counters(r, @)) EXCEPT !.found = TRUE]]
           /\ typeCount' = [typeCount EXCEPT ![h][recorder[r].type] = @ + 1]
           /\ Delivers(r)

WriteBucket(r) ==
  /\ Recording(r) /\ Upsert(r)
  /\ ended' = [ended EXCEPT ![recorder[r].type] = @ + 1]
  /\ solid' = IF \/ ~recorder[r].copy.found \/ recorder[r].latency = 0
                 \/ Refused(recorder[r].hour, recorder[r].type)
                 \/ ~recorder[r].alone
              THEN solid ELSE solid \cup {<<recorder[r].hour, recorder[r].latency>>}
  /\ recorder' = [recorder EXCEPT ![r] = NotRecording]
  /\ UNCHANGED <<hour, records>>

NextHour ==
  /\ hour < LastHour /\ hour' = hour + 1
  /\ UNCHANGED <<bucket, typeCount, recorder, records, latencySum, latencyCount, ended, solid>>

BucketsNext ==
  \/ \E r \in Recorders :
       \/ \E m \in {"delivered", "failed"}, l \in Latencies, t \in EventTypes :
            ReadBucket(r, m, l, t)
       \/ WriteBucket(r)
  \/ NextHour

-----------------------------------------------------------------------------
(* Reports *)

\* $sum, of what each hour has; an hour without a bucket has nothing.
SumOf(f) ==
  LET upTo[n \in 0..LastHour] == IF n = 0 THEN 0 ELSE upTo[n - 1] + f[n] IN upTo[LastHour]

There == {h \in BucketHours : bucket[h].found}

\* $min: an hour that has no minimum yet counts as zero, as in emptyStats.
LowestLatency == IF There = {} THEN 0 ELSE Min({bucket[h].min : h \in There})

\* getSummary
Summary ==
  [deliveryCount |-> SumOf([h \in BucketHours |-> bucket[h].deliveryCount]),
   totalLatency |-> SumOf([h \in BucketHours |-> bucket[h].totalLatency]),
   min |-> LowestLatency,
   max |-> Max({bucket[h].max : h \in There} \cup {0})]

\* getEventTypeBreakdown, for a name that is a key of some bucket: a key that
\* holds a document has no number.
Keys(h) == {<<Head(t)>> : t \in {t \in EventTypes : typeCount[h][t] > 0}}
Garbled(k) == \E h \in There, t \in EventTypes : Nested(k, t) /\ typeCount[h][t] > 0
CountAt(t) == [h \in BucketHours |-> typeCount[h][t]]
Breakdown ==
  [k \in {k \in UNION {Keys(h) : h \in There} : ~Garbled(k)} |-> SumOf(CountAt(k))]

-----------------------------------------------------------------------------
(* Properties *)

\* The average of the report is exact, however records overlap: both what is divided
\* and what it is divided by.
AverageExact ==
  Summary.totalLatency = latencySum /\ Summary.deliveryCount = latencyCount

\* The extremes of the report bracket every latency that was recorded with
\* no other record under way, from its read to its write, but for first records
\* of an hour and latencies of zero.  No minimum is shown only if an hour has none
\* but these.
ExtremesBracket ==
  /\ \A h \in BucketHours, l \in Latencies :
       <<h, l>> \in solid => Summary.min <= l /\ l <= Summary.max
  /\ Summary.min = 0 /\ There # {} => \E h \in There : \A l \in Latencies : <<h, l>> \notin solid

\* Every record is counted under its type, unless another type is a part of its
\* name or it of the other's: then the later of the two is refused and counts nowhere.
CountedUnlessNested ==
  \A t \in EventTypes :
    \/ SumOf(CountAt(t)) = ended[t]
    \/ \E u \in EventTypes, h \in There : Nested(t, u) /\ typeCount[h][u] > 0

\* What the breakdown says of a name is every record of it, over all hours.
BreakdownExact == \A k \in DOMAIN Breakdown : Breakdown[k] = ended[k]

\* What the reports say of the records (AnalyticsService).
BucketsSafe ==
  /\ BucketsTypeOK /\ AverageExact /\ ExtremesBracket /\ CountedUnlessNested
  /\ BreakdownExact
=============================================================================
