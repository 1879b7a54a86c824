--------------------------- MODULE Ingest_proofs ---------------------------
(* How events get in, for any requests, keys, marks, limits and deaths.      *)
EXTENDS Ingest, FiniteSetTheorems, TLAPS

Places == {<<"idle">>} \cup (Routes \X Steps)

-----------------------------------------------------------------------------
(* Types *)

LEMMA PlacesDiffer ==
  /\ \A route, step : <<route, step>> # <<"idle">>
  /\ \A a, b, c, d : <<a, b>> = <<c, d>> => a = c /\ b = d
OBVIOUS

\* Where a request may go, and what it may answer.
LEMMA GoTyped ==
  ASSUME IngestTypeOK, NEW r \in Requests, NEW route \in Routes, NEW step \in Steps,
         Go(r, route, step)
  PROVE  /\ pc' \in [Requests -> Places] /\ answer' = answer
         /\ pc'[r] = <<route, step>>
         /\ \A q \in Requests : q # r => pc'[q] = pc[q]
BY DEF IngestTypeOK, Go, Places

LEMMA ReplyTyped ==
  ASSUME IngestTypeOK, NEW r \in Requests, NEW a \in Answers, Reply(r, a)
  PROVE  /\ pc' \in [Requests -> Places] /\ answer' \in [Requests -> Answers]
         /\ pc'[r] = <<"idle">> /\ answer'[r] = a
         /\ \A q \in Requests : q # r => pc'[q] = pc[q] /\ answer'[q] = answer[q]
BY DEF IngestTypeOK, Reply, Places

\* One step of one request: the others stay where they are, with their keys and
\* answers, and it leaves a place it was at.
OfOne(r) ==
  \A q \in Requests : q # r => pc'[q] = pc[q] /\ key'[q] = key[q] /\ answer'[q] = answer[q]

LEMMA CallTypes ==
  ASSUME IngestTypeOK, NEW r \in Requests,
         CallEvents(r) \/ CallWebhooks(r) \/ CallBroadcast(r)
  PROVE  /\ IngestTypeOK' /\ OfOne(r) /\ answer'[r] = "none"
         /\ pc'[r] \in {<<"events", "limit">>, <<"webhooks", "limit">>, <<"broadcast", "create">>}
         /\ UNCHANGED <<db, history>> /\ pc[r] = <<"idle">>
<1>1. PICK route \in Routes, step \in Steps :
        Call(r, route, step) /\ <<route, step>> \in
          {<<"events", "limit">>, <<"webhooks", "limit">>, <<"broadcast", "create">>}
  BY DEF CallEvents, CallWebhooks, CallBroadcast, Routes, Limited, Steps
<1>2. <<route, step>> \in Routes \X Steps
  OBVIOUS
<1>3. pc' = [pc EXCEPT ![r] = <<route, step>>] /\ answer' = [answer EXCEPT ![r] = "none"]
  BY <1>1 DEF Call
<1>4. PICK k \in Keys : key' = [key EXCEPT ![r] = k]
  BY <1>1 DEF Call
<1>5. "none" \in Answers
  BY DEF Answers
<1>6. UNCHANGED <<db, history>> /\ pc[r] = <<"idle">>
  BY <1>1 DEF Call
<1>7. IngestTypeOK'
  BY <1>2, <1>3, <1>4, <1>5, <1>6 DEF IngestTypeOK, db, history
<1> QED
  BY <1>1, <1>3, <1>4, <1>6, <1>7 DEF IngestTypeOK, OfOne

\* The limit, the lookup of the key, and the mark: nothing is created.
Looking(r) ==
  Dedup(r) \/ \E route \in Limited : CheckLimit(r, route) \/ FindKey(r, route)

LEMMA LookingTypes ==
  ASSUME IngestTypeOK, NEW r \in Requests, Looking(r)
  PROVE  /\ IngestTypeOK' /\ OfOne(r) /\ key' = key
         /\ answer'[r] \in {answer[r], "limit", "duplicate", "deduplicated"}
         /\ pc'[r] = <<"idle">> \/ \E route \in Limited, step \in {"find", "dedup", "create"} :
                                     At(r, route, step)'
         /\ UNCHANGED <<events, jobs, monthEvents, creates, deaths>>
<1> USE DEF IngestTypeOK
<1>1. /\ key' = key
      /\ marks' \subseteq Marks /\ lost' \subseteq Marks
      /\ UNCHANGED <<events, jobs, monthEvents, creates, deaths>>
  <2>1. MarkOf[key[r]] \in Marks
    BY IngestAssumption
  <2> QED
    BY <2>1 DEF Looking, Dedup, CheckLimit, FindKey, db, history
<1>2. \/ \E a \in {"limit", "duplicate", "deduplicated"} : Reply(r, a)
      \/ \E route \in Limited, step \in {"find", "dedup", "create"} : Go(r, route, step)
  BY DEF Looking, Dedup, CheckLimit, FindKey, Limited
<1>3. ASSUME NEW a \in {"limit", "duplicate", "deduplicated"}, Reply(r, a)
      PROVE  /\ pc' \in [Requests -> Places] /\ answer' \in [Requests -> Answers]
             /\ pc'[r] = <<"idle">> /\ answer'[r] = a
             /\ \A q \in Requests : q # r => pc'[q] = pc[q] /\ answer'[q] = answer[q]
  BY <1>3, ReplyTyped DEF Answers
<1>4. ASSUME NEW route \in Limited, NEW step \in {"find", "dedup", "create"}, Go(r, route, step)
      PROVE  /\ pc' \in [Requests -> Places] /\ answer' = answer
             /\ pc'[r] = <<route, step>> /\ \A q \in Requests : q # r => pc'[q] = pc[q]
  BY <1>4, GoTyped DEF Routes, Steps
<1>5. OfOne(r) /\ answer'[r] \in {answer[r], "limit", "duplicate", "deduplicated"}
  BY <1>1, <1>2, <1>3, <1>4 DEF OfOne
<1>6. pc'[r] = <<"idle">> \/ \E route \in Limited, step \in {"find", "dedup", "create"} :
                               At(r, route, step)'
  BY <1>2, <1>3, <1>4 DEF At
<1>7. pc' \in [Requests -> Places] /\ answer' \in [Requests -> Answers]
  BY <1>2, <1>3, <1>4
<1> QED
  BY <1>1, <1>5, <1>6, <1>7 DEF Places

LEMMA CreateTypes ==
  ASSUME IngestTypeOK, NEW r \in Requests, NEW route \in Routes, Create(r, route)
  PROVE  /\ IngestTypeOK' /\ OfOne(r) /\ key' = key /\ At(r, route, "create")
         /\ UNCHANGED <<marks, jobs, monthEvents, lost, deaths>>
         /\ \/ /\ key[r] \notin events /\ events' = events \cup {key[r]}
               /\ creates' = [rt \in Limited |-> IF rt = route THEN creates[rt] + 1 ELSE creates[rt]]
               /\ At(r, route, "add")' /\ answer' = answer
            \/ /\ key[r] \in events /\ UNCHANGED <<events, creates>>
               /\ pc'[r] = <<"idle">> /\ answer'[r] = "error"
<1>1. At(r, route, "create") /\ UNCHANGED <<marks, jobs, monthEvents, key, lost, deaths>>
  BY DEF Create
<1>2. CASE key[r] \notin events
  <2>1. /\ events' = events \cup {key[r]} /\ Go(r, route, "add")
        /\ creates' = [rt \in Limited |-> IF rt = route THEN creates[rt] + 1 ELSE creates[rt]]
    BY <1>2 DEF Create, KeyFree
  <2>2. /\ pc' \in [Requests -> Places] /\ answer' = answer /\ pc'[r] = <<route, "add">>
        /\ \A q \in Requests : q # r => pc'[q] = pc[q]
    BY <2>1, GoTyped DEF Steps
  <2>3. creates' \in [Limited -> Nat] /\ events' \subseteq Keys
    BY <2>1 DEF IngestTypeOK
  <2> QED
    BY <1>1, <1>2, <2>1, <2>2, <2>3 DEF IngestTypeOK, OfOne, At, Places
<1>3. CASE key[r] \in events
  <2>1. Reply(r, "error") /\ UNCHANGED <<events, creates>>
    BY <1>3 DEF Create, KeyFree
  <2>2. /\ pc' \in [Requests -> Places] /\ answer' \in [Requests -> Answers]
        /\ pc'[r] = <<"idle">> /\ answer'[r] = "error"
        /\ \A q \in Requests : q # r => pc'[q] = pc[q] /\ answer'[q] = answer[q]
    BY <2>1, ReplyTyped DEF Answers
  <2> QED
    BY <1>1, <1>3, <2>1, <2>2 DEF IngestTypeOK, OfOne, Places
<1> QED
  BY <1>2, <1>3

LEMMA AddTypes ==
  ASSUME IngestTypeOK, NEW r \in Requests, NEW route \in Routes, Add(r, route)
  PROVE  /\ IngestTypeOK' /\ OfOne(r) /\ key' = key /\ At(r, route, "add")
         /\ UNCHANGED <<events, marks, monthEvents, history>>
         /\ jobs' = [jobs EXCEPT ![key[r]] = @ + 1]
         /\ \/ route = "webhooks" /\ At(r, "webhooks", "count")' /\ answer' = answer
            \/ route # "webhooks" /\ pc'[r] = <<"idle">> /\ answer'[r] = "queued"
<1>1. /\ At(r, route, "add") /\ UNCHANGED <<events, marks, monthEvents, key, history>>
      /\ jobs' = [jobs EXCEPT ![key[r]] = @ + 1]
  BY DEF Add
<1>2. jobs' \in [Keys -> Nat]
  BY <1>1 DEF IngestTypeOK
<1>3. CASE route = "webhooks"
  <2>1. Go(r, "webhooks", "count")
    BY <1>3 DEF Add
  <2>2. /\ pc' \in [Requests -> Places] /\ answer' = answer /\ pc'[r] = <<"webhooks", "count">>
        /\ \A q \in Requests : q # r => pc'[q] = pc[q]
    BY <2>1, GoTyped DEF Steps, Routes, Limited
  <2> QED
    BY <1>1, <1>2, <1>3, <2>2 DEF IngestTypeOK, OfOne, At, Places, history
<1>4. CASE route # "webhooks"
  <2>1. Reply(r, "queued")
    BY <1>4 DEF Add
  <2>2. /\ pc' \in [Requests -> Places] /\ answer' \in [Requests -> Answers]
        /\ pc'[r] = <<"idle">> /\ answer'[r] = "queued"
        /\ \A q \in Requests : q # r => pc'[q] = pc[q] /\ answer'[q] = answer[q]
    BY <2>1, ReplyTyped DEF Answers
  <2> QED
    BY <1>1, <1>2, <1>4, <2>2 DEF IngestTypeOK, OfOne, Places, history
<1> QED
  BY <1>3, <1>4

LEMMA CountTypes ==
  ASSUME IngestTypeOK, NEW r \in Requests, CountEvent(r)
  PROVE  /\ IngestTypeOK' /\ OfOne(r) /\ key' = key /\ At(r, "webhooks", "count")
         /\ UNCHANGED <<events, marks, jobs, history>> /\ monthEvents' = monthEvents + 1
         /\ pc'[r] = <<"idle">> /\ answer'[r] = "queued"
<1>1. /\ At(r, "webhooks", "count") /\ UNCHANGED <<events, marks, jobs, key, history>>
      /\ monthEvents' = monthEvents + 1 /\ Reply(r, "queued")
  BY DEF CountEvent
<1>2. /\ pc' \in [Requests -> Places] /\ answer' \in [Requests -> Answers]
      /\ pc'[r] = <<"idle">> /\ answer'[r] = "queued"
      /\ \A q \in Requests : q # r => pc'[q] = pc[q] /\ answer'[q] = answer[q]
  BY <1>1, ReplyTyped DEF Answers
<1> QED
  BY <1>1, <1>2 DEF IngestTypeOK, OfOne, Places, history

LEMMA DieTypes ==
  ASSUME IngestTypeOK, NEW r \in Requests, Die(r)
  PROVE  /\ IngestTypeOK' /\ OfOne(r) /\ key' = key /\ pc[r] # <<"idle">>
         /\ UNCHANGED <<db, creates>> /\ deaths' = deaths + 1
         /\ lost' = IF HoldsMark(r) THEN lost \cup {MarkOf[key[r]]} ELSE lost
         /\ pc'[r] = <<"idle">> /\ answer'[r] = "error"
<1>1. /\ pc[r] # <<"idle">> /\ UNCHANGED <<db, key, creates>> /\ Reply(r, "error")
      /\ deaths' = deaths + 1 /\ deaths < MaxDeaths
      /\ lost' = IF HoldsMark(r) THEN lost \cup {MarkOf[key[r]]} ELSE lost
  BY DEF Die
<1>2. /\ pc' \in [Requests -> Places] /\ answer' \in [Requests -> Answers]
      /\ pc'[r] = <<"idle">> /\ answer'[r] = "error"
      /\ \A q \in Requests : q # r => pc'[q] = pc[q] /\ answer'[q] = answer[q]
  BY <1>1, ReplyTyped DEF Answers
<1>3. lost' \subseteq Marks /\ deaths' \in 0..MaxDeaths
  BY <1>1, IngestAssumption DEF IngestTypeOK
<1> QED
  BY <1>1, <1>2, <1>3 DEF IngestTypeOK, OfOne, Places, db

\* Every type lemma in one fact: a step is typed.
LEMMA StepTypes ==
  ASSUME IngestTypeOK, [IngestNext]_ingestVars
  PROVE  IngestTypeOK'
<1>1. CASE IngestNext
  <2>1. ASSUME NEW m \in Marks, MarkExpires(m)
        PROVE  IngestTypeOK'
    BY <2>1 DEF MarkExpires, IngestTypeOK, history
  <2>2. ASSUME NEW r \in Requests,
               \/ CallEvents(r) \/ CallWebhooks(r) \/ CallBroadcast(r)
               \/ Looking(r) \/ CountEvent(r) \/ Die(r)
               \/ \E route \in Routes : Create(r, route) \/ Add(r, route)
        PROVE  IngestTypeOK'
    BY <2>2, CallTypes, LookingTypes, CountTypes, DieTypes, CreateTypes, AddTypes
  <2> QED
    BY <1>1, <2>1, <2>2 DEF IngestNext, Looking
<1>2. CASE UNCHANGED ingestVars
  BY <1>2 DEF IngestTypeOK, ingestVars, db, history
<1> QED
  BY <1>1, <1>2

-----------------------------------------------------------------------------
(* One job per key *)

\* Between create and add a request is alone with its key, which has no job yet:
\* the unique index let nobody else create it.
Adding(r) == \E route \in Routes : At(r, route, "add")
JobsInv ==
  /\ \A k \in Keys : k \notin events => jobs[k] = 0
  /\ \A r \in Requests : Adding(r) => key[r] \in events /\ jobs[key[r]] = 0
  /\ \A r, q \in Requests : Adding(r) /\ Adding(q) /\ key[r] = key[q] => r = q
  /\ \A r \in Requests :
       At(r, "webhooks", "count") => key[r] \in events /\ jobs[key[r]] = 1
  /\ OneJobPerKey

LEMMA NotWorking ==
  ASSUME NEW r \in Requests,
         \/ pc[r] = <<"idle">>
         \/ \E route \in Routes, step \in {"limit", "find", "dedup", "create"} : At(r, route, step)
  PROVE  ~Adding(r) /\ ~At(r, "webhooks", "count")
BY PlacesDiffer DEF Adding, At

\* A step of a request that neither creates, adds nor counts.
LEMMA JobsQuiet ==
  ASSUME JobsInv, NEW r \in Requests, OfOne(r), events' = events, jobs' = jobs,
         ~Adding(r)', ~At(r, "webhooks", "count")',
         answer'[r] # "queued" \/ (answer'[r] = answer[r] /\ key'[r] = key[r])
  PROVE  JobsInv'
<1>1. \A q \in Requests : q # r => Adding(q)' = Adding(q)
                                   /\ At(q, "webhooks", "count")' = At(q, "webhooks", "count")
  BY DEF OfOne, Adding, At
<1> QED
  BY <1>1 DEF JobsInv, OneJobPerKey, OfOne

LEMMA CallJobs ==
  ASSUME IngestTypeOK, JobsInv, NEW r \in Requests,
         CallEvents(r) \/ CallWebhooks(r) \/ CallBroadcast(r)
  PROVE  JobsInv'
<1>1. \E route \in Routes, step \in {"limit", "find", "dedup", "create"} : At(r, route, step)'
  BY CallTypes DEF At, Routes, Limited
<1>2. ~Adding(r)' /\ ~At(r, "webhooks", "count")'
  BY <1>1, PlacesDiffer DEF Adding, At
<1> QED
  BY <1>2, CallTypes, JobsQuiet DEF db

LEMMA LookingJobs ==
  ASSUME IngestTypeOK, JobsInv, NEW r \in Requests, Looking(r)
  PROVE  JobsInv'
<1>1. ~Adding(r)' /\ ~At(r, "webhooks", "count")'
  BY LookingTypes, PlacesDiffer DEF Adding, At, Routes
<1> QED
  BY <1>1, LookingTypes, JobsQuiet

LEMMA DieJobs ==
  ASSUME IngestTypeOK, JobsInv, NEW r \in Requests, Die(r)
  PROVE  JobsInv'
<1>1. ~Adding(r)' /\ ~At(r, "webhooks", "count")'
  BY DieTypes, PlacesDiffer DEF Adding, At
<1> QED
  BY <1>1, DieTypes, JobsQuiet DEF db

LEMMA CountJobs ==
  ASSUME IngestTypeOK, JobsInv, NEW r \in Requests, CountEvent(r)
  PROVE  JobsInv'
<1>1. ~Adding(r)' /\ ~At(r, "webhooks", "count")'
  BY CountTypes, PlacesDiffer DEF Adding, At
<1>2. \A q \in Requests : q # r => Adding(q)' = Adding(q)
                                   /\ At(q, "webhooks", "count")' = At(q, "webhooks", "count")
  BY CountTypes DEF OfOne, Adding, At
<1>3. key[r] \in events /\ jobs[key[r]] = 1
  BY CountTypes DEF JobsInv
<1> QED
  BY <1>1, <1>2, <1>3, CountTypes DEF JobsInv, OneJobPerKey, OfOne

LEMMA CreateJobs ==
  ASSUME IngestTypeOK, JobsInv, NEW r \in Requests, NEW route \in Routes, Create(r, route)
  PROVE  JobsInv'
<1>1. \A q \in Requests : q # r => Adding(q)' = Adding(q)
                                   /\ At(q, "webhooks", "count")' = At(q, "webhooks", "count")
  BY CreateTypes DEF OfOne, Adding, At
<1>2. CASE key[r] \in events
  <2>1. ~Adding(r)' /\ ~At(r, "webhooks", "count")'
    BY <1>2, CreateTypes, PlacesDiffer DEF Adding, At
  <2> QED
    BY <1>2, <2>1, CreateTypes, JobsQuiet
<1>3. CASE key[r] \notin events
  <2>1. /\ ~At(r, "webhooks", "count")' /\ events' = events \cup {key[r]}
        /\ answer' = answer /\ key' = key /\ jobs' = jobs
    BY <1>3, CreateTypes, PlacesDiffer DEF At
  <2>2. key[r] \in Keys /\ jobs[key[r]] = 0
    BY <1>3 DEF JobsInv, IngestTypeOK
  <2>3. \A q \in Requests : Adding(q) => key[q] # key[r]
    BY <1>3 DEF JobsInv
  <2> QED
    BY <1>1, <2>1, <2>2, <2>3 DEF JobsInv, OneJobPerKey
<1> QED
  BY <1>2, <1>3

LEMMA AddJobs ==
  ASSUME IngestTypeOK, JobsInv, NEW r \in Requests, NEW route \in Routes, Add(r, route)
  PROVE  JobsInv'
<1>1. \A q \in Requests : q # r => Adding(q)' = Adding(q)
                                   /\ At(q, "webhooks", "count")' = At(q, "webhooks", "count")
  BY AddTypes DEF OfOne, Adding, At
<1>2. /\ Adding(r) /\ ~Adding(r)' /\ key' = key /\ events' = events
      /\ answer'[r] = answer[r] \/ answer'[r] = "queued"
  BY AddTypes, PlacesDiffer DEF Adding, At
<1>3. /\ key[r] \in Keys /\ key[r] \in events /\ jobs[key[r]] = 0
      /\ jobs' = [jobs EXCEPT ![key[r]] = @ + 1] /\ jobs \in [Keys -> Nat]
  BY <1>2, AddTypes DEF JobsInv, IngestTypeOK
<1>4. jobs'[key[r]] = 1 /\ \A k \in Keys : k # key[r] => jobs'[k] = jobs[k]
  BY <1>3
<1>5. \A q \in Requests : q # r /\ Adding(q) => key[q] # key[r]
  BY <1>2 DEF JobsInv
<1>6. \A q \in Requests : q # r =>
        /\ At(q, "webhooks", "count") => key[q] # key[r]
        /\ answer[q] = "queued" => key[q] # key[r]
  BY <1>3 DEF JobsInv, OneJobPerKey
<1>7. answer[r] # "queued" \/ answer'[r] = "queued"
  BY <1>2
<1> QED
  BY <1>1, <1>2, <1>3, <1>4, <1>5, <1>6, <1>7, AddTypes
  DEF JobsInv, OneJobPerKey, OfOne, IngestTypeOK

LEMMA JobsNext ==
  ASSUME IngestTypeOK, JobsInv, [IngestNext]_ingestVars
  PROVE  JobsInv'
<1>1. CASE IngestNext
  <2>1. ASSUME NEW m \in Marks, MarkExpires(m)
        PROVE  JobsInv'
    BY <2>1 DEF MarkExpires, JobsInv, OneJobPerKey, Adding, At
  <2>2. ASSUME NEW r \in Requests,
               \/ CallEvents(r) \/ CallWebhooks(r) \/ CallBroadcast(r)
               \/ Looking(r) \/ CountEvent(r) \/ Die(r)
               \/ \E route \in Routes : Create(r, route) \/ Add(r, route)
        PROVE  JobsInv'
    BY <2>2, CallJobs, LookingJobs, CountJobs, DieJobs, CreateJobs, AddJobs
  <2> QED
    BY <1>1, <2>1, <2>2 DEF IngestNext, Looking
<1>2. CASE UNCHANGED ingestVars
  BY <1>2 DEF JobsInv, OneJobPerKey, Adding, At, ingestVars, db
<1> QED
  BY <1>1, <1>2

LEMMA JobsInit == IngestInit => IngestTypeOK /\ JobsInv
<1> SUFFICES ASSUME IngestInit PROVE IngestTypeOK /\ JobsInv
  OBVIOUS
<1>1. IngestTypeOK
  BY IngestAssumption DEF IngestInit, IngestTypeOK, Answers
<1>2. \A r \in Requests : ~Adding(r) /\ ~At(r, "webhooks", "count") /\ answer[r] = "none"
  BY PlacesDiffer DEF IngestInit, Adding, At
<1> QED
  BY <1>1, <1>2 DEF IngestInit, JobsInv, OneJobPerKey

\* Whatever route the requests with one key take, one job is added for it, and a
\* request told "queued" has its event and its job (EventsService.send, WebhooksController).
THEOREM OneJob == IngestSpec => []OneJobPerKey
<1>1. IngestTypeOK /\ JobsInv /\ [IngestNext]_ingestVars => IngestTypeOK' /\ JobsInv'
  BY StepTypes, JobsNext
<1>2. JobsInv => OneJobPerKey
  BY DEF JobsInv
<1> QED
  BY <1>1, <1>2, JobsInit, PTL DEF IngestSpec

\* A step of a request stores its key, queues it, or is nothing to the promise.
LEMMA IntakeStep ==
  ASSUME IngestTypeOK, JobsInv, [IngestNext]_ingestVars
  PROVE  [Intake!Next]_<<events, jobs>>
<1> USE DEF Intake!Next
<1>1. ASSUME NEW r \in Requests, NEW route \in Routes, Create(r, route)
      PROVE  [Intake!Next]_<<events, jobs>>
  <2>1. key[r] \in Keys /\ UNCHANGED jobs
    BY <1>1, CreateTypes DEF IngestTypeOK
  <2>2. CASE key[r] \notin events /\ events' = events \cup {key[r]}
    BY <2>1, <2>2 DEF Intake!Store
  <2> QED
    BY <1>1, <2>1, <2>2, CreateTypes
<1>2. ASSUME NEW r \in Requests, NEW route \in Routes, Add(r, route)
      PROVE  Intake!Next
  <2>1. /\ key[r] \in Keys /\ UNCHANGED events
        /\ jobs' = [jobs EXCEPT ![key[r]] = @ + 1]
    BY <1>2, AddTypes DEF IngestTypeOK
  <2>2. Adding(r)
    BY <1>2, AddTypes DEF Adding
  <2>3. key[r] \in events /\ jobs[key[r]] = 0
    BY <2>2 DEF JobsInv
  <2>4. jobs' = [jobs EXCEPT ![key[r]] = 1]
    BY <2>1, <2>3
  <2>5. Intake!Queue(key[r])
    BY <2>1, <2>3, <2>4 DEF Intake!Queue
  <2> QED
    BY <2>1, <2>5
<1>3. ASSUME NEW r \in Requests,
             \/ CallEvents(r) \/ CallWebhooks(r) \/ CallBroadcast(r)
             \/ Looking(r) \/ CountEvent(r) \/ Die(r)
      PROVE  UNCHANGED <<events, jobs>>
  BY <1>3, CallTypes, LookingTypes, CountTypes, DieTypes DEF db
<1>4. ASSUME (\E m \in Marks : MarkExpires(m)) \/ UNCHANGED ingestVars
      PROVE  UNCHANGED <<events, jobs>>
  BY <1>4 DEF MarkExpires, ingestVars, db
<1> QED
  BY <1>1, <1>2, <1>3, <1>4 DEF IngestNext, Looking

\* The three routes in, whose requests race, lose and die, take together the steps
\* of module EventIntake and no others: an event is stored once, then its job is
\* added once (EventsService.send, WebhooksController.send and broadcast).
THEOREM IngestIsIntake == IngestSpec => IntakeSpec
<1>1. IngestInit => Intake!Init
  BY DEF IngestInit, Intake!Init
<1>2. IngestTypeOK /\ JobsInv /\ [IngestNext]_ingestVars => IngestTypeOK' /\ JobsInv'
  BY StepTypes, JobsNext
<1>3. IngestTypeOK /\ JobsInv /\ [IngestNext]_ingestVars => [Intake!Next]_<<events, jobs>>
  BY IntakeStep
<1> QED
  BY <1>1, <1>2, <1>3, JobsInit, PTL DEF IngestSpec, IntakeSpec, Intake!Spec

-----------------------------------------------------------------------------
(* The limits *)

\* Requests that passed the limit of a route and have not created; and requests
\* whose event the project's counter does not know yet.
Past(route) ==
  {r \in Requests : \E step \in {"find", "dedup", "create"} : At(r, route, step)}
Uncounted == {r \in Requests : At(r, "webhooks", "add") \/ At(r, "webhooks", "count")}

\* Each limit bounds what was created and what still may be; what the counter of
\* the project misses is uncounted or died.
LimitInv ==
  /\ IsFiniteSet(events)
  /\ creates["events"] <= Cardinality(events)
  /\ EventLimit > 0 =>
       creates["events"] + Cardinality(Past("events")) <= EventLimit + Cardinality(Requests) - 1
  /\ creates["webhooks"] <= monthEvents + Cardinality(Uncounted) + deaths
  /\ creates["webhooks"] + Cardinality(Past("webhooks"))
       <= Monthly + Cardinality(Requests) - 1 + deaths

LEMMA SomeRequests == IsFiniteSet(Requests) /\ Cardinality(Requests) \in Nat \ {0}
BY IngestAssumption, FS_CardinalityType, FS_EmptySet

LEMMA Part ==
  ASSUME NEW S \in SUBSET Requests
  PROVE  IsFiniteSet(S) /\ Cardinality(S) \in Nat /\ Cardinality(S) <= Cardinality(Requests)
BY SomeRequests, FS_Subset, FS_CardinalityType

LEMMA SmallerPart ==
  ASSUME NEW T \in SUBSET Requests, NEW S \in SUBSET T
  PROVE  Cardinality(S) <= Cardinality(T)
BY Part, FS_Subset

LEMMA PartLess ==
  ASSUME NEW S \in SUBSET Requests, NEW r \in S
  PROVE  Cardinality(S \ {r}) = Cardinality(S) - 1
BY Part, FS_RemoveElement

LEMMA TwoParts ==
  ASSUME NEW S \in SUBSET Requests, NEW T \in SUBSET Requests, S \cap T = {}
  PROVE  Cardinality(S) + Cardinality(T) <= Cardinality(Requests)
<1>1. S \cup T \in SUBSET Requests
  OBVIOUS
<1>2. Cardinality(S \cup T) = Cardinality(S) + Cardinality(T) - Cardinality(S \cap T)
  BY Part, FS_Union
<1>3. Cardinality(S \cap T) = 0
  BY FS_EmptySet
<1>4. Cardinality(S \cup T) <= Cardinality(Requests)
  BY <1>1, Part
<1> QED
  BY <1>2, <1>3, <1>4, Part

\* The parts, before and after a step.
LEMMA Parts ==
  /\ \A route : Past(route) \in SUBSET Requests /\ Past(route)' \in SUBSET Requests
  /\ Uncounted \in SUBSET Requests /\ Uncounted' \in SUBSET Requests
BY DEF Past, Uncounted

LEMMA SameWithout ==
  ASSUME NEW S, NEW T, NEW r, S \ {r} = T \ {r}, r \notin S
  PROVE  S = T \ {r} /\ (r \notin T => S = T)
OBVIOUS

\* The parts change by the request that moves, and by nobody else.
LEMMA PartsMove ==
  ASSUME NEW r \in Requests, OfOne(r), NEW route
  PROVE  /\ Past(route)' \ {r} = Past(route) \ {r}
         /\ Uncounted' \ {r} = Uncounted \ {r}
BY DEF OfOne, Past, Uncounted, At

\* A step that creates nothing, passes no limit, and loses no event uncounted.
LEMMA LimitQuiet ==
  ASSUME IngestTypeOK, IngestTypeOK', LimitInv, events' = events, creates' = creates,
         Past("events")' \subseteq Past("events"), Past("webhooks")' \subseteq Past("webhooks"),
         monthEvents + Cardinality(Uncounted) + deaths
           <= monthEvents' + Cardinality(Uncounted') + deaths',
         deaths <= deaths'
  PROVE  LimitInv'
<1>1. /\ Cardinality(Past("events")') <= Cardinality(Past("events"))
      /\ Cardinality(Past("webhooks")') <= Cardinality(Past("webhooks"))
  BY Parts, SmallerPart
<1>2. /\ Cardinality(Past("events")) \in Nat /\ Cardinality(Past("events")') \in Nat
      /\ Cardinality(Past("webhooks")) \in Nat /\ Cardinality(Past("webhooks")') \in Nat
      /\ Cardinality(Uncounted) \in Nat /\ Cardinality(Uncounted') \in Nat
  BY Parts, Part
<1>3. /\ creates["events"] \in Nat /\ creates["webhooks"] \in Nat
      /\ monthEvents \in Nat /\ monthEvents' \in Nat /\ deaths \in Nat /\ deaths' \in Nat
      /\ EventLimit \in Nat /\ Monthly \in Nat /\ Cardinality(Requests) \in Nat
  BY IngestAssumption, SomeRequests DEF IngestTypeOK, Limited
<1>4. creates'["events"] <= Cardinality(events')
  BY DEF LimitInv
<1>5. EventLimit > 0 => creates'["events"] + Cardinality(Past("events")')
                          <= EventLimit + Cardinality(Requests) - 1
  BY <1>1, <1>2, <1>3 DEF LimitInv
<1>6. creates'["webhooks"] <= monthEvents' + Cardinality(Uncounted') + deaths'
  BY <1>2, <1>3 DEF LimitInv
<1>7. creates'["webhooks"] + Cardinality(Past("webhooks")')
        <= Monthly + Cardinality(Requests) - 1 + deaths'
  BY <1>1, <1>2, <1>3 DEF LimitInv
<1> QED
  BY <1>4, <1>5, <1>6, <1>7 DEF LimitInv

\* A request that is nowhere counted before and after.
LEMMA OutsideParts ==
  ASSUME NEW r \in Requests,
         pc[r] = <<"idle">> \/ \E route \in Routes : At(r, route, "limit")
  PROVE  r \notin Past("events") /\ r \notin Past("webhooks") /\ r \notin Uncounted
BY PlacesDiffer DEF Past, Uncounted, At

LEMMA CallLimits ==
  ASSUME IngestTypeOK, LimitInv, NEW r \in Requests,
         CallEvents(r) \/ CallWebhooks(r) \/ CallBroadcast(r)
  PROVE  LimitInv'
<1>1. r \notin Past("events") /\ r \notin Past("webhooks") /\ r \notin Uncounted
  BY CallTypes, OutsideParts
<1>2. r \notin Past("events")' /\ r \notin Past("webhooks")' /\ r \notin Uncounted'
  BY CallTypes, PlacesDiffer DEF Past, Uncounted, At
<1>3. /\ Past("events")' = Past("events") /\ Past("webhooks")' = Past("webhooks")
      /\ Uncounted' = Uncounted
  BY <1>1, <1>2, CallTypes, PartsMove
<1>4. Cardinality(Uncounted) \in Nat /\ monthEvents \in Nat /\ deaths \in Nat
  BY Parts, Part DEF IngestTypeOK
<1> QED
  BY <1>3, <1>4, CallTypes, LimitQuiet DEF db, history

\* The numbers the invariant speaks of.
LEMMA Numbers ==
  ASSUME IngestTypeOK
  PROVE  /\ Cardinality(Past("events")) \in Nat /\ Cardinality(Past("events")') \in Nat
         /\ Cardinality(Past("webhooks")) \in Nat /\ Cardinality(Past("webhooks")') \in Nat
         /\ Cardinality(Uncounted) \in Nat /\ Cardinality(Uncounted') \in Nat
         /\ creates["events"] \in Nat /\ creates["webhooks"] \in Nat
         /\ monthEvents \in Nat /\ deaths \in Nat
         /\ EventLimit \in Nat /\ Monthly \in Nat /\ Cardinality(Requests) \in Nat
BY Parts, Part, IngestAssumption, SomeRequests DEF IngestTypeOK, Limited

LEMMA ChecksLimits ==
  ASSUME IngestTypeOK, LimitInv, NEW r \in Requests, NEW route \in Limited, CheckLimit(r, route)
  PROVE  LimitInv'
<1>1. Looking(r) /\ At(r, route, "limit") /\ marks' = marks /\ lost' = lost
  BY DEF Looking, CheckLimit, db, history
<1>2. /\ IngestTypeOK' /\ OfOne(r)
      /\ UNCHANGED <<events, monthEvents, creates, deaths>>
  BY <1>1, LookingTypes
<1>3. r \notin Past("events") /\ r \notin Past("webhooks") /\ r \notin Uncounted
  BY <1>1, OutsideParts DEF Routes
<1>4. CASE ~WithinLimit(route)
  <2>1. pc'[r] = <<"idle">>
    BY <1>4, ReplyTyped DEF CheckLimit, Answers
  <2>2. r \notin Past("events")' /\ r \notin Past("webhooks")' /\ r \notin Uncounted'
    BY <2>1, PlacesDiffer DEF Past, Uncounted, At
  <2>3. /\ Past("events")' = Past("events") /\ Past("webhooks")' = Past("webhooks")
        /\ Uncounted' = Uncounted
    BY <1>2, <1>3, <2>2, PartsMove
  <2> QED
    BY <1>2, <2>3, LimitQuiet, Numbers
<1>5. CASE WithinLimit(route)
  <2>1. pc'[r] = <<route, "find">>
    BY <1>5, GoTyped DEF CheckLimit, Routes, Steps
  <2>2. r \notin Uncounted' /\ \A other \in Limited : other # route => r \notin Past(other)'
    BY <2>1, PlacesDiffer DEF Past, Uncounted, At
  <2>3. Uncounted' = Uncounted /\ \A other \in Limited : other # route => Past(other)' = Past(other)
    BY <1>2, <1>3, <2>2, PartsMove DEF Limited
  <2>4. Cardinality(Past(route)') <= Cardinality(Requests)
    BY Parts, Part
  <2>5. CASE route = "events"
    <3>1. EventLimit > 0 => Cardinality(events) < EventLimit
      BY <1>5, <2>5 DEF WithinLimit
    <3>2. Cardinality(events) \in Nat
      BY FS_CardinalityType DEF LimitInv
    <3>3. EventLimit > 0 => creates["events"] + Cardinality(Past("events")')
                              <= EventLimit + Cardinality(Requests) - 1
      BY <2>4, <2>5, <3>1, <3>2, Numbers DEF LimitInv
    <3>4. Past("webhooks")' = Past("webhooks")
      BY <2>3, <2>5 DEF Limited
    <3> QED
      BY <1>2, <2>3, <3>3, <3>4 DEF LimitInv
  <2>6. CASE route = "webhooks"
    <3>1. monthEvents < Monthly
      BY <1>5, <2>6 DEF WithinLimit
    <3>2. Uncounted \cap Past("webhooks")' = {}
      BY <2>3, PlacesDiffer DEF Uncounted, Past, At
    <3>3. Cardinality(Uncounted) + Cardinality(Past("webhooks")') <= Cardinality(Requests)
      BY <3>2, Parts, TwoParts
    <3>4. creates["webhooks"] + Cardinality(Past("webhooks")')
            <= Monthly + Cardinality(Requests) - 1 + deaths
      BY <3>1, <3>3, Numbers DEF LimitInv
    <3>5. Past("events")' = Past("events")
      BY <2>3, <2>6 DEF Limited
    <3> QED
      BY <1>2, <2>3, <3>4, <3>5 DEF LimitInv
  <2> QED
    BY <2>5, <2>6 DEF Limited
<1> QED
  BY <1>4, <1>5

\* Finding the key and setting the mark: whoever is past the limit stays so, or leaves.
LEMMA FindsLimits ==
  ASSUME IngestTypeOK, LimitInv, NEW r \in Requests,
         Dedup(r) \/ \E route \in Limited : FindKey(r, route)
  PROVE  LimitInv'
<1>1. Looking(r)
  BY DEF Looking
<1>2. PICK route \in Limited : At(r, route, "find") \/ (route = "events" /\ At(r, route, "dedup"))
  BY DEF Dedup, FindKey, Limited
<1>3. \/ \E a \in {"duplicate", "deduplicated"} : Reply(r, a)
      \/ \E step \in {"dedup", "create"} : Go(r, route, step)
  BY <1>2, PlacesDiffer DEF Dedup, FindKey, At
<1>4. pc'[r] = <<"idle">> \/ \E step \in {"dedup", "create"} : pc'[r] = <<route, step>>
  BY <1>3, ReplyTyped, GoTyped DEF Answers, Routes, Steps
<1>5. r \in Past(route) /\ r \notin Uncounted /\ r \notin Uncounted'
  BY <1>2, <1>4, PlacesDiffer DEF Past, Uncounted, At
<1>6. \A other : other # route => r \notin Past(other)'
  BY <1>4, PlacesDiffer DEF Past, At
<1>7. /\ Past("events")' \subseteq Past("events") /\ Past("webhooks")' \subseteq Past("webhooks")
      /\ Uncounted' = Uncounted
  BY <1>1, <1>5, <1>6, LookingTypes, PartsMove
<1> QED
  BY <1>1, <1>7, LookingTypes, LimitQuiet, Numbers

LEMMA CreateLimits ==
  ASSUME IngestTypeOK, LimitInv, NEW r \in Requests, NEW route \in Routes, Create(r, route)
  PROVE  LimitInv'
<1>1. /\ r \in Past(route) /\ r \notin Uncounted
      /\ \A other : other # route => r \notin Past(other)
  BY CreateTypes, PlacesDiffer DEF Past, Uncounted, At
<1>2. \A other : r \notin Past(other)'
  BY CreateTypes, PlacesDiffer DEF Past, At
<1>3. OfOne(r)
  BY CreateTypes
<1>4. Uncounted' \ {r} = Uncounted \ {r} /\ \A other : Past(other)' \ {r} = Past(other) \ {r}
  BY <1>3, PartsMove
<1>5. Past(route)' = Past(route) \ {r} /\ \A other : other # route => Past(other)' = Past(other)
  BY <1>1, <1>2, <1>4, SameWithout
<1>6. CASE key[r] \in events
  <2>1. r \notin Uncounted'
    BY <1>6, CreateTypes, PlacesDiffer DEF Uncounted, At
  <2>2. Uncounted' = Uncounted
    BY <1>1, <1>4, <2>1, SameWithout
  <2>3. Past("events")' \subseteq Past("events") /\ Past("webhooks")' \subseteq Past("webhooks")
    BY <1>5
  <2> QED
    BY <1>6, <2>2, <2>3, CreateTypes, LimitQuiet, Numbers
<1>7. CASE key[r] \notin events
  <2>1. /\ IngestTypeOK' /\ events' = events \cup {key[r]} /\ At(r, route, "add")'
        /\ creates' = [rt \in Limited |-> IF rt = route THEN creates[rt] + 1 ELSE creates[rt]]
        /\ monthEvents' = monthEvents /\ deaths' = deaths
    BY <1>7, CreateTypes
  <2>2. /\ IsFiniteSet(events') /\ Cardinality(events') = Cardinality(events) + 1
        /\ Cardinality(events) \in Nat
    BY <1>7, <2>1, FS_AddElement, FS_CardinalityType DEF LimitInv
  <2>3. Cardinality(Past(route)') = Cardinality(Past(route)) - 1
    BY <1>1, <1>5, Parts, PartLess
  <2>4. creates'["events"] <= Cardinality(events')
    BY <2>1, <2>2, Numbers DEF LimitInv, Limited
  <2>5. EventLimit > 0 => creates'["events"] + Cardinality(Past("events")')
                            <= EventLimit + Cardinality(Requests) - 1
    <3>1. CASE route = "events"
      BY <2>1, <2>3, <3>1, Numbers DEF LimitInv, Limited
    <3>2. CASE route # "events"
      BY <1>5, <2>1, <3>2 DEF LimitInv, Limited
    <3> QED
      BY <3>1, <3>2
  <2>6. creates'["webhooks"] + Cardinality(Past("webhooks")')
          <= Monthly + Cardinality(Requests) - 1 + deaths
    <3>1. CASE route = "webhooks"
      BY <2>1, <2>3, <3>1, Numbers DEF LimitInv, Limited
    <3>2. CASE route # "webhooks"
      BY <1>5, <2>1, <3>2 DEF LimitInv, Limited
    <3> QED
      BY <3>1, <3>2
  <2>7. creates'["webhooks"] <= monthEvents + Cardinality(Uncounted') + deaths
    <3>1. CASE route = "webhooks"
      <4>1. r \in Uncounted'
        BY <2>1, <3>1 DEF Uncounted, At
      <4>2. Uncounted = Uncounted' \ {r}
        BY <1>1, <1>4
      <4>3. Cardinality(Uncounted) = Cardinality(Uncounted') - 1
        BY <4>1, <4>2, Parts, PartLess
      <4> QED
        BY <2>1, <3>1, <4>3, Numbers DEF LimitInv, Limited
    <3>2. CASE route # "webhooks"
      <4>1. r \notin Uncounted'
        BY <2>1, <3>2, PlacesDiffer DEF Uncounted, At
      <4>2. Uncounted' = Uncounted
        BY <1>1, <1>4, <4>1, SameWithout
      <4> QED
        BY <2>1, <3>2, <4>2 DEF LimitInv, Limited
    <3> QED
      BY <3>1, <3>2
  <2> QED
    BY <2>1, <2>2, <2>4, <2>5, <2>6, <2>7 DEF LimitInv
<1> QED
  BY <1>6, <1>7

\* A job is added; a request of "webhooks" is still to be counted.
LEMMA AddLimits ==
  ASSUME IngestTypeOK, LimitInv, NEW r \in Requests, NEW route \in Routes, Add(r, route)
  PROVE  LimitInv'
<1>1. \A other : r \notin Past(other) /\ r \notin Past(other)'
  BY AddTypes, PlacesDiffer DEF Past, At
<1>2. r \in Uncounted <=> r \in Uncounted'
  BY AddTypes, PlacesDiffer DEF Uncounted, At
<1>3. /\ Past("events")' = Past("events") /\ Past("webhooks")' = Past("webhooks")
      /\ Uncounted' = Uncounted
  BY <1>1, <1>2, AddTypes, PartsMove
<1> QED
  BY <1>3, AddTypes, LimitQuiet, Numbers DEF history

LEMMA CountLimits ==
  ASSUME IngestTypeOK, LimitInv, NEW r \in Requests, CountEvent(r)
  PROVE  LimitInv'
<1>1. \A other : r \notin Past(other) /\ r \notin Past(other)'
  BY CountTypes, PlacesDiffer DEF Past, At
<1>2. r \in Uncounted /\ r \notin Uncounted'
  BY CountTypes, PlacesDiffer DEF Uncounted, At
<1>3. /\ Past("events")' = Past("events") /\ Past("webhooks")' = Past("webhooks")
      /\ Uncounted' = Uncounted \ {r}
  BY <1>1, <1>2, CountTypes, PartsMove
<1>4. Cardinality(Uncounted') = Cardinality(Uncounted) - 1
  BY <1>2, <1>3, Parts, PartLess
<1>5. monthEvents + Cardinality(Uncounted) + deaths
        <= monthEvents' + Cardinality(Uncounted') + deaths'
  BY <1>4, CountTypes, Numbers DEF history
<1>6. deaths <= deaths' /\ events' = events /\ creates' = creates
  BY CountTypes, Numbers DEF history
<1> QED
  BY <1>3, <1>5, <1>6, CountTypes, LimitQuiet

LEMMA DieLimits ==
  ASSUME IngestTypeOK, LimitInv, NEW r \in Requests, Die(r)
  PROVE  LimitInv'
<1>1. r \notin Uncounted' /\ \A other : r \notin Past(other)'
  BY DieTypes, PlacesDiffer DEF Past, Uncounted, At
<1>2. /\ Past("events")' \subseteq Past("events") /\ Past("webhooks")' \subseteq Past("webhooks")
      /\ Uncounted' = Uncounted \ {r}
  BY <1>1, DieTypes, PartsMove
<1>3. Cardinality(Uncounted) - 1 <= Cardinality(Uncounted')
  <2>1. CASE r \in Uncounted
    BY <1>2, <2>1, Parts, PartLess, Numbers
  <2>2. CASE r \notin Uncounted
    <3>1. Uncounted' = Uncounted
      BY <1>2, <2>2
    <3> QED
      BY <3>1, Numbers
  <2> QED
    BY <2>1, <2>2
<1>4. monthEvents + Cardinality(Uncounted) + deaths
        <= monthEvents' + Cardinality(Uncounted') + deaths'
  BY <1>3, DieTypes, Numbers DEF db
<1>5. deaths <= deaths' /\ events' = events /\ creates' = creates
  BY DieTypes, Numbers DEF db
<1> QED
  BY <1>2, <1>4, <1>5, DieTypes, LimitQuiet

LEMMA LimitNext ==
  ASSUME IngestTypeOK, LimitInv, [IngestNext]_ingestVars
  PROVE  LimitInv'
<1>1. CASE IngestNext
  <2>1. ASSUME NEW m \in Marks, MarkExpires(m)
        PROVE  LimitInv'
    BY <2>1 DEF MarkExpires, LimitInv, Past, Uncounted, At, history
  <2>2. ASSUME NEW r \in Requests,
               \/ CallEvents(r) \/ CallWebhooks(r) \/ CallBroadcast(r)
               \/ Dedup(r) \/ CountEvent(r) \/ Die(r)
               \/ \E route \in Limited : CheckLimit(r, route) \/ FindKey(r, route)
               \/ \E route \in Routes : Create(r, route) \/ Add(r, route)
        PROVE  LimitInv'
    BY <2>2, CallLimits, ChecksLimits, FindsLimits, CountLimits, DieLimits,
       CreateLimits, AddLimits
  <2> QED
    BY <1>1, <2>1, <2>2 DEF IngestNext
<1>2. CASE UNCHANGED ingestVars
  BY <1>2 DEF LimitInv, Past, Uncounted, At, ingestVars, db, history
<1> QED
  BY <1>1, <1>2

-----------------------------------------------------------------------------
(* What "deduplicated" means *)

\* What DedupExplained says of a mark: it stays explained, since a holder that goes
\* leaves an event of the mark or is recorded as lost.
Explained(m) ==
  \/ \E k \in events : MarkOf[k] = m
  \/ \E q \in Requests : HoldsMark(q) /\ MarkOf[key[q]] = m
  \/ m \in lost
MarkInv ==
  /\ \A r \in Requests : At(r, "events", "dedup") => key[r] \in Windowed
  /\ \A m \in marks : Explained(m)
  /\ \A r \in Requests, m \in Marks :
       answer[r] = "deduplicated" /\ MarkOf[key[r]] = m => Explained(m)

\* A step that sets no mark, creates nothing and ends no request holding one.
LEMMA MarkQuiet ==
  ASSUME MarkInv, NEW r \in Requests, OfOne(r), events \subseteq events', marks' = marks,
         lost \subseteq lost', marks \subseteq Marks,
         \A m \in Marks : HoldsMark(r) /\ MarkOf[key[r]] = m => Explained(m)',
         key'[r] = key[r] \/ ~HoldsMark(r),
         ~At(r, "events", "dedup")' \/ key'[r] \in Windowed,
         answer'[r] # "deduplicated" \/ (answer'[r] = answer[r] /\ key'[r] = key[r])
  PROVE  MarkInv'
<1>1. \A q \in Requests : q # r => /\ HoldsMark(q)' = HoldsMark(q) /\ key'[q] = key[q]
                                   /\ answer'[q] = answer[q]
                                   /\ At(q, "events", "dedup")' = At(q, "events", "dedup")
  BY DEF OfOne, HoldsMark, At
<1>3. ASSUME NEW m \in Marks, Explained(m)
      PROVE  Explained(m)'
  <2>1. CASE \E k \in events : MarkOf[k] = m
    BY <2>1 DEF Explained
  <2>2. CASE m \in lost
    BY <2>2 DEF Explained
  <2>3. CASE \E q \in Requests : q # r /\ HoldsMark(q) /\ MarkOf[key[q]] = m
    BY <1>1, <2>3 DEF Explained
  <2>4. CASE HoldsMark(r) /\ MarkOf[key[r]] = m
    BY <2>4
  <2> QED
    BY <1>3, <2>1, <2>2, <2>3, <2>4 DEF Explained
<1>4. \A m \in marks' : Explained(m)'
  BY <1>3 DEF MarkInv
<1>5. \A q \in Requests : At(q, "events", "dedup")' => key'[q] \in Windowed
  BY <1>1 DEF MarkInv
<1>6. \A q \in Requests, m \in Marks :
        answer'[q] = "deduplicated" /\ MarkOf[key'[q]] = m => Explained(m)'
  <2> SUFFICES ASSUME NEW q \in Requests, NEW m \in Marks,
                      answer'[q] = "deduplicated", MarkOf[key'[q]] = m
               PROVE  Explained(m)'
    OBVIOUS
  <2>1. answer[q] = "deduplicated" /\ MarkOf[key[q]] = m
    BY <1>1
  <2> QED
    BY <1>3, <2>1 DEF MarkInv
<1> QED
  BY <1>4, <1>5, <1>6 DEF MarkInv

LEMMA CallMarks ==
  ASSUME IngestTypeOK, MarkInv, NEW r \in Requests,
         CallEvents(r) \/ CallWebhooks(r) \/ CallBroadcast(r)
  PROVE  MarkInv'
<1>1. ~HoldsMark(r) /\ ~At(r, "events", "dedup")'
  BY CallTypes, PlacesDiffer DEF HoldsMark, At
<1> QED
  BY <1>1, CallTypes, MarkQuiet DEF db, history, IngestTypeOK

LEMMA CheckMarks ==
  ASSUME IngestTypeOK, MarkInv, NEW r \in Requests, NEW route \in Limited, CheckLimit(r, route)
  PROVE  MarkInv'
<1>1. Looking(r) /\ At(r, route, "limit") /\ UNCHANGED <<marks, lost>>
  BY DEF Looking, CheckLimit, db, history
<1>2. (answer' = answer \/ answer'[r] = "limit") /\ pc'[r] \in {<<"idle">>, <<route, "find">>}
  BY ReplyTyped, GoTyped DEF CheckLimit, Answers, Routes, Steps
<1>3. ~HoldsMark(r) /\ ~At(r, "events", "dedup")'
  BY <1>1, <1>2, PlacesDiffer DEF HoldsMark, At
<1> QED
  BY <1>1, <1>2, <1>3, LookingTypes, MarkQuiet DEF IngestTypeOK

LEMMA FindMarks ==
  ASSUME IngestTypeOK, MarkInv, NEW r \in Requests, NEW route \in Limited, FindKey(r, route)
  PROVE  MarkInv'
<1>1. Looking(r) /\ At(r, route, "find") /\ UNCHANGED <<marks, lost>>
  BY DEF Looking, FindKey, db, history
<1>2. answer' = answer \/ answer'[r] = "duplicate"
  BY ReplyTyped, GoTyped DEF FindKey, Answers, Routes, Steps
<1>3. At(r, "events", "dedup")' => key[r] \in Windowed
  <2>1. CASE key[r] \in events
    BY <2>1, ReplyTyped, PlacesDiffer DEF FindKey, Answers, At
  <2>2. CASE key[r] \notin events
    <3>1. Go(r, route, IF route = "events" /\ key[r] \in Windowed THEN "dedup" ELSE "create")
      BY <2>2 DEF FindKey
    <3>2. pc'[r] = <<route, IF route = "events" /\ key[r] \in Windowed THEN "dedup" ELSE "create">>
      BY <3>1, GoTyped DEF Routes, Steps
    <3> QED
      BY <3>2, PlacesDiffer DEF At
  <2> QED
    BY <2>1, <2>2
<1>4. ~HoldsMark(r)
  BY <1>1, PlacesDiffer DEF HoldsMark, At
<1> QED
  BY <1>1, <1>2, <1>3, <1>4, LookingTypes, MarkQuiet DEF IngestTypeOK

LEMMA DedupMarks ==
  ASSUME IngestTypeOK, MarkInv, NEW r \in Requests, Dedup(r)
  PROVE  MarkInv'
<1>1. /\ Looking(r) /\ At(r, "events", "dedup")
      /\ key[r] \in Windowed /\ key[r] \in Keys /\ MarkOf[key[r]] \in Marks
  BY IngestAssumption DEF Looking, Dedup, MarkInv, IngestTypeOK
<1>2. ~HoldsMark(r)
  BY <1>1, PlacesDiffer DEF HoldsMark, At
<1>3. CASE MarkOf[key[r]] \in marks
  <2>1. Reply(r, "deduplicated") /\ UNCHANGED <<marks, lost>>
    BY <1>3 DEF Dedup
  <2>2. /\ pc'[r] = <<"idle">>
        /\ \A q \in Requests : q # r => pc'[q] = pc[q] /\ answer'[q] = answer[q]
    BY <2>1, ReplyTyped DEF Answers
  <2>3. \A q \in Requests : HoldsMark(q) => HoldsMark(q)'
    BY <1>1, <1>2, <2>2, LookingTypes DEF HoldsMark
  <2> QED
    BY <1>1, <1>3, <2>1, <2>2, <2>3, LookingTypes, PlacesDiffer DEF MarkInv, Explained, At
<1>4. CASE MarkOf[key[r]] \notin marks
  <2>1. /\ Go(r, "events", "create") /\ marks' = marks \cup {MarkOf[key[r]]}
        /\ lost' = lost \ {MarkOf[key[r]]}
    BY <1>4 DEF Dedup
  <2>2. /\ pc'[r] = <<"events", "create">> /\ answer' = answer
        /\ \A q \in Requests : q # r => pc'[q] = pc[q]
    BY <2>1, GoTyped DEF Routes, Limited, Steps
  <2>3. HoldsMark(r)' /\ key' = key /\ events' = events
    BY <1>1, <2>2, LookingTypes DEF HoldsMark
  <2>4. \A q \in Requests : HoldsMark(q) => HoldsMark(q)'
    BY <2>2, <2>3 DEF HoldsMark
  <2>5. \A m \in Marks : Explained(m) \/ m = MarkOf[key[r]] => Explained(m)'
    BY <2>1, <2>3, <2>4 DEF Explained
  <2> QED
    BY <1>1, <2>1, <2>2, <2>3, <2>5, PlacesDiffer DEF MarkInv, At, IngestTypeOK
<1> QED
  BY <1>3, <1>4

LEMMA CreateMarks ==
  ASSUME IngestTypeOK, MarkInv, NEW r \in Requests, NEW route \in Routes, Create(r, route)
  PROVE  MarkInv'
<1>1. key[r] \in events' /\ events \subseteq events'
  BY CreateTypes
<1>2. ~At(r, "events", "dedup")'
  BY CreateTypes, PlacesDiffer DEF At
<1>3. \A m \in Marks : HoldsMark(r) /\ MarkOf[key[r]] = m => Explained(m)'
  BY <1>1 DEF Explained
<1> QED
  BY <1>1, <1>2, <1>3, CreateTypes, MarkQuiet DEF IngestTypeOK

LEMMA AddMarks ==
  ASSUME IngestTypeOK, MarkInv, NEW r \in Requests,
         CountEvent(r) \/ \E route \in Routes : Add(r, route)
  PROVE  MarkInv'
<1>1. ~HoldsMark(r)
  BY CountTypes, AddTypes, PlacesDiffer DEF HoldsMark, At
<1>2. ~At(r, "events", "dedup")'
  BY CountTypes, AddTypes, PlacesDiffer DEF At
<1> QED
  BY <1>1, <1>2, CountTypes, AddTypes, MarkQuiet DEF history, IngestTypeOK

LEMMA DieMarks ==
  ASSUME IngestTypeOK, MarkInv, NEW r \in Requests, Die(r)
  PROVE  MarkInv'
<1>1. \A m \in Marks : HoldsMark(r) /\ MarkOf[key[r]] = m => Explained(m)'
  BY DieTypes DEF Explained
<1>2. ~At(r, "events", "dedup")' /\ lost \subseteq lost'
  BY DieTypes, PlacesDiffer DEF At
<1> QED
  BY <1>1, <1>2, DieTypes, MarkQuiet DEF db, IngestTypeOK

LEMMA MarkNext ==
  ASSUME IngestTypeOK, MarkInv, [IngestNext]_ingestVars
  PROVE  MarkInv'
<1>1. CASE IngestNext
  <2>1. ASSUME NEW m \in Marks, MarkExpires(m)
        PROVE  MarkInv'
    BY <2>1 DEF MarkExpires, MarkInv, Explained, HoldsMark, At, history
  <2>2. ASSUME NEW r \in Requests,
               \/ CallEvents(r) \/ CallWebhooks(r) \/ CallBroadcast(r)
               \/ Dedup(r) \/ CountEvent(r) \/ Die(r)
               \/ \E route \in Limited : CheckLimit(r, route) \/ FindKey(r, route)
               \/ \E route \in Routes : Create(r, route) \/ Add(r, route)
        PROVE  MarkInv'
    BY <2>2, CallMarks, CheckMarks, FindMarks, DedupMarks, AddMarks, DieMarks, CreateMarks
  <2> QED
    BY <1>1, <2>1, <2>2 DEF IngestNext
<1>2. CASE UNCHANGED ingestVars
  BY <1>2 DEF MarkInv, Explained, HoldsMark, At, ingestVars, db, history
<1> QED
  BY <1>1, <1>2

-----------------------------------------------------------------------------
\* A key has one job; requests pass the limits only by as many as run at once, and
\* by those that died uncounted; and who is told "deduplicated" finds the event of the mark, its maker,
\* or a maker that died: whatever the requests, keys, windows and limits.
THEOREM IngestIsSafe == IngestSpec => []IngestSafe
<1>1. IngestInit => IngestTypeOK /\ LimitInv /\ MarkInv
  <2> SUFFICES ASSUME IngestInit PROVE IngestTypeOK /\ LimitInv /\ MarkInv
    OBVIOUS
  <2>1. IngestTypeOK
    BY IngestAssumption DEF IngestInit, IngestTypeOK, Answers
  <2>2. Past("events") = {} /\ Past("webhooks") = {} /\ Uncounted = {}
    BY PlacesDiffer DEF IngestInit, Past, Uncounted, At
  <2>3. /\ IsFiniteSet(events) /\ Cardinality(events) = 0 /\ Cardinality(Uncounted) = 0
        /\ Cardinality(Past("events")) = 0 /\ Cardinality(Past("webhooks")) = 0
    BY <2>2, FS_EmptySet DEF IngestInit
  <2>4. creates["events"] = 0 /\ creates["webhooks"] = 0 /\ monthEvents = 0 /\ deaths = 0
    BY DEF IngestInit, Limited
  <2>5. LimitInv
    BY <2>1, <2>3, <2>4, SomeRequests, Numbers DEF LimitInv
  <2>6. MarkInv
    BY PlacesDiffer DEF IngestInit, MarkInv, At
  <2> QED
    BY <2>1, <2>5, <2>6
<1>2. IngestTypeOK /\ LimitInv /\ MarkInv /\ [IngestNext]_ingestVars
        => IngestTypeOK' /\ LimitInv' /\ MarkInv'
  BY StepTypes, LimitNext, MarkNext
<1>3. IngestTypeOK /\ LimitInv /\ MarkInv /\ OneJobPerKey => IngestSafe
  <2> SUFFICES ASSUME IngestTypeOK, LimitInv, MarkInv, OneJobPerKey PROVE IngestSafe
    OBVIOUS
  <2>1. OvershootBounded
    BY Numbers DEF OvershootBounded, LimitInv
  <2>2. \A r \in Requests : MarkOf[key[r]] \in Marks
    BY IngestAssumption DEF IngestTypeOK
  <2>3. DedupExplained
    BY <2>2 DEF DedupExplained, MarkInv, Explained
  <2> QED
    BY <2>1, <2>3 DEF IngestSafe
<1> QED
  BY <1>1, <1>2, <1>3, OneJob, PTL DEF IngestSpec
=============================================================================
