---------------------------- MODULE Records_proofs ----------------------------
(* The newsletter, the endpoints of a project, job postings, kept answers,   *)
(* dead letters, mails of a trial, payments, the breakers of one worker,     *)
(* tunnels, the buckets of a report and lists read by pages, for any number  *)
(* of each.                                                                  *)
EXTENDS Newsletter, Endpoints, Careers, ResponseCache, DeadLetters, TrialMails, Billing,
  LocalBreakers, Tunnels, Buckets, Listing, FiniteSetTheorems, SequenceTheorems, WellFoundedInduction, TLAPS

-----------------------------------------------------------------------------
(* Newsletter *)

NewsletterSpec == NewsletterInit /\ [][NewsletterNext]_newsVars

\* A request to unsubscribe has the link of the last mail, unless a mail was sent
\* since it was read: then that mail's token is marked.
LinkIsLast ==
  \A r \in Readers : Unsubscribing(r) =>
    readers[r].link = subscriber.token \/ subscriber.token \in lateLink
NewsletterInv == NewsletterSafe /\ LinkIsLast

LEMMA MadeActive ==
  ASSUME NEW s \in Subscribers, NEW t \in 0..MaxMails
  PROVE  /\ [s EXCEPT !.status = "active", !.token = t] \in Subscribers
         /\ [s EXCEPT !.status = "active", !.token = t].status = "active"
         /\ [s EXCEPT !.status = "active", !.token = t].token = t
BY NewsletterAssumption DEF Subscribers

\* A subscription is ended only by the link of its own welcome mail, or by one that
\* was under way when it was made: unsubscribe() writes by a copy it has read.
THEOREM NewsletterIsSafe == NewsletterSpec => []NewsletterSafe
<1> USE NewsletterAssumption DEF newsVars, Unsubscribing
<1>1. NewsletterInit => NewsletterInv
  BY DEF NewsletterInit, NewsletterInv, NewsletterSafe, NewsletterTypeOK, EndedByOwnLink,
         LinkIsLast, NoSubscriber, Away, Subscribers
<1>2. NewsletterInv /\ [NewsletterNext]_newsVars => NewsletterInv'
  <2> SUFFICES ASSUME NewsletterInv, [NewsletterNext]_newsVars
               PROVE  NewsletterInv'
    OBVIOUS
  <2> USE DEF NewsletterInv, NewsletterSafe
  <2>1. Away \in [does : {"nothing"}, copy : Subscribers, link : 0..MaxMails]
    BY DEF Away, NoSubscriber, Subscribers
  <2>2. ASSUME NEW r \in Readers, FindSubscriber(r)
        PROVE  NewsletterInv'
    <3>1. NewsletterTypeOK'
      BY <2>2 DEF NewsletterTypeOK, FindSubscriber, Reads
    <3>2. EndedByOwnLink' /\ LinkIsLast'
      BY <2>2 DEF NewsletterTypeOK, FindSubscriber, Reads, EndedByOwnLink, LinkIsLast
    <3> QED
      BY <3>1, <3>2
  <2>3. ASSUME NEW r \in Readers, NEW t \in 1..MaxMails, FindByToken(r, t)
        PROVE  NewsletterInv'
    <3>1. NewsletterTypeOK'
      BY <2>3 DEF NewsletterTypeOK, FindByToken, Reads
    <3>2. EndedByOwnLink' /\ LinkIsLast'
      BY <2>3 DEF NewsletterTypeOK, FindByToken, Reads, EndedByOwnLink, LinkIsLast
    <3> QED
      BY <3>1, <3>2
  <2>4. ASSUME NEW r \in Readers, SaveSubscriber(r)
        PROVE  NewsletterInv'
    <3>1. /\ drawn' \in 1..MaxMails /\ drawn' = drawn + 1
          /\ readers' = [readers EXCEPT ![r] = Away]
      BY <2>4 DEF NewsletterTypeOK, SaveSubscriber, Leaves
    <3>2. CASE UNCHANGED <<subscriber, lateLink>>
      BY <2>1, <3>1, <3>2 DEF NewsletterTypeOK, EndedByOwnLink, LinkIsLast
    <3>3. CASE /\ subscriber' = [subscriber EXCEPT !.status = "active", !.token = drawn + 1]
               /\ lateLink' = IF \E q \in Readers : Unsubscribing(q)
                              THEN lateLink \cup {drawn + 1} ELSE lateLink
      <4>1. subscriber' \in Subscribers /\ subscriber'.status = "active"
            /\ subscriber'.token = drawn'
        <5>1. subscriber \in Subscribers
          BY DEF NewsletterTypeOK
        <5>2. subscriber' = [subscriber EXCEPT !.status = "active", !.token = drawn']
          BY <3>1, <3>3
        <5>3. drawn' \in 0..MaxMails
          BY <3>1
        <5> QED
          BY <5>1, <5>2, <5>3, MadeActive
      <4>2. NewsletterTypeOK'
        <5>1. lateLink' \subseteq 1..MaxMails
          BY <2>4, <3>1, <3>3 DEF NewsletterTypeOK, SaveSubscriber
        <5>2. readers' \in [Readers -> [does : {"nothing", "subscribe", "unsubscribe"},
                                       copy : Subscribers, link : 0..MaxMails]]
          BY <2>1, <3>1 DEF NewsletterTypeOK
        <5> QED
          BY <3>1, <4>1, <5>1, <5>2 DEF NewsletterTypeOK
      <4>3. LinkIsLast'
        BY <2>1, <2>4, <3>1, <3>3, <4>1 DEF NewsletterTypeOK, LinkIsLast, SaveSubscriber
      <4> QED
        BY <4>1, <4>2, <4>3 DEF EndedByOwnLink
    <3> QED
      BY <2>4, <3>2, <3>3 DEF SaveSubscriber
  <2>5. ASSUME NEW r \in Readers, SaveUnsubscribed(r)
        PROVE  NewsletterInv'
    <3>1. /\ readers' = [readers EXCEPT ![r] = Away] /\ UNCHANGED <<drawn, lateLink>>
          /\ readers[r].link \in 0..MaxMails
      BY <2>5 DEF NewsletterTypeOK, SaveUnsubscribed, Leaves
    <3>2. CASE subscriber' = subscriber
      BY <2>1, <3>1, <3>2 DEF NewsletterTypeOK, EndedByOwnLink, LinkIsLast
    <3>3. CASE subscriber' = [subscriber EXCEPT !.status = "unsubscribed",
                                                !.ended = readers[r].link]
      <4>1. /\ subscriber' \in Subscribers /\ subscriber'.token = subscriber.token
            /\ subscriber'.ended = readers[r].link
        BY <3>1, <3>3 DEF NewsletterTypeOK, Subscribers
      <4>2. NewsletterTypeOK'
        BY <2>1, <3>1, <4>1 DEF NewsletterTypeOK
      <4>3. EndedByOwnLink' /\ LinkIsLast'
        BY <2>1, <2>5, <3>1, <4>1 DEF NewsletterTypeOK, EndedByOwnLink, LinkIsLast, SaveUnsubscribed
      <4> QED
        BY <4>2, <4>3
    <3> QED
      BY <2>5, <3>2, <3>3 DEF SaveUnsubscribed
  <2>6. CASE UNCHANGED newsVars
    BY <2>6 DEF NewsletterTypeOK, EndedByOwnLink, LinkIsLast
  <2> QED
    BY <2>2, <2>3, <2>4, <2>5, <2>6 DEF NewsletterNext
<1>3. NewsletterInv => NewsletterSafe
  BY DEF NewsletterInv
<1> QED
  BY <1>1, <1>2, <1>3, PTL DEF NewsletterSpec

-----------------------------------------------------------------------------
(* Endpoints *)

EndpointsSpec == EndpointsInit /\ [][EndpointsNext]_endpointVars

Creators == {r \in Editors : InStep(r, "create")}

\* A url that a request is about to use is free, or marked; so is one that two use.
UrlFree ==
  \A r \in Editors : Creating(r) =>
    /\ \A p \in Existing : endpoint[p].url = editor[r].url => editor[r].url \in reused
    /\ \A q \in Editors \ {r} :
         Creating(q) /\ editor[q].url = editor[r].url => editor[r].url \in reused
Few == IsFiniteSet(Existing) /\ IsFiniteSet(Creators)
\* Who has an endpoint has been told a secret of it, so no id is used again; a
\* rotation about to answer has the secret in use, unless they overlapped.
SecretKnown ==
  /\ \A p \in Existing : told[p] # 0
  /\ \A r \in Editors :
       /\ editor[r].step \in {"rotate", "answer"} => told[editor[r].id] # 0
       /\ InStep(r, "answer") =>
            /\ editor[r].secret # 0
            /\ editor[r].id \in Existing \ muddled =>
                 editor[r].secret = endpoint[editor[r].id].secret
EndpointsInv == EndpointsSafe /\ UrlFree /\ Few /\ SecretKnown

LEMMA EditorIs ==
  ASSUME EndpointsTypeOK, NEW r \in Editors
  PROVE  /\ editor[r].step \in {"none", "count", "create", "rotate", "answer"}
         /\ Creating(r) => editor[r] \in [step : {"count", "create"}, url : Urls]
         /\ editor[r].step \in {"rotate", "answer"} =>
              editor[r] \in [step : {"rotate", "answer"}, id : EndpointIds, secret : 0..MaxKeys]
BY DEF EndpointsTypeOK, Creating, Unoccupied

LEMMA EndpointsStart == EndpointsInit => EndpointsInv
<1> SUFFICES ASSUME EndpointsInit PROVE EndpointsInv
  OBVIOUS
<1>1. Existing = {} /\ Creators = {}
  BY DEF EndpointsInit, Existing, NoEndpoint, Creators, InStep, Unoccupied
<1>2. EndpointsTypeOK
  <2>1. overfull \in BOOLEAN
    BY DEF EndpointsInit
  <2>2. 0 \in 0..MaxKeys /\ 0 \in 0..MaxEdits
    BY EndpointsAssumption
  <2>3. NoEndpoint \in [url : Urls \cup {"none"}, secret : 0..MaxKeys]
    BY <2>2 DEF NoEndpoint
  <2> QED
    BY <2>1, <2>2, <2>3 DEF EndpointsInit, EndpointsTypeOK
<1>3. UrlOnce /\ UrlFree /\ SecretTold /\ SecretKnown
  BY <1>1 DEF EndpointsInit, UrlOnce, UrlFree, SecretTold, SecretKnown, Creating, InStep,
              Unoccupied
<1>4. Few /\ WithinPlan
  BY <1>1, FS_EmptySet, EndpointsAssumption DEF Few, WithinPlan, Creators
<1> QED
  BY <1>2, <1>3, <1>4 DEF EndpointsInv, EndpointsSafe

\* The endpoints stay what they are, and no more requests are about to create one.
LEMMA PlanKept ==
  ASSUME EndpointsInv, Existing' \subseteq Existing, Creators' \subseteq Creators,
         overfull' = overfull
  PROVE  Few' /\ WithinPlan'
<1>1. IsFiniteSet(Existing) /\ IsFiniteSet(Creators)
  BY DEF EndpointsInv, Few
<1>2. /\ IsFiniteSet(Existing') /\ IsFiniteSet(Creators')
      /\ Cardinality(Existing') <= Cardinality(Existing)
      /\ Cardinality(Creators') <= Cardinality(Creators)
      /\ Cardinality(Existing') \in Nat /\ Cardinality(Creators') \in Nat
      /\ Cardinality(Existing) \in Nat /\ Cardinality(Creators) \in Nat
  BY <1>1, FS_Subset, FS_CardinalityType
<1>3. WithinPlan <=> overfull \/ Cardinality(Existing) + Cardinality(Creators) <= EndpointsLimit
  BY DEF WithinPlan, Creators
<1>4. WithinPlan' <=>
        overfull' \/ Cardinality(Existing') + Cardinality(Creators') <= EndpointsLimit
  BY DEF WithinPlan, Creators
<1> QED
  BY <1>2, <1>3, <1>4, EndpointsAssumption DEF EndpointsInv, EndpointsSafe, Few

LEMMA FindUrlPreserves ==
  ASSUME EndpointsInv, NEW r \in Editors, NEW u \in Urls, FindUrl(r, u)
  PROVE  EndpointsInv'
<1> USE DEF EndpointsInv, EndpointsSafe
<1>1. /\ editor' = [editor EXCEPT ![r] = [step |-> "count", url |-> u]]
      /\ UNCHANGED <<endpoint, keys, edits, told, muddled, overfull>>
      /\ reused \subseteq reused' /\ reused' \subseteq reused \cup {u}
  BY DEF FindUrl
<1>2. EndpointsTypeOK'
  BY <1>1 DEF EndpointsTypeOK
<1>3. Existing' = Existing
  BY <1>1 DEF Existing
<1>4. /\ editor'[r].step = "count" /\ editor'[r].url = u
      /\ \A q \in Editors \ {r} : editor'[q] = editor[q]
  BY <1>1 DEF EndpointsTypeOK
<1>5. Creators' \subseteq Creators
  BY <1>4 DEF Creators, InStep
<1>6. UrlOnce'
  BY <1>1, <1>3 DEF UrlOnce
<1>7. UrlFree'
  <2>1. \A p \in Existing : endpoint[p].url # u
    BY DEF FindUrl
  <2>2. \A q \in Editors \ {r} : Creating(q) /\ editor[q].url = u => u \in reused'
    BY DEF FindUrl
  <2>3. \A q \in Editors \ {r} : Creating(q)' <=> Creating(q)
    BY <1>4 DEF Creating
  <2> QED
    BY <1>1, <1>3, <1>4, <2>1, <2>2, <2>3 DEF UrlFree
<1>8. Few' /\ WithinPlan'
  BY <1>1, <1>3, <1>5, PlanKept
<1>9. SecretKnown'
  BY <1>1, <1>3, <1>4 DEF SecretKnown, InStep
<1>10. SecretTold'
  <2>1. ~InStep(r, "answer")
    BY DEF FindUrl, InStep
  <2> QED
    BY <1>1, <1>3, <1>4, <2>1 DEF SecretTold, InStep
<1> QED
  BY <1>2, <1>6, <1>7, <1>8, <1>9, <1>10

\* A request is over that was not about to answer.
LEMMA LeavePreserves ==
  ASSUME EndpointsInv, NEW r \in Editors, Leave(r), ~InStep(r, "answer"),
         UNCHANGED <<endpoint, keys, edits, told, muddled, reused, overfull>>
  PROVE  EndpointsInv'
<1> USE DEF EndpointsInv, EndpointsSafe
<1>1. editor'[r] = Unoccupied /\ \A q \in Editors \ {r} : editor'[q] = editor[q]
  BY DEF EndpointsTypeOK, Leave
<1>2. EndpointsTypeOK'
  BY DEF EndpointsTypeOK, Leave
<1>3. Existing' = Existing /\ Creators' \subseteq Creators
  BY <1>1 DEF Existing, Creators, InStep, Unoccupied
<1>4. UrlOnce'
  BY <1>3 DEF UrlOnce
<1>5. UrlFree'
  BY <1>1, <1>3 DEF UrlFree, Creating, Unoccupied
<1>6. Few' /\ WithinPlan'
  BY <1>3, PlanKept
<1>7. SecretKnown'
  BY <1>1, <1>3 DEF SecretKnown, InStep, Unoccupied
<1>8. SecretTold'
  BY <1>1, <1>3 DEF SecretTold, InStep, Unoccupied
<1> QED
  BY <1>2, <1>4, <1>5, <1>6, <1>7, <1>8

LEMMA CountPreserves ==
  ASSUME EndpointsInv, NEW r \in Editors, CountEndpoints(r)
  PROVE  EndpointsInv'
<1> USE DEF EndpointsInv, EndpointsSafe
<1>1. InStep(r, "count") /\ UNCHANGED <<endpoint, keys, edits, told, muddled, reused>>
  BY DEF CountEndpoints
<1>2. CASE Cardinality(Existing) >= EndpointsLimit
  BY <1>1, <1>2, LeavePreserves DEF CountEndpoints, InStep
<1>3. CASE ~(Cardinality(Existing) >= EndpointsLimit)
  <2>1. /\ editor' = [editor EXCEPT ![r].step = "create"]
        /\ overfull' = (overfull \/ \E q \in Editors : InStep(q, "create"))
    BY <1>3 DEF CountEndpoints
  <2>2. PICK c \in [step : {"count", "create"}, url : Urls] : c = editor[r]
    BY <1>1, EditorIs DEF Creating, InStep
  <2>3. /\ editor'[r] = [c EXCEPT !.step = "create"]
        /\ \A q \in Editors \ {r} : editor'[q] = editor[q]
    BY <2>1, <2>2 DEF EndpointsTypeOK
  <2>4. [c EXCEPT !.step = "create"] \in [step : {"count", "create"}, url : Urls]
    OBVIOUS
  <2>5. editor'[r].step = "create" /\ editor'[r].url = editor[r].url
    BY <2>2, <2>3
  <2>6. EndpointsTypeOK'
    <3>1. editor' = [editor EXCEPT ![r] = [c EXCEPT !.step = "create"]]
      BY <2>1, <2>2
    <3>2. overfull' \in BOOLEAN
      BY <2>1 DEF EndpointsTypeOK
    <3> QED
      BY <1>1, <2>4, <3>1, <3>2 DEF EndpointsTypeOK
  <2>7. Existing' = Existing
    BY <1>1 DEF Existing
  <2>8. UrlOnce'
    BY <1>1, <2>7 DEF UrlOnce
  <2>9. UrlFree'
    <3>1. Creating(r) /\ \A q \in Editors : (Creating(q)' <=> Creating(q))
                                            /\ (Creating(q) => editor'[q].url = editor[q].url)
      BY <1>1, <2>3, <2>5 DEF Creating, InStep
    <3> QED
      BY <1>1, <2>7, <3>1 DEF UrlFree
  <2>10. Creators' = Creators \cup {r} /\ (overfull' <=> overfull \/ Creators # {})
    BY <2>1, <2>3, <2>5 DEF Creators, InStep, EndpointsTypeOK
  <2>11. Few' /\ WithinPlan'
    <3>1. IsFiniteSet(Existing) /\ Cardinality(Existing) \in Nat
      BY FS_CardinalityType DEF Few
    <3>2. IsFiniteSet(Creators')
      BY <2>10, FS_AddElement DEF Few
    <3>3. Creators = {} => Cardinality(Creators') = 1
      BY <2>10, FS_Singleton
    <3>4. WithinPlan' <=>
            overfull' \/ Cardinality(Existing') + Cardinality(Creators') <= EndpointsLimit
      BY DEF WithinPlan, Creators
    <3>5. Cardinality(Existing) + 1 <= EndpointsLimit
      BY <1>3, <3>1, EndpointsAssumption
    <3> QED
      BY <2>7, <2>10, <3>1, <3>2, <3>3, <3>4, <3>5 DEF Few
  <2>12. SecretKnown'
    BY <1>1, <2>3, <2>5, <2>7 DEF SecretKnown, InStep
  <2>13. SecretTold'
    BY <1>1, <2>3, <2>5, <2>7 DEF SecretTold, InStep
  <2> QED
    BY <2>6, <2>8, <2>9, <2>11, <2>12, <2>13
<1> QED
  BY <1>2, <1>3

LEMMA CreatePreserves ==
  ASSUME EndpointsInv, NEW r \in Editors, NEW p \in EndpointIds, CreateEndpoint(r, p)
  PROVE  EndpointsInv'
<1> USE DEF EndpointsInv, EndpointsSafe
<1>1. /\ InStep(r, "create") /\ p \notin Existing /\ told[p] = 0
      /\ UNCHANGED <<edits, muddled, reused, overfull>>
  BY DEF CreateEndpoint
<1>2. keys' \in 1..MaxKeys
  BY EndpointsAssumption DEF CreateEndpoint, DrawKey, EndpointsTypeOK
<1>3. PICK u \in Urls : u = editor[r].url
  BY <1>1, EditorIs DEF Creating, InStep
<1>4. /\ endpoint' = [endpoint EXCEPT ![p] = [url |-> u, secret |-> keys']]
      /\ told' = [told EXCEPT ![p] = keys'] /\ editor' = [editor EXCEPT ![r] = Unoccupied]
  BY <1>3 DEF CreateEndpoint, Leave
<1>5. EndpointsTypeOK'
  <2>1. [url |-> u, secret |-> keys'] \in [url : Urls \cup {"none"}, secret : 0..MaxKeys]
    BY <1>2
  <2>2. endpoint' \in [EndpointIds -> [url : Urls \cup {"none"}, secret : 0..MaxKeys]]
    BY <1>4, <2>1 DEF EndpointsTypeOK
  <2> QED
    BY <1>1, <1>2, <1>4, <2>2 DEF EndpointsTypeOK
<1>6. /\ endpoint'[p].url = u /\ endpoint'[p].secret = keys' /\ told'[p] = keys'
      /\ \A x \in EndpointIds \ {p} : endpoint'[x] = endpoint[x] /\ told'[x] = told[x]
  BY <1>4 DEF EndpointsTypeOK
<1>7. editor'[r] = Unoccupied /\ \A q \in Editors \ {r} : editor'[q] = editor[q]
  BY <1>4 DEF EndpointsTypeOK
<1>8. Existing' \subseteq Existing \cup {p} /\ Existing \subseteq Existing'
  BY <1>1, <1>6 DEF Existing
<1>9. Creators' = Creators \ {r} /\ r \in Creators
  BY <1>1, <1>7 DEF Creators, InStep, Unoccupied
<1>10. \A q \in Editors \ {r} : Creating(q)' <=> Creating(q)
  BY <1>7 DEF Creating
<1>11. UrlOnce'
  <2>1. \A x \in Existing : endpoint[x].url = u => u \in reused
    BY <1>1, <1>3 DEF UrlFree, Creating, InStep
  <2> QED
    BY <1>1, <1>6, <1>8, <2>1 DEF UrlOnce, Existing
<1>12. UrlFree'
  <2> SUFFICES ASSUME NEW q \in Editors \ {r}, Creating(q)
               PROVE  /\ \A x \in Existing' : endpoint'[x].url = editor[q].url => editor[q].url \in reused
                      /\ \A v \in Editors \ {q} :
                           Creating(v)' /\ editor'[v].url = editor[q].url => editor[q].url \in reused
    BY <1>1, <1>7, <1>10 DEF UrlFree, Creating, Unoccupied
  <2>1. u = editor[q].url => editor[q].url \in reused
    BY <1>1, <1>3 DEF UrlFree, Creating, InStep
  <2>2. \A x \in Existing' : endpoint'[x].url = editor[q].url => editor[q].url \in reused
    BY <1>6, <1>8, <2>1 DEF UrlFree, Existing
  <2>3. \A v \in Editors \ {q} :
          Creating(v)' /\ editor'[v].url = editor[q].url => editor[q].url \in reused
    BY <1>7, <1>10 DEF UrlFree, Creating, Unoccupied
  <2> QED
    BY <2>2, <2>3
<1>13. Few' /\ WithinPlan'
  <2>1. IsFiniteSet(Existing) /\ IsFiniteSet(Creators)
    BY DEF Few
  <2>2. /\ IsFiniteSet(Existing \cup {p}) /\ p \notin Existing
        /\ Cardinality(Existing \cup {p}) = Cardinality(Existing) + 1
    BY <1>1, <2>1, FS_AddElement
  <2>3. IsFiniteSet(Existing') /\ Cardinality(Existing') <= Cardinality(Existing) + 1
    BY <1>8, <2>2, FS_Subset
  <2>4. IsFiniteSet(Creators') /\ Cardinality(Creators') = Cardinality(Creators) - 1
    BY <1>9, <2>1, FS_RemoveElement
  <2>5. /\ Cardinality(Existing') \in Nat /\ Cardinality(Creators') \in Nat
        /\ Cardinality(Existing) \in Nat /\ Cardinality(Creators) \in Nat
    BY <2>1, <2>3, <2>4, FS_CardinalityType
  <2>6. WithinPlan' <=>
          overfull' \/ Cardinality(Existing') + Cardinality(Creators') <= EndpointsLimit
    BY DEF WithinPlan, Creators
  <2>7. overfull \/ Cardinality(Existing) + Cardinality(Creators) <= EndpointsLimit
    BY DEF WithinPlan, Creators
  <2>8. overfull \/ Cardinality(Existing') + Cardinality(Creators') <= EndpointsLimit
    BY <2>3, <2>4, <2>5, <2>7, EndpointsAssumption
  <2> QED
    BY <1>1, <2>3, <2>4, <2>6, <2>8 DEF Few
<1>14. SecretKnown'
  <2>1. \A x \in Existing' : told'[x] # 0
    BY <1>2, <1>6, <1>8 DEF SecretKnown, Existing
  <2>2. ASSUME NEW q \in Editors, editor'[q].step \in {"rotate", "answer"}
        PROVE  /\ q # r /\ editor[q] = editor'[q] /\ editor[q].id \in EndpointIds \ {p}
               /\ told'[editor[q].id] = told[editor[q].id]
               /\ endpoint'[editor[q].id] = endpoint[editor[q].id]
               /\ editor[q].id \in Existing' => editor[q].id \in Existing
    <3>1. q # r /\ editor[q] = editor'[q]
      BY <1>7, <2>2 DEF Unoccupied
    <3>2. editor[q].id \in EndpointIds /\ told[editor[q].id] # 0
      BY <2>2, <3>1, EditorIs DEF SecretKnown
    <3> QED
      BY <1>1, <1>6, <1>8, <3>1, <3>2
  <2> QED
    BY <1>1, <2>1, <2>2 DEF SecretKnown, InStep
<1>15. SecretTold'
  <2> SUFFICES ASSUME NEW x \in Existing' \ muddled
               PROVE  \/ endpoint'[x].secret = told'[x]
                      \/ \E q \in Editors : InStep(q, "answer")' /\ editor'[q].id = x
                                            /\ editor'[q].secret = endpoint'[x].secret
    BY <1>1 DEF SecretTold
  <2>1. CASE x = p
    BY <1>6, <2>1
  <2>2. CASE x # p
    BY <1>1, <1>6, <1>7, <1>8, <2>2 DEF SecretTold, InStep, Existing
  <2> QED
    BY <2>1, <2>2
<1> QED
  BY <1>5, <1>11, <1>12, <1>13, <1>14, <1>15

LEMMA UpdatePreserves ==
  ASSUME EndpointsInv, NEW p \in EndpointIds, NEW u \in Urls, UpdateUrl(p, u)
  PROVE  EndpointsInv'
<1> USE DEF EndpointsInv, EndpointsSafe
<1>1. /\ p \in Existing /\ endpoint' = [endpoint EXCEPT ![p].url = u] /\ reused' = reused \cup {u}
      /\ UNCHANGED <<editor, keys, told, muddled, overfull>>
  BY DEF UpdateUrl
<1>2. PICK d \in [url : Urls \cup {"none"}, secret : 0..MaxKeys] : d = endpoint[p]
  BY DEF EndpointsTypeOK
<1>3. /\ [d EXCEPT !.url = u] \in [url : Urls \cup {"none"}, secret : 0..MaxKeys]
      /\ [d EXCEPT !.url = u].url = u /\ [d EXCEPT !.url = u].secret = d.secret
  OBVIOUS
<1>4. endpoint' = [endpoint EXCEPT ![p] = [d EXCEPT !.url = u]]
  BY <1>1, <1>2
<1>5. /\ endpoint'[p].url = u /\ endpoint'[p].secret = endpoint[p].secret
      /\ \A x \in EndpointIds \ {p} : endpoint'[x] = endpoint[x]
  BY <1>2, <1>3, <1>4 DEF EndpointsTypeOK
<1>6. EndpointsTypeOK'
  <2>1. edits' \in 0..MaxEdits
    BY EndpointsAssumption DEF UpdateUrl, EndpointsTypeOK
  <2> QED
    BY <1>1, <1>3, <1>4, <2>1 DEF EndpointsTypeOK
<1>7. Existing' \subseteq Existing /\ Creators' = Creators
  BY <1>1, <1>5 DEF Existing, Creators, InStep
<1>8. \A x \in EndpointIds : endpoint'[x].secret = endpoint[x].secret
  BY <1>5
<1>9. UrlOnce'
  BY <1>1, <1>5, <1>7 DEF UrlOnce, Existing
<1>10. UrlFree'
  <2>1. \A q \in Editors : Creating(q)' <=> Creating(q)
    BY <1>1 DEF Creating
  <2> QED
    BY <1>1, <1>5, <1>7, <2>1 DEF UrlFree, Existing
<1>11. Few' /\ WithinPlan'
  BY <1>1, <1>7, PlanKept
<1>12. \A x \in Existing' : x \in Existing /\ x \in EndpointIds
  BY <1>7 DEF Existing
<1>13. SecretKnown'
  <2>1. \A q \in Editors : InStep(q, "answer") => editor[q].id \in EndpointIds
    BY EditorIs DEF InStep
  <2> QED
    BY <1>1, <1>8, <1>12, <2>1 DEF SecretKnown, InStep
<1>14. SecretTold'
  BY <1>1, <1>8, <1>12 DEF SecretTold, InStep
<1> QED
  BY <1>6, <1>9, <1>10, <1>11, <1>13, <1>14

LEMMA DeletePreserves ==
  ASSUME EndpointsInv, NEW p \in EndpointIds, DeleteEndpoint(p)
  PROVE  EndpointsInv'
<1> USE DEF EndpointsInv, EndpointsSafe
<1>1. /\ endpoint' = [endpoint EXCEPT ![p] = NoEndpoint]
      /\ UNCHANGED <<editor, keys, told, muddled, reused, overfull>>
  BY DEF DeleteEndpoint
<1>2. NoEndpoint \in [url : Urls \cup {"none"}, secret : 0..MaxKeys] /\ NoEndpoint.url = "none"
  BY EndpointsAssumption DEF NoEndpoint
<1>3. EndpointsTypeOK'
  <2>1. edits' \in 0..MaxEdits
    BY EndpointsAssumption DEF DeleteEndpoint, EndpointsTypeOK
  <2> QED
    BY <1>1, <1>2, <2>1 DEF EndpointsTypeOK
<1>4. endpoint'[p].url = "none" /\ \A x \in EndpointIds \ {p} : endpoint'[x] = endpoint[x]
  BY <1>1, <1>2 DEF EndpointsTypeOK
<1>5. Existing' \subseteq Existing /\ \A x \in Existing' : endpoint'[x] = endpoint[x]
  BY <1>4 DEF Existing
<1>6. Creators' = Creators
  BY <1>1 DEF Creators, InStep
<1>7. UrlOnce'
  BY <1>1, <1>5 DEF UrlOnce
<1>8. UrlFree'
  BY <1>1, <1>5 DEF UrlFree, Creating
<1>9. Few' /\ WithinPlan'
  BY <1>1, <1>5, <1>6, PlanKept
<1>10. SecretKnown'
  BY <1>1, <1>5 DEF SecretKnown, InStep
<1>11. SecretTold'
  BY <1>1, <1>5 DEF SecretTold, InStep
<1> QED
  BY <1>3, <1>7, <1>8, <1>9, <1>10, <1>11

LEMMA FindToRotatePreserves ==
  ASSUME EndpointsInv, NEW r \in Editors, NEW p \in EndpointIds, FindToRotate(r, p)
  PROVE  EndpointsInv'
<1> USE DEF EndpointsInv, EndpointsSafe
<1>1. /\ InStep(r, "none") /\ p \in Existing
      /\ editor' = [editor EXCEPT ![r] = [step |-> "rotate", id |-> p, secret |-> 0]]
      /\ UNCHANGED <<endpoint, keys, edits, told, muddled, reused, overfull>>
  BY DEF FindToRotate
<1>2. 0 \in 0..MaxKeys
  BY EndpointsAssumption
<1>3. EndpointsTypeOK'
  BY <1>1, <1>2 DEF EndpointsTypeOK
<1>4. /\ editor'[r].step = "rotate" /\ editor'[r].id = p
      /\ \A q \in Editors \ {r} : editor'[q] = editor[q]
  BY <1>1 DEF EndpointsTypeOK
<1>5. Existing' = Existing /\ Creators' \subseteq Creators
  BY <1>1, <1>4 DEF Existing, Creators, InStep
<1>6. UrlOnce'
  BY <1>1, <1>5 DEF UrlOnce
<1>7. UrlFree'
  BY <1>1, <1>4, <1>5 DEF UrlFree, Creating
<1>8. Few' /\ WithinPlan'
  BY <1>1, <1>5, PlanKept
<1>9. SecretKnown'
  BY <1>1, <1>4, <1>5 DEF SecretKnown, InStep
<1>10. SecretTold'
  BY <1>1, <1>4, <1>5 DEF SecretTold, InStep
<1> QED
  BY <1>3, <1>6, <1>7, <1>8, <1>9, <1>10

LEMMA RotatePreserves ==
  ASSUME EndpointsInv, NEW r \in Editors, RotateSecret(r)
  PROVE  EndpointsInv'
<1> USE DEF EndpointsInv, EndpointsSafe
<1>1. InStep(r, "rotate") /\ UNCHANGED <<edits, told, reused, overfull>>
  BY DEF RotateSecret
<1>2. keys' \in 1..MaxKeys
  BY EndpointsAssumption DEF RotateSecret, DrawKey, EndpointsTypeOK
<1>3. PICK c \in [step : {"rotate", "answer"}, id : EndpointIds, secret : 0..MaxKeys] : c = editor[r]
  BY <1>1, EditorIs DEF InStep
<1>4. PICK p \in EndpointIds : p = editor[r].id /\ told[p] # 0
  BY <1>1, <1>3 DEF SecretKnown, InStep
<1>5. PICK n \in 1..MaxKeys : n = keys'
  BY <1>2
<1>6. PICK f \in [step : {"rotate", "answer"}, id : EndpointIds, secret : 0..MaxKeys] :
        f = [c EXCEPT !.step = "answer", !.secret = n] /\ f.step = "answer" /\ f.id = p /\ f.secret = n
  <2>1. c.id = p
    BY <1>3, <1>4
  <2> DEFINE g == [c EXCEPT !.step = "answer", !.secret = n]
  <2>2. g \in [step : {"rotate", "answer"}, id : EndpointIds, secret : 0..MaxKeys]
    <3>1. n \in 0..MaxKeys
      BY EndpointsAssumption
    <3> QED
      BY <3>1
  <2>3. g.step = "answer" /\ g.id = p /\ g.secret = n
    BY <2>1
  <2> QED
    BY <2>2, <2>3
<1>7. editor' = [editor EXCEPT ![r] = f]
  BY <1>3, <1>5, <1>6 DEF RotateSecret
<1>8. editor'[r] = f /\ \A q \in Editors \ {r} : editor'[q] = editor[q]
  BY <1>7 DEF EndpointsTypeOK
<1>9. endpoint' = IF p \in Existing THEN [endpoint EXCEPT ![p].secret = n] ELSE endpoint
  BY <1>4, <1>5 DEF RotateSecret
<1>10. muddled' = IF \E q \in Editors : InStep(q, "answer") /\ editor[q].id = p
                  THEN muddled \cup {p} ELSE muddled
  BY <1>4 DEF RotateSecret
<1>11. PICK d \in [url : Urls \cup {"none"}, secret : 0..MaxKeys] : d = endpoint[p]
  BY DEF EndpointsTypeOK
<1>12. /\ [d EXCEPT !.secret = n] \in [url : Urls \cup {"none"}, secret : 0..MaxKeys]
       /\ [d EXCEPT !.secret = n].url = d.url /\ [d EXCEPT !.secret = n].secret = n
  OBVIOUS
<1>13. /\ endpoint' \in [EndpointIds -> [url : Urls \cup {"none"}, secret : 0..MaxKeys]]
       /\ \A x \in EndpointIds : endpoint'[x].url = endpoint[x].url
       /\ \A x \in EndpointIds \ {p} : endpoint'[x] = endpoint[x]
       /\ p \in Existing => endpoint'[p].secret = n
  <2>1. CASE p \in Existing
    <3>1. endpoint' = [endpoint EXCEPT ![p] = [d EXCEPT !.secret = n]]
      BY <1>9, <1>11, <2>1
    <3> QED
      BY <1>11, <1>12, <2>1, <3>1 DEF EndpointsTypeOK
  <2>2. CASE p \notin Existing
    BY <1>9, <2>2 DEF EndpointsTypeOK
  <2> QED
    BY <2>1, <2>2
<1>14. EndpointsTypeOK'
  <2>1. keys' \in 0..MaxKeys /\ muddled' \subseteq EndpointIds
    BY <1>2, <1>10 DEF EndpointsTypeOK
  <2> QED
    BY <1>1, <1>7, <1>13, <2>1 DEF EndpointsTypeOK
<1>15. Existing' = Existing /\ Existing \subseteq EndpointIds
  BY <1>13 DEF Existing
<1>16. Creators' = Creators
  BY <1>1, <1>6, <1>8 DEF Creators, InStep
<1>17. UrlOnce'
  BY <1>1, <1>13, <1>15 DEF UrlOnce
<1>18. UrlFree'
  <2>1. ~Creating(r)' /\ \A q \in Editors \ {r} : Creating(q)' <=> Creating(q)
    BY <1>6, <1>8 DEF Creating
  <2> QED
    BY <1>1, <1>8, <1>13, <1>15, <2>1 DEF UrlFree
<1>19. Few' /\ WithinPlan'
  BY <1>1, <1>15, <1>16, PlanKept
<1>20. SecretKnown'
  <2> SUFFICES ASSUME NEW q \in Editors, editor'[q].step \in {"rotate", "answer"}
        PROVE  /\ told[editor'[q].id] # 0
               /\ InStep(q, "answer")' =>
                    /\ editor'[q].secret # 0
                    /\ editor'[q].id \in Existing \ muddled' =>
                         editor'[q].secret = endpoint'[editor'[q].id].secret
    BY <1>1, <1>15 DEF SecretKnown, InStep
  <2>1. CASE q = r
    <3>1. editor'[q].id = p /\ editor'[q].secret = n
      BY <1>6, <1>8, <2>1
    <3>2. n # 0
      BY EndpointsAssumption
    <3> QED
      BY <1>4, <1>13, <3>1, <3>2
  <2>2. CASE q # r
    <3>1. /\ editor'[q] = editor[q] /\ editor[q].id \in EndpointIds /\ told[editor[q].id] # 0
          /\ InStep(q, "answer")' <=> InStep(q, "answer")
      BY <1>8, <2>2, EditorIs DEF SecretKnown, InStep
    <3>2. CASE editor[q].id = p /\ InStep(q, "answer")
      BY <1>10, <3>1, <3>2 DEF SecretKnown
    <3>3. CASE editor[q].id # p \/ ~InStep(q, "answer")
      BY <1>10, <1>13, <3>1, <3>3 DEF SecretKnown
    <3> QED
      BY <3>2, <3>3
  <2> QED
    BY <2>1, <2>2
<1>21. SecretTold'
  <2> SUFFICES ASSUME NEW x \in Existing \ muddled'
               PROVE  \/ endpoint'[x].secret = told[x]
                      \/ \E q \in Editors : InStep(q, "answer")' /\ editor'[q].id = x
                                            /\ editor'[q].secret = endpoint'[x].secret
    BY <1>1, <1>15 DEF SecretTold
  <2>1. CASE x = p
    <3>1. InStep(r, "answer")' /\ editor'[r].id = p /\ editor'[r].secret = n
      BY <1>6, <1>8 DEF InStep
    <3>2. endpoint'[x].secret = n
      BY <1>13, <2>1
    <3> QED
      BY <2>1, <3>1, <3>2
  <2>2. CASE x # p
    <3>1. \/ endpoint[x].secret = told[x]
          \/ \E q \in Editors : InStep(q, "answer") /\ editor[q].id = x
                                /\ editor[q].secret = endpoint[x].secret
      BY <1>10 DEF SecretTold
    <3> QED
      BY <1>1, <1>8, <1>13, <1>15, <2>2, <3>1 DEF InStep
  <2> QED
    BY <2>1, <2>2
<1> QED
  BY <1>14, <1>17, <1>18, <1>19, <1>20, <1>21

\* The answer is given, or lost.
LEMMA AnswerPreserves ==
  ASSUME EndpointsInv, NEW r \in Editors, AnswerSecret(r) \/ LoseAnswer(r)
  PROVE  EndpointsInv'
<1> USE DEF EndpointsInv, EndpointsSafe
<1>1. /\ InStep(r, "answer") /\ UNCHANGED <<endpoint, keys, edits, reused, overfull>>
      /\ editor' = [editor EXCEPT ![r] = Unoccupied]
  BY DEF AnswerSecret, LoseAnswer, Leave
<1>2. PICK p \in EndpointIds, n \in 1..MaxKeys : p = editor[r].id /\ n = editor[r].secret
  <2>1. editor[r].id \in EndpointIds /\ editor[r].secret \in 0..MaxKeys
    BY <1>1, EditorIs DEF InStep
  <2>2. editor[r].secret # 0
    BY <1>1 DEF SecretKnown
  <2>3. editor[r].secret \in 1..MaxKeys
    BY <2>1, <2>2, EndpointsAssumption
  <2> QED
    BY <2>1, <2>3
<1>3. editor'[r] = Unoccupied /\ \A q \in Editors \ {r} : editor'[q] = editor[q]
  BY <1>1 DEF EndpointsTypeOK
<1>4. \/ told' = [told EXCEPT ![p] = n] /\ muddled' = muddled
      \/ told' = told /\ muddled' = muddled \cup {p}
  BY <1>2 DEF AnswerSecret, LoseAnswer
<1>5. /\ told' \in [EndpointIds -> 0..MaxKeys] /\ muddled' \subseteq EndpointIds
      /\ muddled \subseteq muddled'
      /\ \A x \in EndpointIds \ {p} : told'[x] = told[x]
      /\ \A x \in EndpointIds : told[x] # 0 => told'[x] # 0
      /\ p \notin muddled' => told'[p] = n
  BY <1>4, EndpointsAssumption DEF EndpointsTypeOK
<1>6. EndpointsTypeOK'
  BY <1>1, <1>5 DEF EndpointsTypeOK
<1>7. Existing' = Existing /\ Creators' \subseteq Creators /\ Existing \subseteq EndpointIds
  BY <1>1, <1>3 DEF Existing, Creators, InStep, Unoccupied
<1>8. UrlOnce'
  BY <1>1, <1>7 DEF UrlOnce
<1>9. UrlFree'
  BY <1>1, <1>3, <1>7 DEF UrlFree, Creating, Unoccupied
<1>10. Few' /\ WithinPlan'
  BY <1>1, <1>7, PlanKept
<1>11. SecretKnown'
  <2>1. \A q \in Editors : editor'[q].step \in {"rotate", "answer"} =>
          q # r /\ editor'[q] = editor[q] /\ editor[q].id \in EndpointIds
    BY <1>3, EditorIs DEF Unoccupied
  <2> QED
    BY <1>1, <1>5, <1>7, <2>1 DEF SecretKnown, InStep
<1>12. SecretTold'
  <2> SUFFICES ASSUME NEW x \in Existing \ muddled'
               PROVE  \/ endpoint[x].secret = told'[x]
                      \/ \E q \in Editors : InStep(q, "answer")' /\ editor'[q].id = x
                                            /\ editor'[q].secret = endpoint[x].secret
    BY <1>1, <1>7 DEF SecretTold
  <2>1. CASE x = p
    BY <1>1, <1>2, <1>5, <2>1 DEF SecretKnown
  <2>2. CASE x # p
    BY <1>2, <1>3, <1>5, <1>7, <2>2 DEF SecretTold, InStep
  <2> QED
    BY <2>1, <2>2
<1> QED
  BY <1>6, <1>8, <1>9, <1>10, <1>11, <1>12

\* Urls are not shared, the plan's limit holds, and owners know the secret their
\* events are signed with, but for the overlaps that are marked: each call reads
\* the endpoints first and writes one later.
THEOREM EndpointsAreSafe == EndpointsSpec => []EndpointsSafe
<1>1. EndpointsInit => EndpointsInv
  BY EndpointsStart
<1>2. EndpointsInv /\ [EndpointsNext]_endpointVars => EndpointsInv'
  <2> SUFFICES ASSUME EndpointsInv, [EndpointsNext]_endpointVars
               PROVE  EndpointsInv'
    OBVIOUS
  <2>1. CASE UNCHANGED endpointVars
    BY <2>1 DEF EndpointsInv, EndpointsSafe, EndpointsTypeOK, UrlOnce, WithinPlan, SecretTold,
                UrlFree, Few, SecretKnown, endpointVars, Existing, Creators, Creating, InStep
  <2>2. CASE EndpointsNext
    BY <2>2, FindUrlPreserves, CountPreserves, RotatePreserves, AnswerPreserves, CreatePreserves,
       FindToRotatePreserves, DeletePreserves, UpdatePreserves DEF EndpointsNext
  <2> QED
    BY <2>1, <2>2
<1>3. EndpointsInv => EndpointsSafe
  BY DEF EndpointsInv
<1> QED
  BY <1>1, <1>2, <1>3, PTL DEF EndpointsSpec

-----------------------------------------------------------------------------
(* Job postings *)

CareersSpec == CareersInit /\ [][CareersNext]_careersVars

\* The applications for a job that are stored or have been counted.
Awaiting(j) == {d \in Callers : visit[d].step \in {"look", "create"} /\ visit[d].job = j}
Counted(j) == {a \in applications : a[2] = j} \cup {<<visit[d].email, j>> : d \in Awaiting(j)}

\* The counter covers them; a deletion that is not marked has found none, and there
\* are none, nor will there be, for a job that was so deleted.
CounterCovers ==
  \A j \in Jobs :
    /\ IsFiniteSet(Counted(j))
    /\ job[j].status # "deleted" /\ j \notin patched => Cardinality(Counted(j)) <= job[j].count
DeletesNone ==
  \A j \in Jobs \ (overlapped \cup patched) :
    /\ For(j, "delete") => Counted(j) = {}
    /\ job[j].status = "deleted" => Counted(j) = {} /\ ~For(j, "count")
\* Nobody applies for a job before there is one.
NoneYet == \A j \in Jobs : job[j].status = "none" => ~For(j, "count")
CareersInv == CareersTypeOK /\ CounterCovers /\ DeletesNone /\ NoneYet

LEMMA VisitIs ==
  ASSUME CareersTypeOK, NEW d \in Callers
  PROVE  /\ visit[d].step \in {"out", "count", "look", "create", "delete"}
         /\ AtStep(d, "count") => visit[d] \in [step : {"count"}, email : People, job : Jobs]
         /\ AtStep(d, "look") \/ AtStep(d, "create") =>
              visit[d] \in [step : {"look", "create"}, email : People, job : Jobs \cup {General}]
         /\ AtStep(d, "delete") => visit[d] \in [step : {"delete"}, email : {"none"}, job : Jobs]
BY DEF CareersTypeOK, Out, AtStep

LEMMA CareersImplied ==
  ASSUME CareersInv
  PROVE  CareersSafe
<1>1. ASSUME NEW j \in Jobs \ patched, Exists(j)
      PROVE  Cardinality({a \in applications : a[2] = j} \cup
               {<<visit[d].email, j>> : d \in {d \in Callers : AtStep(d, "create") /\ visit[d].job = j}})
             <= job[j].count
  <2> DEFINE S == {a \in applications : a[2] = j} \cup
               {<<visit[d].email, j>> : d \in {d \in Callers : AtStep(d, "create") /\ visit[d].job = j}}
  <2>1. S \subseteq Counted(j)
    BY DEF Counted, Awaiting, AtStep
  <2>2. IsFiniteSet(Counted(j)) /\ Cardinality(Counted(j)) <= job[j].count
    BY <1>1 DEF CareersInv, CounterCovers, Exists, JobStatus
  <2>3. IsFiniteSet(S) /\ Cardinality(S) <= Cardinality(Counted(j))
    BY <2>1, <2>2, FS_Subset
  <2>4. Cardinality(S) \in Nat /\ Cardinality(Counted(j)) \in Nat /\ job[j].count \in Nat
    BY <2>2, <2>3, FS_CardinalityType, CareersAssumption DEF CareersInv, CareersTypeOK
  <2>5. Cardinality(S) <= job[j].count
    BY <2>2, <2>3, <2>4
  <2> QED
    BY <2>5
<1>2. JobKeptUnlessOverlapped
  <2> SUFFICES ASSUME NEW a \in applications, a[2] # General, job[a[2]].status = "deleted",
                      a[2] \notin overlapped \cup patched
               PROVE  FALSE
    BY DEF JobKeptUnlessOverlapped
  <2>1. a[2] \in Jobs
    BY DEF CareersInv, CareersTypeOK, Applications
  <2>2. a \in Counted(a[2])
    BY DEF Counted
  <2> QED
    BY <2>1, <2>2 DEF CareersInv, DeletesNone
<1> QED
  BY <1>1, <1>2 DEF CareersInv, CareersSafe, CountCovers

\* Nothing is counted or deleted: no more applications than before.
CountsNone(j) ==
  /\ Counted(j)' \subseteq Counted(j) /\ job'[j].count = job[j].count
  /\ job'[j].status = "deleted" <=> job[j].status = "deleted"
  /\ job'[j].status = "none" => job[j].status = "none"
  /\ For(j, "delete")' => For(j, "delete")
  /\ For(j, "count")' => For(j, "count") \/ Exists(j)
LEMMA NoneCounted ==
  ASSUME CareersInv, CareersTypeOK', overlapped' = overlapped, patched' = patched,
         \A j \in Jobs : CountsNone(j)
  PROVE  CareersInv'
<1>1. CounterCovers'
  <2> SUFFICES ASSUME NEW j \in Jobs
               PROVE  /\ IsFiniteSet(Counted(j)')
                      /\ job'[j].status # "deleted" /\ j \notin patched' =>
                           Cardinality(Counted(j)') <= job'[j].count
    BY DEF CounterCovers
  <2>1. IsFiniteSet(Counted(j)) /\ Counted(j)' \subseteq Counted(j) /\ job[j].count \in Nat
    BY CareersAssumption DEF CareersInv, CounterCovers, CareersTypeOK, CountsNone
  <2>2. /\ IsFiniteSet(Counted(j)') /\ Cardinality(Counted(j)') <= Cardinality(Counted(j))
        /\ Cardinality(Counted(j)') \in Nat /\ Cardinality(Counted(j)) \in Nat
    BY <2>1, FS_Subset, FS_CardinalityType
  <2>3. job[j].status # "deleted" /\ j \notin patched => Cardinality(Counted(j)) <= job[j].count
    BY DEF CareersInv, CounterCovers
  <2> QED
    BY <2>1, <2>2, <2>3 DEF CountsNone
<1>2. DeletesNone'
  BY DEF CareersInv, DeletesNone, CountsNone, Exists, JobStatus
<1>3. NoneYet'
  BY DEF CareersInv, NoneYet, CountsNone, Exists, JobStatus
<1> QED
  BY <1>1, <1>2, <1>3 DEF CareersInv

LEMMA JobsPreserve ==
  ASSUME CareersInv, NEW j \in Jobs, CreateJob(j) \/ \E s \in JobStatus : UpdateJob(j, s)
  PROVE  CareersInv'
<1>1. PICK s \in JobStatus : /\ job' = [job EXCEPT ![j].status = s] /\ job[j].status # "deleted"
                             /\ UNCHANGED <<applications, visit, overlapped, patched>>
  BY DEF CreateJob, UpdateJob, Exists, JobStatus
<1>2. PICK d \in [status : JobStatus \cup {"none", "deleted"}, count : 0..MaxCount] : d = job[j]
  BY DEF CareersInv, CareersTypeOK
<1>3. /\ [d EXCEPT !.status = s] \in [status : JobStatus \cup {"none", "deleted"}, count : 0..MaxCount]
      /\ [d EXCEPT !.status = s].status = s /\ [d EXCEPT !.status = s].count = d.count
  OBVIOUS
<1>4. job' = [job EXCEPT ![j] = [d EXCEPT !.status = s]]
  BY <1>1, <1>2
<1>5. /\ job'[j].status = s /\ job'[j].count = job[j].count
      /\ s # "deleted" /\ s # "none"
      /\ \A i \in Jobs \ {j} : job'[i] = job[i]
  BY <1>2, <1>3, <1>4 DEF CareersInv, CareersTypeOK, JobStatus
<1>6. CareersTypeOK'
  BY <1>1, <1>3, <1>4 DEF CareersInv, CareersTypeOK
<1>7. \A i \in Jobs : Counted(i)' = Counted(i)
  BY <1>1 DEF Counted, Awaiting
<1>8. \A i \in Jobs : \A t : For(i, t)' <=> For(i, t)
  BY <1>1 DEF For, AtStep
<1> QED
  BY <1>1, <1>5, <1>6, <1>7, <1>8, NoneCounted DEF CountsNone

LEMMA OverwritePreserves ==
  ASSUME CareersInv, NEW j \in Jobs, NEW n \in 0..MaxCount, OverwriteCount(j, n)
  PROVE  CareersInv'
<1>1. /\ job' = [job EXCEPT ![j].count = n] /\ patched' = patched \cup {j}
      /\ UNCHANGED <<applications, visit, overlapped>>
  BY DEF OverwriteCount
<1>2. PICK d \in [status : JobStatus \cup {"none", "deleted"}, count : 0..MaxCount] : d = job[j]
  BY DEF CareersInv, CareersTypeOK
<1>3. /\ [d EXCEPT !.count = n] \in [status : JobStatus \cup {"none", "deleted"}, count : 0..MaxCount]
      /\ [d EXCEPT !.count = n].status = d.status
  OBVIOUS
<1>4. job' = [job EXCEPT ![j] = [d EXCEPT !.count = n]]
  BY <1>1, <1>2
<1>5. /\ \A i \in Jobs : job'[i].status = job[i].status
      /\ \A i \in Jobs \ {j} : job'[i] = job[i]
  BY <1>2, <1>3, <1>4 DEF CareersInv, CareersTypeOK
<1>6. CareersTypeOK'
  BY <1>1, <1>3, <1>4 DEF CareersInv, CareersTypeOK
<1>7. \A i \in Jobs : Counted(i)' = Counted(i)
  BY <1>1 DEF Counted, Awaiting
<1>8. \A i \in Jobs : \A t : For(i, t)' <=> For(i, t)
  BY <1>1 DEF For, AtStep
<1>9. CounterCovers'
  BY <1>1, <1>5, <1>7 DEF CareersInv, CounterCovers
<1>10. DeletesNone'
  BY <1>1, <1>5, <1>7, <1>8 DEF CareersInv, DeletesNone
<1>11. NoneYet'
  BY <1>5, <1>8 DEF CareersInv, NoneYet
<1> QED
  BY <1>6, <1>9, <1>10, <1>11 DEF CareersInv

\* A request moves on or ends; it may find a job that is there.
LEMMA VisitPreserves ==
  ASSUME CareersInv, NEW d \in Callers,
         \/ \E e \in People, j \in Jobs \cup {General} : FindOpenJob(d, e, j)
         \/ LookForApplication(d) \/ CreateApplication(d)
  PROVE  CareersInv'
<1>1. job' = job /\ overlapped' = overlapped /\ patched' = patched
  BY DEF FindOpenJob, LookForApplication, CreateApplication
<1>2. CASE \E e \in People, j \in Jobs \cup {General} : FindOpenJob(d, e, j)
  <2>1. PICK e \in People, j \in Jobs \cup {General}, s \in {"look", "count"} :
          /\ AtStep(d, "out") /\ visit' = [visit EXCEPT ![d] = [step |-> s, email |-> e, job |-> j]]
          /\ s = "look" => j = General
          /\ s = "count" => j \in Jobs /\ job[j].status = "open"
    BY <1>2 DEF FindOpenJob, Enter
  <2>2. applications' = applications
    BY <1>2 DEF FindOpenJob
  <2>3. /\ visit'[d].step = s /\ visit'[d].email = e /\ visit'[d].job = j
        /\ \A c \in Callers \ {d} : visit'[c] = visit[c]
    BY <2>1 DEF CareersInv, CareersTypeOK
  <2>4. CareersTypeOK'
    BY <1>1, <2>1, <2>2 DEF CareersInv, CareersTypeOK
  <2>5. ASSUME NEW i \in Jobs
        PROVE  CountsNone(i)
    <3>1. Awaiting(i)' \subseteq Awaiting(i) /\ d \notin Awaiting(i)'
      BY <2>1, <2>3, CareersAssumption DEF Awaiting, General
    <3>2. \A c \in Awaiting(i)' : visit'[c] = visit[c]
      BY <2>3, <3>1 DEF Awaiting
    <3>3. Counted(i)' \subseteq Counted(i)
      BY <2>2, <3>1, <3>2 DEF Counted
    <3>4. For(i, "delete")' => For(i, "delete")
      BY <2>1, <2>3 DEF For, AtStep
    <3>5. For(i, "count")' => For(i, "count") \/ Exists(i)
      BY <2>1, <2>3 DEF For, AtStep, Exists, JobStatus
    <3> QED
      BY <1>1, <3>3, <3>4, <3>5 DEF CountsNone
  <2> QED
    BY <1>1, <2>4, <2>5, NoneCounted
<1>3. CASE LookForApplication(d)
  <2>1. AtStep(d, "look") /\ applications' = applications /\ (Exit(d) \/ Proceed(d, "create"))
    BY <1>3 DEF LookForApplication
  <2>2. PICK v \in [step : {"look", "create"}, email : People, job : Jobs \cup {General}] :
          v = visit[d]
    BY <2>1, VisitIs DEF CareersInv
  <2>3. /\ [v EXCEPT !.step = "create"] \in
             [step : {"look", "create"}, email : People, job : Jobs \cup {General}]
        /\ [v EXCEPT !.step = "create"].email = v.email /\ [v EXCEPT !.step = "create"].job = v.job
        /\ [v EXCEPT !.step = "create"].step = "create"
    OBVIOUS
  <2>4. PICK t \in {Out, [v EXCEPT !.step = "create"]} : visit' = [visit EXCEPT ![d] = t]
    BY <2>1, <2>2 DEF Exit, Proceed
  <2>5. CareersTypeOK'
    BY <1>1, <2>1, <2>3, <2>4 DEF CareersInv, CareersTypeOK
  <2>6. /\ visit'[d] = t /\ \A c \in Callers \ {d} : visit'[c] = visit[c]
        /\ t.step \in {"out", "create"}
        /\ t.step = "create" => t.email = v.email /\ t.job = v.job
    BY <2>3, <2>4 DEF CareersInv, CareersTypeOK, Out
  <2>7. ASSUME NEW i \in Jobs
        PROVE  Counted(i)' \subseteq Counted(i)
    <3>1. \A c \in Awaiting(i)' : c \in Awaiting(i) /\ visit'[c].email = visit[c].email
      <4> SUFFICES ASSUME NEW c \in Awaiting(i)'
                   PROVE  c \in Awaiting(i) /\ visit'[c].email = visit[c].email
        OBVIOUS
      <4>1. CASE c = d
        BY <2>1, <2>2, <2>6, <4>1 DEF Awaiting, AtStep
      <4>2. CASE c # d
        BY <2>6, <4>2 DEF Awaiting
      <4> QED
        BY <4>1, <4>2
    <3> QED
      BY <2>1, <3>1 DEF Counted
  <2>8. \A i \in Jobs : \A s \in {"delete", "count"} : For(i, s)' => For(i, s)
    BY <2>6 DEF For, AtStep
  <2> QED
    BY <1>1, <2>5, <2>7, <2>8, NoneCounted DEF CountsNone
<1>4. CASE CreateApplication(d)
  <2>1. /\ AtStep(d, "create") /\ visit' = [visit EXCEPT ![d] = Out]
        /\ applications' = applications \cup {<<visit[d].email, visit[d].job>>}
    BY <1>4 DEF CreateApplication, Exit
  <2>2. visit'[d] = Out /\ \A c \in Callers \ {d} : visit'[c] = visit[c]
    BY <2>1 DEF CareersInv, CareersTypeOK
  <2>3. visit[d] \in [step : {"look", "create"}, email : People, job : Jobs \cup {General}]
    BY <2>1, VisitIs DEF CareersInv
  <2>4. CareersTypeOK'
    <3>1. <<visit[d].email, visit[d].job>> \in Applications
      BY <2>3 DEF Applications
    <3> QED
      BY <1>1, <2>1, <3>1 DEF CareersInv, CareersTypeOK
  <2>5. ASSUME NEW i \in Jobs
        PROVE  Counted(i)' \subseteq Counted(i)
    <3>1. \A c \in Awaiting(i)' : c \in Awaiting(i) /\ visit'[c].email = visit[c].email
      BY <2>2 DEF Awaiting, Out
    <3>2. visit[d].job = i => <<visit[d].email, i>> \in Counted(i)
      BY <2>1 DEF Counted, Awaiting, AtStep
    <3>3. \A a \in applications' : a[2] = i => a \in Counted(i)
      BY <2>1, <3>2 DEF Counted
    <3> QED
      BY <3>1, <3>3 DEF Counted
  <2>6. \A i \in Jobs : \A s \in {"delete", "count"} : For(i, s)' => For(i, s)
    BY <2>2 DEF For, AtStep, Out
  <2> QED
    BY <1>1, <2>4, <2>5, <2>6, NoneCounted DEF CountsNone
<1> QED
  BY <1>2, <1>3, <1>4

LEMMA FindToDeletePreserves ==
  ASSUME CareersInv, NEW d \in Callers, NEW j \in Jobs, FindToDelete(d, j)
  PROVE  CareersInv'
<1>1. /\ Exists(j) /\ job[j].count = 0 /\ AtStep(d, "out")
      /\ visit' = [visit EXCEPT ![d] = [step |-> "delete", email |-> "none", job |-> j]]
      /\ UNCHANGED <<job, applications, overlapped, patched>>
  BY DEF FindToDelete, Enter
<1>2. /\ visit'[d].step = "delete" /\ visit'[d].job = j
      /\ \A c \in Callers \ {d} : visit'[c] = visit[c]
  BY <1>1 DEF CareersInv, CareersTypeOK
<1>3. CareersTypeOK'
  BY <1>1 DEF CareersInv, CareersTypeOK
<1>4. \A i \in Jobs : Counted(i)' = Counted(i)
  <2>1. \A i \in Jobs : Awaiting(i)' = Awaiting(i)
    BY <1>1, <1>2 DEF Awaiting, AtStep
  <2>2. \A i \in Jobs : \A c \in Awaiting(i) : visit'[c] = visit[c]
    BY <1>1, <1>2 DEF Awaiting, AtStep
  <2> QED
    BY <1>1, <2>1, <2>2 DEF Counted
<1>5. j \in patched \/ Counted(j) = {}
  <2> SUFFICES ASSUME j \notin patched
               PROVE  Counted(j) = {}
    OBVIOUS
  <2>1. IsFiniteSet(Counted(j)) /\ Cardinality(Counted(j)) <= 0
    BY <1>1 DEF CareersInv, CounterCovers, Exists, JobStatus
  <2>2. Cardinality(Counted(j)) = 0
    BY <2>1, FS_CardinalityType
  <2> QED
    BY <2>1, <2>2, FS_EmptySet
<1>6. CounterCovers'
  BY <1>1, <1>4 DEF CareersInv, CounterCovers
<1>7. DeletesNone'
  <2>1. \A i \in Jobs : /\ For(i, "delete")' => For(i, "delete") \/ i = j
                        /\ For(i, "count")' => For(i, "count")
    BY <1>1, <1>2 DEF For, AtStep
  <2> QED
    BY <1>1, <1>4, <1>5, <2>1 DEF CareersInv, DeletesNone
<1>8. NoneYet'
  BY <1>1, <1>2 DEF CareersInv, NoneYet, For, AtStep
<1> QED
  BY <1>3, <1>6, <1>7, <1>8 DEF CareersInv

LEMMA DeleteJobPreserves ==
  ASSUME CareersInv, NEW d \in Callers, DeleteJob(d)
  PROVE  CareersInv'
<1>1. AtStep(d, "delete") /\ visit' = [visit EXCEPT ![d] = Out] 
      /\ applications' = applications /\ patched' = patched
  BY DEF DeleteJob, Exit
<1>2. PICK j \in Jobs : j = visit[d].job
  BY <1>1, VisitIs DEF CareersInv
<1>3. /\ job' = IF Exists(j) THEN [job EXCEPT ![j].status = "deleted"] ELSE job
      /\ overlapped' = IF For(j, "count") THEN overlapped \cup {j} ELSE overlapped
  BY <1>2 DEF DeleteJob
<1>4. PICK r \in [status : JobStatus \cup {"none", "deleted"}, count : 0..MaxCount] : r = job[j]
  BY DEF CareersInv, CareersTypeOK
<1>5. /\ [r EXCEPT !.status = "deleted"] \in
           [status : JobStatus \cup {"none", "deleted"}, count : 0..MaxCount]
      /\ [r EXCEPT !.status = "deleted"].count = r.count
  OBVIOUS
<1>6. /\ job' \in [Jobs -> [status : JobStatus \cup {"none", "deleted"}, count : 0..MaxCount]]
      /\ \A i \in Jobs : job'[i].count = job[i].count
      /\ \A i \in Jobs \ {j} : job'[i] = job[i]
      /\ job[j].status = "deleted" => job'[j].status = "deleted"
      /\ job'[j].status = "none" => job[j].status = "none"
  <2>1. CASE Exists(j)
    <3>1. job' = [job EXCEPT ![j] = [r EXCEPT !.status = "deleted"]]
      BY <1>3, <1>4, <2>1
    <3> QED
      BY <1>4, <1>5, <2>1, <3>1 DEF CareersInv, CareersTypeOK, Exists, JobStatus
  <2>2. CASE ~Exists(j)
    BY <1>3, <2>2 DEF CareersInv, CareersTypeOK
  <2> QED
    BY <2>1, <2>2
<1>7. CareersTypeOK'
  BY <1>1, <1>3, <1>6 DEF CareersInv, CareersTypeOK
<1>8. visit'[d] = Out /\ \A c \in Callers \ {d} : visit'[c] = visit[c]
  BY <1>1 DEF CareersInv, CareersTypeOK
<1>9. \A i \in Jobs : Counted(i)' = Counted(i)
  <2>1. \A i \in Jobs : Awaiting(i)' = Awaiting(i)
    BY <1>1, <1>8 DEF Awaiting, AtStep, Out
  <2>2. \A i \in Jobs : \A c \in Awaiting(i) : visit'[c] = visit[c]
    BY <1>1, <1>8 DEF Awaiting, AtStep
  <2> QED
    BY <1>1, <2>1, <2>2 DEF Counted
<1>10. CounterCovers'
  <2>1. \A i \in Jobs : job[i].status = "deleted" => job'[i].status = "deleted"
    BY <1>6
  <2> QED
    BY <1>1, <1>6, <1>9, <2>1 DEF CareersInv, CounterCovers
<1>11. DeletesNone'
  <2> SUFFICES ASSUME NEW i \in Jobs \ (overlapped \cup patched)'
               PROVE  /\ For(i, "delete")' => Counted(i) = {}
                      /\ job'[i].status = "deleted" => Counted(i) = {} /\ ~For(i, "count")'
    BY <1>9 DEF DeletesNone
  <2>1. i \notin overlapped \cup patched /\ \A s \in {"delete", "count"} : For(i, s)' => For(i, s)
    BY <1>1, <1>3, <1>8 DEF For, AtStep, Out
  <2>2. CASE i = j
    <3>1. For(j, "delete") /\ ~For(j, "count")
      BY <1>1, <1>2, <1>3, <2>2 DEF For
    <3> QED
      BY <2>1, <2>2, <3>1 DEF CareersInv, DeletesNone
  <2>3. CASE i # j
    BY <1>6, <2>1, <2>3 DEF CareersInv, DeletesNone
  <2> QED
    BY <2>2, <2>3
<1>12. NoneYet'
  BY <1>6, <1>8 DEF CareersInv, NoneYet, For, AtStep, Out
<1> QED
  BY <1>7, <1>10, <1>11, <1>12 DEF CareersInv

LEMMA CountApplicationPreserves ==
  ASSUME CareersInv, NEW d \in Callers, CountApplication(d)
  PROVE  CareersInv'
<1>1. AtStep(d, "count") /\ Proceed(d, "look") /\ applications' = applications /\ patched' = patched
  BY DEF CountApplication
<1>2. PICK v \in [step : {"count"}, email : People, job : Jobs] : v = visit[d]
  BY <1>1, VisitIs DEF CareersInv
<1>3. PICK j \in Jobs : j = v.job
  OBVIOUS
<1>4. PICK w \in [step : {"look", "create"}, email : People, job : Jobs \cup {General}] :
        w = [v EXCEPT !.step = "look"] /\ w.step = "look" /\ w.email = v.email /\ w.job = j
  <2> DEFINE u == [v EXCEPT !.step = "look"]
  <2>1. /\ u \in [step : {"look", "create"}, email : People, job : Jobs \cup {General}]
        /\ u.step = "look" /\ u.email = v.email /\ u.job = v.job
    OBVIOUS
  <2> QED
    BY <1>3, <2>1
<1>5. visit' = [visit EXCEPT ![d] = w]
  BY <1>1, <1>2, <1>4 DEF Proceed
<1>6. /\ Exists(j) => job[j].count < MaxCount
      /\ job' = IF Exists(j) THEN [job EXCEPT ![j].count = @ + 1] ELSE job
      /\ overlapped' = IF For(j, "delete") THEN overlapped \cup {j} ELSE overlapped
  BY <1>2, <1>3 DEF CountApplication
<1>7. PICK r \in [status : JobStatus \cup {"none", "deleted"}, count : 0..MaxCount] : r = job[j]
  BY DEF CareersInv, CareersTypeOK
<1>8. /\ job' \in [Jobs -> [status : JobStatus \cup {"none", "deleted"}, count : 0..MaxCount]]
      /\ \A i \in Jobs : job'[i].status = job[i].status
      /\ \A i \in Jobs \ {j} : job'[i] = job[i]
      /\ Exists(j) => job'[j].count = job[j].count + 1
  <2>1. CASE Exists(j)
    <3>1. PICK n \in 0..MaxCount : n = r.count + 1
      BY <1>6, <1>7, <2>1, CareersAssumption
    <3>2. /\ [r EXCEPT !.count = n] \in [status : JobStatus \cup {"none", "deleted"}, count : 0..MaxCount]
          /\ [r EXCEPT !.count = n].status = r.status /\ [r EXCEPT !.count = n].count = n
      OBVIOUS
    <3>3. job' = [job EXCEPT ![j] = [r EXCEPT !.count = n]]
      BY <1>6, <1>7, <2>1, <3>1
    <3> QED
      BY <1>7, <3>1, <3>2, <3>3 DEF CareersInv, CareersTypeOK
  <2>2. CASE ~Exists(j)
    BY <1>6, <2>2 DEF CareersInv, CareersTypeOK
  <2> QED
    BY <2>1, <2>2
<1>9. CareersTypeOK'
  BY <1>1, <1>5, <1>6, <1>8 DEF CareersInv, CareersTypeOK
<1>10. visit'[d] = w /\ \A c \in Callers \ {d} : visit'[c] = visit[c]
  BY <1>5 DEF CareersInv, CareersTypeOK
<1>11. /\ Counted(j)' = Counted(j) \cup {<<v.email, j>>}
       /\ \A i \in Jobs \ {j} : Counted(i)' = Counted(i)
  <2>1. Awaiting(j)' = Awaiting(j) \cup {d} /\ \A i \in Jobs \ {j} : Awaiting(i)' = Awaiting(i)
    BY <1>1, <1>4, <1>10 DEF Awaiting, AtStep
  <2>2. /\ visit'[d].email = v.email
        /\ \A i \in Jobs : \A c \in Awaiting(i) : visit'[c].email = visit[c].email
    BY <1>1, <1>4, <1>10 DEF Awaiting, AtStep
  <2> QED
    BY <1>1, <2>1, <2>2 DEF Counted
<1>12. CounterCovers'
  <2> SUFFICES ASSUME NEW i \in Jobs
               PROVE  /\ IsFiniteSet(Counted(i)')
                      /\ job'[i].status # "deleted" /\ i \notin patched' =>
                           Cardinality(Counted(i)') <= job'[i].count
    BY DEF CounterCovers
  <2>1. CASE i # j
    BY <1>1, <1>8, <1>11, <2>1 DEF CareersInv, CounterCovers
  <2>2. CASE i = j
    <3>1. IsFiniteSet(Counted(j)) /\ Cardinality(Counted(j)) \in Nat /\ job[j].count \in Nat
      BY FS_CardinalityType, CareersAssumption DEF CareersInv, CounterCovers, CareersTypeOK
    <3>2. /\ IsFiniteSet(Counted(j)')
          /\ Cardinality(Counted(j)') = Cardinality(Counted(j))
             \/ Cardinality(Counted(j)') = Cardinality(Counted(j)) + 1
      <4>1. /\ IsFiniteSet(Counted(j) \cup {<<v.email, j>>})
            /\ Cardinality(Counted(j) \cup {<<v.email, j>>}) = Cardinality(Counted(j))
               \/ Cardinality(Counted(j) \cup {<<v.email, j>>}) = Cardinality(Counted(j)) + 1
        BY <3>1, FS_AddElement
      <4> QED
        BY <1>11, <4>1
    <3>3. CASE Exists(j)
      BY <1>1, <1>8, <2>2, <3>1, <3>2, <3>3 DEF CareersInv, CounterCovers, Exists, JobStatus
    <3>4. CASE ~Exists(j)
      <4>1. job[j].status # "none"
        BY <1>1, <1>2, <1>3 DEF CareersInv, NoneYet, For
      <4>2. job[j].status = "deleted"
        BY <3>4, <4>1 DEF CareersInv, CareersTypeOK, Exists
      <4> QED
        BY <1>8, <2>2, <3>2, <4>2
    <3> QED
      BY <3>3, <3>4
  <2> QED
    BY <2>1, <2>2
<1>13. DeletesNone'
  <2> SUFFICES ASSUME NEW i \in Jobs \ (overlapped \cup patched)'
               PROVE  /\ For(i, "delete")' => Counted(i)' = {}
                      /\ job'[i].status = "deleted" => Counted(i)' = {} /\ ~For(i, "count")'
    BY DEF DeletesNone
  <2>1. i \notin overlapped \cup patched /\ \A s \in {"delete", "count"} : For(i, s)' => For(i, s)
    BY <1>1, <1>4, <1>6, <1>10 DEF For, AtStep
  <2>2. CASE i = j
    <3>1. ~For(j, "delete") /\ For(j, "count")
      BY <1>1, <1>2, <1>3, <1>6, <2>2 DEF For
    <3> QED
      BY <1>8, <2>1, <2>2, <3>1 DEF CareersInv, DeletesNone
  <2>3. CASE i # j
    BY <1>8, <1>11, <2>1, <2>3 DEF CareersInv, DeletesNone
  <2> QED
    BY <2>2, <2>3
<1>14. NoneYet'
  BY <1>4, <1>8, <1>10 DEF CareersInv, NoneYet, For, AtStep
<1> QED
  BY <1>9, <1>12, <1>13, <1>14 DEF CareersInv

\* A job with a zero in its counter may be deleted: the counter covers every
\* application that is stored or about to be, and none is left behind by a deletion
\* unless the two requests overlapped, or an administrator wrote the counter himself.
THEOREM CareersAreSafe == CareersSpec => []CareersSafe
<1>1. CareersInit => CareersInv
  <2> SUFFICES ASSUME CareersInit
               PROVE  CareersInv
    OBVIOUS
  <2>1. 0 \in 0..MaxCount
    BY CareersAssumption
  <2>2. CareersTypeOK
    BY <2>1 DEF CareersInit, CareersTypeOK
  <2>3. \A d \in Callers : visit[d].step = "out"
    BY DEF CareersInit, Out
  <2>4. \A j \in Jobs : Counted(j) = {} /\ \A s \in {"count", "delete"} : ~For(j, s)
    BY <2>3 DEF CareersInit, Counted, Awaiting, For, AtStep
  <2>5. CounterCovers
    BY <2>1, <2>4, FS_EmptySet DEF CareersInit, CounterCovers
  <2> QED
    BY <2>2, <2>4, <2>5 DEF CareersInit, CareersInv, DeletesNone, NoneYet
<1>2. CareersInv /\ [CareersNext]_careersVars => CareersInv'
  <2> SUFFICES ASSUME CareersInv, [CareersNext]_careersVars
               PROVE  CareersInv'
    OBVIOUS
  <2>1. CASE UNCHANGED careersVars
    BY <2>1 DEF CareersInv, CareersTypeOK, CounterCovers, DeletesNone, NoneYet, careersVars,
                Counted, Awaiting, For, AtStep
  <2>2. CASE CareersNext
    BY <2>2, JobsPreserve, OverwritePreserves, VisitPreserves, FindToDeletePreserves, DeleteJobPreserves,
       CountApplicationPreserves DEF CareersNext
  <2> QED
    BY <2>1, <2>2
<1> QED
  BY <1>1, <1>2, CareersImplied, PTL DEF CareersSpec

-----------------------------------------------------------------------------
(* Answers kept *)

ResponseSpec == ResponseInit /\ [][ResponseNext]_responseVars

\* What is left of an entry's time was there when its data was fetched.
EntryAge == \A v \in Kept : store[v].data + store[v].left <= Life + Handling
ResponseInv == ResponseTypeOK /\ IsFiniteSet(Kept) /\ StoreBounded /\ EntryAge /\ AnswerAge

Entries == [data : 0..(Life + Handling), left : -1..Life, idle : 0..MostIdle]

LEMMA EntryIs ==
  ASSUME ResponseTypeOK
  PROVE  /\ \A e \in Entries : e # NoEntry
         /\ \A v \in Views : v \in Kept <=> store[v] \in Entries
         /\ \A v \in Views \ Kept : store[v] = NoEntry
<1>1. \A e \in Entries : e # NoEntry
  <2>1. NoEntry.left = -2
    BY DEF NoEntry
  <2> QED
    BY <2>1, ResponseAssumption DEF Entries
<1> QED
  BY <1>1 DEF ResponseTypeOK, Kept, Entries

LEMMA RoomMade ==
  ASSUME ResponseTypeOK, IsFiniteSet(Kept), StoreBounded, NEW gone \in SUBSET Kept, MakeRoom(gone)
  PROVE  Cardinality(Kept \ gone) < MaxStore
<1>1. MaxStore \in Nat /\ Cardinality(Kept) \in Nat /\ Cardinality(Kept) <= MaxStore
  BY ResponseAssumption, FS_CardinalityType DEF StoreBounded
<1>2. CASE Cardinality(Kept) < MaxStore
  <2>1. gone = {}
    BY <1>1, <1>2 DEF MakeRoom
  <2>2. Kept \ gone = Kept
    BY <2>1
  <2> QED
    BY <1>2, <2>2
<1>3. CASE ~(Cardinality(Kept) < MaxStore)
  <2> DEFINE stale == {v \in Kept : store[v].left < 0}
             rest == Kept \ stale
             quarter == Cardinality(rest) - (MaxStore * 3) \div 4
             many == IF quarter > 1 THEN quarter ELSE 1
  <2>1. Evicts(gone)
    BY <1>1, <1>3 DEF MakeRoom
  <2>2. /\ IsFiniteSet(rest) /\ Cardinality(rest) <= Cardinality(Kept)
        /\ Cardinality(rest) \in Nat
    <3>1. rest \subseteq Kept
      OBVIOUS
    <3> HIDE DEF rest
    <3> QED
      BY <3>1, FS_Subset, FS_CardinalityType
  <2>3. CASE Cardinality(rest) < MaxStore
    <3>1. gone = stale
      BY <2>1, <2>3 DEF Evicts
    <3> QED
      BY <2>3, <3>1
  <2>4. CASE ~(Cardinality(rest) < MaxStore)
    <3>1. PICK lru \in SUBSET rest : gone = stale \cup lru /\ Cardinality(lru) = many
      BY <2>1, <2>4 DEF Evicts
    <3>2. many >= 1
      <4>1. (MaxStore * 3) \div 4 \in Int
        BY <1>1
      <4>2. quarter \in Int
        BY <2>2, <4>1
      <4> HIDE DEF quarter
      <4> QED
        BY <4>2
    <3>3. Kept \ gone = rest \ lru
      BY <3>1
    <3> HIDE DEF rest, stale, many
    <3>4. IsFiniteSet(lru) /\ Cardinality(lru) \in Nat
      BY <2>2, <3>1, FS_Subset, FS_CardinalityType
    <3>5. lru # {}
      <4>1. Cardinality(lru) # 0
        BY <3>1, <3>2, <3>4
      <4> QED
        BY <3>4, <4>1, FS_EmptySet
    <3>6. PICK v \in lru : v \in rest
      BY <3>1, <3>5
    <3>7. IsFiniteSet(rest \ {v}) /\ Cardinality(rest \ {v}) = Cardinality(rest) - 1
      BY <2>2, <3>6, FS_RemoveElement
    <3>8. Cardinality(rest \ lru) <= Cardinality(rest \ {v})
      <4>1. rest \ lru \subseteq rest \ {v}
        BY <3>6
      <4> QED
        BY <3>7, <4>1, FS_Subset
    <3>9. Cardinality(rest \ lru) \in Nat
      BY <2>2, FS_Subset, FS_CardinalityType, rest \ lru \subseteq rest
    <3> QED
      BY <1>1, <2>2, <3>3, <3>7, <3>8, <3>9
  <2> QED
    BY <2>3, <2>4
<1> QED
  BY <1>2, <1>3

LEMMA HitPreserves ==
  ASSUME ResponseInv, NEW r \in Visitors, NEW v \in Views, Hit(r, v)
  PROVE  ResponseInv'
<1>1. /\ Live(v) /\ store' = [store EXCEPT ![v].idle = 0] /\ ageShown' = store[v].data
      /\ visitor' = visitor
  BY DEF Hit
<1>2. PICK e \in Entries : e = store[v]
  <2>1. store[v] # NoEntry
    BY <1>1 DEF Live, NoEntry
  <2> QED
    BY <2>1 DEF ResponseInv, ResponseTypeOK, Entries
<1>3. 0 \in 0..MostIdle
  BY ResponseAssumption DEF MostIdle
<1>4. PICK f \in Entries : f = [e EXCEPT !.idle = 0] /\ f.data = e.data /\ f.left = e.left
  <2> DEFINE g == [e EXCEPT !.idle = 0]
  <2>1. e \in [data : 0..(Life + Handling), left : -1..Life, idle : 0..MostIdle]
    BY DEF Entries
  <2>2. /\ g \in [data : 0..(Life + Handling), left : -1..Life, idle : 0..MostIdle]
        /\ g.data = e.data /\ g.left = e.left
    BY <1>3, <2>1
  <2> HIDE DEF g
  <2>3. g \in Entries
    BY <2>2 DEF Entries
  <2> QED
    BY <2>2, <2>3 DEF g
<1>5. store' = [store EXCEPT ![v] = f]
  BY <1>1, <1>2, <1>4
<1>6. store'[v] = f /\ \A w \in Views \ {v} : store'[w] = store[w]
  BY <1>5 DEF ResponseInv, ResponseTypeOK
<1>7. store[v].data \in Nat /\ store[v].left > 0 /\ store[v].data + store[v].left <= Life + Handling
  <2>1. e.data \in Nat /\ e.left \in Int /\ v \in Kept
    BY <1>2, EntryIs, ResponseAssumption DEF Entries, ResponseInv
  <2> QED
    BY <1>1, <1>2, <2>1 DEF Live, ResponseInv, EntryAge
<1>8. ResponseTypeOK'
  <2>1. store \in [Views -> {NoEntry} \cup Entries]
    BY DEF ResponseInv, ResponseTypeOK, Entries
  <2>2. store' \in [Views -> {NoEntry} \cup Entries]
    BY <1>5, <2>1
  <2> QED
    BY <1>1, <1>7, <2>2 DEF ResponseInv, ResponseTypeOK, Entries
<1>9. Kept' = Kept
  BY <1>2, <1>4, <1>6, EntryIs DEF ResponseInv, Kept
<1>10. EntryAge'
  BY <1>2, <1>4, <1>6, <1>9 DEF ResponseInv, EntryAge, Kept
<1>11. AnswerAge'
  <2>1. e.data \in Int /\ e.left \in Int /\ Life + Handling \in Int
    BY ResponseAssumption DEF Entries
  <2> QED
    BY <1>1, <1>2, <1>7, <2>1 DEF AnswerAge
<1> QED
  BY <1>8, <1>9, <1>10, <1>11 DEF ResponseInv, StoreBounded

LEMMA MissPreserves ==
  ASSUME ResponseInv, NEW r \in Visitors, HandlerFails(r) \/ \E v \in Views : Miss(r, v)
  PROVE  ResponseInv'
<1>1. store' = store /\ ageShown' = ageShown
  BY DEF Miss, HandlerFails
<1>2. ResponseTypeOK'
  <2>1. 0 \in 0..Handling
    BY ResponseAssumption
  <2> QED
    BY <1>1, <2>1 DEF ResponseInv, ResponseTypeOK, Miss, HandlerFails
<1> QED
  BY <1>1, <1>2 DEF ResponseInv, StoreBounded, EntryAge, AnswerAge, Kept

LEMMA StorePreserves ==
  ASSUME ResponseInv, NEW r \in Visitors, StoreAnswer(r)
  PROVE  ResponseInv'
<1>1. visitor[r] # NotHere /\ visitor' = [visitor EXCEPT ![r] = NotHere] /\ ageShown' = ageShown
  BY DEF StoreAnswer
<1>2. PICK w \in [view : Views, busy : 0..Handling] : w = visitor[r]
  BY <1>1 DEF ResponseInv, ResponseTypeOK
<1>3. PICK v \in Views, n \in 0..Handling : v = w.view /\ n = w.busy
  OBVIOUS
<1>4. PICK gone \in SUBSET Kept :
        /\ MakeRoom(gone)
        /\ store' = [x \in Views |->
             IF x = v THEN [data |-> n, left |-> Life, idle |-> 0]
             ELSE IF x \in gone THEN NoEntry ELSE store[x]]
  BY <1>2, <1>3 DEF StoreAnswer
<1>5. PICK f \in Entries :
        f = [data |-> n, left |-> Life, idle |-> 0] /\ f.data = n /\ f.left = Life
  <2>1. n \in 0..(Life + Handling) /\ Life \in -1..Life /\ 0 \in 0..MostIdle
    BY ResponseAssumption DEF MostIdle
  <2>2. [data |-> n, left |-> Life, idle |-> 0] \in Entries
    BY <2>1 DEF Entries
  <2> QED
    BY <2>2
<1>6. /\ store'[v] = f
      /\ \A x \in Views \ {v} : store'[x] = IF x \in gone THEN NoEntry ELSE store[x]
  BY <1>4, <1>5
<1>7. ResponseTypeOK'
  <2>1. store' \in [Views -> {NoEntry} \cup Entries]
    <3>1. \A x \in Views : store[x] \in {NoEntry} \cup Entries
      BY DEF ResponseInv, ResponseTypeOK, Entries
    <3> QED
      BY <1>4, <1>5, <3>1
  <2> QED
    BY <1>1, <2>1 DEF ResponseInv, ResponseTypeOK, Entries
<1>8. /\ Kept' \subseteq (Kept \ gone) \cup {v}
      /\ \A x \in Kept' \ {v} : x \in Kept /\ store'[x] = store[x]
  BY <1>6 DEF Kept
<1>9. IsFiniteSet(Kept') /\ StoreBounded'
  <2> DEFINE old == Kept \ gone
  <2>1. Cardinality(old) < MaxStore
    BY <1>4, RoomMade DEF ResponseInv
  <2>2. IsFiniteSet(old)
    BY FS_Subset, old \subseteq Kept DEF ResponseInv
  <2>3. Kept' \subseteq old \cup {v}
    BY <1>8
  <2> HIDE DEF old
  <2>4. /\ IsFiniteSet(old \cup {v}) /\ Cardinality(old) \in Nat
        /\ Cardinality(old \cup {v}) = Cardinality(old)
           \/ Cardinality(old \cup {v}) = Cardinality(old) + 1
    BY <2>2, FS_AddElement, FS_CardinalityType
  <2>5. IsFiniteSet(Kept') /\ Cardinality(Kept') <= Cardinality(old \cup {v})
    BY <2>3, <2>4, FS_Subset
  <2>6. Cardinality(Kept') \in Nat /\ MaxStore \in Nat
    BY <2>5, FS_CardinalityType, ResponseAssumption
  <2> QED
    BY <2>1, <2>4, <2>5, <2>6 DEF StoreBounded
<1>10. EntryAge'
  <2>1. f.data + f.left <= Life + Handling
    BY <1>5, ResponseAssumption
  <2> QED
    BY <1>6, <1>8, <2>1 DEF ResponseInv, EntryAge, Kept
<1> QED
  BY <1>1, <1>7, <1>9, <1>10 DEF ResponseInv, AnswerAge

LEMMA OlderIs ==
  ASSUME NEW e \in Entries, e.data + e.left <= Life + Handling
  PROVE  Older(e) \in Entries /\ Older(e).data + Older(e).left <= Life + Handling
<1>1. e # NoEntry
  <2>1. NoEntry.left = -2
    BY DEF NoEntry
  <2> QED
    BY <2>1, ResponseAssumption DEF Entries
<1>2. /\ Life \in Nat \ {0} /\ Handling \in Nat /\ e.data \in 0..(Life + Handling)
      /\ e.left \in -1..Life /\ e.idle \in 0..MostIdle
  BY ResponseAssumption DEF Entries
<1>3. PICK a \in 0..(Life + Handling), b \in -1..Life :
        /\ a = IF e.left > 1 THEN e.data + 1 ELSE 0
        /\ b = IF e.left > -1 THEN e.left - 1 ELSE -1
        /\ a + b <= Life + Handling
  BY <1>2
<1>4. PICK c \in 0..MostIdle : c = IF e.idle < MostIdle THEN e.idle + 1 ELSE e.idle
  BY <1>2 DEF MostIdle
<1>5. Older(e) = [data |-> a, left |-> b, idle |-> c]
  BY <1>1, <1>3, <1>4 DEF Older
<1> QED
  BY <1>3, <1>4, <1>5 DEF Entries

LEMMA TickPreserves ==
  ASSUME ResponseInv, ResponseTick
  PROVE  ResponseInv'
<1>1. store' = [v \in Views |-> Older(store[v])] /\ ageShown' = ageShown
  BY DEF ResponseTick
<1>2. /\ \A v \in Kept : /\ store'[v] \in Entries
                         /\ store'[v].data + store'[v].left <= Life + Handling
      /\ \A v \in Views \ Kept : store'[v] = NoEntry
  <2>1. \A v \in Kept : /\ v \in Views /\ store[v] \in Entries
                        /\ store[v].data + store[v].left <= Life + Handling
    BY EntryIs DEF ResponseInv, EntryAge, Kept
  <2>2. \A v \in Views \ Kept : Older(store[v]) = NoEntry
    BY EntryIs DEF ResponseInv, Older
  <2> QED
    BY <1>1, <2>1, <2>2, OlderIs
<1>3. Kept' = Kept
  BY <1>2, EntryIs DEF ResponseInv, Kept
<1>4. visitor' \in [Visitors -> {NotHere} \cup [view : Views, busy : 0..Handling]]
  <2>1. ASSUME NEW r \in Visitors, visitor[r] # NotHere
        PROVE  [visitor[r] EXCEPT !.busy = @ + 1] \in [view : Views, busy : 0..Handling]
    <3>1. PICK w \in [view : Views, busy : 0..Handling] : w = visitor[r]
      BY <2>1 DEF ResponseInv, ResponseTypeOK
    <3>2. w.busy + 1 \in 0..Handling
      BY <2>1, <3>1, ResponseAssumption DEF ResponseTick
    <3> QED
      BY <3>1, <3>2
  <2> QED
    BY <2>1 DEF ResponseTick
<1>5. ResponseTypeOK'
  <2>1. store' \in [Views -> {NoEntry} \cup Entries]
    BY <1>1, <1>2
  <2> QED
    BY <1>1, <1>4, <2>1 DEF ResponseInv, ResponseTypeOK, Entries
<1>6. EntryAge'
  BY <1>2, <1>3 DEF EntryAge
<1> QED
  BY <1>1, <1>3, <1>5, <1>6 DEF ResponseInv, StoreBounded, AnswerAge

\* The store of answers stays within its limit, however many requests miss together,
\* and an answer from it is younger than the TTL and the longest handler.
THEOREM AnswersAreSafe == ResponseSpec => []AnswersSafe
<1>1. ResponseInit => ResponseInv
  <2> SUFFICES ASSUME ResponseInit
               PROVE  ResponseInv
    OBVIOUS
  <2>1. ResponseTypeOK /\ AnswerAge
    BY ResponseAssumption DEF ResponseInit, ResponseTypeOK, AnswerAge
  <2>2. Kept = {}
    BY DEF ResponseInit, Kept
  <2>3. IsFiniteSet(Kept) /\ Cardinality(Kept) = 0
    BY <2>2, FS_EmptySet
  <2> QED
    BY <2>1, <2>2, <2>3, ResponseAssumption DEF ResponseInv, StoreBounded, EntryAge
<1>2. ResponseInv /\ [ResponseNext]_responseVars => ResponseInv'
  <2> SUFFICES ASSUME ResponseInv, [ResponseNext]_responseVars
               PROVE  ResponseInv'
    OBVIOUS
  <2>1. CASE UNCHANGED responseVars
    BY <2>1 DEF ResponseInv, ResponseTypeOK, StoreBounded, EntryAge, AnswerAge, Kept, responseVars
  <2>2. CASE ResponseNext
    BY <2>2, HitPreserves, MissPreserves, StorePreserves, TickPreserves DEF ResponseNext
  <2> QED
    BY <2>1, <2>2
<1>3. ResponseInv => AnswersSafe
  BY DEF ResponseInv, AnswersSafe
<1> QED
  BY <1>1, <1>2, <1>3, PTL DEF ResponseSpec

-----------------------------------------------------------------------------
(* Mails about the end of a trial *)

TrialSpec == TrialInit /\ [][TrialNext]_trialVars

\* A sweep is done within Slack of its now; what it has looked at has expired.
InTime ==
  \A p \in Sweepers : ~OnStep(p, "wait") => sweep[p].now <= tick /\ tick <= sweep[p].now + Slack
SweptAll == \A u \in Trials : trial[u].status = "trial" => \A n \in swept : n <= trial[u].end

\* A user whose trial has expired is told, or left out by a sweep that failed, or
\* a sweep is about to tell, or the first to see the end came an hour late.
Missed(u) ==
  /\ trial[u].end + Hour <= tick
  /\ \A n \in swept : trial[u].end < n => trial[u].end + Hour <= n + Slack
WillHear(u, p) ==
  (OnStep(p, "find") /\ u \in JustExpired(p)) \/ (OnStep(p, "mail") /\ u \in sweep[p].todo)
NoneForgotten ==
  \A u \in Trials : trial[u].status = "expired" /\ toldEnd[u] = 0 /\ u \notin leftOut
                      => Missed(u) \/ \E p \in Sweepers : WillHear(u, p)

\* Every sweep that may still tell a user has let a trial of its own expire.
Ended == {v \in Trials : trial[v].status # "trial"}
Tellers(u) == {p \in Sweepers : OnStep(p, "find") \/ (OnStep(p, "mail") /\ u \in sweep[p].todo)}
TellersCovered == \A u \in Trials : toldEnd[u] + Cardinality(Tellers(u)) <= Cardinality(Ended)

TrialInv == TrialTypeOK /\ InTime /\ SweptAll /\ NoneForgotten /\ TellersCovered

Rows == [status : {"trial", "expired", "active"}, end : 0..WarnTo]
Sweeps == [step : {"wait", "expire", "find", "mail", "look", "warn"},
           now : 0..LastTick, todo : SUBSET Trials]

\* What a sweep's step leaves: everything but its own record.
LEMMA TurnIs ==
  ASSUME TrialTypeOK, NEW p \in Sweepers, NEW s \in {"wait", "expire", "find", "mail", "look", "warn"},
         NEW todo \in SUBSET Trials, Turn(p, s, todo)
  PROVE  /\ sweep' \in [Sweepers -> Sweeps]
         /\ sweep'[p].step = s /\ sweep'[p].todo = todo /\ sweep'[p].now = sweep[p].now
         /\ \A q \in Sweepers \ {p} : sweep'[q] = sweep[q]
<1>1. PICK r \in Sweeps : r = sweep[p]
  BY DEF TrialTypeOK, Sweeps
<1>2. PICK t \in Sweeps : /\ t = [r EXCEPT !.step = s, !.todo = todo]
                          /\ t.step = s /\ t.todo = todo /\ t.now = r.now
  <2> DEFINE t == [r EXCEPT !.step = s, !.todo = todo]
  <2>1. t \in Sweeps /\ t.step = s /\ t.todo = todo /\ t.now = r.now
    BY DEF Sweeps
  <2> QED
    BY <2>1
<1>3. sweep' = [sweep EXCEPT ![p] = t]
  BY <1>1, <1>2 DEF Turn
<1> QED
  BY <1>1, <1>2, <1>3 DEF TrialTypeOK, Sweeps

LEMMA TellersFinite ==
  ASSUME TrialTypeOK, NEW u \in Trials
  PROVE  /\ IsFiniteSet(Tellers(u)) /\ Cardinality(Tellers(u)) \in Nat
         /\ IsFiniteSet(Ended) /\ Cardinality(Ended) \in Nat
<1>1. Tellers(u) \subseteq Sweepers /\ Ended \subseteq Trials
  BY DEF Tellers, Ended
<1> QED
  BY <1>1, TrialAssumption, FS_Subset, FS_CardinalityType

\* Steps that tell nobody and let nothing expire.
LEMMA NobodyTold ==
  ASSUME TrialInv, TrialTypeOK', InTime', NoneForgotten',
         trial' = trial, swept' = swept, toldEnd' = toldEnd,
         \A u \in Trials : Tellers(u)' \subseteq Tellers(u)
  PROVE  TrialInv'
<1>1. SweptAll'
  BY DEF TrialInv, SweptAll
<1>2. TellersCovered'
  <2> SUFFICES ASSUME NEW u \in Trials
               PROVE  toldEnd[u] + Cardinality(Tellers(u)') <= Cardinality(Ended)
    BY DEF TellersCovered, Ended
  <2>1. IsFiniteSet(Tellers(u)) /\ Cardinality(Tellers(u)) \in Nat /\ Cardinality(Ended) \in Nat
    BY TellersFinite DEF TrialInv
  <2>2. /\ IsFiniteSet(Tellers(u)') /\ Cardinality(Tellers(u)') <= Cardinality(Tellers(u))
        /\ Cardinality(Tellers(u)') \in Nat
    BY <2>1, FS_Subset, FS_CardinalityType
  <2>3. toldEnd[u] \in Nat
    BY DEF TrialInv, TrialTypeOK
  <2>4. toldEnd[u] + Cardinality(Tellers(u)) <= Cardinality(Ended)
    BY DEF TrialInv, TellersCovered
  <2> QED
    BY <2>1, <2>2, <2>3, <2>4
<1> QED
  BY <1>1, <1>2 DEF TrialInv

LEMMA StartSweepPreserves ==
  ASSUME TrialInv, NEW p \in Sweepers, StartSweep(p)
  PROVE  TrialInv'
<1>1. /\ OnStep(p, "wait") /\ sweep' = [sweep EXCEPT ![p] = [step |-> "expire", now |-> tick, todo |-> {}]]
      /\ UNCHANGED <<tick, trial, toldEnd, warned, swept, leftOut>>
  BY DEF StartSweep
<1>2. /\ sweep'[p] = [step |-> "expire", now |-> tick, todo |-> {}]
      /\ \A q \in Sweepers \ {p} : sweep'[q] = sweep[q]
  BY <1>1 DEF TrialInv, TrialTypeOK
<1>3. TrialTypeOK'
  <2>1. tick \div Hour + 1 \in Nat
    <3>1. tick \in Nat /\ Hour \in Nat \ {0}
      BY TrialAssumption DEF TrialInv, TrialTypeOK
    <3>2. tick \div Hour \in Nat
      BY <3>1
    <3> QED
      BY <3>2
  <2>2. lastRun' \in [Sweepers -> Nat]
    BY <2>1 DEF TrialInv, TrialTypeOK, StartSweep
  <2> QED
    BY <1>1, <2>2 DEF TrialInv, TrialTypeOK
<1>4. InTime'
  <2>1. tick \in Nat /\ tick <= tick + Slack
    BY TrialAssumption DEF TrialInv, TrialTypeOK
  <2> QED
    BY <1>1, <1>2, <2>1 DEF TrialInv, InTime, OnStep
<1>5. \A u \in Trials : \A q \in Sweepers : WillHear(u, q) => WillHear(u, q)'
  BY <1>1, <1>2 DEF WillHear, OnStep, JustExpired
<1>6. NoneForgotten'
  BY <1>1, <1>5 DEF TrialInv, NoneForgotten, Missed
<1>7. \A u \in Trials : Tellers(u)' \subseteq Tellers(u)
  BY <1>1, <1>2 DEF Tellers, OnStep
<1> QED
  BY <1>1, <1>3, <1>4, <1>6, <1>7, NobodyTold

LEMMA FindPreserves ==
  ASSUME TrialInv, NEW p \in Sweepers, FindExpired(p) \/ FindSoonExpiring(p)
  PROVE  TrialInv'
<1>1. PICK s \in {"mail", "warn"}, todo \in SUBSET Trials :
        /\ Turn(p, s, todo)
        /\ \/ OnStep(p, "find") /\ s = "mail" /\ todo = JustExpired(p)
           \/ OnStep(p, "look") /\ s = "warn"
  BY DEF FindExpired, FindSoonExpiring, JustExpired, SoonExpiring
<1>2. UNCHANGED <<tick, trial, lastRun, toldEnd, warned, swept, leftOut>>
  BY DEF FindExpired, FindSoonExpiring
<1>3. /\ sweep' \in [Sweepers -> Sweeps]
      /\ sweep'[p].step = s /\ sweep'[p].todo = todo /\ sweep'[p].now = sweep[p].now
      /\ \A q \in Sweepers \ {p} : sweep'[q] = sweep[q]
  BY <1>1, TurnIs DEF TrialInv
<1>4. TrialTypeOK'
  BY <1>2, <1>3 DEF TrialInv, TrialTypeOK, Sweeps
<1>5. InTime'
  BY <1>1, <1>2, <1>3 DEF TrialInv, InTime, OnStep
<1>6. \A u \in Trials : \A q \in Sweepers : WillHear(u, q) => WillHear(u, q)'
  <2> SUFFICES ASSUME NEW u \in Trials, NEW q \in Sweepers, WillHear(u, q)
               PROVE  WillHear(u, q)'
    OBVIOUS
  <2>1. CASE q = p
    BY <1>1, <1>3, <2>1 DEF WillHear, OnStep
  <2>2. CASE q # p
    BY <1>2, <1>3, <2>2 DEF WillHear, OnStep, JustExpired
  <2> QED
    BY <2>1, <2>2
<1>7. NoneForgotten'
  BY <1>2, <1>6 DEF TrialInv, NoneForgotten, Missed
<1>8. \A u \in Trials : Tellers(u)' \subseteq Tellers(u)
  BY <1>1, <1>3 DEF Tellers, OnStep
<1> QED
  BY <1>2, <1>4, <1>5, <1>7, <1>8, NobodyTold

LEMMA WarnPreserves ==
  ASSUME TrialInv, NEW p \in Sweepers, SendTrialWarning(p)
  PROVE  TrialInv'
<1>1. OnStep(p, "warn") /\ UNCHANGED <<tick, trial, lastRun, toldEnd, swept, leftOut>>
  BY DEF SendTrialWarning
<1>2. /\ sweep' \in [Sweepers -> Sweeps] /\ warned' \subseteq Trials
      /\ \/ sweep'[p].step = "wait"
         \/ sweep'[p].step = "warn" /\ sweep'[p].now = sweep[p].now
      /\ \A q \in Sweepers \ {p} : sweep'[q] = sweep[q]
  <2>1. CASE sweep' = [sweep EXCEPT ![p] = NoSweep] /\ warned' = warned
    <3>1. NoSweep \in Sweeps /\ NoSweep.step = "wait"
      BY TrialAssumption DEF NoSweep, Sweeps
    <3> QED
      BY <2>1, <3>1 DEF TrialInv, TrialTypeOK, Sweeps
  <2>2. CASE \E u \in sweep[p].todo : warned' = warned \cup {u} /\ Turn(p, "warn", sweep[p].todo \ {u})
    <3>1. PICK todo \in SUBSET Trials : todo = sweep[p].todo
      BY DEF TrialInv, TrialTypeOK
    <3>2. PICK u \in todo : warned' = warned \cup {u} /\ Turn(p, "warn", todo \ {u})
      BY <2>2, <3>1
    <3>3. todo \ {u} \in SUBSET Trials
      OBVIOUS
    <3> QED
      BY <3>1, <3>2, <3>3, TurnIs DEF TrialInv, TrialTypeOK
  <2> QED
    BY <2>1, <2>2 DEF SendTrialWarning
<1>3. TrialTypeOK'
  BY <1>1, <1>2 DEF TrialInv, TrialTypeOK, Sweeps
<1>4. InTime'
  BY <1>1, <1>2 DEF TrialInv, InTime, OnStep
<1>5. \A u \in Trials : \A q \in Sweepers : WillHear(u, q) => WillHear(u, q)'
  BY <1>1, <1>2 DEF WillHear, OnStep, JustExpired
<1>6. NoneForgotten'
  BY <1>1, <1>5 DEF TrialInv, NoneForgotten, Missed
<1>7. \A u \in Trials : Tellers(u)' \subseteq Tellers(u)
  BY <1>1, <1>2 DEF Tellers, OnStep
<1> QED
  BY <1>1, <1>3, <1>4, <1>6, <1>7, NobodyTold

LEMMA FailPreserves ==
  ASSUME TrialInv, NEW p \in Sweepers, SweepFails(p)
  PROVE  TrialInv'
<1>1. /\ sweep' = [sweep EXCEPT ![p] = NoSweep] /\ leftOut \subseteq leftOut'
      /\ UNCHANGED <<tick, trial, lastRun, toldEnd, warned, swept>>
      /\ \A u \in Trials : WillHear(u, p) => u \in leftOut'
  BY DEF SweepFails, WillHear, OnStep
<1>2. sweep'[p] = NoSweep /\ \A q \in Sweepers \ {p} : sweep'[q] = sweep[q]
  BY <1>1 DEF TrialInv, TrialTypeOK
<1>3. TrialTypeOK'
  <2>1. NoSweep \in Sweeps
    BY TrialAssumption DEF NoSweep, Sweeps
  <2>2. sweep' \in [Sweepers -> Sweeps]
    BY <1>1, <2>1 DEF TrialInv, TrialTypeOK, Sweeps
  <2>3. leftOut' \subseteq Trials
    BY DEF SweepFails, JustExpired, TrialInv, TrialTypeOK
  <2> QED
    BY <1>1, <2>2, <2>3 DEF TrialInv, TrialTypeOK, Sweeps
<1>4. InTime'
  BY <1>1, <1>2 DEF TrialInv, InTime, OnStep, NoSweep
<1>5. \A u \in Trials : \A q \in Sweepers : WillHear(u, q) => u \in leftOut' \/ WillHear(u, q)'
  <2> SUFFICES ASSUME NEW u \in Trials, NEW q \in Sweepers \ {p}, WillHear(u, q)
               PROVE  WillHear(u, q)'
    BY <1>1
  <2> QED
    BY <1>1, <1>2 DEF WillHear, OnStep, JustExpired
<1>6. NoneForgotten'
  BY <1>1, <1>5 DEF TrialInv, NoneForgotten, Missed
<1>7. \A u \in Trials : Tellers(u)' \subseteq Tellers(u)
  BY <1>1, <1>2 DEF Tellers, OnStep, NoSweep
<1> QED
  BY <1>1, <1>3, <1>4, <1>6, <1>7, NobodyTold

LEMMA NextTickPreserves ==
  ASSUME TrialInv, NextTick
  PROVE  TrialInv'
<1>1. /\ tick < LastTick /\ tick' = tick + 1
      /\ \A p \in Sweepers : OnStep(p, "wait") \/ tick < sweep[p].now + Slack
      /\ UNCHANGED <<trial, sweep, lastRun, toldEnd, warned, swept, leftOut>>
  BY DEF NextTick
<1>2. tick \in Nat /\ LastTick \in Nat /\ Hour \in Nat /\ Slack \in Nat
  BY TrialAssumption DEF TrialInv, TrialTypeOK
<1>3. TrialTypeOK'
  <2>1. tick' \in 0..LastTick
    BY <1>1, <1>2
  <2> QED
    BY <1>1, <2>1 DEF TrialInv, TrialTypeOK
<1>4. InTime'
  <2> SUFFICES ASSUME NEW p \in Sweepers, ~OnStep(p, "wait")
               PROVE  sweep[p].now <= tick' /\ tick' <= sweep[p].now + Slack
    BY <1>1 DEF InTime, OnStep
  <2>1. sweep[p].now \in Nat
    BY <1>2 DEF TrialInv, TrialTypeOK
  <2>2. sweep[p].now <= tick /\ tick < sweep[p].now + Slack
    BY <1>1 DEF TrialInv, InTime
  <2> QED
    BY <1>1, <1>2, <2>1, <2>2
<1>5. \A u \in Trials : /\ Missed(u) => Missed(u)'
                        /\ \A q \in Sweepers : WillHear(u, q) => WillHear(u, q)'
  <2>1. \A u \in Trials : trial[u].end \in Nat
    BY TrialAssumption DEF TrialInv, TrialTypeOK
  <2>2. \A u \in Trials : trial[u].end + Hour <= tick => trial[u].end + Hour <= tick'
    BY <1>1, <1>2, <2>1
  <2> QED
    BY <1>1, <2>2 DEF Missed, WillHear, OnStep, JustExpired
<1>6. NoneForgotten'
  BY <1>1, <1>5 DEF TrialInv, NoneForgotten
<1>7. \A u \in Trials : Tellers(u)' \subseteq Tellers(u)
  BY <1>1 DEF Tellers, OnStep
<1> QED
  BY <1>1, <1>3, <1>4, <1>6, <1>7, NobodyTold

LEMMA PayTrialPreserves ==
  ASSUME TrialInv, NEW x \in Trials, PayTrial(x)
  PROVE  TrialInv'
<1>1. /\ trial' = [trial EXCEPT ![x].status = "active"]
      /\ UNCHANGED <<tick, sweep, lastRun, toldEnd, warned, swept, leftOut>>
  BY DEF PayTrial
<1>2. PICK r \in Rows : r = trial[x]
  BY DEF TrialInv, TrialTypeOK, Rows
<1>3. PICK t \in Rows : /\ t = [r EXCEPT !.status = "active"]
                        /\ t.status = "active" /\ t.end = r.end
  <2> DEFINE t == [r EXCEPT !.status = "active"]
  <2>1. t \in Rows /\ t.status = "active" /\ t.end = r.end
    BY DEF Rows
  <2> QED
    BY <2>1
<1>4. trial' = [trial EXCEPT ![x] = t]
  BY <1>1, <1>2, <1>3
<1>5. /\ trial' \in [Trials -> Rows] /\ trial'[x].status = "active"
      /\ \A u \in Trials \ {x} : trial'[u] = trial[u]
  BY <1>3, <1>4 DEF TrialInv, TrialTypeOK, Rows
<1>6. TrialTypeOK'
  BY <1>1, <1>5 DEF TrialInv, TrialTypeOK, Rows
<1>7. InTime' /\ SweptAll'
  BY <1>1, <1>5 DEF TrialInv, InTime, SweptAll, OnStep
<1>8. NoneForgotten'
  <2> SUFFICES ASSUME NEW u \in Trials, trial'[u].status = "expired", toldEnd[u] = 0,
                      u \notin leftOut
               PROVE  Missed(u)' \/ \E p \in Sweepers : WillHear(u, p)'
    BY <1>1 DEF NoneForgotten
  <2>1. trial'[u] = trial[u]
    BY <1>5
  <2>2. /\ Missed(u) => Missed(u)'
        /\ \A p \in Sweepers : WillHear(u, p) => WillHear(u, p)'
    BY <1>1, <2>1 DEF Missed, WillHear, OnStep, JustExpired
  <2> QED
    BY <2>1, <2>2 DEF TrialInv, NoneForgotten
<1>9. TellersCovered'
  <2> SUFFICES ASSUME NEW u \in Trials
               PROVE  toldEnd[u] + Cardinality(Tellers(u)) <= Cardinality(Ended')
    BY <1>1 DEF TellersCovered, Tellers, OnStep
  <2>1. /\ Cardinality(Tellers(u)) \in Nat /\ Cardinality(Ended) \in Nat /\ IsFiniteSet(Ended')
    <3>1. Ended' \subseteq Trials
      BY DEF Ended
    <3> QED
      BY <3>1, TellersFinite, TrialAssumption, FS_Subset DEF TrialInv
  <2>2. Ended \subseteq Ended'
    BY <1>5 DEF Ended
  <2>3. Cardinality(Ended) <= Cardinality(Ended') /\ Cardinality(Ended') \in Nat
    BY <2>1, <2>2, FS_Subset, FS_CardinalityType
  <2>4. toldEnd[u] \in Nat /\ toldEnd[u] + Cardinality(Tellers(u)) <= Cardinality(Ended)
    BY DEF TrialInv, TrialTypeOK, TellersCovered
  <2> QED
    BY <2>1, <2>3, <2>4
<1> QED
  BY <1>6, <1>7, <1>8, <1>9 DEF TrialInv

LEMMA SendPreserves ==
  ASSUME TrialInv, NEW p \in Sweepers, SendTrialExpired(p)
  PROVE  TrialInv'
<1>1. /\ OnStep(p, "mail") /\ UNCHANGED <<tick, trial, lastRun, warned, swept, leftOut>>
  BY DEF SendTrialExpired
<1>2. PICK todo \in SUBSET Trials : todo = sweep[p].todo
  BY DEF TrialInv, TrialTypeOK
<1>3. CASE todo = {} /\ Turn(p, "look", {}) /\ UNCHANGED toldEnd
  <2>1. /\ sweep' \in [Sweepers -> Sweeps]
        /\ sweep'[p].step = "look" /\ sweep'[p].now = sweep[p].now
        /\ \A q \in Sweepers \ {p} : sweep'[q] = sweep[q]
    BY <1>3, TurnIs DEF TrialInv
  <2>2. TrialTypeOK'
    BY <1>1, <1>3, <2>1 DEF TrialInv, TrialTypeOK, Sweeps
  <2>3. InTime'
    BY <1>1, <2>1 DEF TrialInv, InTime, OnStep
  <2>4. \A u \in Trials : \A q \in Sweepers : WillHear(u, q) => WillHear(u, q)'
    BY <1>1, <1>2, <1>3, <2>1 DEF WillHear, OnStep, JustExpired
  <2>5. NoneForgotten'
    BY <1>1, <1>3, <2>4 DEF TrialInv, NoneForgotten, Missed
  <2>6. \A u \in Trials : Tellers(u)' \subseteq Tellers(u)
    BY <1>1, <2>1 DEF Tellers, OnStep
  <2> QED
    BY <1>1, <1>3, <2>2, <2>3, <2>5, <2>6, NobodyTold
<1>4. ASSUME NEW x \in todo, toldEnd' = [toldEnd EXCEPT ![x] = @ + 1], Turn(p, "mail", todo \ {x})
      PROVE  TrialInv'
  <2>1. /\ sweep' \in [Sweepers -> Sweeps]
        /\ sweep'[p].step = "mail" /\ sweep'[p].now = sweep[p].now
        /\ sweep'[p].todo = todo \ {x}
        /\ \A q \in Sweepers \ {p} : sweep'[q] = sweep[q]
    <3>1. todo \ {x} \in SUBSET Trials
      OBVIOUS
    <3> QED
      BY <1>4, <3>1, TurnIs DEF TrialInv
  <2>2. /\ toldEnd' \in [Trials -> Nat] /\ toldEnd'[x] = toldEnd[x] + 1 /\ toldEnd[x] \in Nat
        /\ \A u \in Trials \ {x} : toldEnd'[u] = toldEnd[u]
    BY <1>4 DEF TrialInv, TrialTypeOK
  <2>3. TrialTypeOK'
    BY <1>1, <2>1, <2>2 DEF TrialInv, TrialTypeOK, Sweeps
  <2>4. InTime' /\ SweptAll'
    BY <1>1, <2>1 DEF TrialInv, InTime, SweptAll, OnStep
  <2>5. \A u \in Trials \ {x} : \A q \in Sweepers : WillHear(u, q) => WillHear(u, q)'
    BY <1>1, <1>2, <2>1 DEF WillHear, OnStep, JustExpired
  <2>6. NoneForgotten'
    <3>1. toldEnd'[x] # 0
      BY <2>2
    <3> QED
      BY <1>1, <2>2, <2>5, <3>1 DEF TrialInv, NoneForgotten, Missed
  <2>7. TellersCovered'
    <3> SUFFICES ASSUME NEW u \in Trials
                 PROVE  toldEnd'[u] + Cardinality(Tellers(u)') <= Cardinality(Ended)
      BY <1>1 DEF TellersCovered, Ended
    <3>1. /\ Cardinality(Tellers(u)) \in Nat /\ Cardinality(Ended) \in Nat /\ IsFiniteSet(Tellers(u))
      BY TellersFinite DEF TrialInv
    <3>2. toldEnd[u] \in Nat /\ toldEnd[u] + Cardinality(Tellers(u)) <= Cardinality(Ended)
      BY DEF TrialInv, TrialTypeOK, TellersCovered
    <3>3. CASE u = x
      <4>1. p \in Tellers(u)
        BY <1>1, <1>2, <3>3 DEF Tellers
      <4>2. Tellers(u)' \subseteq Tellers(u) \ {p}
        BY <1>1, <2>1, <3>3 DEF Tellers, OnStep
      <4>3. /\ IsFiniteSet(Tellers(u) \ {p})
            /\ Cardinality(Tellers(u) \ {p}) = Cardinality(Tellers(u)) - 1
        BY <3>1, <4>1, FS_RemoveElement
      <4>4. /\ Cardinality(Tellers(u)') <= Cardinality(Tellers(u) \ {p})
            /\ Cardinality(Tellers(u)') \in Nat
        BY <4>2, <4>3, FS_Subset, FS_CardinalityType
      <4> QED
        BY <2>2, <3>1, <3>2, <3>3, <4>3, <4>4
    <3>4. CASE u # x
      <4>1. Tellers(u)' \subseteq Tellers(u)
        BY <1>1, <1>2, <2>1 DEF Tellers, OnStep
      <4>2. Cardinality(Tellers(u)') <= Cardinality(Tellers(u)) /\ Cardinality(Tellers(u)') \in Nat
        BY <3>1, <4>1, FS_Subset, FS_CardinalityType
      <4> QED
        BY <2>2, <3>1, <3>2, <3>4, <4>2
    <3> QED
      BY <3>3, <3>4
  <2> QED
    BY <2>3, <2>4, <2>6, <2>7 DEF TrialInv
<1> QED
  BY <1>2, <1>3, <1>4 DEF SendTrialExpired

LEMMA ExpirePreserves ==
  ASSUME TrialInv, NEW p \in Sweepers, ExpireTrials(p)
  PROVE  TrialInv'
<1>1. /\ OnStep(p, "expire") /\ swept' = swept \cup {sweep[p].now}
      /\ UNCHANGED <<tick, lastRun, toldEnd, warned, leftOut>>
  BY DEF ExpireTrials
<1>2. PICK s \in {"look", "find"} :
        Turn(p, s, {}) /\ s = (IF TrialsEnded(p) = {} THEN "look" ELSE "find")
  BY DEF ExpireTrials
<1>3. /\ sweep' \in [Sweepers -> Sweeps]
      /\ sweep'[p].step = s /\ sweep'[p].now = sweep[p].now
      /\ \A q \in Sweepers \ {p} : sweep'[q] = sweep[q]
  BY <1>2, TurnIs DEF TrialInv
<1>4. PICK n \in 0..LastTick : n = sweep[p].now
  BY DEF TrialInv, TrialTypeOK
<1>5. /\ n \in Nat /\ tick \in Nat /\ Hour \in Nat /\ Slack \in Nat /\ n <= tick /\ tick <= n + Slack
  BY <1>1, <1>4, TrialAssumption DEF TrialInv, InTime, OnStep, TrialTypeOK
<1>6. /\ trial' \in [Trials -> Rows]
      /\ \A u \in Trials :
           /\ trial'[u].end = trial[u].end
           /\ u \in TrialsEnded(p) => trial'[u].status = "expired"
           /\ u \notin TrialsEnded(p) => trial'[u] = trial[u]
  <2>1. trial' = [u \in Trials |-> IF u \in TrialsEnded(p) THEN [trial[u] EXCEPT !.status = "expired"]
                                                       ELSE trial[u]]
    BY DEF ExpireTrials
  <2>2. \A u \in Trials : trial[u] \in Rows
    BY DEF TrialInv, TrialTypeOK, Rows
  <2>3. \A r \in Rows : /\ [r EXCEPT !.status = "expired"] \in Rows
                        /\ [r EXCEPT !.status = "expired"].status = "expired"
                        /\ [r EXCEPT !.status = "expired"].end = r.end
    BY DEF Rows
  <2> QED
    BY <2>1, <2>2, <2>3
<1>7. \A u \in Trials : trial[u].end \in Nat
  BY TrialAssumption DEF TrialInv, TrialTypeOK
<1>8. TrialTypeOK'
  BY <1>1, <1>3, <1>4, <1>6 DEF TrialInv, TrialTypeOK, Rows, Sweeps
<1>9. InTime'
  BY <1>1, <1>3 DEF TrialInv, InTime, OnStep
<1>10. SweptAll'
  <2> SUFFICES ASSUME NEW u \in Trials, trial'[u].status = "trial", NEW m \in swept'
               PROVE  m <= trial'[u].end
    BY DEF SweptAll
  <2>1. u \notin TrialsEnded(p) /\ trial'[u] = trial[u]
    BY <1>6
  <2>2. ~(trial[u].end < n)
    BY <1>4, <2>1 DEF TrialsEnded
  <2>3. CASE m = n
    BY <1>5, <1>7, <2>1, <2>2, <2>3
  <2>4. CASE m # n
    BY <1>1, <1>4, <2>1, <2>4 DEF TrialInv, SweptAll
  <2> QED
    BY <2>3, <2>4
<1>11. NoneForgotten'
  <2> SUFFICES ASSUME NEW u \in Trials, trial'[u].status = "expired", toldEnd[u] = 0,
                      u \notin leftOut
               PROVE  Missed(u)' \/ \E q \in Sweepers : WillHear(u, q)'
    BY <1>1 DEF NoneForgotten
  <2>1. trial[u].end \in Nat /\ trial'[u].end = trial[u].end /\ swept \subseteq 0..LastTick
    BY <1>6, <1>7 DEF TrialInv, TrialTypeOK
  <2>2. CASE u \in TrialsEnded(p)
    <3>1. trial[u].status = "trial" /\ trial[u].end < n /\ s = "find"
      BY <1>2, <1>4, <2>2 DEF TrialsEnded
    <3>2. CASE trial[u].end + Hour > n
      <4>1. u \in JustExpired(p)'
        BY <1>3, <1>4, <2>1, <3>1, <3>2 DEF JustExpired
      <4> QED
        BY <1>3, <3>1, <4>1 DEF WillHear, OnStep
    <3>3. CASE ~(trial[u].end + Hour > n)
      <4>1. trial[u].end + Hour <= tick /\ trial[u].end + Hour <= n + Slack
        BY <1>5, <2>1, <3>3
      <4>2. \A m \in swept : ~(trial[u].end < m)
        <5>1. \A m \in swept : m \in Nat /\ m <= trial[u].end
          BY <2>1, <3>1 DEF TrialInv, SweptAll
        <5> QED
          BY <2>1, <5>1
      <4> QED
        BY <1>1, <1>4, <2>1, <4>1, <4>2 DEF Missed
    <3> QED
      BY <3>2, <3>3
  <2>3. CASE u \notin TrialsEnded(p)
    <3>1. trial'[u] = trial[u]
      BY <1>6, <2>3
    <3>2. \A q \in Sweepers : WillHear(u, q) => WillHear(u, q)'
      BY <1>1, <1>3, <3>1 DEF WillHear, OnStep, JustExpired
    <3>3. ASSUME Missed(u)
          PROVE  Missed(u)'
      <4>1. trial[u].end + Hour <= n + Slack
        BY <1>5, <2>1, <3>3 DEF Missed
      <4> QED
        BY <1>1, <1>4, <2>1, <3>3, <4>1 DEF Missed
    <3> QED
      BY <3>1, <3>2, <3>3 DEF TrialInv, NoneForgotten
  <2> QED
    BY <2>2, <2>3
<1>12. TellersCovered'
  <2> SUFFICES ASSUME NEW u \in Trials
               PROVE  toldEnd[u] + Cardinality(Tellers(u)') <= Cardinality(Ended')
    BY <1>1 DEF TellersCovered
  <2>1. /\ Cardinality(Tellers(u)) \in Nat /\ IsFiniteSet(Tellers(u))
        /\ Cardinality(Ended) \in Nat /\ IsFiniteSet(Ended)
    BY TellersFinite DEF TrialInv
  <2>2. toldEnd[u] \in Nat /\ toldEnd[u] + Cardinality(Tellers(u)) <= Cardinality(Ended)
    BY DEF TrialInv, TrialTypeOK, TellersCovered
  <2>3. Ended \subseteq Ended' /\ IsFiniteSet(Ended')
    <3>1. Ended' \subseteq Trials
      BY DEF Ended
    <3>2. \A v \in Ended : v \notin TrialsEnded(p)
      BY DEF Ended, TrialsEnded
    <3> QED
      BY <1>6, <3>1, <3>2, TrialAssumption, FS_Subset DEF Ended
  <2>4. CASE TrialsEnded(p) = {}
    <3>1. Tellers(u)' \subseteq Tellers(u)
      BY <1>2, <1>3, <2>4 DEF Tellers, OnStep
    <3>2. Cardinality(Tellers(u)') <= Cardinality(Tellers(u)) /\ Cardinality(Tellers(u)') \in Nat
      BY <2>1, <3>1, FS_Subset, FS_CardinalityType
    <3>3. Cardinality(Ended) <= Cardinality(Ended') /\ Cardinality(Ended') \in Nat
      BY <2>3, FS_Subset, FS_CardinalityType
    <3> QED
      BY <2>1, <2>2, <3>2, <3>3
  <2>5. CASE TrialsEnded(p) # {}
    <3>1. PICK v \in Trials : v \in TrialsEnded(p)
      BY <2>5 DEF TrialsEnded
    <3>2. v \notin Ended /\ v \in Ended'
      BY <1>6, <3>1 DEF Ended, TrialsEnded
    <3>3. IsFiniteSet(Ended \cup {v}) /\ Cardinality(Ended \cup {v}) = Cardinality(Ended) + 1
      BY <2>1, <3>2, FS_AddElement
    <3>4. Ended \cup {v} \subseteq Ended'
      BY <2>3, <3>2
    <3>5. Cardinality(Ended \cup {v}) <= Cardinality(Ended') /\ Cardinality(Ended') \in Nat
      BY <2>3, <3>4, FS_Subset, FS_CardinalityType
    <3>6. Tellers(u)' \subseteq Tellers(u) \cup {p}
      BY <1>3 DEF Tellers, OnStep
    <3>7. /\ IsFiniteSet(Tellers(u) \cup {p})
          /\ Cardinality(Tellers(u) \cup {p}) = Cardinality(Tellers(u))
             \/ Cardinality(Tellers(u) \cup {p}) = Cardinality(Tellers(u)) + 1
      BY <2>1, FS_AddElement
    <3>8. /\ Cardinality(Tellers(u)') <= Cardinality(Tellers(u) \cup {p})
          /\ Cardinality(Tellers(u)') \in Nat
      BY <3>6, <3>7, FS_Subset, FS_CardinalityType
    <3> QED
      BY <2>1, <2>2, <3>3, <3>5, <3>7, <3>8
  <2> QED
    BY <2>4, <2>5
<1> QED
  BY <1>8, <1>9, <1>10, <1>11, <1>12 DEF TrialInv

\* A user hears of the end of the trial when a sweep ran within the hour, unless one
\* failed; and hears of it again only for other trials that have expired.
THEOREM TrialMailsAreSafe == TrialSpec => []TrialMailsSafe
<1>1. TrialInit => TrialInv
  <2> SUFFICES ASSUME TrialInit
               PROVE  TrialInv
    OBVIOUS
  <2>1. 0 \in 0..LastTick /\ 0 \in Nat
    BY TrialAssumption
  <2>2. TrialTypeOK
    <3>1. trial \in [Trials -> Rows]
      BY DEF TrialInit, Rows
    <3> QED
      BY <2>1, <3>1 DEF TrialInit, TrialTypeOK, NoSweep, Rows
  <2>3. /\ \A p \in Sweepers : sweep[p].step = "wait"
        /\ \A u \in Trials : trial[u].status = "trial" /\ toldEnd[u] = 0
        /\ swept = {}
    BY DEF TrialInit, NoSweep
  <2>4. InTime /\ SweptAll /\ NoneForgotten
    BY <2>3 DEF InTime, SweptAll, NoneForgotten, OnStep
  <2>5. TellersCovered
    <3>1. Ended = {} /\ \A u \in Trials : Tellers(u) = {}
      BY <2>3 DEF Ended, Tellers, OnStep
    <3> QED
      BY <2>3, <3>1, FS_EmptySet DEF TellersCovered
  <2> QED
    BY <2>2, <2>4, <2>5 DEF TrialInv
<1>2. TrialInv /\ [TrialNext]_trialVars => TrialInv'
  <2> SUFFICES ASSUME TrialInv, [TrialNext]_trialVars
               PROVE  TrialInv'
    OBVIOUS
  <2>1. CASE UNCHANGED trialVars
    BY <2>1 DEF TrialInv, TrialTypeOK, InTime, SweptAll, NoneForgotten, TellersCovered, Missed,
                WillHear, Tellers, Ended, OnStep, JustExpired, trialVars
  <2>2. CASE TrialNext
    BY <2>2, StartSweepPreserves, ExpirePreserves, FindPreserves, SendPreserves, WarnPreserves,
       FailPreserves, PayTrialPreserves, NextTickPreserves DEF TrialNext
  <2> QED
    BY <2>1, <2>2
<1>3. TrialInv => TrialMailsSafe
  <2> SUFFICES ASSUME TrialInv
               PROVE  UntoldOnlyByGap /\ ToldAgainByOthers
    BY DEF TrialInv, TrialMailsSafe
  <2>1. UntoldOnlyByGap
    <3> SUFFICES ASSUME NEW u \in Trials, trial[u].status = "expired", toldEnd[u] = 0,
                        u \notin leftOut, \A p \in Sweepers : OnStep(p, "wait"),
                        NEW n \in swept, trial[u].end < n, n + Slack < trial[u].end + Hour
                 PROVE  FALSE
      BY DEF UntoldOnlyByGap
    <3>1. Missed(u)
      BY DEF TrialInv, NoneForgotten, WillHear, OnStep
    <3>2. trial[u].end + Hour <= n + Slack
      BY <3>1 DEF Missed
    <3>3. n \in Nat /\ trial[u].end \in Nat /\ Slack \in Nat /\ Hour \in Nat
      BY TrialAssumption DEF TrialInv, TrialTypeOK
    <3> QED
      BY <3>2, <3>3
  <2>2. ToldAgainByOthers
    <3> SUFFICES ASSUME NEW u \in Trials
                 PROVE  toldEnd[u] <= Cardinality(Ended)
      BY DEF ToldAgainByOthers, Ended
    <3>1. Cardinality(Tellers(u)) \in Nat /\ Cardinality(Ended) \in Nat
      BY TellersFinite DEF TrialInv
    <3> QED
      BY <3>1 DEF TrialInv, TrialTypeOK, TellersCovered
  <2> QED
    BY <2>1, <2>2
<1> QED
  BY <1>1, <1>2, <1>3, PTL DEF TrialSpec

-----------------------------------------------------------------------------
(* Dead letters *)

LettersSpec == LettersInit /\ [][LettersNext]_letterVars

\* A replay has put back an event or not.
Apart == \A a \in Agents : Replaying(a) => agent[a].todo \cap agent[a].half = {}

\* Jobs added, jobs that will be, and the death no replay-all has found yet: no more
\* than the deaths and the replays that were asked for.
Holders(e) == {a \in Agents : Replaying(a) /\ e \in agent[a].todo \cup agent[a].half}
Free(e) == IF letter[e] = "dead" /\ \A a \in Agents : e \notin FoundBy(a) THEN 1 ELSE 0
Covered(e) == added[e] + Cardinality(Holders(e)) + Free(e) <= died[e] + asked[e]
JobsCovered == \A e \in Letters \ shared : Covered(e)

\* An event under erasure is gone or will be, its logs are or a delivery overlaps.
Clear(e) == e \in sending \cup unlogged => e \in busy
ErasedClear(e) == letter[e] = "gone" /\ Clear(e) /\ (e \in logged => e \in busy)
EraseClear ==
  /\ \A a \in Agents : Does(a, "erase") => \A e \in agent[a].seen \ Encrypted :
       /\ letter[e] = "gone" \/ e \in agent[a].half
       /\ Clear(e) /\ (e \in logged => e \in busy \/ e \in agent[a].todo)
  /\ \A e \in erased \ Encrypted : ErasedClear(e)

LettersInv == LettersTypeOK /\ PendingIsUnderWay /\ Apart /\ JobsCovered /\ EraseClear

Requests == [does : {"nothing", "replay", "all", "rest", "erase", "done"},
             todo : SUBSET Letters, half : SUBSET Letters, seen : SUBSET Letters]
LetterStatus == {"pending", "retrying", "delivered", "dead", "gone"}

LEMMA Fewer ==
  ASSUME NEW S, NEW T, IsFiniteSet(S), T \subseteq S
  PROVE  /\ IsFiniteSet(T) /\ Cardinality(T) \in Nat /\ Cardinality(S) \in Nat
         /\ Cardinality(T) <= Cardinality(S)
BY FS_Subset, FS_CardinalityType

LEMMA OneMore ==
  ASSUME NEW S, NEW T, NEW x, IsFiniteSet(S), T \subseteq S \cup {x}
  PROVE  /\ IsFiniteSet(T) /\ Cardinality(T) \in Nat /\ Cardinality(S) \in Nat
         /\ Cardinality(T) <= Cardinality(S) + 1
<1>1. /\ IsFiniteSet(S \cup {x}) /\ Cardinality(S) \in Nat
      /\ Cardinality(S \cup {x}) = Cardinality(S) \/ Cardinality(S \cup {x}) = Cardinality(S) + 1
  BY FS_AddElement, FS_CardinalityType
<1>2. /\ IsFiniteSet(T) /\ Cardinality(T) \in Nat
      /\ Cardinality(T) <= Cardinality(S \cup {x})
  BY <1>1, FS_Subset, FS_CardinalityType
<1> QED
  BY <1>1, <1>2

LEMMA OneLess ==
  ASSUME NEW S, NEW T, NEW x \in S, IsFiniteSet(S), T \subseteq S \ {x}
  PROVE  /\ IsFiniteSet(T) /\ Cardinality(T) \in Nat /\ Cardinality(S) \in Nat
         /\ Cardinality(T) + 1 <= Cardinality(S)
<1>1. /\ IsFiniteSet(S \ {x}) /\ Cardinality(S) \in Nat
      /\ Cardinality(S \ {x}) = Cardinality(S) - 1
  BY FS_RemoveElement, FS_CardinalityType
<1>2. /\ IsFiniteSet(T) /\ Cardinality(T) \in Nat
      /\ Cardinality(T) <= Cardinality(S \ {x})
  BY <1>1, FS_Subset, FS_CardinalityType
<1> QED
  BY <1>1, <1>2

LEMMA RequestIs ==
  ASSUME LettersTypeOK, NEW a \in Agents
  PROVE  agent[a] \in Requests /\ agent \in [Agents -> Requests]
BY DEF LettersTypeOK, Requests

LEMMA DoneIs ==
  /\ Done \in Requests /\ Done.does = "done" /\ Done.todo = {} /\ Done.half = {}
  /\ NotYet \in Requests /\ NotYet.does = "nothing" /\ NotYet.todo = {} /\ NotYet.half = {}
BY DEF Done, NotYet, Requests

LEMMA HoldersFinite ==
  ASSUME NEW e
  PROVE  IsFiniteSet(Holders(e)) /\ Cardinality(Holders(e)) \in Nat
<1>1. Holders(e) \subseteq Agents
  BY DEF Holders
<1> QED
  BY <1>1, DeadLettersAssumption, Fewer

LEMMA FreeIs ==
  ASSUME NEW e
  PROVE  Free(e) \in 0..1
BY DEF Free

\* One request moves, and leaves erasures alone.
LEMMA ErasureKept ==
  ASSUME LettersInv, NEW a \in Agents, ~Does(a, "erase"), agent'[a].does # "erase",
         \A b \in Agents \ {a} : agent'[b] = agent[b],
         \A e \in Letters : letter[e] = "gone" => letter'[e] = "gone",
         UNCHANGED <<sending, unlogged, logged, erased, busy>>
  PROVE  EraseClear'
<1>1. \A b \in Agents : agent'[b].does = "erase" => Does(b, "erase") /\ agent'[b] = agent[b]
  BY DEF Does
<1>2. \A b \in Agents : agent'[b].does = "erase" => \A e \in agent[b].seen : e \in Letters
  BY <1>1, RequestIs DEF LettersInv, Requests
<1>3. erased \subseteq Letters
  BY DEF LettersInv, LettersTypeOK
<1>4. ASSUME NEW b \in Agents, Does(b, "erase")', NEW e \in agent'[b].seen \ Encrypted
      PROVE  /\ letter'[e] = "gone" \/ e \in agent'[b].half
             /\ Clear(e)' /\ (e \in logged' => e \in busy' \/ e \in agent'[b].todo)
  <2>1. Does(b, "erase") /\ agent'[b] = agent[b] /\ e \in Letters
    BY <1>1, <1>2, <1>4 DEF Does
  <2>2. /\ letter[e] = "gone" \/ e \in agent[b].half
        /\ Clear(e) /\ (e \in logged => e \in busy \/ e \in agent[b].todo)
    BY <1>4, <2>1 DEF LettersInv, EraseClear
  <2> QED
    BY <2>1, <2>2 DEF Clear
<1>5. \A e \in erased \ Encrypted : ErasedClear(e)'
  BY <1>3 DEF LettersInv, EraseClear, ErasedClear, Clear
<1> QED
  BY <1>4, <1>5 DEF EraseClear

LEMMA FindOnePreserves ==
  ASSUME LettersInv, NEW a \in Agents, NEW e \in Letters, FindOne(a, e)
  PROVE  LettersInv'
<1>1. /\ Does(a, "nothing") /\ asked' = [asked EXCEPT ![e] = @ + 1]
      /\ agent' = [agent EXCEPT ![a] = [does |-> "replay", todo |-> {e}, half |-> {}, seen |-> {}]]
      /\ UNCHANGED <<letter, queued, sending, unlogged, logged, erased, died, added, shared, dropped,
                     busy, stops>>
  BY DEF FindOne, Begin, eventVars
<1>2. PICK t \in Requests : /\ t = [does |-> "replay", todo |-> {e}, half |-> {}, seen |-> {}]
                            /\ t.does = "replay" /\ t.todo = {e} /\ t.half = {}
  <2> DEFINE t == [does |-> "replay", todo |-> {e}, half |-> {}, seen |-> {}]
  <2>1. t \in Requests
    BY DEF Requests
  <2> QED
    BY <2>1
<1>3. /\ agent' \in [Agents -> Requests] /\ agent'[a] = t
      /\ \A b \in Agents \ {a} : agent'[b] = agent[b]
  BY <1>1, <1>2, RequestIs DEF LettersInv
<1>4. /\ asked' \in [Letters -> Nat] /\ asked'[e] = asked[e] + 1
      /\ \A i \in Letters \ {e} : asked'[i] = asked[i]
  BY <1>1 DEF LettersInv, LettersTypeOK
<1>5. LettersTypeOK'
  BY <1>1, <1>3, <1>4 DEF LettersInv, LettersTypeOK, Requests
<1>6. PendingIsUnderWay'
  BY <1>1, <1>3 DEF LettersInv, PendingIsUnderWay, Replaying, Does
<1>7. Apart'
  BY <1>2, <1>3 DEF LettersInv, Apart, Replaying
<1>8. EraseClear'
  <2>1. ~Does(a, "erase") /\ agent'[a].does # "erase"
    BY <1>1, <1>2, <1>3 DEF Does
  <2> QED
    BY <1>1, <1>3, <2>1, ErasureKept
<1>9. JobsCovered'
  <2> SUFFICES ASSUME NEW i \in Letters \ shared
               PROVE  added[i] + Cardinality(Holders(i)') + Free(i)' <= died[i] + asked'[i]
    BY <1>1 DEF JobsCovered, Covered
  <2>1. Free(i)' = Free(i)
    <3>1. FoundBy(a) = {} /\ FoundBy(a)' = {}
      BY <1>1, <1>2, <1>3 DEF FoundBy, Does
    <3>2. \A b \in Agents \ {a} : FoundBy(b)' = FoundBy(b)
      BY <1>3 DEF FoundBy
    <3> QED
      BY <1>1, <3>1, <3>2 DEF Free
  <2>2. /\ added[i] + Cardinality(Holders(i)) + Free(i) <= died[i] + asked[i] /\ Free(i) \in 0..1
        /\ added[i] \in Nat /\ died[i] \in Nat /\ asked[i] \in Nat
    BY FreeIs DEF LettersInv, JobsCovered, Covered, LettersTypeOK
  <2>3. CASE i = e
    <3>1. Holders(i)' \subseteq Holders(i) \cup {a}
      BY <1>3 DEF Holders, Replaying
    <3>2. /\ Cardinality(Holders(i)') <= Cardinality(Holders(i)) + 1
          /\ Cardinality(Holders(i)') \in Nat /\ Cardinality(Holders(i)) \in Nat
      BY <3>1, HoldersFinite, OneMore
    <3> QED
      BY <1>4, <2>1, <2>2, <2>3, <3>2
  <2>4. CASE i # e
    <3>1. Holders(i)' \subseteq Holders(i)
      BY <1>2, <1>3, <2>4 DEF Holders, Replaying
    <3>2. /\ Cardinality(Holders(i)') <= Cardinality(Holders(i))
          /\ Cardinality(Holders(i)') \in Nat /\ Cardinality(Holders(i)) \in Nat
      BY <3>1, HoldersFinite, Fewer
    <3> QED
      BY <1>4, <2>1, <2>2, <2>4, <3>2
  <2> QED
    BY <2>3, <2>4
<1> QED
  BY <1>5, <1>6, <1>7, <1>8, <1>9 DEF LettersInv

LEMMA FindDeadPreserves ==
  ASSUME LettersInv, NEW a \in Agents, FindDead(a)
  PROVE  LettersInv'
<1>1. /\ Does(a, "nothing") \/ (Does(a, "all") /\ agent[a].todo \cup agent[a].half = {})
      /\ UNCHANGED <<letter, queued, sending, unlogged, logged, erased, died, asked, added, dropped,
                     busy, stops>>
  BY DEF FindDead, eventVars
<1>2. PICK rows \in SUBSET Dead, t \in Requests :
        /\ agent' = [agent EXCEPT ![a] = t]
        /\ t.todo = rows /\ t.half = {} /\ t.does \in {"all", "done"} /\ (t.does = "done" => rows = {})
        /\ shared' = shared \cup (rows \cap UNION {FoundBy(b) : b \in Agents})
  <2>1. CASE Dead = {} /\ agent' = [agent EXCEPT ![a] = Done] /\ UNCHANGED shared
    <3>1. {} \in SUBSET Dead /\ shared' = shared \cup ({} \cap UNION {FoundBy(b) : b \in Agents})
      BY <2>1
    <3> QED
      BY <2>1, <3>1, DoneIs
  <2>2. CASE \E rows \in SUBSET Dead :
               /\ Begin(a, "all", rows, {}, rows)
               /\ shared' = shared \cup (rows \cap UNION {FoundBy(b) : b \in Agents})
    <3>1. PICK rows \in SUBSET Dead :
            /\ agent' = [agent EXCEPT ![a] = [does |-> "all", todo |-> rows, half |-> {}, seen |-> rows]]
            /\ shared' = shared \cup (rows \cap UNION {FoundBy(b) : b \in Agents})
      BY <2>2 DEF Begin
    <3>2. [does |-> "all", todo |-> rows, half |-> {}, seen |-> rows] \in Requests
      BY DEF Requests, Dead
    <3> QED
      BY <3>1, <3>2
  <2> QED
    BY <2>1, <2>2 DEF FindDead
<1>3. /\ agent' \in [Agents -> Requests] /\ agent'[a] = t
      /\ \A b \in Agents \ {a} : agent'[b] = agent[b]
  BY <1>2, RequestIs DEF LettersInv
<1>4. rows \subseteq Letters /\ \A e \in rows : letter[e] = "dead"
  BY DEF Dead
<1>5. LettersTypeOK'
  BY <1>1, <1>2, <1>3, <1>4 DEF LettersInv, LettersTypeOK, Requests
<1>6. PendingIsUnderWay'
  BY <1>1, <1>3 DEF LettersInv, PendingIsUnderWay, Replaying, Does
<1>7. Apart'
  BY <1>2, <1>3 DEF LettersInv, Apart, Replaying
<1>8. EraseClear'
  <2>1. ~Does(a, "erase") /\ agent'[a].does # "erase"
    BY <1>1, <1>2, <1>3 DEF Does
  <2> QED
    BY <1>1, <1>3, <2>1, ErasureKept
<1>9. JobsCovered'
  <2> SUFFICES ASSUME NEW i \in Letters \ shared'
               PROVE  added[i] + Cardinality(Holders(i)') + Free(i)' <= died[i] + asked[i]
    BY <1>1 DEF JobsCovered, Covered
  <2>1. i \notin shared
    BY <1>2
  <2>2. FoundBy(a) = {} /\ FoundBy(a)' = rows /\ \A b \in Agents \ {a} : FoundBy(b)' = FoundBy(b)
    BY <1>1, <1>2, <1>3 DEF FoundBy, Does
  <2>3. /\ added[i] + Cardinality(Holders(i)) + Free(i) <= died[i] + asked[i]
        /\ added[i] \in Nat /\ died[i] \in Nat /\ asked[i] \in Nat
    BY <2>1 DEF LettersInv, JobsCovered, Covered, LettersTypeOK
  <2>4. CASE i \in rows
    <3>1. Free(i) = 1
      <4>1. \A b \in Agents : i \notin FoundBy(b)
        BY <1>2, <2>4
      <4> QED
        BY <1>4, <2>4, <4>1 DEF Free
    <3>2. Free(i)' = 0
      BY <2>2, <2>4 DEF Free
    <3>3. Holders(i)' \subseteq Holders(i) \cup {a}
      BY <1>3 DEF Holders, Replaying
    <3>4. /\ Cardinality(Holders(i)') <= Cardinality(Holders(i)) + 1
          /\ Cardinality(Holders(i)') \in Nat /\ Cardinality(Holders(i)) \in Nat
      BY <3>3, HoldersFinite, OneMore
    <3> QED
      BY <2>3, <3>1, <3>2, <3>4
  <2>5. CASE i \notin rows
    <3>1. Free(i)' = Free(i) /\ Free(i) \in 0..1
      BY <1>1, <2>2, <2>5, FreeIs DEF Free
    <3>2. Holders(i)' \subseteq Holders(i)
      BY <1>2, <1>3, <2>5 DEF Holders, Replaying
    <3>3. /\ Cardinality(Holders(i)') <= Cardinality(Holders(i))
          /\ Cardinality(Holders(i)') \in Nat /\ Cardinality(Holders(i)) \in Nat
      BY <3>2, HoldersFinite, Fewer
    <3> QED
      BY <2>3, <3>1, <3>3
  <2> QED
    BY <2>4, <2>5
<1> QED
  BY <1>5, <1>6, <1>7, <1>8, <1>9 DEF LettersInv

\* Neither a job nor a claim is added.
LEMMA CoverKept ==
  ASSUME LettersInv, NEW i \in Letters \ shared, Holders(i)' \subseteq Holders(i),
         Free(i)' = 1 => Free(i) = 1,
         added'[i] = added[i], died'[i] = died[i], asked'[i] = asked[i]
  PROVE  Covered(i)'
<1>1. /\ added[i] + Cardinality(Holders(i)) + Free(i) <= died[i] + asked[i]
      /\ added[i] \in Nat /\ died[i] \in Nat /\ asked[i] \in Nat
  BY DEF LettersInv, JobsCovered, Covered, LettersTypeOK
<1>2. /\ Cardinality(Holders(i)') <= Cardinality(Holders(i))
      /\ Cardinality(Holders(i)') \in Nat /\ Cardinality(Holders(i)) \in Nat
  BY HoldersFinite, Fewer
<1>3. Free(i) \in 0..1 /\ Free(i)' \in 0..1
  BY DEF Free
<1>4. Free(i)' <= Free(i)
  BY <1>3
<1>5. added'[i] + Cardinality(Holders(i)') + Free(i)' <= died'[i] + asked'[i]
  BY <1>1, <1>2, <1>3, <1>4
<1> QED
  BY <1>5 DEF Covered

LEMMA ResetPreserves ==
  ASSUME LettersInv, NEW a \in Agents, NEW e \in Letters, ResetStatus(a, e)
  PROVE  LettersInv'
<1>1. /\ Replaying(a) /\ e \in agent[a].todo
      /\ letter' = IF e \in Stored THEN [letter EXCEPT ![e] = "pending"] ELSE letter
      /\ agent' = [agent EXCEPT ![a].todo = @ \ {e}, ![a].half = @ \cup {e}]
      /\ dropped' = dropped \ {e}
      /\ UNCHANGED <<queued, sending, unlogged, logged, erased, died, asked, added, shared, busy,
                     stops>>
  BY DEF ResetStatus
<1>2. PICK r \in Requests : r = agent[a]
  BY RequestIs DEF LettersInv
<1>3. PICK t \in Requests : /\ t = [r EXCEPT !.todo = r.todo \ {e}, !.half = r.half \cup {e}]
                            /\ t.does = r.does /\ t.todo = r.todo \ {e} /\ t.half = r.half \cup {e}
  <2> DEFINE t == [r EXCEPT !.todo = r.todo \ {e}, !.half = r.half \cup {e}]
  <2>1. r \in [does : {"nothing", "replay", "all", "rest", "erase", "done"},
               todo : SUBSET Letters, half : SUBSET Letters, seen : SUBSET Letters]
    BY DEF Requests
  <2>2. /\ t \in [does : {"nothing", "replay", "all", "rest", "erase", "done"},
                  todo : SUBSET Letters, half : SUBSET Letters, seen : SUBSET Letters]
        /\ t.does = r.does /\ t.todo = r.todo \ {e} /\ t.half = r.half \cup {e}
    BY <2>1
  <2> HIDE DEF t
  <2>3. t \in Requests
    BY <2>2 DEF Requests
  <2> QED
    BY <2>2, <2>3 DEF t
<1>4. agent' = [agent EXCEPT ![a] = t]
  BY <1>1, <1>2, <1>3
<1>5. /\ agent' \in [Agents -> Requests] /\ agent'[a] = t
      /\ \A b \in Agents \ {a} : agent'[b] = agent[b]
  BY <1>4, RequestIs DEF LettersInv
<1>6. /\ letter' \in [Letters -> LetterStatus] /\ letter'[e] \in {"pending", "gone"}
      /\ \A i \in Letters \ {e} : letter'[i] = letter[i]
      /\ letter[e] = "gone" => letter'[e] = "gone"
  BY <1>1 DEF LettersInv, LettersTypeOK, Stored, LetterStatus
<1>7. LettersTypeOK'
  BY <1>1, <1>5, <1>6 DEF LettersInv, LettersTypeOK, Requests, LetterStatus
<1>8. PendingIsUnderWay'
  <2> SUFFICES ASSUME NEW i \in Letters, letter'[i] = "pending"
               PROVE  queued[i] > 0 \/ i \in sending \cup dropped'
                        \/ \E b \in Agents : Replaying(b)' /\ i \in agent'[b].half
    BY <1>1 DEF PendingIsUnderWay
  <2>1. CASE i = e
    BY <1>1, <1>2, <1>3, <1>5, <2>1 DEF Replaying
  <2>2. CASE i # e
    <3>1. queued[i] > 0 \/ i \in sending \cup dropped
            \/ \E b \in Agents : Replaying(b) /\ i \in agent[b].half
      BY <1>6, <2>2 DEF LettersInv, PendingIsUnderWay
    <3>2. \A b \in Agents : /\ agent'[b].does = agent[b].does
                            /\ agent[b].half \subseteq agent'[b].half
      BY <1>2, <1>3, <1>5
    <3> QED
      BY <1>1, <2>2, <3>1, <3>2 DEF Replaying
  <2> QED
    BY <2>1, <2>2
<1>9. Apart'
  BY <1>2, <1>3, <1>5 DEF LettersInv, Apart, Replaying
<1>10. EraseClear'
  <2>1. ~Does(a, "erase") /\ agent'[a].does # "erase"
    BY <1>1, <1>2, <1>3, <1>5 DEF Does, Replaying
  <2> QED
    BY <1>1, <1>5, <1>6, <2>1, ErasureKept
<1>11. JobsCovered'
  <2> SUFFICES ASSUME NEW i \in Letters \ shared
               PROVE  Covered(i)'
    BY <1>1 DEF JobsCovered
  <2>1. Holders(i)' \subseteq Holders(i)
    BY <1>1, <1>2, <1>3, <1>5 DEF Holders, Replaying
  <2>2. Free(i)' = 1 => Free(i) = 1
    <3>1. CASE i = e
      BY <1>6, <3>1 DEF Free
    <3>2. CASE i # e
      <4>1. \A b \in Agents : i \in FoundBy(b) => i \in FoundBy(b)'
        BY <1>2, <1>3, <1>5, <3>2 DEF FoundBy
      <4> QED
        BY <1>6, <3>2, <4>1 DEF Free
    <3> QED
      BY <3>1, <3>2
  <2> QED
    BY <1>1, <2>1, <2>2, CoverKept
<1> QED
  BY <1>7, <1>8, <1>9, <1>10, <1>11 DEF LettersInv

\* A request is through with the job of one event.
LEMMA AddPreserves ==
  ASSUME LettersInv, NEW a \in Agents, NEW e \in Letters, AddToQueue(a, e)
  PROVE  LettersInv'
<1>1. /\ Replaying(a) /\ e \in agent[a].half /\ Took(a, e)
      /\ queued' = [queued EXCEPT ![e] = @ + 1] /\ added' = [added EXCEPT ![e] = @ + 1]
      /\ UNCHANGED <<letter, sending, unlogged, logged, erased, died, asked, shared, dropped, busy,
                     stops>>
  BY DEF AddToQueue
<1>2. PICK r \in Requests : r = agent[a]
  BY RequestIs DEF LettersInv
<1>3. PICK t \in Requests :
        /\ agent' = [agent EXCEPT ![a] = t]
        /\ t.todo = r.todo /\ t.half = r.half \ {e}
        /\ t.does = r.does \/ (t.does = "done" /\ t.todo = {} /\ t.half = {})
  <2> DEFINE u == [r EXCEPT !.half = r.half \ {e}]
  <2>1. r \in [does : {"nothing", "replay", "all", "rest", "erase", "done"},
               todo : SUBSET Letters, half : SUBSET Letters, seen : SUBSET Letters]
    BY DEF Requests
  <2>2. /\ u \in [does : {"nothing", "replay", "all", "rest", "erase", "done"},
                  todo : SUBSET Letters, half : SUBSET Letters, seen : SUBSET Letters]
        /\ u.does = r.does /\ u.todo = r.todo /\ u.half = r.half \ {e}
    BY <2>1
  <2>3. u \in Requests
    BY <2>2 DEF Requests
  <2>4. agent' = [agent EXCEPT ![a] = IF Finished(u) THEN Done ELSE u]
    BY <1>1, <1>2 DEF Took
  <2>5. Finished(u) => u.todo = {} /\ u.half = {}
    BY DEF Finished
  <2> HIDE DEF u
  <2>6. CASE Finished(u)
    BY <2>2, <2>4, <2>5, <2>6, DoneIs
  <2>7. CASE ~Finished(u)
    <3>1. agent' = [agent EXCEPT ![a] = u]
      BY <2>4, <2>7
    <3> QED
      BY <2>2, <2>3, <3>1
  <2> QED
    BY <2>6, <2>7
<1>5. /\ agent' \in [Agents -> Requests] /\ agent'[a] = t
      /\ \A b \in Agents \ {a} : agent'[b] = agent[b]
  BY <1>3, RequestIs DEF LettersInv
<1>6. /\ queued' \in [Letters -> Nat] /\ queued'[e] > 0
      /\ \A i \in Letters \ {e} : queued'[i] = queued[i]
      /\ added' \in [Letters -> Nat] /\ added'[e] = added[e] + 1
      /\ \A i \in Letters \ {e} : added'[i] = added[i]
  BY <1>1 DEF LettersInv, LettersTypeOK
<1>7. LettersTypeOK'
  BY <1>1, <1>5, <1>6 DEF LettersInv, LettersTypeOK, Requests
<1>8. PendingIsUnderWay'
  <2> SUFFICES ASSUME NEW i \in Letters, letter[i] = "pending"
               PROVE  queued'[i] > 0 \/ i \in sending \cup dropped
                        \/ \E b \in Agents : Replaying(b)' /\ i \in agent'[b].half
    BY <1>1 DEF PendingIsUnderWay
  <2>1. CASE i = e
    BY <1>6, <2>1
  <2>2. CASE i # e
    BY <1>2, <1>3, <1>5, <1>6, <2>2 DEF LettersInv, PendingIsUnderWay, Replaying
  <2> QED
    BY <2>1, <2>2
<1>9. Apart'
  BY <1>2, <1>3, <1>5 DEF LettersInv, Apart, Replaying
<1>10. EraseClear'
  <2>1. ~Does(a, "erase") /\ agent'[a].does # "erase"
    BY <1>1, <1>2, <1>3, <1>5 DEF Does, Replaying
  <2> QED
    BY <1>1, <1>5, <2>1, ErasureKept
<1>11. JobsCovered'
  <2> SUFFICES ASSUME NEW i \in Letters \ shared
               PROVE  Covered(i)'
    BY <1>1 DEF JobsCovered
  <2>1. Free(i)' = Free(i)
    <3>1. \A b \in Agents : FoundBy(b)' = FoundBy(b)
      BY <1>2, <1>3, <1>5 DEF FoundBy
    <3> QED
      BY <1>1, <3>1 DEF Free
  <2>2. Holders(i)' \subseteq Holders(i)
    BY <1>1, <1>2, <1>3, <1>5 DEF Holders, Replaying
  <2>3. CASE i # e
    BY <1>1, <1>6, <2>1, <2>2, <2>3, CoverKept
  <2>4. CASE i = e
    <3>1. a \in Holders(i)
      BY <1>1, <2>4 DEF Holders
    <3>2. a \notin Holders(i)'
      BY <1>1, <1>2, <1>3, <1>5, <2>4 DEF Holders, Replaying, LettersInv, Apart
    <3>3. /\ Cardinality(Holders(i)') + 1 <= Cardinality(Holders(i))
          /\ Cardinality(Holders(i)') \in Nat /\ Cardinality(Holders(i)) \in Nat
      <4>1. Holders(i)' \subseteq Holders(i) \ {a}
        BY <2>2, <3>2
      <4> QED
        BY <3>1, <4>1, HoldersFinite, OneLess
    <3>4. /\ added[i] + Cardinality(Holders(i)) + Free(i) <= died[i] + asked[i] /\ Free(i) \in 0..1
          /\ added[i] \in Nat /\ died[i] \in Nat /\ asked[i] \in Nat
      BY FreeIs DEF LettersInv, JobsCovered, Covered, LettersTypeOK
    <3>5. added'[i] + Cardinality(Holders(i)') + Free(i)' <= died[i] + asked[i]
      BY <1>6, <2>1, <2>4, <3>3, <3>4
    <3> QED
      BY <1>1, <3>5 DEF Covered
  <2> QED
    BY <2>3, <2>4
<1> QED
  BY <1>7, <1>8, <1>9, <1>10, <1>11 DEF LettersInv

LEMMA QueueFailsPreserves ==
  ASSUME LettersInv, NEW a \in Agents, NEW e \in Letters, QueueFails(a, e)
  PROVE  LettersInv'
<1>1. /\ Replaying(a) /\ e \in agent[a].half
      /\ stops < MaxStopped /\ stops' = stops + 1 /\ dropped' = dropped \cup {e}
      /\ UNCHANGED <<letter, queued, sending, unlogged, logged, erased, died, asked, added, shared,
                     busy>>
  BY DEF QueueFails, eventVars
<1>2. PICK r \in Requests : r = agent[a]
  BY RequestIs DEF LettersInv
<1>3. PICK t \in Requests :
        /\ agent' = [agent EXCEPT ![a] = t]
        /\ t.todo = r.todo /\ t.half = r.half \ {e}
        /\ t.does = IF r.does = "all" THEN "rest" ELSE r.does
  <2> DEFINE k == IF r.does = "all" THEN "rest" ELSE r.does
             u == [r EXCEPT !.half = r.half \ {e}, !.seen = {}, !.does = k]
  <2>1. r \in [does : {"nothing", "replay", "all", "rest", "erase", "done"},
               todo : SUBSET Letters, half : SUBSET Letters, seen : SUBSET Letters]
    BY DEF Requests
  <2>2. k \in {"nothing", "replay", "all", "rest", "erase", "done"}
    BY <2>1
  <2>3. agent' = [agent EXCEPT ![a] = u]
    BY <1>2 DEF QueueFails
  <2> HIDE DEF k
  <2>4. /\ u \in [does : {"nothing", "replay", "all", "rest", "erase", "done"},
                  todo : SUBSET Letters, half : SUBSET Letters, seen : SUBSET Letters]
        /\ u.does = k /\ u.todo = r.todo /\ u.half = r.half \ {e}
    BY <2>1, <2>2
  <2>5. u \in Requests
    BY <2>4 DEF Requests
  <2> HIDE DEF u
  <2> QED
    BY <2>3, <2>4, <2>5 DEF k
<1>5. /\ agent' \in [Agents -> Requests] /\ agent'[a] = t
      /\ \A b \in Agents \ {a} : agent'[b] = agent[b]
  BY <1>3, RequestIs DEF LettersInv
<1>6. \A b \in Agents : /\ Replaying(b)' <=> Replaying(b)
                        /\ FoundBy(b)' = FoundBy(b)
                        /\ agent'[b].todo = agent[b].todo /\ agent'[b].half \subseteq agent[b].half
                        /\ agent[b].half \subseteq agent'[b].half \cup {e}
  BY <1>1, <1>2, <1>3, <1>5 DEF Replaying, FoundBy
<1>7. LettersTypeOK'
  <2>1. stops' \in 0..MaxStopped
    BY <1>1, DeadLettersAssumption DEF LettersInv, LettersTypeOK
  <2> QED
    BY <1>1, <1>5, <2>1 DEF LettersInv, LettersTypeOK, Requests
<1>8. PendingIsUnderWay'
  <2> SUFFICES ASSUME NEW i \in Letters, letter[i] = "pending"
               PROVE  queued[i] > 0 \/ i \in sending \cup dropped'
                        \/ \E b \in Agents : Replaying(b)' /\ i \in agent'[b].half
    BY <1>1 DEF PendingIsUnderWay
  <2>1. queued[i] > 0 \/ i \in sending \cup dropped
          \/ \E b \in Agents : Replaying(b) /\ i \in agent[b].half
    BY DEF LettersInv, PendingIsUnderWay
  <2> QED
    BY <1>1, <1>6, <2>1
<1>9. Apart'
  BY <1>6 DEF LettersInv, Apart
<1>10. EraseClear'
  <2>1. ~Does(a, "erase") /\ agent'[a].does # "erase"
    BY <1>1, <1>2, <1>3, <1>5 DEF Does, Replaying
  <2> QED
    BY <1>1, <1>5, <2>1, ErasureKept
<1>11. JobsCovered'
  <2> SUFFICES ASSUME NEW i \in Letters \ shared
               PROVE  Covered(i)'
    BY <1>1 DEF JobsCovered
  <2>1. Free(i)' = Free(i)
    BY <1>1, <1>6 DEF Free
  <2>2. Holders(i)' \subseteq Holders(i)
    BY <1>6 DEF Holders
  <2> QED
    BY <1>1, <2>1, <2>2, CoverKept
<1> QED
  BY <1>7, <1>8, <1>9, <1>10, <1>11 DEF LettersInv

LEMMA StopPreserves ==
  ASSUME LettersInv, StopAgents
  PROVE  LettersInv'
<1>1. /\ stops < MaxStopped /\ stops' = stops + 1
      /\ dropped' = dropped \cup UNION {agent[a].half : a \in Agents}
      /\ agent' = [a \in Agents |-> IF Does(a, "nothing") THEN NotYet ELSE Done]
      /\ UNCHANGED <<letter, queued, sending, unlogged, logged, erased, died, asked, added, shared,
                     busy>>
  BY DEF StopAgents, eventVars
<1>2. /\ agent' \in [Agents -> Requests]
      /\ \A a \in Agents : agent'[a].does \in {"nothing", "done"} /\ agent'[a].todo = {}
  BY <1>1, DoneIs
<1>3. \A a \in Agents : agent[a].half \subseteq Letters
  BY RequestIs DEF LettersInv, Requests
<1>4. LettersTypeOK'
  <2>1. stops' \in 0..MaxStopped
    BY <1>1, DeadLettersAssumption DEF LettersInv, LettersTypeOK
  <2>2. dropped' \subseteq Letters
    BY <1>1, <1>3 DEF LettersInv, LettersTypeOK
  <2> QED
    BY <1>1, <1>2, <2>1, <2>2 DEF LettersInv, LettersTypeOK, Requests
<1>5. PendingIsUnderWay'
  BY <1>1 DEF LettersInv, PendingIsUnderWay
<1>6. Apart'
  BY <1>2 DEF Apart, Replaying
<1>7. EraseClear'
  BY <1>1, <1>2 DEF LettersInv, EraseClear, ErasedClear, Clear, Does
<1>8. JobsCovered'
  <2> SUFFICES ASSUME NEW i \in Letters \ shared
               PROVE  added[i] + Cardinality(Holders(i)') + Free(i)' <= died[i] + asked[i]
    BY <1>1 DEF JobsCovered, Covered
  <2>1. Holders(i)' = {}
    BY <1>2 DEF Holders, Replaying
  <2>2. Cardinality(Holders(i)') = 0
    BY <2>1, FS_EmptySet
  <2>3. /\ added[i] + Cardinality(Holders(i)) + Free(i) <= died[i] + asked[i] /\ Free(i) \in 0..1
        /\ added[i] \in Nat /\ died[i] \in Nat /\ asked[i] \in Nat
        /\ Cardinality(Holders(i)) \in Nat /\ Free(i)' \in 0..1
    BY FreeIs, HoldersFinite DEF LettersInv, JobsCovered, Covered, LettersTypeOK, Free
  <2>4. CASE Free(i)' = 1 /\ Free(i) = 0
    <3>1. letter[i] = "dead" /\ \E b \in Agents : i \in FoundBy(b)
      BY <1>1, <2>4 DEF Free
    <3>2. PICK b \in Agents : b \in Holders(i)
      BY <3>1 DEF FoundBy, Holders, Replaying
    <3>3. 1 <= Cardinality(Holders(i))
      <4>1. Cardinality({}) + 1 <= Cardinality(Holders(i))
        <5>1. {} \subseteq Holders(i) \ {b}
          OBVIOUS
        <5> QED
          BY <3>2, <5>1, HoldersFinite, OneLess
      <4> QED
        BY <4>1, FS_EmptySet
    <3> QED
      BY <2>2, <2>3, <2>4, <3>3
  <2>5. CASE Free(i)' = 0 \/ Free(i) = 1
    BY <2>2, <2>3, <2>5
  <2> QED
    BY <2>3, <2>4, <2>5
<1> QED
  BY <1>4, <1>5, <1>6, <1>7, <1>8 DEF LettersInv

\* One request moves that replays nothing, and no event dies.
LEMMA ReplaysKept ==
  ASSUME LettersInv, NEW a \in Agents, ~Replaying(a), ~Replaying(a)',
         \A b \in Agents \ {a} : agent'[b] = agent[b],
         \A e \in Letters : letter'[e] = letter[e] \/ letter'[e] = "gone",
         UNCHANGED <<queued, sending, added, died, asked, shared, dropped>>
  PROVE  PendingIsUnderWay' /\ Apart' /\ JobsCovered'
<1>1. \A b \in Agents : Replaying(b) => b # a /\ agent'[b] = agent[b] /\ Replaying(b)'
  BY DEF Replaying
<1>2. \A b \in Agents : Replaying(b)' => b # a /\ agent'[b] = agent[b] /\ Replaying(b)
  BY DEF Replaying
<1>3. PendingIsUnderWay'
  <2> SUFFICES ASSUME NEW i \in Letters, letter'[i] = "pending"
               PROVE  queued[i] > 0 \/ i \in sending \cup dropped
                        \/ \E b \in Agents : Replaying(b)' /\ i \in agent'[b].half
    BY DEF PendingIsUnderWay
  <2>1. queued[i] > 0 \/ i \in sending \cup dropped
          \/ \E b \in Agents : Replaying(b) /\ i \in agent[b].half
    BY DEF LettersInv, PendingIsUnderWay
  <2> QED
    BY <1>1, <2>1
<1>4. Apart'
  BY <1>2 DEF LettersInv, Apart
<1>5. JobsCovered'
  <2> SUFFICES ASSUME NEW i \in Letters \ shared
               PROVE  Covered(i)'
    BY DEF JobsCovered
  <2>1. \A b \in Agents : FoundBy(b) \subseteq FoundBy(b)'
    BY <1>1 DEF FoundBy, Replaying
  <2>2. Free(i)' = 1 => Free(i) = 1
    BY <2>1 DEF Free
  <2>3. Holders(i)' \subseteq Holders(i)
    BY <1>2 DEF Holders
  <2> QED
    BY <2>2, <2>3, CoverKept
<1> QED
  BY <1>3, <1>4, <1>5

LEMMA FindCustomerPreserves ==
  ASSUME LettersInv, NEW a \in Agents, FindCustomer(a)
  PROVE  LettersInv'
<1>1. /\ Does(a, "nothing") /\ busy' = busy \cup ((sending \cup unlogged) \ Encrypted)
      /\ UNCHANGED <<letter, queued, sending, unlogged, logged, erased, died, asked, added, shared,
                     dropped, stops>>
  BY DEF FindCustomer, eventVars
<1>2. PICK t \in Requests :
        /\ agent' = [agent EXCEPT ![a] = t]
        /\ t.does = "erase" /\ t.todo = Stored \ Encrypted /\ t.half = Stored \ Encrypted
        /\ t.seen = Stored
  <2> DEFINE t == [does |-> "erase", todo |-> Stored \ Encrypted, half |-> Stored \ Encrypted,
                   seen |-> Stored]
  <2>1. t \in Requests
    BY DEF Requests, Stored
  <2>2. agent' = [agent EXCEPT ![a] = t]
    BY DEF FindCustomer, Begin
  <2> QED
    BY <2>1, <2>2
<1>3. /\ agent' \in [Agents -> Requests] /\ agent'[a] = t
      /\ \A b \in Agents \ {a} : agent'[b] = agent[b]
  BY <1>2, RequestIs DEF LettersInv
<1>4. LettersTypeOK'
  BY <1>1, <1>3 DEF LettersInv, LettersTypeOK, Requests
<1>5. PendingIsUnderWay' /\ Apart' /\ JobsCovered'
  <2>1. ~Replaying(a) /\ ~Replaying(a)'
    BY <1>1, <1>2, <1>3 DEF Replaying, Does
  <2> QED
    BY <1>1, <1>3, <2>1, ReplaysKept
<1>6. EraseClear'
  <2>1. ASSUME NEW b \in Agents, Does(b, "erase")', NEW e \in agent'[b].seen \ Encrypted
        PROVE  /\ letter[e] = "gone" \/ e \in agent'[b].half
               /\ Clear(e)' /\ (e \in logged => e \in busy' \/ e \in agent'[b].todo)
    <3>1. CASE b = a
      BY <1>1, <1>2, <1>3, <2>1, <3>1 DEF Clear
    <3>2. CASE b # a
      BY <1>1, <1>3, <2>1, <3>2 DEF LettersInv, EraseClear, Clear, Does
    <3> QED
      BY <3>1, <3>2
  <2>2. \A e \in erased \ Encrypted : ErasedClear(e)'
    BY <1>1 DEF LettersInv, EraseClear, ErasedClear, Clear
  <2> QED
    BY <1>1, <2>1, <2>2 DEF EraseClear
<1> QED
  BY <1>4, <1>5, <1>6 DEF LettersInv

\* The logs and the events of a customer go, in either order.
LEMMA ErasePreserves ==
  ASSUME LettersInv, NEW a \in Agents, EraseLogs(a) \/ EraseEvents(a)
  PROVE  LettersInv'
<1>1. /\ Does(a, "erase")
      /\ UNCHANGED <<queued, sending, unlogged, erased, died, asked, added, shared, dropped, busy, stops>>
  BY DEF EraseLogs, EraseEvents, letterHistory
<1>2. PICK r \in Requests : r = agent[a]
  BY RequestIs DEF LettersInv
<1>3. PICK t \in Requests :
        /\ agent' = [agent EXCEPT ![a] = t] /\ t.does = r.does /\ t.seen = r.seen
        /\ \/ /\ t.todo = {} /\ t.half = r.half /\ logged' = logged \ r.todo /\ letter' = letter
           \/ /\ t.todo = r.todo /\ t.half = {} /\ logged' = logged
              /\ letter' = [e \in Letters |-> IF e \in r.half THEN "gone" ELSE letter[e]]
  <2>1. r \in [does : {"nothing", "replay", "all", "rest", "erase", "done"},
               todo : SUBSET Letters, half : SUBSET Letters, seen : SUBSET Letters]
    BY DEF Requests
  <2>2. CASE EraseLogs(a)
    <3> DEFINE u == [r EXCEPT !.todo = {}]
    <3>1. /\ u \in [does : {"nothing", "replay", "all", "rest", "erase", "done"},
                    todo : SUBSET Letters, half : SUBSET Letters, seen : SUBSET Letters]
          /\ u.does = r.does /\ u.todo = {} /\ u.half = r.half /\ u.seen = r.seen
      BY <2>1
    <3>2. agent' = [agent EXCEPT ![a] = u] /\ logged' = logged \ r.todo /\ letter' = letter
      BY <1>2, <2>2 DEF EraseLogs
    <3>3. u \in Requests
      BY <3>1 DEF Requests
    <3> HIDE DEF u
    <3> QED
      BY <3>1, <3>2, <3>3
  <2>3. CASE EraseEvents(a)
    <3> DEFINE u == [r EXCEPT !.half = {}]
    <3>1. /\ u \in [does : {"nothing", "replay", "all", "rest", "erase", "done"},
                    todo : SUBSET Letters, half : SUBSET Letters, seen : SUBSET Letters]
          /\ u.does = r.does /\ u.half = {} /\ u.todo = r.todo /\ u.seen = r.seen
      BY <2>1
    <3>2. /\ agent' = [agent EXCEPT ![a] = u] /\ logged' = logged
          /\ letter' = [e \in Letters |-> IF e \in r.half THEN "gone" ELSE letter[e]]
      BY <1>2, <2>3 DEF EraseEvents
    <3>3. u \in Requests
      BY <3>1 DEF Requests
    <3> HIDE DEF u
    <3> QED
      BY <3>1, <3>2, <3>3
  <2> QED
    BY <2>2, <2>3
<1>4. /\ agent' \in [Agents -> Requests] /\ agent'[a] = t
      /\ \A b \in Agents \ {a} : agent'[b] = agent[b]
  BY <1>3, RequestIs DEF LettersInv
<1>5. /\ letter' \in [Letters -> LetterStatus]
      /\ \A e \in Letters : letter'[e] = letter[e] \/ letter'[e] = "gone"
      /\ \A e \in Letters : letter[e] = "gone" => letter'[e] = "gone"
  BY <1>3 DEF LettersInv, LettersTypeOK, LetterStatus
<1>6. LettersTypeOK'
  BY <1>1, <1>3, <1>4, <1>5 DEF LettersInv, LettersTypeOK, Requests, LetterStatus
<1>7. PendingIsUnderWay' /\ Apart' /\ JobsCovered'
  <2>1. ~Replaying(a) /\ ~Replaying(a)'
    BY <1>1, <1>2, <1>3, <1>4 DEF Replaying, Does
  <2> QED
    BY <1>1, <1>4, <1>5, <2>1, ReplaysKept
<1>8. logged' \subseteq logged
  BY <1>3
<1>9. EraseClear'
  <2>1. ASSUME NEW b \in Agents, Does(b, "erase")', NEW e \in agent'[b].seen \ Encrypted
        PROVE  /\ letter'[e] = "gone" \/ e \in agent'[b].half
               /\ Clear(e)' /\ (e \in logged' => e \in busy \/ e \in agent'[b].todo)
    <3>1. Does(b, "erase") /\ e \in agent[b].seen \ Encrypted /\ e \in Letters
      BY <1>1, <1>2, <1>3, <1>4, <2>1, RequestIs DEF Does, LettersInv, Requests
    <3>2. /\ letter[e] = "gone" \/ e \in agent[b].half
          /\ Clear(e) /\ (e \in logged => e \in busy \/ e \in agent[b].todo)
      BY <3>1 DEF LettersInv, EraseClear
    <3>3. Clear(e)'
      BY <1>1, <3>2 DEF Clear
    <3>4. CASE b = a
      <4>1. CASE t.todo = {} /\ t.half = r.half /\ logged' = logged \ r.todo /\ letter' = letter
        BY <1>2, <1>4, <3>2, <3>3, <3>4, <4>1
      <4>2. CASE /\ t.todo = r.todo /\ t.half = {} /\ logged' = logged
                 /\ letter' = [i \in Letters |-> IF i \in r.half THEN "gone" ELSE letter[i]]
        BY <1>2, <1>4, <3>1, <3>2, <3>3, <3>4, <4>2
      <4> QED
        BY <1>3, <4>1, <4>2
    <3>5. CASE b # a
      BY <1>4, <1>5, <1>8, <3>1, <3>2, <3>3, <3>5
    <3> QED
      BY <3>4, <3>5
  <2>2. \A e \in erased \ Encrypted : ErasedClear(e)'
    <3>1. \A e \in erased : e \in Letters
      BY DEF LettersInv, LettersTypeOK
    <3> QED
      BY <1>1, <1>5, <1>8, <3>1 DEF LettersInv, EraseClear, ErasedClear, Clear
  <2> QED
    BY <1>1, <2>1, <2>2 DEF EraseClear
<1> QED
  BY <1>6, <1>7, <1>9 DEF LettersInv

LEMMA EraseEndsPreserves ==
  ASSUME LettersInv, NEW a \in Agents, EraseEnds(a)
  PROVE  LettersInv'
<1>1. /\ Does(a, "erase") /\ agent[a].todo = {} /\ agent[a].half = {}
      /\ erased' = erased \cup agent[a].seen /\ agent' = [agent EXCEPT ![a] = Done]
      /\ UNCHANGED <<letter, queued, sending, unlogged, logged, died, asked, added, shared, dropped, busy,
                     stops>>
  BY DEF EraseEnds, eventVars
<1>2. /\ agent' \in [Agents -> Requests] /\ agent'[a] = Done /\ Done.does = "done"
      /\ \A b \in Agents \ {a} : agent'[b] = agent[b]
  BY <1>1, DoneIs, RequestIs DEF LettersInv
<1>3. LettersTypeOK'
  <2>1. agent[a].seen \subseteq Letters
    BY RequestIs DEF LettersInv, Requests
  <2> QED
    BY <1>1, <1>2, <2>1 DEF LettersInv, LettersTypeOK, Requests
<1>4. PendingIsUnderWay' /\ Apart' /\ JobsCovered'
  <2>1. ~Replaying(a) /\ ~Replaying(a)'
    BY <1>1, <1>2 DEF Replaying, Does
  <2> QED
    BY <1>1, <1>2, <2>1, ReplaysKept
<1>5. EraseClear'
  <2>1. \A e \in agent[a].seen \ Encrypted : ErasedClear(e)
    BY <1>1 DEF LettersInv, EraseClear, ErasedClear
  <2>2. \A e \in erased' \ Encrypted : ErasedClear(e)'
    BY <1>1, <2>1 DEF LettersInv, EraseClear, ErasedClear, Clear
  <2>3. \A b \in Agents : Does(b, "erase")' => Does(b, "erase") /\ agent'[b] = agent[b]
    BY <1>2 DEF Does
  <2> QED
    BY <1>1, <2>2, <2>3 DEF LettersInv, EraseClear, Clear
<1> QED
  BY <1>3, <1>4, <1>5 DEF LettersInv

LEMMA StartJobPreserves ==
  ASSUME LettersInv, NEW e \in Letters, StartJob(e)
  PROVE  LettersInv'
<1>1. /\ queued[e] > 0 /\ e \notin sending /\ queued' = [queued EXCEPT ![e] = @ - 1]
      /\ sending' = IF e \in Stored THEN sending \cup {e} ELSE sending
      /\ busy' = IF e \in Stored \cap Erasing THEN busy \cup {e} ELSE busy
      /\ dropped' = dropped \ {e}
      /\ UNCHANGED <<letter, unlogged, logged, agent, erased, died, asked, added, shared, stops>>
  BY DEF StartJob
<1>2. /\ queued' \in [Letters -> Nat]
      /\ \A i \in Letters \ {e} : queued'[i] = queued[i]
  BY <1>1 DEF LettersInv, LettersTypeOK
<1>3. LettersTypeOK'
  BY <1>1, <1>2 DEF LettersInv, LettersTypeOK
<1>4. PendingIsUnderWay'
  <2> SUFFICES ASSUME NEW i \in Letters, letter[i] = "pending"
               PROVE  queued'[i] > 0 \/ i \in sending' \cup dropped'
                        \/ \E b \in Agents : Replaying(b) /\ i \in agent[b].half
    BY <1>1 DEF PendingIsUnderWay, Replaying
  <2>1. CASE i = e
    BY <1>1, <2>1 DEF Stored
  <2>2. CASE i # e
    BY <1>1, <1>2, <2>2 DEF LettersInv, PendingIsUnderWay
  <2> QED
    BY <2>1, <2>2
<1>5. Apart' /\ JobsCovered'
  BY <1>1 DEF LettersInv, Apart, JobsCovered, Covered, Holders, Free, FoundBy, Replaying
<1>6. EraseClear'
  <2>1. ASSUME NEW b \in Agents, Does(b, "erase"), NEW i \in agent[b].seen \ Encrypted
        PROVE  /\ letter[i] = "gone" \/ i \in agent[b].half
               /\ Clear(i)' /\ (i \in logged => i \in busy' \/ i \in agent[b].todo)
    <3>1. /\ letter[i] = "gone" \/ i \in agent[b].half
          /\ Clear(i) /\ (i \in logged => i \in busy \/ i \in agent[b].todo)
      BY <2>1 DEF LettersInv, EraseClear
    <3>2. i \in Stored => i \in Erasing
      BY <2>1, <3>1 DEF Stored, Erasing
    <3> QED
      BY <1>1, <3>1, <3>2 DEF Clear
  <2>2. \A i \in erased \ Encrypted : ErasedClear(i)'
    <3>1. \A i \in erased \ Encrypted : ErasedClear(i) /\ i \notin Stored
      BY DEF LettersInv, EraseClear, ErasedClear, Stored
    <3> QED
      BY <1>1, <3>1 DEF ErasedClear, Clear
  <2> QED
    BY <1>1, <2>1, <2>2 DEF EraseClear, Does
<1> QED
  BY <1>3, <1>4, <1>5, <1>6 DEF LettersInv

LEMMA EndJobPreserves ==
  ASSUME LettersInv, NEW e \in Letters, NEW s \in {"delivered", "dead", "retrying"}, EndJob(e, s)
  PROVE  LettersInv'
<1>1. /\ e \in sending /\ sending' = sending \ {e} /\ unlogged' \in {unlogged, unlogged \cup {e}}
      /\ letter' = IF e \in Stored THEN [letter EXCEPT ![e] = s] ELSE letter
      /\ died' = IF e \in Stored /\ s = "dead" /\ letter[e] # "dead"
                 THEN [died EXCEPT ![e] = @ + 1] ELSE died
      /\ queued' = queued \/ queued' = [queued EXCEPT ![e] = @ + 1]
      /\ UNCHANGED <<logged, agent, erased, asked, added, shared, dropped, busy, stops>>
  BY DEF EndJob
<1>2. /\ letter' \in [Letters -> LetterStatus]
      /\ \A i \in Letters \ {e} : letter'[i] = letter[i]
      /\ letter'[e] \in {s, "gone"} /\ (letter[e] = "gone" <=> letter'[e] = "gone")
  BY <1>1 DEF LettersInv, LettersTypeOK, Stored, LetterStatus
<1>3. /\ died' \in [Letters -> Nat] /\ \A i \in Letters \ {e} : died'[i] = died[i]
      /\ letter'[e] = "dead" /\ letter[e] # "dead" => died'[e] = died[e] + 1
      /\ died'[e] \in {died[e], died[e] + 1}
  BY <1>1, <1>2 DEF LettersInv, LettersTypeOK, Stored
<1>9. queued' \in [Letters -> Nat] /\ \A i \in Letters : queued'[i] >= queued[i]
  BY <1>1 DEF LettersInv, LettersTypeOK
<1>4. LettersTypeOK'
  BY <1>1, <1>2, <1>3, <1>9 DEF LettersInv, LettersTypeOK, LetterStatus
<1>5. PendingIsUnderWay'
  <2> SUFFICES ASSUME NEW i \in Letters, letter'[i] = "pending"
               PROVE  queued'[i] > 0 \/ i \in sending' \cup dropped
                        \/ \E b \in Agents : Replaying(b) /\ i \in agent[b].half
    BY <1>1 DEF PendingIsUnderWay, Replaying
  <2>1. i # e /\ letter[i] = "pending"
    BY <1>2
  <2> QED
    BY <1>1, <1>9, <2>1 DEF LettersInv, LettersTypeOK, PendingIsUnderWay
<1>6. JobsCovered'
  <2> SUFFICES ASSUME NEW i \in Letters \ shared
               PROVE  added[i] + Cardinality(Holders(i)) + Free(i)' <= died'[i] + asked[i]
    BY <1>1 DEF JobsCovered, Covered, Holders, Replaying
  <2>1. /\ added[i] + Cardinality(Holders(i)) + Free(i) <= died[i] + asked[i] /\ Free(i) \in 0..1
        /\ added[i] \in Nat /\ died[i] \in Nat /\ asked[i] \in Nat
        /\ Cardinality(Holders(i)) \in Nat /\ Free(i)' \in 0..1
    BY FreeIs, HoldersFinite DEF LettersInv, JobsCovered, Covered, LettersTypeOK, Free
  <2>2. CASE i # e
    <3>1. Free(i)' = Free(i)
      BY <1>1, <1>2, <2>2 DEF Free, FoundBy
    <3> QED
      BY <1>3, <2>1, <2>2, <3>1
  <2>3. CASE i = e /\ letter'[e] = "dead" /\ letter[e] # "dead"
    BY <1>3, <2>1, <2>3
  <2>4. CASE i = e /\ ~(letter'[e] = "dead" /\ letter[e] # "dead")
    <3>1. Free(i)' = 1 => Free(i) = 1
      BY <1>1, <2>4 DEF Free, FoundBy
    <3> QED
      BY <1>3, <2>1, <2>4, <3>1
  <2> QED
    BY <2>2, <2>3, <2>4
<1>7. Apart'
  BY <1>1 DEF LettersInv, Apart, Replaying
<1>8. EraseClear'
  <2>1. \A i \in Letters : letter[i] = "gone" => letter'[i] = "gone"
    BY <1>2
  <2>2. \A i \in Letters : Clear(i) => Clear(i)'
    BY <1>1 DEF Clear
  <2>3. erased \subseteq Letters /\ \A b \in Agents : agent[b].seen \subseteq Letters
    BY RequestIs DEF LettersInv, LettersTypeOK, Requests
  <2>4. ASSUME NEW b \in Agents, Does(b, "erase"), NEW i \in agent[b].seen \ Encrypted
        PROVE  /\ letter'[i] = "gone" \/ i \in agent[b].half
               /\ Clear(i)' /\ (i \in logged => i \in busy \/ i \in agent[b].todo)
    BY <2>1, <2>2, <2>3, <2>4 DEF LettersInv, EraseClear
  <2>5. \A i \in erased \ Encrypted : ErasedClear(i)'
    BY <1>1, <2>1, <2>2, <2>3 DEF LettersInv, EraseClear, ErasedClear
  <2> QED
    BY <1>1, <2>4, <2>5 DEF EraseClear, Does
<1> QED
  BY <1>4, <1>5, <1>6, <1>7, <1>8 DEF LettersInv

LEMMA GiveUpPreserves ==
  ASSUME LettersInv, NEW e \in Letters, GiveUp(e)
  PROVE  LettersInv'
<1>1. /\ e \in sending /\ sending' = sending \ {e} /\ dropped' = dropped \cup {e}
      /\ UNCHANGED <<letter, queued, unlogged, logged, agent, erased, died, asked, added, shared,
                     busy, stops>>
  BY DEF GiveUp
<1>2. LettersTypeOK'
  BY <1>1 DEF LettersInv, LettersTypeOK
<1>3. PendingIsUnderWay'
  BY <1>1 DEF LettersInv, PendingIsUnderWay, Replaying
<1>4. Apart' /\ JobsCovered'
  BY <1>1 DEF LettersInv, Apart, JobsCovered, Covered, Holders, Free, FoundBy, Replaying
<1>5. EraseClear'
  BY <1>1 DEF LettersInv, EraseClear, ErasedClear, Clear, Does
<1> QED
  BY <1>2, <1>3, <1>4, <1>5 DEF LettersInv

LEMMA FlushLogPreserves ==
  ASSUME LettersInv, NEW e \in Letters, FlushLog(e)
  PROVE  LettersInv'
<1>1. /\ e \in unlogged /\ unlogged' = unlogged \ {e} /\ logged' = logged \cup {e}
      /\ UNCHANGED <<letter, queued, sending, agent, erased, died, asked, added, shared, dropped, busy,
                     stops>>
  BY DEF FlushLog, letterHistory
<1>2. LettersTypeOK'
  BY <1>1 DEF LettersInv, LettersTypeOK
<1>3. PendingIsUnderWay' /\ Apart' /\ JobsCovered'
  BY <1>1 DEF LettersInv, PendingIsUnderWay, Apart, JobsCovered, Covered, Holders, Free, FoundBy,
              Replaying
<1>4. EraseClear'
  <2>1. ASSUME NEW b \in Agents, Does(b, "erase"), NEW i \in agent[b].seen \ Encrypted
        PROVE  /\ letter[i] = "gone" \/ i \in agent[b].half
               /\ Clear(i)' /\ (i \in logged' => i \in busy \/ i \in agent[b].todo)
    BY <1>1, <2>1 DEF LettersInv, EraseClear, Clear
  <2>2. \A i \in erased \ Encrypted : ErasedClear(i)'
    BY <1>1 DEF LettersInv, EraseClear, ErasedClear, Clear
  <2> QED
    BY <1>1, <2>1, <2>2 DEF EraseClear, Does
<1> QED
  BY <1>2, <1>3, <1>4 DEF LettersInv

\* An event that died is queued once for it, however many replay-alls run, unless two
\* had found it; what was put back is on its way; and an erasure leaves nothing of the
\* customer but what is encrypted or was being delivered.
THEOREM LettersAreSafe == LettersSpec => []LettersSafe
<1>1. LettersInit => LettersInv
  <2> SUFFICES ASSUME LettersInit
               PROVE  LettersInv
    OBVIOUS
  <2>1. \A a \in Agents : agent[a] = NotYet
    BY DEF LettersInit
  <2>2. /\ agent \in [Agents -> Requests] /\ \A a \in Agents : ~Replaying(a) /\ ~Does(a, "erase")
    BY <2>1, DoneIs DEF LettersInit, Replaying, Does
  <2>3. 0 \in 0..MaxStopped
    BY DeadLettersAssumption
  <2>4. LettersTypeOK
    BY <2>2, <2>3 DEF LettersInit, LettersTypeOK, Requests
  <2>5. JobsCovered
    <3> SUFFICES ASSUME NEW e \in Letters
                 PROVE  added[e] + Cardinality(Holders(e)) + Free(e) <= died[e] + asked[e]
      BY DEF JobsCovered, Covered
    <3>1. Holders(e) = {}
      BY <2>2 DEF Holders
    <3>2. Cardinality(Holders(e)) = 0
      BY <3>1, FS_EmptySet
    <3>3. added[e] = 0 /\ asked[e] = 0 /\ died[e] = IF letter[e] = "dead" THEN 1 ELSE 0
      BY DEF LettersInit
    <3>4. Free(e) <= died[e] /\ Free(e) \in 0..1 /\ died[e] \in 0..1
      BY <3>3 DEF Free
    <3> QED
      BY <3>2, <3>3, <3>4
  <2>6. PendingIsUnderWay
    BY DEF LettersInit, PendingIsUnderWay
  <2> QED
    BY <2>2, <2>4, <2>5, <2>6 DEF LettersInit, LettersInv, Apart, EraseClear
<1>2. LettersInv /\ [LettersNext]_letterVars => LettersInv'
  <2> SUFFICES ASSUME LettersInv, [LettersNext]_letterVars
               PROVE  LettersInv'
    OBVIOUS
  <2>1. CASE UNCHANGED letterVars
    BY <2>1 DEF LettersInv, LettersTypeOK, PendingIsUnderWay, Apart, JobsCovered, Covered, Holders,
                Free, FoundBy, Replaying, EraseClear, ErasedClear, Clear, Does, letterVars,
                eventVars, letterHistory
  <2>2. CASE LettersNext
    BY <2>2, FindOnePreserves, FindDeadPreserves, ResetPreserves, AddPreserves, QueueFailsPreserves,
       StopPreserves, FindCustomerPreserves, ErasePreserves, EraseEndsPreserves, StartJobPreserves,
       EndJobPreserves, GiveUpPreserves, FlushLogPreserves DEF LettersNext
  <2> QED
    BY <2>1, <2>2
<1>3. LettersInv => LettersSafe
  <2> SUFFICES ASSUME LettersInv
               PROVE  OneJobPerDeath /\ ErasedButEncrypted
    BY DEF LettersInv, LettersSafe
  <2>1. OneJobPerDeath
    <3> SUFFICES ASSUME NEW e \in Letters \ shared
                 PROVE  added[e] <= died[e] + asked[e]
      BY DEF OneJobPerDeath
    <3>1. Cardinality(Holders(e)) \in Nat /\ Free(e) \in 0..1
      BY HoldersFinite, FreeIs
    <3> QED
      BY <3>1 DEF LettersInv, LettersTypeOK, JobsCovered, Covered
  <2>2. ErasedButEncrypted
    BY DEF LettersInv, EraseClear, ErasedClear, ErasedButEncrypted
  <2> QED
    BY <2>1, <2>2
<1> QED
  BY <1>1, <1>2, <1>3, PTL DEF LettersSpec

-----------------------------------------------------------------------------
(* Payments *)

\* A subscription that is not there has no dates.
NoneIsNone == \A a \in Accounts : sub[a].status = "none" => sub[a].trialEnd = "none"

\* Calls and webhooks are about the payments they can be about.
HookFits(e) == e.type \in {"captured", "charged", "failed"} => e.pay \in Payments
CallFits(c) ==
  /\ c.op \in {"captured", "charged", "failed", "upgrade", "purchase"} => c.pay \in Payments
  /\ c.op = "upgrade" => Buys[c.pay] = "plan"
  /\ c.op = "purchase" => Buys[c.pay] = "credits" /\ c.acc = Account(Owner[c.pay])
  /\ c.op = "captured" => c.at \in {"check", "user", "sub"}
  /\ c.at \in {"count", "invoice"} => c.op \in {"upgrade", "purchase"}
  /\ c.at = "customer" => c.op \in {"add", "suspend", "reactivate"}
CallsFit ==
  /\ \A e \in hooks : HookFits(e)
  /\ \A h \in Handlers : call[h] # Idle => CallFits(call[h])

\* The number a call has counted to was free or has been taken since.
Numbered(h) == call[h] # Idle /\ call[h].at = "invoice"
NumbersFollow ==
  /\ IsFiniteSet(invoices)
  /\ \A h \in Handlers : Numbered(h) => call[h].no \in 1..(Cardinality(invoices) + 1)

\* The call that wrote the row of a payment is the only one to write its invoice.
Billed(p) == \E i \in invoices : i.pay = p
Crediting(h, p) == call[h].op = "purchase" /\ call[h].at \in {"count", "invoice"} /\ call[h].pay = p
RowIsFirst ==
  \A p \in Payments : Buys[p] = "credits" =>
    /\ Billed(p) => p \in ledger
    /\ \A h \in Handlers : Crediting(h, p) => p \in ledger /\ ~Billed(p)
    /\ \A g, h \in Handlers : Crediting(g, p) /\ Crediting(h, p) => g = h

\* The balance covers the rows that will be written, too.
RowDue(a) == {h \in Handlers : At(h, "purchase", "row") /\ call[h].acc = a}
RowsDue ==
  \A a \in Users : /\ IsFiniteSet(ledger \cap BoughtBy(a))
                   /\ Cardinality(ledger \cap BoughtBy(a)) + Cardinality(RowDue(a)) <= balance[a]

\* Every credit of the balance was asked for by a confirmation of its own.
CreditDue(a) == {h \in Handlers : At(h, "purchase", "credit") /\ call[h].acc = a}
AskedFor == \A a \in Users : balance[a] + Cardinality(CreditDue(a)) <= topUps[a]

\* A mark without a period is that of a call about to grant it, or that has died.
Activating(h, p) == At(h, "captured", "sub") /\ call[h].pay = p
Marked ==
  /\ \A p \in Payments : AlreadyProcessed(p) =>
       granted[p] > 0 \/ p \in torn \/ \E h \in Handlers : Activating(h, p)
  /\ \A h \in Handlers : At(h, "upgrade", "user") => granted[call[h].pay] > 0

\* Periods granted and about to be, and the one the webhook may still grant.
Granting(p) ==
  {h \in Handlers : /\ At(h, "captured", "user") \/ At(h, "captured", "sub") \/ At(h, "upgrade", "sub")
                    /\ call[h].pay = p}
Unseen(p) ==
  IF ~AlreadyProcessed(p) /\ \A h \in Handlers : ~(At(h, "captured", "user") /\ call[h].pay = p)
  THEN 1 ELSE 0
GrantsCovered ==
  \A p \in Payments \ doubled : granted[p] + Cardinality(Granting(p)) + Unseen(p) <= 1 + tries[p]

BooksInv ==
  NumbersFollow /\ InvoicesContiguous /\ RowIsFirst /\ CreditInvoicedOnce /\ RowsDue /\ AskedFor
MarksInv == Marked /\ GrantsCovered
BillingInv == BillingTypeOK /\ NoneIsNone /\ CallsFit /\ BooksInv /\ MarksInv

SubsOK ==
  /\ sub \in [Accounts -> Subscriptions] /\ NoneIsNone
  /\ \A a \in Accounts : sub[a].status = "none" <=> sub[a].periodEnd = "none"

LEMMA SubsAre ==
  ASSUME BillingInv
  PROVE  SubsOK
BY DEF BillingInv, BillingTypeOK, SubsOK

LEMMA StatusIs ==
  ASSUME SubsOK, NEW a \in Accounts, NEW s \in Statuses \ {"none"}, SetStatus(a, s)
  PROVE  SubsOK' /\ \A b \in Accounts : sub'[b].status = sub[b].status \/ (b = a /\ sub'[b].status = s)
<1>1. CASE HasSub(a)
  <2>1. PICK r \in Subscriptions : r = sub[a]
    BY DEF SubsOK
  <2> DEFINE t == [r EXCEPT !.status = s]
  <2>2. /\ t \in Subscriptions /\ t.status = s /\ t.trialEnd = r.trialEnd /\ t.periodEnd = r.periodEnd
    BY DEF Subscriptions
  <2>3. sub' = [sub EXCEPT ![a] = t]
    BY <1>1, <2>1 DEF SetStatus
  <2> HIDE DEF t
  <2>4. sub' \in [Accounts -> Subscriptions] /\ sub'[a] = t /\ \A b \in Accounts \ {a} : sub'[b] = sub[b]
    BY <2>2, <2>3 DEF SubsOK
  <2>5. sub[a].status # "none" /\ sub[a].periodEnd # "none" /\ s # "none"
    BY <1>1 DEF HasSub, SubsOK
  <2> QED
    BY <2>1, <2>2, <2>4, <2>5 DEF SubsOK, NoneIsNone
<1>2. CASE ~HasSub(a)
  <2>1. sub' = sub
    BY <1>2 DEF SetStatus
  <2> QED
    BY <2>1 DEF SubsOK, NoneIsNone
<1> QED
  BY <1>1, <1>2

LEMMA ActivatedIs ==
  ASSUME SubsOK, NEW a \in Accounts, NEW p \in Plans, sub' = [sub EXCEPT ![a] = Activated(sub[a], p)]
  PROVE  SubsOK' /\ \A b \in Accounts : sub'[b].status = sub[b].status \/ (b = a /\ sub'[b].status = "active")
<1>1. PICK r \in Subscriptions : r = sub[a]
  BY DEF SubsOK
<1> DEFINE t == Activated(r, p)
<1>2. t \in Subscriptions /\ t.status = "active" /\ t.periodEnd = "ahead"
  BY DEF Subscriptions, Activated, Statuses
<1>3. sub' = [sub EXCEPT ![a] = t]
  BY <1>1
<1> HIDE DEF t
<1>4. sub' \in [Accounts -> Subscriptions] /\ sub'[a] = t /\ \A b \in Accounts \ {a} : sub'[b] = sub[b]
  BY <1>2, <1>3 DEF SubsOK
<1> QED
  BY <1>2, <1>4 DEF SubsOK, NoneIsNone

LEMMA IdleIs == Idle \notin Calls /\ Idle.op = "idle"
BY DEF Idle, Calls, Ops, HookTypes

LEMMA CallIs ==
  ASSUME BillingInv, NEW h \in Handlers, call[h] # Idle
  PROVE  /\ call[h] \in Calls /\ CallFits(call[h])
BY DEF BillingInv, BillingTypeOK, CallsFit

LEMMA AtIs ==
  ASSUME NEW h \in Handlers, NEW op, NEW step, At(h, op, step), op # "idle"
  PROVE  call[h] # Idle /\ call[h].op = op /\ call[h].at = step
BY IdleIs DEF At

LEMMA MoveIs ==
  ASSUME BillingInv, NEW h \in Handlers, NEW c \in Calls \cup {Idle}, call' = [call EXCEPT ![h] = c]
  PROVE  /\ call' \in [Handlers -> Calls \cup {Idle}] /\ call'[h] = c
         /\ \A g \in Handlers \ {h} : call'[g] = call[g]
BY DEF BillingInv, BillingTypeOK

LEMMA GoIs ==
  ASSUME BillingInv, NEW h \in Handlers, call[h] # Idle, NEW step \in Ats, Go(h, step)
  PROVE  \E c \in Calls : /\ call' = [call EXCEPT ![h] = c] /\ c.at = step
                          /\ c.op = call[h].op /\ c.pay = call[h].pay /\ c.acc = call[h].acc
                          /\ c.no = call[h].no
<1>1. PICK r \in Calls : r = call[h]
  BY CallIs
<1> DEFINE c == [r EXCEPT !.at = step]
<1>2. /\ c \in Calls /\ c.at = step /\ c.op = r.op /\ c.pay = r.pay /\ c.acc = r.acc /\ c.no = r.no
  BY DEF Calls
<1>3. call' = [call EXCEPT ![h] = c]
  BY <1>1 DEF Go
<1> QED
  BY <1>1, <1>2, <1>3

LEMMA OpenIs ==
  ASSUME BillingInv, NEW h \in Handlers, NEW op \in Ops, NEW p \in Payments \cup {NoPlan},
         NEW a \in Accounts, NEW step \in Ats, Open(h, op, p, a, step)
  PROVE  \E c \in Calls : /\ call[h] = Idle /\ call' = [call EXCEPT ![h] = c]
                          /\ c.op = op /\ c.pay = p /\ c.acc = a /\ c.at = step
<1> DEFINE c == [op |-> op, pay |-> p, acc |-> a, at |-> step, no |-> 0]
<1>1. c \in Calls
  BY DEF Calls
<1>2. call[h] = Idle /\ call' = [call EXCEPT ![h] = c]
  BY DEF Open
<1> QED
  BY <1>1, <1>2

LEMMA AccountIs ==
  ASSUME NEW u \in Users
  PROVE  Account(u) \in Accounts /\ u \in Accounts
BY DEF Account, Accounts

\* A call about to add credits has been counted.
TopUpsFit(c) ==
  \A a \in Users : /\ topUps'[a] \in Nat /\ topUps[a] <= topUps'[a]
                   /\ c.op = "purchase" /\ c.at = "credit" /\ c.acc = a => topUps[a] < topUps'[a]

LEMMA TopUpsSame ==
  ASSUME BillingInv, NEW c, c.op # "purchase" \/ c.at # "credit", UNCHANGED topUps
  PROVE  TopUpsFit(c)
BY DEF TopUpsFit, BillingInv, BillingTypeOK, Accounts

LEMMA CreditDueFinite ==
  ASSUME NEW a
  PROVE  IsFiniteSet(CreditDue(a)) /\ Cardinality(CreditDue(a)) \in Nat
<1>1. CreditDue(a) \subseteq Handlers
  BY DEF CreditDue
<1> QED
  BY <1>1, BillingAssumption, Fewer

LEMMA AskedAre ==
  ASSUME BillingInv, NEW a \in Users
  PROVE  /\ balance[a] \in Nat /\ topUps[a] \in Nat
         /\ balance[a] + Cardinality(CreditDue(a)) <= topUps[a]
BY DEF BillingInv, BillingTypeOK, BooksInv, AskedFor, Accounts

\* A call moves and writes nothing to the books; what it knows of them is so.
LEMMA BooksKept ==
  ASSUME BillingInv, NEW h \in Handlers, NEW c \in Calls \cup {Idle},
         call' = [call EXCEPT ![h] = c], UNCHANGED <<ledger, balance, invoices>>,
         c # Idle /\ c.at = "invoice" => c.no \in 1..(Cardinality(invoices) + 1),
         \A p \in Payments :
           c.op = "purchase" /\ c.at \in {"count", "invoice"} /\ c.pay = p => Crediting(h, p),
         c.op = "purchase" => c.at # "row", TopUpsFit(c)
  PROVE  BooksInv'
<1>1. call'[h] = c /\ \A g \in Handlers \ {h} : call'[g] = call[g]
  BY MoveIs
<1>2. NumbersFollow' /\ InvoicesContiguous' /\ CreditInvoicedOnce'
  BY <1>1 DEF BillingInv, BooksInv, NumbersFollow, InvoicesContiguous, CreditInvoicedOnce, Numbered
<1>3. RowIsFirst'
  <2>1. \A p \in Payments : \A g \in Handlers : Crediting(g, p)' => Crediting(g, p)
    BY <1>1 DEF Crediting
  <2>2. \A p \in Payments : Billed(p)' <=> Billed(p)
    BY DEF Billed
  <2> QED
    BY <2>1, <2>2 DEF BillingInv, BooksInv, RowIsFirst
<1>4. RowsDue'
  <2> SUFFICES ASSUME NEW a \in Users
               PROVE  /\ IsFiniteSet(ledger \cap BoughtBy(a))
                      /\ Cardinality(ledger \cap BoughtBy(a)) + Cardinality(RowDue(a)') <= balance[a]
    BY DEF RowsDue, BoughtBy
  <2>1. RowDue(a)' \subseteq RowDue(a)
    BY <1>1 DEF RowDue, At
  <2>2. IsFiniteSet(RowDue(a))
    BY BillingAssumption, FS_Subset, RowDue(a) \subseteq Handlers DEF RowDue
  <2>3. /\ Cardinality(RowDue(a)') <= Cardinality(RowDue(a))
        /\ Cardinality(RowDue(a)') \in Nat /\ Cardinality(RowDue(a)) \in Nat
    BY <2>1, <2>2, Fewer
  <2>4. /\ IsFiniteSet(ledger \cap BoughtBy(a))
        /\ Cardinality(ledger \cap BoughtBy(a)) + Cardinality(RowDue(a)) <= balance[a]
        /\ balance[a] \in Nat
    BY DEF BillingInv, BooksInv, RowsDue, BillingTypeOK, Accounts
  <2>5. Cardinality(ledger \cap BoughtBy(a)) \in Nat
    BY <2>4, FS_CardinalityType
  <2> QED
    BY <2>3, <2>4, <2>5
<1>5. AskedFor'
  <2> SUFFICES ASSUME NEW a \in Users
               PROVE  balance[a] + Cardinality(CreditDue(a)') <= topUps'[a]
    BY DEF AskedFor
  <2>1. /\ balance[a] \in Nat /\ topUps[a] \in Nat
        /\ balance[a] + Cardinality(CreditDue(a)) <= topUps[a]
    BY AskedAre
  <2>2. CASE c.op = "purchase" /\ c.at = "credit" /\ c.acc = a
    <3>1. CreditDue(a)' \subseteq CreditDue(a) \cup {h} /\ topUps'[a] \in Nat /\ topUps[a] < topUps'[a]
      BY <1>1, <2>2 DEF CreditDue, At, TopUpsFit
    <3>2. /\ Cardinality(CreditDue(a)') <= Cardinality(CreditDue(a)) + 1
          /\ Cardinality(CreditDue(a)') \in Nat /\ Cardinality(CreditDue(a)) \in Nat
      BY <3>1, CreditDueFinite, OneMore
    <3> QED
      BY <2>1, <3>1, <3>2
  <2>3. CASE ~(c.op = "purchase" /\ c.at = "credit" /\ c.acc = a)
    <3>1. CreditDue(a)' \subseteq CreditDue(a) /\ topUps'[a] \in Nat /\ topUps[a] <= topUps'[a]
      BY <1>1, <2>3 DEF CreditDue, At, TopUpsFit
    <3>2. /\ Cardinality(CreditDue(a)') <= Cardinality(CreditDue(a))
          /\ Cardinality(CreditDue(a)') \in Nat /\ Cardinality(CreditDue(a)) \in Nat
      BY <3>1, CreditDueFinite, Fewer
    <3> QED
      BY <2>1, <3>1, <3>2
  <2> QED
    BY <2>2, <2>3
<1> QED
  BY <1>2, <1>3, <1>4, <1>5 DEF BooksInv

LEMMA GrantingFinite ==
  ASSUME NEW p
  PROVE  IsFiniteSet(Granting(p)) /\ Cardinality(Granting(p)) \in Nat
<1>1. Granting(p) \subseteq Handlers
  BY DEF Granting
<1> QED
  BY <1>1, BillingAssumption, Fewer

LEMMA GrantsAre ==
  ASSUME BillingInv, NEW p \in Payments
  PROVE  /\ granted[p] \in Nat /\ tries[p] \in Nat /\ Unseen(p) \in 0..1
         /\ p \notin doubled => granted[p] + Cardinality(Granting(p)) + Unseen(p) <= 1 + tries[p]
BY DEF BillingInv, BillingTypeOK, MarksInv, GrantsCovered, Unseen

\* A call moves and neither marks nor grants, nor is it on its way to.
LEMMA MarksKept ==
  ASSUME BillingInv, NEW h \in Handlers, NEW c \in Calls \cup {Idle},
         call' = [call EXCEPT ![h] = c], UNCHANGED <<paid, granted>>,
         torn \subseteq torn', doubled \subseteq doubled',
         \A p \in Payments : tries'[p] \in Nat /\ tries[p] <= tries'[p],
         c.op = "captured" => c.at \notin {"user", "sub"},
         c.op = "upgrade" => c.at \notin {"sub", "user"},
         \A p \in Payments : Activating(h, p) => p \in torn'
  PROVE  MarksInv'
<1>1. call'[h] = c /\ \A g \in Handlers \ {h} : call'[g] = call[g]
  BY MoveIs
<1>2. Marked'
  <2>1. \A g \in Handlers : At(g, "upgrade", "user")' => At(g, "upgrade", "user") /\ call'[g] = call[g]
    BY <1>1 DEF At
  <2>2. \A p \in Payments : AlreadyProcessed(p)' <=> AlreadyProcessed(p)
    BY DEF AlreadyProcessed
  <2>3. \A p \in Payments : \A g \in Handlers : Activating(g, p) => p \in torn' \/ Activating(g, p)'
    BY <1>1 DEF Activating, At
  <2> QED
    BY <2>1, <2>2, <2>3 DEF BillingInv, MarksInv, Marked
<1>3. GrantsCovered'
  <2> SUFFICES ASSUME NEW p \in Payments \ doubled'
               PROVE  granted[p] + Cardinality(Granting(p)') + Unseen(p)' <= 1 + tries'[p]
    BY DEF GrantsCovered
  <2>1. /\ granted[p] + Cardinality(Granting(p)) + Unseen(p) <= 1 + tries[p]
        /\ granted[p] \in Nat /\ tries[p] \in Nat /\ Unseen(p) \in 0..1 /\ Unseen(p)' \in 0..1
        /\ tries'[p] \in Nat /\ tries[p] <= tries'[p]
    BY GrantsAre DEF Unseen
  <2>2. Granting(p)' \subseteq Granting(p) /\ h \notin Granting(p)'
    BY <1>1 DEF Granting, At
  <2>3. CASE Unseen(p)' = 1 /\ Unseen(p) = 0
    <3>1. h \in Granting(p)
      BY <1>1, <2>3 DEF Unseen, AlreadyProcessed, At, Granting
    <3>2. Granting(p)' \subseteq Granting(p) \ {h}
      BY <2>2
    <3>3. /\ Cardinality(Granting(p)') + 1 <= Cardinality(Granting(p))
          /\ Cardinality(Granting(p)') \in Nat /\ Cardinality(Granting(p)) \in Nat
      BY <3>1, <3>2, GrantingFinite, OneLess
    <3> QED
      BY <2>1, <2>3, <3>3
  <2>4. CASE Unseen(p)' = 0 \/ Unseen(p) = 1
    <3>1. /\ Cardinality(Granting(p)') <= Cardinality(Granting(p))
          /\ Cardinality(Granting(p)') \in Nat /\ Cardinality(Granting(p)) \in Nat
      BY <2>2, GrantingFinite, Fewer
    <3> QED
      BY <2>1, <2>4, <3>1
  <2> QED
    BY <2>1, <2>3, <2>4
<1> QED
  BY <1>2, <1>3 DEF MarksInv

\* Steps of nobody's call.
LEMMA NoCallPreserves ==
  ASSUME BillingInv, BillingTypeOK', NoneIsNone', \A e \in hooks' : HookFits(e),
         UNCHANGED <<call, paid, granted, torn, doubled, tries, topUps, ledger, balance, invoices>>
  PROVE  BillingInv'
<1>1. CallsFit'
  BY DEF BillingInv, CallsFit
<1>2. BooksInv'
  BY DEF BillingInv, BooksInv, NumbersFollow, InvoicesContiguous, Numbered, RowIsFirst, Billed,
         CreditInvoicedOnce, Crediting, RowsDue, RowDue, At, AskedFor, CreditDue
<1>3. MarksInv'
  BY DEF BillingInv, MarksInv, Marked, AlreadyProcessed, Activating, GrantsCovered, Granting, Unseen,
         At
<1> QED
  BY <1>1, <1>2, <1>3 DEF BillingInv

LEMMA OutsidePreserves ==
  ASSUME BillingInv, (\E p \in Payments : Pay(p)) \/ \E u \in Users : Unsubscribe(u)
  PROVE  BillingInv'
<1>1. /\ UNCHANGED <<sub, paid, customer, balance, ledger, invoices, call, faults, granted, doubled,
                     torn, tries, topUps>>
      /\ calls' \in Nat
  BY DEF Pay, Unsubscribe, docs, books, history, BillingInv, BillingTypeOK
<1>2. /\ razorpay' \in [Payments -> {"open", "captured", "failed"}]
      /\ hooks' \subseteq Hooks /\ \A e \in hooks' : HookFits(e)
  <2>1. CASE \E p \in Payments : Pay(p)
    <3>1. PICK p \in Payments, result \in {"captured", "failed"}, type \in {"charged", "captured", "failed"} :
            /\ razorpay' = [razorpay EXCEPT ![p] = result]
            /\ hooks' \subseteq hooks \cup {Hook(type, p)}
      BY <2>1 DEF Pay
    <3>2. Hook(type, p) \in Hooks /\ HookFits(Hook(type, p))
      BY BillingAssumption DEF Hook, Hooks, HookTypes, HookFits
    <3> QED
      BY <3>1, <3>2 DEF BillingInv, BillingTypeOK, CallsFit
  <2>2. CASE \E u \in Users : Unsubscribe(u)
    <3>1. PICK u \in Users, type \in {"halted", "cancelled"} :
            hooks' = hooks \cup {[type |-> type, pay |-> NoPlan, user |-> u]} /\ razorpay' = razorpay
      BY <2>2 DEF Unsubscribe
    <3>2. /\ [type |-> type, pay |-> NoPlan, user |-> u] \in Hooks
          /\ HookFits([type |-> type, pay |-> NoPlan, user |-> u])
      BY DEF Hooks, HookTypes, HookFits
    <3> QED
      BY <3>1, <3>2 DEF BillingInv, BillingTypeOK, CallsFit
  <2> QED
    BY <2>1, <2>2
<1>3. BillingTypeOK' /\ NoneIsNone'
  BY <1>1, <1>2 DEF BillingInv, BillingTypeOK, NoneIsNone
<1> QED
  BY <1>1, <1>2, <1>3, NoCallPreserves

LEMMA TimePreserves ==
  ASSUME BillingInv,
         \/ \E u \in Users : StartTrial(u)
         \/ \E a \in Accounts : TimePasses(a) \/ Sweep(a)
  PROVE  BillingInv'
<1>1. UNCHANGED <<paid, customer, books, outside, call, history>>
  BY DEF StartTrial, TimePasses, Sweep, ExpireTrial, ExpirePeriod
<1>2. SubsOK'
  <2>1. CASE \E u \in Users : StartTrial(u)
    <3>1. PICK a \in Accounts :
            sub' = [sub EXCEPT ![a] = [status |-> "trial", plan |-> "trial", trialEnd |-> "ahead",
                                       periodEnd |-> "ahead", resold |-> FALSE]]
      BY <2>1, AccountIs DEF StartTrial
    <3>2. [status |-> "trial", plan |-> "trial", trialEnd |-> "ahead", periodEnd |-> "ahead",
           resold |-> FALSE] \in Subscriptions
      BY DEF Subscriptions, Statuses, Plans
    <3> QED
      BY <3>1, <3>2, SubsAre DEF SubsOK, NoneIsNone
  <2>2. CASE \E a \in Accounts : TimePasses(a)
    <3>1. PICK a \in Accounts : TimePasses(a)
      BY <2>2
    <3>2. PICK r \in Subscriptions : r = sub[a]
      BY SubsAre DEF SubsOK
    <3>3. PICK t, e \in {"none", "ahead", "past"} :
            /\ sub' = [sub EXCEPT ![a] = [r EXCEPT !.trialEnd = t, !.periodEnd = e]]
            /\ \/ r.trialEnd = "ahead" /\ (e = r.periodEnd \/ e = "past")
               \/ r.periodEnd = "ahead" /\ t = r.trialEnd /\ e = "past"
      <4>1. CASE /\ sub[a].trialEnd = "ahead"
                 /\ sub' = [sub EXCEPT ![a].trialEnd = "past",
                              ![a].periodEnd = IF sub[a].plan = "trial" THEN "past" ELSE @]
        <5> DEFINE e == IF r.plan = "trial" THEN "past" ELSE r.periodEnd
        <5>1. sub' = [sub EXCEPT ![a] = [r EXCEPT !.trialEnd = "past", !.periodEnd = e]]
          BY <3>2, <4>1 DEF SubsOK, Subscriptions
        <5>2. e \in {"none", "ahead", "past"} /\ (e = r.periodEnd \/ e = "past")
          BY DEF Subscriptions
        <5> HIDE DEF e
        <5> QED
          BY <3>2, <4>1, <5>1, <5>2
      <4>2. CASE /\ sub[a].periodEnd = "ahead" /\ sub[a].plan # "trial"
                 /\ sub' = [sub EXCEPT ![a].periodEnd = "past"]
        <5>1. r.trialEnd \in {"none", "ahead", "past"}
          BY DEF Subscriptions
        <5>2. [r EXCEPT !.trialEnd = r.trialEnd, !.periodEnd = "past"] = [r EXCEPT !.periodEnd = "past"]
          BY DEF Subscriptions
        <5> QED
          BY <3>2, <4>2, <5>1, <5>2
      <4> QED
        BY <3>1, <4>1, <4>2 DEF TimePasses
    <3> DEFINE s == [r EXCEPT !.trialEnd = t, !.periodEnd = e]
    <3>4. s \in Subscriptions /\ s.status = r.status /\ s.trialEnd = t /\ s.periodEnd = e
      BY DEF Subscriptions
    <3>5. sub' = [sub EXCEPT ![a] = s]
      BY <3>3
    <3> HIDE DEF s
    <3>6. sub' \in [Accounts -> Subscriptions] /\ sub'[a] = s /\ \A b \in Accounts \ {a} : sub'[b] = sub[b]
      BY <3>4, <3>5, SubsAre DEF SubsOK
    <3>7. /\ r.status = "none" => r.trialEnd = "none" /\ r.periodEnd = "none"
          /\ r.periodEnd = "none" => r.status = "none"
      BY <3>2, SubsAre DEF SubsOK, NoneIsNone
    <3>8. r.status # "none" /\ e # "none"
      BY <3>3, <3>7
    <3> QED
      BY <3>2, <3>4, <3>6, <3>8, SubsAre DEF SubsOK, NoneIsNone
  <2>3. CASE \E a \in Accounts : Sweep(a)
    BY <2>3, SubsAre, StatusIs DEF Sweep, ExpireTrial, ExpirePeriod, Statuses
  <2> QED
    BY <2>1, <2>2, <2>3
<1>3. BillingTypeOK' /\ NoneIsNone'
  BY <1>1, <1>2 DEF BillingInv, BillingTypeOK, NoneIsNone, SubsOK, books, outside, history
<1>4. \A e \in hooks' : HookFits(e)
  BY <1>1 DEF outside, BillingInv, CallsFit
<1> QED
  BY <1>1, <1>3, <1>4, NoCallPreserves DEF books, history

\* A call that is not about to write what the invariant counts.
Aside(c) ==
  \/ c = Idle
  \/ /\ c \in Calls /\ CallFits(c) /\ c.at # "invoice"
     /\ c.op = "captured" => c.at \notin {"user", "sub"}
     /\ c.op = "upgrade" => c.at \notin {"sub", "user"}
     /\ c.op = "purchase" => c.at \notin {"row", "count"}

LEMMA AsidePreserves ==
  ASSUME BillingInv, NEW h \in Handlers, NEW c, Aside(c), call' = [call EXCEPT ![h] = c],
         UNCHANGED <<paid, granted, ledger, balance, invoices, razorpay>>,
         SubsOK', customer' \in [Accounts -> CustomerStates], hooks' \subseteq hooks,
         calls' \in Nat, faults' \in Nat, tries' \in [Payments -> Nat],
         \A p \in Payments : tries[p] <= tries'[p],
         topUps' \in [Accounts -> Nat], TopUpsFit(c),
         torn \subseteq torn', torn' \subseteq Payments,
         doubled \subseteq doubled', doubled' \subseteq Payments,
         \A p \in Payments : Activating(h, p) => p \in torn'
  PROVE  BillingInv'
<1>1. c \in Calls \cup {Idle} /\ (c # Idle => CallFits(c))
  BY DEF Aside
<1>2. /\ call' \in [Handlers -> Calls \cup {Idle}] /\ call'[h] = c
      /\ \A g \in Handlers \ {h} : call'[g] = call[g]
  BY <1>1, MoveIs
<1>3. BillingTypeOK' /\ NoneIsNone'
  BY <1>2 DEF BillingInv, BillingTypeOK, SubsOK
<1>4. CallsFit'
  BY <1>1, <1>2 DEF BillingInv, CallsFit
<1>5. BooksInv'
  <2>1. /\ c # Idle /\ c.at = "invoice" => c.no \in 1..(Cardinality(invoices) + 1)
        /\ \A p \in Payments :
             c.op = "purchase" /\ c.at \in {"count", "invoice"} /\ c.pay = p => Crediting(h, p)
        /\ c.op = "purchase" => c.at # "row"
    BY IdleIs DEF Aside
  <2> QED
    BY <1>1, <2>1, BooksKept
<1>6. MarksInv'
  <2>1. /\ c.op = "captured" => c.at \notin {"user", "sub"}
        /\ c.op = "upgrade" => c.at \notin {"sub", "user"}
    BY IdleIs DEF Aside
  <2>2. \A p \in Payments : tries'[p] \in Nat /\ tries[p] <= tries'[p]
    OBVIOUS
  <2> QED
    BY <1>1, <2>1, <2>2, MarksKept
<1> QED
  BY <1>3, <1>4, <1>5, <1>6 DEF BillingInv

\* The same when only the subscription, the reseller's row or a webhook changes.
LEMMA PlainPreserves ==
  ASSUME BillingInv, NEW h \in Handlers, NEW c, Aside(c), call' = [call EXCEPT ![h] = c],
         SubsOK', customer' \in [Accounts -> CustomerStates], hooks' \subseteq hooks,
         calls' \in Nat, faults' \in Nat, \A p \in Payments : ~Activating(h, p),
         c.op # "purchase", UNCHANGED <<paid, books, razorpay, history>>
  PROVE  BillingInv'
<1>1. /\ UNCHANGED <<paid, granted, ledger, balance, invoices, razorpay, torn, doubled, tries>>
      /\ tries' \in [Payments -> Nat] /\ torn' \subseteq Payments /\ doubled' \subseteq Payments
      /\ \A p \in Payments : tries[p] <= tries'[p]
      /\ topUps' \in [Accounts -> Nat] /\ topUps' = topUps
  BY DEF books, history, BillingInv, BillingTypeOK
<1>2. TopUpsFit(c)
  BY <1>1, TopUpsSame
<1> QED
  BY <1>1, <1>2, AsidePreserves

LEMMA AnswerIs ==
  ASSUME BillingInv, NEW h \in Handlers, Answer(h)
  PROVE  call' = [call EXCEPT ![h] = Idle] /\ hooks' \subseteq hooks /\ faults' \in Nat
BY DEF Answer, End, BillingInv, BillingTypeOK

LEMMA CrashPreserves ==
  ASSUME BillingInv, NEW h \in Handlers, Crash(h)
  PROVE  BillingInv'
<1>1. /\ call[h] # Idle /\ faults' = faults + 1 /\ call' = [call EXCEPT ![h] = Idle]
      /\ UNCHANGED <<docs, books, razorpay, hooks, calls, granted, doubled, tries, topUps>>
      /\ torn' = IF call[h].op = "captured" /\ call[h].at = "sub"
                 THEN torn \cup {call[h].pay} ELSE torn
  BY DEF Crash, End
<1>2. torn \subseteq torn' /\ torn' \subseteq Payments
  BY <1>1, CallIs DEF CallFits, BillingInv, BillingTypeOK
<1>3. \A p \in Payments : Activating(h, p) => p \in torn'
  BY <1>1 DEF Activating, At
<1>4. /\ SubsOK' /\ customer' \in [Accounts -> CustomerStates] /\ faults' \in Nat /\ calls' \in Nat
      /\ tries' \in [Payments -> Nat] /\ doubled' \subseteq Payments
      /\ \A p \in Payments : tries[p] <= tries'[p]
      /\ topUps' \in [Accounts -> Nat]
  BY <1>1 DEF docs, BillingInv, BillingTypeOK, SubsOK, NoneIsNone
<1>5. Aside(Idle) /\ TopUpsFit(Idle)
  BY <1>1, IdleIs, TopUpsSame DEF Aside
<1> QED
  BY <1>1, <1>2, <1>3, <1>4, <1>5, AsidePreserves DEF docs, books

LEMMA OpenPreserves ==
  ASSUME BillingInv, NEW h \in Handlers,
         \/ \E e \in hooks : Deliver(h, e)
         \/ \E u \in Users : \/ CancelOpen(h, u)
                             \/ \E op \in {"add", "suspend", "reactivate"} : ResellerOpen(h, op, u)
  PROVE  BillingInv'
<1>1. PICK c \in Calls : /\ call[h] = Idle /\ call' = [call EXCEPT ![h] = c] /\ CallFits(c)
                         /\ c.at \in {"check", "read"} /\ c.op \notin {"upgrade", "purchase"}
  <2>1. CASE \E e \in hooks : Deliver(h, e)
    <3>1. PICK e \in hooks : Open(h, e.type, e.pay, e.user, "check")
      BY <2>1 DEF Deliver
    <3>2. /\ e.type \in HookTypes /\ e.pay \in Payments \cup {NoPlan} /\ e.user \in Users
          /\ HookFits(e)
      BY DEF BillingInv, BillingTypeOK, CallsFit, Hooks
    <3>3. /\ e.type \in Ops /\ e.user \in Accounts /\ "check" \in Ats
          /\ e.type \notin {"upgrade", "purchase"}
      BY <3>2 DEF Ops, HookTypes, Accounts, Ats
    <3>4. PICK c \in Calls : /\ call[h] = Idle /\ call' = [call EXCEPT ![h] = c]
                             /\ c.op = e.type /\ c.pay = e.pay /\ c.acc = e.user /\ c.at = "check"
      <4>1. PICK op \in Ops, p \in Payments \cup {NoPlan}, a \in Accounts :
              op = e.type /\ p = e.pay /\ a = e.user
        BY <3>2, <3>3
      <4>2. Open(h, op, p, a, "check")
        BY <3>1, <4>1
      <4>3. PICK c \in Calls : /\ call[h] = Idle /\ call' = [call EXCEPT ![h] = c]
                               /\ c.op = op /\ c.pay = p /\ c.acc = a /\ c.at = "check"
        BY <3>3, <4>2, OpenIs
      <4> QED
        BY <4>1, <4>3
    <3>5. CallFits(c)
      BY <3>2, <3>3, <3>4 DEF CallFits, HookFits
    <3> QED
      BY <3>3, <3>4, <3>5
  <2>2. CASE \E u \in Users : \/ CancelOpen(h, u)
                              \/ \E op \in {"add", "suspend", "reactivate"} : ResellerOpen(h, op, u)
    <3>1. PICK op \in {"cancel", "add", "suspend", "reactivate"}, a \in Accounts :
            Open(h, op, NoPlan, a, "read")
      BY <2>2, AccountIs DEF CancelOpen, ResellerOpen
    <3>2. op \in Ops /\ "read" \in Ats /\ op \notin {"upgrade", "purchase"}
      BY DEF Ops, HookTypes, Ats
    <3>3. PICK c \in Calls : /\ call[h] = Idle /\ call' = [call EXCEPT ![h] = c]
                             /\ c.op = op /\ c.pay = NoPlan /\ c.acc = a /\ c.at = "read"
      BY <3>1, <3>2, OpenIs
    <3>4. op # "captured" /\ op # "charged" /\ op # "failed"
      OBVIOUS
    <3>5. CallFits(c)
      BY <3>2, <3>3, <3>4 DEF CallFits
    <3> QED
      BY <3>2, <3>3, <3>5
  <2> QED
    BY <2>1, <2>2
<1>2. /\ UNCHANGED <<docs, books, razorpay, hooks, history>> /\ calls' \in Nat /\ faults' \in Nat
  BY DEF Deliver, CancelOpen, ResellerOpen, BillingInv, BillingTypeOK
<1>3. Aside(c)
  BY <1>1 DEF Aside
<1>4. \A p \in Payments : ~Activating(h, p)
  BY <1>1, IdleIs DEF Activating, At
<1>5. /\ SubsOK' /\ customer' \in [Accounts -> CustomerStates] /\ hooks' \subseteq hooks
      /\ c.op # "purchase"
  BY <1>1, <1>2 DEF docs, BillingInv, BillingTypeOK, SubsOK, NoneIsNone
<1> QED
  BY <1>1, <1>2, <1>3, <1>4, <1>5, PlainPreserves DEF docs

\* A call that ends with a write to a subscription document.
WritesSub(h) ==
  \/ Charged(h) \/ FailedHook(h) \/ CancelledHook(h) \/ CancelWrite(h) \/ PurchaseStatus(h)
  \/ AddSub(h) \/ SuspendSub(h) \/ ReactivateSub(h)

LEMMA SubWritten ==
  ASSUME BillingInv, NEW h \in Handlers, WritesSub(h)
  PROVE  SubsOK'
<1>0. SubsOK
  BY SubsAre
<1>1. call[h] # Idle
  BY IdleIs DEF WritesSub, Charged, FailedHook, CancelledHook, CancelWrite, PurchaseStatus, AddSub,
                SuspendSub, ReactivateSub, At
<1>2. PICK a \in Accounts : a = call[h].acc
  BY <1>1, CallIs DEF Calls
<1>3. PICK r \in Subscriptions : r = sub[a]
  BY <1>0 DEF SubsOK
<1>4. r.plan \in Plans /\ "custom" \in Plans
  BY DEF Subscriptions, Plans
<1>5. CASE sub' = sub
  BY <1>0, <1>5 DEF SubsOK, NoneIsNone
<1>6. CASE \E s \in Statuses \ {"none"} : SetStatus(a, s)
  BY <1>0, <1>6, StatusIs
<1>7. CASE \E p \in Plans : sub' = [sub EXCEPT ![a] = Activated(sub[a], p)]
  BY <1>0, <1>7, ActivatedIs
<1>8. CASE AddSub(h)
  <2> DEFINE t == [Activated(r, "custom") EXCEPT !.resold = TRUE]
  <2>1. t \in Subscriptions /\ t.status = "active" /\ t.periodEnd = "ahead"
    BY <1>4 DEF Subscriptions, Activated, Statuses
  <2>2. sub' = [sub EXCEPT ![a] = t]
    BY <1>2, <1>3, <1>8 DEF AddSub
  <2> HIDE DEF t
  <2>3. sub' \in [Accounts -> Subscriptions] /\ sub'[a] = t /\ \A b \in Accounts \ {a} : sub'[b] = sub[b]
    BY <1>0, <2>1, <2>2 DEF SubsOK
  <2> QED
    BY <1>0, <2>1, <2>3 DEF SubsOK, NoneIsNone
<1>9. CASE FailedHook(h) \/ CancelledHook(h) \/ CancelWrite(h) \/ PurchaseStatus(h) \/ SuspendSub(h)
  <2>1. \/ sub' = sub
        \/ \E s \in {"past_due", "cancelled", "credit_only", "suspended"} : SetStatus(a, s)
    BY <1>2, <1>9 DEF FailedHook, CancelledHook, CancelWrite, PurchaseStatus, SuspendSub
  <2>2. {"past_due", "cancelled", "credit_only", "suspended"} \subseteq Statuses \ {"none"}
    BY DEF Statuses
  <2> QED
    BY <1>5, <1>6, <2>1, <2>2
<1>10. CASE Charged(h) \/ ReactivateSub(h)
  <2>1. \/ sub' = [sub EXCEPT ![a] = sub[a]]
        \/ sub' = [sub EXCEPT ![a] = Activated(sub[a], sub[a].plan)]
    BY <1>2, <1>10 DEF Charged, ReactivateSub
  <2>2. [sub EXCEPT ![a] = sub[a]] = sub
    BY <1>0 DEF SubsOK
  <2> QED
    BY <1>3, <1>4, <1>5, <1>7, <2>1, <2>2
<1> QED
  BY <1>8, <1>9, <1>10 DEF WritesSub

LEMMA SubWritePreserves ==
  ASSUME BillingInv, NEW h \in Handlers, WritesSub(h)
  PROVE  BillingInv'
<1>1. SubsOK'
  BY SubWritten
<1>2. /\ Answer(h) \/ (End(h) /\ UNCHANGED outside)
      /\ UNCHANGED <<paid, customer, books, razorpay, calls, history>>
  BY DEF WritesSub, Charged, FailedHook, CancelledHook, CancelWrite, PurchaseStatus, AddSub,
         SuspendSub, ReactivateSub, outside
<1>3. call' = [call EXCEPT ![h] = Idle] /\ hooks' \subseteq hooks /\ faults' \in Nat
  BY <1>2, AnswerIs DEF End, outside, BillingInv, BillingTypeOK
<1>4. \A p \in Payments : ~Activating(h, p)
  BY DEF Activating, At, WritesSub, Charged, FailedHook, CancelledHook, CancelWrite, PurchaseStatus,
         AddSub, SuspendSub, ReactivateSub
<1>5. /\ Aside(Idle) /\ customer' \in [Accounts -> CustomerStates] /\ calls' \in Nat
      /\ Idle.op # "purchase"
  BY <1>2, IdleIs DEF Aside, BillingInv, BillingTypeOK
<1> QED
  BY <1>1, <1>2, <1>3, <1>4, <1>5, PlainPreserves

\* A call that only reads, and the write of a reseller's customer.
LEMMA StepAsidePreserves ==
  ASSUME BillingInv, NEW h \in Handlers, CancelRead(h) \/ ResellerRead(h) \/ CustomerWrite(h)
  PROVE  BillingInv'
<1>1. call[h] # Idle /\ call[h].op \in {"cancel", "add", "suspend", "reactivate"}
  <2>1. CASE CancelRead(h) \/ ResellerRead(h)
    BY <2>1, IdleIs DEF CancelRead, ResellerRead, At
  <2>2. CASE CustomerWrite(h)
    BY <2>2, CallIs DEF CustomerWrite, CallFits
  <2> QED
    BY <2>1, <2>2
<1>2. PICK c \in Calls \cup {Idle} : /\ call' = [call EXCEPT ![h] = c]
                                     /\ c # Idle => c.op = call[h].op /\ c.at \in {"sub", "customer"}
                                     /\ c # Idle /\ c.at = "customer" => c.op # "cancel"
  <2>1. CASE End(h)
    BY <2>1 DEF End
  <2>2. CASE \E step \in {"sub", "customer"} : Go(h, step) /\ (step = "customer" => call[h].op # "cancel")
    <3>1. PICK step \in {"sub", "customer"} : Go(h, step) /\ (step = "customer" => call[h].op # "cancel")
      BY <2>2
    <3>2. step \in Ats
      BY DEF Ats
    <3> QED
      BY <1>1, <3>1, <3>2, GoIs
  <2> QED
    BY <2>1, <2>2 DEF CancelRead, ResellerRead, CustomerWrite, At
<1>3. Aside(c)
  <2>1. CASE c = Idle
    BY <2>1 DEF Aside
  <2>2. CASE c # Idle
    <3>1. c \in Calls /\ CallFits(c)
      BY <1>1, <1>2, <2>2 DEF CallFits
    <3> QED
      BY <1>1, <1>2, <2>2, <3>1 DEF Aside
  <2> QED
    BY <2>1, <2>2
<1>4. /\ UNCHANGED <<sub, paid, books, outside, history>>
      /\ customer' \in [Accounts -> CustomerStates]
  <2>1. CASE CancelRead(h) \/ ResellerRead(h)
    BY <2>1 DEF CancelRead, ResellerRead, docs, BillingInv, BillingTypeOK
  <2>2. CASE CustomerWrite(h)
    BY <2>2 DEF CustomerWrite, CustomerStates, BillingInv, BillingTypeOK
  <2> QED
    BY <2>1, <2>2
<1>5. /\ SubsOK' /\ hooks' \subseteq hooks /\ calls' \in Nat /\ faults' \in Nat
      /\ c.op # "purchase"
  BY <1>1, <1>2, <1>4, IdleIs DEF outside, BillingInv, BillingTypeOK, SubsOK, NoneIsNone
<1>6. \A p \in Payments : ~Activating(h, p)
  BY <1>1 DEF Activating, At
<1> QED
  BY <1>2, <1>3, <1>4, <1>5, <1>6, PlainPreserves DEF outside

\* The client confirms a payment: one more period may be granted, one more try is counted.
LEMMA ConfirmUpgradePreserves ==
  ASSUME BillingInv, NEW h \in Handlers, Confirm(h, "upgrade", "plan", "sub")
  PROVE  BillingInv'
<1>1. PICK p \in Payments : /\ Buys[p] = "plan" /\ Open(h, "upgrade", p, Account(Owner[p]), "sub")
                            /\ tries' = [tries EXCEPT ![p] = @ + 1]
  BY DEF Confirm
<1>2. /\ UNCHANGED <<sub, paid, customer, balance, ledger, invoices, razorpay, hooks, faults, granted,
                     doubled, torn, topUps>>
      /\ calls' \in Nat
  BY DEF Confirm, docs, books, BillingInv, BillingTypeOK
<1>3. PICK c \in Calls : /\ call[h] = Idle /\ call' = [call EXCEPT ![h] = c]
                         /\ c.op = "upgrade" /\ c.pay = p /\ c.at = "sub"
  <2>1. Account(Owner[p]) \in Accounts /\ "upgrade" \in Ops /\ "sub" \in Ats
    BY AccountIs, BillingAssumption DEF Ops, Ats
  <2> QED
    BY <1>1, <2>1, OpenIs
<1>4. /\ call' \in [Handlers -> Calls \cup {Idle}] /\ call'[h] = c
      /\ \A g \in Handlers \ {h} : call'[g] = call[g]
  BY <1>3, MoveIs
<1>5. /\ tries' \in [Payments -> Nat] /\ tries'[p] = tries[p] + 1
      /\ \A q \in Payments \ {p} : tries'[q] = tries[q]
  BY <1>1 DEF BillingInv, BillingTypeOK
<1>6. BillingTypeOK' /\ NoneIsNone'
  BY <1>2, <1>4, <1>5 DEF BillingInv, BillingTypeOK, NoneIsNone
<1>7. CallsFit'
  <2>1. CallFits(c)
    BY <1>1, <1>3 DEF CallFits
  <2> QED
    BY <1>2, <1>4, <2>1 DEF BillingInv, CallsFit
<1>8. BooksInv'
  <2>1. TopUpsFit(c)
    BY <1>2, <1>3, TopUpsSame
  <2> QED
    BY <1>2, <1>3, <2>1, BooksKept
<1>9. ~At(h, "captured", "user") /\ ~At(h, "captured", "sub") /\ ~At(h, "upgrade", "sub")
  BY <1>3, IdleIs DEF At
<1>10. Marked'
  <2>1. \A q \in Payments : AlreadyProcessed(q)' <=> AlreadyProcessed(q)
    BY <1>2 DEF AlreadyProcessed
  <2>2. \A q \in Payments : \A g \in Handlers : Activating(g, q) => Activating(g, q)'
    BY <1>4, <1>9 DEF Activating, At
  <2>3. \A g \in Handlers : At(g, "upgrade", "user")' => At(g, "upgrade", "user") /\ call'[g] = call[g]
    BY <1>3, <1>4 DEF At
  <2> QED
    BY <1>2, <2>1, <2>2, <2>3 DEF BillingInv, MarksInv, Marked
<1>11. GrantsCovered'
  <2> SUFFICES ASSUME NEW q \in Payments \ doubled'
               PROVE  granted[q] + Cardinality(Granting(q)') + Unseen(q)' <= 1 + tries'[q]
    BY <1>2 DEF GrantsCovered
  <2>1. /\ granted[q] + Cardinality(Granting(q)) + Unseen(q) <= 1 + tries[q]
        /\ granted[q] \in Nat /\ tries[q] \in Nat /\ Unseen(q) \in 0..1
    BY <1>2, GrantsAre
  <2>2. Unseen(q)' = Unseen(q)
    BY <1>2, <1>3, <1>4, <1>9 DEF Unseen, AlreadyProcessed, At
  <2>3. CASE q = p
    <3>1. Granting(q)' = Granting(q) \cup {h} /\ h \notin Granting(q)
      BY <1>3, <1>4, <1>9, <2>3 DEF Granting, At
    <3>2. /\ Cardinality(Granting(q)') \in Nat
          /\ Cardinality(Granting(q)') <= Cardinality(Granting(q)) + 1
      BY <3>1, GrantingFinite, OneMore
    <3> QED
      BY <1>5, <2>1, <2>2, <2>3, <3>2, GrantingFinite
  <2>4. CASE q # p
    <3>1. Granting(q)' = Granting(q)
      BY <1>3, <1>4, <1>9, <2>4 DEF Granting, At
    <3> QED
      BY <1>5, <2>1, <2>2, <2>4, <3>1
  <2> QED
    BY <2>3, <2>4
<1> QED
  BY <1>6, <1>7, <1>8, <1>10, <1>11 DEF BillingInv, MarksInv

LEMMA ConfirmPurchasePreserves ==
  ASSUME BillingInv, NEW h \in Handlers, Confirm(h, "purchase", "credits", "credit")
  PROVE  BillingInv'
<1>1. PICK p \in Payments : /\ Buys[p] = "credits" /\ Open(h, "purchase", p, Account(Owner[p]), "credit")
                            /\ topUps' = [topUps EXCEPT ![Account(Owner[p])] = @ + 1]
                            /\ UNCHANGED tries
  BY DEF Confirm
<1>2. PICK c \in Calls : /\ call[h] = Idle /\ call' = [call EXCEPT ![h] = c]
                         /\ c.op = "purchase" /\ c.pay = p /\ c.acc = Account(Owner[p])
                         /\ c.at = "credit"
  <2>1. Account(Owner[p]) \in Accounts /\ "purchase" \in Ops /\ "credit" \in Ats
    BY AccountIs, BillingAssumption DEF Ops, Ats
  <2> QED
    BY <1>1, <2>1, OpenIs
<1>3. Aside(c)
  BY <1>1, <1>2 DEF Aside, CallFits
<1>4. tries' \in [Payments -> Nat] /\ \A q \in Payments : tries[q] <= tries'[q]
  BY <1>1 DEF BillingInv, BillingTypeOK
<1>5. topUps' \in [Accounts -> Nat] /\ TopUpsFit(c)
  <2>1. PICK a \in Accounts : a = Account(Owner[p])
    BY AccountIs, BillingAssumption
  <2>2. /\ topUps' \in [Accounts -> Nat] /\ topUps'[a] = topUps[a] + 1 /\ topUps[a] \in Nat
        /\ \A b \in Accounts \ {a} : topUps'[b] = topUps[b] /\ topUps[b] \in Nat
    BY <1>1, <2>1 DEF BillingInv, BillingTypeOK
  <2> QED
    BY <1>2, <2>1, <2>2 DEF TopUpsFit, Accounts
<1>6. /\ UNCHANGED <<sub, paid, customer, balance, ledger, invoices, razorpay, hooks, faults, granted,
                     doubled, torn>>
      /\ calls' \in Nat
  BY DEF Confirm, docs, books, BillingInv, BillingTypeOK
<1>7. /\ SubsOK' /\ customer' \in [Accounts -> CustomerStates] /\ faults' \in Nat
      /\ torn' \subseteq Payments /\ doubled' \subseteq Payments
  BY <1>6 DEF BillingInv, BillingTypeOK, SubsOK, NoneIsNone
<1>8. \A q \in Payments : ~Activating(h, q)
  BY <1>2, IdleIs DEF Activating, At
<1> QED
  BY <1>2, <1>3, <1>4, <1>6, <1>7, <1>8, <1>5, AsidePreserves

\* A confirmation past its grant writes to the books.
LEMMA BookPreserves ==
  ASSUME BillingInv, NEW h \in Handlers, NEW c \in Calls \cup {Idle}, call' = [call EXCEPT ![h] = c],
         c # Idle => CallFits(c) /\ c.op \in {"upgrade", "purchase"},
         c.op = "upgrade" => c.at \notin {"sub", "user"},
         call[h] # Idle, call[h].op \in {"upgrade", "purchase"},
         BooksInv', balance' \in [Accounts -> Nat], ledger' \subseteq Payments,
         invoices' \subseteq Invoices, UNCHANGED <<docs, outside, history>>
  PROVE  BillingInv'
<1>1. /\ call' \in [Handlers -> Calls \cup {Idle}] /\ call'[h] = c
      /\ \A g \in Handlers \ {h} : call'[g] = call[g]
  BY MoveIs
<1>2. UNCHANGED <<sub, paid, customer, razorpay, hooks, calls, faults, granted, doubled, torn, tries,
                  topUps>>
  BY DEF docs, outside, history
<1>3. BillingTypeOK' /\ NoneIsNone'
  BY <1>1, <1>2 DEF BillingInv, BillingTypeOK, NoneIsNone
<1>4. CallsFit'
  BY <1>1, <1>2 DEF BillingInv, CallsFit
<1>5. MarksInv'
  <2>1. c.op = "captured" => c.at \notin {"user", "sub"}
    BY IdleIs
  <2>2. \A p \in Payments : ~Activating(h, p)
    BY DEF Activating, At
  <2>3. \A p \in Payments : tries'[p] \in Nat /\ tries[p] <= tries'[p]
    BY <1>2 DEF BillingInv, BillingTypeOK
  <2> QED
    BY <1>2, <2>1, <2>2, <2>3, MarksKept
<1> QED
  BY <1>3, <1>4, <1>5 DEF BillingInv

LEMMA CountInvoicesPreserves ==
  ASSUME BillingInv, NEW h \in Handlers, CountInvoices(h)
  PROVE  BillingInv'
<1>1. PICK r \in Calls : r = call[h] /\ CallFits(r) /\ r.at = "count"
  BY CallIs DEF CountInvoices
<1>2. r.op \in {"upgrade", "purchase"}
  BY <1>1 DEF CallFits
<1>3. Cardinality(invoices) \in Nat
  BY FS_CardinalityType DEF BillingInv, BooksInv, NumbersFollow
<1>4. PICK n \in Nat : n = Cardinality(invoices) + 1
  BY <1>3
<1> DEFINE c == [r EXCEPT !.at = "invoice", !.no = n]
<1>5. /\ c \in Calls /\ c.at = "invoice" /\ c.no = n
      /\ c.op = r.op /\ c.pay = r.pay /\ c.acc = r.acc
  BY DEF Calls, Ats
<1>6. call' = [call EXCEPT ![h] = c]
  BY <1>1, <1>4 DEF CountInvoices
<1> HIDE DEF c
<1>7. CallFits(c)
  BY <1>1, <1>2, <1>5 DEF CallFits
<1>8. UNCHANGED <<docs, balance, ledger, invoices, outside, history>>
  BY DEF CountInvoices, books
<1>9. BooksInv'
  <2>1. c.no \in 1..(Cardinality(invoices) + 1)
    BY <1>3, <1>5, <1>4
  <2>2. \A p \in Payments : c.op = "purchase" /\ c.pay = p => Crediting(h, p)
    BY <1>1, <1>5 DEF Crediting
  <2>3. TopUpsFit(c)
    BY <1>5, <1>8, TopUpsSame DEF history
  <2> QED
    BY <1>5, <1>6, <1>8, <2>1, <2>2, <2>3, BooksKept
<1>10. balance' \in [Accounts -> Nat] /\ ledger' \subseteq Payments /\ invoices' \subseteq Invoices
  BY <1>8 DEF BillingInv, BillingTypeOK
<1>11. call[h] # Idle /\ call[h].op \in {"upgrade", "purchase"}
  BY <1>1, <1>2, IdleIs
<1> QED
  BY <1>2, <1>5, <1>6, <1>7, <1>8, <1>9, <1>10, <1>11, BookPreserves

\* An invoice is written with the number that follows, or not at all.
LEMMA InvoiceBooks ==
  ASSUME BillingInv, NEW h \in Handlers, call[h] # Idle, call[h].at = "invoice", Invoiced(h),
         NEW c \in Calls \cup {Idle}, call' = [call EXCEPT ![h] = c], c # Idle => c.at = "status",
         UNCHANGED <<ledger, balance, topUps>>
  PROVE  BooksInv' /\ invoices' \subseteq Invoices
<1>0. /\ call[h] \in Calls /\ CallFits(call[h])
      /\ call'[h] = c /\ \A g \in Handlers \ {h} : call'[g] = call[g]
  BY CallIs, MoveIs
<1>1. CASE Taken(call[h].no)
  <2>1. invoices' = invoices
    BY <1>1 DEF Invoiced
  <2>2. /\ c # Idle /\ c.at = "invoice" => c.no \in 1..(Cardinality(invoices) + 1)
        /\ \A p \in Payments :
             c.op = "purchase" /\ c.at \in {"count", "invoice"} /\ c.pay = p => Crediting(h, p)
        /\ c.op = "purchase" => c.at # "row"
    BY IdleIs
  <2>3. TopUpsFit(c)
    BY IdleIs, TopUpsSame
  <2> QED
    BY <2>1, <2>2, <2>3, BooksKept DEF BillingInv, BillingTypeOK
<1>2. CASE ~Taken(call[h].no)
  <2>1. PICK n, p : n = call[h].no /\ p = call[h].pay
    OBVIOUS
  <2>2. p \in Payments /\ call[h].op \in {"upgrade", "purchase"}
    BY <1>0, <2>1 DEF CallFits
  <2> DEFINE i == [no |-> n, pay |-> p]
  <2>3. invoices' = invoices \cup {i} /\ i \notin invoices /\ \A j \in invoices : j.no # n
    BY <1>2, <2>1 DEF Invoiced, Taken
  <2>4. IsFiniteSet(invoices) /\ Cardinality(invoices) \in Nat
    BY FS_CardinalityType DEF BillingInv, BooksInv, NumbersFollow
  <2>5. IsFiniteSet(invoices') /\ Cardinality(invoices') = Cardinality(invoices) + 1
    BY <2>3, <2>4, FS_AddElement
  <2>6. n = Cardinality(invoices) + 1
    <3>1. n \in 1..(Cardinality(invoices) + 1)
      BY <2>1 DEF BillingInv, BooksInv, NumbersFollow, Numbered
    <3>2. n \notin {j.no : j \in invoices}
      BY <2>3
    <3>3. n \notin 1..Cardinality(invoices)
      BY <3>2 DEF BillingInv, BooksInv, InvoicesContiguous
    <3> QED
      BY <2>4, <3>1, <3>3
  <2>7. i \in Invoices
    BY <2>2, <2>4, <2>6 DEF Invoices
  <2>8. invoices' \subseteq Invoices
    BY <2>3, <2>7 DEF BillingInv, BillingTypeOK
  <2>9. InvoicesContiguous'
    <3>1. {j.no : j \in invoices'} = {j.no : j \in invoices} \cup {n}
      BY <2>3
    <3>2. {j.no : j \in invoices'} = 1..Cardinality(invoices) \cup {Cardinality(invoices) + 1}
      BY <2>6, <3>1 DEF BillingInv, BooksInv, InvoicesContiguous
    <3> QED
      BY <2>4, <2>5, <3>2 DEF InvoicesContiguous
  <2>10. NumbersFollow'
    <3>1. \A g \in Handlers : Numbered(g)' => Numbered(g) /\ call'[g].no = call[g].no
      BY <1>0 DEF Numbered
    <3> QED
      BY <2>4, <2>5, <3>1 DEF BillingInv, BooksInv, NumbersFollow
  <2>11. RowIsFirst'
    <3>1. \A q \in Payments : Billed(q)' => Billed(q) \/ q = p
      BY <2>3 DEF Billed
    <3>2. \A q \in Payments, g \in Handlers : Crediting(g, q)' => Crediting(g, q) /\ g # h
      BY <1>0, IdleIs DEF Crediting
    <3>3. Buys[p] = "credits" => Crediting(h, p)
      BY <1>0, <2>1, <2>2 DEF CallFits, Crediting
    <3> QED
      BY <3>1, <3>2, <3>3 DEF BillingInv, BooksInv, RowIsFirst
  <2>12. CreditInvoicedOnce'
    <3>1. Buys[p] = "credits" => p \in ledger /\ \A j \in invoices : j.pay # p
      BY <1>0, <2>1, <2>2 DEF CallFits, Crediting, Billed, BillingInv, BooksInv, RowIsFirst
    <3> QED
      BY <2>3, <3>1 DEF BillingInv, BooksInv, CreditInvoicedOnce
  <2>13. RowsDue'
    <3>1. \A a \in Users : RowDue(a)' = RowDue(a)
      BY <1>0, IdleIs DEF RowDue, At
    <3> QED
      BY <3>1 DEF BillingInv, BooksInv, RowsDue, BoughtBy
  <2>14. AskedFor'
    <3>1. \A a \in Users : CreditDue(a)' = CreditDue(a)
      BY <1>0, IdleIs DEF CreditDue, At
    <3> QED
      BY <3>1 DEF BillingInv, BooksInv, AskedFor
  <2> QED
    BY <2>8, <2>9, <2>10, <2>11, <2>12, <2>13, <2>14 DEF BooksInv
<1> QED
  BY <1>1, <1>2

LEMMA InvoicePreserves ==
  ASSUME BillingInv, NEW h \in Handlers, PlanInvoice(h) \/ CreditInvoice(h)
  PROVE  BillingInv'
<1>1. /\ call[h] # Idle /\ call[h].at = "invoice" /\ call[h].op \in {"upgrade", "purchase"}
      /\ Invoiced(h) /\ UNCHANGED <<docs, balance, ledger, outside, history>>
      /\ End(h) \/ (Go(h, "status") /\ call[h].op = "purchase")
  BY IdleIs DEF PlanInvoice, CreditInvoice, At
<1>2. PICK c \in Calls \cup {Idle} : /\ call' = [call EXCEPT ![h] = c]
                                     /\ c # Idle => /\ c.at = "status" /\ c.op = "purchase"
                                                    /\ c.op = call[h].op /\ c.pay = call[h].pay
                                                    /\ c.acc = call[h].acc
  <2>1. CASE End(h)
    BY <2>1 DEF End
  <2>2. CASE Go(h, "status") /\ call[h].op = "purchase"
    <3>1. "status" \in Ats
      BY DEF Ats
    <3> QED
      BY <1>1, <2>2, <3>1, GoIs
  <2> QED
    BY <1>1, <2>1, <2>2
<1>3. c # Idle => CallFits(c) /\ c.op \in {"upgrade", "purchase"}
  BY <1>1, <1>2, CallIs DEF CallFits
<1>4. c.op = "upgrade" => c.at \notin {"sub", "user"}
  BY <1>2, IdleIs
<1>5. BooksInv' /\ invoices' \subseteq Invoices
  BY <1>1, <1>2, InvoiceBooks DEF history
<1>6. balance' \in [Accounts -> Nat] /\ ledger' \subseteq Payments
  BY <1>1 DEF BillingInv, BillingTypeOK
<1> QED
  BY <1>1, <1>2, <1>3, <1>4, <1>5, <1>6, BookPreserves

\* The balance grows before the row that explains it is written.
LEMMA CreditPreserves ==
  ASSUME BillingInv, NEW h \in Handlers, PurchaseCredit(h)
  PROVE  BillingInv'
<1>1. /\ call[h] # Idle /\ call[h].op = "purchase" /\ call[h].at = "credit" /\ Go(h, "row")
      /\ UNCHANGED <<docs, ledger, invoices, outside, history>>
  BY IdleIs DEF PurchaseCredit, At
<1>2. PICK c \in Calls : /\ call' = [call EXCEPT ![h] = c] /\ c.at = "row" /\ c.op = "purchase"
                         /\ c.pay = call[h].pay /\ c.acc = call[h].acc
  <2>1. "row" \in Ats
    BY DEF Ats
  <2> QED
    BY <1>1, <2>1, GoIs
<1>3. /\ call'[h] = c /\ \A g \in Handlers \ {h} : call'[g] = call[g]
      /\ CallFits(call[h])
  BY <1>1, <1>2, MoveIs, CallIs
<1>4. c \in Calls /\ CallFits(c)
  BY <1>1, <1>2, <1>3 DEF CallFits
<1>5. PICK a \in Accounts : a = call[h].acc
  BY <1>2 DEF Calls
<1>6. /\ balance' \in [Accounts -> Nat] /\ balance'[a] = balance[a] + 1
      /\ \A b \in Accounts \ {a} : balance'[b] = balance[b]
  BY <1>5 DEF PurchaseCredit, TopUp, BillingInv, BillingTypeOK
<1>7. NumbersFollow' /\ InvoicesContiguous' /\ CreditInvoicedOnce'
  <2>1. \A g \in Handlers : Numbered(g)' => Numbered(g) /\ call'[g].no = call[g].no
    BY <1>2, <1>3 DEF Numbered
  <2> QED
    BY <1>1, <2>1 DEF BillingInv, BooksInv, NumbersFollow, InvoicesContiguous, CreditInvoicedOnce
<1>8. RowIsFirst'
  <2>1. \A p \in Payments : \A g \in Handlers : Crediting(g, p)' => Crediting(g, p)
    BY <1>2, <1>3 DEF Crediting
  <2>2. \A p \in Payments : Billed(p)' <=> Billed(p)
    BY <1>1 DEF Billed
  <2> QED
    BY <1>1, <2>1, <2>2 DEF BillingInv, BooksInv, RowIsFirst
<1>9. RowsDue'
  <2> SUFFICES ASSUME NEW b \in Users
               PROVE  /\ IsFiniteSet(ledger \cap BoughtBy(b))
                      /\ Cardinality(ledger \cap BoughtBy(b)) + Cardinality(RowDue(b)') <= balance'[b]
    BY <1>1 DEF RowsDue, BoughtBy
  <2>1. /\ IsFiniteSet(ledger \cap BoughtBy(b)) /\ b \in Accounts
        /\ Cardinality(ledger \cap BoughtBy(b)) + Cardinality(RowDue(b)) <= balance[b]
        /\ balance[b] \in Nat
    BY DEF BillingInv, BooksInv, RowsDue, BillingTypeOK, Accounts
  <2>2. Cardinality(ledger \cap BoughtBy(b)) \in Nat
    BY <2>1, FS_CardinalityType
  <2>3. IsFiniteSet(RowDue(b))
    BY BillingAssumption, FS_Subset, RowDue(b) \subseteq Handlers DEF RowDue
  <2>4. CASE b = a
    <3>1. RowDue(b)' \subseteq RowDue(b) \cup {h}
      BY <1>3 DEF RowDue, At
    <3>2. /\ Cardinality(RowDue(b)') <= Cardinality(RowDue(b)) + 1
          /\ Cardinality(RowDue(b)') \in Nat /\ Cardinality(RowDue(b)) \in Nat
      BY <2>3, <3>1, OneMore
    <3> QED
      BY <1>6, <2>1, <2>2, <2>4, <3>2
  <2>5. CASE b # a
    <3>1. RowDue(b)' \subseteq RowDue(b)
      BY <1>2, <1>3, <1>5, <2>5 DEF RowDue, At
    <3>2. /\ Cardinality(RowDue(b)') <= Cardinality(RowDue(b))
          /\ Cardinality(RowDue(b)') \in Nat /\ Cardinality(RowDue(b)) \in Nat
      BY <2>3, <3>1, Fewer
    <3> QED
      BY <1>6, <2>1, <2>2, <2>5, <3>2
  <2> QED
    BY <2>4, <2>5
<1>10. AskedFor'
  <2> SUFFICES ASSUME NEW b \in Users
               PROVE  balance'[b] + Cardinality(CreditDue(b)') <= topUps[b]
    BY <1>1 DEF AskedFor, history
  <2>1. /\ balance[b] \in Nat /\ topUps[b] \in Nat /\ b \in Accounts
        /\ balance[b] + Cardinality(CreditDue(b)) <= topUps[b]
    BY AskedAre DEF Accounts
  <2>2. CASE b = a
    <3>1. h \in CreditDue(b) /\ CreditDue(b)' \subseteq CreditDue(b) \ {h}
      BY <1>1, <1>2, <1>3, <1>5, <2>2 DEF CreditDue, At
    <3>2. /\ Cardinality(CreditDue(b)') + 1 <= Cardinality(CreditDue(b))
          /\ Cardinality(CreditDue(b)') \in Nat /\ Cardinality(CreditDue(b)) \in Nat
      BY <3>1, CreditDueFinite, OneLess
    <3> QED
      BY <1>6, <2>1, <2>2, <3>2
  <2>3. CASE b # a
    <3>1. CreditDue(b)' \subseteq CreditDue(b)
      BY <1>2, <1>3 DEF CreditDue, At
    <3>2. /\ Cardinality(CreditDue(b)') <= Cardinality(CreditDue(b))
          /\ Cardinality(CreditDue(b)') \in Nat /\ Cardinality(CreditDue(b)) \in Nat
      BY <3>1, CreditDueFinite, Fewer
    <3> QED
      BY <1>6, <2>1, <2>3, <3>2
  <2> QED
    BY <2>2, <2>3
<1>11. BooksInv' /\ ledger' \subseteq Payments /\ invoices' \subseteq Invoices
  BY <1>1, <1>7, <1>8, <1>9, <1>10 DEF BooksInv, BillingInv, BillingTypeOK
<1> QED
  BY <1>1, <1>2, <1>4, <1>6, <1>11, BookPreserves

\* The row of a payment is written once, by a call whose credits were added.
LEMMA RowPreserves ==
  ASSUME BillingInv, NEW h \in Handlers, PurchaseRow(h)
  PROVE  BillingInv'
<1>1. /\ call[h] # Idle /\ call[h].op = "purchase" /\ call[h].at = "row"
      /\ UNCHANGED <<docs, balance, invoices, outside, history>>
      /\ call[h] \in Calls /\ CallFits(call[h])
  BY IdleIs, CallIs DEF PurchaseRow, At
<1>2. CASE End(h) /\ UNCHANGED ledger
  <2>1. call' = [call EXCEPT ![h] = Idle] /\ Aside(Idle)
    BY <1>2 DEF End, Aside
  <2>2. UNCHANGED <<docs, books, outside, history>>
    BY <1>1, <1>2 DEF books
  <2>3. \A p \in Payments : ~Activating(h, p)
    BY <1>1 DEF Activating, At
  <2>4. SubsOK' /\ customer' \in [Accounts -> CustomerStates] /\ hooks' \subseteq hooks
    BY <2>2 DEF docs, outside, BillingInv, BillingTypeOK, SubsOK, NoneIsNone
  <2>5. calls' \in Nat /\ faults' \in Nat /\ UNCHANGED <<paid, razorpay>>
    BY <2>2 DEF docs, outside, BillingInv, BillingTypeOK
  <2> QED
    BY <2>1, <2>2, <2>3, <2>4, <2>5, IdleIs, PlainPreserves
<1>3. CASE /\ AcceptsRow(call[h].pay, call[h].acc)
           /\ ledger' = ledger \cup {call[h].pay} /\ Go(h, "count")
  <2>1. PICK c \in Calls : /\ call' = [call EXCEPT ![h] = c] /\ c.at = "count" /\ c.op = "purchase"
                           /\ c.pay = call[h].pay /\ c.acc = call[h].acc
    <3>1. "count" \in Ats
      BY DEF Ats
    <3> QED
      BY <1>1, <1>3, <3>1, GoIs
  <2>2. call'[h] = c /\ \A g \in Handlers \ {h} : call'[g] = call[g]
    BY <2>1, MoveIs
  <2>3. CallFits(c)
    BY <1>1, <2>1 DEF CallFits
  <2>4. PICK p \in Payments, a \in Users : /\ p = call[h].pay /\ a = call[h].acc /\ p \notin ledger
                                           /\ p \in BoughtBy(a) /\ ledger' = ledger \cup {p}
                                           /\ a = Account(Owner[p])
    BY <1>1, <1>3 DEF Calls, CallFits, AcceptsRow, Accounts, BoughtBy
  <2>5. NumbersFollow' /\ InvoicesContiguous' /\ CreditInvoicedOnce'
    <3>1. \A g \in Handlers : Numbered(g)' => Numbered(g) /\ call'[g].no = call[g].no
      BY <2>1, <2>2 DEF Numbered
    <3>2. ledger \subseteq ledger'
      BY <2>4
    <3> QED
      BY <1>1, <3>1, <3>2 DEF BillingInv, BooksInv, NumbersFollow, InvoicesContiguous, CreditInvoicedOnce
  <2>6. RowIsFirst'
    <3>1. \A q \in Payments, g \in Handlers : Crediting(g, q)' => Crediting(g, q) \/ (g = h /\ q = p)
      BY <2>1, <2>2, <2>4 DEF Crediting
    <3>2. \A q \in Payments : Billed(q)' <=> Billed(q)
      BY <1>1 DEF Billed
    <3>3. Buys[p] = "credits" => ~Billed(p) /\ \A g \in Handlers : ~Crediting(g, p)
      BY <2>4 DEF BillingInv, BooksInv, RowIsFirst
    <3> QED
      BY <2>4, <3>1, <3>2, <3>3 DEF BillingInv, BooksInv, RowIsFirst
  <2>7. RowsDue'
    <3> SUFFICES ASSUME NEW b \in Users
                 PROVE  /\ IsFiniteSet(ledger' \cap BoughtBy(b))
                        /\ Cardinality(ledger' \cap BoughtBy(b)) + Cardinality(RowDue(b)') <= balance[b]
      BY <1>1 DEF RowsDue, BoughtBy
    <3>1. /\ IsFiniteSet(ledger \cap BoughtBy(b)) /\ b \in Accounts
          /\ Cardinality(ledger \cap BoughtBy(b)) + Cardinality(RowDue(b)) <= balance[b]
          /\ balance[b] \in Nat
      BY DEF BillingInv, BooksInv, RowsDue, BillingTypeOK, Accounts
    <3>2. IsFiniteSet(RowDue(b))
      BY BillingAssumption, FS_Subset, RowDue(b) \subseteq Handlers DEF RowDue
    <3>3. CASE b = a
      <4>1. ledger' \cap BoughtBy(b) \subseteq (ledger \cap BoughtBy(b)) \cup {p}
        BY <2>4
      <4>2. /\ IsFiniteSet(ledger' \cap BoughtBy(b)) /\ Cardinality(ledger \cap BoughtBy(b)) \in Nat
            /\ Cardinality(ledger' \cap BoughtBy(b)) \in Nat
            /\ Cardinality(ledger' \cap BoughtBy(b)) <= Cardinality(ledger \cap BoughtBy(b)) + 1
        BY <3>1, <4>1, OneMore
      <4>3. h \in RowDue(b) /\ RowDue(b)' \subseteq RowDue(b) \ {h}
        BY <1>1, <2>1, <2>2, <2>4, <3>3 DEF RowDue, At
      <4>4. /\ Cardinality(RowDue(b)') + 1 <= Cardinality(RowDue(b))
            /\ Cardinality(RowDue(b)') \in Nat /\ Cardinality(RowDue(b)) \in Nat
        BY <3>2, <4>3, OneLess
      <4> QED
        BY <3>1, <4>2, <4>4
    <3>4. CASE b # a
      <4>1. ledger' \cap BoughtBy(b) = ledger \cap BoughtBy(b)
        BY <2>4, <3>4 DEF BoughtBy
      <4>2. RowDue(b)' \subseteq RowDue(b)
        BY <2>1, <2>2 DEF RowDue, At
      <4>3. /\ Cardinality(RowDue(b)') <= Cardinality(RowDue(b))
            /\ Cardinality(RowDue(b)') \in Nat /\ Cardinality(RowDue(b)) \in Nat
        BY <3>2, <4>2, Fewer
      <4>4. Cardinality(ledger \cap BoughtBy(b)) \in Nat
        BY <3>1, FS_CardinalityType
      <4>5. /\ IsFiniteSet(ledger' \cap BoughtBy(b))
            /\ Cardinality(ledger' \cap BoughtBy(b)) = Cardinality(ledger \cap BoughtBy(b))
        BY <3>1, <4>1
      <4> QED
        BY <3>1, <4>3, <4>4, <4>5
    <3> QED
      BY <3>3, <3>4
  <2>8. AskedFor'
    <3>1. \A b \in Users : CreditDue(b)' = CreditDue(b)
      BY <1>1, <2>1, <2>2 DEF CreditDue, At
    <3> QED
      BY <1>1, <3>1 DEF BillingInv, BooksInv, AskedFor, history
  <2>9. /\ BooksInv' /\ ledger' \subseteq Payments /\ invoices' \subseteq Invoices
        /\ balance' \in [Accounts -> Nat]
    BY <1>1, <2>4, <2>5, <2>6, <2>7, <2>8 DEF BooksInv, BillingInv, BillingTypeOK
  <2> QED
    BY <1>1, <2>1, <2>3, <2>9, BookPreserves
<1> QED
  BY <1>2, <1>3 DEF PurchaseRow

\* A period is granted: what was about to be is done.
LEMMA GrantPreserves ==
  ASSUME BillingInv, NEW h \in Handlers, At(h, "captured", "sub") \/ At(h, "upgrade", "sub"), Grant(h),
         NEW c \in Calls \cup {Idle}, call' = [call EXCEPT ![h] = c],
         c # Idle => /\ c.op = "upgrade" /\ c.op = call[h].op /\ c.at = "user"
                     /\ c.pay = call[h].pay /\ c.acc = call[h].acc,
         hooks' \subseteq hooks, faults' \in Nat,
         UNCHANGED <<paid, customer, books, razorpay, calls, doubled, torn, tries, topUps>>
  PROVE  BillingInv'
<1>1. call[h] # Idle /\ call[h] \in Calls /\ CallFits(call[h])
  BY IdleIs, CallIs DEF At
<1>2. /\ call' \in [Handlers -> Calls \cup {Idle}] /\ call'[h] = c
      /\ \A g \in Handlers \ {h} : call'[g] = call[g]
  BY MoveIs
<1>3. PICK p \in Payments, a \in Accounts : p = call[h].pay /\ a = call[h].acc
  BY <1>1 DEF At, CallFits, Calls
<1>4. SubsOK'
  <2>1. p \in Plans /\ sub' = [sub EXCEPT ![a] = Activated(sub[a], p)]
    BY <1>3 DEF Grant, Plans
  <2> QED
    BY <2>1, SubsAre, ActivatedIs
<1>5. /\ granted' \in [Payments -> Nat] /\ granted'[p] = granted[p] + 1
      /\ \A q \in Payments \ {p} : granted'[q] = granted[q]
  BY <1>3 DEF Grant, BillingInv, BillingTypeOK
<1>6. BillingTypeOK' /\ NoneIsNone'
  BY <1>2, <1>4, <1>5 DEF BillingInv, BillingTypeOK, SubsOK, books
<1>7. CallsFit'
  <2>1. c # Idle => CallFits(c)
    BY <1>1 DEF CallFits
  <2> QED
    BY <1>2, <2>1 DEF BillingInv, CallsFit
<1>8. BooksInv'
  <2>1. UNCHANGED <<ledger, balance, invoices>>
    BY DEF books
  <2>2. /\ c # Idle /\ c.at = "invoice" => c.no \in 1..(Cardinality(invoices) + 1)
        /\ \A q \in Payments :
             c.op = "purchase" /\ c.at \in {"count", "invoice"} /\ c.pay = q => Crediting(h, q)
        /\ c.op = "purchase" => c.at # "row"
    BY IdleIs
  <2>3. TopUpsFit(c)
    BY IdleIs, TopUpsSame
  <2> QED
    BY <2>1, <2>2, <2>3, BooksKept
<1>9. Marked'
  <2>1. \A q \in Payments : AlreadyProcessed(q)' <=> AlreadyProcessed(q)
    BY DEF AlreadyProcessed
  <2>2. \A q \in Payments : granted[q] \in Nat /\ (granted[q] > 0 => granted'[q] > 0) /\ granted'[p] > 0
    BY <1>5 DEF BillingInv, BillingTypeOK
  <2>3. \A q \in Payments : \A g \in Handlers : Activating(g, q) => Activating(g, q)' \/ q = p
    BY <1>2, <1>3 DEF Activating, At
  <2>4. \A q \in Payments : AlreadyProcessed(q)' =>
          granted'[q] > 0 \/ q \in torn' \/ \E g \in Handlers : Activating(g, q)'
    BY <2>1, <2>2, <2>3 DEF BillingInv, MarksInv, Marked
  <2>5. ASSUME NEW g \in Handlers, At(g, "upgrade", "user")'
        PROVE  granted'[call'[g].pay] > 0
    <3>1. CASE g = h
      BY <1>2, <1>3, <2>2, <2>5, <3>1, IdleIs DEF At
    <3>2. CASE g # h
      <4>1. call'[g] = call[g] /\ At(g, "upgrade", "user") /\ granted[call[g].pay] > 0
        BY <1>2, <2>5, <3>2 DEF At, BillingInv, MarksInv, Marked
      <4>2. call[g].pay \in Payments
        BY <4>1, CallIs, IdleIs DEF At, CallFits
      <4> QED
        BY <2>2, <4>1, <4>2
    <3> QED
      BY <3>1, <3>2
  <2> QED
    BY <2>4, <2>5 DEF Marked
<1>10. GrantsCovered'
  <2> SUFFICES ASSUME NEW q \in Payments \ doubled
               PROVE  granted'[q] + Cardinality(Granting(q)') + Unseen(q)' <= 1 + tries[q]
    BY DEF GrantsCovered
  <2>1. /\ granted[q] + Cardinality(Granting(q)) + Unseen(q) <= 1 + tries[q]
        /\ granted[q] \in Nat /\ tries[q] \in Nat /\ Unseen(q) \in 0..1
    BY GrantsAre
  <2>2. Unseen(q)' = Unseen(q)
    BY <1>2, IdleIs DEF Unseen, AlreadyProcessed, At
  <2>3. CASE q = p
    <3>1. h \in Granting(q) /\ Granting(q)' \subseteq Granting(q) \ {h}
      BY <1>2, <1>3, <2>3, IdleIs DEF Granting, At
    <3>2. /\ Cardinality(Granting(q)') + 1 <= Cardinality(Granting(q))
          /\ Cardinality(Granting(q)') \in Nat /\ Cardinality(Granting(q)) \in Nat
      BY <3>1, GrantingFinite, OneLess
    <3> QED
      BY <1>5, <2>1, <2>2, <2>3, <3>2
  <2>4. CASE q # p
    <3>1. Granting(q)' \subseteq Granting(q)
      BY <1>2, <1>3, <2>4, IdleIs DEF Granting, At
    <3>2. /\ Cardinality(Granting(q)') <= Cardinality(Granting(q))
          /\ Cardinality(Granting(q)') \in Nat /\ Cardinality(Granting(q)) \in Nat
      BY <3>1, GrantingFinite, Fewer
    <3> QED
      BY <1>5, <2>1, <2>2, <2>4, <3>2
  <2> QED
    BY <2>3, <2>4
<1> QED
  BY <1>6, <1>7, <1>8, <1>9, <1>10 DEF BillingInv, MarksInv

LEMMA SubGrantPreserves ==
  ASSUME BillingInv, NEW h \in Handlers, CapturedSub(h) \/ UpgradeSub(h)
  PROVE  BillingInv'
<1>1. CASE CapturedSub(h)
  <2>1. call' = [call EXCEPT ![h] = Idle] /\ hooks' \subseteq hooks /\ faults' \in Nat
    BY <1>1, AnswerIs DEF CapturedSub
  <2> QED
    BY <1>1, <2>1, GrantPreserves DEF CapturedSub
<1>2. CASE UpgradeSub(h)
  <2>1. /\ call[h] # Idle /\ call[h].op = "upgrade" /\ Go(h, "user") /\ "user" \in Ats
        /\ UNCHANGED <<paid, customer, books, outside, doubled, torn, tries, topUps>>
    BY <1>2, IdleIs DEF UpgradeSub, At, Ats
  <2>2. PICK c \in Calls : /\ call' = [call EXCEPT ![h] = c] /\ c.at = "user" /\ c.op = "upgrade"
                           /\ c.pay = call[h].pay /\ c.acc = call[h].acc
    BY <2>1, GoIs
  <2>3. hooks' \subseteq hooks /\ faults' \in Nat /\ UNCHANGED <<razorpay, calls>>
    BY <2>1 DEF outside, BillingInv, BillingTypeOK
  <2> QED
    BY <1>2, <2>1, <2>2, <2>3, GrantPreserves DEF UpgradeSub
<1> QED
  BY <1>1, <1>2

\* A payment becomes the one remembered; the one before it may be granted again.
LEMMA MarkPreserves ==
  ASSUME BillingInv, NEW h \in Handlers, MarkPaid(h), NEW c \in Calls, call' = [call EXCEPT ![h] = c],
         \/ At(h, "captured", "user") /\ c.at = "sub"
         \/ At(h, "upgrade", "user") /\ c.at = "count",
         c.op = call[h].op /\ c.pay = call[h].pay /\ c.acc = call[h].acc,
         UNCHANGED <<sub, customer, books, outside, granted, torn, tries, topUps>>
  PROVE  BillingInv'
<1>1. /\ call[h] # Idle /\ call[h] \in Calls /\ CallFits(call[h])
      /\ call[h].op \in {"captured", "upgrade"}
  BY IdleIs, CallIs DEF At
<1>2. /\ call' \in [Handlers -> Calls \cup {Idle}] /\ call'[h] = c
      /\ \A g \in Handlers \ {h} : call'[g] = call[g]
  BY MoveIs
<1>3. PICK p \in Payments, a \in Accounts : p = call[h].pay /\ a = call[h].acc
  BY <1>1 DEF CallFits, Calls
<1>4. /\ paid' \in [Accounts -> Payments \cup {NoPlan}] /\ paid'[a] = p
      /\ \A b \in Accounts \ {a} : paid'[b] = paid[b]
      /\ doubled' = doubled \cup ({paid[a]} \ {NoPlan, p})
  BY <1>3 DEF MarkPaid, BillingInv, BillingTypeOK
<1>5. BillingTypeOK' /\ NoneIsNone'
  BY <1>2, <1>4 DEF BillingInv, BillingTypeOK, NoneIsNone, books, outside
<1>6. CallsFit'
  <2>1. CallFits(c)
    BY <1>1 DEF CallFits, At
  <2> QED
    BY <1>2, <2>1 DEF BillingInv, CallsFit, outside
<1>7. BooksInv'
  <2>1. UNCHANGED <<ledger, balance, invoices>>
    BY DEF books
  <2>2. /\ c # Idle /\ c.at = "invoice" => c.no \in 1..(Cardinality(invoices) + 1)
        /\ \A q \in Payments :
             c.op = "purchase" /\ c.at \in {"count", "invoice"} /\ c.pay = q => Crediting(h, q)
        /\ c.op = "purchase" => c.at # "row"
    BY <1>1
  <2>3. TopUpsFit(c)
    BY <1>1, TopUpsSame
  <2> QED
    BY <2>1, <2>2, <2>3, BooksKept
<1>8. \A q \in Payments : AlreadyProcessed(q)' => AlreadyProcessed(q) \/ q = p
  BY <1>4 DEF AlreadyProcessed
<1>9. Marked'
  <2>1. granted[p] > 0 \/ Activating(h, p)'
    BY <1>1, <1>2, <1>3, IdleIs DEF Activating, At, BillingInv, MarksInv, Marked, Calls
  <2>2. \A q \in Payments : \A g \in Handlers : Activating(g, q) => Activating(g, q)'
    BY <1>2 DEF Activating, At
  <2>3. \A g \in Handlers : At(g, "upgrade", "user")' => At(g, "upgrade", "user") /\ call'[g] = call[g]
    BY <1>1, <1>2 DEF At
  <2> QED
    BY <1>8, <2>1, <2>2, <2>3 DEF BillingInv, MarksInv, Marked
<1>10. GrantsCovered'
  <2> SUFFICES ASSUME NEW q \in Payments \ doubled'
               PROVE  granted[q] + Cardinality(Granting(q)') + Unseen(q)' <= 1 + tries[q]
    BY DEF GrantsCovered
  <2>1. /\ granted[q] + Cardinality(Granting(q)) + Unseen(q) <= 1 + tries[q]
        /\ granted[q] \in Nat /\ tries[q] \in Nat /\ Unseen(q) \in 0..1 /\ Unseen(q)' \in 0..1
    BY <1>4, GrantsAre DEF Unseen
  <2>2. Granting(q)' \subseteq Granting(q)
    BY <1>2, <1>3 DEF Granting, At
  <2>3. /\ Cardinality(Granting(q)') <= Cardinality(Granting(q))
        /\ Cardinality(Granting(q)') \in Nat /\ Cardinality(Granting(q)) \in Nat
    BY <2>2, GrantingFinite, Fewer
  <2>4. Unseen(q)' <= Unseen(q)
    <3>1. CASE q = p
      <4>1. Unseen(q)' = 0
        BY <1>4, <3>1 DEF Unseen, AlreadyProcessed
      <4> QED
        BY <2>1, <4>1
    <3>2. CASE q # p
      <4>1. AlreadyProcessed(q) => AlreadyProcessed(q)'
        <5> SUFFICES ASSUME NEW b \in Accounts, paid[b] = q
                     PROVE  AlreadyProcessed(q)'
          BY DEF AlreadyProcessed
        <5>1. q # NoPlan
          BY BillingAssumption DEF NoPlan
        <5>2. b # a
          BY <1>4, <3>2, <5>1
        <5> QED
          BY <1>4, <5>2 DEF AlreadyProcessed
      <4>2. \A g \in Handlers : At(g, "captured", "user") /\ call[g].pay = q
                                  => At(g, "captured", "user")' /\ call'[g].pay = q
        BY <1>2, <1>3, <3>2 DEF At
      <4>3. CASE Unseen(q)' = 1
        <5>1. Unseen(q) = 1
          BY <4>1, <4>2, <4>3 DEF Unseen
        <5> QED
          BY <4>3, <5>1
      <4>4. CASE Unseen(q)' = 0
        BY <2>1, <4>4
      <4> QED
        BY <2>1, <4>3, <4>4
    <3> QED
      BY <3>1, <3>2
  <2> QED
    BY <2>1, <2>3, <2>4
<1> QED
  BY <1>5, <1>6, <1>7, <1>9, <1>10 DEF BillingInv, MarksInv

LEMMA UserMarkPreserves ==
  ASSUME BillingInv, NEW h \in Handlers, CapturedUser(h) \/ UpgradeUser(h)
  PROVE  BillingInv'
<1>1. PICK step \in {"sub", "count"} :
        /\ Go(h, step) /\ MarkPaid(h)
        /\ \/ At(h, "captured", "user") /\ step = "sub"
           \/ At(h, "upgrade", "user") /\ step = "count"
        /\ UNCHANGED <<sub, customer, books, outside, granted, torn, tries, topUps>>
  BY DEF CapturedUser, UpgradeUser
<1>2. call[h] # Idle /\ step \in Ats
  BY <1>1, IdleIs DEF At, Ats
<1>3. PICK c \in Calls : /\ call' = [call EXCEPT ![h] = c] /\ c.at = step
                         /\ c.op = call[h].op /\ c.pay = call[h].pay /\ c.acc = call[h].acc
  BY <1>1, <1>2, GoIs
<1> QED
  BY <1>1, <1>3, MarkPreserves

\* A webhook is read: a captured plan payment that no account remembers goes on.
LEMMA CheckPreserves ==
  ASSUME BillingInv, NEW h \in Handlers, HookCheck(h)
  PROVE  BillingInv'
<1>1. /\ call[h].op \in HookTypes /\ call[h].at = "check" /\ call[h] # Idle
      /\ UNCHANGED <<docs, books, razorpay, calls, granted, torn, tries, topUps>>
      /\ call[h] \in Calls /\ CallFits(call[h])
  BY IdleIs, CallIs DEF HookCheck, HookTypes
<1>2. PICK p : p = call[h].pay
  OBVIOUS
<1>3. PICK skipped \in BOOLEAN :
        /\ skipped <=> (AlreadyProcessed(p) \/ (call[h].op = "captured" /\ Buys[p] # "plan"))
        /\ doubled' = IF ~skipped /\ \E g \in Running(p) : At(g, "captured", "user")
                      THEN doubled \cup {p} ELSE doubled
        /\ \/ skipped /\ Answer(h)
           \/ /\ ~skipped /\ Go(h, IF call[h].op = "captured" THEN "user" ELSE "sub")
              /\ UNCHANGED <<hooks, faults>>
  BY <1>2 DEF HookCheck
<1>4. \A q \in Payments : ~Activating(h, q)
  BY <1>1 DEF Activating, At
<1>5. /\ UNCHANGED <<sub, paid, customer, balance, ledger, invoices, razorpay, calls, granted, torn,
                     tries, topUps>>
      /\ topUps' \in [Accounts -> Nat]
      /\ SubsOK' /\ customer' \in [Accounts -> CustomerStates] /\ calls' \in Nat
      /\ tries' \in [Payments -> Nat] /\ torn' \subseteq Payments
      /\ \A q \in Payments : tries[q] <= tries'[q] /\ tries'[q] \in Nat
  BY <1>1 DEF docs, books, BillingInv, BillingTypeOK, SubsOK, NoneIsNone
<1>6. doubled \subseteq doubled' /\ doubled' \subseteq Payments
  <2>1. ASSUME NEW g \in Running(p), At(g, "captured", "user")
        PROVE  p \in Payments
    BY <2>1, CallIs DEF Running, At, CallFits
  <2> QED
    BY <1>3, <2>1 DEF BillingInv, BillingTypeOK
<1>7. CASE skipped
  <2>1. /\ call' = [call EXCEPT ![h] = Idle] /\ hooks' \subseteq hooks /\ faults' \in Nat
        /\ Aside(Idle) /\ TopUpsFit(Idle)
    BY <1>3, <1>5, <1>7, AnswerIs, IdleIs, TopUpsSame DEF Aside
  <2> QED
    BY <1>4, <1>5, <1>6, <2>1, AsidePreserves
<1>8. CASE ~skipped /\ call[h].op # "captured"
  <2>1. PICK c \in Calls : /\ call' = [call EXCEPT ![h] = c] /\ c.at = "sub"
                           /\ c.op = call[h].op /\ c.pay = call[h].pay /\ c.acc = call[h].acc
    <3>1. "sub" \in Ats /\ Go(h, "sub")
      BY <1>3, <1>8 DEF Ats
    <3> QED
      BY <1>1, <3>1, GoIs
  <2>2. CallFits(c)
    BY <1>1, <1>8, <2>1 DEF CallFits, HookTypes
  <2>3. Aside(c)
    BY <1>1, <1>8, <2>1, <2>2 DEF Aside, HookTypes
  <2>4. hooks' \subseteq hooks /\ faults' \in Nat /\ TopUpsFit(c)
    BY <1>3, <1>5, <1>8, <2>1, TopUpsSame DEF BillingInv, BillingTypeOK
  <2> QED
    BY <1>4, <1>5, <1>6, <2>1, <2>3, <2>4, AsidePreserves
<1>9. CASE ~skipped /\ call[h].op = "captured"
  <2>1. PICK c \in Calls : /\ call' = [call EXCEPT ![h] = c] /\ c.at = "user"
                           /\ c.op = "captured" /\ c.pay = call[h].pay /\ c.acc = call[h].acc
    <3>1. "user" \in Ats /\ Go(h, "user")
      BY <1>3, <1>9 DEF Ats
    <3> QED
      BY <1>1, <1>9, <3>1, GoIs
  <2>2. p \in Payments /\ ~AlreadyProcessed(p) /\ UNCHANGED <<hooks, faults>>
    BY <1>1, <1>2, <1>3, <1>9 DEF CallFits
  <2>3. /\ call' \in [Handlers -> Calls \cup {Idle}] /\ call'[h] = c
        /\ \A g \in Handlers \ {h} : call'[g] = call[g]
    BY <2>1, MoveIs
  <2>4. BillingTypeOK' /\ NoneIsNone'
    BY <1>5, <1>6, <2>2, <2>3 DEF BillingInv, BillingTypeOK, NoneIsNone
  <2>5. CallsFit'
    <3>1. CallFits(c)
      BY <1>2, <2>1, <2>2 DEF CallFits
    <3> QED
      BY <2>2, <2>3, <3>1 DEF BillingInv, CallsFit
  <2>6. BooksInv'
    <3>1. TopUpsFit(c)
      BY <1>5, <2>1, TopUpsSame
    <3> QED
      BY <1>5, <2>1, <3>1, BooksKept
  <2>7. Marked'
    <3>1. \A q \in Payments : AlreadyProcessed(q)' <=> AlreadyProcessed(q)
      BY <1>5 DEF AlreadyProcessed
    <3>2. \A q \in Payments : \A g \in Handlers : Activating(g, q) => Activating(g, q)'
      BY <1>4, <2>3 DEF Activating, At
    <3>3. \A g \in Handlers : At(g, "upgrade", "user")' => At(g, "upgrade", "user") /\ call'[g] = call[g]
      BY <2>1, <2>3 DEF At
    <3> QED
      BY <1>5, <3>1, <3>2, <3>3 DEF BillingInv, MarksInv, Marked
  <2>8. GrantsCovered'
    <3> SUFFICES ASSUME NEW q \in Payments \ doubled'
                 PROVE  granted[q] + Cardinality(Granting(q)') + Unseen(q)' <= 1 + tries[q]
      BY <1>5 DEF GrantsCovered
    <3>1. /\ granted[q] + Cardinality(Granting(q)) + Unseen(q) <= 1 + tries[q]
          /\ granted[q] \in Nat /\ tries[q] \in Nat /\ Unseen(q) \in 0..1
      BY <1>6, GrantsAre
    <3>2. CASE q = p
      <4>1. \A g \in Handlers : ~(At(g, "captured", "user") /\ call[g].pay = p)
        <5>1. ~\E g \in Running(p) : At(g, "captured", "user")
          BY <1>3, <1>9, <3>2
        <5> QED
          BY <5>1, IdleIs DEF Running, At
      <4>2. Unseen(q) = 1
        BY <2>2, <3>2, <4>1 DEF Unseen
      <4>3. Unseen(q)' = 0
        BY <1>2, <2>1, <2>3, <3>2 DEF Unseen, At
      <4>4. Granting(q)' \subseteq Granting(q) \cup {h}
        BY <2>3 DEF Granting, At
      <4>5. /\ Cardinality(Granting(q)') <= Cardinality(Granting(q)) + 1
            /\ Cardinality(Granting(q)') \in Nat /\ Cardinality(Granting(q)) \in Nat
        BY <4>4, GrantingFinite, OneMore
      <4> QED
        BY <3>1, <4>2, <4>3, <4>5
    <3>3. CASE q # p
      <4>1. Granting(q)' = Granting(q)
        BY <1>1, <1>2, <2>1, <2>3, <3>3 DEF Granting, At
      <4>2. Unseen(q)' = Unseen(q)
        BY <1>1, <1>2, <1>5, <2>1, <2>3, <3>3 DEF Unseen, AlreadyProcessed, At
      <4> QED
        BY <3>1, <4>1, <4>2
    <3> QED
      BY <3>2, <3>3
  <2> QED
    BY <2>4, <2>5, <2>6, <2>7, <2>8 DEF BillingInv, MarksInv
<1> QED
  BY <1>7, <1>8, <1>9

LEMMA BillingBegins ==
  ASSUME BillingInit
  PROVE  BillingInv
<1>1. /\ BillingTypeOK /\ NoneIsNone
  BY BillingAssumption DEF BillingInit, BillingTypeOK, NoneIsNone, NoSub, Subscriptions, Statuses,
                           Plans, CustomerStates
<1>2. \A h \in Handlers : call[h] = Idle
  BY DEF BillingInit
<1>3. CallsFit
  BY <1>2 DEF BillingInit, CallsFit
<1>4. IsFiniteSet(invoices) /\ Cardinality(invoices) = 0
  BY FS_EmptySet DEF BillingInit
<1>5. NumbersFollow /\ InvoicesContiguous /\ RowIsFirst /\ CreditInvoicedOnce
  BY <1>2, <1>4, IdleIs DEF BillingInit, NumbersFollow, Numbered, InvoicesContiguous, RowIsFirst, Billed,
                            Crediting, CreditInvoicedOnce
<1>6. RowsDue
  <2> SUFFICES ASSUME NEW a \in Users
               PROVE  /\ IsFiniteSet(ledger \cap BoughtBy(a))
                      /\ Cardinality(ledger \cap BoughtBy(a)) + Cardinality(RowDue(a)) <= balance[a]
    BY DEF RowsDue
  <2>1. ledger \cap BoughtBy(a) = {} /\ RowDue(a) = {} /\ balance[a] = 0
    BY <1>2, IdleIs DEF BillingInit, RowDue, At, Accounts
  <2> QED
    BY <2>1, FS_EmptySet
<1>7. Marked
  BY <1>2, IdleIs, BillingAssumption DEF BillingInit, Marked, AlreadyProcessed, At, NoPlan
<1>8. GrantsCovered
  <2> SUFFICES ASSUME NEW p \in Payments
               PROVE  granted[p] + Cardinality(Granting(p)) + Unseen(p) <= 1 + tries[p]
    BY DEF GrantsCovered
  <2>1. Granting(p) = {} /\ granted[p] = 0 /\ tries[p] = 0 /\ Unseen(p) \in 0..1
    BY <1>2, IdleIs DEF BillingInit, Granting, At, Unseen
  <2>2. Cardinality(Granting(p)) = 0
    BY <2>1, FS_EmptySet
  <2> QED
    BY <2>1, <2>2
<1>9. AskedFor
  <2> SUFFICES ASSUME NEW a \in Users
               PROVE  balance[a] + Cardinality(CreditDue(a)) <= topUps[a]
    BY DEF AskedFor
  <2>1. CreditDue(a) = {} /\ balance[a] = 0 /\ topUps[a] = 0
    BY <1>2, IdleIs DEF BillingInit, CreditDue, At, Accounts
  <2> QED
    BY <2>1, FS_EmptySet
<1> QED
  BY <1>1, <1>3, <1>5, <1>6, <1>7, <1>8, <1>9 DEF BillingInv, BooksInv, MarksInv

LEMMA BillingStep ==
  ASSUME BillingInv, [BillingNext]_billingVars
  PROVE  BillingInv'
<1>1. CASE BillingNext
  <2>1. CASE (\E p \in Payments : Pay(p)) \/ \E u \in Users : Unsubscribe(u)
    BY <2>1, OutsidePreserves
  <2>2. CASE (\E u \in Users : StartTrial(u)) \/ \E a \in Accounts : TimePasses(a) \/ Sweep(a)
    BY <2>2, TimePreserves
  <2>3. ASSUME NEW h \in Handlers, Webhook(h)
        PROVE  BillingInv'
    BY <2>3, CheckPreserves, UserMarkPreserves, SubGrantPreserves, SubWritePreserves
       DEF Webhook, WritesSub
  <2>4. ASSUME NEW h \in Handlers, Client(h)
        PROVE  BillingInv'
    BY <2>4, SubGrantPreserves, UserMarkPreserves, CountInvoicesPreserves, InvoicePreserves,
       StepAsidePreserves, CreditPreserves, RowPreserves, SubWritePreserves DEF Client, WritesSub
  <2>5. ASSUME NEW h \in Handlers, Crash(h)
        PROVE  BillingInv'
    BY <2>5, CrashPreserves
  <2>6. ASSUME NEW h \in Handlers,
               \/ \E e \in hooks : Deliver(h, e)
               \/ \E u \in Users : \/ CancelOpen(h, u)
                                   \/ \E op \in {"add", "suspend", "reactivate"} : ResellerOpen(h, op, u)
        PROVE  BillingInv'
    BY <2>6, OpenPreserves
  <2>7. ASSUME NEW h \in Handlers,
               \/ Confirm(h, "upgrade", "plan", "sub")
               \/ Confirm(h, "purchase", "credits", "credit")
        PROVE  BillingInv'
    BY <2>7, ConfirmUpgradePreserves, ConfirmPurchasePreserves
  <2> QED
    BY <1>1, <2>1, <2>2, <2>3, <2>4, <2>5, <2>6, <2>7 DEF BillingNext
<1>2. CASE UNCHANGED billingVars
  <2>1. UNCHANGED <<sub, paid, customer, balance, ledger, invoices, razorpay, hooks, calls, faults,
                    call, granted, doubled, torn, tries, topUps>>
    BY <1>2 DEF billingVars, docs, books, outside, history
  <2>2. BillingTypeOK' /\ NoneIsNone' /\ \A e \in hooks' : HookFits(e)
    BY <2>1 DEF BillingInv, BillingTypeOK, NoneIsNone, CallsFit
  <2> QED
    BY <2>1, <2>2, NoCallPreserves
<1> QED
  BY <1>1, <1>2

LEMMA BillingShows ==
  ASSUME BillingInv
  PROVE  BillingSafe
<1>1. BillingTypeOK /\ InvoicesContiguous /\ CreditInvoicedOnce
  BY DEF BillingInv, BooksInv
<1>2. RowsCovered
  <2> SUFFICES ASSUME NEW a \in Users
               PROVE  Cardinality(ledger \cap BoughtBy(a)) <= balance[a]
    BY DEF RowsCovered
  <2>1. /\ IsFiniteSet(ledger \cap BoughtBy(a))
        /\ Cardinality(ledger \cap BoughtBy(a)) + Cardinality(RowDue(a)) <= balance[a]
        /\ balance[a] \in Nat
    BY DEF BillingInv, BooksInv, RowsDue, BillingTypeOK, Accounts
  <2>2. IsFiniteSet(RowDue(a))
    BY BillingAssumption, FS_Subset, RowDue(a) \subseteq Handlers DEF RowDue
  <2>3. Cardinality(ledger \cap BoughtBy(a)) \in Nat /\ Cardinality(RowDue(a)) \in Nat
    BY <2>1, <2>2, FS_CardinalityType
  <2> QED
    BY <2>1, <2>3
<1>3. MarkedIsActivated
  <2>1. \A p \in Payments, h \in Handlers : Activating(h, p) => h \in Running(p)
    BY IdleIs DEF Activating, At, Running
  <2> QED
    BY <2>1 DEF MarkedIsActivated, BillingInv, MarksInv, Marked
<1>4. GrantsExplained
  <2> SUFFICES ASSUME NEW p \in Payments, p \notin doubled
               PROVE  granted[p] <= 1 + tries[p]
    BY DEF GrantsExplained
  <2>1. /\ granted[p] \in Nat /\ tries[p] \in Nat /\ Unseen(p) \in 0..1
        /\ granted[p] + Cardinality(Granting(p)) + Unseen(p) <= 1 + tries[p]
    BY GrantsAre
  <2> QED
    BY <2>1, GrantingFinite
<1>5. BalanceExplained
  <2>1. \A a \in Users : balance[a] <= topUps[a]
    BY AskedAre, CreditDueFinite
  <2> QED
    BY <1>2, <2>1 DEF BalanceExplained
<1> QED
  BY <1>1, <1>3, <1>4, <1>5 DEF BillingSafe

\* What payments buy, for any number of accounts, payments and handlers: invoice
\* numbers without gap or repeat though each is counted before it is used, one
\* invoice and one row for a credit payment, a balance between its rows and its
\* confirmations, a period for every payment the webhook marked, and no more
\* periods than the payment and its confirmations explain.
THEOREM PaymentsAreSafe == BillingSpec => []BillingSafe
<1>1. BillingInit => BillingInv
  BY BillingBegins
<1>2. BillingInv /\ [BillingNext]_billingVars => BillingInv'
  BY BillingStep
<1>3. BillingInv => BillingSafe
  BY BillingShows
<1> QED
  BY <1>1, <1>2, <1>3, PTL DEF BillingSpec

\* How a call may take a subscription that is paid for from its account.
Ends(h, a) ==
  /\ call[h] # Idle /\ call'[h] = Idle /\ call[h].acc = a /\ call[h].at = "sub"
  /\ call[h].op \in {"failed", "halted", "cancelled", "cancel", "suspend"}

LEMMA PassingKeepsStatus ==
  ASSUME BillingInv, NEW a \in Accounts, TimePasses(a), NEW b \in Accounts
  PROVE  sub'[b].status = sub[b].status
<1>1. PICK r \in Subscriptions : r = sub[a]
  BY SubsAre DEF SubsOK
<1>2. \E t \in Subscriptions : t.status = r.status /\ sub' = [sub EXCEPT ![a] = t]
  <2>1. CASE /\ sub[a].trialEnd = "ahead"
             /\ sub' = [sub EXCEPT ![a].trialEnd = "past",
                                   ![a].periodEnd = IF sub[a].plan = "trial" THEN "past" ELSE @]
    <3> DEFINE e == IF r.plan = "trial" THEN "past" ELSE r.periodEnd
    <3>1. sub' = [sub EXCEPT ![a] = [r EXCEPT !.trialEnd = "past", !.periodEnd = e]]
      BY <1>1, <2>1, SubsAre DEF SubsOK, Subscriptions
    <3>2. e \in {"none", "ahead", "past"}
      BY DEF Subscriptions
    <3> HIDE DEF e
    <3> DEFINE t == [r EXCEPT !.trialEnd = "past", !.periodEnd = e]
    <3>3. t \in Subscriptions /\ t.status = r.status
      BY <3>2 DEF Subscriptions
    <3> QED
      BY <3>1, <3>3
  <2>2. CASE /\ sub[a].periodEnd = "ahead" /\ sub[a].plan # "trial"
             /\ sub' = [sub EXCEPT ![a].periodEnd = "past"]
    <3> DEFINE t == [r EXCEPT !.periodEnd = "past"]
    <3>1. t \in Subscriptions /\ t.status = r.status
      BY DEF Subscriptions
    <3>2. sub' = [sub EXCEPT ![a] = t]
      BY <1>1, <2>2
    <3> QED
      BY <3>1, <3>2
  <2> QED
    BY <2>1, <2>2 DEF TimePasses
<1> QED
  BY <1>1, <1>2, SubsAre DEF SubsOK

LEMMA OnlyEnds ==
  ASSUME BillingInv, [BillingNext]_billingVars, NEW a \in Accounts, sub[a].status = "active",
         sub[a].periodEnd = "ahead", sub'[a].status # "active"
  PROVE  \E h \in Handlers : Ends(h, a)
<1>0. SubsOK /\ sub' # sub
  BY SubsAre
<1>1. ~\E u \in Users : StartTrial(u)
  <2> SUFFICES ASSUME NEW u \in Users, StartTrial(u)
               PROVE  FALSE
    OBVIOUS
  <2>1. u # a
    BY DEF StartTrial, HasSub
  <2>2. sub'[a] = sub[a]
    BY <1>0, <2>1 DEF StartTrial, SubsOK
  <2> QED
    BY <2>2
<1>2. ~\E b \in Accounts : TimePasses(b) \/ Sweep(b)
  <2> SUFFICES ASSUME NEW b \in Accounts, TimePasses(b) \/ Sweep(b)
               PROVE  FALSE
    OBVIOUS
  <2>1. CASE TimePasses(b)
    BY <2>1, PassingKeepsStatus
  <2>2. CASE Sweep(b)
    <3>1. b # a
      BY <2>2 DEF Sweep, ExpireTrial, ExpirePeriod
    <3>2. \E s \in Statuses \ {"none"} : SetStatus(b, s)
      BY <2>2 DEF Sweep, ExpireTrial, ExpirePeriod, Statuses
    <3>3. sub'[a].status = sub[a].status
      BY <1>0, <3>1, <3>2, StatusIs
    <3> QED
      BY <3>3
  <2> QED
    BY <2>1, <2>2
<1>3. PICK h \in Handlers :
        WritesSub(h) \/ CapturedSub(h) \/ UpgradeSub(h)
  <2>1. BillingNext
    BY <1>0 DEF billingVars, docs
  <2>2. ~\E p \in Payments : Pay(p)
    BY <1>0 DEF Pay, docs
  <2>3. ~\E u \in Users : Unsubscribe(u)
    BY <1>0 DEF Unsubscribe, docs
  <2>4. ASSUME NEW h \in Handlers, NEW e
        PROVE  ~Deliver(h, e) /\ ~Crash(h)
    BY <1>0 DEF Deliver, Crash, docs
  <2>5. ASSUME NEW h \in Handlers
        PROVE  ~Confirm(h, "upgrade", "plan", "sub") /\ ~Confirm(h, "purchase", "credits", "credit")
    BY <1>0 DEF Confirm, docs
  <2>6. ASSUME NEW h \in Handlers, NEW u, NEW op
        PROVE  ~CancelOpen(h, u) /\ ~ResellerOpen(h, op, u)
    BY <1>0 DEF CancelOpen, ResellerOpen, docs
  <2>7. PICK h \in Handlers : Webhook(h) \/ Client(h)
    BY <1>1, <1>2, <2>1, <2>2, <2>3, <2>4, <2>5, <2>6 DEF BillingNext
  <2>8. ~HookCheck(h) /\ ~CapturedUser(h) /\ ~UpgradeUser(h) /\ ~CountInvoices(h) /\ ~PlanInvoice(h)
    BY <1>0 DEF HookCheck, CapturedUser, UpgradeUser, CountInvoices, PlanInvoice, docs
  <2>9. /\ ~CancelRead(h) /\ ~PurchaseCredit(h) /\ ~PurchaseRow(h) /\ ~CreditInvoice(h)
        /\ ~ResellerRead(h) /\ ~CustomerWrite(h)
    BY <1>0 DEF CancelRead, PurchaseCredit, PurchaseRow, CreditInvoice, ResellerRead, CustomerWrite, docs
  <2> QED
    BY <2>7, <2>8, <2>9 DEF Webhook, Client, WritesSub
<1>4. call[h] # Idle /\ call[h] \in Calls /\ CallFits(call[h])
  <2>1. call[h] # Idle
    BY <1>3, IdleIs DEF WritesSub, Charged, FailedHook, CancelledHook, CancelWrite, PurchaseStatus,
                        AddSub, SuspendSub, ReactivateSub, CapturedSub, UpgradeSub, At
  <2> QED
    BY <2>1, CallIs
<1>5. PICK b \in Accounts, p \in Payments \cup {NoPlan} : b = call[h].acc /\ p = call[h].pay
  BY <1>4 DEF Calls
<1>6. ASSUME NEW q \in Plans
      PROVE  sub' # [sub EXCEPT ![b] = Activated(sub[b], q)]
  <2> SUFFICES ASSUME sub' = [sub EXCEPT ![b] = Activated(sub[b], q)]
               PROVE  FALSE
    OBVIOUS
  <2>1. sub'[a].status = sub[a].status \/ sub'[a].status = "active"
    BY <1>0, ActivatedIs
  <2> QED
    BY <2>1
<1>7. ~CapturedSub(h) /\ ~UpgradeSub(h)
  BY <1>5, <1>6 DEF CapturedSub, UpgradeSub, Grant, Plans
<1>8. ~Charged(h) /\ ~ReactivateSub(h)
  <2>1. sub[b].plan \in Plans
    BY <1>0 DEF SubsOK, Subscriptions
  <2>2. sub' # [sub EXCEPT ![b] = Activated(sub[b], sub[b].plan)]
    BY <1>6, <2>1
  <2>3. sub' # [sub EXCEPT ![b] = sub[b]]
    BY <1>0 DEF SubsOK
  <2> QED
    BY <1>5, <2>2, <2>3 DEF Charged, ReactivateSub
<1>9. ~AddSub(h)
  <2> SUFFICES ASSUME AddSub(h)
               PROVE  FALSE
    OBVIOUS
  <2>1. PICK r \in Subscriptions : r = sub[b]
    BY <1>0 DEF SubsOK
  <2> DEFINE t == [Activated(r, "custom") EXCEPT !.resold = TRUE]
  <2>2. t.status = "active" /\ sub' = [sub EXCEPT ![b] = t]
    BY <1>5, <2>1 DEF AddSub, Activated, Subscriptions
  <2> HIDE DEF t
  <2>3. sub'[a] = t \/ sub'[a] = sub[a]
    BY <1>0, <2>2 DEF SubsOK
  <2> QED
    BY <2>2, <2>3
<1>10. ASSUME NEW s \in Statuses \ {"none"}, SetStatus(b, s)
       PROVE  b = a
  <2>1. sub'[a].status = sub[a].status \/ a = b
    BY <1>0, <1>10, StatusIs
  <2> QED
    BY <2>1
<1>11. ~PurchaseStatus(h)
  <2> SUFFICES ASSUME PurchaseStatus(h)
               PROVE  FALSE
    OBVIOUS
  <2>1. sub[b].status \in Lapsed /\ SetStatus(b, "credit_only")
    BY <1>0, <1>5 DEF PurchaseStatus
  <2>2. a = b
    BY <1>10, <2>1 DEF Statuses
  <2> QED
    BY <2>1, <2>2 DEF Lapsed
<1>12. FailedHook(h) \/ CancelledHook(h) \/ CancelWrite(h) \/ SuspendSub(h)
  BY <1>3, <1>7, <1>8, <1>9, <1>11 DEF WritesSub
<1>13. b = a
  <2>1. \E s \in {"past_due", "cancelled", "suspended"} : SetStatus(b, s)
    BY <1>0, <1>5, <1>12 DEF FailedHook, CancelledHook, CancelWrite, SuspendSub
  <2> QED
    BY <1>10, <2>1 DEF Statuses
<1>14. call'[h] = Idle
  <2>1. call' = [call EXCEPT ![h] = Idle]
    BY <1>12 DEF FailedHook, CancelledHook, CancelWrite, SuspendSub, Answer, End
  <2> QED
    BY <2>1, MoveIs
<1> QED
  BY <1>4, <1>5, <1>12, <1>13, <1>14 DEF Ends, FailedHook, CancelledHook, CancelWrite, SuspendSub, At

\* A subscription that is paid for leaves "active" only by its own account's
\* cancellation, failed payment, halt or suspension: no sweep, purchase, other
\* account's webhook or reseller's call ends it.
THEOREM PaidStays == BillingSpec => PaidStaysActive
<1>1. BillingInit => BillingInv
  BY BillingBegins
<1>2. BillingInv /\ [BillingNext]_billingVars => BillingInv'
  BY BillingStep
<1>3. BillingInv /\ [BillingNext]_billingVars =>
        [\A a \in Accounts :
           sub[a].status = "active" /\ sub[a].periodEnd = "ahead" /\ sub'[a].status # "active"
             => \E h \in Handlers :
                  /\ call[h] # Idle /\ call'[h] = Idle /\ call[h].acc = a /\ call[h].at = "sub"
                  /\ call[h].op \in {"failed", "halted", "cancelled", "cancel", "suspend"}]_billingVars
  BY OnlyEnds DEF Ends
<1> QED
  BY <1>1, <1>2, <1>3, PTL DEF BillingSpec, PaidStaysActive

-----------------------------------------------------------------------------
(* Breakers in the memory of a process *)

\* A set of numbers has a least one.
LEMMA Least ==
  ASSUME NEW T, T \subseteq Nat, T # {}
  PROVE  \E x \in T : \A y \in T : x <= y
<1> DEFINE R == OpToRel(<, Nat)
<1>1. \A x \in Nat, y \in Nat : <<y, x>> \in R <=> y < x
  BY DEF OpToRel
<1>2. IsWellFoundedOn(R, Nat)
  BY NatLessThanWellFounded
<1> HIDE DEF R
<1>3. \E x \in T : \A y \in T : ~(<<y, x>> \in R)
  BY <1>2, WFMin
<1>4. PICK x \in T : \A y \in T : ~(<<y, x>> \in R)
  BY <1>3
<1>5. ASSUME NEW y \in T
      PROVE  x <= y
  <2>1. x \in Nat /\ y \in Nat
    OBVIOUS
  <2>2. ~(<<y, x>> \in R)
    BY <1>4
  <2>3. ~(y < x)
    BY <1>1, <2>1, <2>2
  <2> QED
    BY <2>1, <2>3
<1> QED
  BY <1>5

LEMMA OldestIs ==
  ASSUME NEW S, S \subseteq Nat, S # {}
  PROVE  Oldest(S) \in S
BY Least DEF Oldest

\* A breaker somebody holds on to, in the Map or forgotten with a call under way.
Made == 1..Len(made)
NotClosed == {n \in Made : StateOf(n) # "closed"}
InHand == \A d \in Couriers : courier[d].step # "idle" => courier[d].no \in breakers \cup excused
LocalInv ==
  /\ LocalTypeOK /\ MapBounded /\ OpenIsHeld /\ GaugeExplained /\ InHand
  /\ \A d \in Couriers : courier[d].step = "idle" <=> courier[d].no = 0

Breakers == [target : Targets, state : {"closed", "open", "halfOpen", "probing"}]

LEMMA MadeIs ==
  ASSUME LocalInv
  PROVE  /\ Len(made) \in Nat /\ made \in Seq(Breakers) /\ Made \subseteq Nat /\ breakers \subseteq Made
         /\ IsFiniteSet(Made) /\ IsFiniteSet(breakers) /\ Cardinality(breakers) \in Nat
         /\ IsFiniteSet(NotClosed) /\ Cardinality(NotClosed) \in Nat
         /\ gauge = Cardinality(NotClosed) + reopened /\ gauge \in Nat /\ reopened \in Nat
         /\ \A n \in Made : made[n] \in Breakers
         /\ Len(made) + 1 \notin Made
<1>1. /\ made \in Seq(Breakers) /\ breakers \subseteq Made /\ gauge \in Nat /\ reopened \in Nat
      /\ gauge = Cardinality(NotClosed) + reopened
  BY DEF LocalInv, LocalTypeOK, Breakers, Made, GaugeExplained, NotClosed
<1>2. Len(made) \in Nat /\ \A n \in Made : made[n] \in Breakers
  BY <1>1, LenProperties, ElementOfSeq DEF Made
<1>3. IsFiniteSet(Made) /\ Made \subseteq Nat /\ Len(made) + 1 \notin Made
  BY <1>2, FS_Interval DEF Made
<1>4. NotClosed \subseteq Made
  BY DEF NotClosed
<1> QED
  BY <1>1, <1>2, <1>3, <1>4, Fewer

\* A breaker of the Map changes its state: closed, from closed, or in between.
LEMMA StateSet ==
  ASSUME LocalInv, NEW n \in Made, NEW s \in {"closed", "open", "halfOpen", "probing"}, SetState(n, s)
  PROVE  /\ made' \in Seq(Breakers) /\ Len(made') = Len(made) /\ Made' = Made
         /\ StateOf(n)' = s /\ \A m \in Made \ {n} : StateOf(m)' = StateOf(m)
         /\ IsFiniteSet(NotClosed') /\ Cardinality(NotClosed') \in Nat
         /\ StateOf(n) # "closed" /\ s # "closed" => NotClosed' = NotClosed
         /\ StateOf(n) # "closed" /\ s = "closed" =>
              Cardinality(NotClosed') + 1 = Cardinality(NotClosed)
         /\ StateOf(n) = "closed" /\ s # "closed" =>
              Cardinality(NotClosed') = Cardinality(NotClosed) + 1
<1>0. /\ Len(made) \in Nat /\ made \in Seq(Breakers) /\ made[n] \in Breakers
      /\ IsFiniteSet(NotClosed) /\ Cardinality(NotClosed) \in Nat
  BY MadeIs
<1>1. PICK r \in Breakers : r = made[n]
  BY <1>0
<1> DEFINE t == [r EXCEPT !.state = s]
<1>2. t \in Breakers /\ t.state = s
  BY DEF Breakers
<1>3. made' = [made EXCEPT ![n] = t]
  BY <1>1 DEF SetState
<1> HIDE DEF t
<1>4. /\ made' \in Seq(Breakers) /\ Len(made') = Len(made)
      /\ \A j \in Made : made'[j] = IF j = n THEN t ELSE made[j]
  BY <1>0, <1>2, <1>3, ExceptSeq DEF Made
<1>5. Made' = Made
  BY <1>4 DEF Made
<1>6. StateOf(n)' = s /\ \A m \in Made \ {n} : StateOf(m)' = StateOf(m)
  BY <1>2, <1>4 DEF StateOf
<1>7. NotClosed' = {m \in Made : StateOf(m)' # "closed"}
  BY <1>5 DEF NotClosed
<1>8. CASE StateOf(n) # "closed" /\ s # "closed"
  <2>1. NotClosed' = NotClosed
    BY <1>6, <1>7, <1>8 DEF NotClosed
  <2> QED
    BY <1>0, <1>4, <1>5, <1>6, <1>8, <2>1
<1>9. CASE s = "closed"
  <2>1. NotClosed' = NotClosed \ {n}
    BY <1>6, <1>7, <1>9 DEF NotClosed
  <2>2. n \in NotClosed <=> StateOf(n) # "closed"
    BY DEF NotClosed
  <2>3. /\ IsFiniteSet(NotClosed') /\ Cardinality(NotClosed') \in Nat
        /\ n \in NotClosed => Cardinality(NotClosed') = Cardinality(NotClosed) - 1
    BY <1>0, <2>1, FS_RemoveElement, FS_CardinalityType
  <2> QED
    BY <1>0, <1>4, <1>5, <1>6, <1>9, <2>2, <2>3
<1>10. CASE StateOf(n) = "closed" /\ s # "closed"
  <2>1. NotClosed' = NotClosed \cup {n} /\ n \notin NotClosed
    BY <1>6, <1>7, <1>10 DEF NotClosed
  <2>2. IsFiniteSet(NotClosed') /\ Cardinality(NotClosed') = Cardinality(NotClosed) + 1
    BY <1>0, <2>1, FS_AddElement
  <2> QED
    BY <1>0, <1>4, <1>5, <1>6, <1>10, <2>2
<1> QED
  BY <1>8, <1>9, <1>10

LEMMA EvictedIs ==
  ASSUME LocalInv
  PROVE  /\ Evicted = 0 => Cardinality(breakers) < MaxBreakers
         /\ Evicted # 0 => Evicted \in breakers /\ (StateOf(Evicted) = "closed" \/ AllOpen)
<1> DEFINE closed == {b \in breakers : StateOf(b) = "closed"}
<1>0. /\ breakers \subseteq Made /\ Made \subseteq Nat /\ IsFiniteSet(breakers)
      /\ Cardinality(breakers) \in Nat /\ MaxBreakers \in Nat /\ MaxBreakers # 0
  BY MadeIs, LocalAssumption
<1>1. CASE Cardinality(breakers) < MaxBreakers
  BY <1>1 DEF Evicted
<1>2. CASE ~(Cardinality(breakers) < MaxBreakers)
  <2>1. breakers # {}
    BY <1>0, <1>2, FS_EmptySet
  <2>2. Evicted = Oldest(IF closed # {} THEN closed ELSE breakers)
    BY <1>2 DEF Evicted
  <2>3. CASE closed # {}
    <3>1. Oldest(closed) \in closed
      BY <1>0, <2>3, OldestIs
    <3>2. Evicted = Oldest(closed)
      BY <2>2, <2>3
    <3> QED
      BY <1>0, <3>1, <3>2 DEF Made
  <2>4. CASE closed = {}
    <3>1. Oldest(breakers) \in breakers /\ Evicted = Oldest(breakers)
      BY <1>0, <2>1, <2>2, <2>4, OldestIs
    <3> QED
      BY <1>0, <2>4, <3>1 DEF AllOpen, Made
  <2> QED
    BY <2>3, <2>4
<1> QED
  BY <1>1, <1>2

LEMMA CourierIs ==
  ASSUME LocalInv, NEW d \in Couriers
  PROVE  /\ courier \in [Couriers -> [step : {"idle", "fire", "sent"}, no : 0..Len(made)]]
         /\ courier[d].step # "idle" => courier[d].no \in Made /\ courier[d].no \in breakers \cup excused
         /\ excused \subseteq Made /\ breakers \subseteq Made
<1>1. /\ courier \in [Couriers -> [step : {"idle", "fire", "sent"}, no : 0..Len(made)]]
      /\ excused \subseteq Made /\ breakers \subseteq Made
  BY DEF LocalInv, LocalTypeOK, Made
<1> QED
  BY <1>1 DEF LocalInv, InHand

LEMMA HeldPreserves ==
  ASSUME LocalInv, NEW d \in Couriers, NEW b \in breakers, UNCHANGED <<breakers, made, excused, gauge, reopened>>,
         courier' = [courier EXCEPT ![d] = [step |-> "fire", no |-> b]]
  PROVE  LocalInv'
<1>1. b \in Made /\ Made \subseteq Nat
  BY MadeIs
<1>2. b \in 0..Len(made) /\ b # 0
  BY <1>1, MadeIs DEF Made
<1>3. /\ courier' \in [Couriers -> [step : {"idle", "fire", "sent"}, no : 0..Len(made)]]
      /\ courier'[d].step = "fire" /\ courier'[d].no = b
      /\ \A c \in Couriers \ {d} : courier'[c] = courier[c]
  BY <1>2, CourierIs
<1> QED
  BY <1>2, <1>3 DEF LocalInv, LocalTypeOK, MapBounded, OpenIsHeld, GaugeExplained, InHand, StateOf

LEMMA NewPreserves ==
  ASSUME LocalInv, NEW d \in Couriers, NEW t \in Targets, Len(made) < MaxMade,
         made' = Append(made, [target |-> t, state |-> "closed"]),
         courier' = [courier EXCEPT ![d] = [step |-> "fire", no |-> Len(made) + 1]],
         breakers' = (breakers \ {Evicted}) \cup {Len(made) + 1},
         excused' = excused \cup
           (IF Evicted # 0 /\ (AllOpen \/ Busy(Evicted)) THEN {Evicted} ELSE {}),
         UNCHANGED <<gauge, reopened>>
  PROVE  LocalInv'
<1>0. /\ Len(made) \in Nat /\ made \in Seq(Breakers) /\ breakers \subseteq Made /\ Made \subseteq Nat
      /\ IsFiniteSet(breakers) /\ Cardinality(breakers) \in Nat /\ excused \subseteq Made
      /\ MaxMade \in Nat /\ MaxBreakers \in Nat
  BY MadeIs, CourierIs, LocalAssumption
<1>1. PICK n, e : n = Len(made) + 1 /\ e = Evicted
  OBVIOUS
<1>2. n \in Nat /\ n # 0 /\ n \notin Made /\ 0 \notin Made
  BY <1>0, <1>1 DEF Made
<1>3. /\ e = 0 => Cardinality(breakers) < MaxBreakers
      /\ e # 0 => e \in breakers /\ (StateOf(e) = "closed" \/ AllOpen)
  BY <1>1, EvictedIs
<1>4. /\ breakers' = (breakers \ {e}) \cup {n}
      /\ excused \subseteq excused' /\ excused' \subseteq excused \cup breakers
      /\ e # 0 /\ (AllOpen \/ Busy(e)) => e \in excused'
  BY <1>1, <1>3
<1>5. /\ made' \in Seq(Breakers) /\ Len(made') = n /\ made'[n].state = "closed"
      /\ \A m \in Made : made'[m] = made[m]
  <2>1. [target |-> t, state |-> "closed"] \in Breakers
    BY DEF Breakers
  <2> QED
    BY <1>0, <1>1, <2>1, AppendProperties DEF Made
<1>6. Made' = Made \cup {n}
  BY <1>0, <1>1, <1>5 DEF Made
<1>7. /\ courier' \in [Couriers -> [step : {"idle", "fire", "sent"}, no : 0..n]]
      /\ courier'[d].step = "fire" /\ courier'[d].no = n
      /\ \A c \in Couriers \ {d} : courier'[c] = courier[c]
  <2>1. 0..Len(made) \subseteq 0..n /\ n \in 0..n
    BY <1>0, <1>1
  <2>2. courier \in [Couriers -> [step : {"idle", "fire", "sent"}, no : 0..n]]
    BY <2>1, CourierIs
  <2> QED
    BY <1>1, <2>1, <2>2
<1>8. LocalTypeOK'
  <2>1. n <= MaxMade
    BY <1>0, <1>1
  <2>2. breakers' \subseteq Made' /\ excused' \subseteq Made'
    BY <1>0, <1>4, <1>6
  <2> QED
    BY <1>5, <1>7, <2>1, <2>2 DEF LocalInv, LocalTypeOK, Breakers, Made
<1>9. MapBounded'
  <2>1. n \notin breakers \ {e} /\ IsFiniteSet(breakers \ {e})
    BY <1>0, <1>2, FS_RemoveElement
  <2>2. Cardinality(breakers') = Cardinality(breakers \ {e}) + 1
    BY <1>4, <2>1, FS_AddElement
  <2>3. CASE e = 0
    <3>1. breakers \ {e} = breakers
      BY <1>0, <1>2, <2>3
    <3>2. Cardinality(breakers \ {e}) = Cardinality(breakers)
      BY <3>1
    <3> QED
      BY <1>0, <1>3, <2>2, <2>3, <3>2 DEF MapBounded
  <2>4. CASE e # 0
    <3>1. Cardinality(breakers \ {e}) = Cardinality(breakers) - 1
      BY <1>0, <1>3, <2>4, FS_RemoveElement
    <3> QED
      BY <1>0, <2>2, <3>1 DEF MapBounded, LocalInv
  <2> QED
    BY <2>3, <2>4
<1>10. NotClosed' = NotClosed
  BY <1>2, <1>5, <1>6 DEF NotClosed, StateOf
<1>11. GaugeExplained'
  <2>1. gauge = Cardinality(NotClosed) + reopened
    BY MadeIs
  <2> QED
    BY <1>10, <2>1 DEF GaugeExplained, NotClosed, Made
<1>12. OpenIsHeld'
  <2> SUFFICES ASSUME NEW m \in Made', StateOf(m)' # "closed"
               PROVE  m \in breakers' \cup excused'
    BY DEF OpenIsHeld, Made
  <2>1. m \in Made /\ StateOf(m) # "closed" /\ m \in breakers \cup excused
    BY <1>5, <1>6 DEF StateOf, LocalInv, OpenIsHeld, Made
  <2>2. CASE m = e
    BY <1>2, <1>3, <1>4, <2>1, <2>2
  <2>3. CASE m # e
    BY <1>4, <2>1, <2>3
  <2> QED
    BY <2>2, <2>3
<1>13. InHand'
  <2> SUFFICES ASSUME NEW c \in Couriers, courier'[c].step # "idle"
               PROVE  courier'[c].no \in breakers' \cup excused'
    BY DEF InHand
  <2>1. CASE c = d
    BY <1>4, <1>7, <2>1
  <2>2. CASE c # d
    <3>1. /\ courier'[c].no = courier[c].no /\ courier[c].no \in breakers \cup excused
          /\ courier[c].no \in Made
      BY <1>7, <2>2, CourierIs
    <3>2. courier[c].no = e => e \in excused'
      BY <1>2, <1>4, <3>1 DEF Busy
    <3> QED
      BY <1>4, <3>1, <3>2
  <2> QED
    BY <2>1, <2>2
<1>14. \A c \in Couriers : courier'[c].step = "idle" <=> courier'[c].no = 0
  BY <1>2, <1>7 DEF LocalInv
<1> QED
  BY <1>8, <1>9, <1>11, <1>12, <1>13, <1>14 DEF LocalInv

\* A call is sent or ends; the state of its breaker may change.
LEMMA CourierMoves ==
  ASSUME LocalInv, NEW d \in Couriers, NEW c \in [step : {"idle", "fire", "sent"}, no : 0..Len(made)],
         courier' = [courier EXCEPT ![d] = c], c.step = "idle" <=> c.no = 0,
         c.step # "idle" => c.no \in breakers \cup excused,
         UNCHANGED <<breakers, excused>>, made' \in Seq(Breakers), Len(made') = Len(made),
         \A m \in Made : StateOf(m)' # "closed" => m \in breakers \cup excused,
         gauge' \in Nat, reopened' \in Nat, gauge' = Cardinality(NotClosed') + reopened'
  PROVE  LocalInv'
<1>1. /\ courier' \in [Couriers -> [step : {"idle", "fire", "sent"}, no : 0..Len(made)]]
      /\ courier'[d] = c /\ \A b \in Couriers \ {d} : courier'[b] = courier[b]
  BY CourierIs
<1>2. LocalTypeOK'
  BY <1>1 DEF LocalInv, LocalTypeOK, Breakers
<1>3. OpenIsHeld' /\ GaugeExplained' /\ MapBounded'
  BY DEF OpenIsHeld, Made, GaugeExplained, NotClosed, LocalInv, MapBounded
<1>4. InHand' /\ \A b \in Couriers : courier'[b].step = "idle" <=> courier'[b].no = 0
  BY <1>1 DEF InHand, LocalInv
<1> QED
  BY <1>2, <1>3, <1>4 DEF LocalInv

LEMMA FirePreserves ==
  ASSUME LocalInv, NEW d \in Couriers, Fire(d)
  PROVE  LocalInv'
<1>1. PICK n \in Made : /\ n = courier[d].no /\ n \in breakers \cup excused /\ courier[d].step = "fire"
                        /\ n # 0 /\ n \in 0..Len(made)
  BY CourierIs, MadeIs DEF Fire, LocalInv, Made
<1>2. /\ StateOf(n) \in {"closed", "halfOpen"} => courier' = [courier EXCEPT ![d].step = "sent"]
      /\ StateOf(n) \notin {"closed", "halfOpen"} => courier' = [courier EXCEPT ![d] = NoCall]
      /\ StateOf(n) = "halfOpen" => SetState(n, "probing")
      /\ StateOf(n) # "halfOpen" => UNCHANGED made
      /\ UNCHANGED <<breakers, gauge, reopened, excused>>
  BY <1>1 DEF Fire
<1>3. PICK c \in [step : {"idle", "fire", "sent"}, no : 0..Len(made)] :
        /\ courier' = [courier EXCEPT ![d] = c]
        /\ \/ c.step = "idle" /\ c.no = 0
           \/ c.step = "sent" /\ c.no = n
  <2>1. CASE StateOf(n) \in {"closed", "halfOpen"}
    <3> DEFINE c == [step |-> "sent", no |-> n]
    <3>1. PICK r \in [step : {"idle", "fire", "sent"}, no : 0..Len(made)] : r = courier[d]
      BY CourierIs
    <3>2. [r EXCEPT !.step = "sent"] = c
      BY <1>1, <3>1
    <3>3. courier' = [courier EXCEPT ![d] = [r EXCEPT !.step = "sent"]]
      BY <1>2, <2>1, <3>1
    <3>4. courier' = [courier EXCEPT ![d] = c]
      BY <3>2, <3>3
    <3>5. c \in [step : {"idle", "fire", "sent"}, no : 0..Len(made)]
      BY <1>1
    <3> QED
      BY <3>4, <3>5
  <2>2. CASE StateOf(n) \notin {"closed", "halfOpen"}
    <3>1. NoCall \in [step : {"idle", "fire", "sent"}, no : 0..Len(made)] /\ NoCall.step = "idle"
          /\ NoCall.no = 0
      BY MadeIs DEF NoCall
    <3> QED
      BY <1>2, <2>2, <3>1
  <2> QED
    BY <2>1, <2>2
<1>4. /\ c.step = "idle" <=> c.no = 0
      /\ c.step # "idle" => c.no \in breakers \cup excused
  BY <1>1, <1>3
<1>5. /\ made' \in Seq(Breakers) /\ Len(made') = Len(made) /\ NotClosed' = NotClosed
      /\ \A m \in Made : StateOf(m)' # "closed" => m \in breakers \cup excused
  <2>1. CASE StateOf(n) = "halfOpen"
    <3>1. SetState(n, "probing")
      BY <1>2, <2>1
    <3>2. /\ made' \in Seq(Breakers) /\ Len(made') = Len(made) /\ NotClosed' = NotClosed
          /\ StateOf(n)' = "probing" /\ \A m \in Made \ {n} : StateOf(m)' = StateOf(m)
      BY <2>1, <3>1, StateSet
    <3> QED
      BY <1>1, <3>2 DEF LocalInv, OpenIsHeld, Made
  <2>2. CASE StateOf(n) # "halfOpen"
    <3>1. made' = made
      BY <1>2, <2>2
    <3> QED
      BY <3>1, MadeIs DEF NotClosed, Made, StateOf, LocalInv, OpenIsHeld
  <2> QED
    BY <2>1, <2>2
<1>6. gauge' \in Nat /\ reopened' \in Nat /\ gauge' = Cardinality(NotClosed') + reopened'
  BY <1>2, <1>5, MadeIs
<1> QED
  BY <1>2, <1>3, <1>4, <1>5, <1>6, CourierMoves

\* An answer closes what was half open; none opens what was not open.
LEMMA SettlePreserves ==
  ASSUME LocalInv, NEW d \in Couriers, Settle(d)
  PROVE  LocalInv'
<1>1. PICK n \in Made : n = courier[d].no /\ n \in breakers \cup excused
  BY CourierIs DEF Settle
<1>2. /\ courier' = [courier EXCEPT ![d] = NoCall] /\ UNCHANGED <<breakers, excused>>
      /\ NoCall \in [step : {"idle", "fire", "sent"}, no : 0..Len(made)]
      /\ NoCall.step = "idle" /\ NoCall.no = 0
  BY MadeIs DEF Settle, NoCall
<1>3. /\ StateOf(n) \in {"closed", "open", "halfOpen", "probing"}
      /\ Cardinality(NotClosed) \in Nat /\ gauge \in Nat /\ reopened \in Nat
      /\ gauge = Cardinality(NotClosed) + reopened
  BY MadeIs DEF StateOf, Breakers
<1>4. PICK s \in {"closed", "open"} :
        \/ UNCHANGED <<made, gauge, reopened>>
        \/ /\ s = "closed" /\ StateOf(n) # "closed" /\ SetState(n, s)
           /\ gauge' = gauge - 1 /\ reopened' = reopened
        \/ /\ s = "open" /\ StateOf(n) # "open" /\ SetState(n, s) /\ gauge' = gauge + 1
           /\ reopened' = reopened + (IF StateOf(n) = "closed" THEN 0 ELSE 1)
  <2>1. CASE Answered(d) /\ UNCHANGED reopened
    BY <1>1, <2>1 DEF Answered
  <2>2. CASE Unanswered(d)
    BY <1>1, <2>2 DEF Unanswered
  <2> QED
    BY <2>1, <2>2 DEF Settle
<1>5. /\ made' \in Seq(Breakers) /\ Len(made') = Len(made)
      /\ \A m \in Made : StateOf(m)' # "closed" => m \in breakers \cup excused
      /\ gauge' \in Nat /\ reopened' \in Nat /\ gauge' = Cardinality(NotClosed') + reopened'
  <2>1. CASE UNCHANGED <<made, gauge, reopened>>
    <3>1. NotClosed' = NotClosed
      BY <2>1 DEF NotClosed, Made, StateOf
    <3> QED
      BY <1>3, <2>1, <3>1, MadeIs DEF StateOf, Made, LocalInv, OpenIsHeld
  <2>2. CASE SetState(n, s)
    <3>1. /\ made' \in Seq(Breakers) /\ Len(made') = Len(made)
          /\ StateOf(n)' = s /\ \A m \in Made \ {n} : StateOf(m)' = StateOf(m)
          /\ Cardinality(NotClosed') \in Nat
          /\ StateOf(n) # "closed" /\ s # "closed" => Cardinality(NotClosed') = Cardinality(NotClosed)
          /\ StateOf(n) # "closed" /\ s = "closed" =>
               Cardinality(NotClosed') + 1 = Cardinality(NotClosed)
          /\ StateOf(n) = "closed" /\ s # "closed" =>
               Cardinality(NotClosed') = Cardinality(NotClosed) + 1
      BY <2>2, StateSet
    <3>2. \A m \in Made : StateOf(m)' # "closed" => m \in breakers \cup excused
      BY <1>1, <3>1 DEF LocalInv, OpenIsHeld, Made
    <3>3. CASE UNCHANGED <<made, gauge, reopened>>
      BY <2>1, <3>3
    <3>4. CASE ~UNCHANGED <<made, gauge, reopened>>
      BY <1>3, <1>4, <3>1, <3>2, <3>4
    <3> QED
      BY <3>3, <3>4
  <2> QED
    BY <1>4, <2>1, <2>2
<1> QED
  BY <1>2, <1>5, CourierMoves

LEMMA HalfOpenPreserves ==
  ASSUME LocalInv, NEW n \in Made, HalfOpen(n)
  PROVE  LocalInv'
<1>1. /\ StateOf(n) = "open" /\ SetState(n, "halfOpen")
      /\ UNCHANGED <<breakers, courier, gauge, reopened, excused>>
  BY DEF HalfOpen
<1>2. /\ made' \in Seq(Breakers) /\ Len(made') = Len(made) /\ NotClosed' = NotClosed
      /\ StateOf(n)' = "halfOpen" /\ \A m \in Made \ {n} : StateOf(m)' = StateOf(m)
  BY <1>1, StateSet
<1>3. OpenIsHeld'
  BY <1>1, <1>2 DEF LocalInv, OpenIsHeld, Made
<1>4. GaugeExplained'
  <2>1. gauge' = Cardinality(NotClosed') + reopened'
    BY <1>1, <1>2, MadeIs
  <2> QED
    BY <2>1 DEF GaugeExplained, NotClosed, Made
<1> QED
  BY <1>1, <1>2, <1>3, <1>4 DEF LocalInv, LocalTypeOK, Breakers, MapBounded, InHand

LEMMA LocalBegins ==
  ASSUME LocalInit
  PROVE  LocalInv
<1>1. made = <<>> /\ Len(made) = 0 /\ breakers = {} /\ excused = {} /\ gauge = 0 /\ reopened = 0
  BY DEF LocalInit
<1>2. courier = [d \in Couriers |-> NoCall] /\ NoCall.step = "idle" /\ NoCall.no = 0
  BY DEF LocalInit, NoCall
<1>3. LocalTypeOK
  <2>1. NoCall \in [step : {"idle", "fire", "sent"}, no : 0..Len(made)]
    BY <1>1 DEF NoCall
  <2>2. made \in Seq(Breakers)
    BY <1>1, EmptySeq
  <2>3. Len(made) <= MaxMade
    BY <1>1, LocalAssumption
  <2> QED
    BY <1>1, <1>2, <2>1, <2>2, <2>3 DEF LocalTypeOK, Breakers
<1>4. MapBounded
  BY <1>1, FS_EmptySet, LocalAssumption DEF MapBounded
<1>5. GaugeExplained
  <2>1. {n \in 1..Len(made) : StateOf(n) # "closed"} = {}
    BY <1>1
  <2>2. Cardinality({n \in 1..Len(made) : StateOf(n) # "closed"}) = 0
    BY <2>1, FS_EmptySet
  <2> QED
    BY <1>1, <2>2 DEF GaugeExplained
<1>6. OpenIsHeld /\ InHand /\ \A d \in Couriers : courier[d].step = "idle" <=> courier[d].no = 0
  BY <1>1, <1>2 DEF OpenIsHeld, InHand
<1> QED
  BY <1>3, <1>4, <1>5, <1>6 DEF LocalInv

\* For any number of endpoints and deliveries: the Map keeps to its limit, a breaker
\* that is not closed is forgotten only when none was closed or with a call under
\* way, and the gauge counts those that are not closed and every failed probe.
THEOREM LocalBreakersAreSafe == LocalSpec => []LocalBreakersSafe
<1>1. LocalInit => LocalInv
  BY LocalBegins
<1>2. LocalInv /\ [LocalNext]_localVars => LocalInv'
  <2> SUFFICES ASSUME LocalInv, [LocalNext]_localVars
               PROVE  LocalInv'
    OBVIOUS
  <2>1. ASSUME NEW d \in Couriers, NEW t \in Targets, GetBreaker(d, t)
        PROVE  LocalInv'
    BY <2>1, HeldPreserves, NewPreserves DEF GetBreaker
  <2>2. ASSUME NEW d \in Couriers, Fire(d) \/ Settle(d)
        PROVE  LocalInv'
    BY <2>2, FirePreserves, SettlePreserves
  <2>3. ASSUME NEW n \in 1..Len(made), HalfOpen(n)
        PROVE  LocalInv'
    BY <2>3, HalfOpenPreserves DEF Made
  <2>4. CASE UNCHANGED localVars
    BY <2>4 DEF localVars, LocalInv, LocalTypeOK, MapBounded, OpenIsHeld, GaugeExplained, InHand, StateOf
  <2> QED
    BY <2>1, <2>2, <2>3, <2>4 DEF LocalNext
<1>3. LocalInv => LocalBreakersSafe
  BY DEF LocalInv, LocalBreakersSafe
<1> QED
  BY <1>1, <1>2, <1>3, PTL DEF LocalSpec

-----------------------------------------------------------------------------
(* Tunnels *)

\* A session is an open stream of its tunnel; a stream that was opened has one.
SessionsAreOwn ==
  \A t \in Tunnels : tunnelSessions[t] # "none" =>
    stream[tunnelSessions[t]].tunnel = t /\ stream[tunnelSessions[t]].state = "open"
NewestIsOwn ==
  \A t \in Tunnels : newest[t] # "none" =>
    stream[newest[t]].tunnel = t /\ stream[newest[t]].state # "new"
OpenedForOne == \A s \in Streams : stream[s].state # "new" => stream[s].tunnel \in Tunnels
TunnelInv ==
  /\ TunnelTypeOK /\ CapUnlessCrowded /\ NewestIsReached
  /\ SessionsAreOwn /\ NewestIsOwn /\ OpenedForOne

TunnelStreams == [tunnel : Tunnels \cup {"none"}, state : StreamStates]

LEMMA StreamIs ==
  ASSUME TunnelInv, NEW s \in Streams
  PROVE  /\ stream[s] \in TunnelStreams /\ stream \in [Streams -> TunnelStreams] /\ s # "none"
         /\ stream[s].state # "new" => stream[s].tunnel \in Tunnels
BY TunnelAssumption DEF TunnelInv, TunnelTypeOK, TunnelStreams, OpenedForOne

\* What the session of a tunnel is, and that it is active if there is one.
LEMMA SessionIs ==
  ASSUME TunnelInv, NEW t \in Tunnels
  PROVE  /\ tunnelSessions[t] \in Streams \cup {"none"} /\ newest[t] \in Streams \cup {"none"}
         /\ IsActive(t) <=> tunnelSessions[t] # "none"
         /\ tunnelSessions[t] # "none" =>
              /\ tunnelSessions[t] \in Streams /\ stream[tunnelSessions[t]].tunnel = t
              /\ stream[tunnelSessions[t]].state = "open"
<1>1. tunnelSessions[t] \in Streams \cup {"none"} /\ newest[t] \in Streams \cup {"none"}
  BY DEF TunnelInv, TunnelTypeOK
<1>2. tunnelSessions[t] # "none" => stream[tunnelSessions[t]].tunnel = t /\ stream[tunnelSessions[t]].state = "open"
  BY DEF TunnelInv, SessionsAreOwn
<1> QED
  BY <1>1, <1>2 DEF IsActive, StreamOver

\* Tunnels nobody listens on can be forgotten.
LEMMA IdleAreForgotten ==
  ASSUME TunnelInv, NEW S, S \subseteq {t \in Tunnels : ~IsActive(t)}, Forget(S)
  PROVE  tunnelSessions' = tunnelSessions
<1>1. \A t \in S : tunnelSessions[t] = "none"
  BY SessionIs
<1>2. tunnelSessions \in [Tunnels -> Streams \cup {"none"}]
  BY DEF TunnelInv, TunnelTypeOK
<1> QED
  BY <1>1, <1>2 DEF Forget

\* The streams and the sessions stay.
LEMMA StreamsStay ==
  ASSUME TunnelInv, UNCHANGED <<stream, tunnelSessions, newest, cutOff>>,
         TunnelTypeOK', CapUnlessCrowded'
  PROVE  TunnelInv'
BY DEF TunnelInv, NewestIsReached, SessionsAreOwn, NewestIsOwn, OpenedForOne, StreamOver

LEMMA KnownIs ==
  ASSUME TunnelInv
  PROVE  /\ IsFiniteSet(Known) /\ Cardinality(Known) \in Nat /\ Known \subseteq Tunnels
         /\ Expired \subseteq Known /\ Expired \subseteq {t \in Tunnels : ~IsActive(t)}
<1>1. Known \subseteq Tunnels /\ aged \subseteq Known
  BY DEF Known, TunnelInv, TunnelTypeOK
<1>2. IsFiniteSet(Known) /\ Cardinality(Known) \in Nat
  BY <1>1, TunnelAssumption, Fewer
<1> QED
  BY <1>1, <1>2 DEF Expired

\* createTunnel forgets tunnels nobody listens on, and enough of them for one more,
\* unless the map is full of tunnels with a client.
LEMMA DisplacedIs ==
  ASSUME TunnelInv
  PROVE  /\ Displaced \subseteq Known /\ Displaced \subseteq {t \in Tunnels : ~IsActive(t)}
         /\ \/ crowded
            \/ Cardinality(Known) >= MaxTunnels /\ \A u \in Known : IsActive(u)
            \/ Cardinality(Known \ Displaced) < MaxTunnels
<1>0. /\ IsFiniteSet(Known) /\ Cardinality(Known) \in Nat /\ Known \subseteq Tunnels
      /\ Expired \subseteq Known /\ Expired \subseteq {t \in Tunnels : ~IsActive(t)}
      /\ MaxTunnels \in Nat
  BY KnownIs, TunnelAssumption
<1>1. CASE Cardinality(Known) < MaxTunnels
  <2>1. Displaced = {} /\ Known \ {} = Known
    BY <1>1 DEF Displaced
  <2> QED
    BY <1>1, <2>1
<1>2. CASE ~(Cardinality(Known) < MaxTunnels)
  <2>1. CASE Cardinality(Known \ Expired) < MaxTunnels
    <3>1. Displaced = Expired
      BY <1>2, <2>1 DEF Displaced
    <3> QED
      BY <1>0, <2>1, <3>1
  <2>2. CASE ~(Cardinality(Known \ Expired) < MaxTunnels) /\ Idlers = {}
    <3>1. Displaced = Expired
      BY <1>2, <2>2 DEF Displaced
    <3>2. CASE Expired = {}
      <4>1. \A u \in Known : IsActive(u)
        BY <2>2, <3>2 DEF Idlers
      <4> QED
        BY <1>0, <1>2, <3>1, <4>1
    <3>3. CASE Expired # {}
      <4>1. PICK t \in Expired : t \in Known
        BY <1>0, <3>3
      <4>2. IsFiniteSet(Known \ {t}) /\ Cardinality(Known \ {t}) = Cardinality(Known) - 1
        BY <1>0, <4>1, FS_RemoveElement
      <4>3. Known \ Expired \subseteq Known \ {t}
        BY <4>1
      <4>4. Cardinality(Known \ Expired) <= Cardinality(Known) - 1 /\ Cardinality(Known \ Expired) \in Nat
        BY <4>2, <4>3, Fewer
      <4>5. crowded
        BY <1>0, <2>2, <4>4 DEF TunnelInv, CapUnlessCrowded
      <4> QED
        BY <1>0, <3>1, <4>5
    <3> QED
      BY <3>2, <3>3
  <2>3. CASE ~(Cardinality(Known \ Expired) < MaxTunnels) /\ Idlers # {}
    <3>1. Displaced = Expired \cup {FirstOf(Idlers)}
      BY <1>2, <2>3 DEF Displaced
    <3>2. FirstOf(Idlers) \in Idlers
      <4> DEFINE N == {tunnelMeta[t] : t \in Idlers}
      <4>1. Idlers \subseteq Tunnels /\ \A t \in Tunnels : tunnelMeta[t] \in Nat
        BY <1>0 DEF Idlers, TunnelInv, TunnelTypeOK
      <4>2. N \subseteq Nat /\ N # {}
        BY <2>3, <4>1
      <4>3. PICK n \in N : \A m \in N : n <= m
        BY <4>2, Least
      <4>4. \E t \in Idlers : \A u \in Idlers : tunnelMeta[t] <= tunnelMeta[u]
        BY <4>3
      <4> QED
        BY <4>4 DEF FirstOf
    <3>3. PICK t \in Known : t = FirstOf(Idlers) /\ ~IsActive(t) /\ t \notin Expired /\ t \in Tunnels
      BY <1>0, <3>2 DEF Idlers
    <3>4. Displaced = Expired \cup {t}
      BY <3>1, <3>3
    <3>5. IsFiniteSet(Known \ {t}) /\ Cardinality(Known \ {t}) = Cardinality(Known) - 1
      BY <1>0, <3>3, FS_RemoveElement
    <3>6. Cardinality(Known \ Displaced) <= Cardinality(Known) - 1 /\ Cardinality(Known \ Displaced) \in Nat
      <4>1. Known \ Displaced \subseteq Known \ {t}
        BY <3>4
      <4> QED
        BY <3>5, <4>1, Fewer
    <3>7. crowded \/ Cardinality(Known \ Displaced) < MaxTunnels
      BY <1>0, <3>6 DEF TunnelInv, CapUnlessCrowded
    <3> QED
      BY <1>0, <3>3, <3>4, <3>7
  <2> QED
    BY <2>1, <2>2, <2>3
<1> QED
  BY <1>1, <1>2

LEMMA CreateTunnelPreserves ==
  ASSUME TunnelInv, NEW t \in Tunnels, CreateTunnel(t)
  PROVE  TunnelInv'
<1>1. /\ Displaced \subseteq Known /\ Displaced \subseteq {u \in Tunnels : ~IsActive(u)}
      /\ crowded' \/ Cardinality(Known \ Displaced) < MaxTunnels
      /\ IsFiniteSet(Known) /\ Known \subseteq Tunnels /\ MaxTunnels \in Nat
  BY DisplacedIs, KnownIs, TunnelAssumption DEF CreateTunnel
<1>2. PICK n \in Nat : n # 0 /\ tunnelMeta' = [Without(Displaced) EXCEPT ![t] = n]
  <2> DEFINE S == {u \in Tunnels : cli[u] # "none"}
  <2>1. Cardinality(S) \in Nat
    BY TunnelAssumption, Fewer
  <2>2. Cardinality(S) + 1 \in Nat /\ Cardinality(S) + 1 # 0
    BY <2>1
  <2> QED
    BY <2>2 DEF CreateTunnel
<1>3. tunnelMeta' \in [Tunnels -> Nat] /\ Known' = (Known \ Displaced) \cup {t}
  BY <1>1, <1>2 DEF Without, Known, TunnelInv, TunnelTypeOK
<1>4. tunnelSessions' = tunnelSessions
  BY <1>1, IdleAreForgotten DEF CreateTunnel
<1>5. TunnelTypeOK'
  <2>1. aged' \subseteq Known'
    BY <1>3 DEF CreateTunnel, TunnelInv, TunnelTypeOK
  <2>2. crowded' \in BOOLEAN
    BY DEF CreateTunnel
  <2>3. cli' \in [Tunnels -> {"none", "connecting", "listening", "waiting", "gone"}]
    BY DEF CreateTunnel, StartCli, TunnelInv, TunnelTypeOK
  <2> QED
    BY <1>3, <1>4, <2>1, <2>2, <2>3 DEF CreateTunnel, TunnelInv, TunnelTypeOK
<1>6. CapUnlessCrowded'
  <2>1. IsFiniteSet(Known \ Displaced) /\ Cardinality(Known \ Displaced) \in Nat
    BY <1>1, Fewer
  <2>2. Cardinality(Known') <= Cardinality(Known \ Displaced) + 1 /\ Cardinality(Known') \in Nat
    BY <1>3, <2>1, OneMore
  <2> QED
    BY <1>1, <2>1, <2>2 DEF CapUnlessCrowded
<1> QED
  BY <1>4, <1>5, <1>6, StreamsStay DEF CreateTunnel

LEMMA OpenStreamPreserves ==
  ASSUME TunnelInv, NEW t \in Tunnels, NEW s \in Streams, OpenStream(t, s),
         cli' \in [Tunnels -> {"none", "connecting", "listening", "waiting", "gone"}]
  PROVE  TunnelInv'
<1> DEFINE o == [tunnel |-> t, state |-> "open"]
<1>1. o \in TunnelStreams /\ o.tunnel = t /\ o.state = "open"
  BY DEF TunnelStreams, StreamStates
<1>2. /\ stream[s].state = "new" /\ stream' = [stream EXCEPT ![s] = o]
      /\ tunnelSessions' = [tunnelSessions EXCEPT ![t] = s] /\ newest' = [newest EXCEPT ![t] = s]
      /\ UNCHANGED <<tunnelMeta, aged, cutOff, crowded>>
  BY DEF OpenStream
<1> HIDE DEF o
<1>3. stream \in [Streams -> TunnelStreams] /\ s # "none"
  BY StreamIs
<1>4. /\ stream' \in [Streams -> TunnelStreams] /\ stream'[s].tunnel = t /\ stream'[s].state = "open"
      /\ \A r \in Streams \ {s} : stream'[r] = stream[r]
  BY <1>1, <1>2, <1>3
<1>5. TunnelTypeOK' /\ CapUnlessCrowded'
  BY <1>2, <1>4 DEF TunnelInv, TunnelTypeOK, TunnelStreams, CapUnlessCrowded, Known
<1>6. OpenedForOne'
  BY <1>4 DEF TunnelInv, OpenedForOne
<1>7. SessionsAreOwn'
  <2> SUFFICES ASSUME NEW u \in Tunnels, tunnelSessions'[u] # "none"
               PROVE  stream'[tunnelSessions'[u]].tunnel = u /\ stream'[tunnelSessions'[u]].state = "open"
    BY DEF SessionsAreOwn
  <2>1. CASE u = t
    BY <1>2, <1>4, <2>1 DEF TunnelInv, TunnelTypeOK
  <2>2. CASE u # t
    <3>1. tunnelSessions'[u] = tunnelSessions[u]
      BY <1>2, <2>2 DEF TunnelInv, TunnelTypeOK
    <3>2. tunnelSessions[u] \in Streams \ {s}
      BY <1>2, <3>1, SessionIs
    <3> QED
      BY <1>4, <3>1, <3>2, SessionIs
  <2> QED
    BY <2>1, <2>2
<1>8. NewestIsOwn' /\ NewestIsReached'
  <2> SUFFICES ASSUME NEW u \in Tunnels, newest'[u] # "none"
               PROVE  /\ stream'[newest'[u]].tunnel = u /\ stream'[newest'[u]].state # "new"
                      /\ stream'[newest'[u]].state \notin {"ended", "closed"} =>
                           tunnelSessions'[u] = newest'[u] \/ newest'[u] \in cutOff'
    BY DEF NewestIsOwn, NewestIsReached, StreamOver
  <2>1. CASE u = t
    BY <1>2, <1>4, <2>1 DEF TunnelInv, TunnelTypeOK
  <2>2. CASE u # t
    <3>1. newest'[u] = newest[u] /\ tunnelSessions'[u] = tunnelSessions[u] /\ newest[u] \in Streams
      BY <1>2, <2>2 DEF TunnelInv, TunnelTypeOK
    <3>2. stream[newest[u]].tunnel = u /\ stream[newest[u]].state # "new"
      BY <3>1 DEF TunnelInv, NewestIsOwn
    <3>3. newest[u] \in Streams \ {s}
      BY <1>2, <3>1, <3>2
    <3>4. stream'[newest[u]] = stream[newest[u]] /\ cutOff' = cutOff
      BY <1>2, <1>4, <3>3
    <3>5. stream[newest[u]].state \notin {"ended", "closed"} =>
            tunnelSessions[u] = newest[u] \/ newest[u] \in cutOff
      BY <3>1, StreamIs DEF TunnelInv, NewestIsReached, StreamOver
    <3> QED
      BY <3>1, <3>2, <3>4, <3>5
  <2> QED
    BY <2>1, <2>2
<1> QED
  BY <1>5, <1>6, <1>7, <1>8 DEF TunnelInv

\* The close handler: the session of the tunnel is gone, its newest stream cut off
\* if it was another one.
LEMMA ClosePreserves ==
  ASSUME TunnelInv, NEW s \in Streams, Close(s)
  PROVE  TunnelInv'
<1>1. stream \in [Streams -> TunnelStreams] /\ stream[s].state # "new"
  BY StreamIs DEF Close, Closes
<1>2. PICK t \in Tunnels : t = stream[s].tunnel
  BY <1>1, StreamIs
<1>3. /\ stream' = [stream EXCEPT ![s].state = "closed"]
      /\ tunnelSessions' = [tunnelSessions EXCEPT ![t] = "none"]
      /\ cutOff' = cutOff \cup ({tunnelSessions[t]} \ {s, "none"})
      /\ UNCHANGED <<tunnelMeta, aged, cli, newest, crowded>>
  BY <1>2 DEF Close
<1>4. PICK r \in TunnelStreams : r = stream[s]
  BY <1>1
<1> DEFINE c == [r EXCEPT !.state = "closed"]
<1>5. c \in TunnelStreams /\ c.state = "closed" /\ c.tunnel = t
  BY <1>2, <1>4 DEF TunnelStreams, StreamStates
<1>6. stream' = [stream EXCEPT ![s] = c]
  BY <1>3, <1>4
<1> HIDE DEF c
<1>7. /\ stream' \in [Streams -> TunnelStreams] /\ stream'[s].tunnel = t /\ stream'[s].state = "closed"
      /\ \A q \in Streams \ {s} : stream'[q] = stream[q]
  BY <1>1, <1>5, <1>6
<1>8. /\ tunnelSessions' \in [Tunnels -> Streams \cup {"none"}] /\ tunnelSessions'[t] = "none"
      /\ \A u \in Tunnels \ {t} : tunnelSessions'[u] = tunnelSessions[u]
  BY <1>3 DEF TunnelInv, TunnelTypeOK
<1>9. TunnelTypeOK' /\ CapUnlessCrowded'
  <2>1. cutOff' \subseteq Streams
    BY <1>3, SessionIs DEF TunnelInv, TunnelTypeOK
  <2> QED
    BY <1>3, <1>7, <1>8, <2>1 DEF TunnelInv, TunnelTypeOK, TunnelStreams, CapUnlessCrowded, Known
<1>10. OpenedForOne'
  BY <1>7 DEF TunnelInv, OpenedForOne
<1>11. SessionsAreOwn'
  <2> SUFFICES ASSUME NEW u \in Tunnels, tunnelSessions'[u] # "none"
               PROVE  stream'[tunnelSessions'[u]].tunnel = u /\ stream'[tunnelSessions'[u]].state = "open"
    BY DEF SessionsAreOwn
  <2>1. u # t /\ tunnelSessions'[u] = tunnelSessions[u]
    BY <1>8
  <2>2. tunnelSessions[u] \in Streams \ {s}
    BY <1>2, <2>1, SessionIs
  <2> QED
    BY <1>7, <2>1, <2>2, SessionIs
<1>12. NewestIsOwn' /\ NewestIsReached'
  <2> SUFFICES ASSUME NEW u \in Tunnels, newest[u] # "none"
               PROVE  /\ stream'[newest[u]].tunnel = u /\ stream'[newest[u]].state # "new"
                      /\ stream'[newest[u]].state \notin {"ended", "closed"} =>
                           tunnelSessions'[u] = newest[u] \/ newest[u] \in cutOff'
    BY <1>3 DEF NewestIsOwn, NewestIsReached, StreamOver
  <2>1. newest[u] \in Streams /\ stream[newest[u]].tunnel = u /\ stream[newest[u]].state # "new"
    BY SessionIs DEF TunnelInv, NewestIsOwn
  <2>2. CASE newest[u] = s
    BY <1>2, <1>7, <2>1, <2>2
  <2>3. CASE newest[u] # s
    <3>1. stream'[newest[u]] = stream[newest[u]]
      BY <1>7, <2>1, <2>3
    <3>2. stream[newest[u]].state \notin {"ended", "closed"} =>
            tunnelSessions[u] = newest[u] \/ newest[u] \in cutOff
      BY DEF TunnelInv, NewestIsReached, StreamOver
    <3>3. CASE u = t
      BY <1>3, <2>1, <2>3, <3>1, <3>2, <3>3
    <3>4. CASE u # t
      BY <1>3, <1>8, <2>1, <3>1, <3>2, <3>4
    <3> QED
      BY <3>3, <3>4
  <2> QED
    BY <2>2, <2>3
<1> QED
  BY <1>9, <1>10, <1>11, <1>12 DEF TunnelInv

\* Fewer tunnels are known, and their streams as before.
LEMMA DropIs ==
  ASSUME TunnelInv, NEW S, S \subseteq Tunnels, tunnelMeta' = Without(S), aged' = aged \ S, UNCHANGED crowded
  PROVE  /\ tunnelMeta' \in [Tunnels -> Nat] /\ aged' \subseteq Known' /\ Known' = Known \ S
         /\ CapUnlessCrowded'
<1>1. tunnelMeta' \in [Tunnels -> Nat] /\ Known' = Known \ S /\ aged' \subseteq Known'
  BY DEF Without, Known, TunnelInv, TunnelTypeOK
<1>2. /\ Cardinality(Known) \in Nat /\ Cardinality(Known') \in Nat
      /\ Cardinality(Known') <= Cardinality(Known) /\ MaxTunnels \in Nat
  BY <1>1, KnownIs, Fewer, TunnelAssumption
<1> QED
  BY <1>1, <1>2 DEF TunnelInv, CapUnlessCrowded

LEMMA DeleteTunnelPreserves ==
  ASSUME TunnelInv, NEW t \in Tunnels, DeleteTunnel(t)
  PROVE  TunnelInv'
<1>1. stream \in [Streams -> TunnelStreams]
  BY DEF TunnelInv, TunnelTypeOK, TunnelStreams
<1>2. \A s \in Streams : stream'[s] = IF tunnelSessions[t] = s THEN [stream[s] EXCEPT !.state = "ended"] ELSE stream[s]
  BY SessionIs, StreamIs DEF DeleteTunnel, EndStream
<1>3. \A s \in Streams : [stream[s] EXCEPT !.state = "ended"] \in TunnelStreams
  BY <1>1 DEF TunnelStreams, StreamStates
<1>4. /\ stream' \in [Streams -> TunnelStreams]
      /\ \A s \in Streams : /\ stream'[s].tunnel = stream[s].tunnel
                            /\ tunnelSessions[t] # s => stream'[s] = stream[s]
                            /\ tunnelSessions[t] = s => stream'[s].state = "ended"
  <2>1. stream' = [s \in Streams |-> stream'[s]]
    BY DEF DeleteTunnel, EndStream
  <2>2. \A s \in Streams : stream[s] \in TunnelStreams /\ stream'[s] \in TunnelStreams
    BY <1>1, <1>2, <1>3
  <2>3. \A s \in Streams : tunnelSessions[t] = s => stream'[s].tunnel = stream[s].tunnel /\ stream'[s].state = "ended"
    BY <1>2, <2>2 DEF TunnelStreams
  <2> QED
    BY <1>2, <2>1, <2>2, <2>3
<1>5. /\ tunnelSessions' \in [Tunnels -> Streams \cup {"none"}] /\ tunnelSessions'[t] = "none"
      /\ \A u \in Tunnels \ {t} : tunnelSessions'[u] = tunnelSessions[u]
  BY DEF DeleteTunnel, Forget, TunnelInv, TunnelTypeOK
<1>6. TunnelTypeOK' /\ CapUnlessCrowded'
  <2>1. tunnelMeta' \in [Tunnels -> Nat] /\ aged' \subseteq Known' /\ CapUnlessCrowded'
    BY DropIs DEF DeleteTunnel
  <2> QED
    BY <1>4, <1>5, <2>1 DEF TunnelInv, TunnelTypeOK, TunnelStreams, DeleteTunnel
<1>7. OpenedForOne'
  <2> SUFFICES ASSUME NEW s \in Streams, stream'[s].state # "new"
               PROVE  stream'[s].tunnel \in Tunnels
    BY DEF OpenedForOne
  <2>1. CASE tunnelSessions[t] = s
    BY <1>4, <2>1, SessionIs, StreamIs
  <2>2. CASE tunnelSessions[t] # s
    <3>1. stream[s].state # "new" /\ stream'[s].tunnel = stream[s].tunnel
      BY <1>4, <2>2
    <3> QED
      BY <3>1, StreamIs
  <2> QED
    BY <2>1, <2>2
<1>8. SessionsAreOwn'
  <2> SUFFICES ASSUME NEW u \in Tunnels, tunnelSessions'[u] # "none"
               PROVE  stream'[tunnelSessions'[u]].tunnel = u /\ stream'[tunnelSessions'[u]].state = "open"
    BY DEF SessionsAreOwn
  <2>1. u # t /\ tunnelSessions'[u] = tunnelSessions[u]
    BY <1>5
  <2>2. tunnelSessions[u] \in Streams /\ tunnelSessions[u] # tunnelSessions[t]
    BY <2>1, SessionIs
  <2> QED
    BY <1>4, <2>1, <2>2, SessionIs
<1>9. NewestIsOwn' /\ NewestIsReached'
  <2> SUFFICES ASSUME NEW u \in Tunnels, newest[u] # "none"
               PROVE  /\ stream'[newest[u]].tunnel = u /\ stream'[newest[u]].state # "new"
                      /\ stream'[newest[u]].state \notin {"ended", "closed"} =>
                           tunnelSessions'[u] = newest[u] \/ newest[u] \in cutOff
    BY DEF NewestIsOwn, NewestIsReached, StreamOver, DeleteTunnel
  <2>1. newest[u] \in Streams /\ stream[newest[u]].tunnel = u /\ stream[newest[u]].state # "new"
    BY SessionIs DEF TunnelInv, NewestIsOwn
  <2>2. CASE newest[u] = tunnelSessions[t]
    BY <1>4, <2>1, <2>2
  <2>3. CASE newest[u] # tunnelSessions[t]
    <3>1. stream'[newest[u]] = stream[newest[u]]
      BY <1>4, <2>1, <2>3
    <3>2. stream[newest[u]].state \notin {"ended", "closed"} =>
            tunnelSessions[u] = newest[u] \/ newest[u] \in cutOff
      BY DEF TunnelInv, NewestIsReached, StreamOver
    <3> QED
      BY <1>5, <2>1, <2>3, <3>1, <3>2
  <2> QED
    BY <2>2, <2>3
<1> QED
  BY <1>6, <1>7, <1>8, <1>9 DEF TunnelInv

\* For any number of tunnels and streams: the client that connected last is reached
\* unless an earlier stream closed after it, sessions are open and a deleted tunnel's
\* is listened on, and the map passes its limit only when full of live tunnels.
THEOREM TunnelsAreSafe == TunnelSpec => []TunnelsSafe
<1>1. TunnelInit => TunnelInv
  <2> SUFFICES ASSUME TunnelInit
               PROVE  TunnelInv
    OBVIOUS
  <2>1. Known = {} /\ Cardinality(Known) = 0
    <3>1. Known = {}
      BY DEF TunnelInit, Known
    <3> QED
      BY <3>1, FS_EmptySet
  <2>2. TunnelTypeOK
    BY <2>1 DEF TunnelInit, TunnelTypeOK, StreamStates
  <2>3. CapUnlessCrowded
    BY <2>1, TunnelAssumption DEF CapUnlessCrowded
  <2> QED
    BY <2>2, <2>3 DEF TunnelInit, TunnelInv, NewestIsReached, SessionsAreOwn, NewestIsOwn, OpenedForOne
<1>2. TunnelInv /\ [TunnelNext]_tunnelVars => TunnelInv'
  <2> SUFFICES ASSUME TunnelInv, [TunnelNext]_tunnelVars
               PROVE  TunnelInv'
    OBVIOUS
  <2>1. ASSUME NEW t \in Tunnels, CreateTunnel(t) \/ DeleteTunnel(t)
        PROVE  TunnelInv'
    BY <2>1, CreateTunnelPreserves, DeleteTunnelPreserves
  <2>2. ASSUME NEW t \in Tunnels, NEW s \in Streams, Connect(t, s)
        PROVE  TunnelInv'
    <3>1. cli' \in [Tunnels -> {"none", "connecting", "listening", "waiting", "gone"}]
      BY <2>2 DEF Connect, CliMoves, TunnelInv, TunnelTypeOK
    <3> QED
      BY <2>2, <3>1, OpenStreamPreserves DEF Connect
  <2>3. ASSUME NEW s \in Streams, Close(s)
        PROVE  TunnelInv'
    BY <2>3, ClosePreserves
  <2>4. ASSUME NEW t \in Tunnels, Forward(t)
        PROVE  TunnelInv'
    <3>1. tunnelSessions' = tunnelSessions
      <4>1. {t} \subseteq {u \in Tunnels : ~IsActive(u)}
        BY <2>4 DEF Forward
      <4> QED
        BY <2>4, <4>1, IdleAreForgotten DEF Forward
    <3>2. TunnelTypeOK' /\ CapUnlessCrowded'
      BY <2>4, <3>1 DEF Forward, TunnelInv, TunnelTypeOK, CapUnlessCrowded, Known
    <3> QED
      BY <2>4, <3>1, <3>2, StreamsStay DEF Forward
  <2>5. CASE CleanupExpiredTunnels
    <3>1. Expired \subseteq {t \in Tunnels : ~IsActive(t)} /\ Expired \subseteq Tunnels
      BY KnownIs
    <3>2. tunnelSessions' = tunnelSessions
      BY <2>5, <3>1, IdleAreForgotten DEF CleanupExpiredTunnels
    <3>3. tunnelMeta' \in [Tunnels -> Nat] /\ aged' \subseteq Known' /\ CapUnlessCrowded'
      BY <2>5, <3>1, DropIs DEF CleanupExpiredTunnels
    <3>4. TunnelTypeOK'
      BY <2>5, <3>2, <3>3 DEF CleanupExpiredTunnels, TunnelInv, TunnelTypeOK
    <3> QED
      BY <2>5, <3>2, <3>3, <3>4, StreamsStay DEF CleanupExpiredTunnels
  <2>6. ASSUME NEW t \in Tunnels,
               GrowOld(t) \/ ConnectFails(t) \/ HearEnd(t) \/ Retry(t) \/ CliGone(t)
        PROVE  TunnelInv'
    <3>1. UNCHANGED <<tunnelMeta, tunnelSessions, stream, newest, cutOff, crowded>>
      BY <2>6 DEF GrowOld, ConnectFails, HearEnd, Retry, CliGone
    <3>2. aged' \subseteq Known
      BY <2>6 DEF GrowOld, ConnectFails, HearEnd, Retry, CliGone, TunnelInv, TunnelTypeOK
    <3>3. cli' \in [Tunnels -> {"none", "connecting", "listening", "waiting", "gone"}]
      BY <2>6 DEF GrowOld, ConnectFails, HearEnd, Retry, CliGone, CliMoves, TunnelInv, TunnelTypeOK
    <3>4. TunnelTypeOK' /\ CapUnlessCrowded'
      BY <3>1, <3>2, <3>3 DEF TunnelInv, TunnelTypeOK, CapUnlessCrowded, Known
    <3> QED
      BY <3>1, <3>4, StreamsStay
  <2>7. CASE UNCHANGED tunnelVars
    <3>1. TunnelTypeOK' /\ CapUnlessCrowded'
      BY <2>7 DEF tunnelVars, TunnelInv, TunnelTypeOK, CapUnlessCrowded, Known
    <3> QED
      BY <2>7, <3>1, StreamsStay DEF tunnelVars
  <2> QED
    BY <2>1, <2>2, <2>3, <2>4, <2>5, <2>6, <2>7 DEF TunnelNext
<1>3. TunnelInv => TunnelsSafe
  <2> SUFFICES ASSUME TunnelInv
               PROVE  TunnelsSafe
    OBVIOUS
  <2>1. SessionsAreOpen /\ StrayIsLive
    BY SessionIs DEF SessionsAreOpen, StrayIsLive
  <2> QED
    BY <2>1 DEF TunnelInv, TunnelsSafe
<1> QED
  BY <1>1, <1>2, <1>3, PTL DEF TunnelSpec

-----------------------------------------------------------------------------
(* Buckets *)

BucketsSpec == BucketsInit /\ [][BucketsNext]_bucketVars

\* Sums over the hours: the partial sums exist and determine the sum.
Hourly == [BucketHours -> Nat]
PartialSums(g, f, m) == g \in [0..m -> Nat] /\ g[0] = 0 /\ \A k \in 1..m : g[k] = g[k - 1] + f[k]

LEMMA PartialSumsExist ==
  ASSUME NEW f \in Hourly, NEW m \in 0..LastHour
  PROVE  \E g : PartialSums(g, f, m)
<1> DEFINE T == {n \in 0..LastHour : ~\E g : PartialSums(g, f, n)}
<1>0. LastHour \in Nat
  BY BucketsAssumption
<1>1. SUFFICES ASSUME T # {} PROVE FALSE
  OBVIOUS
<1>2. PICK n \in T : \A k \in T : n <= k
  <2>1. T \subseteq Nat
    BY <1>0
  <2> HIDE DEF T
  <2> QED
    BY <1>1, <2>1, Least
<1>3. CASE n = 0
  <2>1. PartialSums([k \in 0..0 |-> 0], f, 0)
    BY DEF PartialSums
  <2> QED
    BY <1>3, <2>1
<1>4. CASE n # 0
  <2>1. n \in Nat /\ n \in BucketHours /\ n - 1 \in 0..LastHour /\ n - 1 \notin T
    BY <1>0, <1>2, <1>4 DEF BucketHours
  <2>2. PICK g : PartialSums(g, f, n - 1)
    BY <2>1
  <2> DEFINE e == [k \in 0..n |-> IF k = n THEN g[n - 1] + f[n] ELSE g[k]]
  <2>3. f[n] \in Nat /\ g[n - 1] \in Nat
    BY <2>1, <2>2 DEF PartialSums, Hourly
  <2>4. e \in [0..n -> Nat]
    BY <2>1, <2>2, <2>3 DEF PartialSums
  <2>5. e[0] = 0 /\ \A k \in 1..n : e[k] = e[k - 1] + f[k]
    <3>1. e[0] = g[0]
      BY <1>4, <2>1
    <3>2. ASSUME NEW k \in 1..n
          PROVE  e[k] = e[k - 1] + f[k]
      <4>1. k - 1 \in 0..n /\ k - 1 # n /\ e[k - 1] = g[k - 1]
        BY <2>1
      <4>2. CASE k = n
        BY <2>1, <4>1, <4>2
      <4>3. CASE k # n
        <5>1. k \in 1..(n - 1) /\ e[k] = g[k]
          BY <2>1, <4>3
        <5> QED
          BY <2>2, <4>1, <5>1 DEF PartialSums
      <4> QED
        BY <4>2, <4>3
    <3> QED
      BY <2>2, <3>1, <3>2 DEF PartialSums
  <2>6. PartialSums(e, f, n)
    BY <2>4, <2>5 DEF PartialSums
  <2> HIDE DEF e
  <2> QED
    BY <1>2, <2>6
<1> QED
  BY <1>3, <1>4

LEMMA SumIs ==
  ASSUME NEW f \in Hourly
  PROVE  \E g : PartialSums(g, f, LastHour) /\ SumOf(f) = g[LastHour]
<1>0. LastHour \in Nat /\ LastHour \in 0..LastHour
  BY BucketsAssumption
<1> DEFINE Is(g) == g = [n \in 0..LastHour |-> IF n = 0 THEN 0 ELSE g[n - 1] + f[n]]
<1>1. \E g : Is(g)
  <2>1. PICK g : PartialSums(g, f, LastHour)
    BY <1>0, PartialSumsExist
  <2>2. \A n \in 0..LastHour : g[n] = IF n = 0 THEN 0 ELSE g[n - 1] + f[n]
    BY <1>0, <2>1 DEF PartialSums
  <2>3. g = [n \in 0..LastHour |-> g[n]]
    BY <2>1 DEF PartialSums
  <2> QED
    BY <2>2, <2>3
<1>2. PICK g : g = (CHOOSE h : Is(h)) /\ Is(g)
  BY <1>1
<1>3. SumOf(f) = g[LastHour]
  BY <1>2 DEF SumOf
<1>4. \A n \in 0..LastHour : g[n] = IF n = 0 THEN 0 ELSE g[n - 1] + f[n]
  BY <1>2
<1>5. g = [n \in 0..LastHour |-> g[n]]
  BY <1>2
<1> HIDE DEF Is
<1>6. g[0] = 0 /\ \A k \in 1..LastHour : g[k] = g[k - 1] + f[k]
  BY <1>0, <1>4
<1>7. \A n \in 0..LastHour : g[n] \in Nat
  <2> DEFINE T == {n \in 0..LastHour : g[n] \notin Nat}
  <2>1. SUFFICES ASSUME T # {} PROVE FALSE
    OBVIOUS
  <2>2. T \subseteq Nat
    BY <1>0
  <2> HIDE DEF T
  <2>3. PICK n \in T : \A k \in T : n <= k
    BY <2>1, <2>2, Least
  <2>4. n \in 0..LastHour /\ g[n] \notin Nat /\ n # 0
    BY <1>6, <2>3 DEF T
  <2>5. n - 1 \in 0..LastHour /\ n \in 1..LastHour /\ ~(n <= n - 1)
    BY <1>0, <2>4
  <2>6. g[n - 1] \in Nat
    BY <2>3, <2>5 DEF T
  <2>7. f[n] \in Nat
    BY <2>5 DEF Hourly, BucketHours
  <2> QED
    BY <1>6, <2>4, <2>5, <2>6, <2>7
<1> QED
  BY <1>3, <1>5, <1>6, <1>7 DEF PartialSums

\* What is added to one hour is added to the sum.
LEMMA SumAdds ==
  ASSUME NEW f \in Hourly, NEW h \in BucketHours, NEW d \in Nat
  PROVE  /\ [f EXCEPT ![h] = @ + d] \in Hourly /\ SumOf(f) \in Nat
         /\ SumOf([f EXCEPT ![h] = @ + d]) = SumOf(f) + d
<1> DEFINE e == [f EXCEPT ![h] = @ + d]
<1>0. LastHour \in Nat /\ LastHour \in 0..LastHour /\ h \in 1..LastHour
  BY BucketsAssumption DEF BucketHours
<1>1. e \in Hourly /\ \A k \in BucketHours : f[k] \in Nat /\ e[k] = IF k = h THEN f[k] + d ELSE f[k]
  BY DEF Hourly
<1> HIDE DEF e
<1>2. PICK g : PartialSums(g, f, LastHour) /\ SumOf(f) = g[LastHour]
  BY SumIs
<1>3. PICK i : PartialSums(i, e, LastHour) /\ SumOf(e) = i[LastHour]
  BY <1>1, SumIs
<1> DEFINE Off(n) == IF n >= h THEN d ELSE 0
           T == {n \in 0..LastHour : i[n] # g[n] + Off(n)}
<1>4. T = {}
  <2>1. SUFFICES ASSUME T # {} PROVE FALSE
    OBVIOUS
  <2>2. T \subseteq Nat
    BY <1>0
  <2> HIDE DEF T
  <2>3. PICK n \in T : \A k \in T : n <= k
    BY <2>1, <2>2, Least
  <2>4. n \in 0..LastHour /\ i[n] # g[n] + Off(n)
    BY <2>3 DEF T
  <2>5. n # 0
    BY <1>0, <1>2, <1>3, <2>4 DEF PartialSums
  <2>6. n - 1 \in 0..LastHour /\ n \in 1..LastHour /\ ~(n <= n - 1)
    BY <1>0, <2>4, <2>5
  <2>7. i[n - 1] = g[n - 1] + Off(n - 1)
    BY <2>3, <2>6 DEF T
  <2>8. i[n] = i[n - 1] + e[n] /\ g[n] = g[n - 1] + f[n] /\ g[n - 1] \in Nat
    BY <1>2, <1>3, <2>6 DEF PartialSums
  <2>9. e[n] = (IF n = h THEN f[n] + d ELSE f[n]) /\ f[n] \in Nat
    BY <1>1, <2>6 DEF BucketHours
  <2>10. Off(n) = Off(n - 1) + (IF n = h THEN d ELSE 0)
    BY <1>0, <2>6
  <2> HIDE DEF Off
  <2>11. Off(n - 1) \in Nat
    BY DEF Off
  <2> QED
    BY <2>4, <2>7, <2>8, <2>9, <2>10, <2>11
<1>5. i[LastHour] = g[LastHour] + d
  BY <1>0, <1>4
<1>6. g[LastHour] \in Nat
  BY <1>0, <1>2 DEF PartialSums
<1> QED
  BY <1>1, <1>2, <1>3, <1>5, <1>6 DEF e

LEMMA SumOfNothing ==
  ASSUME NEW f \in Hourly, \A h \in BucketHours : f[h] = 0
  PROVE  SumOf(f) = 0
<1>0. LastHour \in Nat /\ LastHour \in 0..LastHour
  BY BucketsAssumption
<1>1. PICK g : PartialSums(g, f, LastHour) /\ SumOf(f) = g[LastHour]
  BY SumIs
<1> DEFINE T == {n \in 0..LastHour : g[n] # 0}
<1>2. T = {}
  <2>1. SUFFICES ASSUME T # {} PROVE FALSE
    OBVIOUS
  <2>2. T \subseteq Nat
    BY <1>0
  <2> HIDE DEF T
  <2>3. PICK n \in T : \A k \in T : n <= k
    BY <2>1, <2>2, Least
  <2>4. n \in 0..LastHour /\ g[n] # 0 /\ n # 0
    BY <1>1, <2>3 DEF T, PartialSums
  <2>5. n - 1 \in 0..LastHour /\ n \in 1..LastHour /\ ~(n <= n - 1)
    BY <1>0, <2>4
  <2>6. g[n - 1] = 0 /\ g[n] = g[n - 1] + f[n] /\ f[n] = 0
    BY <1>1, <2>3, <2>5 DEF T, PartialSums, BucketHours
  <2> QED
    BY <2>4, <2>6
<1> QED
  BY <1>0, <1>1, <1>2

\* Every hour is within some bound, so that a maximum exists.
LEMMA HoursAreBounded ==
  ASSUME NEW f \in Hourly
  PROVE  \E b \in Nat : \A h \in BucketHours : f[h] <= b
<1>0. LastHour \in Nat /\ LastHour \in 0..LastHour
  BY BucketsAssumption
<1> DEFINE Bounds(n, b) == b \in Nat /\ \A h \in 1..n : f[h] <= b
           T == {n \in 0..LastHour : ~\E b : Bounds(n, b)}
<1>1. T = {}
  <2>1. SUFFICES ASSUME T # {} PROVE FALSE
    OBVIOUS
  <2>2. T \subseteq Nat
    BY <1>0
  <2> HIDE DEF T
  <2>3. PICK n \in T : \A k \in T : n <= k
    BY <2>1, <2>2, Least
  <2>4. n \in 0..LastHour /\ ~\E b : Bounds(n, b)
    BY <2>3 DEF T
  <2>5. n # 0
    <3>1. Bounds(0, 0)
      OBVIOUS
    <3> QED
      BY <2>4, <3>1
  <2>6. n - 1 \in 0..LastHour /\ n \in BucketHours /\ ~(n <= n - 1)
    BY <1>0, <2>4, <2>5 DEF BucketHours
  <2>7. PICK b : Bounds(n - 1, b)
    BY <2>3, <2>6 DEF T
  <2>8. f[n] \in Nat
    BY <2>6 DEF Hourly
  <2>9. Bounds(n, b + f[n])
    <3>1. ASSUME NEW h \in 1..n
          PROVE  f[h] <= b + f[n]
      <4>1. CASE h = n
        BY <2>7, <2>8, <4>1
      <4>2. CASE h # n
        <5>1. h \in 1..(n - 1) /\ h \in BucketHours
          BY <1>0, <2>4, <2>6, <4>2 DEF BucketHours
        <5>2. f[h] <= b /\ f[h] \in Nat
          BY <2>7, <5>1 DEF Hourly
        <5> QED
          BY <2>7, <2>8, <5>2
      <4> QED
        BY <4>1, <4>2
    <3> QED
      BY <2>7, <2>8, <3>1
  <2> QED
    BY <2>4, <2>9
<1> QED
  BY <1>0, <1>1 DEF BucketHours

LEMMA Greatest ==
  ASSUME NEW S, S \subseteq Nat, S # {}, NEW b \in Nat, \A x \in S : x <= b
  PROVE  Max(S) \in S /\ \A x \in S : x <= Max(S)
<1> DEFINE T == {c \in Nat : \A x \in S : x <= c}
<1>1. PICK c \in T : \A d \in T : c <= d
  <2>1. b \in T /\ T \subseteq Nat
    OBVIOUS
  <2> HIDE DEF T
  <2> QED
    BY <2>1, Least
<1>2. c \in S
  <2>1. SUFFICES ASSUME c \notin S PROVE FALSE
    OBVIOUS
  <2>2. c \in Nat /\ \A x \in S : x <= c /\ x # c /\ x \in Nat
    BY <1>1, <2>1
  <2>3. c # 0
    <3>1. PICK x \in S : x \in Nat /\ x <= c /\ x # c
      BY <2>2
    <3> QED
      BY <3>1
  <2>4. c - 1 \in T
    BY <2>2, <2>3
  <2>5. ~(c <= c - 1)
    BY <2>2
  <2> QED
    BY <1>1, <2>4, <2>5
<1>3. c \in Nat /\ \A x \in S : c >= x /\ x \in Nat
  BY <1>1
<1>4. \E x \in S : \A y \in S : x >= y
  BY <1>2, <1>3
<1>5. Max(S) \in S /\ \A y \in S : Max(S) >= y
  BY <1>4 DEF Max
<1> QED
  BY <1>5

LEMMA Smallest ==
  ASSUME NEW S, S \subseteq Nat, S # {}
  PROVE  Min(S) \in S /\ \A x \in S : Min(S) <= x
BY Least DEF Min

\* A type that is counted is counted in a bucket, and what a solid record has shown of
\* its hour the bucket has, and the copy of each record that has read since.
CountedIsThere == \A h \in BucketHours, t \in EventTypes : typeCount[h][t] > 0 => bucket[h].found
Shows(b, h) ==
  \A l \in Latencies : <<h, l>> \in solid => b.found /\ b.min # 0 /\ b.min <= l /\ l <= b.max
SolidIsShown ==
  /\ \A h \in BucketHours : Shows(bucket[h], h)
  /\ \A r \in Recorders : Recording(r) =>
       /\ Shows(recorder[r].copy, recorder[r].hour)
       /\ recorder[r].alone => recorder[r].copy = bucket[recorder[r].hour] /\ Crowd(r) = {}
BucketsInv ==
  BucketsTypeOK /\ AverageExact /\ CountedUnlessNested /\ CountedIsThere /\ SolidIsShown

Records == [metric : {"delivered", "failed"}, latency : Latencies, type : EventTypes,
            hour : BucketHours, copy : Docs, alone : BOOLEAN]
LatencyAt == [h \in BucketHours |-> bucket[h].totalLatency]
DeliveriesAt == [h \in BucketHours |-> bucket[h].deliveryCount]

LEMMA DocIs ==
  ASSUME NEW b \in Docs
  PROVE  /\ b.totalLatency \in Nat /\ b.deliveryCount \in Nat /\ b.found \in BOOLEAN
         /\ b.min \in Nat /\ b.max \in Nat
<1>1. /\ b.totalLatency \in Nat /\ b.deliveryCount \in Nat /\ b.found \in BOOLEAN
      /\ b.min \in Latencies \cup {0} /\ b.max \in Latencies \cup {0}
  BY DEF Docs
<1>2. Latencies \cup {0} \subseteq Nat
  BY BucketsAssumption
<1> QED
  BY <1>1, <1>2, Zenon

LEMMA BucketIs ==
  ASSUME BucketsTypeOK
  PROVE  /\ bucket \in [BucketHours -> Docs] /\ Latencies \subseteq Nat /\ BucketHours \subseteq Nat
         /\ \A h \in BucketHours : /\ bucket[h].totalLatency \in Nat /\ bucket[h].found \in BOOLEAN
                                   /\ bucket[h].deliveryCount \in Nat
                                  /\ bucket[h].min \in Nat /\ bucket[h].max \in Nat
         /\ LatencyAt \in Hourly /\ DeliveriesAt \in Hourly /\ \A t \in EventTypes : CountAt(t) \in Hourly
         /\ Summary.totalLatency = SumOf(LatencyAt)
         /\ Summary.deliveryCount = SumOf(DeliveriesAt)
         /\ Summary.min = LowestLatency /\ Summary.max = Max({bucket[h].max : h \in There} \cup {0})
<1>1. bucket \in [BucketHours -> Docs] /\ Latencies \subseteq Nat /\ BucketHours \subseteq Nat
  BY BucketsAssumption DEF BucketsTypeOK, BucketHours
<1>2. \A h \in BucketHours : /\ bucket[h].totalLatency \in Nat /\ bucket[h].found \in BOOLEAN
                             /\ bucket[h].deliveryCount \in Nat
                            /\ bucket[h].min \in Nat /\ bucket[h].max \in Nat
  <2> SUFFICES ASSUME NEW h \in BucketHours
               PROVE  /\ bucket[h].totalLatency \in Nat /\ bucket[h].found \in BOOLEAN
                      /\ bucket[h].deliveryCount \in Nat
                      /\ bucket[h].min \in Nat /\ bucket[h].max \in Nat
    OBVIOUS
  <2>1. bucket[h] \in Docs
    BY <1>1
  <2> QED
    BY <2>1, DocIs
<1>3. LatencyAt \in Hourly /\ DeliveriesAt \in Hourly /\ \A t \in EventTypes : CountAt(t) \in Hourly
  BY <1>2 DEF LatencyAt, DeliveriesAt, CountAt, Hourly, BucketsTypeOK
<1>4. /\ Summary.totalLatency = SumOf(LatencyAt)
      /\ Summary.deliveryCount = SumOf(DeliveriesAt)
      /\ Summary.min = LowestLatency /\ Summary.max = Max({bucket[h].max : h \in There} \cup {0})
  BY DEF Summary, LatencyAt, DeliveriesAt
<1> QED
  BY <1>1, <1>2, <1>3, <1>4

LEMMA RecordIs ==
  ASSUME BucketsTypeOK, NEW r \in Recorders
  PROVE  /\ Recording(r) => recorder[r] \in Records
         /\ \A x \in Records : x # NotRecording
<1>1. recorder[r] \in {NotRecording} \cup Records
  BY DEF BucketsTypeOK, Records
<1>2. ASSUME NEW x \in Records
      PROVE  x # NotRecording
  <2>1. x.metric \in {"delivered", "failed"} /\ NotRecording.metric = "none"
    BY DEF Records, NotRecording
  <2> QED
    BY <2>1
<1> QED
  BY <1>1, <1>2 DEF Recording

\* w is the bucket b with a record in it, of latency l and metric m, whose copy was c.
Written(b, w, c, l, m) ==
  /\ w \in Docs /\ w.found
  /\ w.totalLatency = b.totalLatency + (IF m = "delivered" THEN l ELSE 0)
  /\ w.deliveryCount = b.deliveryCount + (IF m = "delivered" THEN 1 ELSE 0)
  /\ w.min = IF l # 0 /\ c.found /\ (c.min = 0 \/ l < c.min) THEN l ELSE b.min
  /\ w.max = IF l # 0 /\ c.found /\ l > c.max THEN l ELSE b.max

\* What one upsert makes of the bucket.
LEMMA WrittenIs ==
  ASSUME BucketsTypeOK, NEW r \in Recorders, Recording(r), NEW b \in Docs,
         NEW w, w = [Extremes(r, Counters(r, b)) EXCEPT !.found = TRUE],
         NEW c, c = recorder[r].copy, NEW l, l = recorder[r].latency,
         NEW m, m = recorder[r].metric
  PROVE  Written(b, w, c, l, m)
<1>1. PICK x \in Records : x = recorder[r]
  BY RecordIs
<1>2. c = x.copy /\ l = x.latency /\ m = x.metric
  BY <1>1
<1>3. c \in Docs /\ l \in Latencies /\ Latencies \subseteq Nat /\ m \in {"delivered", "failed"}
  BY <1>2, BucketIs DEF Records
<1>4. PICK d : d = Counters(r, b)
  OBVIOUS
<1>5. /\ d \in Docs /\ d.min = b.min /\ d.max = b.max
      /\ d.totalLatency = b.totalLatency + (IF m = "delivered" THEN l ELSE 0)
      /\ d.deliveryCount = b.deliveryCount + (IF m = "delivered" THEN 1 ELSE 0)
  <2>1. d = IF m # "delivered" THEN b
            ELSE [b EXCEPT !.deliveryCount = b.deliveryCount + 1, !.totalLatency = b.totalLatency + l]
    BY <1>1, <1>2, <1>4 DEF Counters
  <2>2. b.deliveryCount \in Nat /\ b.totalLatency \in Nat /\ l \in Nat
    BY <1>3, DocIs
  <2>3. CASE m # "delivered"
    BY <2>1, <2>2, <2>3
  <2>4. CASE m = "delivered"
    <3>1. PICK n \in Nat, s \in Nat : n = b.deliveryCount + 1 /\ s = b.totalLatency + l
      BY <2>2
    <3>2. d = [b EXCEPT !.deliveryCount = n, !.totalLatency = s]
      BY <2>1, <2>4, <3>1
    <3>3. d \in Docs /\ d.min = b.min /\ d.max = b.max /\ d.totalLatency = s /\ d.deliveryCount = n
      BY <3>2 DEF Docs
    <3>4. (IF m = "delivered" THEN l ELSE 0) = l /\ (IF m = "delivered" THEN 1 ELSE 0) = 1
      BY <2>4
    <3> QED
      BY <3>1, <3>3, <3>4, Zenon
  <2> QED
    BY <2>3, <2>4
<1>6. PICK e : e = Extremes(r, d)
  OBVIOUS
<1>7. /\ e \in Docs /\ e.totalLatency = d.totalLatency /\ e.deliveryCount = d.deliveryCount
      /\ e.min = IF l # 0 /\ c.found /\ (c.min = 0 \/ l < c.min) THEN l ELSE d.min
      /\ e.max = IF l # 0 /\ c.found /\ l > c.max THEN l ELSE d.max
  <2>1. CASE l = 0 \/ ~c.found
    <3>1. e = d
      BY <1>1, <1>2, <1>6, <2>1 DEF Extremes
    <3> QED
      BY <1>5, <2>1, <3>1
  <2>2. CASE ~(l = 0 \/ ~c.found)
    <3> DEFINE lo == IF c.min = 0 \/ l < c.min THEN l ELSE d.min
               hi == IF l > c.max THEN l ELSE d.max
    <3>1. e = [d EXCEPT !.min = lo, !.max = hi]
      BY <1>1, <1>2, <1>6, <2>2 DEF Extremes
    <3>2. lo \in Latencies \cup {0} /\ hi \in Latencies \cup {0}
      BY <1>3, <1>5 DEF Docs
    <3> HIDE DEF lo, hi
    <3>3. /\ e \in Docs /\ e.totalLatency = d.totalLatency /\ e.min = lo /\ e.max = hi
          /\ e.deliveryCount = d.deliveryCount
      BY <1>5, <3>1, <3>2 DEF Docs
    <3> QED
      BY <2>2, <3>3 DEF lo, hi
  <2> QED
    BY <2>1, <2>2
<1>8. w = [e EXCEPT !.found = TRUE]
  BY <1>4, <1>6
<1>9. /\ w \in Docs /\ w.found /\ w.totalLatency = e.totalLatency /\ w.min = e.min /\ w.max = e.max
      /\ w.deliveryCount = e.deliveryCount
  BY <1>7, <1>8 DEF Docs
<1> QED
  BY <1>5, <1>7, <1>9, Zenon DEF Written

LEMMA ReadPreserves ==
  ASSUME BucketsInv, NEW r \in Recorders, NEW m \in {"delivered", "failed"}, NEW l \in Latencies,
         NEW t \in EventTypes, ReadBucket(r, m, l, t)
  PROVE  BucketsInv'
<1> DEFINE x == [metric |-> m, latency |-> l, type |-> t, hour |-> hour, copy |-> bucket[hour],
                 alone |-> Crowd(r) = {}]
<1>1. /\ ~Recording(r) /\ UNCHANGED <<hour, bucket, typeCount, latencySum, latencyCount, ended, solid>>
      /\ recorder' = [q \in Recorders |->
           IF q = r THEN x ELSE IF Recording(q) THEN [recorder[q] EXCEPT !.alone = FALSE] ELSE NotRecording]
      /\ records' \in 0..MaxRecords
  BY BucketsAssumption DEF ReadBucket, BucketsInv, BucketsTypeOK
<1>2. hour \in BucketHours /\ bucket[hour] \in Docs
  BY DEF BucketsInv, BucketsTypeOK
<1>3. /\ x \in Records /\ x.copy = bucket[hour] /\ x.hour = hour /\ (x.alone <=> Crowd(r) = {})
  BY <1>2 DEF Records
<1> HIDE DEF x
<1>4. ASSUME NEW q \in Recorders \ {r}, Recording(q)
      PROVE  /\ recorder'[q] \in Records /\ recorder'[q].alone = FALSE
             /\ recorder'[q].copy = recorder[q].copy /\ recorder'[q].hour = recorder[q].hour
  <2>1. PICK y \in Records : y = recorder[q]
    BY <1>4, RecordIs DEF BucketsInv
  <2>2. recorder'[q] = [y EXCEPT !.alone = FALSE]
    BY <1>1, <1>4, <2>1
  <2> QED
    BY <2>1, <2>2 DEF Records
<1>5. BucketsTypeOK'
  <2>1. recorder' \in [Recorders -> {NotRecording} \cup Records]
    BY <1>1, <1>3, <1>4
  <2> QED
    BY <1>1, <2>1 DEF BucketsInv, BucketsTypeOK, Records
<1>6. SolidIsShown'
  <2>1. \A b, h : Shows(b, h)' <=> Shows(b, h)
    BY <1>1 DEF Shows
  <2>2. \A q \in Recorders : Recording(q)' <=> Recording(q) \/ q = r
    BY <1>1, <1>3, <1>4, RecordIs DEF Recording, BucketsInv
  <2> SUFFICES ASSUME NEW q \in Recorders, Recording(q)'
               PROVE  /\ Shows(recorder'[q].copy, recorder'[q].hour)
                      /\ recorder'[q].alone =>
                           recorder'[q].copy = bucket[recorder'[q].hour] /\ Crowd(q)' = {}
    BY <1>1, <2>1 DEF SolidIsShown, BucketsInv, Shows
  <2>3. CASE q = r
    <3>1. recorder'[q] = x
      BY <1>1, <2>3
    <3>2. Crowd(r) = {} => Crowd(r)' = {}
      BY <2>2 DEF Crowd
    <3> QED
      BY <1>2, <1>3, <2>3, <3>1, <3>2 DEF BucketsInv, SolidIsShown
  <2>4. CASE q # r
    BY <1>4, <2>2, <2>4 DEF BucketsInv, SolidIsShown
  <2> QED
    BY <2>3, <2>4
<1>7. AverageExact' /\ CountedUnlessNested' /\ CountedIsThere'
  BY <1>1 DEF BucketsInv, AverageExact, Summary, LowestLatency, There, CountedUnlessNested, CountAt, CountedIsThere
<1> QED
  BY <1>5, <1>6, <1>7 DEF BucketsInv

\* A record that ends leaves nothing for the others to be crowded by.
LEMMA EndIs ==
  ASSUME BucketsInv, NEW r \in Recorders, recorder' = [recorder EXCEPT ![r] = NotRecording]
  PROVE  /\ recorder' \in [Recorders -> {NotRecording} \cup Records]
         /\ ~Recording(r)'
         /\ \A q \in Recorders \ {r} : recorder'[q] = recorder[q] /\ (Recording(q)' <=> Recording(q))
         /\ \A q \in Recorders : Crowd(q) = {} => Crowd(q)' = {}
<1>1. recorder \in [Recorders -> {NotRecording} \cup Records]
  BY DEF BucketsInv, BucketsTypeOK, Records
<1>2. /\ recorder' \in [Recorders -> {NotRecording} \cup Records] /\ recorder'[r] = NotRecording
      /\ \A q \in Recorders \ {r} : recorder'[q] = recorder[q]
  BY <1>1
<1>3. ~Recording(r)' /\ \A q \in Recorders \ {r} : Recording(q)' <=> Recording(q)
  BY <1>2 DEF Recording
<1>4. ASSUME NEW q \in Recorders, Crowd(q) = {}
      PROVE  Crowd(q)' = {}
  BY <1>3, <1>4 DEF Crowd
<1> QED
  BY <1>2, <1>3, <1>4

\* The update is refused for a type that is nested with one that is counted.
LEMMA RefusedPreserves ==
  ASSUME BucketsInv, NEW r \in Recorders, WriteBucket(r), Refused(recorder[r].hour, recorder[r].type)
  PROVE  BucketsInv'
<1>1. PICK x \in Records : x = recorder[r]
  BY RecordIs DEF WriteBucket, BucketsInv
<1>2. PICK h \in BucketHours, y \in EventTypes : h = x.hour /\ y = x.type
  BY DEF Records
<1>3. /\ UNCHANGED <<bucket, typeCount, latencySum, latencyCount, hour, records>>
      /\ ended' = [ended EXCEPT ![y] = @ + 1] /\ solid' = solid
      /\ recorder' = [recorder EXCEPT ![r] = NotRecording]
      /\ Refused(h, y)
  BY <1>1, <1>2 DEF WriteBucket, Upsert
<1>4. BucketsTypeOK'
  BY <1>3, EndIs DEF BucketsInv, BucketsTypeOK, Records
<1>5. SolidIsShown'
  BY <1>3, EndIs DEF BucketsInv, SolidIsShown, Shows
<1>6. AverageExact' /\ CountedIsThere'
  BY <1>3 DEF BucketsInv, AverageExact, Summary, LowestLatency, There, CountedIsThere
<1>7. CountedUnlessNested'
  <2> SUFFICES ASSUME NEW t \in EventTypes
               PROVE  \/ SumOf(CountAt(t)) = ended'[t]
                      \/ \E u \in EventTypes, i \in There : Nested(t, u) /\ typeCount[i][u] > 0
    BY <1>3 DEF CountedUnlessNested, CountAt, There
  <2>1. CASE t = y
    <3>1. PICK u \in EventTypes : Nested(y, u) /\ typeCount[h][u] > 0
      BY <1>3 DEF Refused
    <3>2. h \in There
      BY <3>1 DEF BucketsInv, CountedIsThere, There
    <3> QED
      BY <2>1, <3>1, <3>2
  <2>2. CASE t # y
    <3>1. ended'[t] = ended[t]
      BY <1>3, <2>2 DEF BucketsInv, BucketsTypeOK
    <3> QED
      BY <3>1 DEF BucketsInv, CountedUnlessNested
  <2> QED
    BY <2>1, <2>2
<1> QED
  BY <1>4, <1>5, <1>6, <1>7 DEF BucketsInv

\* It is not: the counters grow by this record, the extremes take it in.
LEMMA UpsertPreserves ==
  ASSUME BucketsInv, NEW r \in Recorders, WriteBucket(r), ~Refused(recorder[r].hour, recorder[r].type)
  PROVE  BucketsInv'
<1>0. PICK x \in Records : x = recorder[r] /\ Recording(r)
  BY RecordIs DEF WriteBucket, BucketsInv
<1>1. PICK h \in BucketHours, y \in EventTypes, l \in Latencies, c \in Docs :
        h = x.hour /\ y = x.type /\ l = x.latency /\ c = x.copy
  BY DEF Records
<1>2. PICK b \in Docs : b = bucket[h]
  BY BucketIs DEF BucketsInv
<1>3. PICK w : w = [Extremes(r, Counters(r, b)) EXCEPT !.found = TRUE]
  OBVIOUS
<1>4. PICK d \in Nat, n \in Nat : /\ d = IF x.metric = "delivered" THEN l ELSE 0
                               /\ n = IF x.metric = "delivered" THEN 1 ELSE 0
  BY BucketsAssumption
<1>5. /\ bucket' = [bucket EXCEPT ![h] = w]
      /\ typeCount' = [typeCount EXCEPT ![h][y] = @ + 1]
      /\ latencySum' = IF x.metric = "delivered" THEN latencySum + l ELSE latencySum
      /\ latencyCount' = IF x.metric = "delivered" THEN latencyCount + 1 ELSE latencyCount
      /\ ended' = [ended EXCEPT ![y] = @ + 1] /\ UNCHANGED <<hour, records>>
      /\ recorder' = [recorder EXCEPT ![r] = NotRecording]
      /\ solid' = IF ~c.found \/ l = 0 \/ ~x.alone THEN solid ELSE solid \cup {<<h, l>>}
  BY <1>0, <1>1, <1>2, <1>3 DEF WriteBucket, Upsert, Delivers
<1>6. /\ w \in Docs /\ w.found /\ w.totalLatency = b.totalLatency + d
      /\ w.deliveryCount = b.deliveryCount + n
      /\ w.min = IF l # 0 /\ c.found /\ (c.min = 0 \/ l < c.min) THEN l ELSE b.min
      /\ w.max = IF l # 0 /\ c.found /\ l > c.max THEN l ELSE b.max
  <2>1. PICK m : m = x.metric
    OBVIOUS
  <2>2. BucketsTypeOK /\ Recording(r)
    BY <1>0 DEF BucketsInv
  <2>3. c = recorder[r].copy /\ l = recorder[r].latency /\ m = recorder[r].metric
    BY <1>0, <1>1, <2>1
  <2>4. Written(b, w, c, l, m)
    BY <1>3, <2>2, <2>3, WrittenIs, Zenon
  <2> QED
    BY <1>4, <2>1, <2>4, Zenon DEF Written
<1>7. /\ b.totalLatency \in Nat /\ b.min \in Nat /\ b.max \in Nat /\ c.min \in Nat /\ c.max \in Nat
      /\ l \in Nat /\ w.min \in Nat /\ w.max \in Nat
  BY <1>6, DocIs, BucketsAssumption
<1>8. /\ bucket' \in [BucketHours -> Docs] /\ bucket'[h] = w
      /\ \A i \in BucketHours \ {h} : bucket'[i] = bucket[i]
      /\ bucket \in [BucketHours -> Docs]
  BY <1>5, <1>6 DEF BucketsInv, BucketsTypeOK
<1>9. /\ typeCount' \in [BucketHours -> [EventTypes -> Nat]]
      /\ typeCount'[h][y] = typeCount[h][y] + 1 /\ typeCount[h][y] \in Nat
      /\ \A i \in BucketHours, t \in EventTypes :
           /\ i # h \/ t # y => typeCount'[i][t] = typeCount[i][t]
           /\ typeCount[i][t] \in Nat
  BY <1>5 DEF BucketsInv, BucketsTypeOK
<1>10. /\ latencySum \in Nat /\ latencySum' = latencySum + d
       /\ latencyCount \in Nat /\ latencyCount' = latencyCount + n
  BY <1>4, <1>5 DEF BucketsInv, BucketsTypeOK
<1>11. BucketsTypeOK'
  <2>1. solid' \subseteq BucketHours \X Latencies
    BY <1>5 DEF BucketsInv, BucketsTypeOK
  <2>2. ended' \in [EventTypes -> Nat]
    BY <1>5 DEF BucketsInv, BucketsTypeOK
  <2>3. latencySum' \in Nat /\ latencyCount' \in Nat
    BY <1>10
  <2> QED
    BY <1>5, <1>8, <1>9, <2>1, <2>2, <2>3, EndIs DEF BucketsInv, BucketsTypeOK, Records
<1>12. AverageExact'
  <2>1. LatencyAt' = [LatencyAt EXCEPT ![h] = @ + d]
    <3>1. LatencyAt' = [i \in BucketHours |-> bucket'[i].totalLatency]
      BY DEF LatencyAt
    <3>2. \A i \in BucketHours : bucket'[i].totalLatency = IF i = h THEN LatencyAt[h] + d ELSE LatencyAt[i]
      BY <1>2, <1>6, <1>8 DEF LatencyAt
    <3>3. LatencyAt = [i \in BucketHours |-> LatencyAt[i]]
      BY DEF LatencyAt
    <3> QED
      BY <3>1, <3>2, <3>3
  <2>2. LatencyAt \in Hourly /\ SumOf(LatencyAt) = latencySum
    BY BucketIs DEF BucketsInv, AverageExact
  <2>3. SumOf([LatencyAt EXCEPT ![h] = @ + d]) = SumOf(LatencyAt) + d
    BY <2>2, SumAdds
  <2>4. SumOf(LatencyAt') = SumOf([LatencyAt EXCEPT ![h] = @ + d])
    BY <2>1
  <2>5. SumOf(LatencyAt') = latencySum'
    BY <1>10, <2>2, <2>3, <2>4
  <2>6. (Summary.totalLatency)' = SumOf(LatencyAt')
    BY DEF Summary, LatencyAt
  <2>7. DeliveriesAt' = [DeliveriesAt EXCEPT ![h] = @ + n]
    <3>1. DeliveriesAt' = [i \in BucketHours |-> bucket'[i].deliveryCount]
      BY DEF DeliveriesAt
    <3>2. \A i \in BucketHours : bucket'[i].deliveryCount = IF i = h THEN DeliveriesAt[h] + n ELSE DeliveriesAt[i]
      BY <1>2, <1>6, <1>8 DEF DeliveriesAt
    <3>3. DeliveriesAt = [i \in BucketHours |-> DeliveriesAt[i]]
      BY DEF DeliveriesAt
    <3> QED
      BY <3>1, <3>2, <3>3
  <2>8. DeliveriesAt \in Hourly /\ SumOf(DeliveriesAt) = latencyCount
    BY BucketIs DEF BucketsInv, AverageExact
  <2>9. SumOf([DeliveriesAt EXCEPT ![h] = @ + n]) = SumOf(DeliveriesAt) + n
    BY <2>8, SumAdds
  <2>10. SumOf(DeliveriesAt') = SumOf([DeliveriesAt EXCEPT ![h] = @ + n])
    BY <2>7
  <2>11. SumOf(DeliveriesAt') = latencyCount'
    BY <1>10, <2>8, <2>9, <2>10
  <2>12. (Summary.deliveryCount)' = SumOf(DeliveriesAt')
    BY DEF Summary, DeliveriesAt
  <2> QED
    BY <2>5, <2>6, <2>11, <2>12 DEF AverageExact
<1>13. CountedIsThere'
  BY <1>6, <1>8, <1>9 DEF BucketsInv, CountedIsThere
<1>14. CountedUnlessNested'
  <2> SUFFICES ASSUME NEW t \in EventTypes
               PROVE  \/ SumOf(CountAt(t)') = ended'[t]
                      \/ \E u \in EventTypes, i \in There' : Nested(t, u) /\ typeCount'[i][u] > 0
    BY DEF CountedUnlessNested, CountAt
  <2>1. There \subseteq There'
    BY <1>6, <1>8 DEF There
  <2>2. ASSUME NEW u \in EventTypes, NEW i \in There, Nested(t, u), typeCount[i][u] > 0
        PROVE  typeCount'[i][u] > 0
    BY <1>9, <2>2 DEF There
  <2>3. CASE SumOf(CountAt(t)) = ended[t]
    <3>1. CountAt(t) \in Hourly
      BY BucketIs DEF BucketsInv
    <3>2. CASE t = y
      <4>1. CountAt(t)' = [CountAt(t) EXCEPT ![h] = @ + 1]
        <5>1. \A i \in BucketHours : typeCount'[i][t] = IF i = h THEN CountAt(t)[h] + 1 ELSE CountAt(t)[i]
          BY <1>9, <3>2 DEF CountAt
        <5>2. /\ CountAt(t)' = [i \in BucketHours |-> typeCount'[i][t]]
              /\ CountAt(t) = [i \in BucketHours |-> CountAt(t)[i]]
          BY DEF CountAt
        <5> QED
          BY <5>1, <5>2
      <4>2. SumOf([CountAt(t) EXCEPT ![h] = @ + 1]) = SumOf(CountAt(t)) + 1
        BY <3>1, SumAdds
      <4>3. ended'[t] = ended[t] + 1
        BY <1>5, <3>2 DEF BucketsInv, BucketsTypeOK
      <4> QED
        BY <2>3, <4>1, <4>2, <4>3
    <3>3. CASE t # y
      <4>1. CountAt(t)' = CountAt(t)
        BY <1>9, <3>3 DEF CountAt
      <4>2. ended'[t] = ended[t]
        BY <1>5, <3>3 DEF BucketsInv, BucketsTypeOK
      <4> QED
        BY <2>3, <4>1, <4>2
    <3> QED
      BY <3>2, <3>3
  <2> QED
    BY <2>1, <2>2, <2>3 DEF BucketsInv, CountedUnlessNested
<1>15. SolidIsShown'
  <2>1. Shows(b, h) /\ Shows(c, h) /\ (x.alone => c = b /\ Crowd(r) = {})
    BY <1>0, <1>1, <1>2 DEF BucketsInv, SolidIsShown
  <2>2. ASSUME NEW k \in Latencies, <<h, k>> \in solid'
        PROVE  w.found /\ w.min # 0 /\ w.min <= k /\ k <= w.max
    <3>1. k \in Nat
      BY BucketsAssumption
    <3>2. CASE <<h, k>> \in solid
      <4>1. /\ b.min # 0 /\ b.min <= k /\ k <= b.max
            /\ c.found /\ c.min # 0 /\ c.min <= k /\ k <= c.max
        BY <2>1, <3>2 DEF Shows
      <4> QED
        BY <1>6, <1>7, <3>1, <4>1
    <3>3. CASE <<h, k>> \notin solid
      <4>1. k = l /\ l # 0 /\ c.found /\ c = b
        BY <1>5, <2>1, <2>2, <3>3
      <4> QED
        BY <1>6, <1>7, <4>1
    <3> QED
      BY <3>2, <3>3
  <2>3. \A i \in BucketHours \ {h}, k \in Latencies : <<i, k>> \in solid' <=> <<i, k>> \in solid
    BY <1>5
  <2>4. \A i \in BucketHours : Shows(bucket[i], i)' 
    <3> SUFFICES ASSUME NEW i \in BucketHours, NEW k \in Latencies, <<i, k>> \in solid'
                 PROVE  bucket'[i].found /\ bucket'[i].min # 0 /\ bucket'[i].min <= k /\ k <= bucket'[i].max
      BY DEF Shows
    <3>1. CASE i = h
      BY <1>8, <2>2, <3>1
    <3>2. CASE i # h
      BY <1>8, <2>3, <3>2 DEF BucketsInv, SolidIsShown, Shows
    <3> QED
      BY <3>1, <3>2
  <2>5. ASSUME NEW q \in Recorders \ {r}, Recording(q)
        PROVE  /\ Shows(recorder[q].copy, recorder[q].hour)'
               /\ ~recorder[q].alone
    <3>1. ~(x.alone) /\ ~recorder[q].alone
      <4>1. q \in Crowd(r) /\ r \in Crowd(q)
        BY <1>0, <2>5 DEF Crowd
      <4> QED
        BY <2>1, <2>5, <4>1 DEF BucketsInv, SolidIsShown
    <3>2. solid' = solid
      BY <1>5, <3>1
    <3>3. recorder'[q] = recorder[q]
      BY <1>5, EndIs
    <3> QED
      BY <2>5, <3>1, <3>2, <3>3 DEF BucketsInv, SolidIsShown, Shows
  <2>6. ~Recording(r)' /\ \A q \in Recorders \ {r} : recorder'[q] = recorder[q] /\ (Recording(q)' <=> Recording(q))
    BY <1>5, EndIs
  <2> QED
    BY <2>4, <2>5, <2>6 DEF SolidIsShown
<1> QED
  BY <1>11, <1>12, <1>13, <1>14, <1>15 DEF BucketsInv

LEMMA BucketsBegin ==
  ASSUME BucketsInit
  PROVE  BucketsInv
<1>1. /\ NoBucket \in Docs /\ ~NoBucket.found
      /\ NoBucket.totalLatency = 0 /\ NoBucket.deliveryCount = 0
  BY DEF NoBucket, Docs
<1>2. 1 \in BucketHours /\ 0 \in 0..MaxRecords
  BY BucketsAssumption DEF BucketHours
<1>3. BucketsTypeOK
  BY <1>1, <1>2 DEF BucketsInit, BucketsTypeOK
<1>4. AverageExact
  <2>1. /\ LatencyAt \in Hourly /\ Summary.totalLatency = SumOf(LatencyAt)
        /\ DeliveriesAt \in Hourly /\ Summary.deliveryCount = SumOf(DeliveriesAt)
    BY <1>3, BucketIs
  <2>2. \A h \in BucketHours : LatencyAt[h] = 0 /\ DeliveriesAt[h] = 0
    BY <1>1 DEF BucketsInit, LatencyAt, DeliveriesAt
  <2> QED
    BY <2>1, <2>2, SumOfNothing DEF BucketsInit, AverageExact
<1>5. CountedUnlessNested
  <2> SUFFICES ASSUME NEW t \in EventTypes
               PROVE  SumOf(CountAt(t)) = ended[t]
    BY DEF CountedUnlessNested
  <2>1. CountAt(t) \in Hourly
    BY <1>3, BucketIs
  <2>2. \A h \in BucketHours : CountAt(t)[h] = 0
    BY DEF BucketsInit, CountAt
  <2> QED
    BY <2>1, <2>2, SumOfNothing DEF BucketsInit
<1>6. CountedIsThere /\ SolidIsShown
  BY DEF BucketsInit, CountedIsThere, SolidIsShown, Shows, Recording
<1> QED
  BY <1>3, <1>4, <1>5, <1>6 DEF BucketsInv

\* What the reports show follows from what each hour has.
LEMMA BucketsShow ==
  ASSUME BucketsInv
  PROVE  BucketsSafe
<1>0. /\ bucket \in [BucketHours -> Docs] /\ Latencies \subseteq Nat /\ There \subseteq BucketHours
      /\ \A h \in BucketHours : bucket[h].min \in Nat /\ bucket[h].max \in Nat
      /\ Summary.min = LowestLatency /\ Summary.max = Max({bucket[h].max : h \in There} \cup {0})
  BY BucketIs DEF BucketsInv, There
<1>1. ExtremesBracket
  <2> DEFINE lows == {bucket[h].min : h \in There}
             highs == {bucket[h].max : h \in There} \cup {0}
  <2>1. There # {} => LowestLatency \in lows /\ \A x \in lows : LowestLatency <= x
    <3> SUFFICES ASSUME There # {}
                 PROVE  LowestLatency \in lows /\ \A x \in lows : LowestLatency <= x
      OBVIOUS
    <3>1. lows \subseteq Nat /\ lows # {}
      BY <1>0
    <3>2. LowestLatency = Min(lows)
      BY DEF LowestLatency
    <3> HIDE DEF lows
    <3> QED
      BY <3>1, <3>2, Smallest
  <2>2. \A x \in highs : x <= Max(highs)
    <3>1. [h \in BucketHours |-> bucket[h].max] \in Hourly
      BY <1>0 DEF Hourly
    <3>2. PICK b \in Nat : \A h \in BucketHours : [i \in BucketHours |-> bucket[i].max][h] <= b
      BY <3>1, HoursAreBounded
    <3>3. highs \subseteq Nat /\ highs # {} /\ \A x \in highs : x <= b
      BY <1>0, <3>2
    <3> HIDE DEF highs
    <3> QED
      BY <3>3, Greatest
  <2>3. ASSUME NEW h \in BucketHours, NEW l \in Latencies, <<h, l>> \in solid
        PROVE  Summary.min <= l /\ l <= Summary.max
    <3>1. bucket[h].found /\ bucket[h].min <= l /\ l <= bucket[h].max /\ l \in Nat
      BY <1>0, <2>3 DEF BucketsInv, SolidIsShown, Shows
    <3>2. h \in There
      BY <3>1 DEF There
    <3>3. LowestLatency <= bucket[h].min /\ LowestLatency \in Nat
      BY <1>0, <2>1, <3>2
    <3>4. bucket[h].max <= Max(highs) /\ Max(highs) \in Nat
      <4>1. bucket[h].max \in highs /\ highs \subseteq Nat
        BY <1>0, <3>2
      <4>2. Max(highs) \in Nat
        <5>1. [i \in BucketHours |-> bucket[i].max] \in Hourly
          BY <1>0 DEF Hourly
        <5>2. PICK b \in Nat : \A j \in BucketHours : [i \in BucketHours |-> bucket[i].max][j] <= b
          BY <5>1, HoursAreBounded
        <5>3. highs # {} /\ \A x \in highs : x <= b
          BY <1>0, <5>2
        <5> HIDE DEF highs
        <5>4. Max(highs) \in highs
          BY <4>1, <5>3, Greatest
        <5> QED
          BY <4>1, <5>4
      <4> HIDE DEF highs
      <4> QED
        BY <2>2, <4>1, <4>2
    <3> HIDE DEF highs
    <3>5. Summary.max = Max(highs)
      BY <1>0 DEF highs
    <3>6. bucket[h].min \in Nat /\ bucket[h].max \in Nat
      BY <1>0
    <3> QED
      BY <1>0, <3>1, <3>3, <3>4, <3>5, <3>6
  <2>4. ASSUME Summary.min = 0, There # {}
        PROVE  \E h \in There : \A l \in Latencies : <<h, l>> \notin solid
    <3>1. PICK h \in There : bucket[h].min = 0
      BY <1>0, <2>1, <2>4
    <3> QED
      BY <1>0, <3>1 DEF BucketsInv, SolidIsShown, Shows
  <2> QED
    BY <2>3, <2>4 DEF ExtremesBracket
<1>2. BreakdownExact
  <2> SUFFICES ASSUME NEW k \in DOMAIN Breakdown
               PROVE  Breakdown[k] = ended[k]
    BY DEF BreakdownExact
  <2>1. /\ ~Garbled(k) /\ Breakdown[k] = SumOf(CountAt(k))
        /\ \E h \in There : k \in Keys(h)
    BY DEF Breakdown
  <2>2. PICK h \in There, t \in EventTypes : k = <<Head(t)>> /\ typeCount[h][t] > 0
    BY <2>1 DEF Keys
  <2>3. k \in EventTypes
    <3>1. ~Nested(k, t)
      BY <2>1, <2>2 DEF Garbled
    <3>2. IsPrefix(k, t)
      <4>1. t \in Seq(STRING) /\ t # <<>>
        BY BucketsAssumption
      <4>2. Len(t) \in Nat /\ Len(t) >= 1 /\ Head(t) = t[1]
        BY <4>1, EmptySeq, HeadTailProperties, LenProperties
      <4> QED
        BY <2>2, <4>1, <4>2 DEF IsPrefix
    <3>3. k = t
      BY <3>1, <3>2 DEF Nested
    <3> QED
      BY <3>3
  <2>4. ~\E u \in EventTypes, i \in There : Nested(k, u) /\ typeCount[i][u] > 0
    BY <2>1 DEF Garbled
  <2>5. SumOf(CountAt(k)) = ended[k]
    BY <2>3, <2>4 DEF BucketsInv, CountedUnlessNested
  <2> QED
    BY <2>1, <2>5
<1> QED
  BY <1>1, <1>2 DEF BucketsInv, BucketsSafe

\* For any number of records, hours and types: the average of the report is exact, its
\* extremes bracket every record that was alone, and every record is counted under its
\* type unless another type is a part of its name or it of the other's.
THEOREM ReportsAreSafe == BucketsSpec => []BucketsSafe
<1>1. BucketsInv /\ [BucketsNext]_bucketVars => BucketsInv'
  <2> SUFFICES ASSUME BucketsInv, [BucketsNext]_bucketVars
               PROVE  BucketsInv'
    OBVIOUS
  <2>1. ASSUME NEW r \in Recorders, NEW m \in {"delivered", "failed"}, NEW l \in Latencies,
               NEW t \in EventTypes, ReadBucket(r, m, l, t)
        PROVE  BucketsInv'
    BY <2>1, ReadPreserves
  <2>2. ASSUME NEW r \in Recorders, WriteBucket(r)
        PROVE  BucketsInv'
    BY <2>2, RefusedPreserves, UpsertPreserves
  <2>3. CASE NextHour \/ UNCHANGED bucketVars
    <3>1. UNCHANGED <<bucket, typeCount, recorder, records, latencySum, latencyCount, ended, solid>>
      BY <2>3 DEF NextHour, bucketVars
    <3>2. hour' \in BucketHours
      BY <2>3, BucketsAssumption DEF NextHour, bucketVars, BucketsInv, BucketsTypeOK, BucketHours
    <3> QED
      BY <3>1, <3>2 DEF BucketsInv, BucketsTypeOK, AverageExact, Summary, LowestLatency, There,
         CountedUnlessNested, CountAt, CountedIsThere, SolidIsShown, Shows, Recording, Crowd
  <2> QED
    BY <2>1, <2>2, <2>3 DEF BucketsNext
<1> QED
  BY <1>1, BucketsBegin, BucketsShow, PTL DEF BucketsSpec

-----------------------------------------------------------------------------
(* Listing *)

ListSpec == ListInit /\ [][ListNext]_listVars

\* The order of findAll and of the cursor, and the place of an event in a list.
Ahead(e, f) == Before(ById, e, f)
Place(S, e) == Rank(S, ById, e)

\* Times and ids order the events, strictly and totally.
LEMMA AheadIsOrder ==
  ASSUME ListTypeOK, NEW e \in Items, NEW f \in Items, NEW g \in Items
  PROVE  /\ Ahead(e, f) <=> stamp[e] > stamp[f] \/ (stamp[e] = stamp[f] /\ e > f)
         /\ ~Ahead(e, e) /\ (e = f \/ Ahead(e, f) \/ Ahead(f, e))
         /\ Ahead(e, f) /\ Ahead(f, g) => Ahead(e, g)
<1>1. /\ e \in Nat /\ f \in Nat /\ g \in Nat
      /\ stamp[e] \in Nat /\ stamp[f] \in Nat /\ stamp[g] \in Nat
  BY ListingAssumption DEF ListTypeOK
<1>2. \A x \in Items, y \in Items :
        Ahead(x, y) <=> stamp[x] > stamp[y] \/ (stamp[x] = stamp[y] /\ x > y)
  BY DEF Ahead, Before, ById
<1> QED
  BY <1>1, <1>2

LEMMA PlaceIs ==
  ASSUME NEW S \in SUBSET Items, NEW e \in Items
  PROVE  /\ IsFiniteSet(S) /\ Cardinality(S) \in Nat
         /\ IsFiniteSet({f \in S : Ahead(f, e)})
         /\ Place(S, e) = Cardinality({f \in S : Ahead(f, e)}) /\ Place(S, e) \in Nat
<1>1. IsFiniteSet(S)
  BY ListingAssumption, FS_Subset
<1>2. {f \in S : Ahead(f, e)} \in SUBSET S
  OBVIOUS
<1>3. IsFiniteSet({f \in S : Ahead(f, e)})
  BY <1>1, <1>2, FS_Subset
<1> QED
  BY <1>1, <1>3, FS_CardinalityType DEF Place, Rank, Ahead

\* Of two events of a list, the one that is ahead has the lower place.
LEMMA PlaceOrders ==
  ASSUME ListTypeOK, NEW S \in SUBSET Items, NEW e \in S, NEW f \in S
  PROVE  Ahead(e, f) <=> Place(S, e) < Place(S, f)
<1>1. ASSUME NEW a \in S, NEW b \in S, Ahead(a, b)
      PROVE  Place(S, a) < Place(S, b)
  <2> DEFINE A == {x \in S : Ahead(x, a)}
             B == {x \in S : Ahead(x, b)}
  <2>1. A \cup {a} \in SUBSET B /\ a \notin A
    BY <1>1, AheadIsOrder
  <2>2. IsFiniteSet(A) /\ IsFiniteSet(B) /\ Place(S, a) = Cardinality(A) /\ Place(S, b) = Cardinality(B)
        /\ Place(S, a) \in Nat /\ Place(S, b) \in Nat
    BY PlaceIs
  <2> HIDE DEF A, B
  <2>3. Cardinality(A \cup {a}) = Cardinality(A) + 1
    BY <2>1, <2>2, FS_AddElement
  <2>4. Cardinality(A \cup {a}) <= Cardinality(B)
    BY <2>1, <2>2, FS_Subset
  <2> QED
    BY <2>2, <2>3, <2>4
<1>2. Place(S, e) \in Nat /\ Place(S, f) \in Nat
  BY PlaceIs
<1>3. e = f \/ Ahead(e, f) \/ Ahead(f, e)
  BY AheadIsOrder
<1>4. ~Ahead(e, e)
  BY AheadIsOrder
<1> QED
  BY <1>1, <1>2, <1>3, <1>4

LEMMA PlaceIsLow ==
  ASSUME ListTypeOK, NEW S \in SUBSET Items, NEW e \in S
  PROVE  Place(S, e) < Cardinality(S)
<1> DEFINE A == {x \in S : Ahead(x, e)}
<1>1. A \cup {e} \in SUBSET S /\ e \notin A
  BY AheadIsOrder
<1>2. /\ IsFiniteSet(A) /\ IsFiniteSet(S) /\ Place(S, e) = Cardinality(A)
      /\ Place(S, e) \in Nat /\ Cardinality(S) \in Nat
  BY PlaceIs
<1> HIDE DEF A
<1>3. Cardinality(A \cup {e}) = Cardinality(A) + 1
  BY <1>1, <1>2, FS_AddElement
<1>4. Cardinality(A \cup {e}) <= Cardinality(S)
  BY <1>1, <1>2, FS_Subset
<1> QED
  BY <1>2, <1>3, <1>4

\* Every place below the length of a list is taken, by one event.
LEMMA PlacesAreTaken ==
  ASSUME ListTypeOK, NEW S \in SUBSET Items, NEW k \in 0..Cardinality(S)
  PROVE  Cardinality({e \in S : Place(S, e) < k}) = k
<1> DEFINE First(n) == {e \in S : Place(S, e) < n}
           Wrong == {n \in 0..Cardinality(S) : Cardinality(First(n)) # n}
<1>1. IsFiniteSet(S) /\ Cardinality(S) \in Nat
  BY PlaceIs, ListingAssumption, FS_Subset, FS_CardinalityType
<1>2. \A e \in S : Place(S, e) \in Nat
  BY PlaceIs
<1>3. SUFFICES ASSUME Wrong # {}
               PROVE  FALSE
  OBVIOUS
<1>4. PICK n \in Wrong : \A m \in Wrong : n <= m
  <2>1. Wrong \subseteq Nat
    BY <1>1
  <2> HIDE DEF Wrong
  <2> QED
    BY <1>3, <2>1, Least
<1>5. First(0) = {}
  BY <1>2
<1>6. n # 0
  BY <1>4, <1>5, FS_EmptySet
<1>7. n \in 0..Cardinality(S) /\ n - 1 \in 0..Cardinality(S) /\ n - 1 < Cardinality(S)
  BY <1>1, <1>4, <1>6
<1>8. Cardinality(First(n - 1)) = n - 1
  BY <1>1, <1>4, <1>7
<1>9. First(n - 1) \in SUBSET S
  OBVIOUS
<1>10. PICK x \in S : x \notin First(n - 1) /\ \A y \in S \ First(n - 1) : Place(S, x) <= Place(S, y)
  <2> DEFINE T == {Place(S, y) : y \in S \ First(n - 1)}
  <2>1. S \ First(n - 1) # {}
    <3>1. First(n - 1) # S
      BY <1>7, <1>8
    <3> HIDE DEF First
    <3> QED
      BY <1>9, <3>1
  <2>2. T \subseteq Nat /\ T # {}
    BY <1>2, <2>1
  <2>3. PICK t \in T : \A u \in T : t <= u
    BY <2>2, Least
  <2> QED
    BY <2>3
<1>11. \A y \in S : Ahead(y, x) <=> y \in First(n - 1)
  <2>1. ASSUME NEW y \in S, Ahead(y, x)
        PROVE  y \in First(n - 1)
    <3>1. Place(S, y) < Place(S, x)
      BY <2>1, PlaceOrders
    <3> QED
      BY <1>2, <1>10, <3>1
  <2>2. ASSUME NEW y \in S, y \in First(n - 1)
        PROVE  Ahead(y, x)
    <3>1. Place(S, y) < n - 1 /\ ~(Place(S, x) < n - 1)
      BY <1>10, <2>2
    <3>2. Place(S, y) < Place(S, x)
      BY <1>2, <1>7, <3>1
    <3> QED
      BY <3>2, PlaceOrders
  <2> QED
    BY <2>1, <2>2
<1>12. {y \in S : Ahead(y, x)} = First(n - 1)
  BY <1>11
<1>13. Place(S, x) = n - 1
  BY <1>8, <1>12, PlaceIs
<1>14. First(n) = First(n - 1) \cup {x}
  <2>1. ASSUME NEW y \in First(n), y # x
        PROVE  y \in First(n - 1)
    <3>1. Ahead(y, x) \/ Ahead(x, y)
      BY <2>1, AheadIsOrder
    <3>2. ~Ahead(x, y)
      BY <1>2, <1>7, <1>13, PlaceOrders
    <3> QED
      BY <1>11, <3>1, <3>2
  <2>2. First(n - 1) \subseteq First(n) /\ x \in First(n)
    BY <1>2, <1>7, <1>13
  <2> QED
    BY <2>1, <2>2
<1>15. Cardinality(First(n)) = (n - 1) + 1
  <2> HIDE DEF First
  <2>1. IsFiniteSet(First(n - 1))
    BY <1>1, <1>9, FS_Subset
  <2>2. Cardinality(First(n - 1) \cup {x}) = Cardinality(First(n - 1)) + 1
    BY <1>10, <2>1, FS_AddElement
  <2> QED
    BY <1>8, <1>14, <2>2
<1> QED
  BY <1>4, <1>7, <1>15

\* A client that reads by cursor has seen just the events that stayed and are not
\* beyond its cursor.
CursorAt ==
  client.reads = "cursor" =>
    \A e \in stayed : shown[e] = IF ~client.done /\ e \in Beyond(client.cursor) THEN 0 ELSE 1

\* By offset, an event it has seen is before the next page, but for those that came;
\* one it has not seen is not, unless some went.
OffsetAt ==
  client.reads # "cursor" /\ ~(client.reads = "dlq" /\ tied) =>
    \A e \in stayed :
      /\ shown[e] <= 1 + inserted
      /\ shown[e] >= 1 => Place(Listed, e) + shown[e] <= client.page * PageSize + inserted
      /\ removed = 0 /\ shown[e] = 0 =>
           ~client.done /\ client.page * PageSize <= Place(Listed, e)

ListInv == ListTypeOK /\ CursorAt /\ OffsetAt

LEMMA ClientIs ==
  ASSUME ListTypeOK
  PROVE  /\ client = [reads |-> client.reads, page |-> client.page, done |-> client.done,
                      cursor |-> client.cursor]
         /\ client.reads \in Lists /\ client.page \in Nat /\ client.done \in BOOLEAN
         /\ client.cursor \in (1..MaxStamp) \X Items \cup {NoCursor}
         /\ client.cursor[1] \in Nat /\ client.cursor[2] \in Nat
<1>1. /\ client = [reads |-> client.reads, page |-> client.page, done |-> client.done,
                  cursor |-> client.cursor]
      /\ client.reads \in Lists /\ client.page \in Nat /\ client.done \in BOOLEAN
      /\ client.cursor \in (1..MaxStamp) \X Items \cup {NoCursor}
  BY DEF ListTypeOK
<1>2. NoCursor[1] \in Nat /\ NoCursor[2] \in Nat
  BY ListingAssumption DEF NoCursor
<1>3. \A c \in (1..MaxStamp) \X Items : c[1] \in Nat /\ c[2] \in Nat
  <2> TAKE c \in (1..MaxStamp) \X Items
  <2>1. PICK a \in 1..MaxStamp, b \in Items : c = <<a, b>>
    OBVIOUS
  <2> QED
    BY <2>1, ListingAssumption
<1> QED
  BY <1>1, <1>2, <1>3

LEMMA ListBegins == ListInit => ListInv
<1> SUFFICES ASSUME ListInit
             PROVE  ListInv
  OBVIOUS
<1>1. PICK k \in Lists : client = [reads |-> k, page |-> 0, done |-> FALSE, cursor |-> NoCursor]
  BY DEF ListInit
<1>2. /\ client.reads = k /\ client.page = 0 /\ client.done = FALSE /\ client.cursor = NoCursor
      /\ stayed = Listed /\ \A e \in Items : shown[e] = 0
  BY <1>1 DEF ListInit
<1>3. ListTypeOK
  BY <1>1 DEF ListInit, ListTypeOK
<1>4. CursorAt
  <2>1. Beyond(NoCursor) = Listed
    <3>1. NoCursor[1] = MaxStamp + 1
      BY DEF NoCursor
    <3>2. \A e \in Listed : stamp[e] < MaxStamp + 1
      BY <1>3, ListingAssumption DEF Listed, ListTypeOK
    <3> QED
      BY <3>1, <3>2 DEF Beyond
  <2> QED
    BY <1>2, <2>1 DEF CursorAt, Listed
<1>5. OffsetAt
  <2>1. \A e \in stayed : shown[e] = 0 /\ Place(Listed, e) \in Nat
    BY <1>2, PlaceIs DEF Listed
  <2>2. inserted = 0 /\ 0 * PageSize = 0
    BY ListingAssumption DEF ListInit
  <2> QED
    BY <1>2, <2>1, <2>2 DEF OffsetAt
<1> QED
  BY <1>3, <1>4, <1>5 DEF ListInv

\* A page by offset, of a list without equals if it is of the dead letters.
LEMMA OffsetPageKeeps ==
  ASSUME ListInv, OffsetPage
  PROVE  ListInv'
<1> DEFINE p == client.page * PageSize
<1>1. ListTypeOK /\ Listed \in SUBSET Items /\ stayed \subseteq Listed
  BY DEF ListInv, ListTypeOK, Listed
<1>2. PICK tie \in Injection(Items, Items) :
        /\ client.reads = "offset" => tie = ById
        /\ Show(PageAt(client.page, tie))
        /\ client' = [client EXCEPT !.page = @ + 1,
                                    !.done = Cardinality(PageAt(client.page, tie)) < PageSize]
  BY DEF OffsetPage
<1>3. PICK rows : rows = PageAt(client.page, tie)
  OBVIOUS
<1>4. PICK d \in BOOLEAN : d <=> Cardinality(rows) < PageSize
  OBVIOUS
<1>5. PICK n \in Nat : n = client.page + 1
  BY <1>1, ClientIs
<1>6. client' = [reads |-> client.reads, page |-> n, done |-> Cardinality(rows) < PageSize,
                 cursor |-> client.cursor]
  BY <1>1, <1>2, <1>3, <1>5, ClientIs
<1>7. /\ client'.reads = client.reads /\ client'.page = client.page + 1 /\ (client'.done <=> d)
      /\ client.reads # "cursor" /\ ~client.done
      /\ UNCHANGED <<stamp, stayed, inserted, removed, Listed>>
      /\ tied' = (tied \/ \E e, f \in Listed : e # f /\ stamp[e] = stamp[f])
  BY <1>4, <1>5, <1>6 DEF OffsetPage, Listed
<1>8. \A e \in Items : /\ shown'[e] = shown[e] + (IF e \in rows THEN 1 ELSE 0)
                       /\ shown[e] \in Nat
  BY <1>1, <1>2, <1>3 DEF Show, ListTypeOK
<1>9. ListTypeOK'
  <2>1. shown' \in [Items -> Nat]
    BY <1>2, <1>3, <1>8 DEF Show
  <2>2. client' \in [reads : Lists, page : Nat, done : BOOLEAN,
                     cursor : (1..MaxStamp) \X Items \cup {NoCursor}]
    BY <1>1, <1>6, ClientIs
  <2>3. tied' \in BOOLEAN
    BY <1>1, <1>7 DEF ListTypeOK
  <2> QED
    BY <1>1, <1>7, <2>1, <2>2, <2>3 DEF ListTypeOK
<1>10. CursorAt'
  BY <1>7 DEF CursorAt
<1>11. OffsetAt'
  <2> SUFFICES ASSUME ~(client.reads = "dlq" /\ tied')
               PROVE  \A e \in stayed :
                 /\ shown'[e] <= 1 + inserted
                 /\ shown'[e] >= 1 => Place(Listed, e) + shown'[e] <= (client.page + 1) * PageSize + inserted
                 /\ removed = 0 /\ shown'[e] = 0 => ~d /\ (client.page + 1) * PageSize <= Place(Listed, e)
    BY <1>7 DEF OffsetAt, Place, Rank, Before, ById
  <2>1. \A e \in Listed : Rank(Listed, tie, e) = Place(Listed, e)
    <3>1. CASE client.reads = "offset"
      BY <1>2, <3>1 DEF Place
    <3>2. CASE client.reads = "dlq"
      <4>1. \A e, f \in Listed : stamp[e] = stamp[f] => e = f
        BY <1>7, <3>2
      <4> SUFFICES ASSUME NEW e \in Listed
                   PROVE  {f \in Listed : Before(tie, f, e)} = {f \in Listed : Before(ById, f, e)}
        BY DEF Place, Rank
      <4>2. tie[e] \in Nat /\ e \in Nat
        BY <1>1, ListingAssumption DEF Injection
      <4>3. ~(tie[e] > tie[e]) /\ ~(e > e)
        BY <4>2
      <4> QED
        BY <1>1, <4>1, <4>3 DEF Before, ById
    <3> QED
      BY <1>1, <1>7, <3>1, <3>2, ClientIs DEF Lists
  <2>2. /\ p \in Nat /\ (client.page + 1) * PageSize = p + PageSize /\ PageSize \in Nat
        /\ PageSize >= 1 /\ inserted \in Nat
    BY <1>1, ClientIs, ListingAssumption DEF ListTypeOK
  <2> HIDE DEF p
  <2>3. \A e \in Listed : /\ Place(Listed, e) \in Nat
                          /\ e \in rows <=> p <= Place(Listed, e) /\ Place(Listed, e) < p + PageSize
    <3>1. rows = {e \in Listed : Rank(Listed, tie, e) \in p .. p + PageSize - 1}
      BY <1>3, <2>2 DEF PageAt, p
    <3>2. \A e \in Listed : Place(Listed, e) \in Nat
      BY <1>1, PlaceIs
    <3>3. \A e \in Listed : e \in rows <=> Place(Listed, e) \in p .. p + PageSize - 1
      BY <2>1, <3>1
    <3>4. \A k \in Nat : k \in p .. p + PageSize - 1 <=> p <= k /\ k < p + PageSize
      BY <2>2
    <3> QED
      BY <3>2, <3>3, <3>4
  <2>4. ASSUME NEW e \in Listed, p + PageSize <= Place(Listed, e)
        PROVE  ~d
    <3> DEFINE First(k) == {f \in Listed : Place(Listed, f) < k}
    <3>1. IsFiniteSet(Listed) /\ Cardinality(Listed) \in Nat /\ Place(Listed, e) < Cardinality(Listed)
      BY <1>1, PlaceIs, PlaceIsLow
    <3>2. p \in 0..Cardinality(Listed) /\ p + PageSize \in 0..Cardinality(Listed)
      BY <2>2, <2>3, <2>4, <3>1
    <3>3. Cardinality(First(p)) = p /\ Cardinality(First(p + PageSize)) = p + PageSize
      BY <1>1, <3>2, PlacesAreTaken
    <3>4. First(p + PageSize) = First(p) \cup rows /\ First(p) \cap rows = {}
          /\ First(p) \subseteq Listed /\ rows \subseteq Listed
      BY <1>3, <2>2, <2>3 DEF PageAt
    <3> HIDE DEF First
    <3>5. IsFiniteSet(First(p)) /\ IsFiniteSet(rows)
      BY <3>1, <3>4, FS_Subset
    <3>6. Cardinality(First(p) \cup rows) = Cardinality(First(p)) + Cardinality(rows)
      <4>1. Cardinality(First(p) \cap rows) = 0
        BY <3>4, FS_EmptySet
      <4>2. Cardinality(First(p) \cup rows)
              = Cardinality(First(p)) + Cardinality(rows) - Cardinality(First(p) \cap rows)
        BY <3>5, FS_Union
      <4>3. Cardinality(First(p)) \in Nat /\ Cardinality(rows) \in Nat
        BY <3>5, FS_CardinalityType
      <4> QED
        BY <4>1, <4>2, <4>3
    <3>7. Cardinality(rows) \in Nat
      BY <3>5, FS_CardinalityType
    <3>8. p + PageSize = p + Cardinality(rows)
      BY <3>3, <3>4, <3>6
    <3>9. ~(Cardinality(rows) < PageSize)
      BY <2>2, <3>7, <3>8
    <3> QED
      BY <1>4, <3>9
  <2>5. ASSUME NEW e \in stayed
        PROVE  /\ shown[e] \in Nat /\ e \in Listed /\ e \in Items
               /\ shown'[e] = shown[e] + (IF e \in rows THEN 1 ELSE 0)
               /\ shown[e] <= 1 + inserted
               /\ shown[e] >= 1 => Place(Listed, e) + shown[e] <= p + inserted
               /\ removed = 0 /\ shown[e] = 0 => p <= Place(Listed, e)
    BY <1>1, <1>7, <1>8 DEF ListInv, OffsetAt, p
  <2> TAKE e \in stayed
  <2>6. CASE e \in rows
    BY <2>2, <2>3, <2>5, <2>6
  <2>7. CASE e \notin rows
    BY <2>2, <2>3, <2>4, <2>5, <2>7
  <2> QED
    BY <2>6, <2>7
<1> QED
  BY <1>9, <1>10, <1>11 DEF ListInv

\* A page by cursor: the rows ahead of all others that are beyond the cursor.
LEMMA CursorPageKeeps ==
  ASSUME ListInv, CursorPage
  PROVE  ListInv'
<1>1. ListTypeOK /\ Listed \in SUBSET Items /\ stayed \subseteq Listed
  BY DEF ListInv, ListTypeOK, Listed
<1>2. PICK rest : rest = Beyond(client.cursor)
  OBVIOUS
<1>3. PICK rows : rows = {e \in rest : Place(rest, e) < PageSize}
  OBVIOUS
<1>4. PICK last : last = CHOOSE e \in rows : \A f \in rows : ~Ahead(e, f)
  OBVIOUS
<1>5. /\ client.reads = "cursor" /\ ~client.done /\ Show(rows)
      /\ client' = IF Cardinality(rest) > PageSize
                   THEN [client EXCEPT !.cursor = <<stamp[last], last>>]
                   ELSE [client EXCEPT !.done = TRUE]
      /\ UNCHANGED <<stamp, stayed, inserted, removed, tied, Listed>>
  BY <1>2, <1>3, <1>4 DEF CursorPage, Place, Ahead, Listed
<1>6. \A e \in Items : /\ shown'[e] = shown[e] + (IF e \in rows THEN 1 ELSE 0)
                       /\ shown[e] \in Nat
  BY <1>1, <1>5 DEF Show, ListTypeOK
<1>7. rest \subseteq Listed /\ rest \in SUBSET Items
  BY <1>1, <1>2 DEF Beyond
<1>8. \A e \in stayed : e \in Items /\ e \in Listed /\ shown[e] = IF e \in rest THEN 0 ELSE 1
  BY <1>1, <1>2, <1>5 DEF ListInv, CursorAt
<1>9. /\ IsFiniteSet(rest) /\ Cardinality(rest) \in Nat
      /\ \A e \in rest : Place(rest, e) \in Nat /\ Place(rest, e) < Cardinality(rest)
  BY <1>1, <1>7, PlaceIs, PlaceIsLow, ListingAssumption, FS_Subset, FS_CardinalityType
<1>10. shown' \in [Items -> Nat]
  BY <1>5, <1>6 DEF Show
<1>11. CASE ~(Cardinality(rest) > PageSize)
  <2>1. client' = [reads |-> client.reads, page |-> client.page, done |-> TRUE, cursor |-> client.cursor]
    BY <1>1, <1>5, <1>11, ClientIs
  <2>2. client' \in [reads : Lists, page : Nat, done : BOOLEAN,
                     cursor : (1..MaxStamp) \X Items \cup {NoCursor}]
    BY <1>1, <2>1, ClientIs
  <2>3. client'.reads = "cursor" /\ client'.done = TRUE
    BY <1>5, <2>1
  <2>4. rows = rest
    BY <1>3, <1>9, <1>11, ListingAssumption
  <2>5. \A e \in stayed : shown'[e] = 1
    BY <1>6, <1>8, <2>4
  <2>6. ListTypeOK'
    BY <1>1, <1>5, <1>10, <2>2 DEF ListTypeOK
  <2> QED
    BY <1>5, <2>3, <2>5, <2>6 DEF ListInv, CursorAt, OffsetAt
<1>12. CASE Cardinality(rest) > PageSize
  <2>1. /\ last \in rows /\ last \in Items /\ stamp[last] \in 1..MaxStamp
        /\ \A f \in rows : ~Ahead(last, f)
    <3> DEFINE T == {PageSize - Place(rest, e) : e \in rows}
    <3>1. rows # {}
      <4>1. 1 \in 0..Cardinality(rest) /\ PageSize >= 1 /\ PageSize \in Nat
        BY <1>9, <1>12, ListingAssumption
      <4>2. Cardinality({e \in rest : Place(rest, e) < 1}) = 1
        BY <1>1, <1>7, <4>1, PlacesAreTaken
      <4>3. {e \in rest : Place(rest, e) < 1} # {}
        BY <4>2, FS_EmptySet
      <4>4. {e \in rest : Place(rest, e) < 1} \subseteq rows
        BY <1>3, <1>9, <4>1
      <4> QED
        BY <4>3, <4>4
    <3>2. T \subseteq Nat /\ T # {}
      BY <1>3, <1>9, <3>1, ListingAssumption
    <3>3. PICK t \in T : \A u \in T : t <= u
      <4> HIDE DEF T
      <4> QED
        BY <3>2, Least
    <3>4. PICK e \in rows : t = PageSize - Place(rest, e)
      BY <3>3
    <3>5. ASSUME NEW f \in rows
          PROVE  ~Ahead(e, f)
      <4>1. t <= PageSize - Place(rest, f)
        BY <3>3
      <4>2. ~(Place(rest, e) < Place(rest, f))
        BY <1>3, <1>9, <3>4, <4>1, ListingAssumption
      <4> QED
        BY <1>1, <1>3, <1>7, <4>2, PlaceOrders
    <3>6. last \in rows /\ \A f \in rows : ~Ahead(last, f)
      BY <1>4, <3>5
    <3>7. last \in Items /\ stamp[last] # 0
      BY <1>3, <1>7, <3>6 DEF Listed
    <3>8. stamp[last] \in 0..MaxStamp
      BY <1>1, <3>7 DEF ListTypeOK
    <3> QED
      BY <3>6, <3>7, <3>8, ListingAssumption
  <2>2. client' = [reads |-> client.reads, page |-> client.page, done |-> client.done,
                   cursor |-> <<stamp[last], last>>]
    BY <1>1, <1>5, <1>12, ClientIs
  <2>3. client' \in [reads : Lists, page : Nat, done : BOOLEAN,
                     cursor : (1..MaxStamp) \X Items \cup {NoCursor}]
    BY <1>1, <2>1, <2>2, ClientIs
  <2>4. client'.reads = "cursor" /\ ~client'.done /\ client'.cursor = <<stamp[last], last>>
    BY <1>5, <2>2
  <2>5. Beyond(client.cursor)' = {e \in Listed : Ahead(last, e)}
    <3>1. Beyond(<<stamp[last], last>>) = {e \in Listed : Ahead(last, e)}
      BY <1>1, <2>1, AheadIsOrder, ListingAssumption DEF Beyond, ListTypeOK
    <3> QED
      BY <1>5, <2>4, <3>1 DEF Beyond
  <2>6. ASSUME NEW e \in Listed
        PROVE  /\ e \in rows => ~Ahead(last, e)
               /\ e \in rest /\ e \notin rows => Ahead(last, e)
               /\ e \notin rest => ~Ahead(last, e)
    <3>1. ASSUME e \in rest, e \notin rows
          PROVE  Ahead(last, e)
      <4>1. Place(rest, last) < Place(rest, e)
        BY <1>3, <1>9, <2>1, <3>1, ListingAssumption
      <4> QED
        BY <1>1, <1>3, <1>7, <2>1, <3>1, <4>1, PlaceOrders
    <3>2. ASSUME Ahead(last, e)
          PROVE  e \in rest
      <4>1. /\ stamp[last] \in Nat /\ stamp[e] \in Nat /\ last \in Nat /\ e \in Nat
            /\ client.cursor[1] \in Nat /\ client.cursor[2] \in Nat
        BY <1>1, <2>1, ClientIs, ListingAssumption DEF ListTypeOK
      <4>2. \/ stamp[last] < client.cursor[1]
            \/ stamp[last] = client.cursor[1] /\ last < client.cursor[2]
        BY <1>2, <1>3, <2>1 DEF Beyond
      <4>3. stamp[last] > stamp[e] \/ (stamp[last] = stamp[e] /\ last > e)
        BY <1>1, <2>1, <3>2, AheadIsOrder
      <4>4. \/ stamp[e] < client.cursor[1]
            \/ stamp[e] = client.cursor[1] /\ e < client.cursor[2]
        BY <4>1, <4>2, <4>3
      <4> QED
        BY <1>2, <4>4 DEF Beyond
    <3> QED
      BY <2>1, <3>1, <3>2
  <2>7. rows \subseteq rest
    BY <1>3
  <2>8. \A e \in stayed : shown'[e] = IF e \in {f \in Listed : Ahead(last, f)} THEN 0 ELSE 1
    BY <1>6, <1>8, <2>6, <2>7
  <2>9. ListTypeOK'
    BY <1>1, <1>5, <1>10, <2>3 DEF ListTypeOK
  <2>10. CursorAt'
    BY <1>5, <2>4, <2>5, <2>8 DEF CursorAt
  <2> QED
    BY <2>4, <2>9, <2>10 DEF ListInv, OffsetAt
<1> QED
  BY <1>11, <1>12

\* An event that comes moves the others by one place at most, one that goes moves
\* them forward.
LEMMA InsertKeeps ==
  ASSUME ListInv, NEW x \in Items, NEW t \in 1..MaxStamp, Insert(x, t)
  PROVE  ListInv'
<1>1. /\ ListTypeOK /\ Listed \in SUBSET Items /\ stayed \subseteq Listed /\ x \notin Listed
      /\ stayed \subseteq Items /\ x \notin stayed
  BY DEF ListInv, ListTypeOK, Listed, Insert
<1>2. /\ UNCHANGED <<client, shown, stayed, removed, tied>>
      /\ inserted' = inserted + 1 /\ inserted \in Nat
      /\ stamp' \in [Items -> 0..MaxStamp] /\ stamp'[x] = t /\ t # 0
      /\ \A e \in Items : e # x => stamp'[e] = stamp[e]
  BY <1>1, ListingAssumption DEF Insert, ListTypeOK
<1>3. Listed' = Listed \cup {x}
  BY <1>1, <1>2 DEF Listed
<1>4. ListTypeOK'
  <2>1. inserted' \in Nat /\ stayed' \subseteq Listed'
    BY <1>1, <1>2, <1>3
  <2> QED
    BY <1>1, <1>2, <2>1 DEF ListTypeOK
<1>5. \A e \in stayed : e \in Beyond(client.cursor)' <=> e \in Beyond(client.cursor)
  BY <1>1, <1>2, <1>3 DEF Beyond
<1>6. CursorAt'
  BY <1>2, <1>5 DEF ListInv, CursorAt
<1>7. ASSUME NEW e \in stayed
      PROVE  /\ Place(Listed, e)' \in Nat /\ Place(Listed, e) \in Nat
             /\ Place(Listed, e) <= Place(Listed, e)' /\ Place(Listed, e)' <= Place(Listed, e) + 1
  <2> DEFINE A == {f \in Listed : Ahead(f, e)}
             B == {f \in Listed' : Ahead(f, e)'}
  <2>1. Place(Listed, e)' = Cardinality(B)
    BY DEF Place, Rank, Ahead
  <2>2. Place(Listed, e) = Cardinality(A) /\ IsFiniteSet(A) /\ Place(Listed, e) \in Nat
    BY <1>1, PlaceIs
  <2>3. A \in SUBSET B /\ B \in SUBSET (A \cup {x})
    <3>1. \A f \in Listed : Ahead(f, e)' <=> Ahead(f, e)
      BY <1>1, <1>2 DEF Ahead, Before, ById
    <3> QED
      BY <1>1, <1>3, <3>1
  <2> HIDE DEF A, B
  <2>4. /\ IsFiniteSet(A \cup {x}) /\ Cardinality(A \cup {x}) \in Nat
        /\ Cardinality(A \cup {x}) <= Cardinality(A) + 1
    <3>1. IsFiniteSet(A \cup {x}) /\ Cardinality(A) \in Nat /\ Cardinality(A \cup {x}) \in Nat
      BY <2>2, FS_AddElement, FS_CardinalityType
    <3>2. Cardinality(A \cup {x}) = IF x \in A THEN Cardinality(A) ELSE Cardinality(A) + 1
      BY <2>2, FS_AddElement
    <3> QED
      BY <3>1, <3>2
  <2>5. IsFiniteSet(B) /\ Cardinality(B) <= Cardinality(A \cup {x})
    BY <2>3, <2>4, FS_Subset
  <2>6. Cardinality(A) <= Cardinality(B) /\ Cardinality(B) \in Nat
    BY <2>3, <2>5, FS_Subset, FS_CardinalityType
  <2> QED
    BY <2>1, <2>2, <2>4, <2>5, <2>6
<1>8. OffsetAt'
  <2>1. client.page * PageSize \in Nat
    BY <1>1, ClientIs, ListingAssumption
  <2>2. PICK p \in Nat : p = client.page * PageSize
    BY <2>1
  <2>3. \A e \in stayed : shown[e] \in Nat
    BY <1>1 DEF ListTypeOK
  <2> SUFFICES ASSUME client.reads # "cursor", ~(client.reads = "dlq" /\ tied), NEW e \in stayed
               PROVE  /\ shown[e] <= 1 + (inserted + 1)
                      /\ shown[e] >= 1 => Place(Listed, e)' + shown[e] <= p + (inserted + 1)
                      /\ removed = 0 /\ shown[e] = 0 => ~client.done /\ p <= Place(Listed, e)'
    BY <1>2, <2>2 DEF OffsetAt
  <2>4. /\ shown[e] <= 1 + inserted
        /\ shown[e] >= 1 => Place(Listed, e) + shown[e] <= p + inserted
        /\ removed = 0 /\ shown[e] = 0 => ~client.done /\ p <= Place(Listed, e)
    BY <2>2 DEF ListInv, OffsetAt
  <2> QED
    BY <1>2, <1>7, <2>3, <2>4
<1> QED
  BY <1>4, <1>6, <1>8 DEF ListInv

LEMMA RemoveKeeps ==
  ASSUME ListInv, NEW x \in Items, RemoveItem(x)
  PROVE  ListInv'
<1>1. ListTypeOK /\ Listed \in SUBSET Items /\ stayed \subseteq Listed /\ stayed \subseteq Items
  BY DEF ListInv, ListTypeOK, Listed
<1>2. /\ UNCHANGED <<client, shown, inserted, tied>>
      /\ removed' = removed + 1 /\ removed \in Nat /\ stayed' = stayed \ {x}
      /\ stamp' \in [Items -> 0..MaxStamp] /\ stamp'[x] = 0
      /\ \A e \in Items : e # x => stamp'[e] = stamp[e]
  BY <1>1, ListingAssumption DEF RemoveItem, ListTypeOK
<1>3. Listed' = Listed \ {x}
  BY <1>1, <1>2 DEF Listed
<1>4. ListTypeOK'
  <2>1. removed' \in Nat /\ stayed' \subseteq Listed'
    BY <1>1, <1>2, <1>3
  <2> QED
    BY <1>1, <1>2, <2>1 DEF ListTypeOK
<1>5. \A e \in stayed' : e \in Beyond(client.cursor)' <=> e \in Beyond(client.cursor)
  BY <1>1, <1>2, <1>3 DEF Beyond
<1>6. CursorAt'
  BY <1>2, <1>5 DEF ListInv, CursorAt
<1>7. ASSUME NEW e \in stayed'
      PROVE  /\ Place(Listed, e)' \in Nat /\ Place(Listed, e) \in Nat
             /\ Place(Listed, e)' <= Place(Listed, e)
  <2> DEFINE A == {f \in Listed : Ahead(f, e)}
             B == {f \in Listed' : Ahead(f, e)'}
  <2>1. Place(Listed, e)' = Cardinality(B)
    BY DEF Place, Rank, Ahead
  <2>2. Place(Listed, e) = Cardinality(A) /\ IsFiniteSet(A) /\ Place(Listed, e) \in Nat
    BY <1>1, <1>2, PlaceIs
  <2>3. B \in SUBSET A
    <3>1. \A f \in Listed \ {x} : Ahead(f, e)' <=> Ahead(f, e)
      BY <1>1, <1>2 DEF Ahead, Before, ById
    <3> QED
      BY <1>1, <1>3, <3>1
  <2> HIDE DEF A, B
  <2>4. Cardinality(B) <= Cardinality(A) /\ Cardinality(B) \in Nat
    BY <2>2, <2>3, FS_Subset, FS_CardinalityType
  <2> QED
    BY <2>1, <2>2, <2>4
<1>8. OffsetAt'
  <2>1. client.page * PageSize \in Nat
    BY <1>1, ClientIs, ListingAssumption
  <2>2. PICK p \in Nat : p = client.page * PageSize
    BY <2>1
  <2>3. \A e \in stayed : shown[e] \in Nat /\ inserted \in Nat
    BY <1>1 DEF ListTypeOK
  <2> SUFFICES ASSUME client.reads # "cursor", ~(client.reads = "dlq" /\ tied), NEW e \in stayed'
               PROVE  /\ shown[e] <= 1 + inserted
                      /\ shown[e] >= 1 => Place(Listed, e)' + shown[e] <= p + inserted
                      /\ removed' # 0
    BY <1>2, <2>2 DEF OffsetAt
  <2>4. /\ shown[e] <= 1 + inserted
        /\ shown[e] >= 1 => Place(Listed, e) + shown[e] <= p + inserted
    BY <1>2, <2>2 DEF ListInv, OffsetAt
  <2>5. removed' # 0 /\ shown[e] \in Nat
    BY <1>2, <2>3
  <2> QED
    BY <1>2, <1>7, <2>3, <2>4, <2>5
<1> QED
  BY <1>4, <1>6, <1>8 DEF ListInv

\* For any list, page size and number of changes: reading by cursor shows what stayed
\* exactly once, reading by offset errs only by what came and went.
THEOREM ListingIsSafe == ListSpec => []ListSafe
<1>1. ListInv /\ [ListNext]_listVars => ListInv'
  <2> SUFFICES ASSUME ListInv, [ListNext]_listVars
               PROVE  ListInv'
    OBVIOUS
  <2>1. CASE UNCHANGED listVars
    BY <2>1 DEF ListInv, ListTypeOK, CursorAt, OffsetAt, listVars, Beyond, Listed, Place, Rank, Before, ById
  <2> QED
    BY <2>1, OffsetPageKeeps, CursorPageKeeps, InsertKeeps, RemoveKeeps DEF ListNext
<1>2. ListInv => ListSafe
  <2> SUFFICES ASSUME ListInv
               PROVE  ListSafe
    OBVIOUS
  <2>1. ListTypeOK /\ CursorShowsAll
    BY DEF ListInv, CursorAt, CursorShowsAll
  <2>2. \A e \in stayed : shown[e] \in Nat
    BY DEF ListInv, ListTypeOK, Listed
  <2>3. removed \in Nat
    BY DEF ListInv, ListTypeOK
  <2>4. OffsetErrsByChange
    BY <2>3 DEF ListInv, OffsetAt, OffsetErrsByChange
  <2> QED
    BY <2>1, <2>4 DEF ListSafe
<1> QED
  BY <1>1, <1>2, ListBegins, PTL DEF ListSpec
=============================================================================
