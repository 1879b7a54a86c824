----------------------------- MODULE Endpoints -----------------------------
(***************************************************************************)
(* EndpointsService on the endpoints of one project: creation under the    *)
(* plan's limit, updates, and the secret events are signed with, which is  *)
(* an HMAC secret: no request can choose another signature scheme.         *)
(***************************************************************************)
EXTENDS Naturals, FiniteSets

CONSTANTS
  EndpointIds,    \* endpoints that can be created
  Urls,
  Editors,        \* requests served at a time
  EndpointsLimit, \* endpointsLimit of the caller's subscription
  MaxKeys,        \* bound: secrets drawn
  MaxEdits        \* bound: updates

ASSUME EndpointsAssumption ==
  EndpointsLimit \in Nat \ {0} /\ MaxKeys \in Nat /\ MaxEdits \in Nat

VARIABLES
  endpoint, \* per id: its url and its secret
  editor,   \* per request
  keys, edits, \* bounds
  told,     \* history: per id, the secret a caller was last answered
  muddled,  \* history: ids of which two rotations overlapped, or lost their answer
  reused,   \* history: urls that an update set, or two requests found free at once
  overfull  \* history: did two requests count the endpoints before either created one?

endpointVars == <<endpoint, editor, keys, edits, told, muddled, reused, overfull>>

NoEndpoint == [url |-> "none", secret |-> 0]
Unoccupied == [step |-> "none"]
Existing == {p \in EndpointIds : endpoint[p].url # "none"}

EndpointsTypeOK ==
  /\ endpoint \in [EndpointIds -> [url : Urls \cup {"none"}, secret : 0..MaxKeys]]
  /\ editor \in [Editors -> {Unoccupied} \cup
       [step : {"count", "create"}, url : Urls] \cup
       [step : {"rotate", "answer"}, id : EndpointIds, secret : 0..MaxKeys]]
  /\ keys \in 0..MaxKeys /\ edits \in 0..MaxEdits
  /\ told \in [EndpointIds -> 0..MaxKeys] /\ muddled \subseteq EndpointIds
  /\ reused \subseteq Urls /\ overfull \in BOOLEAN

EndpointsInit ==
  /\ endpoint = [p \in EndpointIds |-> NoEndpoint]
  /\ editor = [r \in Editors |-> Unoccupied] /\ keys = 0 /\ edits = 0
  /\ told = [p \in EndpointIds |-> 0] /\ muddled = {} /\ reused = {} /\ overfull = FALSE

InStep(r, step) == editor[r].step = step
Leave(r) == editor' = [editor EXCEPT ![r] = Unoccupied]
Creating(r) == editor[r].step \in {"count", "create"}
DrawKey == keys < MaxKeys /\ keys' = keys + 1

-----------------------------------------------------------------------------
(* create: the url is looked for, the endpoints are counted, one is created. *)

\* Mutant: the url is not looked for.
AnyUrl(r, u) ==
  /\ InStep(r, "none")
  /\ editor' = [editor EXCEPT ![r] = [step |-> "count", url |-> u]]
  /\ UNCHANGED <<endpoint, keys, edits, told, muddled, reused, overfull>>

FindUrl(r, u) ==
  /\ InStep(r, "none") /\ \A p \in Existing : endpoint[p].url # u
  /\ editor' = [editor EXCEPT ![r] = [step |-> "count", url |-> u]]
  /\ reused' = IF \E q \in Editors : Creating(q) /\ editor[q].url = u
               THEN reused \cup {u} ELSE reused
  /\ UNCHANGED <<endpoint, keys, edits, told, muddled, overfull>>

\* Mutant: off by one.
CountOneMore(r) ==
  /\ InStep(r, "count")
  /\ IF Cardinality(Existing) > EndpointsLimit THEN Leave(r)
     ELSE editor' = [editor EXCEPT ![r].step = "create"]
  /\ UNCHANGED <<endpoint, keys, edits, told, muddled, reused, overfull>>

CountEndpoints(r) ==
  /\ InStep(r, "count")
  /\ IF Cardinality(Existing) >= EndpointsLimit
     THEN Leave(r) /\ UNCHANGED overfull
     ELSE /\ editor' = [editor EXCEPT ![r].step = "create"]
          /\ overfull' = (overfull \/ \E q \in Editors : InStep(q, "create"))
  /\ UNCHANGED <<endpoint, keys, edits, told, muddled, reused>>

CreateEndpoint(r, p) ==
  /\ InStep(r, "create") /\ p \notin Existing /\ told[p] = 0
  /\ DrawKey
  /\ endpoint' = [endpoint EXCEPT ![p] = [url |-> editor[r].url, secret |-> keys']]
  /\ told' = [told EXCEPT ![p] = keys']
  /\ Leave(r)
  /\ UNCHANGED <<edits, muddled, reused, overfull>>

-----------------------------------------------------------------------------

\* update writes what it is given; the url is not looked for.
UpdateUrl(p, u) ==
  /\ p \in Existing /\ edits < MaxEdits /\ edits' = edits + 1
  /\ endpoint' = [endpoint EXCEPT ![p].url = u] /\ reused' = reused \cup {u}
  /\ UNCHANGED <<editor, keys, told, muddled, overfull>>

DeleteEndpoint(p) ==
  /\ p \in Existing /\ edits < MaxEdits /\ edits' = edits + 1
  /\ endpoint' = [endpoint EXCEPT ![p] = NoEndpoint]
  /\ UNCHANGED <<editor, keys, told, muddled, reused, overfull>>

\* rotateSecret: the endpoint is found, a new secret is written, the cache entry
\* is dropped, and the secret is answered.
FindToRotate(r, p) ==
  /\ InStep(r, "none") /\ p \in Existing
  /\ editor' = [editor EXCEPT ![r] = [step |-> "rotate", id |-> p, secret |-> 0]]
  /\ UNCHANGED <<endpoint, keys, edits, told, muddled, reused, overfull>>

\* Mutant: the secret is not written.
DrawOnly(r) ==
  /\ InStep(r, "rotate") /\ DrawKey
  /\ editor' = [editor EXCEPT ![r].step = "answer", ![r].secret = keys']
  /\ UNCHANGED <<endpoint, edits, told, muddled, reused, overfull>>

\* An endpoint deleted meanwhile is not found again, and nobody notices.
RotateSecret(r) ==
  /\ InStep(r, "rotate") /\ DrawKey
  /\ LET p == editor[r].id
     IN  /\ endpoint' = IF p \in Existing THEN [endpoint EXCEPT ![p].secret = keys'] ELSE endpoint
         /\ muddled' = IF \E q \in Editors : InStep(q, "answer") /\ editor[q].id = p
                       THEN muddled \cup {p} ELSE muddled
  /\ editor' = [editor EXCEPT ![r].step = "answer", ![r].secret = keys']
  /\ UNCHANGED <<edits, told, reused, overfull>>

AnswerSecret(r) ==
  /\ InStep(r, "answer")
  /\ told' = [told EXCEPT ![editor[r].id] = editor[r].secret]
  /\ Leave(r)
  /\ UNCHANGED <<endpoint, keys, edits, muddled, reused, overfull>>

\* The caller, or the process, is gone before the answer.
LoseAnswer(r) ==
  /\ InStep(r, "answer") /\ muddled' = muddled \cup {editor[r].id}
  /\ Leave(r)
  /\ UNCHANGED <<endpoint, keys, edits, told, reused, overfull>>

EndpointsNext ==
  \/ \E r \in Editors :
       \/ \E u \in Urls : FindUrl(r, u)
       \/ CountEndpoints(r) \/ RotateSecret(r) \/ AnswerSecret(r) \/ LoseAnswer(r)
       \/ \E p \in EndpointIds : CreateEndpoint(r, p) \/ FindToRotate(r, p)
  \/ \E p \in EndpointIds : DeleteEndpoint(p) \/ \E u \in Urls : UpdateUrl(p, u)

-----------------------------------------------------------------------------
(* Properties *)

\* A url belongs to one endpoint of the project, unless an update set it or two
\* requests had found it free at once.
UrlOnce ==
  \A p, q \in Existing : p # q /\ endpoint[p].url = endpoint[q].url => endpoint[p].url \in reused

\* There are no more endpoints than the plan allows, those about to be created
\* included, unless two requests counted before either created its own.
WithinPlan ==
  overfull \/ Cardinality(Existing) + Cardinality({r \in Editors : InStep(r, "create")})
                <= EndpointsLimit

\* Receivers verify events with the secret their owner was told last: it is the
\* one events are signed with, except while a rotation is about to answer, after
\* an answer was lost, and after two rotations whose answers may have crossed.
SecretTold ==
  \A p \in Existing \ muddled :
    \/ endpoint[p].secret = told[p]
    \/ \E r \in Editors : InStep(r, "answer") /\ editor[r].id = p
                          /\ editor[r].secret = endpoint[p].secret

\* What the endpoints of a project promise (EndpointsService).
EndpointsSafe ==
  /\ EndpointsTypeOK /\ UrlOnce /\ WithinPlan /\ SecretTold
=============================================================================
