----------------------------- MODULE Newsletter -----------------------------
(***************************************************************************)
(* NewsletterService for one address: subscribing, and unsubscribing by    *)
(* the link of a welcome mail.  Both read the subscriber first; save()     *)
(* then writes only the fields that differ from the copy.                  *)
(***************************************************************************)
EXTENDS Naturals

CONSTANTS
  Readers,   \* requests served at a time
  MaxMails   \* bound: tokens drawn

ASSUME NewsletterAssumption == MaxMails \in Nat

VARIABLES
  subscriber,  \* status and confirmToken; "none" before the first
  readers,     \* per request: what it does, the copy it has read, its new token
  drawn,       \* tokens drawn
  lateLink     \* history: tokens stored while a request had found an older one

newsVars == <<subscriber, readers, drawn, lateLink>>

NoSubscriber == [status |-> "none", token |-> 0, ended |-> 0]
Away == [does |-> "nothing", copy |-> NoSubscriber, link |-> 0]
Subscribers == [status : {"none", "active", "unsubscribed"}, token : 0..MaxMails,
                ended : 0..MaxMails]

NewsletterTypeOK ==
  /\ subscriber \in Subscribers /\ drawn \in 0..MaxMails /\ lateLink \subseteq 1..MaxMails
  /\ readers \in [Readers -> [does : {"nothing", "subscribe", "unsubscribe"},
                         copy : Subscribers, link : 0..MaxMails]]

NewsletterInit ==
  /\ subscriber = NoSubscriber /\ readers = [r \in Readers |-> Away]
  /\ drawn = 0 /\ lateLink = {}

Reads(r, what, link) ==
  /\ readers[r] = Away
  /\ readers' = [readers EXCEPT ![r] = [does |-> what, copy |-> subscriber, link |-> link]]
  /\ UNCHANGED <<subscriber, drawn, lateLink>>
Leaves(r) == readers' = [readers EXCEPT ![r] = Away]
Unsubscribing(r) == readers[r].does = "unsubscribe"

\* subscribe: an active address is refused.
FindSubscriber(r) == subscriber.status # "active" /\ Reads(r, "subscribe", 0)

\* A new subscriber is created, unless the unique index has one by now, or the
\* old one made active again; either gets a new token.
SaveSubscriber(r) ==
  /\ readers[r].does = "subscribe" /\ drawn < MaxMails /\ drawn' = drawn + 1
  /\ IF readers[r].copy.status = "none" /\ subscriber.status # "none"
     THEN UNCHANGED <<subscriber, lateLink>>
     ELSE /\ subscriber' = [subscriber EXCEPT !.status = "active", !.token = drawn + 1]
          /\ lateLink' = IF \E q \in Readers : Unsubscribing(q)
                         THEN lateLink \cup {drawn + 1} ELSE lateLink
  /\ Leaves(r)

\* Mutant: the link of any mail will do.
FindByAnyToken(r, t) == t \in 1..drawn /\ Reads(r, "unsubscribe", t)

\* unsubscribe: by the token of the last mail.
FindByToken(r, t) == t # 0 /\ subscriber.token = t /\ Reads(r, "unsubscribe", t)

\* The status is written if the copy was active.  history ended: by which link.
SaveUnsubscribed(r) ==
  /\ Unsubscribing(r)
  /\ subscriber' = IF readers[r].copy.status # "active" THEN subscriber
       ELSE [subscriber EXCEPT !.status = "unsubscribed", !.ended = readers[r].link]
  /\ Leaves(r) /\ UNCHANGED <<drawn, lateLink>>

NewsletterNext ==
  \E r \in Readers :
    \/ FindSubscriber(r) \/ SaveSubscriber(r)
    \/ \E t \in 1..MaxMails : FindByToken(r, t)
    \/ SaveUnsubscribed(r)

-----------------------------------------------------------------------------
(* Properties *)

\* A subscription ends by the link of its own mail, except when a request with
\* an older link was under way when it was made.
EndedByOwnLink ==
  subscriber.status = "unsubscribed" =>
    subscriber.ended = subscriber.token \/ subscriber.token \in lateLink

\* A subscription ends by its own link (NewsletterService).
NewsletterSafe ==
  /\ NewsletterTypeOK /\ EndedByOwnLink
=============================================================================
