------------------------------ MODULE Listing ------------------------------
(***************************************************************************)
(* A client that reads the list of events page by page while events come   *)
(* and go: by offset (findAll), by offset over the dead letters (getDlq),  *)
(* or by cursor (findAllCursor, cursorPaginate).                           *)
(***************************************************************************)
EXTENDS Naturals, FiniteSets, Functions

CONSTANTS
  Items,     \* ids of events that match the filter; numbers, as they are ordered
  MaxStamp,  \* bound: times the list is sorted by
  PageSize,  \* limit
  MaxChanges \* bound: events that come and go

ASSUME ListingAssumption ==
  /\ Items \subseteq Nat /\ IsFiniteSet(Items)
  /\ MaxStamp \in Nat /\ PageSize \in Nat \ {0} /\ MaxChanges \in Nat

VARIABLES
  stamp,    \* per event: createdAt, or deadAt; 0 when it is not in the list
  client,   \* what it reads, the page it is at, the cursor, and whether it is done
  shown,    \* per event: how often it was on a page
  stayed,   \* history: events that have been in the list all along
  inserted, removed, tied  \* history: what has happened to the list

listVars == <<stamp, client, shown, stayed, inserted, removed, tied>>

Lists == {"offset", "dlq", "cursor"}
Listed == {e \in Items : stamp[e] # 0}
NoCursor == <<MaxStamp + 1, 0>>

ListTypeOK ==
  /\ stamp \in [Items -> 0..MaxStamp] /\ shown \in [Items -> Nat]
  /\ client \in [reads : Lists, page : Nat, done : BOOLEAN,
                 cursor : (1..MaxStamp) \X Items \cup {NoCursor}]
  /\ stayed \subseteq Listed /\ inserted \in Nat /\ removed \in Nat /\ tied \in BOOLEAN

ListInit ==
  /\ stamp \in [Items -> 0..MaxStamp]
  /\ client \in [reads : Lists, page : {0}, done : {FALSE}, cursor : {NoCursor}]
  /\ shown = [e \in Items |-> 0] /\ stayed = Listed
  /\ inserted = 0 /\ removed = 0 /\ tied = FALSE

-----------------------------------------------------------------------------
(* The order of the list: the latest first, and tie decides between equals. *)

Before(tie, e, f) == stamp[e] > stamp[f] \/ (stamp[e] = stamp[f] /\ tie[e] > tie[f])
Rank(S, tie, e) == Cardinality({f \in S : Before(tie, f, e)})
ById == [e \in Items |-> e]

\* Mutant: the page overlaps the one before.
OverlappingPage(n, tie) ==
  {e \in Listed : Rank(Listed, tie, e) + 1 \in n * PageSize .. (n + 1) * PageSize}

\* skip and limit.
PageAt(n, tie) ==
  {e \in Listed : Rank(Listed, tie, e) \in n * PageSize .. (n + 1) * PageSize - 1}

\* Mutant: only the time of the cursor is compared.
LaterThan(cursor) == {e \in Listed : stamp[e] < cursor[1]}

\* What the query of the cursor leaves; the row it points at may be gone.
Beyond(cursor) ==
  {e \in Listed : stamp[e] < cursor[1] \/ (stamp[e] = cursor[1] /\ e < cursor[2])}

Show(rows) == shown' = [e \in Items |-> shown[e] + (IF e \in rows THEN 1 ELSE 0)]

-----------------------------------------------------------------------------

\* findAll sorts by createdAt and id.  getDlq sorts by deadAt alone: each query
\* may order equals in its own way.  The client goes on until a page is short.
\* history tied: a query has met equals.
OffsetPage ==
  /\ client.reads # "cursor" /\ ~client.done
  /\ \E tie \in Injection(Items, Items) :
       /\ client.reads = "offset" => tie = ById
       /\ LET rows == PageAt(client.page, tie)
          IN  /\ Show(rows)
              /\ client' = [client EXCEPT !.page = @ + 1,
                                          !.done = Cardinality(rows) < PageSize]
  /\ tied' = (tied \/ \E e, f \in Listed : e # f /\ stamp[e] = stamp[f])
  /\ UNCHANGED <<stamp, stayed, inserted, removed>>

\* One row more than the page is read, to know whether another page follows.
CursorPage ==
  /\ client.reads = "cursor" /\ ~client.done
  /\ LET rest == Beyond(client.cursor)
         rows == {e \in rest : Rank(rest, ById, e) < PageSize}
         last == CHOOSE e \in rows : \A f \in rows : ~Before(ById, e, f)
     IN  /\ Show(rows)
         /\ client' = IF Cardinality(rest) > PageSize
                      THEN [client EXCEPT !.cursor = <<stamp[last], last>>]
                      ELSE [client EXCEPT !.done = TRUE]
  /\ UNCHANGED <<stamp, stayed, inserted, removed, tied>>

\* Another request creates an event, or buries it; the processes' clocks differ.
Insert(e, t) ==
  /\ stamp[e] = 0 /\ ~client.done /\ inserted + removed < MaxChanges
  /\ stamp' = [stamp EXCEPT ![e] = t] /\ inserted' = inserted + 1
  /\ UNCHANGED <<client, shown, stayed, removed, tied>>

\* It expires, is erased, or is replayed.
RemoveItem(e) ==
  /\ e \in Listed /\ ~client.done /\ inserted + removed < MaxChanges
  /\ stamp' = [stamp EXCEPT ![e] = 0] /\ stayed' = stayed \ {e} /\ removed' = removed + 1
  /\ UNCHANGED <<client, shown, inserted, tied>>

ListNext ==
  \/ OffsetPage \/ CursorPage
  \/ \E e \in Items : RemoveItem(e) \/ \E t \in 1..MaxStamp : Insert(e, t)

-----------------------------------------------------------------------------
(* Properties *)

\* Reading by cursor shows every event that was there all along exactly once,
\* whatever else came or went, and also when the row of the cursor is gone.
CursorShowsAll ==
  client.reads = "cursor" =>
    \A e \in stayed : shown[e] <= 1 /\ (client.done => shown[e] = 1)

\* Reading by offset repeats an event at most once for each event that came, and
\* skips one only when one went; only the dead letters' order adds to that.
OffsetErrsByChange ==
  client.reads # "cursor" /\ ~(client.reads = "dlq" /\ tied) =>
    \A e \in stayed :
      shown[e] <= 1 + inserted /\ (client.done /\ shown[e] = 0 => removed > 0)

\* What a client sees who reads page by page (EventsService, cursorPaginate).
ListSafe ==
  /\ ListTypeOK /\ CursorShowsAll /\ OffsetErrsByChange
=============================================================================
