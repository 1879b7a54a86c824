---------------------------- MODULE ResponseCache ----------------------------
(***************************************************************************)
(* CacheResponseInterceptor: answers to GET requests of the analytics      *)
(* routes, kept per user and url in the memory of one process.  Instants   *)
(* are kept relative to now, so time needs no bound.                       *)
(***************************************************************************)
EXTENDS Naturals, Integers, FiniteSets

CONSTANTS
  Views,     \* a user and a url
  Visitors,  \* requests served at a time
  Life,      \* the route's TTL, in clock ticks
  Handling,  \* bound: ticks a handler takes at most
  MaxStore   \* MAX_CACHE_SIZE

ASSUME ResponseAssumption ==
  Life \in Nat \ {0} /\ Handling \in Nat /\ MaxStore \in Nat \ {0}

VARIABLES
  store,    \* per view: no entry, or the age of its data, ticks left, ticks since its last use
  visitor,  \* per request: the view it computes, and for how long it has
  ageShown     \* history: the age of the data last answered from the store

responseVars == <<store, visitor, ageShown>>

NoEntry == [left |-> -2]
NotHere == [view |-> "none"]
MostIdle == Life + 1 \* longer is all the same: the entry has expired
Kept == {v \in Views : store[v] # NoEntry}

ResponseTypeOK ==
  /\ store \in [Views -> {NoEntry} \cup
                  [data : 0..(Life + Handling), left : -1..Life, idle : 0..MostIdle]]
  /\ visitor \in [Visitors -> {NotHere} \cup [view : Views, busy : 0..Handling]]
  /\ ageShown \in Nat

ResponseInit ==
  /\ store = [v \in Views |-> NoEntry] /\ visitor = [r \in Visitors |-> NotHere] /\ ageShown = 0

Live(v) == store[v].left > 0

-----------------------------------------------------------------------------
(* Eviction *)

\* Mutant: only what has expired goes.
ExpiredOnly(gone) == gone = {v \in Kept : store[v].left < 0}

\* evict: what has expired before now; and if that is not enough, the longest
\* unused of the others, down to three quarters of the store.
Evicts(gone) ==
  LET stale == {v \in Kept : store[v].left < 0}
      rest == Kept \ stale
      quarter == Cardinality(rest) - (MaxStore * 3) \div 4
      many == IF quarter > 1 THEN quarter ELSE 1
  IN  IF Cardinality(rest) < MaxStore THEN gone = stale
      ELSE \E lru \in SUBSET rest :
             /\ gone = stale \cup lru /\ Cardinality(lru) = many
             /\ \A v \in lru, w \in rest \ lru : store[v].idle >= store[w].idle

\* Room is made when the store is full, though the view may have an entry.
MakeRoom(gone) == IF Cardinality(Kept) >= MaxStore THEN Evicts(gone) ELSE gone = {}

-----------------------------------------------------------------------------
(* Requests *)

\* Mutant: a hit renews the entry.
HitRenews(r, v) ==
  /\ visitor[r] = NotHere /\ Live(v)
  /\ store' = [store EXCEPT ![v].idle = 0, ![v].left = Life]
  /\ ageShown' = store[v].data
  /\ UNCHANGED visitor

Hit(r, v) ==
  /\ visitor[r] = NotHere /\ Live(v)
  /\ store' = [store EXCEPT ![v].idle = 0] /\ ageShown' = store[v].data
  /\ UNCHANGED visitor

\* Requests that miss together all run the handler.
Miss(r, v) ==
  /\ visitor[r] = NotHere /\ ~Live(v)
  /\ visitor' = [visitor EXCEPT ![r] = [view |-> v, busy |-> 0]]
  /\ UNCHANGED <<store, ageShown>>

\* The handler's answer is stored, whatever was stored meanwhile; the data may
\* be as old as the request.
StoreAnswer(r) ==
  /\ visitor[r] # NotHere
  /\ \E gone \in SUBSET Kept :
       /\ MakeRoom(gone)
       /\ store' = [v \in Views |->
            IF v = visitor[r].view THEN [data |-> visitor[r].busy, left |-> Life, idle |-> 0]
            ELSE IF v \in gone THEN NoEntry ELSE store[v]]
  /\ visitor' = [visitor EXCEPT ![r] = NotHere]
  /\ UNCHANGED ageShown

\* A handler that throws stores nothing.
HandlerFails(r) ==
  /\ visitor[r] # NotHere /\ visitor' = [visitor EXCEPT ![r] = NotHere]
  /\ UNCHANGED <<store, ageShown>>

\* The data of an entry that has expired is never shown.
Older(e) ==
  IF e = NoEntry THEN e
  ELSE [data |-> IF e.left > 1 THEN e.data + 1 ELSE 0,
        left |-> IF e.left > -1 THEN e.left - 1 ELSE -1,
        idle |-> IF e.idle < MostIdle THEN e.idle + 1 ELSE e.idle]
ResponseTick ==
  /\ \A r \in Visitors : visitor[r] # NotHere => visitor[r].busy < Handling
  /\ store' = [v \in Views |-> Older(store[v])]
  /\ visitor' = [r \in Visitors |->
       IF visitor[r] = NotHere THEN NotHere ELSE [visitor[r] EXCEPT !.busy = @ + 1]]
  /\ UNCHANGED ageShown

ResponseNext ==
  \/ \E r \in Visitors :
       \/ \E v \in Views : Hit(r, v) \/ Miss(r, v)
       \/ StoreAnswer(r) \/ HandlerFails(r)
  \/ ResponseTick

-----------------------------------------------------------------------------
(* Properties *)

\* The store does not outgrow its limit.
StoreBounded == Cardinality(Kept) <= MaxStore

\* What is answered from the store is younger than the TTL and the time its own
\* handler took, though a slow handler stores older data over newer.
AnswerAge == ageShown < Life + Handling

\* How many answers are kept, and how old they are when given.
AnswersSafe ==
  /\ ResponseTypeOK /\ StoreBounded /\ AnswerAge
=============================================================================
