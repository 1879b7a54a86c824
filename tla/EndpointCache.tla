--------------------------- MODULE EndpointCache ---------------------------
(***************************************************************************)
(* The copy of an endpoint that deliveries share in Redis: read through by *)
(* deliver(), with a time to live, and deleted after each write of         *)
(* EndpointsService.  A fill and an invalidation are several steps each,   *)
(* and a fill may store what a write has meanwhile replaced.               *)
(*                                                                         *)
(* A version stands for the contents of the document; Gone for no document.*)
(***************************************************************************)
EXTENDS Naturals

CONSTANTS
  Deliveries,  \* deliveries to one endpoint
  Ttl,         \* ENDPOINT_CACHE_TTL_S
  CacheLag,      \* bound: ticks between a read and what is done with it
  MaxVersion   \* bound: writes in a behaviour

ASSUME CacheAssumption == Ttl \in Nat \ {0} /\ CacheLag \in Nat /\ MaxVersion \in Nat

VARIABLES
  version, gone,   \* the document: its contents, and whether it was deleted
  cached, ttl,     \* the Redis entry, None if absent, and its time to live
  invalidations,   \* writes whose DEL has not run yet
  cachePc, read, readLag,   \* per delivery: step, version in hand, ticks since it was read
  age              \* history: per version, ticks since it was replaced

doc == <<version, gone>>
entry == <<cached, ttl>>
cacheVars == <<doc, entry, invalidations, cachePc, read, readLag, age>>

None == MaxVersion + 1
OldestCopy == Ttl + 2 * CacheLag + 1

CacheTypeOK ==
  /\ version \in 0..MaxVersion /\ gone \in BOOLEAN
  /\ cached \in 0..None /\ ttl \in 0..Ttl /\ (cached = None <=> ttl = 0)
  /\ invalidations \in 0..(MaxVersion + 1)
  /\ cachePc \in [Deliveries -> {"idle", "load", "fill", "use"}]
  /\ read \in [Deliveries -> 0..MaxVersion]
  /\ readLag \in [Deliveries -> 0..CacheLag]
  /\ age \in [0..MaxVersion -> 0..OldestCopy]

CacheInit ==
  /\ version = 0 /\ gone = FALSE /\ cached = None /\ ttl = 0
  /\ invalidations = 0
  /\ cachePc = [d \in Deliveries |-> "idle"] /\ read = [d \in Deliveries |-> 0]
  /\ readLag = [d \in Deliveries |-> 0]
  /\ age = [v \in 0..MaxVersion |-> 0]

DeliveryAt(d, p) == cachePc[d] = p
Hold(d, p, v) == /\ cachePc' = [cachePc EXCEPT ![d] = p] /\ read' = [read EXCEPT ![d] = v]
                 /\ readLag' = [readLag EXCEPT ![d] = 0]
Replaced(v) == v < version \/ gone

CacheTick ==
  /\ \A d \in Deliveries : DeliveryAt(d, "idle") \/ readLag[d] < CacheLag
  /\ readLag' = [d \in Deliveries |-> IF DeliveryAt(d, "idle") THEN 0 ELSE readLag[d] + 1]
  /\ ttl' = IF ttl > 0 THEN ttl - 1 ELSE 0
  /\ cached' = IF ttl = 1 THEN None ELSE cached
  /\ age' = [v \in 0..MaxVersion |->
               IF Replaced(v) /\ age[v] < OldestCopy THEN age[v] + 1 ELSE age[v]]
  /\ UNCHANGED <<doc, invalidations, cachePc, read>>

\* deliver(): the cached copy, or else the document, which is then stored by a
\* call nobody waits for; a missing document is not stored.
Get(d) ==
  /\ DeliveryAt(d, "idle")
  /\ \/ cached = None /\ Hold(d, "load", 0)
     \/ cached # None /\ Hold(d, "use", cached)
  /\ UNCHANGED <<doc, entry, invalidations, age>>

LoadDoc(d) ==
  /\ DeliveryAt(d, "load")
  /\ \/ gone /\ Hold(d, "idle", 0)
     \/ ~gone /\ Hold(d, "fill", version)
  /\ UNCHANGED <<doc, entry, invalidations, age>>

\* Mutant: SET without an expiry.
FillForever(d) ==
  /\ DeliveryAt(d, "fill") /\ cached' = read[d] /\ ttl' = 0
  /\ Hold(d, "use", read[d])
  /\ UNCHANGED <<doc, invalidations, age>>

Fill(d) ==
  /\ DeliveryAt(d, "fill")
  /\ \/ cached' = read[d] /\ ttl' = Ttl
     \/ UNCHANGED entry                      \* Redis refused; set() hides it
  /\ Hold(d, "use", read[d])
  /\ UNCHANGED <<doc, invalidations, age>>

\* Mutant: a hit is stored again, with a fresh time to live.
Refresh(d) ==
  /\ DeliveryAt(d, "use") /\ Hold(d, "idle", 0)
  /\ cached' = read[d] /\ ttl' = Ttl
  /\ UNCHANGED <<doc, invalidations, age>>

Use(d) ==
  /\ DeliveryAt(d, "use") /\ Hold(d, "idle", 0)
  /\ UNCHANGED <<doc, entry, invalidations, age>>

\* update, rotateSecret, pause, resume, and the scan for personal data, which
\* deletes no cache entry.
Update ==
  /\ version < MaxVersion /\ ~gone
  /\ version' = version + 1
  /\ invalidations' \in {invalidations, invalidations + 1}
  /\ UNCHANGED <<gone, entry, cachePc, read, readLag, age>>

Remove ==
  /\ ~gone /\ gone' = TRUE
  /\ invalidations' = invalidations + 1
  /\ UNCHANGED <<version, entry, cachePc, read, readLag, age>>

\* invalidateEndpointCache: del() hides a Redis error.
Invalidate ==
  /\ invalidations > 0 /\ invalidations' = invalidations - 1
  /\ \/ cached' = None /\ ttl' = 0
     \/ UNCHANGED entry
  /\ UNCHANGED <<doc, cachePc, read, readLag, age>>

Step(d) == Get(d) \/ LoadDoc(d) \/ Fill(d) \/ Use(d)
CacheNext == CacheTick \/ Update \/ Remove \/ Invalidate \/ \E d \in Deliveries : Step(d)

\* Time passes and what has been started goes on.
CacheFairness ==
  /\ WF_cacheVars(CacheTick) /\ WF_cacheVars(Invalidate)
  /\ \A d \in Deliveries : WF_cacheVars(~DeliveryAt(d, "idle") /\ Step(d))
CacheSpec == CacheInit /\ [][CacheNext]_cacheVars /\ CacheFairness

-----------------------------------------------------------------------------
(* Properties *)

\* Whatever fills, writes, failed and forgotten invalidations do, no delivery
\* is made with a configuration (url, secret, PAUSED) that was replaced longer
\* ago than the time to live and the lag of two deliveries.
StaleBounded ==
  /\ cached # None => age[cached] <= Ttl + CacheLag
  /\ \A d \in Deliveries : DeliveryAt(d, "use") => age[read[d]] <= Ttl + 2 * CacheLag

\* Once writes stop, every later delivery works with the last version.
Converges ==
  <>[](\A d \in Deliveries : DeliveryAt(d, "use") => read[d] = version /\ ~gone)

\* What deliveries use is never older than the bound above.
CacheSafe ==
  /\ CacheTypeOK /\ StaleBounded
=============================================================================
