------------------------------ MODULE MCGuards ------------------------------
(* The guards around a delivery that promise something in the end - shared   *)
(* breaker, log writer, endpoint cache - have no state in common: the run    *)
(* picks one of them in its initial state and lets that one move.            *)
EXTENDS SharedBreaker, LogWriter, EndpointCache

VARIABLE guard

guardVars == <<breakerVars, writerVars, cacheVars, guard>>

Init ==
  /\ guard \in {"breaker", "writer", "cache"}
  /\ BreakerInit /\ WriterInit /\ CacheInit

Breaker(A) == guard = "breaker" /\ A /\ UNCHANGED <<writerVars, cacheVars, guard>>
Writer(A) == guard = "writer" /\ A /\ UNCHANGED <<breakerVars, cacheVars, guard>>
Cache(A) == guard = "cache" /\ A /\ UNCHANGED <<breakerVars, writerVars, guard>>

Next == Breaker(BreakerNext) \/ Writer(WriterNext) \/ Cache(CacheNext)

\* The fairness of each part, in the behaviours in which it moves.
Fairness ==
  /\ WF_guardVars(Breaker(BreakerTick))
  /\ \A c \in Senders : WF_guardVars(Breaker(Report(c)))
  /\ WF_guardVars(Writer(Fire)) /\ WF_guardVars(Writer(Inserted))
  /\ WF_guardVars(Writer(Exit)) /\ WF_guardVars(Writer(GoOn))
  /\ WF_guardVars(Cache(CacheTick)) /\ WF_guardVars(Cache(Invalidate))
  /\ \A d \in Deliveries : WF_guardVars(Cache(~DeliveryAt(d, "idle") /\ Step(d)))
Spec == Init /\ [][Next]_guardVars /\ Fairness
=============================================================================
