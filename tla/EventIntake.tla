----------------------------- MODULE EventIntake -----------------------------
(***************************************************************************)
(* What every way in promises the pipeline of an idempotency key: there is *)
(* one event of it, its job comes after the event, and comes once.  A key  *)
(* may be left with its event and no job, by a request that died.          *)
(***************************************************************************)
EXTENDS Naturals

CONSTANT Keys

VARIABLES stored, queued   \* keys that have an event; per key, jobs added

Init == stored = {} /\ queued = [k \in Keys |-> 0]

Store(k) == /\ k \notin stored
            /\ stored' = stored \cup {k}
            /\ UNCHANGED queued

Queue(k) == /\ k \in stored /\ queued[k] = 0
            /\ queued' = [queued EXCEPT ![k] = 1]
            /\ UNCHANGED stored

Next == \E k \in Keys : Store(k) \/ Queue(k)
Spec == Init /\ [][Next]_<<stored, queued>>
=============================================================================
