----------------------------- MODULE MCDelivery -----------------------------
(* Instances of Delivery for TLC: the disturbances each run lets happen. *)
EXTENDS Delivery, TLC

\* Receivers fail and rate limits bite; nothing crashes, nobody interferes.
CalmEnv == {"reject", "timeout", "filter", "limit", "hardLimit", "evict"}

\* The early returns of deliver(), exceptions at every stage, expiry, deletion,
\* one crash or replay: what writes back a stale count or half-does a call.
FaultyEnv ==
  {"reject", "timeout", "throw", "record", "logClash", "inactive", "maintenance",
   "breaker", "limit", "crash", "apiCrash", "replay", "ttl", "delete"}
Sym == Permutations(Workers)

\* More crashes than Bull forgives a stalled job, with the cron to help.
CrashEnv == {"reject", "limit", "crash", "cron"}

FailingEnv == {"reject"}
=============================================================================
