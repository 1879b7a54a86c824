# A TLA+ model of the webhook delivery backend

The backend (NestJS, MongoDB, Redis, Bull) accepts events over HTTP, stores each as a document, queues a job for it, and workers deliver it to the endpoint's URL: filtered, rate-limited, behind circuit breakers, retried on failure and buried in a dead letter queue when the retry budget is spent. Around that core there are accounts, workspaces, projects, billing, tunnels, analytics and a public site. This directory holds TLA+ modules that model these services, TLC configurations that check them on small instances, and theorems that TLAPS proves for every value of the constants.

Paths below are relative to the repository's `src/` (`modules/...` is `src/modules/...`). "Replica" means one process of the application; all crons and workers run in every replica.

## 1. Inventory

| Component | State it keeps | Operations | What makes it correct | Module |
|---|---|---|---|---|
| Delivery pipeline (`modules/delivery/delivery.service.ts`, `retry-worker.service.ts`) | event documents (status, retryCount, nextRetryAt, lastError), Bull's jobs and job ids | `deliver`, `handleDeliveryFailure`, `scheduleRetry`, `replay`, `replayDlq`, crons for rescheduling, expiry, purge | no event is lost, given up early, or called delivered without a 2xx; a settled event is left alone | `Delivery`, `EventLifecycle` |
| Breakers in memory (`delivery.service.ts`, `getBreaker`) | a bounded map of circuit breakers, a gauge | look-up, eviction, open, probe, close | a failing endpoint's breaker is not forgotten | `LocalBreakers` |
| Endpoint rate limiter (`modules/endpoints/endpoint-rate-limiter.service.ts`) | six fields of the endpoint document | `checkRateLimit`: two conditional updates | caps hold under races; what a denied caller is told is bounded | `RateLimiter`, `Quota` |
| Shared circuit breaker (`modules/delivery/shared-breaker.service.ts`) | two Redis keys per endpoint, with expiries | `isOpen`, `recordFailure`, `recordSuccess` | it counts recent failures only, and it closes again | `SharedBreaker` |
| Delivery log writer (`modules/delivery/delivery-log-writer.service.ts`) | buffer, timer, flag in memory | `enqueue`, `flush`, `onModuleDestroy` | rows reach the database | `LogWriter` |
| Endpoints and their cache (`modules/endpoints`, `common/cache/redis-cache.service.ts`) | endpoint documents, a Redis copy with a time to live | create, update, rotate secret, delete; read-through by `deliver`, delete after every write | limits, unique URLs, the secret the owner knows; staleness is bounded and ends | `Endpoints`, `EndpointCache` |
| Event intake (`modules/events`, `modules/webhooks`, `modules/deduplication`) | event documents, deduplication keys, monthly counters | `send` on two routes, `broadcast`, lists, replay, replay-all, erasure | one job per idempotency key, limits, honest answers and lists | `Ingest`, `EventIntake`, `Months`, `Listing`, `DeadLetters` |
| Scheduled events (`modules/scheduling`) | schedule documents | `schedule`, `update`, `cancel`, cron `dispatchDueEvents` | each due schedule is sent, once; a cancelled one is not | `Scheduling`, `EventIntake` |
| Billing (`modules/billing`, `modules/payments`) | balance, ledger, invoices, subscription and user documents | payment webhooks, upgrade, cancel, `verifyPurchase`, hourly expiry and its mails | balance and ledger agree, one grant per payment, a paid period is not taken away | `Billing`, `TrialMails` |
| Authentication and sessions (`modules/auth/auth.service.ts`, `auth.controller.ts`) | sessions in the user document, reset and verification tokens, one-time codes in memory | register, verify, login, Google login, refresh, logout, password change and reset, suspension | a token is refreshed once; what should end every session does | `Sessions`, `Accounts`, `OAuthCodes` |
| Two-factor authentication (`modules/auth/two-factor.service.ts`) | secret, flag, recovery codes | setup, enable, disable, validate, regenerate | a recovery code works once; what is enabled was confirmed; a secret can be read back | `TwoFactor`, `Base32`, `KeyRotation` |
| Encryption at rest (`utils/payload-crypto.ts`) | two keys and their labels, ciphertexts | seal, open, rotation by deployment | what was sealed opens; ciphertext is never taken for text | `KeyRotation` |
| Workspaces and projects (`modules/workspaces`, `modules/projects`, `common/guards/project-access.guard.ts`) | member lists, invitations, roles kept in Redis | invite, accept, revoke, remove, roles, link, delete, default project | one membership per user and invitation, an owner, roles that follow removals | `Workspaces`, `Projects` |
| Realtime gateway (`modules/realtime`) | sockets and rooms | connect, subscribe, emit | only members receive | `Projects` |
| Tunnels (`modules/tunnel`, `cli/tunnel.js`) | two in-memory maps, open responses | create, register, forward, delete, clean-up | the live session is the one that is used | `Tunnels` |
| Analytics (`modules/analytics`, `common/interceptors/cache-response.interceptor.ts`) | hourly buckets; answers in memory | `record`, reports; cached answers | counts add up, extremes are extremes; the store is bounded and fresh | `Buckets`, `ResponseCache` |
| Careers, newsletter (`modules/careers`, `modules/newsletter`) | jobs, applications and their counter; subscribers | apply, delete; subscribe, unsubscribe | a job with applications stays; a subscription ends by its own link | `Careers`, `Newsletter` |

**Not modelled.** Batch delivery (no module registers the service). Filter rules and maintenance windows (no route sets them; what they decide is a choice of `Delivery`). Signatures, scrubbing, outgoing HTTP (bytes in, bytes out; their outcomes are choices of `Delivery!Send`). Permissions tables and custom roles (single-document updates; no route assigns a custom role). API keys (nothing calls their validation, although `main.ts` documents the header), portal tokens, user profile (one document each). Event catalogue, transformations, playground. Audit, search, usage, metrics: rows, queries and counters no decision reads. Alerts, SLA monitor, operational webhooks: readers that send messages. The AI assistant: calls to an external model; its one write that matters is part of `EndpointCache`. Reseller billing: `incrementCustomerUsage` has no caller, so the monthly invoices cannot be reached. The application shell. Within modelled components, what is left out is named in the `note` of each component in `PROJECT.json`.

**How they interact.** `send` (Ingest) and the scheduling cron (Scheduling) create an event document and then add a Bull job. A worker takes the job and runs `deliver`, which reads the endpoint through the Redis cache (EndpointCache), asks the rate limiter (RateLimiter), the in-process breaker (LocalBreakers) and the shared breaker (SharedBreaker), sends, writes a log row (LogWriter), the analytics (Buckets) and the event's verdict, and adds a retry job. Once a minute a cron adds jobs for rate-queued events and another expires old ones; the API replays and erases events (DeadLetters). Every project route passes the guard, which keeps roles in Redis (Projects); accounts get a trial (Accounts), the payment provider's webhooks change the subscription (Billing), and crons expire it (TrialMails). All of this is shared state in MongoDB and Redis without transactions or locks: each module cuts a handler where it awaits, and everything else may run in between.

**What is hard.** Several workers on one event (drip job and cron job, replay, Bull's stalled-job re-run); counts and statuses read before an await and written after it; job ids that recur and are then ignored by Bull; a crash or an exception between a database write and the queue or Redis call that belongs to it; answers and notifications that come late or twice; expiries that race updates; caches filled with what has just been replaced; lists and limits read before what they allow is written. The most telling places are under `hazards` in `PROJECT.json`, each with its line and the properties that watch over it.

## 2. Modules

Conventions. A handler is cut at its awaits: the record of a request says which database call it makes next and what it has read. A request that is a single write is a single action. History variables (marked "history") only serve properties. A definition whose comment begins "Mutant:" is not part of a specification: it is the bug a property is tested against.

**`Delivery.tla`.** State: the event documents (`status`, `retryCount`, `lastError`), Bull (`queue`: the state of every job id; `stalls`), each worker's await (`pc`), job and the `retryCount` it read (`snap`), API calls between their write and `queue.add` (`adds`), rows the crons have read (`picked`, `expired`), the dead letter queue. `deliver()` is one action per await: `Load`, `Endpoint`, `Defer`, `Filter`, `Limit`, `RateLimited`, `RateQueue`, `Drip`, `Breaker`, `RetrySame`, `Send`, `Delivered`, `Recorded`, `Failed`, `Verdict`, `AddDlq`, `RetryNext`, `Finish`. Around them `Take`, `Stalled` and `Evict` are Bull's, `Crash` the process's, `Create`, `Replay`, `Enqueue`, `ApiCrash` the API's, `CronFind`/`CronAdd`, `ExpireFind`/`ExpireWrite`, `Delete` the crons' and MongoDB's TTL index. Two abstractions: wall-clock delays (a delayed job may start at any time) and Bull's memory of finished jobs, kept only for ids that recur (`retry-<event>-<count>`). The constant `Env` names the disturbances a run lets happen; the theorems hold for any `Env`.

The constructor parameters of `DeliveryService` for the shared breaker, the cache and the log writer are typed `import('...').X`, which TypeScript emits as `Object`, and are `@Optional()`: whether Nest injects anything there depends on the build. The model takes both branches: with a cache or without, and without a log writer the row inserted by `handleDeliveryFailure` meets the row `deliver` has inserted for the same `(eventId, attempt)` ("logClash").

**`EventLifecycle.tla`** is what the pipeline promises: an event is open, costs one unit of budget per failed try, is settled once (delivered, dead exactly when the budget is spent, or discarded) and eventually. `Delivery!LifecycleSpec` is that specification under the mapping status to phase, `retryCount` to tries.

**`LocalBreakers.tla`.** `getBreaker` with its map and its cap (breakers are numbered as they are made, which is the order of the map); deliveries keep the breaker they were given. The breaker itself (opossum) is external, modelled by what the code listens to: it opens, lets one probe through, closes.

**`RateLimiter.tla`, `Quota.tla`.** `checkRateLimit` captures the time, restarts ended windows in one update and takes a token in a second. `Quota` grants atomically; `QuotaSpec` is the refinement. Days, hours and minutes are windows with lengths, tested in order; a history keeps the tokens with their times.

**`SharedBreaker.tla`.** Redis commands one by one: `INCR`, `PEXPIRE` after the first failure, `SET` of the open key, two `DEL`s on success; expiries count down with the clock; a report may stop after any command. A read of the open key that fails counts as closed (`BeginUnread`).

**`LogWriter.tla`.** `enqueue` and the synchronous part of `flush` are one step; `Inserted` is the end of `insertMany`; Rows may come as long as the process lives: `Stop` is `onModuleDestroy` as `app.close()` in `main.ts` calls it, before Bull's queues are closed and while workers still enqueue; `HookStop` is the same call by the signal listener of Nest (`enableShutdownHooks`), which runs beside that of `main.ts`; `Exit` is the end of `app.close()`, `Kill` a crash or the forced exit after 30 seconds.

**`EndpointCache.tla`.** Versions of one endpoint document, the Redis copy and its time to live, writes with a pending delete (or none: the PII scan of `modules/ai/ai.service.ts` deletes nothing), deliveries that look up, load, store and use. Pause and resume are writes like any other. **`Endpoints.tla`** has what the documents say: creation looks for the URL and counts against the plan, then inserts; updates set a URL unasked; a rotation writes the new secret and then answers with it.

**`Ingest.tla`.** Both `send` routes and `broadcast`, for one endpoint and project: limit (none without a subscription or with a limit of 0: `EventLimit = 0`), idempotency lookup, deduplication mark, insert under the unique index, job, counter; a request may die at each. **`Months.tla`** follows the counter over months: look, count, the midnight job. **`Listing.tla`** is a client that reads pages while rows come, go and die again: by offset, by offset over the dead letters (whose order changes), by cursor with the compound condition of `common/pagination/cursor.ts`. **`DeadLetters.tla`** has `replay`, `replayDlq` in batches, `eraseByCustomerId` and the worker and log buffer they meet. The worker writes an outcome (`EndJob`: delivered or otherwise settled, dead, or to be tried again, as a rule with a job) or none (`GiveUp`: the endpoint is paused or gone, an exception, a job that Bull gives up).

**`Scheduling.tla`.** `schedule`; `update` and `cancel` cut between their read and their write; overlapping passes of the cron, schedule by schedule: endpoint lookup, event insert, job, mark; an error ends a schedule, a crash ends a pass. The jobs of a schedule are counted. `SendElsewhere` is `EventsService.send` with a key that a schedule may have as well: seen from here, one insert under the events' unique index.

**`EventIntake.tla`** is what every way in promises of an idempotency key: its event is stored once (`Store`), its job is added after that and once (`Queue`); a request that dies may leave the event without a job. `Ingest!IntakeSpec` maps the event keys and the jobs per key to it, `Scheduling!IntakeSpec` the event keys and, per key, the jobs of the schedules that have it.

**`Billing.tla`.** Every request, webhook delivery and client confirmation runs on a handler, cut at its awaits. State: per account the subscription (`status`, whether trial and period end lie ahead), the ids the code remembers, balance, ledger, invoices, and what Razorpay has captured. Payments stand for their id, plan and package; money is counted in payments. An invoice number holds the year, but the count behind it runs over all years: one sequence of numbers here. Webhooks may be delivered again, late, in any order, and two at once. `MCBilling` gives two menus of calls. **`TrialMails.tla`** is the sweep that every process starts at the full hour: expire, find, mail one by one, warn.

**`Sessions.tla`, `Accounts.tla`, `OAuthCodes.tla`.** Sessions of one user: a refresh token is the second it was issued in (it is a signature over the user and that second), so that two of one second are one; refreshes, logins and resets on workers, cut between find, pull and push; an epoch is the time between two requests that end all sessions. Accounts: registration and first Google logins for two addresses, with the unique indexes. OAuthCodes: codes kept in the memory of one of several processes, with life, sweep and restart.

**`TwoFactor.tla`, `Base32.tla`, `KeyRotation.tla`.** Secrets and lots of recovery codes are numbered as they are drawn; requests read the user first. Base32 encodes and decodes with a machine word that is never masked, byte by byte, its width a constant. KeyRotation: the environment of a deployment (key, label, previous key and label, factor key) and what is sealed under it.

**`Workspaces.tla`, `Projects.tla`.** Members (a sequence of roles per user: his rows in the list, in its order), invitations and their requests; Projects extends it with the project's rows, the guard and the roles it stores in Redis with a time to live, the default projects, made (`ResolveDefault`, `CreateDefault`) and deleted (`DropDefault`), and the project's realtime room. Projects a user makes besides these are left out, and so is `super_admin`, whom every check lets in. `MCTenancy` composes them with three menus of requests.

**`Tunnels.tla`** has both maps (a tunnel's entry is the number of its creation, which orders the map), the streams clients listen on and the client's behaviour (`cli/tunnel.js`). **`Buckets.tla`** has one endpoint's hourly buckets, records in two steps, dotted event types as paths, and the two reports. **`ResponseCache.tla`** has the store of answers with life and sweep, instants relative to now. **`Careers.tla`** and **`Newsletter.tla`** are the public site; an administrator's `PATCH` takes any body, and so may write a job's counter (`OverwriteCount`).

`MCServices`, `MCGuards`, `MCRecords`. Services that share no state are checked in one run: its initial state picks one of them, and that one moves. Nothing is lost by this, as no property relates two of them.

## 3. Runs

Bounds are constants; each is named with "bound:" where it is declared.

| Run | Checks | Bounds and why they are enough |
|---|---|---|
| `DeliveryCalm` | `NoOrphan`, `SentWhileOpen`, refinement of `EventLifecycle` (safety and liveness) | one event (events share only workers), two workers, three tries = three delay slots, two rate denials. Failing receivers and rate limits, nothing else |
| `DeliveryFaulty` | `TypeOK`, `BudgetSpent`, `DeliveredWasAccepted` | two workers, two tries, and one of: crash, rate denial, replay, half-done API call; any number of rejections, timeouts, exceptions, log clashes, expiries, deletions, closed breakers, maintenance windows. Two workers and one disturbance are what two jobs for one event take |
| `DeliveryCrash` | `RateQueuedMovesOn` | one worker, Bull gives a stalled job up at once (`MaxStalled = 0`), two disturbances: one to be rate-queued, one to crash before the drip job |
| `DeliveryTooManyRetries` | `EventuallySettled`, violated | four tries against three slots stand for 6..10 against 5 |
| `DeliveryNoId` | `EventuallySettled`, violated | `endpoint.id` undefined |
| `Scheduling` | `KeyedOnce`, `DuplicatesExplained`, `QueuedHasJob`, `DueIsDispatched`, refinement of `EventIntake` | two schedules, one key, two passes, one call in between, one death, the key used elsewhere at any time; the batch takes both |
| `SchedulingCancel` | `CancelledIsNotSent`, violated | one schedule, one pass, one call |
| `Months` | `RefusedForThisMonth`, violated | two requests, a limit of three, two months |
| `Guards` | breaker: `CounterWillExpire`, `FailuresRecent`, `OpenEnds`; log writer: `StrandedOnlyByInsert`, `CleanExit`, `TrafficDrains`; endpoint cache: `StaleBounded`, `Converges` | two deliveries, each of which may be followed by another, and a threshold of three in a window of four: failures that are counted, expire, are deleted by a success between two of them, and trip it; reads that fail while it is open. Four rows and batches of three: a batch under way and a row left over; rows that were stored come again, so traffic never ends until a stop, and come during and after the stop. Two deliveries, three versions, a time to live longer than the lag |
| `Services` | limiter: `WithinCap`, `BurstBounded`, `WaitBounded`, refinement of `Quota`; intake: `OneJobPerKey`, `OvershootBounded`, `DedupExplained`, refinement of `EventIntake`; sessions: `EpochEnds`, `NoExtraSessions`, `LinkUsedOnce`, `SuspendedHasOnlyLate`; second factor: `EnabledIsProven`, `CodeSpentOnce`, `SecretComesBack`; accounts: `TrialUnlessCut`, `VerifiedIsVouched`; tunnels: `NewestIsReached`, `SessionsAreOpen`, `CapUnlessCrowded`, `StrayIsLive`; codes: `TokensOnce`, `LiveCodeHeld` | two calls and windows of 2 and 5 ticks over nine ticks: several of the short one, a restart of the long one, a lag in a call. Two requests with three keys (two of one payload), limits of one. Two workers, two seconds, three stored sessions, one reset link, two epochs: two requests of each kind meet. Two lots of two recovery codes. Two addresses, two clerks. Three tunnels against a cap of two, two streams between them: a client that reconnects before its old stream closes. Three codes in two processes. Six bytes in a word of 12 bits: the word overflows after the second byte, as 32 bits do after the fifth |
| `Tenancy` | `OwnerStays`, `MembersOnce`, `InviteUsedOnce`, `OneOpenPerEmail`, `RoleBounded`, `ProjectRowsOnce`, `OneDefault`, `RoomOfMembers` | an owner and two users, two invitations, two requests at a time and three in all, one crash, a role entry that lives two ticks; default projects are deleted at any time |
| `Records` | billing: `InvoicesContiguous`, `CreditInvoicedOnce`, `BalanceExplained`, `MarkedIsActivated`, `GrantsExplained`, `PaidStaysActive`; mails: `UntoldOnlyByGap`, `ToldAgainByOthers`; breakers: `MapBounded`, `OpenIsHeld`, `GaugeExplained`; endpoints: `UrlOnce`, `WithinPlan`, `SecretTold`; events: `OneJobPerDeath`, `PendingIsUnderWay`, `ErasedButEncrypted`, `CursorShowsAll`, `OffsetErrsByChange`; analytics: `AverageExact`, `ExtremesBracket`, `CountedUnlessNested`, `BreakdownExact`, `StoreBounded`, `AnswerAge`; keys: `OpensWithEitherKey`, `TextOnlyWhenOff`, `FactorsOutliveRotation`; site: `CountCovers`, `JobKeptUnlessOverlapped`, `EndedByOwnLink` | two plan payments, one of credits and one renewal of one account, two handlers, two confirmations or other calls and one process stop or repeated delivery in a behaviour: a repeat, an overlap and a cut of each. `MCBilling` has two menus: confirmations of two of the payments; and all calls that write a status, with time passing, around one payment and the renewal, where a fault takes the place of a call. Two trials, two sweeping processes, two hours of three ticks. Three endpoints against a cap of two breakers. Two requests of each other kind, three rows in pages of one, two keys and two labels, batches of two dead letters, one of which dies twice and the encrypted one once, three records over two hours, three answers against a store of two |

Outside `Delivery`, a module's invariants are the named conjuncts of one formula that also holds its type, and that formula is what a configuration lists: `SchedulingSafe`, `BreakerSafe`, `WriterSafe`, `CacheSafe`, `LimiterSafe`, `IngestSafe`, `SessionsSafe`, `FactorSafe`, `AccountsSafe`, `TunnelsSafe`, `CodesSafe`, `Base32Safe`, `WorkspacesSafe`, `ProjectsSafe`, `BillingSafe`, `TrialMailsSafe`, `LocalBreakersSafe`, `EndpointsSafe`, `LettersSafe`, `ListSafe`, `BucketsSafe`, `AnswersSafe`, `KeysSafe`, `CareersSafe`, `NewsletterSafe`. The table names the conjuncts; temporal properties are listed by themselves. Every conjunct has a mutant of a definition, a plausible bug of that code, under which TLC finds it violated. Symmetry is declared where the elements of a set are interchangeable: workers, handlers, invitations, users without a special part, payments of one kind. In `Services` and `Records` one permutation of `{h1, h2}` serves the requests, streams and processes of all parts, since only one part moves. `CHECK_DEADLOCK FALSE` is set throughout because these systems may rest: nothing is queued, no request is under way, a bound is reached or the process has stopped.

Reading the weaker statements. Many properties say exactly how far a promise holds, because the stronger one is false, and each exception was reached by a counterexample first:

- time: `BurstBounded` (twice the cap, less a lag), `StaleBounded` and `RoleBounded` (time to live plus lag, since a fill can store what an invalidation has just deleted), `AnswerAge`;
- requests that overlap: `OvershootBounded` (of a limit there is), `WithinPlan`, `UrlOnce`, `MembersOnce`, `InviteUsedOnce`, `OneOpenPerEmail`, `ProjectRowsOnce`, `OneDefault` (of the default projects there are at a time: one that was deleted is made again by the next call), `LinkUsedOnce`, `EnabledIsProven`, `NoExtraSessions`, `EpochEnds`, `SuspendedHasOnlyLate`, `GrantsExplained`, `OneJobPerDeath`, `JobKeptUnlessOverlapped`, `EndedByOwnLink`, `SecretTold`, `ToldAgainByOthers`: each names the overlap, recorded in a history variable at the step where it happens, that is the only way to break the promise (`JobKeptUnlessOverlapped` and `CountCovers` also except a counter that an administrator wrote);
- deaths and lost answers: `DuplicatesExplained`, `DedupExplained`, `TrialUnlessCut`, `MarkedIsActivated`, `BalanceExplained`, `PendingIsUnderWay` (a refused job, a process that stopped, a job given up without an outcome), `UntoldOnlyByGap`, `FailuresRecent` and `CounterWillExpire` (unless the first report was cut short: then the counter never expires), `OpenEnds` (unless a delivery began on a failed read while the breaker was open: its failure opens it anew);
- the shape of the code: `StrandedOnlyByInsert`, `CleanExit` (rows that come after `onModuleDestroy` was called, or that wait behind an insert which it met), `RoomOfMembers` (who is in the room has been in the project, and need no longer be), `NewestIsReached`, `CapUnlessCrowded`, `OpenIsHeld`, `GaugeExplained`, `ErasedButEncrypted`, `ExtremesBracket`, `CountedUnlessNested`, `OffsetErrsByChange`, `OpensWithEitherKey`.

## 4. Fairness

- Delivery: weak fairness of each worker's `Take` and of its next await (the event loop resumes what is ready), of Bull's stalled-job check, of the API call that is about to add a job, and of the crons. Users, crashes, evictions, expiry lookups and receivers' choices get none. No strong fairness is used.
- SharedBreaker, EndpointCache: time passes, and what has been started ends; nobody has to send or write.
- LogWriter: timers fire, inserts end, a process that closes exits, and rows keep coming while it is up (`TrafficDrains` is a statement about traffic).
- Scheduling: passes run and go on; users owe nothing. `DueIsDispatched` excepts schedules whose event key was used elsewhere, or by a pass that died: they stay PENDING for good (section 6).
- Everything else states safety only.

## 5. Proofs

Eight modules named `..._proofs`; all leaves are checked by tlapm, with no assumption beyond the named `ASSUME`s on constants: lengths, limits and bounds are numbers, sets of requests, workers, users and documents are finite where something is counted, and a few sentinels ("none", the general application of `Careers`) are not members of the sets they stand beside. Except where a hypothesis is named below, each theorem is `Spec => []P` or `Spec => [][A]_v`, for every value of the constants, by an inductive invariant that contains `P`. Every safety property that a passing run checks has its theorem.

`Delivery_proofs`
- `TypeCorrect`: `TypeOK` is inductive; one lemma for the steps of `deliver` (one case per await), one for all others.
- `BudgetIsSpent`: `BudgetSpent` is not inductive by itself, since a worker writes a count it read long ago. `BudgetInv` adds `WorkerBudget`: the count a worker holds never exceeds the failed tries of its event, is strictly behind once its own failure is counted, and is at the budget when it is about to bury the event. A replay resets `retryCount` and leaves the failures, so the inequality survives; two workers that fail with the same count write the same, smaller, number.
- `DeliveredIsAccepted`: `AcceptInv`, a worker about to write DELIVERED has seen a 2xx.
- `NeverOrphaned`, `NotSentAgain`, `LifecycleImplemented` have the hypothesis `Calm`: receivers may refuse or be late and limits may deny, but nothing crashes, no cron runs and nobody replays, the endpoint has its id and the delay table a delay for each retry. `DeliveryCalm` is such an instance. `Calm` lets in as many disturbances as it can: with any one of the other twelve added to that instance's `Env`, TLC refutes at least one of the run's three properties. `CalmInv`: one thing at a time carries an event (`OneCarrier`), an open event has such a carrier (`OpenIsHeld`), the worker that is the carrier knows the event's status and count (`Fits`), and the job id of the next retry has not been used (`NextIsFresh`), so that Bull does not ignore it. `LifecycleImplemented` is the safety half of the refinement: the first state maps to one of `EventLifecycle`, every step to one of its steps or a stutter.

`Guards_proofs`
- `CapHolds`: `WithinCap`, inductive with the type of the counters (`CapInv`). `QuotaImplemented`: the token update is a `Grant`, the restart update a `Restart`, everything else a stutter.
- `LimiterIsSafe`: for each window the tokens ever granted fall into three epochs (`TokensInEpochs`): those of the counter under way, at most `used`; those of the one before, at most a cap; and older ones, too old for one stretch with anything still to come, because a restart takes place no earlier than a window's length after the last one, less the lag of the call that does it (`WindowsAreAhead`, `CallsAreRecent`). A stretch that is shorter than a window meets two epochs.
- `BreakerIsSafe`, failed reads included: a report about to set the expiry is at least as old as the counter (`ExpiryIsOlder`), so the bound on the lag bounds the counter's age when it gets its expiry, and from then on each tick of age costs a tick of it (`AgePaid`).
- `CacheIsSafe`: age is paid for here, too. A fill is no older than its read (`FillBounded`), each tick the entry ages is a tick off its time to live (`EntryBounded`), and a use adds the lag of its own read (`UseBounded`).
- `WriterIsSafe`: what is buffered while an insert runs is known to have come then (`FlushKeepsUp`); while the process closes, what is buffered is among the rows it does not wait for, and an insert under way is either awaited or one of those, too (`LeftOrAwaited`); the exit waits for the former.

`Ingest_proofs`
- `OneJob`: `JobsInv` says that a request between `create` and `add` is alone with its key, which has no job yet; the unique index keeps it so.
- `IngestIsIntake`: from `JobsInv`, `Create` of a free key is a `Store`, `Add` a `Queue` (the key has an event and no job yet), and everything else leaves the mapped state alone.
- `IngestIsSafe`: `LimitInv` counts, per route, what was created plus the requests past the limit that may still create, and for the project's counter the requests not counted yet; a request that passes the limit was outside all of these sets, which leaves room for one less than there are requests. `MarkInv`: a mark alive in Redis stays explained, because a holder that leaves has made the event, met one of the same key, or died.

`Scheduling_proofs`
- `SchedulingIsSafe`: what was made of a keyed schedule is known by its key, so the unique index refuses the next pass (`MadeKnown`); a pass about to mark has added the job (`JobBeforeMark`); and while a schedule is PENDING each of its events is charged to a pass that still has it or to a death (`Counted`, by cardinalities).
- `SchedulingIsIntake`: a key belongs to one schedule (`OwnKeys`: nothing changes a key, and the clean-up after 30 days is left out), so the jobs under a key are those of that schedule; and of a keyed schedule there is one pass at most between the event and the job, none once it was sent (`SentOnce`). Hence `CreateEvent` of a keyed schedule and `SendElsewhere` are `Store`, `AddJob` is `Queue`, and keyless schedules do not show.

`Sessions_proofs`, `SessionsAreSafe`: requests under way carry the current epoch or are marked late by what ends it (`WorkOfEpoch`); a link that was not found twice is with one request at most, and with none once used (`ResetIsAlone`); sessions and the requests about to push one are no more than the logins and late refreshes (`CountInv`).

`Identity_proofs`
- `CodesAreSafe`: a code that is held was drawn by its holder and was not taken (`HeldIsFresh`), so a second exchange finds none.
- `FactorIsSafe`: a stored recovery code was not spent (`StoredIsUnspent`); while no two changes overlapped, the one under way still stands on what it read (`ChangeIsAlone`).
- `AccountsAreSafe`: what a request does to an account it does to one that is there, and whoever marks an address has seen its owner (`ClerksKnow`).
- `KeysAreSafe`: a ciphertext keeps the key and label it was sealed under, so what it opens to depends on the deployment alone; the type is all that has to be kept.
- `SecretsComeBack`: `Base32Inv` says what each character of the text shows of the bytes (`TextShows`: five bits of two neighbours, zeros after the last) and that the word ends with the last byte while the text grows, with the first bits of the next byte while it is read (`EndsWith`). What an overflow cuts off is a multiple of 2^12 (`WordKeeps`), and no more than 12 bits of the word are ever looked at: that is why the assumption asks the number of a word's values to be a multiple of 4096, and why the length of the secret does not matter.

`Tenancy_proofs`, by one invariant (`TenancyInvariant`) of `Workspaces` and `Projects` together, as the guard reads both:
- `WorkspacesAreSafe`: a request past its check has seen what it was to see (`RequestsChecked`); while the history names no overlap, the one request that has looked for a member, an invitation or an address is alone with it (`JoinsAlone`, `UsedAlone`, `InvitesAlone`), and nobody else has written in between.
- `ProjectsAreSafe`: the same for rows and default projects (`AddsAlone`, `DefaultsAlone`: a request about to make a default project stands where the user has none, and a deletion only takes one away); what the guard has read, it read no longer ago than its request is old (`ReadLately`), so the entry it stores ages with its time to live.

`Records_proofs`
- `NewsletterIsSafe`: a request to unsubscribe has the last mail's link, or that mail's token is marked (`LinkIsLast`).
- `EndpointsAreSafe`: a URL about to be used is free or marked (`UrlFree`); the endpoints and those about to be created are counted together; a rotation about to answer has the secret in use (`SecretKnown`).
- `CareersAreSafe`: the counter covers what is stored and what has been counted but not stored, unless an administrator wrote it (`CounterCovers`); a deletion that is not marked has found none and meets none (`DeletesNone`).
- `AnswersAreSafe`: what is left of an entry's life and the age of its data are at most the life and the handler's time (`EntryAge`).
- `TrialMailsAreSafe`: a user whose trial has expired was told, was left out by a sweep that failed, is about to be told, or was first seen by a sweep an hour late (`NoneForgotten`); every sweep that may still tell someone has let a trial of its own expire (`TellersCovered`).
- `LettersAreSafe`: jobs added, those replays will add and a death nobody has found yet are together no more than the deaths and the replays asked for (`JobsCovered`); an event put back to pending has a job, a worker or a replay about to add one, or has been dropped since, and a job that is added or taken does not count as dropped; an event under erasure is gone or will be, with its logs unless a delivery overlaps (`EraseClear`).
- `PaymentsAreSafe`: `BooksInv` has the numbers (one that a call has counted to is free or has been taken since, and the unique index refuses it then), rows (the call that wrote a payment's row is the only one to write its invoice) and credits (each was asked for by its own confirmation); `MarksInv` has the periods granted, about to be, and still to come. `PaidStays` is the action property, from the same invariant.
- `LocalBreakersAreSafe`: a breaker somebody holds is in the map or excused (`InHand`); what is evicted exists and is closed if any is, the oldest of them being a least number.
- `TunnelsAreSafe`: a session is an open stream of its tunnel (`SessionsAreOwn`), the newest client's unless it was cut off (`NewestIsOwn`); creation removes one tunnel when the map is full and one of them is idle.
- `ReportsAreSafe`: the sums of a report are limits of partial sums, which exist, are unique and move by what one hour moves; a record that was alone from its read to its write has shown its latency to the hour's extremes, and later copies know them (`SolidIsShown`).
- `ListingIsSafe`: places in a list are the numbers below its length, each taken once (`PlacesAreTaken`), so a full page is full. By cursor, an event that stayed was shown unless it is beyond the cursor (`CursorAt`). By offset, an event seen is before the next page but for those that came, one not seen is not before it unless some went (`OffsetAt`).

What is recursive or chosen is handled by its least counterexample: a set of numbers that is not empty has a least element (`Least`, from the well-foundedness of `<`), which gives induction over the numbers without an operator as a parameter.

Proof attempts corrected the model where the small instances had shown nothing. `ExtremesBracket` was stated for records that did not overlap a *write*; with a fourth record a copy read in between hides a minimum, and the property now speaks of records alone from read to write. `RoleBounded` had asked for the role and the project's presence at one instant, which the guard's two reads do not give. A replay-all that has fetched a short batch and one that will look again are different ("rest" in `DeadLetters`). The bound on the counter of `Careers` stopped a half-done request rather than a new one.

Only model-checked:
- all liveness: the fairness half of `LifecycleSpec`, `RateQueuedMovesOn`, `OpenEnds`, `TrafficDrains`, `Converges`, `DueIsDispatched`. ENABLED and fairness are out of the prover's reach.

## 6. Findings

Demonstrated by a run:

1. `DeliveryTooManyRetries`: `maxRetries` may be up to 10, the delay table has 5 entries; after the fifth failure the event stays RETRYING without a job.
2. `DeliveryNoId`: the endpoint comes from `lean()` or from JSON, where the `id` virtual does not exist; `checkRateLimit(undefined)` denies every delivery, and the event is drip-queued for ever.
3. `SchedulingCancel`: a cancellation that meets a pass is answered "cancelled", and the event is sent.
4. `Months`: `usageResetAt` is null by default and set by nothing but the reset itself, which looks for dates that are past; null is not one. No monthly counter is ever reset, and a project that has sent `monthlyEventLimit` events in its life is refused for good.

Observed while modelling; where a module is named, it can be reproduced by changing `Env`, a bound, or the exception of a property.

Delivery:

- A maintenance window writes RETRYING and a `nextRetryAt` that nothing reads: no job exists (`Env = {"maintenance"}` against `NoOrphan`). `isInMaintenance` compares within one UTC day: a window over midnight never applies.
- A breaker that is open twice at one count adds the same job id twice; the second add is ignored while the first job is remembered (`{"reject", "breaker"}` against `NoOrphan`). A replay reuses the ids as well (`{"reject", "replay"}` against `EventuallySettled`).
- Without a log writer every answered failure inserts two rows for one `(eventId, attempt)`; the second insert throws and the event is neither retried nor buried (`{"reject", "logClash"}` against `NoOrphan`).
- An exception from the OAuth token request or the S3/GCS target is outside the `try`: the event is left as it was, without a job (`{"throw"}` against `NoOrphan`). No route sets those fields.
- An error in the analytics after DELIVERED was written counts as a failed delivery and the event is sent again (`{"record"}` against `LifecycleSpec`). It takes an event type that is a part of another one's dotted name (`Buckets`): the database refuses such an update.
- `scheduleRetry` takes its delay from a table, while `nextRetryAt` is computed from the endpoint's strategy; `maxRetries: 0` means 5 (`||`).
- A rate-queued event gets a drip job and a cron job every minute: it is sent more than once (`{"limit", "cron"}` against `SentWhileOpen`).
- The gauge of open breakers, "Number of circuit breakers currently open" (`metrics.service.ts:111`), goes up with every probe that fails and never comes down for it, nor for a breaker that was evicted (`LocalBreakers`).
- A replayed event whose job the queue refused stays PENDING for good, and so does one whose endpoint is paused or gone when the job comes (`delivery.service.ts:86` returns with nothing written) (`DeadLetters`). An erasure finds customers in the payload, and so misses events whose payload is encrypted.

- `isOpen` answers false when Redis fails: deliveries go through an open breaker, and each failure of theirs opens it for another `BREAKER_RESET_MS` (`SharedBreaker`, `OpenEnds` without `blind`).
- On shutdown the log writer flushes before the queues are closed: rows of deliveries that end later are lost, as are, when an insert was under way, those that wait behind it. A signal runs Nest's own shutdown hooks and those of `main.ts` side by side (`LogWriter`, `CleanExit` without `left`).

Accounts and tenants:

- The sparse unique index on `googleId` covers a stored null: a second account without a Google login meets it (`Accounts`).
- Refresh and the second step of a login do not look at suspension (`Sessions`). Two sessions of one user that begin in the same second have equal tokens, and a logout of one ends both.
- A TOTP code is not marked as used within its window.
- `workspaces.service.ts:123` reads a subscription field that the schema does not have, so the default limit applies. `super_admin` passes as an owner.
- A second default project, a second row of a member, a second open invitation need only two requests at once (`Workspaces`, `Projects`); a default project that was deleted is made anew, under another id, by the next call.
- `userSockets`, endpoint rooms and the delivery-retry notification of the gateway are never used; workspace members reach a project but not its room.

Billing:

- `billing.controller.ts` reads `req.user.userId`, a field the authenticated user document does not have. The runs set `PassesId = TRUE`, as if it had; with `FALSE` all callers share the account "undefined".
- `SubscriptionGuard` is bound globally and runs before the JWT guard: it never sees a user, and `isAllowed` is not reached.
- `cancelSubscription` answers "Access continues until current period end", and the status is cancelled at once.
- Trial warnings are sent every hour that the end lies in the window, not once.
- A trial whose end the sweeps straddle, and one in a sweep that fails, gets no mail (`TrialMails`).

Events, schedules and the rest:

- A schedule whose event key exists already fails in every pass and stays PENDING (the exception of `DueIsDispatched`); with `limit(100)` and no order, a hundred of them can starve the rest (`Batch = 1` against `DueIsDispatched`). The unique index of schedules covers null keys and cancelled schedules. DELIVERED and EXPIRED of a schedule are set by no code.
- `broadcast` passes by the monthly limit and its counter (`Ingest`).
- The event catalogue's validation always answers valid (the DTO drops `schema`), and `version` is ignored.
- A deleted tunnel's client connects again to the id that is gone and is registered (`Tunnels`, `StrayIsLive`); a client whose connection is cut without an end does not connect again.
- The breakdown by event type is garbled for dotted types, and an hour with a single record, whose minimum is stored as absent, hides the minimum of the summary (`Buckets`).
- `PATCH /admin/careers/jobs/:id` takes any body, the counter of applications included (`Careers`).
- With encryption switched off and the label left, ciphertext is handed out as text (`KeyRotation`).

## 7. Plan

Done: the core pipeline and its neighbours, intake, scheduling, billing, tenancy, identity, tunnels, analytics, encryption keys, the public site.

Next, in order:

1. Composition: `Scheduling` and `Ingest` implement one intake (`EventIntake`); show that `Delivery!Create` needs no more than that.
2. An abstract specification of sessions, with its refinement proved.
3. An abstract ledger that determines the balance, and the purchases of `Billing` as an implementation of it up to torn calls.
4. The shadow request of `deliver`.
